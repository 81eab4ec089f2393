CONSTANTS
  Actors = {overview, dialog, menu}
  Modals = {overview, dialog, menu}
  Unchecked = {}
  Destroyable = {}
  None = None
  overview = overview
  DragWindows = {w1}
  MaxRecords = 3
SPECIFICATION OverviewSafety
INVARIANT HideReversesShow

