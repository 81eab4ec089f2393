CONSTANTS
  Actors = {overview, dialog, menu}
  Modals = {overview, dialog, menu}
  Unchecked = {}
  Destroyable = {}
  None = None
  overview = overview
  DragWindows = {w1, w2}
  MaxRecords = 3
SPECIFICATION OverviewSpec
INVARIANTS VisibleWhenWanted  DesktopGetsInput
PROPERTIES WishComesTrue

