CONSTANTS
  run = run
  entry = entry
  menu = menu
  panel = panel
  endDialog = endDialog
  None = None
  Actors = {run, entry, menu, panel, endDialog}
  Modals = {run, menu, endDialog}
  Unchecked = {menu}
  Destroyable = {panel}
  Dialogs = {run, endDialog}
  Inside <- MCInside
  Initial <- MCInitial
  Runners = {run}
  Inhibitors = {i1, i2}
  MaxCalls = 2
  Requests = {r1, r2, r3}
  NoRequest = NoRequest
  Works = {v1, v2}
  NoCallback = NoCallback
  MaxRedraws = 3
SPECIFICATION ServicesSpec
INVARIANTS
  ModalIsWhatIsOpen
  EndDialogIsCurrent
  
PROPERTIES
  DialogsSettle
  OnlyItsOwnRequest
  ServesInOrder
  
  QueuedWorkRuns
\* The agent stops when every request was answered, the work when every actor
\* was destroyed.
CHECK_DEADLOCK FALSE
