SPECIFICATION MainSpec
CONSTANTS
  None = None
  Actors = {a1, a2, a3, f1}
  Modals = {a1, a2, a3}
  Unchecked = {a3}
  Destroyable = {a2, f1}
  Windows = {w1, w2}
  Transient = {w2}
  Launches = {l1}
  MaxWorkspaces = 3
INVARIANTS
  
  RoomAtTheEnd
PROPERTIES
  SessionFocusRestored
  CheckKeepsUsed
