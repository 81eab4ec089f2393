CHECK_DEADLOCK FALSE
SPECIFICATION Spec
CONSTANTS
  n1 = n1
  n2 = n2
  s1 = s1
  None = None
  Nested <- Update4
  Notifications = {n1, n2}
  Sources = {s1}
  SourceOf <- MCSameSource
  CriticalNotes = {n2}
  TransientNotes = {n1}
  ResidentNotes = {n2}
  TransientSources = {}
  ChatSources = {}
  InputSets <- MCClicks
  MaxCalls = 2
  MaxLeft = 1
INVARIANTS
  Settled
