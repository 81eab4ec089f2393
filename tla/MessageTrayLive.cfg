CHECK_DEADLOCK FALSE
SPECIFICATION FairSpec
CONSTANTS
  n1 = n1
  n2 = n2
  s1 = s1
  None = None
  Nested <- Update4
  Notifications = {n1}
  Sources = {s1}
  SourceOf <- MCOneNote
  CriticalNotes = {}
  TransientNotes = {}
  ResidentNotes = {}
  TransientSources = {}
  ChatSources = {}
  InputSets <- MCCalm
  MaxCalls = 1
  MaxLeft = 1
PROPERTIES
  TrayRests
