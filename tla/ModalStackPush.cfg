SPECIFICATION ModalSpec
CONSTANTS
  None = None
  Actors = {a1, a2, f1}
  Modals = {a1, a2}
  Unchecked = {}
  Destroyable = {f1}
CHECK_DEADLOCK FALSE
PROPERTIES
  PushAcquiresGrab
