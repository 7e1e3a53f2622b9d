SPECIFICATION Spec
CONSTANTS
  HookLevel <- MCHooks
  Images <- MCImages
  Ram <- MCRam
  UINT32_MAX = 255
  HseTimeout = 3
INVARIANTS InitBeforeUse ImageInPlace
PROPERTIES BootEnds
CHECK_DEADLOCK FALSE
