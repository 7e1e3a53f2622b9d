CONSTANTS
  Users = {u1}
  KernelThr = kernel
  IdleThr = idle
  Root = root
  NULL = null
  MaxRx = 1
  MaxEvents = 1
SPECIFICATION Spec
INVARIANT
  TimerExpiryKept
