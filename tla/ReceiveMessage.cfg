\* As Messaging.cfg.
CONSTANTS
  MaxPID = 2
  KernelSlice = 1
  ELFSlice = 1
  MaxSegments = 1
  Kernel = Kernel
  NULL = NULL
  Data = {key, CapsLock}
  CapsLock = CapsLock
  MaxPosted = 2
SPECIFICATION MsgSpec
INVARIANT GrabsNextMessage
