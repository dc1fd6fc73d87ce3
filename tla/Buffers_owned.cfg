SPECIFICATION BufferSpec
CONSTANTS
  Objects = {o1, o2, o3}
  Fds = {fd1, fd2, fd3}
  Areas = {a1, a2, a3}
  NoFd = NoFd
  Null = Null
  WordMod = 32
  Page = 4
  SlotBytes = 2
  Requests <- EverySize
SYMMETRY Interchangeable
INVARIANTS
  BufferTypeOK
  NothingLeaks
  OwnedOnce
  LiveIsMirrored
