SPECIFICATION Spec
CONSTANTS
  Process = {p1, p2, p3}
  lock1 = lock1  lock2 = lock2  lock3 = lock3  fifo = fifo
  Inode = {lock1, lock2, lock3, fifo}
  Regular = {lock1, lock2, lock3}
  NoInode = NoInode
  NoProcess = NoProcess
  Faults = {"replace", "move", "nonce", "crash"}
SYMMETRY Symmetric
INVARIANTS
  AtMostOneHeld
  NoStaleLock
PROPERTIES
  StartsAlone
