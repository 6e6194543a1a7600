SPECIFICATION MCSpec
CONSTANTS
  Threads = {t1, t2, t3, t4}
  Items = {a, b}
  Calls = {"push", "try_pop", "pop", "peek"}
  MaxPushes = 3
  MaxPeeks = 1
  Contents = {zero, c, d}
  Zero = zero
  Garbage = garbage
  CpuOnly = FALSE
INVARIANTS QueueIInv MemIInv
PROPERTIES FifoSpec CellSpec
CHECK_DEADLOCK FALSE
