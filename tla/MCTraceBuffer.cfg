SPECIFICATION Spec
CONSTANTS
  Threads = {t1, t2}
  Main = t1
  Functions = {f, g}
  Size = 2
  MaxCalls = 4
  Empty = Empty
INVARIANTS StoresInBounds EntriesAreCalls AloneEveryCallLogged OutputInOrder
PROPERTY IsBoundedLog
CHECK_DEADLOCK FALSE
