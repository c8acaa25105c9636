SPECIFICATION Spec
CONSTANTS
  a = a
  b = b
  c = c
  static = static
  Null = Null
  Obj = {a, b}
  Root = {static}
  Field = {1}
  NBlocks = 1
  BlockOf <- MCOneBlock
  Uncollectable = {}
  Large = {}
  Junk = {a}
  Incremental = TRUE
  ManualVdb = TRUE
  Threads = 1
  Registers = 2
  KeepStored = TRUE
  StaticVdb = FALSE
  InitialMarkStackSize = 1
  MarkStackBound = 2
  Discards = 1
  MaxPriorAttempts = 0
  DontGc = TRUE
  MarkOnFree = TRUE
INVARIANTS NoLiveReclaimed MarkInvariant NoDoubleInsert CompleteAtFinish
PROPERTIES ImplementsSafeHeap
