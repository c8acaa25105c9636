SPECIFICATION ModesSpec
CONSTANTS
    a = a
    b = b
    c = c
    static = static
    Null = Null
    Obj = {a, b, c}
    Field = {1}
    NBlocks = 2
    Registers = 2
    InitialMarkStackSize = 1
    MarkStackBound = 2
    Discards = 1
INVARIANTS MixedSafe StoppedPrecise
VIEW ModesView
