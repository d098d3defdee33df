SPECIFICATION ShortWindowSpec
CONSTANTS
    p1 = p1
    p2 = p2
    block = block
    tree = tree
    alice = alice
    Objects <- BlockAndTree
    Blocks <- OneBlock
    Owner <- OfAlice
    Size <- OneByte
    Puts <- TwoPuts
    Gates <- TwoGates
    GlobalConcurrency = 2
    UserConcurrency = 2
    Budget = 1
    Capacity = 2
    MaxRow = 2
INVARIANTS
    AcceptedWithinBudget
