CONSTANTS
    t1 = t1  t2 = t2
    p1 = p1  p2 = p2  p3 = p3  p4 = p4  p5 = p5
    Null = Null  Undefined = Undefined  None = None
    InitialMaxPtrs = 2
    MaxArrays = 3
    Threads <- MCTwoThreads
    Pointers <- MCPair
SPECIFICATION Spec
INVARIANT HandlesAreDistinct
