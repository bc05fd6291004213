CONSTANTS
    Points = {0, 2, 3}
    Distance <- MCDistance
    M = 2
    EfConstruction = 2
    EfSearch = 1
    Asked = {1, 2}
    MAX_LEVEL = 1
    MaxVectors = 5
    MaxRemoved = 1
    None = None
SPECIFICATION Spec
INVARIANTS
    SearchIsRight
    WhatIsWrittenLoads
PROPERTY ImplementsLayeredGraph
CHECK_DEADLOCK FALSE
