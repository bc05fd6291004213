CONSTANTS
    s1 = s1
    s2 = s2
    short = short
    long = long
    modelA = modelA
    modelB = modelB
    e1 = e1
    e2 = e2
    e3 = e3
    e4 = e4
    Sources = {s1, s2}
    Contents = {short, long}
    ChunkCount <- MCChunkCount
    Models = {modelA, modelB}
    DimOf <- SameDims
    Epochs = {e1, e2, e3, e4}
    FlushEvery = 2
    InitialRows <- NewDatabase
    MaxVectors = 3
    None = None
SPECIFICATION Spec
SYMMETRY EpochSymmetry
PROPERTY AddingAgainReplaces
