CONSTANTS
    t1 = t1  t2 = t2  p1 = p1  p2 = p2  p3 = p3  d1 = d1  d2 = d2  q1 = q1  q2 = q2
    o1 = o1  o2 = o2  o3 = o3
    long = long  short = short  blank = blank  sun = sun  rain = rain  s1 = s1  s2 = s2
    Threads = {t1, t2}
    EngineErrors = {"Io", "TooLarge"}
    MaxResults = 2
    MaxCalls = 4
    Null = Null
    PyThreads = {p1, p2, p3}
    PySources = {d1, d2}
    MaxPyCalls = 4
    Nobody = Nobody
    Pulls = {q1, q2}
    MaxInodes = 3
    NoFile = NoFile
    Openers = {o1, o2, o3}
    Unrecorded = Unrecorded
    Sources = {s1, s2}
    Contents = {long, short, blank}
    ChunkCount <- MCChunkCount
    Terms = {sun, rain}
    TermCount <- MCTermCount
    LengthOf <- MCLengthOf
    MaxChunks = 4
    None = None

SPECIFICATION BindingsSpec
SYMMETRY Symmetry
INVARIANTS
    ErrorsBelongToTheirCalls
    EveryArrayHasOneOwner
    NobodyWaitsInACircle
    QueriesSeeWholeCalls
    DownloadsAreWhole
    PulledModelsOpen
    OpenIsComplete
    VersionIsTrue
    VectorsAgree
    KeywordsAgree
PROPERTIES
    ImportAnswersAlike
    ImplementsPageStore
