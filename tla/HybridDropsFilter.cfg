CONSTANTS
    Texts <- SomeTexts
    Sources = {"s", "t", "inline"}
    Tags = {"x"}
    OldRows <- SomeRows
    MaxVectors = 3
    RRF_K = 60
    RERANK_BATCH = 2
    FILTER_FACTOR = 2
    FILTER_LEAST = 3
    DIVERSE_FACTOR = 2
    DIVERSE_LEAST = 3
    QUERY_WORDS = 3
    NaN = NaN
    HttpRequests <- Nothing
    McpLines <- Nothing
    Commands <- FilteredHybrid
    Calls <- Nothing
    MAX_TOP_K = 5
    MAX_BODY_BYTES = 1
    NotAnObject = NotAnObject
    Null = Null
    Wrong = Wrong
    None = None
SPECIFICATION Spec
INVARIANT CommandKeepsTheFilter
