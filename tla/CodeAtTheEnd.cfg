CONSTANTS
    Batches <- SomeFiles
    Configs <- OneConfig
    Registered <- CustomLog
    MAX_FILE_BYTES = 5
    Missing = Missing
    Malformed = Malformed
    Vocabulary <- SmallVocabulary
    MAX_SEQ_LEN = 6
    MAX_WORD_CHARS = 4
    BATCH_SIZE = 2
SPECIFICATION Spec
INVARIANT EveryDocumentIsChunked
