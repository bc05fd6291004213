CONSTANTS
    f1 = f1
    f2 = f2
    notes = notes
    sub = sub
    Files = {f1, f2}
    Folders = {notes, sub}
    Under <- Nested
    Watched = notes
    Contents = {1, 2, 3}
    Parsable = {1, 3}
    Reverts = {f2}
    None = None
SPECIFICATION FairSpec
INVARIANTS
    SInv
    SkipsOnlyWhatIsStored
    PassMirrors
    HashesHaveChunks
    HashesVouch
PROPERTIES
    PassKeepsWhatIsThere
    WatchMirrors
