\* Two searches while the CLI ingests and recreates.
SPECIFICATION KBSpec
CONSTANTS
    kafka = kafka
    kafkaTitle = kafkaTitle
    short = short
    Docs = {kafka}
    Titles = {kafkaTitle}
    Versions = {short}
    ChunkCount <- MCChunkCount
    Resolves <- MCResolves
    BatchSize = 1
    Dimensions = {1, 2}
    ModelSizes = {1}
    Options <- MCOptions
    NoVersion = NoVersion
    NoDimension = NoDimension
    NoTitle = NoTitle
    Searches = {s1, s2}
INVARIANTS
    ErrorsTellWhatHappened
    RestartCuresStaleSizes
PROPERTIES
    EverySearchEnds
CHECK_DEADLOCK TRUE
