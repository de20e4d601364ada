\* Three titles of two articles, any number of runs.
SPECIFICATION Spec
CONSTANTS
    kafka = kafka
    redis = redis
    kafkaTitle = kafkaTitle
    kafkaAlias = kafkaAlias
    redisTitle = redisTitle
    long = long
    short = short
    Docs = {kafka, redis}
    Titles = {kafkaTitle, kafkaAlias, redisTitle}
    Versions = {long, short}
    ChunkCount <- MCChunkCount
    Resolves <- MCResolves
    BatchSize = 2
    Dimensions = {1, 2}
    Options <- MCOptions
    NoVersion = NoVersion
    NoDimension = NoDimension
    NoTitle = NoTitle
INVARIANTS
    FinishedDocumentsAreWhole
    EveryTitleIsAccountedFor
    SuccessMeansStored
    WritesFitTheCollection
PROPERTIES
    NeverMissingMidUpdate
    CountedDocumentsAreCurrent
    ImplementsIndex
    EveryRunEnds
CHECK_DEADLOCK TRUE
