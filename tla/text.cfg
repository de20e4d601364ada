\* Chunks of five characters with an overlap of two, batches of two.
SPECIFICATION PipeSpec
CONSTANTS
    Levels <- MCLevels
    Articles <- MCArticles
    ChunkSize = 5
    ChunkOverlap = 2
    EmbedBatchSize = 2
INVARIANTS
    SkipsExcludedSectionsOnly
    ChunksFit
    ChunksAdvance
    ChunksAreVerbatim
    EveryCharacterIsInAChunk
    VectorsInInputOrder
CHECK_DEADLOCK FALSE
