SPECIFICATION Spec
CONSTANTS
    HeaderSize = 2
    ChunkNonceSize = 1
    ChunkTagSize = 1
    ChunkPayloadSize = 3
    MaxSize = 10
    MaxRead = 4
INVARIANTS
    TypeOK
    ContentIsExact
