SPECIFICATION Spec
CONSTANTS
    MaxUdpPayload = 11
    HeaderSize = 3
    SequenceBytes = 3
    DigestSize = 2
    LenRange = 9
    MaxTotalChunks = 7
    BitsPerWord = 3
    BytesPerKib = 4
    MaxRate = 5
    Sizes <- MCSizes
    ChunkSizes <- MCChunkSizes
    Bandwidths = {0, 1, 3}
INVARIANTS DataFits NacksHeard BitsApart WrittenAsMarked FullIsAll PaceKept
CHECK_DEADLOCK FALSE
