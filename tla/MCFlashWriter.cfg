SPECIFICATION HistorySpec
CONSTANTS
    Bytes <- MCBytes
    SlotSize = 6
    MaxChunk = 3
    BlockSize = 3
    LengthSize = 1
INVARIANTS
    HashedIsStored
    FlushedImageIsWhole
    StreamedDigestIsOfImage
    ContractUnlessRetried
PROPERTIES
    ImplementsStore
