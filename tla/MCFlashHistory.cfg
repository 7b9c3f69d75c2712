SPECIFICATION FairHistorySpec
CONSTANTS
    Blank = Blank
    Partial = Partial
    Images <- MCThreeImages
    FactorySlots <- MCFactorySlots
    ImageSize = 2
    FlashMayFail = TRUE
VIEW HistoryView
INVARIANTS
    TypeOK
    WriterIsMarked
    MarkerFollowsTransfer
PROPERTIES
    ImplementsPolicy
    AcknowledgedUpdateIsDurable
    UpdateEnds
    DeviceSettles
