SPECIFICATION Spec
CONSTANTS
    Blank = Blank
    Partial = Partial
    Images <- MCThreeImages
    FactorySlots <- MCFactorySlots
    ImageSize = 1
    FlashMayFail = FALSE
VIEW View
INVARIANTS
    RecoveryAcceptsUpdate
