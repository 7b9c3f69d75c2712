SPECIFICATION UndisturbedSpec
CONSTANTS
    Blank = Blank
    Partial = Partial
    Images <- MCTwoImages
    FactorySlots <- MCEmptyFactory
    ImageSize = 1
    FlashMayFail = FALSE
VIEW View
PROPERTIES
    EmptyDeviceWaits
