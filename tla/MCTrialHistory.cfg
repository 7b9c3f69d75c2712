SPECIFICATION HistorySpec
CONSTANTS
    Blank = Blank
    Partial = Partial
    Images <- MCImages
    FactorySlots <- MCEmptyFactory
VIEW HistoryView
INVARIANTS
    TrialBootsAreLimited
