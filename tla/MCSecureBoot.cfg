SPECIFICATION Spec
CONSTANTS
    Blank = Blank
    Partial = Partial
    Images <- MCImages
    FactorySlots <- MCFactorySlots
VIEW RelativeGenerations
INVARIANTS
    TypeOK
    ConfirmedIntact
    TrialIntact
    RunningVerified
    RunningIsDue
    TrialChargedBeforeRun
PROPERTIES
    BootableNeverLost
    ConfirmationNeverLost
    RecoveryResolves
