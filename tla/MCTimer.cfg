SPECIFICATION TimerSpec
CONSTANTS
    Modulus = 8
    Durations <- MCDurations
    Horizon = 20
INVARIANTS
    NeverEarly
    ExpiresOnTime
