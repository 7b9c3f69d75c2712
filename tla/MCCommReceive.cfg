SPECIFICATION FairReceiveSpec
CONSTANTS
    Bytes <- MCBytes
    MaxPayload = 2
    CrcInit <- MCCrcInit
    CrcStep <- MCCrcStep
    CrcOf <- MCCrcOf
    Capacity = 2
    BatchSize = 2
    Request <- MCRequest
INVARIANTS
    DeliveredIsFramed
    RefusedIsNoFrame
    RoomForNextByte
    BatchAgrees
    NoDropForgotten
    HeardInTime
PROPERTIES
    RequestIsHeard
