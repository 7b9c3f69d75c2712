SPECIFICATION Spec
CONSTANTS
    a = a
    b = b
    c = c
    Contents <- MCContents
    DefaultContents = a
VIEW RelativeGenerations
INVARIANTS
    TypeOK
    WriteSparesSource
PROPERTIES
    GenerationNeverDecreases
    ImplementsRegister
