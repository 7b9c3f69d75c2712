SPECIFICATION Spec
CONSTANTS
    Bytes = {0, 1, 2}
    Size = 4
PROPERTIES
    ImplementsFifo
