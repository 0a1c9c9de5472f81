SPECIFICATION Spec
CONSTANTS
    Elem = {a, b}
    Uninit = Uninit
    CreateSize = 2
    MaxSize = 8
INVARIANT TypeOK
PROPERTY IsFifo
