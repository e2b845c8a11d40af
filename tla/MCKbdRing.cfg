SPECIFICATION Spec
CONSTANTS
    Value = {a, b}
    Size = 4
    CountMod = 3
    NoValue = none
INVARIANTS
    PopIsStable
PROPERTY
    FifoImplemented
