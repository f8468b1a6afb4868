CONSTANTS
    Interval = 4
    MaxHeight = 22
SPECIFICATION Spec
INVARIANTS
    TypeOK
    EveryIntervalChecked
