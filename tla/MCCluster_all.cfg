SPECIFICATION Spec
CONSTANTS
    Kind <- MCKind
    ConfPort <- MCConfPort
    Repairs <- MCRepairs
    Ephemeral = {1, 2}
    MaxStarts = 3
INVARIANTS Findable
PROPERTIES NeverLost Reaped
CHECK_DEADLOCK FALSE
