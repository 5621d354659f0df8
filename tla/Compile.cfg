SPECIFICATION Spec
CONSTANTS
    Programs <- MCPrograms
    MaxIndexRK = 1
    MaxStack = 20
    FieldsPerFlush = 2
    MaxVars = 20
    MaxUpvalues = 10
    MaxInputs = 3
    MaxCells = 5
    Slack = 4
CHECK_DEADLOCK FALSE
INVARIANTS
    AssertsHold
PROPERTIES
    MeansProgram
