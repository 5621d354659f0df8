SPECIFICATION Spec
CONSTANTS
    s1 = s1
    s2 = s2
    Nil = Nil
    a = a
    b = b
    IntKeys = {0, 1, 2, 3, 4}
    StrKeys = {s1, s2}
    LuaKeys = {1, 2, 3, s1, s2}
    LuaValues <- MCLuaValues
    Hash <- MCHash
    Values = {a, b}
    MaxBits = 3
    MaxInt = 3
    NewSizes <- MCNewSizes
    ListSizes = {2}
    Clients = {"lua", "ref"}
    MaxFails = 1
CHECK_DEADLOCK FALSE
INVARIANTS
    ActsAsMap
    BrentLayout
    Border
    TraversalExact
    RefsHold
