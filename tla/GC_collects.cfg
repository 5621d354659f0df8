SPECIFICATION Spec
CONSTANTS
    o1 = o1
    o2 = o2
    o3 = o3
    Objs = {o1, o2}
    Main = Main
    Nil = Nil
    Slots <- MCSlots
    Kinds = {"table", "udata", "string"}
    Attrs = {"strong", "kv", "gc", "nogc"}
    Api = {"fullgc", "close"}
    MaxCalls = 2
INVARIANTS
    CheckLiveness
PROPERTIES
    FinalizedOnce
    FinalizedUnreachable
    EventuallyCollected
CHECK_DEADLOCK FALSE
