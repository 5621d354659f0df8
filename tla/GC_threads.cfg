SPECIFICATION Spec
CONSTANTS
    o1 = o1
    o2 = o2
    o3 = o3
    Objs = {o1, o2, o3}
    Main = Main
    Nil = Nil
    Slots <- MCSlots
    Kinds = {"table", "func", "thread", "string"}
    Attrs = {"strong"}
    Api = {}
    MaxCalls = 2
SYMMETRY Symmetry
INVARIANTS
    CheckLiveness
    GrayLists
    OpenUpvalsHaveStack
    TriColour
