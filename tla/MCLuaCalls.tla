----------------------------- MODULE MCLuaCalls -----------------------------
EXTENDS LuaCalls
Function(kind, tm, va, np, size) == [kind |-> kind, tm |-> tm, va |-> va, np |-> np, size |-> size]
MCCallees == {Function("Lua", TRUE, FALSE, 1, 4), Function("Lua", FALSE, TRUE, 3, 6),
              Function("C", FALSE, FALSE, 0, 0), Function("other", FALSE, FALSE, 0, 0)}
=============================================================================
