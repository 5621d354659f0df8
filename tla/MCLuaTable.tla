----------------------------- MODULE MCLuaTable -----------------------------
EXTENDS LuaTable, TLC
CONSTANTS s1, s2, a, b
MCHash == s1 :> 1 @@ s2 :> 3
MCLuaValues == 1 :> {a} @@ 2 :> {b} @@ 3 :> {a} @@ s1 :> {a} @@ s2 :> {b}
MCNewSizes == {<<0, 0>>, <<0, 2>>}
=============================================================================
