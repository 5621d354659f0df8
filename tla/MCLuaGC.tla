------------------------------- MODULE MCLuaGC -------------------------------
EXTENDS LuaGC, TLC

CONSTANTS o1, o2, o3

MCSlots == 1..2
Symmetry == Permutations(Objs)
=============================================================================
