------------------------------ MODULE MCSysLua ------------------------------
(* Instances of SysLua for TLC.  System calls share nothing but the list of  *)
(* bindings (module Bindings), so two are as good as many.                   *)
EXTENDS SysLua

CONSTANTS c1, c2, x1, x2

OneCall == {c1}
TwoCalls == {c1, c2}
OneContext == {x1}
TwoContexts == {x1, x2}
OwnContext == [c \in Calls |-> IF c = c1 THEN x1 ELSE x2]
=============================================================================
