----------------------------- MODULE MCLoadcode -----------------------------
(* Instances of Loadcode for TLC: calls on one shared context, as made by   *)
(* the users of lunatik_default_context_get.                                *)
EXTENDS LoadcodeService, TLC

CONSTANTS c1, c2, x1

TwoCalls   == {c1, c2}
OneContext == {x1}
AllOnOne   == [c \in Calls |-> x1]

\* The calls differ in name only.
CallSymmetry == Permutations(Calls)
=============================================================================
