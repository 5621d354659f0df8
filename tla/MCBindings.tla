----------------------------- MODULE MCBindings -----------------------------
(* Instances of Bindings for TLC: two tasks on the default context and one   *)
(* in sys_lua, with a context of its own.                                    *)
EXTENDS Bindings

CONSTANTS m1, m2, l1, l2, l3, x1

TwoModules == {m1, m2}
ThreeLoaders == {l1, l2, l3}
TwoContexts == {Default, x1}
LastAlone == [l \in Loaders |-> IF l = l3 THEN x1 ELSE Default]
=============================================================================
