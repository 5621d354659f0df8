--------------------------- MODULE BindingsProofs ---------------------------
(***************************************************************************)
(* Theorems about Bindings, for any modules, tasks and contexts.           *)
(*                                                                         *)
(* That functions are only reachable in loaded modules rests on a chain:   *)
(* functions in a Lua state are backed by an activation or by a load that  *)
(* has not given its reference back, unless the context's own destruction  *)
(* has put the module; both are references; and a module with a reference  *)
(* is loaded.                                                              *)
(***************************************************************************)
EXTENDS Bindings, TLAPS

\* A failed load is over.
FailedIsOver == \A l \in Loaders : lret[l] = "error" => lpc[l] = "done"

\* An entry is in the list of the context its loader works on, and a loader
\* that is about to activate a binding has not done so before.
OwnEntries ==
    /\ \A x \in Contexts, l \in Loaders, m \in Modules :
          <<m, l>> \in active[x] => CtxOf[l] = x
    /\ \A l \in Loaders : lpc[l] \in {"get", "reg", "add"} \/ lret[l] = "error"
                            => <<cur[l], l>> \notin active[CtxOf[l]]

\* While a loader is on the way it looks at a binding.
LooksAt == \A l \in Loaders : lpc[l] \in {"check", "get", "reg", "add", "next"}
                                \/ lret[l] = "error" => cur[l] \in Modules

\* What is referenced is loaded.
RefsLive == \A m \in Modules : refs[m] # {} => mod[m] = "live"

\* Functions in a Lua state are backed by a reference, until the destruction
\* of the context gives it back.
Backs(l, m) == <<m, l>> \in active[CtxOf[l]]
               \/ (cur[l] = m /\ (lpc[l] = "add" \/ lret[l] = "error"))
PutBefore(m, x) == life[x] = "putting" /\ ~IsActive(m, x)
FuncsBacked == \A x \in Contexts : \A m \in funcs[x] : PutBefore(m, x) \/
                  \E l \in Loaders : CtxOf[l] = x /\ Backs(l, m)

Inv == /\ TypeOK /\ FailedIsOver /\ OwnEntries /\ LooksAt /\ RefsLive /\ FuncsBacked
       /\ RefsExplained

\* Every step keeps the types.
LEMMA TypeStep == Inv /\ [Next]_vars => TypeOK'
<1> SUFFICES ASSUME TypeOK, LooksAt, [Next]_vars PROVE TypeOK'
  BY DEF Inv
<1> USE BindingsAssumption DEF TypeOK, modVars, ctxVars, loadVars
<1>1. ASSUME NEW m \in Modules, Insert(m) PROVE TypeOK'
  <2>0. mod' = [mod EXCEPT ![m] = "gone"] \/ mod' = [mod EXCEPT ![m] = "live"]
    BY <1>1 DEF Insert
  <2>1. mod' \in [Modules -> {"absent", "live", "going", "gone"}]
    BY <2>0
  <2>2. list' \in Seq(Modules)
    <3> HIDE DEF TypeOK
    <3>1. list' = list \/ list' = Append(list, m)
      BY <1>1 DEF Insert
    <3>2. list \in Seq(Modules)
      BY DEF TypeOK
    <3> QED
      BY <3>1, <3>2
  <2> QED
    BY <1>1, <2>1, <2>2 DEF Insert
<1>2. ASSUME NEW m \in Modules, Unload(m) PROVE TypeOK'
  BY <1>2 DEF Unload
<1>3. ASSUME NEW m \in Modules, Unregister(m) PROVE TypeOK'
  <2>1. Without(m) \in Seq(Modules)
    <3>1. CASE Len(list) = 0
      BY <3>1 DEF Without
    <3>2. CASE Len(list) # 0
      <4>1. Len(list) - 1 \in Nat
        BY <3>2
      <4>2. \A i \in 1..(Len(list) - 1) :
               list[IF i < IndexOf(m) THEN i ELSE i + 1] \in Modules
        BY <4>1
      <4> QED
        BY <4>1, <4>2 DEF Without
    <3> QED
      BY <3>1, <3>2
  <2> QED
    BY <1>3, <2>1 DEF Unregister
<1>4. ASSUME NEW l \in Loaders, StartLoad(l) PROVE TypeOK'
  <2>1. Registered \subseteq Modules
    BY DEF Registered
  <2>2. \/ lpc' = [lpc EXCEPT ![l] = "done"] /\ cur' = cur
        \/ /\ lpc' = [lpc EXCEPT ![l] = "check"]
           /\ cur' = [cur EXCEPT ![l] = list[1]]
           /\ list # <<>>
    BY <1>4 DEF StartLoad
  <2>3. list # <<>> => list[1] \in Modules
    OBVIOUS
  <2>4. cur' \in [Loaders -> Modules \cup {NoModule}]
    BY <2>2, <2>3
  <2>5. lpc' \in [Loaders -> {"idle", "check", "get", "reg", "add", "next", "done", "oops"}]
    BY <2>2
  <2> QED
    BY <1>4, <2>1, <2>4, <2>5 DEF StartLoad
<1>5. ASSUME NEW l \in Loaders, Check(l) PROVE TypeOK'
  BY <1>5 DEF Check, AfterCheck
<1>6. ASSUME NEW l \in Loaders, GetModule(l) PROVE TypeOK'
  <2>1. refs' = refs \/ refs' = [refs EXCEPT ![cur[l]] = @ \cup {l}]
    BY <1>6 DEF GetModule, TakeRef
  <2>2. refs' \in [Modules -> SUBSET Loaders]
    <3> HIDE DEF TypeOK
    <3>1. refs \in [Modules -> SUBSET Loaders]
      BY DEF TypeOK
    <3> QED
      BY <2>1, <3>1
  <2>3. lpc' = [lpc EXCEPT ![l] = "reg"] \/ lpc' = [lpc EXCEPT ![l] = "next"]
    BY <1>6 DEF GetModule
  <2> QED
    BY <1>6, <2>2, <2>3 DEF GetModule
<1>7. ASSUME NEW l \in Loaders, RegFunc(l) PROVE TypeOK'
  <2>1. funcs' = funcs \/ funcs' = [funcs EXCEPT ![CtxOf[l]] = @ \cup {cur[l]}]
    BY <1>7 DEF RegFunc
  <2>2. cur[l] \in Modules
    BY <1>7 DEF RegFunc, LooksAt
  <2>3. funcs' \in [Contexts -> SUBSET Modules]
    <3> HIDE DEF TypeOK
    <3>1. funcs \in [Contexts -> SUBSET Modules] /\ CtxOf[l] \in Contexts
      BY DEF TypeOK
    <3> QED
      BY <2>1, <2>2, <3>1
  <2>5. \/ lret' = [lret EXCEPT ![l] = "error"] /\ lpc' = [lpc EXCEPT ![l] = "done"]
        \/ lret' = lret /\ lpc' = [lpc EXCEPT ![l] = "add"]
    BY <1>7 DEF RegFunc
  <2>4. lret' \in [Loaders -> {"ok", "error"}] /\ lpc' \in [Loaders -> {"idle", "check",
           "get", "reg", "add", "next", "done", "oops"}]
    BY <2>5
  <2> QED
    BY <1>7, <2>3, <2>4 DEF RegFunc
<1>8. ASSUME NEW l \in Loaders, AddActive(l) PROVE TypeOK'
  <2>1. \/ active' = active
        \/ active' = [active EXCEPT ![CtxOf[l]] = @ \cup {<<cur[l], l>>}]
    BY <1>8 DEF AddActive
  <2>2. cur[l] \in Modules
    BY <1>8 DEF AddActive, LooksAt
  <2>3. active' \in [Contexts -> SUBSET (Modules \X Loaders)]
    BY <2>1, <2>2
  <2>4. lret' \in [Loaders -> {"ok", "error"}] /\ lpc' \in [Loaders -> {"idle", "check",
           "get", "reg", "add", "next", "done", "oops"}]
    BY <1>8 DEF AddActive
  <2>5. refs' = refs
    BY <1>8 DEF AddActive, RefsAfterFail
  <2> QED
    BY <1>8, <2>3, <2>4, <2>5 DEF AddActive
<1>9. ASSUME NEW l \in Loaders, NextBinding(l) PROVE TypeOK'
  <2>1. IndexOf(cur[l]) \in 1..Len(list)
    BY <1>9 DEF NextBinding, Registered, IndexOf
  <2>2. IndexOf(cur[l]) # Len(list) => Following(IndexOf(cur[l])) \in Modules
    BY <2>1 DEF Following
  <2>3. cur' \in [Loaders -> Modules \cup {NoModule}]
    BY <1>9, <2>2 DEF NextBinding
  <2>4. lpc' = [lpc EXCEPT ![l] = "done"] \/ lpc' = [lpc EXCEPT ![l] = "check"]
    BY <1>9 DEF NextBinding
  <2> QED
    BY <1>9, <2>3, <2>4 DEF NextBinding
<1>10. ASSUME NEW l \in Loaders, LoaderOops(l) PROVE TypeOK'
  BY <1>10 DEF LoaderOops
<1>11. ASSUME NEW x \in Contexts, BeginDestroy(x) PROVE TypeOK'
  BY <1>11 DEF BeginDestroy
<1>13. ASSUME NEW x \in Contexts, PutModule(x) PROVE TypeOK'
  BY <1>13 DEF PutModule, RefsAfterPut
<1>14. ASSUME NEW x \in Contexts, CloseState(x) PROVE TypeOK'
  BY <1>14 DEF CloseState
<1>12. CASE UNCHANGED vars
  BY <1>12 DEF vars
<1> HIDE DEF TypeOK, modVars, ctxVars, loadVars
<1> QED
  BY <1>1, <1>2, <1>3, <1>4, <1>5, <1>6, <1>7, <1>8, <1>9, <1>10, <1>11, <1>12,
     <1>13, <1>14
     DEF Next, LoadStep, DestroyOwn, Exit

\* The invariant without the types.
Rest == /\ FailedIsOver /\ OwnEntries /\ LooksAt /\ RefsLive /\ FuncsBacked
        /\ RefsExplained

\* A step of a module touches only its state, and never that of a module in use.
LEMMA ModuleFrame ==
    ASSUME TypeOK, TypeOK', Rest,
           UNCHANGED <<refs, active, funcs, life, lpc, cur, lret>>,
           \A m \in Modules : refs[m] # {} => mod'[m] = mod[m]
    PROVE  Rest'
<1>1. FailedIsOver' /\ OwnEntries' /\ LooksAt'
  BY DEF Rest, FailedIsOver, OwnEntries, LooksAt
<1>2. RefsLive'
  BY DEF Rest, RefsLive
<1>3. FuncsBacked'
  BY DEF Rest, FuncsBacked, Backs, PutBefore, IsActive
<1>4. RefsExplained'
  BY DEF Rest, RefsExplained, Holds
<1> QED
  BY <1>1, <1>2, <1>3, <1>4 DEF Rest

\* A step in which a loader that holds nothing only moves on keeps the rest.
LEMMA MoveFrame ==
    ASSUME TypeOK, TypeOK', Rest, NEW l \in Loaders,
           UNCHANGED <<mod, refs, active, funcs, life, lret>>,
           \A k \in Loaders \ {l} : lpc'[k] = lpc[k] /\ cur'[k] = cur[k],
           lpc[l] \notin {"reg", "add", "done"}, lpc'[l] \notin {"reg", "add"},
           lpc'[l] \in {"check", "get", "next"} => cur'[l] \in Modules,
           lpc'[l] = "get" => <<cur'[l], l>> \notin active[CtxOf[l]]
    PROVE  Rest'
<1>0. lret[l] # "error"
  BY DEF Rest, FailedIsOver
<1>1. FailedIsOver'
  BY <1>0 DEF Rest, FailedIsOver
<1>2. OwnEntries'
  BY <1>0 DEF Rest, OwnEntries
<1>3. LooksAt'
  <2> SUFFICES ASSUME NEW k \in Loaders,
                      lpc'[k] \in {"check", "get", "reg", "add", "next"} \/ lret[k] = "error"
               PROVE  cur'[k] \in Modules
    BY DEF LooksAt
  <2>1. CASE k = l
    BY <1>0, <2>1
  <2>2. CASE k # l
    BY <2>2 DEF Rest, LooksAt
  <2> QED
    BY <2>1, <2>2
<1>4. RefsLive'
  BY DEF Rest, RefsLive
<1>5. \A k \in Loaders, m \in Modules : /\ Backs(k, m)' <=> Backs(k, m)
                                       /\ Holds(k, m)' <=> Holds(k, m)
  BY <1>0 DEF Backs, Holds
<1>6. FuncsBacked'
  <2> SUFFICES ASSUME NEW x \in Contexts, NEW m \in funcs[x], ~PutBefore(m, x)
               PROVE  \E k \in Loaders : CtxOf[k] = x /\ Backs(k, m)'
    BY DEF FuncsBacked, PutBefore, IsActive
  <2>1. m \in Modules
    BY DEF TypeOK
  <2>2. PICK k \in Loaders : CtxOf[k] = x /\ Backs(k, m)
    BY DEF Rest, FuncsBacked
  <2>3. Backs(k, m)'
    BY <1>5, <2>1, <2>2 DEF Backs, Holds
  <2> QED
    BY <2>2, <2>3
<1>7. RefsExplained'
  <2> SUFFICES ASSUME NEW m \in Modules, NEW k \in Loaders
               PROVE  k \in refs'[m] <=> (Holds(k, m) \/ <<m, k>> \in active[CtxOf[k]])'
    BY DEF RefsExplained, TypeOK
  <2>1. k \in refs[m] <=> Holds(k, m) \/ <<m, k>> \in active[CtxOf[k]]
    BY DEF Rest, RefsExplained
  <2>2. Holds(k, m)' <=> Holds(k, m)
    <3>1. CASE k = l
      BY <1>0, <3>1 DEF Holds
    <3>2. CASE k # l
      BY <3>2 DEF Holds
    <3> QED
      BY <3>1, <3>2
  <2> QED
    BY <2>1, <2>2
<1> QED
  BY <1>1, <1>2, <1>3, <1>4, <1>6, <1>7 DEF Rest

\* Every step keeps the rest of the invariant.
LEMMA RestStep == Inv /\ [Next]_vars => Rest'
<1> SUFFICES ASSUME TypeOK, TypeOK', Rest, [Next]_vars PROVE Rest'
  BY TypeStep DEF Inv, Rest
<1> USE BindingsAssumption DEF modVars, ctxVars, loadVars
<1>1. ASSUME NEW m \in Modules, Insert(m) PROVE Rest'
  <2>1. refs[m] = {}
    BY <1>1 DEF Insert, Rest, RefsLive
  <2>2. \A n \in Modules : n # m => mod'[n] = mod[n]
    BY <1>1 DEF Insert, TypeOK
  <2>3. UNCHANGED <<refs, active, funcs, life, lpc, cur, lret>>
    BY <1>1 DEF Insert
  <2> QED
    BY <2>1, <2>2, <2>3, ModuleFrame
<1>2. ASSUME NEW m \in Modules, Unload(m) PROVE Rest'
  <2>1. refs[m] = {} /\ UNCHANGED <<refs, active, funcs, life, lpc, cur, lret>>
    BY <1>2 DEF Unload
  <2>2. \A n \in Modules : n # m => mod'[n] = mod[n]
    BY <1>2 DEF Unload, TypeOK
  <2> QED
    BY <2>1, <2>2, ModuleFrame
<1>3. ASSUME NEW m \in Modules, Unregister(m) PROVE Rest'
  <2>1. refs[m] = {}
    BY <1>3 DEF Unregister, Rest, RefsLive
  <2>2. \A n \in Modules : n # m => mod'[n] = mod[n]
    BY <1>3 DEF Unregister, TypeOK
  <2>3. UNCHANGED <<refs, active, funcs, life, lpc, cur, lret>>
    BY <1>3 DEF Unregister
  <2> QED
    BY <2>1, <2>2, <2>3, ModuleFrame
<1>4. ASSUME NEW l \in Loaders, StartLoad(l) PROVE Rest'
  <2>1. /\ UNCHANGED <<mod, refs, active, funcs, life, lret>>
        /\ lpc[l] = "idle"
    BY <1>4 DEF StartLoad
  <2>2. \/ lpc' = [lpc EXCEPT ![l] = "done"] /\ cur' = cur
        \/ /\ lpc' = [lpc EXCEPT ![l] = "check"]
           /\ cur' = [cur EXCEPT ![l] = list[1]]
           /\ list # <<>>
    BY <1>4 DEF StartLoad
  <2>3. /\ \A k \in Loaders \ {l} : lpc'[k] = lpc[k] /\ cur'[k] = cur[k]
        /\ lpc'[l] = "done" \/ (lpc'[l] = "check" /\ cur'[l] \in Modules)
    BY <2>2 DEF TypeOK
  <2> QED
    BY <2>1, <2>3, MoveFrame
<1>5. ASSUME NEW l \in Loaders, Check(l) PROVE Rest'
  <2>1. /\ UNCHANGED <<mod, refs, active, funcs, life, lret, cur>>
        /\ lpc[l] = "check"
        /\ lpc' = [lpc EXCEPT ![l] = AfterCheck(l)]
    BY <1>5 DEF Check
  <2>2. cur[l] \in Modules
    BY <2>1 DEF Rest, LooksAt
  <2>3. /\ AfterCheck(l) \in {"get", "next"}
        /\ AfterCheck(l) = "get" => <<cur[l], l>> \notin active[CtxOf[l]]
    BY DEF AfterCheck, IsActive
  <2>4. /\ \A k \in Loaders \ {l} : lpc'[k] = lpc[k] /\ cur'[k] = cur[k]
        /\ lpc'[l] = AfterCheck(l)
    BY <2>1 DEF TypeOK
  <2> QED
    BY <2>1, <2>2, <2>3, <2>4, MoveFrame
<1>6. ASSUME NEW l \in Loaders, GetModule(l) PROVE Rest'
  <2>1. /\ UNCHANGED <<mod, active, funcs, life, lret, cur>>
        /\ lpc[l] = "get"
    BY <1>6 DEF GetModule
  <2>2. cur[l] \in Modules /\ lret[l] # "error"
    BY <2>1 DEF Rest, LooksAt, FailedIsOver
  <2>3. CASE mod[cur[l]] # "live"
    <3>1. UNCHANGED refs /\ lpc' = [lpc EXCEPT ![l] = "next"]
      BY <1>6, <2>3 DEF GetModule
    <3>2. \A k \in Loaders \ {l} : lpc'[k] = lpc[k] /\ cur'[k] = cur[k]
      BY <2>1, <3>1 DEF TypeOK
    <3>3. lpc'[l] = "next"
      BY <3>1 DEF TypeOK
    <3> QED
      BY <2>1, <2>2, <3>1, <3>2, <3>3, MoveFrame
  <2>4. CASE mod[cur[l]] = "live"
    <3>1. /\ refs' = [refs EXCEPT ![cur[l]] = @ \cup {l}]
          /\ lpc' = [lpc EXCEPT ![l] = "reg"]
      BY <1>6, <2>4 DEF GetModule, TakeRef
    <3>2. FailedIsOver' /\ OwnEntries' /\ LooksAt'
      BY <2>1, <2>2, <3>1 DEF TypeOK, Rest, FailedIsOver, OwnEntries, LooksAt
    <3>3. RefsLive'
      BY <2>1, <2>2, <2>4, <3>1 DEF TypeOK, Rest, RefsLive
    <3>4. FuncsBacked'
      <4> SUFFICES ASSUME NEW x \in Contexts, NEW m \in funcs[x], ~PutBefore(m, x)
                   PROVE  \E k \in Loaders : CtxOf[k] = x /\ Backs(k, m)'
        BY <2>1 DEF FuncsBacked, PutBefore, IsActive
      <4>1. PICK k \in Loaders : CtxOf[k] = x /\ Backs(k, m)
        BY DEF Rest, FuncsBacked
      <4>2. Backs(k, m)'
        BY <2>1, <2>2, <3>1, <4>1 DEF TypeOK, Backs
      <4> QED
        BY <4>1, <4>2
    <3>5. RefsExplained'
      <4> SUFFICES ASSUME NEW m \in Modules, NEW k \in Loaders
                   PROVE  k \in refs'[m] <=> (Holds(k, m) \/ <<m, k>> \in active[CtxOf[k]])'
        BY DEF RefsExplained, TypeOK
      <4>1. k \in refs[m] <=> Holds(k, m) \/ <<m, k>> \in active[CtxOf[k]]
        BY DEF Rest, RefsExplained
      <4>2. k \in refs'[m] <=> k \in refs[m] \/ (k = l /\ m = cur[l])
        BY <2>2, <3>1 DEF TypeOK
      <4>3. Holds(k, m)' <=> Holds(k, m) \/ (k = l /\ m = cur[l])
        BY <2>1, <2>2, <3>1 DEF TypeOK, Holds
      <4> QED
        BY <2>1, <4>1, <4>2, <4>3
    <3> QED
      BY <3>2, <3>3, <3>4, <3>5 DEF Rest
  <2> QED
    BY <2>3, <2>4
<1>7. ASSUME NEW l \in Loaders, RegFunc(l) PROVE Rest'
  <2>1. UNCHANGED <<mod, refs, active, life, cur>> /\ lpc[l] = "reg"
    BY <1>7 DEF RegFunc
  <2>2. cur[l] \in Modules /\ lret[l] # "error"
    BY <2>1 DEF Rest, LooksAt, FailedIsOver
  <2>3. \/ /\ lret' = [lret EXCEPT ![l] = "error"]
           /\ lpc' = [lpc EXCEPT ![l] = "done"]
           /\ funcs' = funcs
        \/ /\ lret' = lret
           /\ lpc' = [lpc EXCEPT ![l] = "add"]
           /\ funcs' = [funcs EXCEPT ![CtxOf[l]] = @ \cup {cur[l]}]
    BY <1>7 DEF RegFunc
  <2>a. /\ \A k \in Loaders \ {l} : lret'[k] = lret[k] /\ lpc'[k] = lpc[k]
        /\ lret'[l] = "error" => lpc'[l] = "done"
    BY <2>2, <2>3 DEF TypeOK
  <2>4. FailedIsOver' /\ LooksAt'
    BY <2>1, <2>2, <2>a DEF Rest, FailedIsOver, LooksAt
  <2>5. OwnEntries'
    BY <2>1, <2>2, <2>3 DEF TypeOK, Rest, OwnEntries
  <2>6. RefsLive'
    BY <2>1 DEF Rest, RefsLive
  <2>7. \A k \in Loaders, m \in Modules : /\ Backs(k, m) => Backs(k, m)'
                                         /\ Holds(k, m)' <=> Holds(k, m)
    <3> SUFFICES ASSUME NEW k \in Loaders, NEW m \in Modules
                 PROVE  /\ Backs(k, m) => Backs(k, m)'
                        /\ Holds(k, m)' <=> Holds(k, m)
      OBVIOUS
    <3>1. CASE k = l
      BY <2>1, <2>2, <2>3, <3>1 DEF TypeOK, Backs, Holds
    <3>2. CASE k # l
      <4>1. lret'[k] = lret[k] /\ lpc'[k] = lpc[k]
        BY <2>3, <3>2 DEF TypeOK
      <4> QED
        BY <2>1, <4>1 DEF Backs, Holds
    <3> QED
      BY <3>1, <3>2
  <2>8. FuncsBacked'
    <3> SUFFICES ASSUME NEW x \in Contexts, NEW m \in funcs'[x], ~PutBefore(m, x)
                 PROVE  \E k \in Loaders : CtxOf[k] = x /\ Backs(k, m)'
      BY <2>1 DEF FuncsBacked, PutBefore, IsActive
    <3>0. m \in Modules
      BY DEF TypeOK
    <3>1. CASE m \in funcs[x]
      <4>1. PICK k \in Loaders : CtxOf[k] = x /\ Backs(k, m)
        BY <3>1 DEF Rest, FuncsBacked
      <4>2. Backs(k, m)'
        <5>1. k # l => lret'[k] = lret[k] /\ lpc'[k] = lpc[k]
          BY <2>a
        <5>2. k = l => <<m, k>> \in active[CtxOf[k]]
          BY <2>1, <2>2, <4>1 DEF Backs
        <5> QED
          BY <2>1, <4>1, <5>1, <5>2 DEF Backs
      <4> QED
        BY <4>1, <4>2
    <3>2. CASE m \notin funcs[x]
      <4>0. funcs' # funcs
        BY <3>2
      <4>a. /\ lpc' = [lpc EXCEPT ![l] = "add"]
            /\ funcs' = [funcs EXCEPT ![CtxOf[l]] = @ \cup {cur[l]}]
        BY <2>3, <4>0
      <4>1. CtxOf[l] = x /\ m = cur[l] /\ lpc' = [lpc EXCEPT ![l] = "add"]
        BY <3>2, <4>a DEF TypeOK
      <4>2. lpc'[l] = "add" /\ cur'[l] = m
        BY <2>1, <4>1 DEF TypeOK
      <4>3. Backs(l, m)'
        BY <4>2 DEF Backs
      <4> QED
        BY <4>1, <4>3
    <3> QED
      BY <3>1, <3>2
  <2>9. RefsExplained'
    <3> SUFFICES ASSUME NEW m \in Modules, NEW k \in Loaders
                 PROVE  k \in refs'[m] <=> (Holds(k, m) \/ <<m, k>> \in active[CtxOf[k]])'
      BY DEF RefsExplained, TypeOK
    <3>1. k \in refs[m] <=> Holds(k, m) \/ <<m, k>> \in active[CtxOf[k]]
      BY DEF Rest, RefsExplained
    <3> QED
      BY <2>1, <2>7, <3>1 DEF Backs, Holds
  <2> QED
    BY <2>4, <2>5, <2>6, <2>8, <2>9 DEF Rest
<1>8. ASSUME NEW l \in Loaders, AddActive(l) PROVE Rest'
  <2>1. UNCHANGED <<mod, refs, funcs, life, cur>> /\ lpc[l] = "add"
    BY <1>8 DEF AddActive, RefsAfterFail
  <2>2. cur[l] \in Modules /\ lret[l] # "error" /\ CtxOf[l] \in Contexts
    BY <2>1 DEF Rest, LooksAt, FailedIsOver
  <2>3. \/ /\ lret' = [lret EXCEPT ![l] = "error"]
           /\ lpc' = [lpc EXCEPT ![l] = "done"]
           /\ active' = active
        \/ /\ lret' = lret
           /\ lpc' = [lpc EXCEPT ![l] = "next"]
           /\ active' = [active EXCEPT ![CtxOf[l]] = @ \cup {<<cur[l], l>>}]
    BY <1>8 DEF AddActive
  <2>a. /\ \A k \in Loaders \ {l} : lret'[k] = lret[k] /\ lpc'[k] = lpc[k]
        /\ lret'[l] = "error" => lpc'[l] = "done"
    BY <2>2, <2>3 DEF TypeOK
  <2>4. FailedIsOver' /\ LooksAt'
    BY <2>1, <2>2, <2>a DEF Rest, FailedIsOver, LooksAt
  <2>b. \A k \in Loaders, m \in Modules, x \in Contexts :
          <<m, k>> \in active'[x]
            <=> \/ <<m, k>> \in active[x]
                \/ active' # active /\ k = l /\ m = cur[l] /\ x = CtxOf[l]
    BY <2>2, <2>3 DEF TypeOK
  <2>c. /\ lret'[l] = "error" => active' = active
        /\ lpc'[l] \notin {"get", "reg", "add"}
    BY <2>2, <2>3 DEF TypeOK
  <2>5. OwnEntries'
    <3>1. \A x \in Contexts, k \in Loaders, m \in Modules :
             <<m, k>> \in active'[x] => CtxOf[k] = x
      BY <2>b DEF Rest, OwnEntries
    <3>2. ASSUME NEW k \in Loaders,
                 lpc'[k] \in {"get", "reg", "add"} \/ lret'[k] = "error"
          PROVE  <<cur'[k], k>> \notin active'[CtxOf[k]]
      <4>1. CASE k = l
        BY <2>1, <2>c, <3>2, <4>1 DEF Rest, OwnEntries
      <4>2. CASE k # l
        <5>1. <<cur[k], k>> \notin active[CtxOf[k]] /\ cur[k] \in Modules
          BY <2>a, <3>2, <4>2 DEF Rest, OwnEntries, LooksAt
        <5> QED
          BY <2>1, <2>b, <4>2, <5>1
      <4> QED
        BY <4>1, <4>2
    <3> QED
      BY <3>1, <3>2 DEF OwnEntries
  <2>6. RefsLive'
    BY <2>1 DEF Rest, RefsLive
  <2>7. \A k \in Loaders, m \in Modules : Backs(k, m) => Backs(k, m)'
    <3> SUFFICES ASSUME NEW k \in Loaders, NEW m \in Modules, Backs(k, m)
                 PROVE  Backs(k, m)'
      OBVIOUS
    <3>1. CASE k = l
      BY <2>1, <2>2, <2>3, <3>1 DEF TypeOK, Backs
    <3>2. CASE k # l
      <4>1. lret'[k] = lret[k] /\ lpc'[k] = lpc[k]
        BY <2>3, <3>2 DEF TypeOK
      <4>2. active[CtxOf[k]] \subseteq active'[CtxOf[k]]
        <5>1. CtxOf[k] \in Contexts
          OBVIOUS
        <5>2. CASE active' = active
          BY <5>2
        <5>3. CASE active' = [active EXCEPT ![CtxOf[l]] = @ \cup {<<cur[l], l>>}]
          BY <2>2, <5>1, <5>3 DEF TypeOK
        <5> QED
          BY <2>3, <5>2, <5>3
      <4> QED
        BY <2>1, <4>1, <4>2 DEF Backs
    <3> QED
      BY <3>1, <3>2
  <2>8. FuncsBacked'
    <3> SUFFICES ASSUME NEW x \in Contexts, NEW m \in funcs[x], ~PutBefore(m, x)'
                 PROVE  \E k \in Loaders : CtxOf[k] = x /\ Backs(k, m)'
      BY <2>1 DEF FuncsBacked
    <3>1. m \in Modules
      BY DEF TypeOK
    <3>2. CASE ~PutBefore(m, x)
      <4>1. PICK k \in Loaders : CtxOf[k] = x /\ Backs(k, m)
        BY <3>2 DEF Rest, FuncsBacked
      <4>2. Backs(k, m)'
        BY <2>7, <3>1, <4>1
      <4> QED
        BY <4>1, <4>2
    <3>3. CASE PutBefore(m, x)
      <4>1. PICK k \in Loaders : <<m, k>> \in active'[x]
        BY <2>1, <3>3 DEF PutBefore, IsActive
      <4>2. CtxOf[k] = x
        BY <2>5, <3>1, <4>1 DEF OwnEntries
      <4> QED
        BY <4>1, <4>2 DEF Backs
    <3> QED
      BY <3>2, <3>3
  <2>9. \A k \in Loaders, m \in Modules :
           (Holds(k, m) \/ <<m, k>> \in active[CtxOf[k]])'
             <=> (Holds(k, m) \/ <<m, k>> \in active[CtxOf[k]])
    <3> SUFFICES ASSUME NEW k \in Loaders, NEW m \in Modules
                 PROVE  (Holds(k, m) \/ <<m, k>> \in active[CtxOf[k]])'
                          <=> (Holds(k, m) \/ <<m, k>> \in active[CtxOf[k]])
      OBVIOUS
    <3>1. CASE k = l
      BY <2>1, <2>2, <2>3, <3>1 DEF TypeOK, Holds
    <3>2. CASE k # l
      <4>1. lret'[k] = lret[k] /\ lpc'[k] = lpc[k]
        BY <2>3, <3>2 DEF TypeOK
      <4>2. <<m, k>> \in active'[CtxOf[k]] <=> <<m, k>> \in active[CtxOf[k]]
        BY <2>2, <2>3, <3>2 DEF TypeOK
      <4> QED
        BY <2>1, <4>1, <4>2 DEF Holds
    <3> QED
      BY <3>1, <3>2
  <2>10. RefsExplained'
    <3> SUFFICES ASSUME NEW m \in Modules, NEW k \in Loaders
                 PROVE  k \in refs'[m] <=> (Holds(k, m) \/ <<m, k>> \in active[CtxOf[k]])'
      BY DEF RefsExplained, TypeOK
    <3>1. k \in refs[m] <=> Holds(k, m) \/ <<m, k>> \in active[CtxOf[k]]
      BY DEF Rest, RefsExplained
    <3> QED
      BY <2>1, <2>9, <3>1
  <2> QED
    BY <2>4, <2>5, <2>6, <2>8, <2>10 DEF Rest
<1>9. ASSUME NEW l \in Loaders, NextBinding(l) PROVE Rest'
  <2>1. UNCHANGED <<mod, refs, active, funcs, life, lret>> /\ lpc[l] = "next"
    BY <1>9 DEF NextBinding
  <2>2. IndexOf(cur[l]) \in 1..Len(list)
    BY <1>9 DEF NextBinding, Registered, IndexOf
  <2>3. IndexOf(cur[l]) # Len(list) => Following(IndexOf(cur[l])) \in Modules
    BY <2>2 DEF Following, TypeOK
  <2>4. \/ lpc' = [lpc EXCEPT ![l] = "done"] /\ cur' = cur
        \/ /\ lpc' = [lpc EXCEPT ![l] = "check"]
           /\ cur' = [cur EXCEPT ![l] = Following(IndexOf(cur[l]))]
           /\ IndexOf(cur[l]) # Len(list)
    BY <1>9 DEF NextBinding
  <2>5. /\ \A k \in Loaders \ {l} : lpc'[k] = lpc[k] /\ cur'[k] = cur[k]
        /\ lpc'[l] = "done" \/ (lpc'[l] = "check" /\ cur'[l] \in Modules)
    BY <2>3, <2>4 DEF TypeOK
  <2> QED
    BY <2>1, <2>5, MoveFrame
<1>10. ASSUME NEW l \in Loaders, LoaderOops(l) PROVE Rest'
  <2>1. /\ UNCHANGED <<mod, refs, active, funcs, life, lret, cur>>
        /\ lpc[l] \in {"get", "next"}
        /\ lpc' = [lpc EXCEPT ![l] = "oops"]
    BY <1>10 DEF LoaderOops
  <2>2. /\ \A k \in Loaders \ {l} : lpc'[k] = lpc[k] /\ cur'[k] = cur[k]
        /\ lpc'[l] = "oops"
    BY <2>1 DEF TypeOK
  <2> QED
    BY <2>1, <2>2, MoveFrame
<1>11. ASSUME NEW x \in Contexts, BeginDestroy(x) PROVE Rest'
  <2>1. UNCHANGED <<mod, refs, active, funcs, lpc, cur, lret>>
    BY <1>11 DEF BeginDestroy
  <2>2. \A y \in Contexts : life'[y] = life[y] \/ life'[y] = "putting"
    BY <1>11 DEF BeginDestroy, TypeOK
  <2>3. FailedIsOver' /\ OwnEntries' /\ LooksAt' /\ RefsLive'
    BY <2>1 DEF Rest, FailedIsOver, OwnEntries, LooksAt, RefsLive
  <2>4. FuncsBacked'
    BY <2>1, <2>2 DEF Rest, FuncsBacked, Backs, PutBefore, IsActive
  <2>5. RefsExplained'
    BY <2>1 DEF Rest, RefsExplained, Holds
  <2> QED
    BY <2>3, <2>4, <2>5 DEF Rest
<1>13. ASSUME NEW x \in Contexts, PutModule(x) PROVE Rest'
  <2>0. PICK m \in Modules, l \in Loaders :
          /\ <<m, l>> \in active[x]
          /\ refs' = [refs EXCEPT ![m] = @ \ {l}]
          /\ active' = [active EXCEPT ![x] = @ \ {<<m, l>>}]
    BY <1>13 DEF PutModule, RefsAfterPut
  <2>1. UNCHANGED <<mod, funcs, life, lpc, cur, lret>> /\ life[x] = "putting"
    BY <1>13 DEF PutModule
  <2>2. \A y \in Contexts, n \in Modules, k \in Loaders :
           <<n, k>> \in active'[y] <=> <<n, k>> \in active[y] /\ ~(y = x /\ n = m /\ k = l)
    BY <2>0 DEF TypeOK
  <2>3. \A n \in Modules, k \in Loaders :
           k \in refs'[n] <=> k \in refs[n] /\ ~(n = m /\ k = l)
    BY <2>0 DEF TypeOK
  <2>4. FailedIsOver' /\ LooksAt'
    BY <2>1 DEF Rest, FailedIsOver, LooksAt
  <2>5. OwnEntries'
    <3>1. \A y \in Contexts : active'[y] \subseteq active[y]
      BY <2>0 DEF TypeOK
    <3> QED
      BY <2>1, <3>1 DEF Rest, OwnEntries
  <2>6. RefsLive'
    <3>1. \A n \in Modules : refs'[n] \subseteq refs[n]
      BY <2>0 DEF TypeOK
    <3> QED
      BY <2>1, <3>1 DEF Rest, RefsLive
  <2>7. FuncsBacked'
    <3> SUFFICES ASSUME NEW y \in Contexts, NEW n \in funcs[y], ~PutBefore(n, y)'
                 PROVE  \E k \in Loaders : CtxOf[k] = y /\ Backs(k, n)'
      BY <2>1 DEF FuncsBacked
    <3>0. n \in Modules
      BY DEF TypeOK
    <3>1. CASE IsActive(n, y)'
      <4>1. PICK k \in Loaders : <<n, k>> \in active'[y]
        BY <3>1 DEF IsActive
      <4>2. CtxOf[k] = y
        BY <2>5, <3>0, <4>1 DEF OwnEntries
      <4> QED
        BY <4>1, <4>2 DEF Backs
    <3>2. CASE ~IsActive(n, y)'
      <4>1. y # x
        BY <2>1, <3>2 DEF PutBefore
      <4>2. ~PutBefore(n, y)
        BY <2>1, <2>2, <3>0, <4>1 DEF PutBefore, IsActive
      <4>3. PICK k \in Loaders : CtxOf[k] = y /\ Backs(k, n)
        BY <4>2 DEF Rest, FuncsBacked
      <4> QED
        BY <2>1, <2>2, <3>0, <4>1, <4>3 DEF Backs
    <3> QED
      BY <3>1, <3>2
  <2>8. RefsExplained'
    <3> SUFFICES ASSUME NEW n \in Modules, NEW k \in Loaders
                 PROVE  k \in refs'[n] <=> (Holds(k, n) \/ <<n, k>> \in active[CtxOf[k]])'
      BY DEF RefsExplained, TypeOK
    <3>1. k \in refs[n] <=> Holds(k, n) \/ <<n, k>> \in active[CtxOf[k]]
      BY DEF Rest, RefsExplained
    <3>2. CtxOf[l] = x /\ ~Holds(l, m)
      BY <2>0 DEF Rest, OwnEntries, Holds
    <3>3. Holds(k, n)' <=> Holds(k, n)
      BY <2>1 DEF Holds
    <3> QED
      BY <2>2, <2>3, <3>1, <3>2, <3>3
  <2> QED
    BY <2>4, <2>5, <2>6, <2>7, <2>8 DEF Rest
<1>14. ASSUME NEW x \in Contexts, CloseState(x) PROVE Rest'
  <2>1. /\ UNCHANGED <<mod, refs, active, lpc, cur, lret>>
        /\ \A y \in Contexts : y # x => life'[y] = life[y] /\ funcs'[y] = funcs[y]
        /\ funcs'[x] = {}
    BY <1>14 DEF CloseState, TypeOK
  <2>2. FailedIsOver' /\ OwnEntries' /\ LooksAt' /\ RefsLive'
    BY <2>1 DEF Rest, FailedIsOver, OwnEntries, LooksAt, RefsLive
  <2>3. FuncsBacked'
    <3> SUFFICES ASSUME NEW y \in Contexts, NEW n \in funcs'[y]
                 PROVE  PutBefore(n, y)' \/ \E k \in Loaders : CtxOf[k] = y /\ Backs(k, n)'
      BY DEF FuncsBacked
    <3>1. y # x /\ n \in funcs[y]
      BY <2>1
    <3>2. PutBefore(n, y) => PutBefore(n, y)'
      BY <2>1, <3>1 DEF PutBefore, IsActive
    <3>3. \A k \in Loaders : Backs(k, n) => Backs(k, n)'
      BY <2>1 DEF Backs
    <3> QED
      BY <3>1, <3>2, <3>3 DEF Rest, FuncsBacked
  <2>4. RefsExplained'
    BY <2>1 DEF Rest, RefsExplained, Holds
  <2> QED
    BY <2>2, <2>3, <2>4 DEF Rest
<1>12. CASE UNCHANGED vars
  BY <1>12, ModuleFrame DEF vars
<1> QED
  BY <1>1, <1>2, <1>3, <1>4, <1>5, <1>6, <1>7, <1>8, <1>9, <1>10, <1>11, <1>12,
     <1>13, <1>14
     DEF Next, LoadStep, DestroyOwn, Exit

\* Inv holds in every reachable state.
THEOREM Invariant == Spec => []Inv
<1>1. Init => Inv
  BY BindingsAssumption DEF Init, Inv, TypeOK, FailedIsOver, OwnEntries, LooksAt, RefsLive,
     FuncsBacked, RefsExplained, Holds
<1>2. Inv /\ [Next]_vars => Inv'
  BY TypeStep, RestStep DEF Inv, Rest
<1> QED
  BY <1>1, <1>2, PTL DEF Spec

\* Every module reference is owed to an activation, a load in progress or a
\* load that failed.
THEOREM RefsAccounted == Spec => []RefsExplained
BY Invariant, PTL DEF Inv

\* A Lua state never refers to the functions of a module that is not loaded,
\* up to the module_put of the state's own destruction.
THEOREM FunctionsSafe == Spec => []FunctionsLoaded
<1>1. Inv => FunctionsLoaded
  <2> SUFFICES ASSUME Inv, NEW x \in Contexts, NEW m \in funcs[x], ~PutBefore(m, x)
               PROVE  mod[m] = "live"
    BY DEF FunctionsLoaded, PutBefore
  <2>1. m \in Modules
    BY DEF Inv, TypeOK
  <2>2. PICK l \in Loaders : CtxOf[l] = x /\ Backs(l, m)
    BY DEF Inv, FuncsBacked
  <2>3. l \in refs[m]
    BY <2>1, <2>2 DEF Inv, RefsExplained, Holds, Backs
  <2> QED
    BY <2>1, <2>3 DEF Inv, RefsLive
<1> QED
  BY <1>1, Invariant, PTL
-----------------------------------------------------------------------------
(* The walk over the changing list.                                        *)

\* A module is in the list once, from its insertion until it is unregistered.
ListInv == /\ \A i, j \in 1..Len(list) : list[i] = list[j] => i = j
           /\ \A m \in Modules : m \in Registered <=> mod[m] \in {"live", "going"}

\* n comes after m in the list.
InFront(m, n) == \E i, j \in 1..Len(list) : i < j /\ list[i] = m /\ list[j] = n

\* What the loader has to load and has not loaded is still in front of it.
Ahead(l) == \A m \in known[l] : mod[m] = "live" =>
                \/ IsActive(m, CtxOf[l])
                \/ InFront(cur[l], m)
                \/ m = cur[l] /\ lpc[l] # "next"

Walking(l) == lpc[l] \in {"check", "get", "reg", "add", "next"}

\* A module is inserted once, and unloaded for good.
LEMMA ModStep ==
    ASSUME TypeOK, [Next]_vars, NEW m \in Modules, mod[m] # "absent"
    PROVE  /\ mod'[m] # "absent"
           /\ mod'[m] = "live" => mod[m] = "live"
           /\ mod'[m] \in {"live", "going"} => mod[m] \in {"live", "going"}
<1>1. ASSUME NEW n \in Modules, Insert(n)
      PROVE  n # m /\ \E v : mod' = [mod EXCEPT ![n] = v]
  BY <1>1 DEF Insert
<1>2. ASSUME NEW n \in Modules, Unload(n)
      PROVE  mod[n] = "live" /\ mod' = [mod EXCEPT ![n] = "going"]
  BY <1>2 DEF Unload
<1>3. ASSUME NEW n \in Modules, Unregister(n)
      PROVE  mod[n] = "going" /\ mod' = [mod EXCEPT ![n] = "gone"]
  BY <1>3 DEF Unregister
<1>4. ASSUME NEW l \in Loaders, StartLoad(l) \/ LoadStep(l) \/ DestroyOwn(l)
      PROVE  mod' = mod
  BY <1>4 DEF StartLoad, LoadStep, DestroyOwn, BeginDestroy, Check, GetModule, RegFunc,
     AddActive, NextBinding, LoaderOops, modVars
<1>6. ASSUME NEW x \in Contexts, PutModule(x) \/ CloseState(x) PROVE mod' = mod
  BY <1>6 DEF PutModule, CloseState, modVars
<1>5. Exit \/ UNCHANGED vars => mod' = mod
  BY DEF Exit, BeginDestroy, vars, modVars
<1> QED
  BY <1>1, <1>2, <1>3, <1>4, <1>5, <1>6 DEF Next, TypeOK

\* While a context is open its active bindings stay; it is never opened again.
LEMMA ActiveStep ==
    ASSUME Inv, [Next]_vars, NEW x \in Contexts, life'[x] = "open"
    PROVE  life[x] = "open" /\ \A m \in Modules : IsActive(m, x) => IsActive(m, x)'
<1> USE BindingsAssumption
<1> DEFINE Kept == life[x] = "open" /\ active[x] \subseteq active'[x]
<1>1. ASSUME NEW y \in Contexts, BeginDestroy(y) \/ CloseState(y) PROVE Kept
  BY <1>1 DEF BeginDestroy, CloseState, Inv, TypeOK
<1>2. ASSUME NEW y \in Contexts, PutModule(y) PROVE Kept
  BY <1>2 DEF PutModule, Inv, TypeOK
<1>3. ASSUME NEW l \in Loaders, AddActive(l) PROVE Kept
  <2>1. /\ life' = life
        /\ \/ active' = active
           \/ active' = [active EXCEPT ![CtxOf[l]] = @ \cup {<<cur[l], l>>}]
    BY <1>3 DEF AddActive
  <2>2. active \in [Contexts -> SUBSET (Modules \X Loaders)] /\ CtxOf[l] \in Contexts
    BY DEF Inv, TypeOK
  <2> QED
    BY <2>1, <2>2
<1>4. ASSUME NEW l \in Loaders, StartLoad(l) \/ Check(l) \/ GetModule(l) \/ RegFunc(l)
                                \/ NextBinding(l) \/ LoaderOops(l)
      PROVE  Kept
  BY <1>4 DEF StartLoad, Check, GetModule, RegFunc, NextBinding, LoaderOops, ctxVars
<1>5. ASSUME NEW m \in Modules, Insert(m) \/ Unload(m) \/ Unregister(m) PROVE Kept
  BY <1>5 DEF Insert, Unload, Unregister, ctxVars
<1>6. UNCHANGED vars => Kept
  BY DEF vars, ctxVars
<1> HIDE DEF Kept
<1>7. Kept
  BY <1>1, <1>2, <1>3, <1>4, <1>5, <1>6 DEF Next, LoadStep, DestroyOwn, Exit
<1> QED
  BY <1>7 DEF Kept, IsActive

\* list_add_tail keeps the order and adds one module that was not in the list.
LEMMA AppendOrder ==
    ASSUME TypeOK, ListInv, NEW m \in Modules, mod[m] = "absent",
           mod' = [mod EXCEPT ![m] = "live"], list' = Append(list, m)
    PROVE  /\ ListInv'
           /\ \A a, b \in Modules : InFront(a, b) => InFront(a, b)'
<1>1. list \in Seq(Modules) /\ Len(list) \in Nat
  BY DEF TypeOK
<1>2. /\ Len(list') = Len(list) + 1 /\ list'[Len(list) + 1] = m
      /\ \A i \in 1..Len(list) : list'[i] = list[i]
  BY <1>1
<1>3. \A i \in 1..Len(list) : list[i] # m
  BY DEF ListInv, Registered
<1>4. \A i, j \in 1..Len(list') : list'[i] = list'[j] => i = j
  <2> SUFFICES ASSUME NEW i \in 1..Len(list'), NEW j \in 1..Len(list'), list'[i] = list'[j]
               PROVE  i = j
    OBVIOUS
  <2>1. i \in 1..Len(list) \/ i = Len(list) + 1
    BY <1>1, <1>2
  <2>2. j \in 1..Len(list) \/ j = Len(list) + 1
    BY <1>1, <1>2
  <2> QED
    BY <1>2, <1>3, <2>1, <2>2 DEF ListInv
<1>5. Registered' = Registered \cup {m}
  BY <1>1, <1>2 DEF Registered
<1>6. \A n \in Modules : n \in Registered' <=> mod'[n] \in {"live", "going"}
  BY <1>5 DEF ListInv, TypeOK
<1>7. ASSUME NEW a \in Modules, NEW b \in Modules, InFront(a, b) PROVE InFront(a, b)'
  <2>1. PICK i, j \in 1..Len(list) : i < j /\ list[i] = a /\ list[j] = b
    BY <1>7 DEF InFront
  <2>2. i \in 1..Len(list') /\ j \in 1..Len(list') /\ list'[i] = a /\ list'[j] = b
    BY <1>1, <1>2, <2>1
  <2> QED
    BY <2>1, <2>2 DEF InFront
<1> QED
  BY <1>4, <1>6, <1>7 DEF ListInv

\* list_del takes one module out and keeps the order of the others.
LEMMA WithoutOrder ==
    ASSUME TypeOK, ListInv, NEW m \in Modules, mod[m] = "going",
           mod' = [mod EXCEPT ![m] = "gone"], list' = Without(m)
    PROVE  /\ ListInv'
           /\ \A a, b \in Modules : InFront(a, b) /\ a # m /\ b # m => InFront(a, b)'
<1>1. list \in Seq(Modules) /\ Len(list) \in Nat
  BY DEF TypeOK
<1> DEFINE d == IndexOf(m)
           At(i) == IF i < d THEN i ELSE i + 1
           To(i) == IF i < d THEN i ELSE i - 1
<1>2. d \in 1..Len(list) /\ list[d] = m
  BY DEF ListInv, Registered, IndexOf
<1>3. Len(list) - 1 \in Nat
  BY <1>1, <1>2
<1>4. list' = [i \in 1..(Len(list) - 1) |-> list[At(i)]]
  BY DEF Without
<1> HIDE DEF d
<1>5. Len(list') = Len(list) - 1
  BY <1>3, <1>4
<1>6. \A i \in 1..Len(list') :
         At(i) \in 1..Len(list) /\ At(i) # d /\ list'[i] = list[At(i)]
  BY <1>1, <1>2, <1>4, <1>5
<1>7. \A i, j \in 1..Len(list') : (At(i) = At(j) => i = j) /\ (i < j <=> At(i) < At(j))
  BY <1>1, <1>2, <1>5
<1>8. \A i \in 1..Len(list) : i # d =>
         To(i) \in 1..Len(list') /\ At(To(i)) = i
  BY <1>1, <1>2, <1>5
<1> HIDE DEF At, To
<1>9. \A i, j \in 1..Len(list') : list'[i] = list'[j] => i = j
  BY <1>6, <1>7 DEF ListInv
<1>10. Registered' = Registered \ {m}
  <2>1. ASSUME NEW n \in Registered' PROVE n \in Registered \ {m}
    <3>1. PICK i \in 1..Len(list') : n = list'[i]
      BY <2>1 DEF Registered
    <3> QED
      BY <1>2, <1>6, <3>1 DEF ListInv, Registered
  <2>2. ASSUME NEW n \in Registered \ {m} PROVE n \in Registered'
    <3>1. PICK i \in 1..Len(list) : n = list[i]
      BY <2>2 DEF Registered
    <3>2. i # d
      BY <1>2, <2>2, <3>1
    <3>3. To(i) \in 1..Len(list') /\ list'[To(i)] = n
      BY <1>6, <1>8, <3>1, <3>2
    <3> QED
      BY <3>3 DEF Registered
  <2> QED
    BY <2>1, <2>2
<1>11. \A n \in Modules : n \in Registered' <=> mod'[n] \in {"live", "going"}
  BY <1>10 DEF ListInv, TypeOK
<1>12. ASSUME NEW a \in Modules, NEW b \in Modules, InFront(a, b), a # m, b # m
       PROVE  InFront(a, b)'
  <2>1. PICK i, j \in 1..Len(list) : i < j /\ list[i] = a /\ list[j] = b
    BY <1>12 DEF InFront
  <2>2. i # d /\ j # d
    BY <1>2, <1>12, <2>1
  <2>3. /\ To(i) \in 1..Len(list') /\ At(To(i)) = i
        /\ To(j) \in 1..Len(list') /\ At(To(j)) = j
    BY <1>8, <2>1, <2>2
  <2>4. To(i) < To(j)
    BY <1>7, <2>1, <2>3
  <2>5. list'[To(i)] = a /\ list'[To(j)] = b
    BY <1>6, <2>1, <2>3
  <2> QED
    BY <2>3, <2>4, <2>5 DEF InFront
<1> QED
  BY <1>9, <1>11, <1>12 DEF ListInv

\* Whatever happens to the list, the modules that stay in it keep their order.
LEMMA OrderStep ==
    ASSUME TypeOK, ListInv, [Next]_vars
    PROVE  /\ ListInv'
           /\ \A a, b \in Modules :
                 InFront(a, b) /\ a \in Registered' /\ b \in Registered' => InFront(a, b)'
<1> DEFINE Goal == /\ ListInv'
                   /\ \A a, b \in Modules :
                         InFront(a, b) /\ a \in Registered' /\ b \in Registered'
                            => InFront(a, b)'
<1>1. ASSUME NEW m \in Modules, Insert(m) PROVE Goal
  <2>1. CASE list' = list
    <3>1. mod' = [mod EXCEPT ![m] = "gone"] /\ mod[m] = "absent"
      <4>1. list' # Append(list, m)
        BY <2>1 DEF TypeOK
      <4> QED
        BY <1>1, <4>1 DEF Insert
    <3> QED
      BY <2>1, <3>1 DEF ListInv, InFront, Registered, TypeOK
  <2>2. CASE list' # list
    BY <1>1, <2>2, AppendOrder DEF Insert
  <2> QED
    BY <2>1, <2>2
<1>2. ASSUME NEW m \in Modules, Unload(m) PROVE Goal
  <2>1. list' = list /\ mod[m] = "live" /\ mod' = [mod EXCEPT ![m] = "going"]
    BY <1>2 DEF Unload
  <2>2. Registered' = Registered /\ \A a, b \in Modules : InFront(a, b) => InFront(a, b)'
    BY <2>1 DEF Registered, InFront
  <2>3. \A n \in Modules : mod'[n] \in {"live", "going"} <=> mod[n] \in {"live", "going"}
    BY <2>1 DEF TypeOK
  <2> QED
    BY <2>1, <2>2, <2>3 DEF ListInv
<1>3. ASSUME NEW m \in Modules, Unregister(m) PROVE Goal
  <2>1. /\ ListInv'
        /\ \A a, b \in Modules : InFront(a, b) /\ a # m /\ b # m => InFront(a, b)'
    BY <1>3, WithoutOrder DEF Unregister
  <2>2. m \notin Registered'
    BY <1>3, <2>1 DEF Unregister, ListInv, TypeOK
  <2> QED
    BY <2>1, <2>2
<1>4. ASSUME UNCHANGED <<mod, list>> PROVE Goal
  BY <1>4 DEF ListInv, InFront, Registered
<1>5. ASSUME NEW l \in Loaders, StartLoad(l) \/ LoadStep(l) \/ DestroyOwn(l)
      PROVE  UNCHANGED <<mod, list>>
  BY <1>5 DEF StartLoad, LoadStep, DestroyOwn, BeginDestroy, Check, GetModule, RegFunc,
     AddActive, NextBinding, LoaderOops, modVars
<1>6. Exit \/ UNCHANGED vars => UNCHANGED <<mod, list>>
  BY DEF Exit, BeginDestroy, vars, modVars
<1>8. ASSUME NEW x \in Contexts, PutModule(x) \/ CloseState(x) PROVE UNCHANGED <<mod, list>>
  BY <1>8 DEF PutModule, CloseState, modVars
<1> HIDE DEF Goal
<1>7. Goal
  BY <1>1, <1>2, <1>3, <1>4, <1>5, <1>6, <1>8 DEF Next
<1> QED
  BY <1>7 DEF Goal
\* The modules that loader l met are not inserted again.
Met(l) == \A m \in known[l] \cup {cur[l]} : m \in Modules => mod[m] # "absent"

\* While it stands on a binding of the list, everything is in front of it.  (If
\* its binding was unregistered it goes on to LoaderOops.)
OnWay(l) == Walking(l) /\ cur[l] \in Registered /\ life[CtxOf[l]] = "open" => Ahead(l)

\* LoadsAll, for one loader.
Loaded(l) == lpc[l] = "done" /\ lret[l] = "ok" /\ life[CtxOf[l]] = "open" =>
                \A m \in known[l] : mod[m] = "live" => IsActive(m, CtxOf[l])

Walk(l) == Met(l) /\ OnWay(l) /\ Loaded(l)

\* A loader that does not move, or moves while it stays on its binding, keeps
\* what it has to load in front of it.
LEMMA WalkFrame ==
    ASSUME Inv, TypeOK', ListInv, [Next]_vars, NEW l \in Loaders, Walk(l),
           cur'[l] = cur[l], known'[l] = known[l],
           \/ lpc'[l] = lpc[l] /\ lret'[l] = lret[l]
           \/ /\ Walking(l) /\ Walking(l)'
              /\ lpc[l] # "next"
              /\ lpc'[l] = "next" => mod'[cur[l]] # "live" \/ IsActive(cur[l], CtxOf[l])'
           \/ Walking(l) /\ (lpc'[l] = "oops" \/ lret'[l] # "ok") /\ ~Walking(l)'
    PROVE  Walk(l)'
<1> USE BindingsAssumption
<1>1. TypeOK
  BY DEF Inv
<1>2. \A m \in Modules : mod[m] # "absent" =>
         /\ mod'[m] # "absent"
         /\ mod'[m] = "live" => mod[m] = "live"
         /\ mod'[m] \in {"live", "going"} => mod[m] \in {"live", "going"}
  BY <1>1, ModStep
<1>3. CtxOf[l] \in Contexts /\ known[l] \subseteq Modules
  BY <1>1 DEF TypeOK
<1>4. life'[CtxOf[l]] = "open" =>
         /\ life[CtxOf[l]] = "open"
         /\ \A m \in Modules : IsActive(m, CtxOf[l]) => IsActive(m, CtxOf[l])'
  BY <1>3, ActiveStep
<1>5. Met(l)'
  BY <1>2 DEF Walk, Met
<1>6. ListInv' /\ \A a, b \in Modules :
         InFront(a, b) /\ a \in Registered' /\ b \in Registered' => InFront(a, b)'
  BY <1>1, OrderStep
<1>7. ASSUME Walking(l)', (cur[l] \in Registered)', life'[CtxOf[l]] = "open",
             NEW m \in known[l], mod'[m] = "live", Walking(l)
      PROVE  \/ IsActive(m, CtxOf[l])'
             \/ InFront(cur[l], m)'
             \/ m = cur[l] /\ lpc'[l] # "next"
  <2>1. m \in Modules /\ mod[m] = "live"
    BY <1>2, <1>3, <1>7 DEF Walk, Met
  <2>2. cur[l] \in Modules
    BY <1>7 DEF Inv, LooksAt, Walking
  <2>3. cur[l] \in Registered
    <3>1. mod'[cur[l]] \in {"live", "going"} /\ mod[cur[l]] # "absent"
      BY <1>6, <1>7, <2>2 DEF ListInv, Walk, Met
    <3> QED
      BY <1>2, <2>2, <3>1 DEF ListInv
  <2>4. \/ IsActive(m, CtxOf[l]) \/ InFront(cur[l], m) \/ (m = cur[l] /\ lpc[l] # "next")
    BY <1>4, <1>7, <2>1, <2>3 DEF Walk, OnWay, Ahead
  <2>5. CASE IsActive(m, CtxOf[l])
    BY <1>4, <1>7, <2>1, <2>5
  <2>6. CASE InFront(cur[l], m)
    <3>1. m \in Registered'
      BY <1>6, <1>7, <2>1 DEF ListInv
    <3>2. cur[l] \in Registered'
      BY <1>7
    <3> QED
      BY <1>6, <2>1, <2>2, <2>6, <3>1, <3>2 DEF InFront
  <2>7. CASE m = cur[l] /\ lpc[l] # "next"
    BY <1>7, <2>7 DEF IsActive
  <2> QED
    BY <2>4, <2>5, <2>6, <2>7
<1>8. OnWay(l)'
  <2>1. Walking(l)' => Walking(l)
    BY DEF Walking
  <2> SUFFICES ASSUME Walking(l)', (cur[l] \in Registered)', life'[CtxOf[l]] = "open",
                      NEW m \in known'[l], mod'[m] = "live"
               PROVE  \/ IsActive(m, CtxOf[l])'
                      \/ (InFront(cur[l], m))'
                      \/ m = cur'[l] /\ lpc'[l] # "next"
    BY DEF OnWay, Ahead, InFront, IsActive
  <2> QED
    BY <1>7, <2>1 DEF InFront
<1>9. Loaded(l)'
  <2> SUFFICES ASSUME lpc'[l] = "done", lret'[l] = "ok", life'[CtxOf[l]] = "open",
                      NEW m \in known[l], mod'[m] = "live"
               PROVE  IsActive(m, CtxOf[l])'
    BY DEF Loaded, IsActive
  <2>1. lpc[l] = "done" /\ lret[l] = "ok"
    BY DEF Walking
  <2>2. m \in Modules /\ mod[m] = "live"
    BY <1>2, <1>3 DEF Walk, Met
  <2> QED
    BY <1>4, <2>1, <2>2 DEF Walk, Loaded
<1> QED
  BY <1>5, <1>8, <1>9 DEF Walk

\* The loader begins with the whole list in front of it.
LEMMA WalkBegins ==
    ASSUME Inv, TypeOK', ListInv, NEW l \in Loaders, Walk(l), StartLoad(l)
    PROVE  Walk(l)'
<1> USE BindingsAssumption
<1>1. /\ UNCHANGED <<mod, list, active, life, lret>>
      /\ known'[l] = Registered
      /\ \/ list = <<>> /\ lpc'[l] = "done" /\ cur'[l] = cur[l]
         \/ list # <<>> /\ lpc'[l] = "check" /\ cur'[l] = list[1]
      /\ lpc[l] = "idle"
  BY DEF StartLoad, modVars, ctxVars, Inv, TypeOK
<1>2. list \in Seq(Modules) /\ Len(list) \in Nat
  BY DEF Inv, TypeOK
<1>3. CASE list = <<>>
  <2>1. Registered = {}
    BY <1>3 DEF Registered
  <2> QED
    BY <1>1, <1>3, <2>1 DEF Walk, Met, OnWay, Loaded, Walking
<1>4. CASE list # <<>>
  <2>1. 1 \in 1..Len(list)
    BY <1>2, <1>4
  <2>2. list[1] \in Registered
    BY <2>1 DEF Registered
  <2>3. ASSUME NEW m \in Registered PROVE InFront(list[1], m) \/ m = list[1]
    <3>1. PICK j \in 1..Len(list) : m = list[j]
      BY <2>3 DEF Registered
    <3>2. j = 1 \/ 1 < j
      BY <1>2
    <3> QED
      BY <2>1, <3>1, <3>2 DEF InFront
  <2>4. Met(l)'
    BY <1>1, <1>4, <2>2 DEF Met, ListInv
  <2>5. OnWay(l)' /\ Loaded(l)'
    BY <1>1, <1>4, <2>3 DEF OnWay, Loaded, Ahead, InFront
  <2> QED
    BY <2>4, <2>5 DEF Walk
<1> QED
  BY <1>3, <1>4

\* The step to the next binding leaves nothing behind, and the last one ends
\* the walk with everything loaded.
LEMMA WalkAdvances ==
    ASSUME Inv, TypeOK', ListInv, NEW l \in Loaders, Walk(l), NextBinding(l)
    PROVE  Walk(l)'
<1> USE BindingsAssumption
<1> DEFINE i == IndexOf(cur[l])
<1>1. /\ UNCHANGED <<mod, list, active, life, lret, known>>
      /\ lpc[l] = "next" /\ cur[l] \in Registered
      /\ \/ i = Len(list) /\ lpc'[l] = "done" /\ cur'[l] = cur[l]
         \/ i # Len(list) /\ lpc'[l] = "check" /\ cur'[l] = list[i + 1]
  BY DEF NextBinding, Following, modVars, ctxVars, Inv, TypeOK
<1>2. list \in Seq(Modules) /\ Len(list) \in Nat
  BY DEF Inv, TypeOK
<1>3. i \in 1..Len(list) /\ list[i] = cur[l]
  BY <1>1 DEF Registered, IndexOf
<1> HIDE DEF i
<1>4. ASSUME NEW m, InFront(cur[l], m)
      PROVE  i # Len(list) /\ (m = list[i + 1] \/ InFront(list[i + 1], m))
  <2>1. PICK a, j \in 1..Len(list) : a < j /\ list[a] = cur[l] /\ list[j] = m
    BY <1>4 DEF InFront
  <2>2. a = i
    BY <1>3, <2>1 DEF ListInv
  <2>3. i # Len(list) /\ i + 1 \in 1..Len(list) /\ (j = i + 1 \/ i + 1 < j)
    BY <1>2, <1>3, <2>1, <2>2
  <2> QED
    BY <2>1, <2>3 DEF InFront
<1>5. life[CtxOf[l]] = "open" => \A m \in known[l] : mod[m] = "live" =>
         IsActive(m, CtxOf[l]) \/ InFront(cur[l], m)
  BY <1>1 DEF Walk, OnWay, Ahead, Walking
<1>6. CASE i = Len(list)
  <2>1. Met(l)' /\ OnWay(l)'
    BY <1>1, <1>6 DEF Walk, Met, OnWay, Walking
  <2>2. Loaded(l)'
    BY <1>1, <1>4, <1>5, <1>6 DEF Loaded, IsActive
  <2> QED
    BY <2>1, <2>2 DEF Walk
<1>7. CASE i # Len(list)
  <2>1. list[i + 1] \in Registered
    BY <1>2, <1>3, <1>7 DEF Registered
  <2>2. Met(l)'
    BY <1>1, <1>7, <2>1 DEF Walk, Met, ListInv
  <2>3. OnWay(l)'
    <3> SUFFICES ASSUME life'[CtxOf[l]] = "open", NEW m \in known'[l], mod'[m] = "live"
                 PROVE  (IsActive(m, CtxOf[l]) \/ InFront(cur[l], m) \/ m = cur[l])'
      BY <1>1, <1>7 DEF OnWay, Ahead
    <3>1. IsActive(m, CtxOf[l]) \/ InFront(cur[l], m)
      BY <1>1, <1>5
    <3>2. CASE IsActive(m, CtxOf[l])
      BY <1>1, <3>2 DEF IsActive
    <3>3. CASE InFront(cur[l], m)
      <4>1. m = list[i + 1] \/ InFront(list[i + 1], m)
        BY <1>4, <3>3
      <4> QED
        BY <1>1, <1>7, <4>1 DEF InFront
    <3> QED
      BY <3>1, <3>2, <3>3
  <2>4. Loaded(l)'
    BY <1>1, <1>7 DEF Loaded
  <2> QED
    BY <2>2, <2>3, <2>4 DEF Walk
<1> QED
  BY <1>6, <1>7

\* Every step keeps the walk of every loader complete.
LEMMA WalkStep ==
    ASSUME Inv, TypeOK', ListInv, \A l \in Loaders : Walk(l), [Next]_vars, NEW k \in Loaders
    PROVE  Walk(k)'
<1> USE BindingsAssumption
<1> DEFINE Still == UNCHANGED <<lpc[k], cur[k], lret[k], known[k]>>
<1>0. lpc \in [Loaders -> {"idle", "check", "get", "reg", "add", "next", "done", "oops"}]
      /\ cur \in [Loaders -> Modules \cup {NoModule}] /\ lret \in [Loaders -> {"ok", "error"}]
      /\ known \in [Loaders -> SUBSET Modules]
  BY DEF Inv, TypeOK
<1>1. ASSUME Still PROVE Walk(k)'
  BY <1>1, WalkFrame
<1>2. ASSUME NEW m \in Modules, Insert(m) \/ Unload(m) \/ Unregister(m) PROVE Still
  BY <1>2 DEF Insert, Unload, Unregister, loadVars
<1>3. ASSUME NEW x \in Contexts, BeginDestroy(x) \/ PutModule(x) \/ CloseState(x) PROVE Still
  BY <1>3 DEF BeginDestroy, PutModule, CloseState, loadVars
<1>4. UNCHANGED vars => Still
  BY DEF vars, loadVars
<1>5. ASSUME NEW l \in Loaders, l # k, StartLoad(l) \/ LoadStep(l) PROVE Still
  <2>1. CASE StartLoad(l)
    BY <1>0, <1>5, <2>1 DEF StartLoad
  <2>2. CASE Check(l) \/ GetModule(l) \/ LoaderOops(l)
    BY <1>0, <1>5, <2>2 DEF Check, GetModule, LoaderOops
  <2>3. CASE RegFunc(l) \/ AddActive(l)
    BY <1>0, <1>5, <2>3 DEF RegFunc, AddActive
  <2>4. CASE NextBinding(l)
    BY <1>0, <1>5, <2>4 DEF NextBinding
  <2> QED
    BY <1>5, <2>1, <2>2, <2>3, <2>4 DEF LoadStep
<1>6. CASE StartLoad(k)
  BY <1>6, WalkBegins
<1>7. CASE NextBinding(k)
  BY <1>7, WalkAdvances
<1>8. CASE Check(k)
  <2>1. /\ cur' = cur /\ known' = known /\ active' = active /\ lpc[k] = "check"
        /\ lpc'[k] = AfterCheck(k)
    BY <1>0, <1>8 DEF Check, ctxVars
  <2>2. /\ Walking(k) /\ Walking(k)' /\ lpc[k] # "next"
        /\ lpc'[k] = "next" => IsActive(cur[k], CtxOf[k])'
    BY <2>1 DEF Walking, AfterCheck, IsActive
  <2> QED
    BY <2>1, <2>2, WalkFrame
<1>9. CASE GetModule(k)
  <2>1. /\ cur' = cur /\ known' = known /\ mod' = mod /\ lpc[k] = "get"
        /\ lpc'[k] = "reg" \/ (lpc'[k] = "next" /\ mod[cur[k]] # "live")
    BY <1>0, <1>9 DEF GetModule, modVars
  <2>2. /\ Walking(k) /\ Walking(k)' /\ lpc[k] # "next"
        /\ lpc'[k] = "next" => mod'[cur[k]] # "live"
    BY <2>1 DEF Walking
  <2> QED
    BY <2>1, <2>2, WalkFrame
<1>10. CASE RegFunc(k)
  <2>1. /\ cur' = cur /\ known' = known /\ lpc[k] = "reg"
        /\ lpc'[k] = "add" \/ (lpc'[k] = "done" /\ lret'[k] = "error")
    BY <1>0, <1>10 DEF RegFunc
  <2>2. /\ Walking(k) /\ lpc[k] # "next"
        /\ (Walking(k)' /\ lpc'[k] # "next") \/ (~Walking(k)' /\ lret'[k] # "ok")
    BY <2>1 DEF Walking
  <2> QED
    BY <2>1, <2>2, WalkFrame
<1>11. CASE AddActive(k)
  <2>1. /\ cur' = cur /\ known' = known /\ lpc[k] = "add"
        /\ \/ /\ lpc'[k] = "next"
              /\ active' = [active EXCEPT ![CtxOf[k]] = @ \cup {<<cur[k], k>>}]
           \/ lpc'[k] = "done" /\ lret'[k] = "error"
    BY <1>0, <1>11 DEF AddActive
  <2>2. lpc'[k] = "next" => IsActive(cur[k], CtxOf[k])'
    BY <2>1 DEF IsActive, Inv, TypeOK
  <2>3. /\ Walking(k) /\ lpc[k] # "next"
        /\ Walking(k)' \/ (~Walking(k)' /\ lret'[k] # "ok")
    BY <2>1 DEF Walking
  <2> QED
    BY <2>1, <2>2, <2>3, WalkFrame
<1>12. CASE LoaderOops(k)
  <2>1. /\ cur' = cur /\ known' = known /\ lpc[k] \in {"get", "next"} /\ lpc'[k] = "oops"
    BY <1>0, <1>12 DEF LoaderOops
  <2>2. Walking(k) /\ ~Walking(k)'
    BY <2>1 DEF Walking
  <2> QED
    BY <2>1, <2>2, WalkFrame
<1> HIDE DEF Still
<1> QED
  BY <1>1, <1>2, <1>3, <1>4, <1>5, <1>6, <1>7, <1>8, <1>9, <1>10, <1>11, <1>12
     DEF Next, LoadStep, DestroyOwn, Exit

\* lunatik_bindings_load returns 0 only with everything active that was
\* registered when it began and is still loaded, although other tasks insert
\* and unload modules and change the list while it is walked without a lock.
THEOREM WalkComplete == Spec => []LoadsAll
<1> DEFINE Walks == ListInv /\ \A l \in Loaders : Walk(l)
<1>1. Init => Walks
  BY BindingsAssumption
     DEF Init, ListInv, Registered, Walk, Met, OnWay, Loaded, Walking
<1>2. Inv /\ Inv' /\ Walks /\ [Next]_vars => Walks'
  <2> SUFFICES ASSUME Inv, Inv', Walks, [Next]_vars PROVE Walks'
    OBVIOUS
  <2>1. TypeOK /\ TypeOK'
    BY DEF Inv
  <2>2. ListInv'
    BY <2>1, OrderStep
  <2>3. \A l \in Loaders : Walk(l)'
    BY <2>1, WalkStep
  <2> QED
    BY <2>2, <2>3
<1>3. Walks => LoadsAll
  BY DEF LoadsAll, Walk, Loaded
<1> HIDE DEF Walks
<1> QED
  BY <1>1, <1>2, <1>3, Invariant, PTL DEF Spec
=============================================================================
