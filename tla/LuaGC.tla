-------------------------------- MODULE LuaGC --------------------------------
(***************************************************************************)
(* The incremental mark-and-sweep collector of a Lua state (lgc.c), with   *)
(* the program that changes the heap between its steps (the mutator:       *)
(* lvm.c, lapi.c, lfunc.c, lstring.c).                                     *)
(*                                                                         *)
(* An object is a table with one entry, a userdata, a Lua function with    *)
(* one upvalue, an upvalue, a string or a thread; heap[o] is what it       *)
(* refers to.  The registry, the globals and the metatables of the basic   *)
(* types are reached like values on the main thread's stack.               *)
(*                                                                         *)
(* Colours are relative to g->currentwhite: "white" is the current one,    *)
(* "dead" the other, and the flip at the end of the marking exchanges      *)
(* them.  The lists of the collector are sets, since nothing depends on    *)
(* the order of their elements: gray, grayagain and weak are linked        *)
(* through the one field gclist of an object; rootgc is every object but   *)
(* strings, open upvalues and the members of tmudata, and tosweep is the   *)
(* part of it (and of the string table) that sweepgc (and sweepstrgc) have *)
(* still to come to.  A new object is at the head of rootgc, before        *)
(* *sweepgc or to be swept without effect, so tosweep is without it.       *)
(*                                                                         *)
(* How much is done at a time (GCthreshold, estimate, gcdept) does not     *)
(* matter: the collector may make a step whenever no instruction is in     *)
(* progress (luaC_checkGC), and a step of the sweep handles one object.    *)
(***************************************************************************)
EXTENDS Naturals, FiniteSets

CONSTANTS Objs,     \* memory for objects other than the main thread
          Main,     \* g->mainthread
          Nil,      \* no object
          Slots,    \* the stack slots of a thread
          Kinds,    \* what the program creates
          Attrs,    \* weak modes of tables and finalizers of userdata it uses
          Api,      \* API functions the program uses beside the VM's instructions
          MaxCalls  \* calls of a finalizer that are counted

ASSUME LuaGCAssumption ==
       /\ Main \notin Objs
       /\ Nil \notin Objs \cup {Main}
       /\ Slots \subseteq Nat
       /\ Kinds \subseteq {"table", "udata", "func", "string", "thread"}
       /\ Attrs \subseteq {"strong", "k", "v", "kv", "gc", "nogc"}
       /\ Api \subseteq {"fullgc", "setupvalue", "close", "closestep"}
       /\ MaxCalls \in Nat \ {0, 1}

VARIABLES
    kind,       \* "none" for free memory, otherwise the type of the object
    mark,       \* the colour bits: "white", "dead", "gray", "black"
    heap,       \* the references an object holds
    attr,       \* __mode of a table, whether a userdata has a __gc
    fin,        \* FINALIZEDBIT of a userdata
    at,         \* where an open upvalue lives: <<thread, slot>>; <<>> if closed
    calls,      \* history: how often the __gc of a userdata was called
    gray, grayagain, weak, tmudata, tosweep,   \* the lists of the collector
    gcstate,    \* g->gcstate
    running,    \* L, the thread that runs
    mode        \* "run"; in luaC_fullgc "sweep", "mark" and, in a finalizer it
                \* calls, "gctm"; in lua_close "close", "closegc", then "closed"

All == Objs \cup {Main}
Empty == [stack |-> [s \in Slots |-> Nil], key |-> Nil, val |-> Nil, env |-> Nil, up |-> Nil]

objVars  == <<kind, heap, attr, fin, at, calls>>
listVars == <<gray, grayagain, weak>>
ctrlVars == <<tmudata, tosweep, gcstate, running, mode>>
vars == <<objVars, mark, listVars, ctrlVars>>

IsWhite(o) == mark[o] \in {"white", "dead"}
IsBlack(o) == mark[o] = "black"
IsDead(o)  == mark[o] = "dead"
Open(o)    == kind[o] = "upval" /\ at[o] # <<>>
IsWeak(o)  == kind[o] = "table" /\ attr[o] \in {"k", "v", "kv"}

\* uv->v of an upvalue: in a stack while it is open, in the upvalue after that.
Value(u) == IF at[u] # <<>> THEN heap[at[u][1]].stack[at[u][2]] ELSE heap[u].val

\* The objects without Nil, the white ones.
Proper(S) == S \ {Nil}
Whites(S) == {o \in Proper(S) : IsWhite(o)}

\* What traversetable, traverseclosure, traversestack and reallymarkobject (for
\* userdata and upvalues) mark when they get to an object.
Children(o) ==
    Proper(CASE kind[o] = "table" ->
                   IF heap[o].val = Nil THEN {}
                   ELSE (IF attr[o] \in {"k", "kv"} THEN {} ELSE {heap[o].key})
                        \cup (IF attr[o] \in {"v", "kv"} THEN {} ELSE {heap[o].val})
             [] kind[o] = "udata"  -> {heap[o].env}
             [] kind[o] = "func"   -> {heap[o].env, heap[o].up}
             [] kind[o] = "upval"  -> {Value(o)}
             [] kind[o] = "thread" -> {heap[o].stack[s] : s \in Slots}
             [] OTHER              -> {})

-----------------------------------------------------------------------------
(* Marking.                                                                *)

\* reallymarkobject on the white objects of S: what gets marked.  A userdata or
\* an upvalue takes what it refers to along; the environment of a userdata is
\* a table, and the value of an upvalue is no upvalue, so it ends there.
Through(S, k) == UNION {Children(o) : o \in {q \in S : kind[q] = k}}
Marked(S) ==
    LET first  == Whites(S)
        second == first \cup Whites(Through(first, "upval"))
    IN  second \cup Whites(Through(second, "udata"))

\* Userdata and closed upvalues become black at once.
ColourOf(o) == IF kind[o] = "udata" \/ (kind[o] = "upval" /\ ~Open(o))
               THEN "black" ELSE "gray"
Coloured(S) == [o \in All |-> IF o \in S THEN ColourOf(o) ELSE mark[o]]
Linked(S)   == {o \in S : kind[o] \in {"table", "func", "thread"}}

\* luaC_barrier and luaC_objbarrier: p, not a table, now refers to v.
Barrier(p, v) ==
    IF v # Nil /\ IsBlack(p) /\ IsWhite(v)
    THEN IF gcstate = "propagate"
         THEN /\ mark' = Coloured(Marked({v}))
              /\ gray' = gray \cup Linked(Marked({v}))
         ELSE mark' = [mark EXCEPT ![p] = "white"] /\ UNCHANGED gray
    ELSE UNCHANGED <<mark, gray>>

\* luaC_barriert and luaC_barrierback: the table t now refers to the set S.
\* (Mutant: the table is put back among the gray objects even if it was not
\* black.)
BarrierBackAlways(t, S) ==
    IF Whites(S) # {} /\ ~IsWhite(t)
    THEN /\ mark' = [mark EXCEPT ![t] = "gray"]
         /\ grayagain' = grayagain \cup {t}
    ELSE UNCHANGED <<mark, grayagain>>
BarrierBack(t, S) ==
    IF IsBlack(t) /\ Whites(S) # {}
    THEN /\ mark' = [mark EXCEPT ![t] = "gray"]
         /\ grayagain' = grayagain \cup {t}
    ELSE UNCHANGED <<mark, grayagain>>

-----------------------------------------------------------------------------
(* The mutator: one instruction or API call, made by the running thread.   *)

\* No instruction runs while luaC_fullgc or lua_close is at work, except for
\* those of the finalizers it calls.
MutatorRuns == mode \in {"run", "gctm", "closegc"}

Stack(s) == heap[running].stack[s]
Held == Proper({Stack(s) : s \in Slots})
OnStack(s, v) == [heap EXCEPT ![running].stack[s] = v]

\* luaC_white: the colour of a new object (luaC_link).
Fresh == "white"

\* OP_NEWTABLE, lua_createtable; lua_newthread; lua_newuserdata.
ModesOf(k) == CASE k = "table" -> Attrs \cap {"strong", "k", "v", "kv"}
                [] k = "udata" -> Attrs \cap {"gc", "nogc"}
                [] OTHER       -> {"strong"}
NewObject(o, k, s) ==
    /\ MutatorRuns
    /\ kind[o] = "none"
    /\ kind' = [kind EXCEPT ![o] = k]
    /\ \E a \in ModesOf(k) : attr' = [attr EXCEPT ![o] = a]
    /\ mark' = [mark EXCEPT ![o] = Fresh]
    /\ heap' = OnStack(s, o)
    /\ UNCHANGED <<fin, at, calls, listVars, ctrlVars>>

\* luaS_newlstr: a string that exists is used again, even if it is dead and
\* waits for the sweep.
Revived(o) == IF IsDead(o) THEN [mark EXCEPT ![o] = "white"] ELSE mark
NewString(o, s) ==
    /\ MutatorRuns
    /\ "string" \in Kinds
    /\ kind[o] \in {"none", "string"}
    /\ kind' = [kind EXCEPT ![o] = "string"]
    /\ mark' = IF kind[o] = "none" THEN [mark EXCEPT ![o] = Fresh] ELSE Revived(o)
    /\ heap' = OnStack(s, o)
    /\ UNCHANGED <<attr, fin, at, calls, listVars, ctrlVars>>

\* OP_CLOSURE: a function o whose upvalue is the slot b of the running function.
\* luaF_findupval uses the open upvalue of that slot if there is one, bringing
\* it back to life if it is dead, and else makes one of u.
OpenAt(th, b) == {v \in Objs : Open(v) /\ at[v] = <<th, b>>}
NewClosure(o, u, s, b) ==
    /\ MutatorRuns
    /\ "func" \in Kinds
    /\ kind[o] = "none" /\ o # u
    /\ IF OpenAt(running, b) = {} THEN kind[u] = "none" ELSE u \in OpenAt(running, b)
    /\ kind' = [kind EXCEPT ![o] = "func", ![u] = "upval"]
    /\ at' = [at EXCEPT ![u] = <<running, b>>]
    /\ mark' = [mark EXCEPT ![o] = Fresh,
                            ![u] = IF kind[u] = "none" THEN Fresh ELSE Revived(u)[u]]
    /\ heap' = [OnStack(s, o) EXCEPT ![o].up = u]
    /\ UNCHANGED <<attr, fin, calls, listVars, ctrlVars>>

\* OP_CLOSURE again: the new function shares the upvalue of the function f that
\* runs, open or closed.
NewInnerClosure(o, f, s) ==
    /\ MutatorRuns
    /\ kind[o] = "none" /\ kind[f] = "func"
    /\ kind' = [kind EXCEPT ![o] = "func"]
    /\ mark' = [mark EXCEPT ![o] = Fresh]
    /\ heap' = [OnStack(s, o) EXCEPT ![o].up = heap[f].up]
    /\ UNCHANGED <<attr, fin, at, calls, listVars, ctrlVars>>

\* OP_LOADNIL, OP_GETTABLE, OP_GETUPVAL, lua_getfenv: a slot gets nil or what
\* an object in a slot refers to.
Readable(o) ==
    CASE kind[o] = "table" -> {heap[o].val} \cup
                              (IF heap[o].val = Nil THEN {} ELSE {heap[o].key})
      [] kind[o] = "udata" -> {heap[o].env}
      [] kind[o] = "func"  -> {heap[o].env, Value(heap[o].up)}
      [] OTHER             -> {}
Load(s, v) ==
    /\ MutatorRuns
    /\ v # Stack(s)
    /\ heap' = OnStack(s, v)
    /\ UNCHANGED <<kind, attr, fin, at, calls, mark, listVars, ctrlVars>>

\* OP_SETTABLE, lua_settable: the entry of table t becomes k, v.  Nil stands for
\* a key that is no object, and as a value for the removal of the entry.  The
\* key of a table without weak keys is one more value, so it is left out there.
SetTable(t, k, v) ==
    /\ MutatorRuns
    /\ kind[t] = "table"
    /\ v = Nil \/ attr[t] \notin {"k", "kv"} => k = Nil
    /\ heap' = [heap EXCEPT ![t].key = k, ![t].val = v]
    /\ BarrierBack(t, {k, v})
    /\ UNCHANGED <<kind, attr, fin, at, calls, gray, weak, ctrlVars>>

\* lua_setfenv on a userdata or a function.
SetEnv(o, e) ==
    /\ MutatorRuns
    /\ kind[o] \in {"udata", "func"}
    /\ kind[e] = "table"
    /\ heap' = [heap EXCEPT ![o].env = e]
    /\ Barrier(o, e)
    /\ UNCHANGED <<kind, attr, fin, at, calls, grayagain, weak, ctrlVars>>

\* OP_SETUPVAL of function f, with the barrier of the upvalue, and
\* lua_setupvalue, with the barrier of the function.
Stored(u, v) == IF at[u] # <<>> THEN [heap EXCEPT ![at[u][1]].stack[at[u][2]] = v]
                ELSE [heap EXCEPT ![u].val = v]
SetUpval(f, v) ==
    /\ MutatorRuns
    /\ kind[f] = "func"
    /\ heap' = Stored(heap[f].up, v)
    /\ \E p \in {heap[f].up} \cup (IF "setupvalue" \in Api THEN {f} ELSE {}) :
         Barrier(p, v)
    /\ UNCHANGED <<kind, attr, fin, at, calls, grayagain, weak, ctrlVars>>

\* The objects of D are freed, and the upvalues of C take their value from the
\* stack they lived in; h is what becomes of the others' references.
Freed(f, D, value) == [o \in All |-> IF o \in D THEN value ELSE f[o]]
Reclaim(D, C, h) ==
    /\ kind' = Freed(kind, D, "none")
    /\ attr' = Freed(attr, D, "strong")
    /\ calls' = Freed(calls, D, 0)
    /\ at' = Freed(at, D \cup C, <<>>)
    /\ heap' = [o \in All |-> IF o \in D THEN Empty
                              ELSE IF o \in C THEN [heap[o] EXCEPT !.val = Value(o)]
                              ELSE h[o]]

\* luaF_close on the slots from s on of thread th: a dead upvalue is freed,
\* another one closed and linked to rootgc (luaC_linkupval).  A gray one gets
\* black while marking goes on, and what it refers to is marked.
\* (Mutant: it is not.)
OpenFrom(th, s) == {u \in Objs : Open(u) /\ at[u][1] = th /\ at[u][2] >= s}
Alive(U) == {u \in U : ~IsDead(u)}
LinkUpvalUnmarked(U) == {}
LinkUpval(U) == IF gcstate = "propagate" THEN Marked({Value(u) : u \in U}) ELSE {}
CloseUpvals(th, s, h) ==
    LET U     == OpenFrom(th, s)
        grays == {u \in U : mark[u] = "gray"}
        new   == LinkUpval(grays)
    IN  /\ Reclaim(U \ Alive(U), Alive(U), h)
        /\ mark' = [o \in All |->
                      CASE o \in U \ Alive(U) -> "free"
                        [] o \in grays -> IF gcstate = "propagate" THEN "black" ELSE "white"
                        [] OTHER       -> Coloured(new)[o]]
        /\ gray' = gray \cup Linked(new)

\* OP_CLOSE, OP_RETURN.
LeaveBlock(s) ==
    /\ MutatorRuns
    /\ OpenAt(running, s) # {}
    /\ CloseUpvals(running, s, heap)
    /\ UNCHANGED <<fin, grayagain, weak, ctrlVars>>

\* lua_resume by the main thread and lua_yield, with a value that moves from
\* one stack to the other.  No finalizer yields (nCcalls > baseCcalls).
Switch(t, v) ==
    /\ mode = "run"
    /\ heap' = [heap EXCEPT ![t].stack[1] = v]
    /\ running' = t
    /\ UNCHANGED <<kind, attr, fin, at, calls, mark, listVars, tmudata, tosweep, gcstate, mode>>
Resume(t, v) == running = Main /\ kind[t] = "thread" /\ Switch(t, v)
Yield(v)     == running # Main /\ Switch(Main, v)

-----------------------------------------------------------------------------
(* The collector: one singlestep each.  In a finalizer that lua_close calls *)
(* a step needs more memory than the state held so far (GCthreshold).       *)

CollectorRuns ==
    mode \in {"run", "mark", "gctm"} \cup (IF "closestep" \in Api THEN {"closegc"} ELSE {})

\* markroot, at the start of a cycle or half way in luaC_fullgc.
MarkRoot ==
    /\ \/ gcstate = "pause" /\ CollectorRuns /\ mode # "mark" /\ UNCHANGED mode
       \/ gcstate = "finalize" /\ mode = "sweep" /\ mode' = "mark"
    /\ mark' = [mark EXCEPT ![Main] = "gray"]
    /\ gray' = {Main}
    /\ grayagain' = {}
    /\ weak' = {}
    /\ gcstate' = "propagate"
    /\ UNCHANGED <<objVars, tmudata, tosweep, running>>

\* propagatemark on the gray object o: a thread and a weak table stay gray and
\* go to a list that is gone through again at the end.
Propagate(o) ==
    /\ gcstate = "propagate" /\ CollectorRuns
    /\ o \in gray
    /\ LET new == Marked(Children(o))
       IN  /\ mark' = IF kind[o] = "thread" \/ IsWeak(o) THEN Coloured(new)
                      ELSE [Coloured(new) EXCEPT ![o] = "black"]
           /\ gray' = (gray \cup Linked(new)) \ {o}
    /\ grayagain' = grayagain \cup ({o} \cap {q \in All : kind[q] = "thread"})
    /\ weak' = weak \cup ({o} \cap {q \in All : IsWeak(q)})
    /\ UNCHANGED <<objVars, ctrlVars>>

\* propagateall: the white objects that marking S reaches, when those of Done
\* are no longer white.
MarkClosure(S, Done) ==
    LET W == {o \in All : IsWhite(o)} \ Done
    IN  {o \in W : \A T \in SUBSET W :
                      /\ S \cap W \subseteq T
                      /\ \A q \in T : Children(q) \cap W \subseteq T
                      => o \in T}

\* luaC_separateudata: the userdata that no longer wait for the day they are
\* found dead, of which those with a finalizer go to tmudata.
Separate(S) ==
    /\ fin' = [o \in All |-> fin[o] \/ o \in S]
    /\ tmudata' = tmudata \cup {o \in S : attr[o] = "gc"}

\* iscleared for a key or value o of a weak table, when the objects of Live are
\* marked and the userdata of F have their FINALIZEDBIT.
IsCleared(o, iskey, Live, F) ==
    /\ o # Nil
    /\ kind[o] # "string"
    /\ o \notin Live \/ (o \in F /\ ~iskey)

\* cleartable on the tables of T: the entries it removes, and the strings it
\* marks (that of a value only if the key stays).  (Mutant: dead keys stay.)
ClearedValuesOnly(T, Live, F) ==
    {t \in T : heap[t].val # Nil /\ IsCleared(heap[t].val, FALSE, Live, F)}
Cleared(T, Live, F) ==
    {t \in T : /\ heap[t].val # Nil
               /\ \/ IsCleared(heap[t].key, TRUE, Live, F)
                  \/ IsCleared(heap[t].val, FALSE, Live, F)}
KeptStrings(T, Live, F) ==
    {o \in Objs : /\ kind[o] = "string"
                  /\ \E t \in T : /\ heap[t].val # Nil
                                  /\ \/ o = heap[t].key
                                     \/ /\ o = heap[t].val
                                        /\ ~IsCleared(heap[t].key, TRUE, Live, F)}

\* The colour of what propagateall is done with.
Traversed(o) ==
    IF kind[o] \in {"thread", "string"} \/ Open(o) \/ IsWeak(o) THEN "gray" ELSE "black"

\* Where atomic starts marking again: remarkupvals and the lists.
\* (Mutants: without remarkupvals; without grayagain.)
RemarkLists == grayagain \cup weak
RemarkThreads == {u \in Objs : Open(u) /\ mark[u] = "gray"} \cup weak
                     \cup {o \in grayagain : kind[o] = "thread"}
Remarked == {u \in Objs : Open(u) /\ mark[u] = "gray"} \cup grayagain \cup weak

\* The colour of the others when the whites have been exchanged.  (Mutant: they
\* are not.)
FlippedNot(colour) == colour
Flipped(colour) == CASE colour = "white" -> "dead"
                     [] colour = "dead"  -> "white"
                     [] OTHER            -> colour

\* atomic
Atomic ==
    /\ gcstate = "propagate" /\ CollectorRuns
    /\ gray = {}
    /\ LET first   == MarkClosure({running} \cup UNION {Children(o) : o \in Remarked}, {})
           sep     == {o \in Whites(Objs) \ first : kind[o] = "udata" /\ ~fin[o]}
           pending == tmudata \cup {o \in sep : attr[o] = "gc"}
           second  == MarkClosure(pending \cup UNION {Children(o) : o \in pending}, first)
           live    == {o \in All : mark[o] \in {"gray", "black"}} \cup first \cup second
           weaks   == {o \in live : IsWeak(o)}
           final   == {o \in Objs : fin[o]} \cup sep
           clear   == Cleared(weaks, live, final)
           strings == KeptStrings(weaks, live, final)
       IN  /\ Separate(sep)
           /\ heap' = [o \in All |-> IF o \in clear THEN Empty ELSE heap[o]]
           /\ mark' = [o \in All |->
                         CASE o \in first \cup second \cup Remarked \cup pending -> Traversed(o)
                           [] o \in strings      -> "gray"
                           [] OTHER              -> Flipped(mark[o])]
           /\ gray' = {}
           /\ grayagain' = {o \in live : kind[o] = "thread"}
           /\ weak' = weaks
           /\ tosweep' = {o \in All : kind[o] # "none" /\ ~Open(o)} \ pending
    /\ gcstate' = "sweepstring"
    /\ UNCHANGED <<kind, attr, at, calls, running, mode>>

\* sweeplist on an object of the string table or, after that, of rootgc.  A
\* thread takes its open upvalues along; those that outlive it are closed
\* (luaE_freethread).  (Mutant: they are not.)
SweepRuns == CollectorRuns \/ mode = "sweep"
SweepThreadOnly(o) ==
    LET U == OpenFrom(o, 0)
        D == (U \ Alive(U)) \cup (IF IsDead(o) THEN {o} ELSE {})
    IN  /\ Reclaim(D, {}, heap)
        /\ fin' = Freed(fin, D, FALSE)
        /\ mark' = [q \in All |-> IF q \in D THEN "free"
                                  ELSE IF q \in U \cup {o} THEN "white" ELSE mark[q]]
        /\ tosweep' = tosweep \ {o}
        /\ UNCHANGED <<listVars, tmudata, running, mode>>
SweepObject(o) ==
    LET U == OpenFrom(o, 0)
        D == (U \ Alive(U)) \cup (IF IsDead(o) THEN {o} ELSE {})
    IN  /\ Reclaim(D, IF IsDead(o) THEN Alive(U) ELSE {}, heap)
        /\ fin' = Freed(fin, D, FALSE)
        /\ mark' = [q \in All |-> IF q \in D THEN "free"
                                  ELSE IF q \in U \cup {o} THEN "white" ELSE mark[q]]
        /\ tosweep' = tosweep \ {o}
        /\ UNCHANGED <<listVars, tmudata, running, mode>>

\* GCSsweepstring and GCSsweep.  checkSizes changes no object.
SweepString(o) ==
    /\ gcstate = "sweepstring" /\ SweepRuns
    /\ kind[o] = "string"
    /\ SweepObject(o)
    /\ UNCHANGED gcstate
SweepStringEnds ==
    /\ gcstate = "sweepstring" /\ SweepRuns
    /\ \A o \in tosweep : kind[o] # "string"
    /\ gcstate' = "sweep"
    /\ UNCHANGED <<objVars, mark, listVars, tmudata, tosweep, running, mode>>
Sweep(o) ==
    /\ gcstate = "sweep" /\ SweepRuns
    /\ SweepObject(o)
    /\ gcstate' = IF tosweep = {o} THEN "finalize" ELSE "sweep"

\* GCTM: a userdata of tmudata goes back to rootgc, for a later cycle, and its
\* finalizer is called; that may drop its argument at once.
GCTM(u) ==
    /\ \/ gcstate = "finalize" /\ CollectorRuns
       \/ mode = "close"
    /\ tmudata' = tmudata \ {u}
    /\ mark' = [mark EXCEPT ![u] = "white"]
    /\ calls' = [calls EXCEPT ![u] = IF @ < MaxCalls THEN @ + 1 ELSE @]
    /\ \/ UNCHANGED heap
       \/ \E s \in Slots : Stack(s) = Nil /\ heap' = OnStack(s, u)
    /\ mode' = CASE mode = "mark"  -> "gctm"
                 [] mode = "close" -> "closegc"
                 [] OTHER          -> mode
    /\ UNCHANGED <<kind, attr, fin, at, listVars, tosweep, gcstate, running>>

\* GCSfinalize without userdata: the cycle ends.
EndCycle ==
    /\ gcstate = "finalize" /\ CollectorRuns
    /\ tmudata = {}
    /\ gcstate' = "pause"
    /\ UNCHANGED <<objVars, mark, listVars, tmudata, tosweep, running, mode>>

\* luaC_fullgc: an unfinished marking is forgotten, by a sweep that turns
\* everything white without having exchanged the whites.
FullGC ==
    /\ "fullgc" \in Api
    /\ mode \in {"run", "gctm"}
    /\ mode' = "sweep"
    /\ IF gcstate \in {"pause", "propagate"}
       THEN /\ gcstate' = "sweepstring"
            /\ tosweep' = {o \in All : kind[o] # "none" /\ ~Open(o)} \ tmudata
            /\ gray' = {} /\ grayagain' = {} /\ weak' = {}
       ELSE UNCHANGED <<gcstate, tosweep, listVars>>
    /\ UNCHANGED <<objVars, mark, tmudata, running>>
FullGCEnds ==
    /\ mode = "mark" /\ gcstate = "pause"
    /\ mode' = "run"
    /\ UNCHANGED <<objVars, mark, listVars, tmudata, tosweep, gcstate, running>>

\* A finalizer that luaC_fullgc or lua_close has called returns, or raises an
\* error: that leaves luaC_fullgc half way, but lua_close goes on.
FinalizerReturns ==
    /\ mode \in {"gctm", "closegc"}
    /\ mode' = IF mode = "gctm" THEN "mark" ELSE "close"
    /\ UNCHANGED <<objVars, mark, listVars, tmudata, tosweep, gcstate, running>>
FinalizerFails ==
    /\ mode = "gctm"
    /\ mode' = "run"
    /\ UNCHANGED <<objVars, mark, listVars, tmudata, tosweep, gcstate, running>>

\* lua_close: closes the upvalues of the main thread, separates all userdata,
\* dead or not, and drops the stack.  (Mutant: only those that are white.)
SeparatedWhite == {o \in Objs : kind[o] = "udata" /\ ~fin[o] /\ IsWhite(o)}
SeparatedAll == {o \in Objs : kind[o] = "udata" /\ ~fin[o]}
Close ==
    /\ "close" \in Api
    /\ mode = "run" /\ running = Main
    /\ mode' = "close"
    /\ CloseUpvals(Main, 0, [heap EXCEPT ![Main] = Empty])
    /\ Separate(SeparatedAll)
    /\ tosweep' = tosweep \ tmudata'
    /\ UNCHANGED <<grayagain, weak, gcstate, running>>

\* close_state, with luaC_freeall.
FreeAll ==
    /\ mode = "close" /\ tmudata = {}
    /\ mode' = "closed"
    /\ Reclaim(Objs, {}, heap)
    /\ fin' = [o \in All |-> FALSE]
    /\ mark' = [o \in All |-> IF o = Main THEN mark[o] ELSE "free"]
    /\ tosweep' = {}
    /\ UNCHANGED <<listVars, tmudata, gcstate, running>>

-----------------------------------------------------------------------------
\* lua_newstate
Init ==
    /\ kind = [o \in All |-> IF o = Main THEN "thread" ELSE "none"]
    /\ mark = [o \in All |-> IF o = Main THEN "white" ELSE "free"]
    /\ heap = [o \in All |-> Empty]
    /\ attr = [o \in All |-> "strong"]
    /\ fin = [o \in All |-> FALSE]
    /\ at = [o \in All |-> <<>>]
    /\ calls = [o \in All |-> 0]
    /\ gray = {} /\ grayagain = {} /\ weak = {} /\ tmudata = {} /\ tosweep = {}
    /\ gcstate = "pause"
    /\ running = Main /\ mode = "run"

Mutator ==
    \/ \E o \in Objs, s \in Slots, k \in Kinds \cap {"table", "udata", "thread"} : NewObject(o, k, s)
    \/ \E o \in Objs, s \in Slots : NewString(o, s)
    \/ \E o, u \in Objs, s, b \in Slots : NewClosure(o, u, s, b)
    \/ \E o \in Objs, f \in Held, s \in Slots : NewInnerClosure(o, f, s)
    \/ \E s \in Slots, v \in {Nil} \cup UNION {Readable(o) : o \in Held} : Load(s, v)
    \/ \E s \in Slots : LeaveBlock(s)
    \/ \E t \in Held, k, v \in Held \cup {Nil} : SetTable(t, k, v)
    \/ \E o, v \in Held : SetEnv(o, v)
    \/ \E f \in Held, v \in Held \cup {Nil} : SetUpval(f, v)
    \/ \E t \in Held, v \in Held \cup {Nil} : Resume(t, v)
    \/ \E v \in Held \cup {Nil} : Yield(v)
    \/ FullGC
    \/ FinalizerReturns \/ FinalizerFails
    \/ Close

Collector == \/ MarkRoot \/ (\E o \in gray : Propagate(o)) \/ Atomic
             \/ (\E o \in tosweep : SweepString(o) \/ Sweep(o)) \/ SweepStringEnds
             \/ (\E u \in tmudata : GCTM(u)) \/ EndCycle
             \/ FullGCEnds \/ FreeAll

Next == Mutator \/ Collector

\* The program goes on allocating, so that luaC_checkGC finds the threshold
\* crossed again and again, and finalizers return.
Fairness == WF_vars(Collector) /\ WF_vars(FinalizerReturns)

Spec == Init /\ [][Next]_vars /\ Fairness

-----------------------------------------------------------------------------
(* Properties.                                                             *)

\* Every reference an object holds, weak ones too.
Refs(o) == Proper(IF kind[o] = "table" /\ heap[o].val # Nil
                  THEN {heap[o].key, heap[o].val} ELSE Children(o))

\* The program cannot get at o any more: some set that holds the roots and
\* what its members refer to is without o.
Unreachable(o) ==
    \E T \in SUBSET (All \ {o}) : {Main, running} \subseteq T /\ \A q \in T : Refs(q) \subseteq T

\* Whatever the program can get at has not been freed and does not wait to be
\* (the checkliveness assertions of lobject.h).  It takes a store into an object
\* that was marked before, at any moment of the cycle, to break it.
CheckLiveness ==
    mode # "closed" => \A o \in All : kind[o] = "none" \/ IsDead(o) => Unreachable(o)

\* An open upvalue lives in the stack of a thread that exists: a thread that
\* dies before the functions it made closes their upvalues.
OpenUpvalsHaveStack == \A u \in Objs : Open(u) => kind[at[u][1]] = "thread"

\* Between two steps of the marking no black object refers to a white one,
\* except for the userdata left in tmudata by an earlier cycle.
TriColour ==
    gcstate = "propagate" /\ mode \notin {"close", "closegc", "closed"} =>
      \A o \in All \ tmudata : IsBlack(o) => Whites(Children(o)) = {}

\* Every gray object is in exactly one of the lists that are linked through
\* its gclist, so that none is forgotten and no list runs into another.
GrayLists ==
    gcstate = "propagate" /\ mode # "closed" =>
      /\ gray \cup grayagain \cup weak = Linked({o \in All : mark[o] = "gray"})
      /\ gray \cap grayagain = {} /\ gray \cap weak = {} /\ grayagain \cap weak = {}

\* A userdata with a finalizer is freed only after one call of it, whether it
\* dies or the state is closed; only those that finalizers create while the
\* state is closed get none.  And none is called twice, kept alive or not.
FinalizedOnce ==
    [][\A o \in Objs : kind[o] = "udata" /\ attr[o] = "gc" =>
         /\ kind'[o] = "none" => calls[o] = 1 \/ (mode = "close" /\ ~fin[o])
         /\ mode = "run" /\ mode' = "close" => fin'[o]
         /\ calls'[o] <= 1]_vars

\* The collector finds only such userdata dead that the program cannot get at
\* by strong references, except through others that wait for their finalizer.
FinalizedUnreachable ==
    [][\A o \in tmudata' \ tmudata : mode' # "close" =>
         \E T \in SUBSET (All \ {o}) : /\ {Main, running} \subseteq T
                                       /\ \A q \in T \ tmudata : Children(q) \subseteq T]_vars

\* Garbage is freed some day, cycles too, unless a finalizer saves it.
EventuallyCollected ==
    \A o \in Objs : (kind[o] # "none" /\ Unreachable(o)) ~> (kind[o] = "none" \/ ~Unreachable(o))
=============================================================================
