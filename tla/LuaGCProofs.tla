----------------------------- MODULE LuaGCProofs -----------------------------
(***************************************************************************)
(* Theorems about the collector, for any number of objects and any length  *)
(* of the stacks.                                                          *)
(*                                                                         *)
(* Inv says, object by object, how colour and type go together (Shape),    *)
(* that what an object in use refers to is in use and of the right type    *)
(* (Sound), how far the finalization of a userdata has come (Finals), that *)
(* the sweep still has to come to whatever is not white (Swept), and, while*)
(* the marking goes on, which list a gray object is in (Lists) and that no *)
(* black object refers to a white one (Colours).  An object is in use      *)
(* unless it is free or dead, so Sound makes the objects in use a set that *)
(* is closed under references: that is why nothing in it is freed.         *)
(*                                                                         *)
(* The hard steps are the stores, where the barriers have to keep Colours, *)
(* and the end of the marking, where Lists and Colours together make what  *)
(* is marked a closed set.  The other steps are grouped by what they do:   *)
(* Grows (objects are created or revived), Painted (colours change) and    *)
(* Reclaim (objects are freed, upvalues closed).                           *)
(***************************************************************************)
EXTENDS LuaGC, TLAPS

\* What the variables hold.
Kind == {"none", "table", "udata", "func", "upval", "string", "thread"}
Colour == {"free", "white", "dead", "gray", "black"}
GCState == {"pause", "propagate", "sweepstring", "sweep", "finalize"}
Mode == {"run", "sweep", "mark", "gctm", "close", "closegc", "closed"}
Ref == All \cup {Nil}
Object == [stack : [Slots -> Ref], key : Ref, val : Ref, env : Ref, up : Ref]

\* The type invariant.
TypeOK ==
    /\ kind \in [All -> Kind]
    /\ mark \in [All -> Colour]
    /\ heap \in [All -> Object]
    /\ attr \in [All -> {"strong", "k", "v", "kv", "gc", "nogc"}]
    /\ fin \in [All -> BOOLEAN]
    /\ at \in [All -> {<<>>} \cup (All \X Slots)]
    /\ calls \in [All -> Nat]
    /\ gray \subseteq All /\ grayagain \subseteq All /\ weak \subseteq All
    /\ tmudata \subseteq Objs /\ tosweep \subseteq All
    /\ gcstate \in GCState
    /\ running \in All
    /\ mode \in Mode

\* An object that is in use, or may be.
Live(o) == kind[o] # "none" /\ ~IsDead(o)

\* A value, and a reference to a table.
Datum(v) == v = Nil \/ (Live(v) /\ kind[v] # "upval")
Table(v) == v = Nil \/ (Live(v) /\ kind[v] = "table")

\* Free memory is empty; an open upvalue lives in a thread; only an object whose
\* references have all been marked, and that needs no second look, is black; a
\* userdata or closed upvalue is never gray.
Shape(o) ==
    /\ kind[o] = "none" <=> mark[o] = "free"
    /\ kind[o] = "none" => /\ heap[o] = Empty /\ attr[o] = "strong" /\ at[o] = <<>>
                           /\ ~fin[o] /\ calls[o] = 0
    /\ at[o] # <<>> => kind[o] = "upval" /\ kind[at[o][1]] = "thread"
    /\ IsBlack(o) => kind[o] \in {"table", "udata", "func", "upval"} /\ ~IsWeak(o) /\ ~Open(o)
    /\ mark[o] = "gray" => kind[o] # "udata" /\ (kind[o] = "upval" => Open(o))

\* What o refers to is in use, and of the type it should be.
Sound(o) ==
    /\ kind[o] = "table" /\ heap[o].val # Nil => Datum(heap[o].key) /\ Datum(heap[o].val)
    /\ kind[o] = "udata" => Table(heap[o].env)
    /\ kind[o] = "func" => /\ Table(heap[o].env)
                           /\ heap[o].up # Nil /\ Live(heap[o].up) /\ kind[heap[o].up] = "upval"
    /\ kind[o] = "upval" => Datum(Value(o))
    /\ kind[o] = "thread" => \A s \in Slots : Datum(heap[o].stack[s])

\* A userdata with a finalizer waits to be found dead, waits for the call, or has
\* had it; only the last may be dead.
Finals(o) ==
    /\ fin[o] => kind[o] = "udata"
    /\ kind[o] = "udata" /\ IsDead(o) => fin[o]
    /\ o \in tmudata => kind[o] = "udata" /\ attr[o] = "gc" /\ fin[o] /\ Live(o)
    /\ kind[o] = "udata" /\ attr[o] = "gc" =>
          calls[o] = IF fin[o] /\ o \notin tmudata THEN 1 ELSE 0

\* The sweep has still to come to o, or to the thread whose stack it lives in.
Pending(o) == o \in tosweep \/ (Open(o) /\ at[o][1] \in tosweep)

\* It has for whatever is dead, and, when no marking is under way, for whatever
\* is marked, except for userdata that wait for their finalizer.
Swept(o) ==
    /\ IsDead(o) => Pending(o) /\ (gcstate = "sweep" => kind[o] # "string")
    /\ mark[o] \in {"gray", "black"} /\ gcstate # "propagate" => Pending(o) \/ o \in tmudata
    /\ o \in tosweep => /\ kind[o] # "none" /\ ~Open(o)
                        /\ gcstate \in {"sweepstring", "sweep"}
                        /\ gcstate = "sweep" => kind[o] # "string"

\* The main thread and the running one are in use; lua_close runs in the former.
Threads ==
    /\ kind[Main] = "thread" /\ ~IsDead(Main)
    /\ kind[running] = "thread" /\ ~IsDead(running)
    /\ mode \in {"close", "closegc", "closed"} => running = Main

\* r is marked when o is traversed; o refers to r.
Child(o, r) ==
    /\ r # Nil
    /\ \/ /\ kind[o] = "table" /\ heap[o].val # Nil
          /\ \/ r = heap[o].key /\ attr[o] \notin {"k", "kv"}
             \/ r = heap[o].val /\ attr[o] \notin {"v", "kv"}
       \/ kind[o] = "udata" /\ r = heap[o].env
       \/ kind[o] = "func" /\ (r = heap[o].env \/ r = heap[o].up)
       \/ kind[o] = "upval" /\ r = Value(o)
       \/ kind[o] = "thread" /\ \E s \in Slots : r = heap[o].stack[s]

\* GrayLists and TriColour, object by object.
Lists ==
    gcstate = "propagate" /\ mode # "closed" => \A o \in All :
       /\ o \in gray \/ o \in grayagain \/ o \in weak <=>
             mark[o] = "gray" /\ kind[o] \in {"table", "func", "thread"}
       /\ ~(o \in gray /\ o \in grayagain)
       /\ ~(o \in gray /\ o \in weak)
       /\ ~(o \in grayagain /\ o \in weak)
Colours ==
    gcstate = "propagate" /\ mode \notin {"close", "closegc", "closed"} =>
       \A o \in All \ tmudata, r \in All : IsBlack(o) /\ Child(o, r) => ~IsWhite(r)

\* The inductive invariant (with Rooted, below).
Shapes == \A o \in All : Shape(o)
Heap   == \A o \in All : Live(o) => Sound(o)
Final  == \A o \in All : Finals(o)
Sweeps == \A o \in All : Swept(o)

Inv == /\ TypeOK /\ Shapes /\ Threads
       /\ mode # "closed" => Heap /\ Final /\ Sweeps
       /\ Lists /\ Colours

-----------------------------------------------------------------------------
\* Child is membership in Children, in this state and the next.
LEMMA ChildrenAre ==
    ASSUME NEW o \in All, NEW r
    PROVE  r \in Children(o) <=> Child(o, r)
BY DEF Children, Child, Proper

LEMMA ChildrenAreNext ==
    ASSUME NEW o \in All, NEW r
    PROVE  r \in Children(o)' <=> Child(o, r)'
BY DEF Children, Child, Proper

\* What a sound object refers to is in use.
LEMMA SoundChild ==
    ASSUME TypeOK, NEW o \in All, Sound(o), NEW r, Child(o, r)
    PROVE  r \in All /\ Live(r)
<1>1. CASE kind[o] = "upval"
  <2>1. r = Value(o) /\ r # Nil
    BY <1>1 DEF Child
  <2>2. Value(o) \in Ref
    BY DEF Object, TypeOK, Value, Ref
  <2> QED
    BY <1>1, <2>1, <2>2 DEF Sound, Datum, Ref
<1>2. CASE kind[o] = "thread"
  BY <1>2 DEF Object, Child, Sound, Datum, TypeOK, Ref
<1>3. CASE kind[o] \notin {"upval", "thread"}
  BY <1>3 DEF Object, Child, Sound, Datum, Table, TypeOK, Ref
<1> QED
  BY <1>1, <1>2, <1>3

\* What reallymarkobject marks is white, and a userdata or closed upvalue it
\* makes black takes what it refers to along.
LEMMA MarkedIs ==
    ASSUME TypeOK, NEW S, S \subseteq Ref,
           \A o \in All : IsWhite(o) => Sound(o)
    PROVE  LET N == Marked(S) IN
           /\ N \subseteq All
           /\ \A o \in N : IsWhite(o)
           /\ Whites(S) \subseteq N
           /\ \A o \in N, r \in All :
                  kind[o] \in {"udata", "upval"} /\ Child(o, r) /\ IsWhite(r) => r \in N
           /\ \A o \in N : kind[o] = "upval" => o \in S
<1> DEFINE first == Whites(S)
           second == first \cup Whites(Through(first, "upval"))
           third == second \cup Whites(Through(second, "udata"))
<1>1. Marked(S) = third
  BY DEF Marked
<1>2. first \subseteq All /\ \A o \in first : IsWhite(o)
  BY DEF Whites, Proper, Ref
<1>3. ASSUME NEW o \in Whites(Through(first, "upval"))
      PROVE  o \in All /\ IsWhite(o) /\ kind[o] # "upval"
  <2>1. PICK u \in first : kind[u] = "upval" /\ o \in Children(u)
    BY DEF Whites, Proper, Through
  <2>2. u \in All /\ Sound(u) /\ Child(u, o)
    BY <1>2, <2>1, ChildrenAre
  <2>3. o \in All
    BY <2>2, SoundChild
  <2>4. o = Value(u) /\ o # Nil
    BY <2>1, <2>2 DEF Child
  <2> QED
    BY <2>1, <2>2, <2>3, <2>4 DEF Sound, Datum, Whites
<1>4. second \subseteq All /\ \A o \in second : IsWhite(o)
  BY <1>2, <1>3
<1>5. ASSUME NEW o \in Whites(Through(second, "udata"))
      PROVE  o \in All /\ IsWhite(o) /\ kind[o] = "table"
  <2>1. PICK u \in second : kind[u] = "udata" /\ o \in Children(u)
    BY DEF Whites, Proper, Through
  <2>2. u \in All /\ Sound(u) /\ Child(u, o)
    BY <1>4, <2>1, ChildrenAre
  <2>3. o \in All
    BY <2>2, SoundChild
  <2>4. o = heap[u].env /\ o # Nil
    BY <2>1, <2>2 DEF Child
  <2> QED
    BY <2>1, <2>2, <2>3, <2>4 DEF Sound, Table, Whites
<1>6. ASSUME NEW o \in third, NEW r \in All, kind[o] \in {"udata", "upval"}, Child(o, r), IsWhite(r)
      PROVE  r \in third
  <2>0. r # Nil
    BY <1>6 DEF Child
  <2>1. CASE kind[o] = "upval"
    <3>1. o \in first
      BY <1>3, <1>5, <2>1
    <3>2. r \in Children(o)
      BY <1>2, <1>6, <3>1, ChildrenAre
    <3> QED
      BY <1>6, <2>0, <2>1, <3>1, <3>2 DEF Whites, Proper, Through
  <2>2. CASE kind[o] = "udata"
    <3>1. o \in second
      BY <1>5, <2>2
    <3>2. r \in Children(o)
      BY <1>4, <1>6, <3>1, ChildrenAre
    <3> QED
      BY <1>6, <2>0, <2>2, <3>1, <3>2 DEF Whites, Proper, Through
  <2> QED
    BY <1>6, <2>1, <2>2
<1>7. third \subseteq All /\ \A o \in third : IsWhite(o)
  BY <1>4, <1>5
<1>8. ASSUME NEW o \in third, kind[o] = "upval" PROVE o \in S
  <2>1. o \in first
    BY <1>3, <1>5, <1>8
  <2> QED
    BY <2>1 DEF Whites, Proper
<1>9. Whites(S) \subseteq third
  OBVIOUS
<1> HIDE DEF first, second, third
<1> QED
  BY <1>1, <1>6, <1>7, <1>8, <1>9

\* Nothing is dead while marking goes on.
LEMMA NoneDead ==
    ASSUME TypeOK, Sweeps, gcstate \notin {"sweepstring", "sweep"}
    PROVE  tosweep = {} /\ \A o \in All : ~IsDead(o)
<1>1. tosweep = {}
  BY DEF TypeOK, Sweeps, Swept
<1> QED
  BY <1>1 DEF Sweeps, Swept, Pending

-----------------------------------------------------------------------------
(* Steps that put a value into a stack slot and create objects.            *)

\* What is in use stays so.
Keeps == \A o \in All : Live(o) => Live(o)' /\ kind'[o] = kind[o]

\* Only stack slots change, and they get v.
StackStep(o, v) ==
    /\ heap'[o].key = heap[o].key /\ heap'[o].val = heap[o].val
    /\ heap'[o].env = heap[o].env /\ heap'[o].up = heap[o].up
    /\ \A s \in Slots : heap'[o].stack[s] \in {heap[o].stack[s], v}

\* An object stays sound when stack slots get a value that is.
LEMMA StackSound ==
    ASSUME TypeOK, Shapes, Heap, Keeps, NEW v, Datum(v)',
           NEW o \in All, Live(o), at'[o] = at[o],
           \A q \in All : q = o \/ (kind[q] = "thread" /\ at[o] # <<>> /\ q = at[o][1])
                             => StackStep(q, v)
    PROVE  Sound(o)'
<1>1. Sound(o) /\ Live(o)' /\ kind'[o] = kind[o] /\ StackStep(o, v)
  BY DEF Heap, Keeps, Live
<1>2. ASSUME NEW w \in Ref PROVE (Datum(w) => Datum(w)') /\ (Table(w) => Table(w)')
  BY DEF Keeps, Datum, Table, Ref
<1>3. /\ heap[o].key \in Ref /\ heap[o].val \in Ref /\ heap[o].env \in Ref /\ heap[o].up \in Ref
      /\ \A s \in Slots : heap[o].stack[s] \in Ref
  BY DEF Object, TypeOK
<1>4. CASE kind[o] = "table"
  BY <1>1, <1>2, <1>3, <1>4 DEF Sound, StackStep
<1>5. CASE kind[o] = "udata"
  BY <1>1, <1>2, <1>3, <1>5 DEF Sound, StackStep
<1>6. CASE kind[o] = "func"
  <2>1. heap[o].up \in All
    BY <1>1, <1>3, <1>6 DEF Sound, Ref
  <2> QED
    BY <1>1, <1>2, <1>3, <1>6, <2>1 DEF Sound, StackStep, Keeps
<1>7. CASE kind[o] = "upval"
  <2>1. Value(o) \in Ref /\ Datum(Value(o))
    BY <1>1, <1>7 DEF Object, TypeOK, Value, Sound
  <2>2. Value(o)' \in {Value(o), v}
    <3>1. CASE at[o] = <<>>
      BY <1>1, <3>1 DEF Value, StackStep
    <3>2. CASE at[o] # <<>>
      <4>1. at[o][1] \in All /\ at[o][2] \in Slots /\ kind[at[o][1]] = "thread"
        BY <3>2 DEF TypeOK, Shapes, Shape
      <4> QED
        BY <3>2, <4>1 DEF Value, StackStep
    <3> QED
      BY <3>1, <3>2
  <2>3. Datum(Value(o))'
    <3>1. CASE Value(o)' = v
      BY <3>1 DEF Datum, Live, IsDead
    <3>2. CASE Value(o)' = Value(o)
      BY <1>2, <2>1, <3>2 DEF Datum, Live, IsDead
    <3> QED
      BY <2>2, <3>1, <3>2
  <2> QED
    BY <1>1, <1>7, <2>3 DEF Sound
<1>8. CASE kind[o] = "thread"
  <2>1. ASSUME NEW s \in Slots PROVE Datum(heap[o].stack[s])'
    <3>1. Datum(heap[o].stack[s]) /\ heap'[o].stack[s] \in {heap[o].stack[s], v}
      BY <1>1, <1>8 DEF Sound, StackStep
    <3>2. CASE heap'[o].stack[s] = v
      BY <3>2 DEF Datum, Live, IsDead
    <3>3. CASE heap'[o].stack[s] = heap[o].stack[s]
      BY <1>2, <1>3, <3>1, <3>3 DEF Datum, Live, IsDead
    <3> QED
      BY <3>1, <3>2, <3>3
  <2> QED
    BY <1>1, <1>8, <2>1 DEF Sound
<1>9. CASE kind[o] \in {"none", "string"}
  BY <1>1, <1>9 DEF Sound
<1> QED
  BY <1>4, <1>5, <1>6, <1>7, <1>8, <1>9 DEF TypeOK, Kind

\* Objects are created or brought back to life, and nothing else changes.
Grows ==
    /\ \A o \in All : kind[o] # "none" =>
          /\ kind'[o] = kind[o] /\ attr'[o] = attr[o] /\ at'[o] = at[o]
          /\ heap'[o].key = heap[o].key /\ heap'[o].val = heap[o].val
          /\ heap'[o].env = heap[o].env /\ heap'[o].up = heap[o].up
          /\ mark'[o] = mark[o] \/ (IsDead(o) /\ mark'[o] = "white" /\ kind[o] # "udata")
    /\ \A o \in All : kind[o] = "none" =>
          \/ kind'[o] = "none" /\ mark'[o] = "free"
          \/ kind'[o] # "none" /\ mark'[o] = "white"
    /\ UNCHANGED <<fin, calls, listVars, tmudata, tosweep, gcstate, mode>>

\* Creating objects disturbs none that is in use.
LEMMA GrowsKeeps ==
    ASSUME Grows PROVE Keeps
BY DEF Grows, Keeps, Live, IsDead

\* It is then enough to look at the new objects.
LEMMA GrowsStep ==
    ASSUME Inv, mode # "closed", Grows, TypeOK', Shapes', Threads', Heap'
    PROVE  Inv'
<1>0. TypeOK /\ Shapes /\ Heap /\ Final /\ Sweeps /\ Lists /\ Colours
  BY DEF Inv
<1>1. Final'
  <2> SUFFICES ASSUME NEW o \in All PROVE Finals(o)'
    BY DEF Final
  <2>1. Finals(o) /\ Shape(o)
    BY <1>0 DEF Final, Shapes
  <2>2. fin'[o] = fin[o] /\ calls'[o] = calls[o] /\ tmudata' = tmudata
    BY DEF Grows
  <2>3. CASE kind[o] = "none"
    BY <2>1, <2>2, <2>3 DEF Grows, Finals, Shape, IsDead
  <2>4. CASE kind[o] # "none"
    BY <2>1, <2>2, <2>4 DEF Grows, Finals, IsDead, Live
  <2> QED
    BY <2>3, <2>4
<1>2. Sweeps'
  <2> SUFFICES ASSUME NEW o \in All PROVE Swept(o)'
    BY DEF Sweeps
  <2>1. Swept(o) /\ Shape(o)
    BY <1>0 DEF Sweeps, Shapes
  <2>2. tosweep' = tosweep /\ gcstate' = gcstate /\ tmudata' = tmudata
    BY DEF Grows
  <2>3. CASE kind[o] = "none"
    BY <2>1, <2>2, <2>3 DEF Grows, Swept, Shape, IsDead
  <2>4. CASE kind[o] # "none"
    <3>1. kind'[o] = kind[o] /\ at'[o] = at[o]
          /\ (mark'[o] = mark[o] \/ mark'[o] = "white")
      BY <2>4 DEF Grows
    <3> QED
      BY <2>1, <2>2, <3>1 DEF Swept, Pending, Open, IsDead
  <2> QED
    BY <2>3, <2>4
<1>3. Lists'
  <2> SUFFICES ASSUME gcstate = "propagate", NEW o \in All
               PROVE  /\ o \in gray \/ o \in grayagain \/ o \in weak <=>
                            mark'[o] = "gray" /\ kind'[o] \in {"table", "func", "thread"}
                      /\ ~(o \in gray /\ o \in grayagain)
                      /\ ~(o \in gray /\ o \in weak)
                      /\ ~(o \in grayagain /\ o \in weak)
    BY DEF Lists, Grows, listVars
  <2>1. Shape(o) /\ ~IsDead(o)
    BY <1>0, NoneDead DEF Shapes
  <2>2. \/ mark'[o] = mark[o] /\ kind'[o] = kind[o]
        \/ mark[o] = "free" /\ mark'[o] = "white"
    BY <2>1 DEF Grows, Shape
  <2> QED
    BY <1>0, <2>2 DEF Lists
<1>4. Colours'
  <2> SUFFICES ASSUME gcstate = "propagate", mode \notin {"close", "closegc", "closed"},
                      NEW o \in All \ tmudata, NEW r \in All, IsBlack(o)', Child(o, r)'
               PROVE  ~IsWhite(r)'
    BY DEF Colours, Grows
  <2>1. Shape(o) /\ ~IsDead(r) /\ Shape(r)
    BY <1>0, NoneDead DEF Shapes
  <2>2. IsBlack(o) /\ kind[o] # "none"
    BY <2>1 DEF Grows, IsBlack, Shape
  <2>3. /\ kind'[o] = kind[o] /\ attr'[o] = attr[o] /\ at'[o] = at[o]
        /\ heap'[o].key = heap[o].key /\ heap'[o].val = heap[o].val
        /\ heap'[o].env = heap[o].env /\ heap'[o].up = heap[o].up
    BY <2>2 DEF Grows
  <2>4. Child(o, r)
    BY <2>1, <2>2, <2>3 DEF Child, Shape, Value, Open
  <2>5. ~IsWhite(r) /\ Live(r)
    <3>1. Sound(o)
      BY <1>0, <2>2 DEF Heap, Live, IsDead, IsBlack
    <3> QED
      BY <1>0, <2>2, <2>4, <3>1, SoundChild DEF Colours
  <2> QED
    BY <2>1, <2>5 DEF Grows, IsWhite, IsDead, Live
<1> QED
  BY <1>1, <1>2, <1>3, <1>4 DEF Inv

\* A value is put into slot s of the thread t.
LEMMA PushEffect ==
    ASSUME TypeOK, NEW t \in All, NEW s, NEW v \in Ref,
           heap' = [heap EXCEPT ![t].stack[s] = v]
    PROVE  /\ heap' \in [All -> Object]
           /\ \A o \in All : StackStep(o, v)
           /\ \A o \in All \ {t} : heap'[o] = heap[o]
<1>1. /\ heap' = [heap EXCEPT ![t] = heap'[t]]
      /\ heap'[t] = [heap[t] EXCEPT !.stack[s] = v]
  BY DEF TypeOK
<1>2. heap[t] \in Object
  BY DEF TypeOK
<1>3. /\ heap'[t] = [heap[t] EXCEPT !.stack = [heap[t].stack EXCEPT ![s] = v]]
      /\ [heap[t].stack EXCEPT ![s] = v] \in [Slots -> Ref]
  BY <1>1, <1>2 DEF Object
<1>4. heap'[t] \in Object
  BY <1>2, <1>3 DEF Object
<1>5. StackStep(t, v)
  BY <1>2, <1>3 DEF StackStep
<1> QED
  BY <1>1, <1>4, <1>5 DEF TypeOK, StackStep

\* What the program holds is in use.
LEMMA HeldIs ==
    ASSUME TypeOK, Threads, Heap, NEW v \in Held
    PROVE  v \in All /\ Live(v) /\ kind[v] # "upval" /\ \E s \in Slots : v = heap[running].stack[s]
<1>1. PICK s \in Slots : v = heap[running].stack[s] /\ v # Nil
  BY DEF Held, Proper, Stack
<1>2. Sound(running) /\ running \in All
  BY DEF Threads, Heap, Live, TypeOK
<1> QED
  BY <1>1, <1>2 DEF Object, Sound, Threads, Datum, TypeOK, Ref

\* A stack slot gets a value that is in use.
LEMMA LoadStep ==
    ASSUME Inv, NEW t \in All, kind[t] = "thread", NEW s, NEW v \in Ref, Datum(v),
           mode # "closed", heap' = [heap EXCEPT ![t].stack[s] = v],
           running' \in All, kind[running'] = "thread", ~IsDead(running'),
           mode \in {"close", "closegc"} => running' = running,
           UNCHANGED <<kind, attr, fin, at, calls, mark, listVars, tmudata, tosweep, gcstate, mode>>
    PROVE  Inv'
<1>0. TypeOK /\ Shapes /\ Threads /\ Heap
  BY DEF Inv
<1>1. /\ heap' \in [All -> Object]
      /\ \A o \in All : StackStep(o, v)
      /\ \A o \in All \ {t} : heap'[o] = heap[o]
  BY <1>0, PushEffect
<1>2. Grows
  BY <1>0, <1>1 DEF Grows, StackStep, Shapes, Shape, TypeOK, Colour
<1>3. TypeOK'
  BY <1>0, <1>1 DEF TypeOK, listVars
<1>4. Shapes'
  <2> SUFFICES ASSUME NEW o \in All PROVE Shape(o)'
    BY DEF Shapes
  <2>1. kind[o] = "none" => heap'[o] = heap[o]
    BY <1>1
  <2> QED
    BY <1>0, <2>1 DEF Shapes, Shape, IsBlack, IsWeak, Open
<1>5. Threads'
  BY <1>0 DEF Threads, IsDead
<1>6. Heap'
  <2> SUFFICES ASSUME NEW o \in All, Live(o)' PROVE Sound(o)'
    BY DEF Heap
  <2>1. Live(o) /\ at'[o] = at[o] /\ Datum(v)'
    BY DEF Live, IsDead, Datum
  <2> QED
    BY <1>0, <1>1, <1>2, <2>1, GrowsKeeps, StackSound
<1> QED
  BY <1>2, <1>3, <1>4, <1>5, <1>6, GrowsStep

\* OP_GETTABLE and the like, lua_resume and lua_yield.
LEMMA LoadInv ==
    ASSUME Inv, NEW s \in Slots, NEW v \in {Nil} \cup UNION {Readable(o) : o \in Held}, Load(s, v)
    PROVE  Inv'
<1>0. TypeOK /\ Threads /\ mode # "closed" /\ Heap
  BY DEF Inv, Load, MutatorRuns
<1>1. v \in Ref /\ Datum(v)
  <2>1. CASE v = Nil
    BY <2>1 DEF Ref, Datum
  <2>2. CASE v # Nil
    <3>1. PICK o \in Held : v \in Readable(o)
      BY <2>2
    <3>2. o \in All /\ Live(o) /\ Sound(o)
      BY <1>0, HeldIs DEF Heap
    <3>3. CASE kind[o] = "table"
      BY <1>0, <2>2, <3>1, <3>2, <3>3 DEF Object, Readable, Sound, TypeOK
    <3>4. CASE kind[o] = "udata"
      BY <1>0, <2>2, <3>1, <3>2, <3>4 DEF Object, Readable, Sound, TypeOK, Table, Datum
    <3>5. CASE kind[o] = "func"
      <4>1. v = heap[o].env \/ v = Value(heap[o].up)
        BY <3>1, <3>5 DEF Readable
      <4>2. CASE v = heap[o].env
        BY <1>0, <2>2, <3>2, <3>5, <4>2 DEF Object, Sound, TypeOK, Table, Datum
      <4>3. CASE v = Value(heap[o].up)
        <5>1. heap[o].up \in All /\ Live(heap[o].up) /\ kind[heap[o].up] = "upval"
          BY <1>0, <3>2, <3>5 DEF Object, Sound, TypeOK, Ref
        <5>2. Datum(Value(heap[o].up)) /\ Value(heap[o].up) \in Ref
          BY ZenonT(40), <1>0, <5>1 DEF Object, Heap, Sound, TypeOK, Value
        <5> QED
          BY <4>3, <5>2
      <4> QED
        BY <4>1, <4>2, <4>3
    <3> QED
      BY <3>1, <3>3, <3>4, <3>5 DEF Readable
  <2> QED
    BY <2>1, <2>2
<1>2. /\ heap' = [heap EXCEPT ![running].stack[s] = v]
      /\ UNCHANGED <<kind, attr, fin, at, calls, mark, listVars, tmudata, tosweep, gcstate, mode>>
      /\ running' = running
  BY DEF Load, OnStack, ctrlVars
<1>3. running \in All /\ kind[running] = "thread" /\ ~IsDead(running)
  BY <1>0 DEF Threads, TypeOK
<1> HIDE DEF IsDead
<1> QED
  BY <1>0, <1>1, <1>2, <1>3, LoadStep

\* lua_resume and lua_yield.
LEMMA SwitchInv ==
    ASSUME Inv, NEW v \in Held \cup {Nil},
           \/ \E t \in Held : Resume(t, v)
           \/ Yield(v)
    PROVE  Inv'
<1>0. TypeOK /\ Threads /\ mode = "run" /\ Heap
  BY DEF Inv, Resume, Yield, Switch
<1>1. PICK t \in All : kind[t] = "thread" /\ ~IsDead(t) /\ Switch(t, v)
  <2>1. ASSUME NEW t \in Held, Resume(t, v) PROVE t \in All /\ kind[t] = "thread" /\ ~IsDead(t) /\ Switch(t, v)
    BY <1>0, <2>1, HeldIs DEF Resume, Live
  <2>2. CASE Yield(v)
    BY <1>0, <2>2 DEF Yield, Threads, All
  <2> QED
    BY <2>1, <2>2
<1>2. v \in Ref /\ Datum(v)
  BY <1>0, HeldIs DEF Datum, Ref
<1>3. /\ heap' = [heap EXCEPT ![t].stack[1] = v] /\ running' = t
      /\ UNCHANGED <<kind, attr, fin, at, calls, mark, listVars, tmudata, tosweep, gcstate, mode>>
  BY <1>1 DEF Switch
<1> HIDE DEF IsDead
<1> QED
  BY <1>0, <1>1, <1>2, <1>3, LoadStep

\* OP_CLOSURE sets the upvalue of the new function and a slot.
LEMMA ClosureEffect ==
    ASSUME TypeOK, NEW t \in All, NEW s, NEW o \in All \ {t}, NEW u \in All,
           heap' = [OnStack(s, o) EXCEPT ![o].up = u], t = running
    PROVE  /\ heap' \in [All -> Object]
           /\ \A q \in All \ {o} : StackStep(q, o)
           /\ \A q \in All \ {t, o} : heap'[q] = heap[q]
           /\ heap'[o] = [heap[o] EXCEPT !.up = u]
<1>1. heap[t] \in Object
  BY DEF TypeOK
<1>2. heap[o] \in Object
  BY DEF TypeOK
<1>3. /\ heap'[t] = [heap[t] EXCEPT !.stack[s] = o]
      /\ heap'[o] = [heap[o] EXCEPT !.up = u]
      /\ \A q \in All \ {t, o} : heap'[q] = heap[q]
      /\ DOMAIN heap' = All /\ heap' = [q \in All |-> heap'[q]]
  BY DEF TypeOK, OnStack
<1>4. /\ heap'[t] = [heap[t] EXCEPT !.stack = [heap[t].stack EXCEPT ![s] = o]]
      /\ [heap[t].stack EXCEPT ![s] = o] \in [Slots -> Ref]
  BY <1>1, <1>3 DEF Object, Ref
<1>5. heap'[t] \in Object
  BY <1>1, <1>4 DEF Object
<1>6. heap'[o] \in Object
  BY <1>2, <1>3 DEF Object, Ref
<1>7. StackStep(t, o)
  BY <1>1, <1>4 DEF Object, StackStep
<1>8. \A q \in All : heap'[q] \in Object
  BY <1>3, <1>5, <1>6 DEF TypeOK
<1> QED
  BY <1>3, <1>7, <1>8 DEF StackStep

\* A new table, userdata or thread.
LEMMA NewObjectInv ==
    ASSUME Inv, NEW o \in Objs, NEW s \in Slots, NEW k \in {"table", "udata", "thread"},
           NewObject(o, k, s)
    PROVE  Inv'
<1>0. TypeOK /\ Shapes /\ Threads /\ Heap /\ mode # "closed" /\ o \in All
  BY DEF Inv, NewObject, MutatorRuns, All
<1>1. /\ kind[o] = "none" /\ running # o /\ Shape(o)
      /\ kind' = [kind EXCEPT ![o] = k] /\ mark' = [mark EXCEPT ![o] = "white"]
      /\ \E a \in {"strong", "k", "v", "kv", "gc", "nogc"} : attr' = [attr EXCEPT ![o] = a]
      /\ heap' = [heap EXCEPT ![running].stack[s] = o]
      /\ UNCHANGED <<fin, at, calls, listVars, tmudata, tosweep, gcstate, running, mode>>
  BY <1>0 DEF NewObject, Fresh, OnStack, ModesOf, ctrlVars, Threads, Shapes
<1>2. /\ heap' \in [All -> Object]
      /\ \A q \in All : StackStep(q, o)
      /\ \A q \in All \ {running} : heap'[q] = heap[q]
  BY <1>0, <1>1, PushEffect DEF TypeOK, Ref
<1>3. /\ kind'[o] = k /\ mark'[o] = "white" /\ heap'[o] = Empty /\ at'[o] = <<>>
      /\ ~fin'[o] /\ calls'[o] = 0
      /\ \A q \in All \ {o} : kind'[q] = kind[q] /\ mark'[q] = mark[q] /\ attr'[q] = attr[q]
  BY <1>0, <1>1, <1>2 DEF TypeOK, Shape
<1>4. Grows
  BY <1>0, <1>1, <1>2, <1>3 DEF Grows, StackStep, Shapes, Shape
<1>5. TypeOK'
  BY <1>0, <1>1, <1>2 DEF TypeOK, listVars, Kind, Colour
<1>6. Shapes'
  <2> SUFFICES ASSUME NEW q \in All PROVE Shape(q)'
    BY DEF Shapes
  <2>1. CASE q = o
    BY <1>3, <2>1 DEF Shape, IsBlack
  <2>2. CASE q # o
    <3>1. Shape(q) /\ at'[q] = at[q] /\ fin'[q] = fin[q] /\ calls'[q] = calls[q]
      BY <1>0, <1>1 DEF Shapes
    <3>2. kind[q] = "none" => heap'[q] = heap[q]
      BY <1>0, <1>2 DEF Threads
    <3>3. at[q] # <<>> => at[q][1] \in All /\ kind'[at[q][1]] = "thread"
      BY <1>0, <1>1, <1>3, <3>1 DEF TypeOK, Shape
    <3> QED
      BY <1>3, <2>2, <3>1, <3>2, <3>3 DEF Shape, IsBlack, IsWeak, Open
  <2> QED
    BY <2>1, <2>2
<1>7. Threads'
  BY <1>0, <1>1, <1>3 DEF Threads, IsDead, TypeOK, All
<1>8. Heap'
  <2> SUFFICES ASSUME NEW q \in All, Live(q)' PROVE Sound(q)'
    BY DEF Heap
  <2>1. CASE q = o
    BY <1>3, <2>1 DEF Sound, Empty, Datum, Table
  <2>2. CASE q # o
    <3>1. Live(q) /\ at'[q] = at[q]
      BY <1>1, <1>3, <2>2 DEF Live, IsDead
    <3>2. Datum(o)'
      BY <1>3 DEF Datum, Live, IsDead
    <3> QED
      BY <1>0, <1>2, <1>4, <3>1, <3>2, GrowsKeeps, StackSound
  <2> QED
    BY <2>1, <2>2
<1> QED
  BY <1>0, <1>4, <1>5, <1>6, <1>7, <1>8, GrowsStep

\* A string, new or found in the string table.
LEMMA NewStringInv ==
    ASSUME Inv, NEW o \in Objs, NEW s \in Slots, NewString(o, s)
    PROVE  Inv'
<1>0. TypeOK /\ Shapes /\ Threads /\ Heap /\ mode # "closed" /\ o \in All
  BY DEF Inv, NewString, MutatorRuns, All
<1>1. /\ kind[o] \in {"none", "string"} /\ running # o /\ Shape(o)
      /\ kind' = [kind EXCEPT ![o] = "string"]
      /\ mark' = mark \/ mark' = [mark EXCEPT ![o] = "white"]
      /\ IF kind[o] = "none" \/ IsDead(o) THEN mark'[o] = "white" ELSE mark' = mark
      /\ heap' = [heap EXCEPT ![running].stack[s] = o]
      /\ UNCHANGED <<attr, fin, at, calls, listVars, tmudata, tosweep, gcstate, running, mode>>
  BY <1>0 DEF NewString, Fresh, Revived, OnStack, ctrlVars, Threads, Shapes, TypeOK, IsDead
<1>2. /\ heap' \in [All -> Object]
      /\ \A q \in All : StackStep(q, o)
      /\ \A q \in All \ {running} : heap'[q] = heap[q]
  BY <1>0, <1>1, PushEffect DEF TypeOK, Ref
<1>3. /\ kind'[o] = "string" /\ mark'[o] \in {"white", "gray"} /\ heap'[o] = heap[o]
      /\ at'[o] = <<>>
      /\ \A q \in All \ {o} : kind'[q] = kind[q] /\ mark'[q] = mark[q]
  BY <1>0, <1>1, <1>2 DEF TypeOK, Shape, IsDead, IsBlack, Colour
<1>4. Grows
  BY <1>0, <1>1, <1>2, <1>3 DEF Grows, StackStep, Shapes, Shape
<1>5. TypeOK'
  BY <1>0, <1>1, <1>2 DEF TypeOK, listVars, Kind, Colour
<1>6. Shapes'
  <2> SUFFICES ASSUME NEW q \in All PROVE Shape(q)'
    BY DEF Shapes
  <2>1. CASE q = o
    BY <1>3, <2>1 DEF Shape, IsBlack
  <2>2. CASE q # o
    <3>1. Shape(q) /\ at'[q] = at[q] /\ fin'[q] = fin[q] /\ calls'[q] = calls[q]
      BY <1>0, <1>1 DEF Shapes
    <3>2. kind[q] = "none" => heap'[q] = heap[q]
      BY <1>0, <1>2 DEF Threads
    <3>3. at[q] # <<>> => at[q][1] \in All /\ kind'[at[q][1]] = "thread"
      BY <1>0, <1>1, <1>3, <3>1 DEF TypeOK, Shape
    <3> QED
      BY <1>1, <1>3, <2>2, <3>1, <3>2, <3>3 DEF Shape, IsBlack, IsWeak, Open
  <2> QED
    BY <2>1, <2>2
<1>7. Threads'
  BY <1>0, <1>1, <1>3 DEF Threads, IsDead, TypeOK, All
<1>8. Heap'
  <2> SUFFICES ASSUME NEW q \in All, Live(q)' PROVE Sound(q)'
    BY DEF Heap
  <2>1. CASE q = o
    BY <1>3, <2>1 DEF Sound
  <2>2. CASE q # o
    <3>1. Live(q) /\ at'[q] = at[q]
      BY <1>1, <1>3, <2>2 DEF Live, IsDead
    <3>2. Datum(o)'
      BY <1>3 DEF Datum, Live, IsDead
    <3> QED
      BY <1>0, <1>2, <1>4, <3>1, <3>2, GrowsKeeps, StackSound
  <2> QED
    BY <2>1, <2>2
<1> QED
  BY <1>0, <1>4, <1>5, <1>6, <1>7, <1>8, GrowsStep

\* A new function o with the upvalue u, open or closed, new or not.
LEMMA ClosureInv ==
    ASSUME Inv, mode # "closed", NEW o \in All, NEW u \in All, NEW s \in Slots,
           kind[o] = "none", o # u,
           Grows, TypeOK', heap' = [OnStack(s, o) EXCEPT ![o].up = u],
           \A q \in All \ {o, u} : kind'[q] = kind[q] /\ at'[q] = at[q] /\ mark'[q] = mark[q],
           kind'[o] = "func", mark'[o] = "white", at'[o] = <<>>,
           Shape(u)', Live(u)', kind'[u] = "upval",
           \/ Live(u) /\ at'[u] = at[u]
           \/ \E b \in Slots : at'[u] = <<running, b>>,
           running' = running, attr' = attr
    PROVE  Inv'
<1>0. TypeOK /\ Shapes /\ Threads /\ Heap /\ Keeps /\ running \in All /\ running # o
  BY GrowsKeeps DEF Inv, TypeOK, Threads
<1>1. /\ \A q \in All \ {o} : StackStep(q, o)
      /\ \A q \in All \ {running, o} : heap'[q] = heap[q]
      /\ heap'[o] = [heap[o] EXCEPT !.up = u]
  BY ZenonT(40), <1>0, ClosureEffect
<1>2. heap[o] = Empty
  BY <1>0 DEF Shapes, Shape
<1>3. Shapes'
  <2> SUFFICES ASSUME NEW q \in All, q # u PROVE Shape(q)'
    BY DEF Shapes
  <2>1. CASE q = o
    BY <2>1 DEF Shape, IsBlack
  <2>2. CASE q # o
    <3>1. /\ Shape(q) /\ fin'[q] = fin[q] /\ calls'[q] = calls[q]
          /\ kind'[q] = kind[q] /\ at'[q] = at[q] /\ mark'[q] = mark[q]
      BY <1>0, <2>2 DEF Shapes, Grows
    <3>2. kind[q] = "none" => heap'[q] = heap[q]
      BY <1>0, <1>1, <2>2 DEF Threads
    <3>3. at[q] # <<>> => at[q][1] \in All /\ kind'[at[q][1]] = "thread"
      BY <1>0, <3>1 DEF TypeOK, Shape, Grows
    <3> QED
      BY <3>1, <3>2, <3>3 DEF Shape, IsBlack, IsWeak, Open
  <2> QED
    BY <2>1, <2>2
<1>4. Threads'
  BY <1>0 DEF Threads, Keeps, Live, All, Grows
<1>5. ASSUME NEW q \in All, Live(q), q # o, at'[q] = at[q] PROVE Sound(q)'
  <2>1. Datum(o)'
    BY DEF Datum, Live, IsDead
  <2> QED
    BY <1>0, <1>1, <1>5, <2>1, StackSound
<1>6. Sound(o)'
  <2>1. heap'[o].env = Nil /\ heap'[o].up = u /\ u # Nil
    BY <1>1, <1>2, LuaGCAssumption DEF Empty, All
  <2> QED
    BY <2>1 DEF Sound, Table
<1>7. Sound(u)'
  <2>1. CASE Live(u) /\ at'[u] = at[u]
    BY <1>5, <2>1
  <2>2. ASSUME NEW b \in Slots, at'[u] = <<running, b>> PROVE Sound(u)'
    <3>1. Value(u)' = heap'[running].stack[b]
      BY <2>2 DEF Value
    <3>2. Sound(running)' /\ kind'[running] = "thread"
      BY <1>0, <1>5 DEF Threads, Live, Keeps, Grows
    <3>3. Datum(heap[running].stack[b])'
      BY <3>2 DEF Sound
    <3> QED
      BY <3>1, <3>3 DEF Sound, Datum, Live, IsDead
  <2> QED
    BY <2>1, <2>2
<1>8. Heap'
  <2> SUFFICES ASSUME NEW q \in All, Live(q)', q # o, q # u PROVE Sound(q)'
    BY <1>6, <1>7 DEF Heap
  <2> QED
    BY <1>5 DEF Live, IsDead
<1> QED
  BY <1>3, <1>4, <1>8, GrowsStep

\* OP_CLOSURE with an upvalue of the running function (luaF_findupval).
LEMMA NewClosureInv ==
    ASSUME Inv, NEW o \in Objs, NEW u \in Objs, NEW s \in Slots, NEW b \in Slots,
           NewClosure(o, u, s, b)
    PROVE  Inv'
<1>0. /\ TypeOK /\ Shapes /\ Threads /\ Heap /\ mode # "closed"
      /\ o \in All /\ u \in All /\ running \in All
  BY DEF Inv, NewClosure, MutatorRuns, All, TypeOK
<1>1. /\ kind[o] = "none" /\ o # u /\ running # o
      /\ \/ kind[u] = "none"
         \/ kind[u] = "upval" /\ at[u] = <<running, b>>
      /\ Shape(o) /\ Shape(u)
      /\ kind' = [kind EXCEPT ![o] = "func", ![u] = "upval"]
      /\ at' = [at EXCEPT ![u] = <<running, b>>]
      /\ heap' = [OnStack(s, o) EXCEPT ![o].up = u]
      /\ UNCHANGED <<attr, fin, calls, listVars, tmudata, tosweep, gcstate, running, mode>>
  BY <1>0 DEF NewClosure, OpenAt, Open, ctrlVars, Threads, Shapes
<1>2. /\ kind'[o] = "func" /\ kind'[u] = "upval" /\ at'[o] = <<>> /\ at'[u] = <<running, b>>
      /\ \A q \in All \ {o, u} : kind'[q] = kind[q] /\ at'[q] = at[q]
  BY <1>0, <1>1 DEF TypeOK, Shape
<1>3. /\ mark'[o] = "white"
      /\ mark'[u] = (IF kind[u] = "none" \/ IsDead(u) THEN "white" ELSE mark[u])
      /\ \A q \in All \ {o, u} : mark'[q] = mark[q]
      /\ mark' \in [All -> Colour]
  BY <1>0, <1>1 DEF TypeOK, NewClosure, Fresh, Revived, IsDead, Colour
<1>4. /\ heap' \in [All -> Object]
      /\ \A q \in All \ {o} : StackStep(q, o)
      /\ heap'[o] = [heap[o] EXCEPT !.up = u]
  BY ZenonT(40), <1>0, <1>1, ClosureEffect
<1>5. Grows
  <2>1. ASSUME NEW q \in All, kind[q] # "none"
        PROVE  /\ kind'[q] = kind[q] /\ at'[q] = at[q]
               /\ mark'[q] = mark[q] \/ (IsDead(q) /\ mark'[q] = "white" /\ kind[q] # "udata")
    BY <1>1, <1>2, <1>3, <2>1
  <2>2. ASSUME NEW q \in All, kind[q] = "none"
        PROVE  \/ kind'[q] = "none" /\ mark'[q] = "free"
               \/ kind'[q] # "none" /\ mark'[q] = "white"
    BY <1>0, <1>2, <1>3, <2>2 DEF Shapes, Shape
  <2>3. ASSUME NEW q \in All, kind[q] # "none" PROVE StackStep(q, o)
    BY <1>1, <1>4, <2>3
  <2> QED
    BY <1>1, <2>1, <2>2, <2>3 DEF Grows, StackStep
<1>6. TypeOK'
  <2>1. kind' \in [All -> Kind] /\ at' \in [All -> {<<>>} \cup (All \X Slots)]
    BY <1>0, <1>1 DEF TypeOK, Kind
  <2> QED
    BY <1>0, <1>1, <1>3, <1>4, <2>1 DEF TypeOK, listVars
<1>7. Live(u)'
  BY <1>1, <1>2, <1>3 DEF Live, IsDead
<1>8. Shape(u)'
  <2>1. kind'[running] = "thread" /\ at'[u][1] = running
    <3>1. kind[running] = "thread" /\ running # u
      BY <1>0, <1>1 DEF Threads
    <3>2. kind'[running] = kind[running]
      BY <1>0, <1>1, <1>2, <3>1
    <3>3. at'[u] = <<running, b>> /\ <<running, b>>[1] = running
      BY <1>2
    <3>4. at'[u][1] = running
      BY <3>3
    <3> QED
      BY <3>1, <3>2, <3>4
  <2>2. mark'[u] \in {"white", "gray"}
    <3>1. kind[u] = "upval" => at[u] # <<>>
      BY <1>1
    <3>2. kind[u] = "upval" => mark[u] \in {"white", "dead", "gray"}
      BY <1>0, <1>1, <3>1 DEF Shape, Open, IsBlack, TypeOK, Colour
    <3> QED
      BY <1>1, <1>3, <3>2 DEF IsDead
  <2>3. at'[u] # <<>>
    BY <1>2
  <2> QED
    BY <1>2, <2>1, <2>2, <2>3 DEF Shape, IsBlack, Open
<1> QED
  BY <1>0, <1>1, <1>2, <1>3, <1>5, <1>6, <1>7, <1>8, ClosureInv

\* OP_CLOSURE with the upvalue of the function that runs.
LEMMA NewInnerClosureInv ==
    ASSUME Inv, NEW o \in Objs, NEW f \in Held, NEW s \in Slots, NewInnerClosure(o, f, s)
    PROVE  Inv'
<1>0. /\ TypeOK /\ Shapes /\ Threads /\ Heap /\ mode # "closed"
      /\ o \in All /\ running \in All
  BY DEF Inv, NewInnerClosure, MutatorRuns, All, TypeOK
<1>1. /\ kind[o] = "none" /\ running # o /\ Shape(o) /\ kind[f] = "func"
      /\ kind' = [kind EXCEPT ![o] = "func"]
      /\ mark' = [mark EXCEPT ![o] = "white"]
      /\ heap' = [OnStack(s, o) EXCEPT ![o].up = heap[f].up]
      /\ UNCHANGED <<at, attr, fin, calls, listVars, tmudata, tosweep, gcstate, running, mode>>
  BY <1>0 DEF NewInnerClosure, Fresh, ctrlVars, Threads, Shapes
<1>2. PICK u \in All : u = heap[f].up /\ Live(u) /\ kind[u] = "upval" /\ u # o
  BY <1>0, <1>1, HeldIs DEF Heap, Sound, TypeOK, Object, Ref
<1>3. /\ kind'[o] = "func" /\ mark'[o] = "white" /\ at'[o] = <<>>
      /\ \A q \in All \ {o} : kind'[q] = kind[q] /\ mark'[q] = mark[q] /\ at'[q] = at[q]
  BY <1>0, <1>1 DEF TypeOK, Shape
<1>4. /\ heap' \in [All -> Object]
      /\ \A q \in All \ {o} : StackStep(q, o)
  <2>1. heap' = [OnStack(s, o) EXCEPT ![o].up = u]
    BY <1>1, <1>2
  <2>2. TypeOK /\ running \in All /\ o \in All \ {running} /\ u \in All
    BY <1>0, <1>1, <1>2
  <2> QED
    BY <2>1, <2>2, ClosureEffect
<1>5. Grows
  BY <1>0, <1>1, <1>3, <1>4 DEF Grows, StackStep, Shapes, Shape
<1>6. TypeOK'
  BY <1>0, <1>1, <1>4 DEF TypeOK, listVars, Kind, Colour
<1>7. Live(u)' /\ Live(u) /\ at'[u] = at[u] /\ kind'[u] = "upval"
  BY <1>2, <1>3 DEF Live, IsDead
<1>8. Shape(u)'
  <2>1. Shape(u) /\ mark'[u] = mark[u]
    BY <1>0, <1>2, <1>3 DEF Shapes
  <2>2. at[u] # <<>> => at[u][1] \in All /\ kind'[at[u][1]] = "thread"
    BY <1>0, <1>1, <1>3, <2>1 DEF TypeOK, Shape
  <2> QED
    BY <1>2, <1>7, <2>1, <2>2 DEF Shape, IsBlack, Open, IsWeak
<1> QED
  BY <1>0, <1>1, <1>2, <1>3, <1>5, <1>6, <1>7, <1>8, ClosureInv

-----------------------------------------------------------------------------
(* Stores with a barrier.                                                  *)

\* The colour of o may change like this without harm to Shape and Swept.
Painted(o) ==
    \/ mark'[o] = mark[o]
    \/ gcstate = "propagate" /\ IsWhite(o) /\ mark'[o] = ColourOf(o)
    \/ gcstate # "propagate" /\ IsBlack(o) /\ mark'[o] = "white"
    \/ IsBlack(o) /\ kind[o] = "table" /\ mark'[o] = "gray"
    \/ /\ gcstate = "propagate" /\ mark[o] = "gray" /\ mark'[o] = "black"
       /\ kind[o] \in {"table", "func"} /\ ~IsWeak(o)

\* What does not depend on the references is kept by such a change.
LEMMA PaintedStep ==
    ASSUME Inv, mode # "closed", \A o \in All : Painted(o),
           UNCHANGED <<kind, attr, fin, at, calls, tmudata, tosweep, gcstate, running, mode>>,
           \A o \in All : kind[o] = "none" => heap'[o] = heap[o]
    PROVE  Shapes' /\ Threads' /\ Final' /\ Sweeps' /\ Keeps
<1>0. TypeOK /\ Shapes /\ Threads /\ Final /\ Sweeps
  BY DEF Inv
<1>1. ASSUME NEW o \in All PROVE Shape(o)'
  <2>1. Shape(o) /\ Painted(o)
    BY <1>0 DEF Shapes
  <2>2. CASE mark'[o] = mark[o]
    BY <2>1, <2>2 DEF Shape, IsBlack, IsWeak, Open
  <2>3. CASE mark'[o] # mark[o]
    <3>1. kind[o] # "none" /\ mark'[o] # "free"
      BY <2>1, <2>3 DEF Painted, Shape, IsWhite, IsBlack, ColourOf
    <3>2. mark'[o] = "black" => /\ kind[o] \in {"table", "udata", "func", "upval"}
                                /\ ~Open(o) /\ ~IsWeak(o)
      BY <2>1, <2>3 DEF Painted, ColourOf, Open, IsWeak
    <3>3. mark'[o] = "gray" => kind[o] # "udata" /\ (kind[o] = "upval" => Open(o))
      BY <2>1, <2>3 DEF Painted, ColourOf
    <3> QED
      BY <2>1, <3>1, <3>2, <3>3 DEF Shape, IsBlack, IsWeak, Open
  <2> QED
    BY <2>2, <2>3
<1>2. ASSUME NEW o \in All PROVE IsDead(o)' => IsDead(o)
  BY DEF Painted, IsDead, ColourOf
<1>3. Keeps
  BY <1>2 DEF Keeps, Live
<1>4. Threads'
  BY <1>0, <1>2 DEF Threads, TypeOK, All
<1>5. ASSUME NEW o \in All PROVE Finals(o)'
  <2>1. Finals(o) /\ (IsDead(o)' => IsDead(o)) /\ (Live(o) => Live(o)')
    BY <1>0, <1>2, <1>3 DEF Final, Keeps
  <2> QED
    BY <2>1 DEF Finals
<1>6. ASSUME NEW o \in All PROVE Swept(o)'
  <2>1. Swept(o) /\ (IsDead(o)' => IsDead(o))
    BY <1>0, <1>2 DEF Sweeps
  <2>2. gcstate # "propagate" /\ mark'[o] \in {"gray", "black"} => mark[o] \in {"gray", "black"}
    BY DEF Painted, IsBlack
  <2>3. Pending(o)' <=> Pending(o)
    BY DEF Pending, Open
  <2> QED
    BY <2>1, <2>2, <2>3 DEF Swept, Open
<1> QED
  BY <1>1, <1>3, <1>4, <1>5, <1>6 DEF Shapes, Final, Sweeps

\* Marking the white objects N, with what they take along, keeps the lists and
\* the colours.
LEMMA MarkStep ==
    ASSUME TypeOK, Shapes, Lists, Colours, gcstate = "propagate", mode # "closed",
           NEW N, N \subseteq All, \A o \in N : IsWhite(o),
           \A o \in N, r \in All :
              kind[o] \in {"udata", "upval"} /\ Child(o, r) /\ IsWhite(r) => r \in N,
           mark' = Coloured(N), gray' = gray \cup Linked(N),
           UNCHANGED <<kind, at, grayagain, weak, tmudata, gcstate, mode>>,
           NEW p, NEW v,
           \A o \in All, r \in All :
              (IsBlack(o) \/ IsBlack(o)') /\ Child(o, r)' => Child(o, r) \/ (o = p /\ r = v),
           v \in N \/ p \notin All \/ ~IsBlack(p) \/ ~IsWhite(v), p \notin N
    PROVE  Lists' /\ Colours' /\ (\A o \in All : Painted(o)) /\ mark' \in [All -> Colour]
<1>1. /\ \A o \in N : mark'[o] = ColourOf(o)
      /\ \A o \in All \ N : mark'[o] = mark[o]
      /\ mark' \in [All -> Colour]
  BY DEF Coloured, TypeOK, ColourOf, Colour
<1>2. \A o \in All : Painted(o)
  BY <1>1 DEF Painted
<1>3. ASSUME NEW o \in All
      PROVE  /\ o \in gray' \/ o \in grayagain' \/ o \in weak' <=>
                   mark'[o] = "gray" /\ kind'[o] \in {"table", "func", "thread"}
             /\ ~(o \in gray' /\ o \in grayagain')
             /\ ~(o \in gray' /\ o \in weak')
             /\ ~(o \in grayagain' /\ o \in weak')
  <2>1. /\ o \in gray \/ o \in grayagain \/ o \in weak <=>
                   mark[o] = "gray" /\ kind[o] \in {"table", "func", "thread"}
        /\ ~(o \in gray /\ o \in grayagain)
        /\ ~(o \in gray /\ o \in weak)
        /\ ~(o \in grayagain /\ o \in weak)
    BY DEF Lists
  <2>2. CASE o \in N
    <3>1. mark[o] # "gray"
      BY <2>2 DEF IsWhite
    <3>2. o \in gray' <=> kind[o] \in {"table", "func", "thread"}
      BY <2>1, <2>2, <3>1 DEF Linked
    <3>3. kind[o] \in {"table", "func", "thread"} => mark'[o] = "gray"
      BY <1>1, <2>2 DEF ColourOf
    <3> QED
      BY <2>1, <3>1, <3>2, <3>3
  <2>3. CASE o \notin N
    <3>1. o \in gray' <=> o \in gray
      BY <2>3 DEF Linked
    <3> QED
      BY <1>1, <2>1, <2>3, <3>1
  <2> QED
    BY <2>2, <2>3
<1>4. ASSUME mode \notin {"close", "closegc", "closed"},
             NEW o \in All \ tmudata, NEW r \in All, IsBlack(o)', Child(o, r)', IsWhite(r)'
      PROVE  FALSE
  <2>1. IsWhite(r) /\ r \notin N
    BY <1>1, <1>4 DEF IsWhite, ColourOf
  <2>2. CASE o \in N
    <3>1. kind[o] \in {"udata", "upval"} /\ o # p
      BY <1>1, <1>4, <2>2 DEF ColourOf, IsBlack
    <3>2. Child(o, r)
      BY <1>4, <3>1
    <3> QED
      BY <2>1, <2>2, <3>1, <3>2
  <2>3. CASE o \notin N
    <3>1. IsBlack(o)
      BY <1>1, <1>4, <2>3 DEF IsBlack
    <3>2. ~Child(o, r)
      BY <1>4, <2>1, <3>1 DEF Colours
    <3>3. o = p /\ r = v
      BY <1>4, <3>1, <3>2
    <3> QED
      BY <2>1, <3>1, <3>3
  <2> QED
    BY <2>2, <2>3
<1> QED
  BY <1>1, <1>2, <1>3, <1>4 DEF Lists, Colours

\* The same for luaC_barrier, whatever the collector does.
LEMMA BarrierStep ==
    ASSUME Inv, mode # "closed", NEW p \in All, NEW v \in Ref, Barrier(p, v),
           kind[p] # "table",
           UNCHANGED <<kind, at, grayagain, weak, tmudata, gcstate, mode>>,
           \A o \in All, r \in All :
              (IsBlack(o) \/ IsBlack(o)') /\ Child(o, r)' => Child(o, r) \/ (o = p /\ r = v)
    PROVE  /\ Lists' /\ Colours' /\ (\A o \in All : Painted(o))
           /\ mark' \in [All -> Colour] /\ gray' \subseteq All
<1>0. TypeOK /\ Shapes /\ Heap /\ Sweeps /\ Lists /\ Colours
  BY DEF Inv
<1>1. CASE v # Nil /\ IsBlack(p) /\ IsWhite(v) /\ gcstate = "propagate"
  <2> DEFINE N == Marked({v})
  <2>1. mark' = Coloured(N) /\ gray' = gray \cup Linked(N)
    BY <1>1 DEF Barrier
  <2>2. \A o \in All : IsWhite(o) => Sound(o)
    <3>1. \A o \in All : ~IsDead(o)
      BY <1>0, <1>1, NoneDead
    <3> QED
      BY <1>0, <3>1 DEF Heap, Live, Shapes, Shape, IsWhite, IsDead
  <2>3. /\ N \subseteq All
        /\ \A o \in N : IsWhite(o)
        /\ Whites({v}) \subseteq N
        /\ \A o \in N, r \in All :
               kind[o] \in {"udata", "upval"} /\ Child(o, r) /\ IsWhite(r) => r \in N
    BY <1>0, <2>2, MarkedIs
  <2>4. v \in N /\ p \notin N
    BY <1>1, <2>3 DEF Whites, Proper, IsBlack, IsWhite
  <2>5. gray' \subseteq All
    BY <1>0, <2>1, <2>3 DEF TypeOK, Linked
  <2> HIDE DEF N
  <2> QED
    BY <1>0, <1>1, <2>1, <2>3, <2>4, <2>5, MarkStep
<1>2. CASE v # Nil /\ IsBlack(p) /\ IsWhite(v) /\ gcstate # "propagate"
  <2>1. mark' = [mark EXCEPT ![p] = "white"] /\ gray' = gray
    BY <1>2 DEF Barrier
  <2>2. (\A o \in All : Painted(o)) /\ mark' \in [All -> Colour] /\ gray' \subseteq All
    BY <1>0, <1>2, <2>1 DEF TypeOK, Painted, Colour
  <2> QED
    BY <1>2, <2>2 DEF Lists, Colours
<1>3. CASE ~(v # Nil /\ IsBlack(p) /\ IsWhite(v))
  <2>1. mark' = mark /\ gray' = gray
    BY <1>3 DEF Barrier
  <2>2. (\A o \in All : Painted(o)) /\ mark' \in [All -> Colour] /\ gray' \subseteq All
    BY <1>0, <2>1 DEF TypeOK, Painted
  <2>3. Lists'
    BY <1>0, <2>1 DEF Lists
  <2>4. Colours'
    <3> SUFFICES ASSUME gcstate = "propagate", mode \notin {"close", "closegc", "closed"},
                        NEW o \in All \ tmudata, NEW r \in All, IsBlack(o), Child(o, r)', IsWhite(r)
                 PROVE  FALSE
      BY <2>1 DEF Colours, IsBlack, IsWhite
    <3>1. r # Nil
      BY DEF Child
    <3>2. ~Child(o, r)
      BY <1>0 DEF Colours
    <3> QED
      BY <1>3, <3>1, <3>2
  <2> QED
    BY <2>2, <2>3, <2>4
<1> QED
  BY <1>1, <1>2, <1>3

\* A store into t, of the value v if it is one into a stack: what is left to
\* show is that t and the colours are as they should be.
LEMMA StoreStep ==
    ASSUME Inv, mode # "closed", \A o \in All : Painted(o),
           UNCHANGED <<kind, attr, fin, at, calls, tmudata, tosweep, gcstate, running, mode>>,
           mark' \in [All -> Colour], heap' \in [All -> Object],
           gray' \subseteq All, grayagain' \subseteq All, weak' \subseteq All,
           NEW t, NEW v \in Ref, Datum(v),
           \A q \in All : (q = t /\ kind[q] # "thread") \/ StackStep(q, v),
           \A q \in All : kind[q] = "none" => heap'[q] = heap[q],
           Keeps /\ t \in All /\ kind[t] # "thread" => Sound(t)',
           Lists', Colours'
    PROVE  Inv'
<1>0. TypeOK /\ Shapes /\ Heap /\ Sweeps
  BY DEF Inv
<1>1. Shapes' /\ Threads' /\ Final' /\ Sweeps' /\ Keeps
  BY PaintedStep
<1>2. TypeOK'
  BY <1>0 DEF TypeOK
<1>3. Datum(v)'
  BY <1>1 DEF Keeps, Datum, Ref
<1>4. ASSUME NEW o \in All, Live(o)' PROVE Sound(o)'
  <2>1. CASE o = t /\ kind[o] # "thread"
    BY <1>1, <2>1
  <2>2. CASE ~(o = t /\ kind[o] # "thread")
    <3>0. gcstate = "propagate" => ~IsDead(o)
      BY <1>0, NoneDead
    <3>1. Live(o) /\ at'[o] = at[o]
      BY <1>4, <3>0 DEF Painted, Live, IsDead, IsBlack
    <3> QED
      BY <1>0, <1>1, <1>3, <2>2, <3>1, StackSound
  <2> QED
    BY <2>1, <2>2
<1> QED
  BY <1>1, <1>2, <1>4 DEF Inv, Heap

\* A black object that is not touched refers to what it did.
LEMMA BlackChild ==
    ASSUME Shapes, NEW o \in All, NEW r, IsBlack(o), Child(o, r)',
           UNCHANGED <<kind, attr, at>>,
           heap'[o].key = heap[o].key, heap'[o].val = heap[o].val,
           heap'[o].env = heap[o].env, heap'[o].up = heap[o].up
    PROVE  Child(o, r)
<1>1. kind[o] # "thread" /\ (kind[o] = "upval" => at[o] = <<>>)
  BY DEF Shapes, Shape, Open
<1> QED
  BY <1>1 DEF Child, Value

\* OP_SETTABLE: a black table goes back to the gray ones.
LEMMA SetTableInv ==
    ASSUME Inv, NEW t \in Held, NEW k \in Held \cup {Nil}, NEW v \in Held \cup {Nil},
           SetTable(t, k, v)
    PROVE  Inv'
<1>0. TypeOK /\ Shapes /\ Threads /\ Heap /\ Lists /\ Colours /\ mode # "closed"
  BY DEF Inv, SetTable, MutatorRuns
<1>1. /\ t \in All /\ kind[t] = "table" /\ Live(t)
      /\ k \in Ref /\ v \in Ref /\ Datum(k) /\ Datum(v)
  BY <1>0, HeldIs DEF SetTable, Datum, Ref
<1>2. /\ heap' = [heap EXCEPT ![t].key = k, ![t].val = v]
      /\ BarrierBack(t, {k, v})
      /\ UNCHANGED <<kind, attr, fin, at, calls, tmudata, tosweep, gcstate, running, mode>>
      /\ gray' = gray /\ weak' = weak
  BY DEF SetTable, ctrlVars
<1>3. /\ heap' \in [All -> Object]
      /\ \A q \in All \ {t} : heap'[q] = heap[q]
      /\ heap'[t].key = k /\ heap'[t].val = v
  <2>1. heap[t] \in Object
    BY <1>0, <1>1 DEF TypeOK
  <2>2. heap'[t] = [heap[t] EXCEPT !.key = k, !.val = v]
    BY <1>0, <1>1, <1>2 DEF TypeOK
  <2>3. heap'[t] \in Object /\ heap'[t].key = k /\ heap'[t].val = v
    BY <1>1, <2>1, <2>2 DEF Object
  <2>4. \A q \in All \ {t} : heap'[q] = heap[q]
    BY <1>0, <1>1, <1>2 DEF TypeOK
  <2>5. heap' = [heap EXCEPT ![t] = heap'[t]]
    BY <1>0, <1>1, <1>2 DEF TypeOK
  <2> QED
    BY <1>0, <2>3, <2>4, <2>5 DEF TypeOK
<1>4. \/ /\ IsBlack(t) /\ Whites({k, v}) # {}
         /\ mark' = [mark EXCEPT ![t] = "gray"] /\ grayagain' = grayagain \cup {t}
      \/ /\ ~(IsBlack(t) /\ Whites({k, v}) # {})
         /\ mark' = mark /\ grayagain' = grayagain
  BY <1>2 DEF BarrierBack
<1>5. /\ \A o \in All : Painted(o)
      /\ mark' \in [All -> Colour] /\ grayagain' \subseteq All
      /\ \A o \in All \ {t} : mark'[o] = mark[o]
  BY <1>0, <1>1, <1>4 DEF TypeOK, Painted, Colour
<1>6. Keeps => Sound(t)'
  BY <1>1, <1>2, <1>3 DEF Keeps, Sound, Datum, Ref
<1>7. Lists'
  <2> SUFFICES ASSUME gcstate = "propagate", NEW o \in All
               PROVE  /\ o \in gray \/ o \in grayagain' \/ o \in weak <=>
                            mark'[o] = "gray" /\ kind[o] \in {"table", "func", "thread"}
                      /\ ~(o \in gray /\ o \in grayagain')
                      /\ ~(o \in gray /\ o \in weak)
                      /\ ~(o \in grayagain' /\ o \in weak)
    BY <1>2 DEF Lists
  <2>1. /\ o \in gray \/ o \in grayagain \/ o \in weak <=>
               mark[o] = "gray" /\ kind[o] \in {"table", "func", "thread"}
        /\ ~(o \in gray /\ o \in grayagain)
        /\ ~(o \in gray /\ o \in weak)
        /\ ~(o \in grayagain /\ o \in weak)
    BY <1>0 DEF Lists
  <2>2. CASE o = t /\ mark'[t] # mark[t]
    <3>1. IsBlack(o) /\ mark'[o] = "gray" /\ grayagain' = grayagain \cup {o} /\ kind[o] = "table"
      BY <1>0, <1>1, <1>4, <2>2 DEF TypeOK
    <3> QED
      BY <2>1, <3>1 DEF IsBlack
  <2>3. CASE ~(o = t /\ mark'[t] # mark[t])
    <3>1. mark'[o] = mark[o] /\ (o \in grayagain' <=> o \in grayagain)
      BY <1>0, <1>1, <1>4, <2>3 DEF TypeOK, IsBlack
    <3> QED
      BY <2>1, <3>1
  <2> QED
    BY <2>2, <2>3
<1>8. Colours'
  <2> SUFFICES ASSUME gcstate = "propagate", mode \notin {"close", "closegc", "closed"},
                      NEW o \in All \ tmudata, NEW r \in All, IsBlack(o)', Child(o, r)', IsWhite(r)'
               PROVE  FALSE
    BY <1>2 DEF Colours
  <2>1. IsBlack(o) /\ IsWhite(r) /\ r # Nil /\ mark'[o] = mark[o]
    BY <1>0, <1>1, <1>4 DEF TypeOK, IsBlack, IsWhite, Child
  <2>2. CASE o = t
    <3>1. r \in {k, v}
      BY <1>1, <1>2, <1>3, <2>2 DEF Child
    <3>2. Whites({k, v}) = {}
      BY <1>0, <1>4, <2>1, <2>2 DEF TypeOK, IsBlack
    <3> QED
      BY <2>1, <3>1, <3>2 DEF Whites, Proper
  <2>3. CASE o # t
    <3>1. Child(o, r)
      BY <1>0, <1>2, <1>3, <2>1, <2>3, BlackChild
    <3> QED
      BY <1>0, <2>1, <3>1 DEF Colours
  <2> QED
    BY <2>2, <2>3
<1>9. \A q \in All \ {t} : StackStep(q, Nil)
  BY <1>3 DEF StackStep
<1>10. Nil \in Ref /\ Datum(Nil)
  BY DEF Ref, Datum
<1>11. gray' \subseteq All /\ weak' \subseteq All
  BY <1>0, <1>2 DEF TypeOK
<1> HIDE DEF Inv, Lists, Colours, Keeps, Painted, StackStep, Datum
<1> QED
  BY <1>0, <1>1, <1>2, <1>3, <1>5, <1>6, <1>7, <1>8, <1>9, <1>10, <1>11, StoreStep

\* lua_setfenv: luaC_objbarrier on the userdata or function.
LEMMA SetEnvInv ==
    ASSUME Inv, NEW o \in Held, NEW e \in Held, SetEnv(o, e)
    PROVE  Inv'
<1>0. TypeOK /\ Shapes /\ Threads /\ Heap /\ mode # "closed"
  BY DEF Inv, SetEnv, MutatorRuns
<1>1. /\ o \in All /\ kind[o] \in {"udata", "func"} /\ Live(o) /\ Sound(o)
      /\ e \in Ref /\ e \in All /\ Live(e) /\ kind[e] = "table"
  BY <1>0, HeldIs DEF SetEnv, Ref, Heap
<1>2. /\ heap' = [heap EXCEPT ![o].env = e]
      /\ Barrier(o, e)
      /\ UNCHANGED <<kind, attr, fin, at, calls, tmudata, tosweep, gcstate, running, mode>>
      /\ grayagain' = grayagain /\ weak' = weak
  BY DEF SetEnv, ctrlVars
<1>3. /\ heap' \in [All -> Object]
      /\ \A q \in All \ {o} : heap'[q] = heap[q]
      /\ heap'[o] = [heap[o] EXCEPT !.env = e]
      /\ heap[o] \in Object
  <2>1. heap[o] \in Object
    BY <1>0, <1>1 DEF TypeOK
  <2>2. heap'[o] = [heap[o] EXCEPT !.env = e]
    BY <1>0, <1>1, <1>2 DEF TypeOK
  <2>3. heap'[o] \in Object
    BY <1>1, <2>1, <2>2 DEF Object
  <2>4. \A q \in All \ {o} : heap'[q] = heap[q]
    BY <1>0, <1>1, <1>2 DEF TypeOK
  <2>5. heap' = [heap EXCEPT ![o] = heap'[o]]
    BY <1>0, <1>1, <1>2 DEF TypeOK
  <2> QED
    BY <1>0, <2>1, <2>2, <2>3, <2>4, <2>5 DEF TypeOK
<1>4. heap'[o].env = e /\ heap'[o].up = heap[o].up
  BY <1>3 DEF Object
<1>5. ASSUME NEW q \in All, NEW r \in All, IsBlack(q) \/ IsBlack(q)', Child(q, r)'
      PROVE  Child(q, r) \/ (q = o /\ r = e)
  <2>1. CASE q = o
    BY <1>1, <1>2, <1>4, <1>5, <2>1 DEF Child
  <2>2. CASE q # o
    <3>1. kind[q] # "thread" /\ (kind[q] = "upval" => at[q] = <<>>)
      <4>1. IsBlack(q) \/ (IsBlack(q)' /\ mark'[q] = ColourOf(q))
        BY <1>0, <1>1, <1>2, <1>5 DEF Barrier, Coloured, IsBlack, TypeOK
      <4> QED
        BY <1>0, <4>1 DEF Shapes, Shape, Open, ColourOf, IsBlack
    <3>2. heap'[q] = heap[q]
      BY <1>3, <2>2
    <3> QED
      BY <1>2, <1>5, <3>1, <3>2 DEF Child, Value
  <2> QED
    BY <2>1, <2>2
<1>6. /\ Lists' /\ Colours' /\ (\A q \in All : Painted(q))
      /\ mark' \in [All -> Colour] /\ gray' \subseteq All
  <2>1. kind[o] # "table" /\ o \in All /\ e \in Ref
    BY <1>1
  <2> HIDE DEF Inv, Lists, Colours, Painted, Child, Barrier, IsBlack
  <2> QED
    BY <1>0, <1>2, <1>5, <2>1, BarrierStep
<1>7. Keeps => Sound(o)'
  <2>1. CASE kind[o] = "udata"
    BY <1>1, <1>2, <1>4, <2>1 DEF Keeps, Sound, Table
  <2>2. CASE kind[o] = "func"
    <3>1. heap[o].up \in All /\ Live(heap[o].up) /\ kind[heap[o].up] = "upval"
      BY <1>0, <1>1, <2>2 DEF Sound, TypeOK, Object, Ref
    <3> QED
      BY <1>1, <1>2, <1>4, <2>2, <3>1, LuaGCAssumption DEF Keeps, Sound, Table, All
  <2> QED
    BY <1>1, <2>1, <2>2
<1>8. \A q \in All \ {o} : StackStep(q, Nil)
  BY <1>3 DEF StackStep
<1>9. Nil \in Ref /\ Datum(Nil)
  BY DEF Ref, Datum
<1>10. grayagain' \subseteq All /\ weak' \subseteq All
  BY <1>0, <1>2 DEF TypeOK
<1> HIDE DEF Inv, Lists, Colours, Keeps, Painted, StackStep, Datum
<1> QED
  BY <1>0, <1>1, <1>2, <1>3, <1>6, <1>7, <1>8, <1>9, <1>10, StoreStep

\* OP_SETUPVAL: luaC_barrier on the upvalue.  An open upvalue is never black, so
\* the store into a stack needs none.
LEMMA SetUpvalInv ==
    ASSUME Inv, NEW f \in Held, NEW v \in Held \cup {Nil}, SetUpval(f, v), "setupvalue" \notin Api
    PROVE  Inv'
<1>0. TypeOK /\ Shapes /\ Threads /\ Heap /\ mode # "closed"
  BY DEF Inv, SetUpval, MutatorRuns
<1>1. PICK u \in All : u = heap[f].up /\ Live(u) /\ kind[u] = "upval" /\ Sound(u) /\ Shape(u)
  <2>1. f \in All /\ Live(f) /\ Sound(f) /\ kind[f] = "func"
    BY <1>0, HeldIs DEF Heap, SetUpval
  <2> QED
    BY <1>0, <2>1 DEF Heap, Shapes, Sound, TypeOK, Object, Ref
<1>2. v \in Ref /\ Datum(v)
  BY <1>0, HeldIs DEF Datum, Ref
<1>3. /\ heap' = Stored(u, v)
      /\ Barrier(u, v)
      /\ UNCHANGED <<kind, attr, fin, at, calls, tmudata, tosweep, gcstate, running, mode>>
      /\ grayagain' = grayagain /\ weak' = weak
  BY <1>1 DEF SetUpval, ctrlVars
<1>4. /\ heap' \in [All -> Object]
      /\ \A q \in All : kind[q] = "none" => heap'[q] = heap[q]
      /\ at[u] # <<>> => \A q \in All : StackStep(q, v)
      /\ at[u] = <<>> => heap'[u].val = v /\ \A q \in All \ {u} : heap'[q] = heap[q]
  <2>1. CASE at[u] # <<>>
    <3> DEFINE t == at[u][1]
               s == at[u][2]
    <3>1. t \in All /\ s \in Slots /\ kind[t] = "thread"
      BY <1>0, <1>1, <2>1 DEF TypeOK, Shape
    <3>2. heap' = [heap EXCEPT ![t].stack[s] = v]
      BY <1>3, <2>1 DEF Stored
    <3> HIDE DEF t, s
    <3>3. /\ heap' \in [All -> Object]
          /\ \A o \in All : StackStep(o, v)
          /\ \A o \in All \ {t} : heap'[o] = heap[o]
      BY <1>0, <1>2, <3>1, <3>2, PushEffect
    <3> QED
      BY <2>1, <3>1, <3>3
  <2>2. CASE at[u] = <<>>
    <3>1. heap' = [heap EXCEPT ![u].val = v]
      BY <1>3, <2>2 DEF Stored
    <3>2. heap[u] \in Object
      BY <1>0 DEF TypeOK
    <3>3. heap'[u] = [heap[u] EXCEPT !.val = v]
      BY <1>0, <3>1 DEF TypeOK
    <3>4. heap'[u] \in Object /\ heap'[u].val = v
      BY <1>2, <3>2, <3>3 DEF Object
    <3>5. \A q \in All \ {u} : heap'[q] = heap[q]
      BY <1>0, <3>1 DEF TypeOK
    <3>6. heap' = [heap EXCEPT ![u] = heap'[u]]
      BY <1>0, <3>1 DEF TypeOK
    <3> QED
      BY <1>0, <1>1, <2>2, <3>4, <3>5, <3>6 DEF TypeOK
  <2> QED
    BY <2>1, <2>2
<1>5. ASSUME NEW q \in All, NEW r \in All, IsBlack(q) \/ IsBlack(q)', Child(q, r)'
      PROVE  Child(q, r) \/ (q = u /\ r = v)
  <2>1. kind[q] # "thread" /\ (kind[q] = "upval" => at[q] = <<>>)
    <3>1. IsBlack(q) \/ (IsBlack(q)' /\ mark'[q] = ColourOf(q))
      BY <1>0, <1>1, <1>3, <1>5 DEF Barrier, Coloured, IsBlack, TypeOK
    <3> QED
      BY <1>0, <3>1 DEF Shapes, Shape, Open, ColourOf, IsBlack
  <2>2. CASE at[u] # <<>> \/ q # u
    <3>1. /\ heap'[q].key = heap[q].key /\ heap'[q].val = heap[q].val
          /\ heap'[q].env = heap[q].env /\ heap'[q].up = heap[q].up
      BY <1>4, <2>2 DEF StackStep
    <3> QED
      BY <1>3, <1>5, <2>1, <3>1 DEF Child, Value
  <2>3. CASE at[u] = <<>> /\ q = u
    BY <1>1, <1>3, <1>4, <1>5, <2>3 DEF Child, Value
  <2> QED
    BY <2>2, <2>3
<1>6. /\ Lists' /\ Colours' /\ (\A q \in All : Painted(q))
      /\ mark' \in [All -> Colour] /\ gray' \subseteq All
  <2>1. kind[u] # "table"
    BY <1>1
  <2> HIDE DEF Inv, Lists, Colours, Painted, Child, Barrier, IsBlack
  <2> QED
    BY <1>0, <1>2, <1>3, <1>5, <2>1, BarrierStep
<1>7. grayagain' \subseteq All /\ weak' \subseteq All
  BY <1>0, <1>3 DEF TypeOK
<1>8. CASE at[u] # <<>>
  <2>1. \A q \in All : StackStep(q, v)
    BY <1>4, <1>8
  <2>2. Nil \notin All
    BY LuaGCAssumption DEF All
  <2> HIDE DEF Inv, Lists, Colours, Keeps, Painted, StackStep, Datum
  <2> QED
    BY <1>0, <1>2, <1>3, <1>4, <1>6, <1>7, <2>1, <2>2, StoreStep
<1>9. CASE at[u] = <<>>
  <2>1. \A q \in All \ {u} : StackStep(q, v)
    BY <1>4, <1>9 DEF StackStep
  <2>2. Keeps => Sound(u)'
    <3>1. Value(u)' = v
      BY <1>3, <1>4, <1>9 DEF Value
    <3>2. Keeps => Datum(v)'
      BY <1>2 DEF Keeps, Datum, Ref
    <3>3. Keeps => Datum(Value(u))'
      BY <3>1, <3>2 DEF Datum, Live, IsDead
    <3> QED
      BY <1>1, <1>3, <3>3 DEF Sound
  <2>3. kind[u] # "thread"
    BY <1>1
  <2> HIDE DEF Inv, Lists, Colours, Keeps, Painted, StackStep, Datum
  <2> QED
    BY <1>0, <1>2, <1>3, <1>4, <1>6, <1>7, <2>1, <2>2, <2>3, StoreStep
<1> QED
  BY <1>8, <1>9

-----------------------------------------------------------------------------
(* Steps of the control: the objects stay what they are.                   *)

\* What is about the objects only.
LEMMA SameObjects ==
    ASSUME UNCHANGED <<kind, heap, attr, fin, at, calls, mark, tmudata>>
    PROVE  (Shapes => Shapes') /\ (Heap => Heap') /\ (Final => Final')
<1>1. ASSUME NEW o \in All PROVE Shape(o) => Shape(o)'
  BY DEF Shape, IsBlack, IsWeak, Open
<1>2. ASSUME NEW o \in All PROVE (Live(o) <=> Live(o)') /\ (Sound(o) => Sound(o)')
  BY DEF Sound, Live, Datum, Table, Value, IsDead
<1>3. ASSUME NEW o \in All PROVE Finals(o) => Finals(o)'
  BY DEF Finals, IsDead, Live
<1> QED
  BY <1>1, <1>2, <1>3 DEF Shapes, Heap, Final

\* luaC_fullgc forgets an unfinished marking: the sweep comes to everything.
LEMMA FullGCInv ==
    ASSUME Inv, FullGC
    PROVE  Inv'
<1>0. /\ TypeOK /\ Shapes /\ Threads /\ Heap /\ Final /\ Sweeps /\ mode \in {"run", "gctm"}
      /\ mode' = "sweep"
      /\ UNCHANGED <<kind, heap, attr, fin, at, calls, mark, tmudata, running>>
  BY DEF Inv, FullGC, objVars
<1>1. Shapes' /\ Heap' /\ Final'
  BY <1>0, SameObjects
<1>2. Threads'
  BY <1>0 DEF Threads, IsDead
<1>3. CASE gcstate \in {"pause", "propagate"}
  <2>1. /\ gcstate' = "sweepstring"
        /\ tosweep' = {o \in All : kind[o] # "none" /\ ~Open(o)} \ tmudata
        /\ gray' = {} /\ grayagain' = {} /\ weak' = {}
    BY <1>3 DEF FullGC
  <2>2. TypeOK'
    BY <1>0, <2>1 DEF TypeOK, GCState, Mode
  <2>3. ASSUME NEW o \in All PROVE Swept(o)'
    <3>1. ~IsDead(o)' /\ Shape(o)
      BY <1>0, <1>3, NoneDead DEF IsDead, Shapes
    <3>2. kind[o] # "none" /\ ~Open(o) => o \in tosweep' \/ o \in tmudata
      BY <2>1
    <3>3. Open(o) => at[o][1] \in tosweep'
      <4> SUFFICES ASSUME Open(o) PROVE at[o][1] \in tosweep'
        OBVIOUS
      <4>1. at[o][1] \in All /\ kind[at[o][1]] = "thread"
        BY <1>0, <3>1 DEF TypeOK, Shape, Open
      <4>2. at[o][1] \notin tmudata
        BY <1>0, <4>1 DEF Final, Finals
      <4> QED
        BY <2>1, <4>1, <4>2 DEF Open
    <3>4. Pending(o)' <=> o \in tosweep' \/ (Open(o) /\ at[o][1] \in tosweep')
      BY <1>0 DEF Pending, Open
    <3>5. o \in tosweep' => kind'[o] # "none" /\ ~Open(o)'
      BY <1>0, <2>1 DEF Open
    <3>6. mark'[o] \in {"gray", "black"} => kind[o] # "none"
      BY <1>0, <3>1 DEF Shape
    <3> QED
      BY <1>0, <2>1, <3>1, <3>2, <3>3, <3>4, <3>5, <3>6 DEF Swept
  <2> QED
    BY <1>0, <1>1, <1>2, <2>1, <2>2, <2>3 DEF Inv, Sweeps, Lists, Colours
<1>4. CASE gcstate \notin {"pause", "propagate"}
  <2>1. UNCHANGED <<gcstate, tosweep, gray, grayagain, weak>>
    BY <1>4 DEF FullGC, listVars
  <2>2. TypeOK'
    BY <1>0, <2>1 DEF TypeOK, Mode
  <2>3. ASSUME NEW o \in All PROVE Swept(o)'
    BY <1>0, <2>1 DEF Sweeps, Swept, Pending, Open, IsDead
  <2> QED
    BY <1>0, <1>1, <1>2, <1>4, <2>1, <2>2, <2>3 DEF Inv, Sweeps, Lists, Colours
<1> QED
  BY <1>3, <1>4

\* FullGCEnds, FinalizerReturns, FinalizerFails, SweepStringEnds, EndCycle.
LEMMA ControlInv ==
    ASSUME Inv, mode # "closed",
           UNCHANGED <<objVars, mark, listVars, tmudata, tosweep, running>>,
           mode' \in Mode \ {"closed"},
           mode' \in {"close", "closegc"} <=> mode \in {"close", "closegc"},
           \/ gcstate' = gcstate
           \/ gcstate' = "sweep" /\ gcstate = "sweepstring" /\ \A o \in tosweep : kind[o] # "string"
           \/ gcstate' = "pause" /\ gcstate = "finalize"
    PROVE  Inv'
<1>0. TypeOK /\ Shapes /\ Threads /\ Heap /\ Final /\ Sweeps /\ Lists /\ Colours
  BY DEF Inv
<1>1. /\ UNCHANGED <<kind, heap, attr, fin, at, calls, mark, tmudata, tosweep, running>>
      /\ UNCHANGED <<gray, grayagain, weak>>
  BY DEF objVars, listVars
<1>2. Shapes' /\ Heap' /\ Final'
  BY <1>0, <1>1, SameObjects
<1>3. Threads'
  BY <1>0, <1>1 DEF Threads, IsDead
<1>4. TypeOK'
  BY <1>0, <1>1 DEF TypeOK, GCState
<1>5. ASSUME NEW o \in All PROVE Swept(o)'
  <2>1. Swept(o) /\ Shape(o) /\ (Pending(o)' <=> Pending(o)) /\ (Open(o)' <=> Open(o))
        /\ (IsDead(o)' <=> IsDead(o)) /\ mark' = mark /\ kind' = kind
    BY <1>0, <1>1 DEF Sweeps, Pending, Open, IsDead, Shapes
  <2>2. CASE gcstate' = gcstate
    BY <1>1, <2>1, <2>2 DEF Swept
  <2>3. CASE gcstate' = "pause" /\ gcstate = "finalize"
    BY <1>1, <2>1, <2>3 DEF Swept
  <2>4. CASE gcstate' = "sweep" /\ gcstate = "sweepstring" /\ \A q \in tosweep : kind[q] # "string"
    <3>1. Pending(o) => kind[o] # "string"
      BY <2>4 DEF Pending, Open
    <3> QED
      BY <1>1, <2>1, <2>4, <3>1 DEF Swept
  <2> QED
    BY <2>2, <2>3, <2>4
<1>6. Lists' /\ Colours'
  <2>1. CASE gcstate' = "propagate"
    <3>1. gcstate = "propagate"
      BY <2>1
    <3>2. Lists'
      BY <1>0, <1>1, <3>1 DEF Lists
    <3>3. \A o \in All, r \in All : Child(o, r)' <=> Child(o, r)
      BY <1>1 DEF Child, Value
    <3>4. \A o \in All : (IsBlack(o)' <=> IsBlack(o)) /\ (IsWhite(o)' <=> IsWhite(o))
      BY <1>1 DEF IsBlack, IsWhite
    <3>5. Colours'
      BY <1>0, <1>1, <3>1, <3>3, <3>4 DEF Colours
    <3> QED
      BY <3>2, <3>5
  <2> QED
    BY <2>1 DEF Lists, Colours
<1> QED
  BY <1>2, <1>3, <1>4, <1>5, <1>6 DEF Inv, Sweeps

\* Nothing is gray or black when a cycle starts, but for pending userdata.
LEMMA MarkRootInv ==
    ASSUME Inv, MarkRoot
    PROVE  Inv'
<1>0. /\ TypeOK /\ Shapes /\ Threads /\ mode # "closed"
      /\ mode' \in Mode \ {"closed", "close"} /\ mode' \in {mode, "mark"}
      /\ gcstate \in {"pause", "finalize"} /\ gcstate' = "propagate"
      /\ mark' = [mark EXCEPT ![Main] = "gray"] /\ gray' = {Main}
      /\ grayagain' = {} /\ weak' = {}
      /\ UNCHANGED <<kind, heap, attr, fin, at, calls, tmudata, tosweep, running>>
  BY DEF Inv, MarkRoot, CollectorRuns, objVars, Mode
<1>1. Heap /\ Final /\ Sweeps
  BY <1>0 DEF Inv
<1>2. tosweep = {} /\ (\A o \in All : ~IsDead(o)) /\ Main \in All
  BY <1>0, <1>1, NoneDead DEF All
<1>3. \A o \in All : mark[o] \in {"gray", "black"} => o \in tmudata
  BY <1>0, <1>1, <1>2 DEF Sweeps, Swept, Pending
<1>4. /\ mark'[Main] = "gray" /\ kind[Main] = "thread" /\ mark[Main] = "white"
      /\ \A o \in All \ {Main} : mark'[o] = mark[o]
      /\ mark' \in [All -> Colour]
  <2>1. kind[Main] = "thread" /\ Main \notin tmudata /\ Shape(Main)
    BY <1>0, <1>2, LuaGCAssumption DEF Threads, TypeOK, Shapes
  <2>2. mark[Main] = "white"
    BY <1>0, <1>2, <1>3, <2>1 DEF TypeOK, Colour, Shape, IsDead
  <2> QED
    BY <1>0, <1>2, <2>1, <2>2 DEF TypeOK, Colour
<1>5. ASSUME NEW o \in All PROVE Shape(o)'
  BY <1>0, <1>4 DEF Shapes, Shape, IsBlack, IsWeak, Open
<1>6. ASSUME NEW o \in All
      PROVE  ~IsDead(o)' /\ (Live(o)' <=> Live(o))
  BY <1>0, <1>2, <1>4 DEF IsDead, Live
<1>7. ASSUME NEW o \in All, Live(o)' PROVE Sound(o)'
  <2>1. Datum(Nil)' /\ Keeps /\ Live(o) /\ at'[o] = at[o] /\ \A q \in All : StackStep(q, Nil)
    BY <1>0, <1>6, <1>7 DEF Datum, Keeps, StackStep
  <2> QED
    BY <1>0, <1>1, <2>1, StackSound
<1>8. ASSUME NEW o \in All PROVE Finals(o)'
  BY <1>0, <1>1, <1>6 DEF Final, Finals
<1>9. ASSUME NEW o \in All PROVE Swept(o)'
  BY <1>0, <1>2, <1>6 DEF Swept
<1>10. Lists'
  <2>1. ASSUME NEW o \in All, o # Main PROVE mark[o] = "gray" => FALSE
    BY <1>0, <1>1, <1>3, <2>1 DEF Final, Finals, Shapes, Shape
  <2> QED
    BY <1>0, <1>4, <2>1 DEF Lists
<1>11. Colours'
  BY <1>0, <1>3, <1>4 DEF Colours, IsBlack
<1>12. TypeOK'
  BY <1>0, <1>2, <1>4 DEF TypeOK, GCState
<1>13. Threads'
  BY <1>0, <1>2, <1>6 DEF Threads, TypeOK
<1> QED
  BY <1>5, <1>7, <1>8, <1>9, <1>10, <1>11, <1>12, <1>13 DEF Inv, Shapes, Heap, Final, Sweeps

\* close_state.
LEMMA FreeAllInv ==
    ASSUME Inv, FreeAll
    PROVE  Inv'
<1>0. /\ TypeOK /\ Shapes /\ Threads /\ mode = "close" /\ mode' = "closed"
      /\ tosweep' = {} /\ Reclaim(Objs, {}, heap)
      /\ fin' = [o \in All |-> FALSE]
      /\ mark' = [o \in All |-> IF o = Main THEN mark[o] ELSE "free"]
      /\ UNCHANGED <<gray, grayagain, weak, tmudata, gcstate, running>>
  BY DEF Inv, FreeAll, listVars
<1>1. /\ \A o \in Objs : /\ kind'[o] = "none" /\ attr'[o] = "strong" /\ calls'[o] = 0
                         /\ at'[o] = <<>> /\ heap'[o] = Empty /\ mark'[o] = "free"
      /\ kind'[Main] = kind[Main] /\ attr'[Main] = attr[Main] /\ calls'[Main] = calls[Main]
      /\ at'[Main] = at[Main] /\ heap'[Main] = heap[Main] /\ mark'[Main] = mark[Main]
      /\ \A o \in All : ~fin'[o]
  BY <1>0, LuaGCAssumption DEF Reclaim, Freed, All
<1>2. Empty \in Object
  BY DEF Empty, Object, Ref
<1>3. TypeOK'
  <2>1. kind' \in [All -> Kind] /\ mark' \in [All -> Colour]
    BY <1>0 DEF Reclaim, Freed, TypeOK, Kind, Colour
  <2>2. heap' \in [All -> Object]
    BY <1>0, <1>2 DEF Reclaim, TypeOK
  <2>3. /\ attr' \in [All -> {"strong", "k", "v", "kv", "gc", "nogc"}]
        /\ calls' \in [All -> Nat] /\ fin' \in [All -> BOOLEAN]
        /\ at' \in [All -> {<<>>} \cup (All \X Slots)]
    BY <1>0 DEF Reclaim, Freed, TypeOK
  <2> QED
    BY <1>0, <2>1, <2>2, <2>3 DEF TypeOK, Mode
<1>4. Shape(Main)'
  <2>1. Shape(Main) /\ kind[Main] = "thread" /\ at[Main] = <<>>
    BY <1>0 DEF Shapes, Threads, Shape, All
  <2> QED
    BY <1>1, <2>1 DEF Shape, IsBlack, IsWeak, Open
<1>5. ASSUME NEW o \in Objs PROVE Shape(o)'
  BY <1>1, <1>5 DEF Shape, IsBlack, All
<1>6. Threads'
  BY <1>0, <1>1 DEF Threads, IsDead
<1> QED
  BY <1>0, <1>3, <1>4, <1>5, <1>6 DEF Inv, Shapes, All, Lists, Colours

\* GCTM: the userdata, in use as all of tmudata, gets white and its call counted.
LEMMA GCTMInv ==
    ASSUME Inv, NEW u \in tmudata, GCTM(u), "closestep" \notin Api
    PROVE  Inv'
<1>0. /\ TypeOK /\ Shapes /\ Threads /\ mode # "closed"
      /\ mode = "close" \/ (gcstate = "finalize" /\ mode \in {"run", "mark", "gctm"})
      /\ mode' = CASE mode = "mark"  -> "gctm"
                   [] mode = "close" -> "closegc"
                   [] OTHER          -> mode
      /\ tmudata' = tmudata \ {u}
      /\ mark' = [mark EXCEPT ![u] = "white"]
      /\ calls' = [calls EXCEPT ![u] = IF @ < MaxCalls THEN @ + 1 ELSE @]
      /\ UNCHANGED <<kind, attr, fin, at, gray, grayagain, weak, tosweep, gcstate, running>>
  BY DEF Inv, GCTM, CollectorRuns, listVars
<1>1. /\ Heap /\ Final /\ Sweeps /\ Lists
      /\ u \in All /\ kind[u] = "udata" /\ attr[u] = "gc" /\ fin[u] /\ Live(u) /\ calls[u] = 0
      /\ running \in All /\ kind[running] = "thread"
  BY <1>0 DEF Inv, Final, Finals, TypeOK, Threads, All
<1>2. /\ mark'[u] = "white" /\ calls'[u] = 1
      /\ \A o \in All \ {u} : mark'[o] = mark[o] /\ calls'[o] = calls[o]
      /\ mark' \in [All -> Colour] /\ calls' \in [All -> Nat]
  <2>1. calls'[u] = 1 /\ \A o \in All \ {u} : calls'[o] = calls[o]
    BY <1>0, <1>1, LuaGCAssumption DEF TypeOK
  <2>2. calls' \in [All -> Nat]
    BY <1>0, <1>1 DEF TypeOK
  <2> QED
    BY <1>0, <1>1, <2>1, <2>2 DEF TypeOK, Colour
<1>3. /\ heap' \in [All -> Object]
      /\ \A o \in All : StackStep(o, u)
      /\ \A o \in All : kind[o] = "none" => heap'[o] = heap[o]
  <2>1. CASE heap' = heap
    BY <1>0, <2>1 DEF TypeOK, StackStep
  <2>2. ASSUME NEW s \in Slots, heap' = OnStack(s, u)
        PROVE  /\ heap' \in [All -> Object]
               /\ \A o \in All : StackStep(o, u)
               /\ \A o \in All \ {running} : heap'[o] = heap[o]
    <3>1. heap' = [heap EXCEPT ![running].stack[s] = u] /\ u \in Ref
      BY <1>1, <2>2 DEF OnStack, Ref
    <3> QED
      BY <1>0, <1>1, <3>1, PushEffect
  <2> QED
    BY <1>1, <2>1, <2>2 DEF GCTM
<1>4. ASSUME NEW o \in All PROVE Shape(o)'
  <2>1. Shape(o) /\ (o # u => mark'[o] = mark[o] /\ calls'[o] = calls[o])
    BY <1>0, <1>2 DEF Shapes
  <2> QED
    BY <1>0, <1>1, <1>2, <1>3, <2>1 DEF Shape, IsBlack, IsWeak, Open
<1>5. ASSUME NEW o \in All
      PROVE  (IsDead(o)' <=> IsDead(o)) /\ (Live(o)' <=> Live(o))
  BY <1>0, <1>1, <1>2 DEF IsDead, Live
<1>6. ASSUME NEW o \in All, Live(o)' PROVE Sound(o)'
  <2>1. Keeps /\ Live(o) /\ at'[o] = at[o] /\ Datum(u)'
    BY <1>0, <1>1, <1>5, <1>6 DEF Datum, Keeps
  <2> QED
    BY <1>0, <1>1, <1>3, <2>1, StackSound
<1>7. ASSUME NEW o \in All PROVE Finals(o)'
  <2>1. Finals(o)
    BY <1>1 DEF Final
  <2>2. CASE o = u
    BY <1>0, <1>1, <1>2, <1>5, <2>2 DEF Finals
  <2>3. CASE o # u
    BY <1>0, <1>2, <1>5, <2>1, <2>3 DEF Finals
  <2> QED
    BY <2>2, <2>3
<1>8. ASSUME NEW o \in All PROVE Swept(o)'
  <2>1. Swept(o) /\ (Pending(o)' <=> Pending(o)) /\ (Open(o)' <=> Open(o))
    BY <1>0, <1>1 DEF Sweeps, Pending, Open
  <2> QED
    BY <1>0, <1>2, <1>5, <2>1 DEF Swept
<1>9. Lists'
  <2> SUFFICES ASSUME gcstate = "propagate"
               PROVE  \A o \in All :
                  /\ o \in gray \/ o \in grayagain \/ o \in weak <=>
                        mark'[o] = "gray" /\ kind[o] \in {"table", "func", "thread"}
                  /\ ~(o \in gray /\ o \in grayagain)
                  /\ ~(o \in gray /\ o \in weak)
                  /\ ~(o \in grayagain /\ o \in weak)
    BY <1>0 DEF Lists
  <2> QED
    BY <1>0, <1>1, <1>2 DEF Lists
<1>10. Colours'
  BY <1>0 DEF Colours
<1>11. TypeOK'
  BY <1>0, <1>2, <1>3 DEF TypeOK, Mode
<1>12. Threads'
  BY <1>0, <1>1, <1>5 DEF Threads, All
<1> QED
  BY <1>4, <1>6, <1>7, <1>8, <1>9, <1>10, <1>11, <1>12 DEF Inv, Shapes, Heap, Final, Sweeps

\* propagatemark: o may get black since all it refers to is marked.
LEMMA PropagateInv ==
    ASSUME Inv, NEW o \in gray, Propagate(o), "closestep" \notin Api
    PROVE  Inv'
<1> DEFINE N == Marked(Children(o))
           stays == kind[o] = "thread" \/ IsWeak(o)
<1>0. /\ TypeOK /\ Shapes /\ Lists /\ Colours /\ mode # "closed" /\ gcstate = "propagate"
      /\ mark' = IF stays THEN Coloured(N) ELSE [Coloured(N) EXCEPT ![o] = "black"]
      /\ gray' = (gray \cup Linked(N)) \ {o}
      /\ grayagain' = grayagain \cup ({o} \cap {q \in All : kind[q] = "thread"})
      /\ weak' = weak \cup ({o} \cap {q \in All : IsWeak(q)})
      /\ UNCHANGED <<kind, heap, attr, fin, at, calls, tmudata, tosweep, gcstate, running, mode>>
  BY DEF Inv, Propagate, CollectorRuns, objVars, ctrlVars
<1>1. Heap /\ Final /\ Sweeps
  BY <1>0 DEF Inv
<1>2. o \in All /\ mark[o] = "gray" /\ kind[o] \in {"table", "func", "thread"} /\ Sound(o)
  <2>1. o \in All /\ mark[o] = "gray" /\ kind[o] \in {"table", "func", "thread"}
    BY <1>0 DEF TypeOK, Lists
  <2> QED
    BY <1>1, <2>1 DEF Heap, Live, IsDead
<1>3. \A q \in All : IsWhite(q) => Sound(q)
  <2>1. \A q \in All : ~IsDead(q)
    BY <1>0, <1>1, NoneDead
  <2> QED
    BY <1>0, <1>1, <2>1 DEF Heap, Live, Shapes, Shape, IsWhite, IsDead
<1>4. Children(o) \subseteq Ref
  BY <1>0, <1>2, ChildrenAre, SoundChild DEF Ref
<1>5. /\ N \subseteq All
      /\ \A q \in N : IsWhite(q)
      /\ Whites(Children(o)) \subseteq N
      /\ \A q \in N, r \in All :
             kind[q] \in {"udata", "upval"} /\ Child(q, r) /\ IsWhite(r) => r \in N
  BY <1>0, <1>3, <1>4, MarkedIs
<1>6. o \notin N
  BY <1>2, <1>5 DEF IsWhite
<1> HIDE DEF N
<1>7. /\ \A q \in N : mark'[q] = ColourOf(q)
      /\ \A q \in All \ N : q # o => mark'[q] = mark[q]
      /\ mark'[o] = IF stays THEN "gray" ELSE "black"
      /\ mark' \in [All -> Colour]
  <2>1. /\ Coloured(N) \in [All -> Colour]
        /\ \A q \in N : Coloured(N)[q] = ColourOf(q)
        /\ \A q \in All \ N : Coloured(N)[q] = mark[q]
    BY <1>0, <1>5 DEF Coloured, TypeOK, ColourOf, Colour
  <2> QED
    BY <1>0, <1>2, <1>5, <1>6, <2>1 DEF Colour
<1>8. \A q \in All : Painted(q)
  BY <1>0, <1>2, <1>5, <1>7 DEF Painted
<1>9. ASSUME NEW q \in All
      PROVE  /\ q \in gray' \/ q \in grayagain' \/ q \in weak' <=>
                   mark'[q] = "gray" /\ kind[q] \in {"table", "func", "thread"}
             /\ ~(q \in gray' /\ q \in grayagain')
             /\ ~(q \in gray' /\ q \in weak')
             /\ ~(q \in grayagain' /\ q \in weak')
  <2>1. /\ q \in gray \/ q \in grayagain \/ q \in weak <=>
                   mark[q] = "gray" /\ kind[q] \in {"table", "func", "thread"}
        /\ ~(q \in gray /\ q \in grayagain)
        /\ ~(q \in gray /\ q \in weak)
        /\ ~(q \in grayagain /\ q \in weak)
    BY <1>0 DEF Lists
  <2>2. CASE q = o
    <3>1. q \notin gray' /\ (q \in grayagain' <=> kind[q] = "thread") /\ (q \in weak' <=> IsWeak(q))
      BY <1>0, <2>1, <2>2
    <3> QED
      BY <1>2, <1>7, <2>2, <3>1 DEF IsWeak
  <2>3. CASE q \in N
    <3>1. mark[q] # "gray" /\ q # o
      BY <1>5, <1>6, <2>3 DEF IsWhite
    <3>2. q \in gray' <=> kind[q] \in {"table", "func", "thread"}
      BY <1>0, <2>1, <2>3, <3>1 DEF Linked
    <3>3. kind[q] \in {"table", "func", "thread"} => mark'[q] = "gray"
      BY <1>7, <2>3 DEF ColourOf
    <3>4. q \notin grayagain' /\ q \notin weak'
      BY <1>0, <2>1, <3>1
    <3> QED
      BY <3>2, <3>3, <3>4
  <2>4. CASE q \notin N /\ q # o
    <3>1. /\ q \in gray' <=> q \in gray
          /\ q \in grayagain' <=> q \in grayagain
          /\ q \in weak' <=> q \in weak
      BY <1>0, <2>4 DEF Linked
    <3> QED
      BY <1>7, <2>1, <2>4, <3>1
  <2> QED
    BY <2>2, <2>3, <2>4
<1>10. ASSUME mode \notin {"close", "closegc", "closed"},
              NEW q \in All \ tmudata, NEW r \in All, IsBlack(q)', Child(q, r)', IsWhite(r)'
       PROVE  FALSE
  <2>1. Child(q, r)
    BY <1>0, <1>10 DEF Child, Value
  <2>2. IsWhite(r) /\ r \notin N
    BY <1>7, <1>10 DEF IsWhite, ColourOf
  <2>3. CASE q = o
    <3>1. r \in Children(o) /\ r # Nil
      BY <1>2, <2>1, <2>3, ChildrenAre DEF Child
    <3> QED
      BY <1>5, <2>2, <3>1 DEF Whites, Proper
  <2>4. CASE q \in N
    <3>1. kind[q] \in {"udata", "upval"}
      BY <1>7, <1>10, <2>4 DEF ColourOf, IsBlack
    <3> QED
      BY <1>5, <2>1, <2>2, <2>4, <3>1
  <2>5. CASE q \notin N /\ q # o
    <3>1. IsBlack(q)
      BY <1>7, <1>10, <2>5 DEF IsBlack
    <3> QED
      BY <1>0, <1>10, <2>1, <2>2, <3>1 DEF Colours
  <2> QED
    BY <2>3, <2>4, <2>5
<1>11. Lists' /\ Colours'
  BY <1>0, <1>9, <1>10 DEF Lists, Colours
<1>12. /\ gray' \subseteq All /\ grayagain' \subseteq All /\ weak' \subseteq All
       /\ heap' \in [All -> Object]
  BY <1>0, <1>5 DEF TypeOK, Linked
<1>13. /\ \A q \in All : StackStep(q, Nil)
       /\ \A q \in All : kind[q] = "none" => heap'[q] = heap[q]
       /\ Nil \in Ref /\ Datum(Nil) /\ Nil \notin All
  BY <1>0, LuaGCAssumption DEF StackStep, Ref, Datum, All
<1> HIDE DEF Inv, Lists, Colours, Keeps, Painted, StackStep, Datum, stays
<1> QED
  BY <1>0, <1>7, <1>8, <1>11, <1>12, <1>13, StoreStep

-----------------------------------------------------------------------------
(* Steps that free objects and close upvalues.                             *)

\* The colour of an object that is not freed may change like this when the
\* upvalues of C are closed.
Repainted(q, C) ==
    \/ mark'[q] = "white" /\ Live(q)
    \/ mark'[q] = mark[q] /\ q \notin C
    \/ mark'[q] = "black" /\ q \in C
    \/ mark[q] = "white" /\ kind[q] # "upval" /\ mark'[q] = ColourOf(q)

\* Nothing in D is in use, what is closed is, and no open upvalue is left in a
\* stack that is given up, h being the objects' references.
Reclaimable(D, C, h) ==
    /\ \A q \in C : Open(q) /\ Live(q)
    /\ \A q \in D : IsDead(q) /\ mark'[q] = "free"
    /\ \A q \in All : q \in D \/ kind[q] = "none" => ~fin'[q]
    /\ \A q \in All \ D : Repainted(q, C)
    /\ \A q \in All : at[q] # <<>> /\ at[q][1] \in D => q \in D \/ q \in C
    /\ \A q \in All :
          \/ h[q] = heap[q]
          \/ /\ kind[q] = "thread" /\ h[q] = Empty
             /\ \A r \in All : at[r] # <<>> /\ at[r][1] = q => r \in D \/ r \in C

\* What becomes of the objects then.
Reclaimed(D, C, h) ==
    /\ kind' \in [All -> Kind] /\ heap' \in [All -> Object]
    /\ attr' \in [All -> {"strong", "k", "v", "kv", "gc", "nogc"}]
    /\ at' \in [All -> {<<>>} \cup (All \X Slots)]
    /\ calls' \in [All -> Nat]
    /\ Shapes' /\ Heap'
    /\ \A q \in All : Live(q) <=> Live(q)'
    /\ \A q \in All \ D : /\ kind'[q] = kind[q] /\ attr'[q] = attr[q]
                          /\ calls'[q] = calls[q]
                          /\ q \notin C => at'[q] = at[q]
    /\ \A q \in D : kind'[q] = "none"
    /\ \A q \in C : at'[q] = <<>> /\ heap'[q].val = Value(q)
    /\ \A q \in All \ (D \cup C) : heap'[q] = h[q]

\* Freeing D and closing C keeps the heap sound.
LEMMA ReclaimStep ==
    ASSUME TypeOK, Shapes, Heap,
           NEW D \in SUBSET All, NEW C \in SUBSET All, NEW h, Reclaim(D, C, h),
           Reclaimable(D, C, h)
    PROVE  Reclaimed(D, C, h)
<1>0. Empty \in Object /\ \A s \in Slots : Empty.stack[s] = Nil
  BY DEF Empty, Object, Ref
<1> USE DEF Reclaimable
<1>1. ASSUME NEW q \in C
      PROVE  /\ kind[q] = "upval" /\ at[q] # <<>> /\ Value(q) \in Ref /\ Datum(Value(q))
             /\ q \notin D
  <2>1. kind[q] = "upval" /\ at[q] # <<>> /\ Live(q) /\ Sound(q) /\ q \in All
    BY DEF Open, Heap
  <2> QED
    BY <2>1 DEF TypeOK, Value, Object, Sound, Live
<1>2. /\ \A q \in D : /\ kind'[q] = "none" /\ attr'[q] = "strong" /\ calls'[q] = 0
                      /\ at'[q] = <<>> /\ heap'[q] = Empty
      /\ \A q \in All \ D : /\ kind'[q] = kind[q] /\ attr'[q] = attr[q] /\ calls'[q] = calls[q]
                            /\ q \notin C => at'[q] = at[q]
      /\ \A q \in C : at'[q] = <<>>
      /\ \A q \in All \ (D \cup C) : heap'[q] = h[q]
  BY DEF Reclaim, Freed
<1>3. ASSUME NEW q \in C
      PROVE  /\ heap'[q] = [heap[q] EXCEPT !.val = Value(q)]
             /\ heap'[q] \in Object /\ heap'[q].val = Value(q)
  <2>1. heap'[q] = [heap[q] EXCEPT !.val = Value(q)]
    BY <1>1 DEF Reclaim
  <2>2. heap[q] \in Object /\ Value(q) \in Ref
    BY <1>1 DEF TypeOK
  <2> QED
    BY <2>1, <2>2 DEF Object
<1>4. ASSUME NEW q \in All PROVE heap'[q] \in Object
  <2>1. heap[q] \in Object
    BY DEF TypeOK
  <2>2. CASE q \in D
    BY <1>0, <1>2, <2>2
  <2>3. CASE q \in C
    BY <1>3, <2>3
  <2>4. CASE q \notin D /\ q \notin C
    <3>1. heap'[q] = heap[q] \/ heap'[q] = Empty
      BY <1>2, <2>4
    <3> QED
      BY <1>0, <2>1, <3>1
  <2> QED
    BY <2>2, <2>3, <2>4
<1>5. /\ kind' \in [All -> Kind] /\ heap' \in [All -> Object]
      /\ attr' \in [All -> {"strong", "k", "v", "kv", "gc", "nogc"}]
      /\ at' \in [All -> {<<>>} \cup (All \X Slots)]
      /\ calls' \in [All -> Nat]
  <2>1. heap' \in [All -> Object]
    <3>1. heap' = [q \in All |-> heap'[q]]
      BY DEF Reclaim
    <3> QED
      BY <1>4, <3>1
  <2>2. kind' \in [All -> Kind]
    BY DEF Reclaim, Freed, TypeOK, Kind
  <2>3. /\ attr' \in [All -> {"strong", "k", "v", "kv", "gc", "nogc"}]
        /\ at' \in [All -> {<<>>} \cup (All \X Slots)]
        /\ calls' \in [All -> Nat]
    BY DEF Reclaim, Freed, TypeOK
  <2> QED
    BY <2>1, <2>2, <2>3
<1>6. ASSUME NEW q \in All \ D
      PROVE  mark'[q] # "free" <=> kind[q] # "none"
  <2>1. Shape(q) /\ Repainted(q, C)
    BY DEF Shapes
  <2> QED
    BY <2>1 DEF Shape, Repainted, Live, ColourOf
<1>7. ASSUME NEW q \in All PROVE Live(q) <=> Live(q)'
  <2>1. CASE q \in D
    BY <1>2, <2>1 DEF Live
  <2>2. CASE q \notin D
    <3>1. Repainted(q, C) /\ kind'[q] = kind[q] /\ (q \in C => Live(q)) /\ Shape(q)
      BY <1>2, <2>2 DEF Shapes
    <3> QED
      BY <3>1 DEF Repainted, Live, IsDead, ColourOf, Shape
  <2> QED
    BY <2>1, <2>2
<1>8. ASSUME NEW q \in All PROVE Shape(q)'
  <2>1. CASE q \in D
    BY <1>2, <2>1 DEF Shape, IsBlack
  <2>2. CASE q \notin D
    <3>1. Shape(q) /\ Repainted(q, C) /\ kind'[q] = kind[q] /\ attr'[q] = attr[q]
      BY <1>2, <2>2 DEF Shapes
    <3>2. kind[q] = "none" => heap'[q] = heap[q] /\ q \notin C
      <4>1. kind[q] = "none" => q \notin C
        BY <1>1
      <4> QED
        BY <1>2, <2>2, <4>1
    <3>3. at'[q] # <<>> => q \notin C /\ at'[q] = at[q] /\ kind[q] = "upval" /\ kind'[at[q][1]] = "thread"
      <4> SUFFICES ASSUME at'[q] # <<>>
                   PROVE  /\ q \notin C /\ at'[q] = at[q] /\ kind[q] = "upval"
                          /\ kind'[at[q][1]] = "thread"
        OBVIOUS
      <4>1. q \notin C /\ at'[q] = at[q]
        BY <1>2, <2>2
      <4>2. at[q][1] \in All /\ kind[q] = "upval" /\ kind[at[q][1]] = "thread"
        BY <3>1, <4>1 DEF TypeOK, Shape
      <4>3. at[q][1] \notin D
        BY <2>2, <4>1
      <4> QED
        BY <1>2, <4>1, <4>2, <4>3
    <3>4. mark'[q] = "black" => /\ kind[q] \in {"table", "udata", "func", "upval"}
                                /\ ~IsWeak(q) /\ at'[q] = <<>>
      <4>1. CASE q \in C
        BY <1>1, <1>2, <4>1 DEF IsWeak
      <4>2. CASE q \notin C
        BY <1>2, <2>2, <3>1, <4>2 DEF Repainted, Shape, ColourOf, IsBlack, Open, IsWeak
      <4> QED
        BY <4>1, <4>2
    <3>5. mark'[q] = "gray" => kind[q] # "udata" /\ (kind[q] = "upval" => at'[q] # <<>>)
      BY <1>2, <2>2, <3>1 DEF Repainted, Shape, ColourOf, Open
    <3>6. kind[q] = "none" => /\ heap'[q] = Empty /\ attr'[q] = "strong" /\ at'[q] = <<>>
                              /\ ~fin'[q] /\ calls'[q] = 0
      BY <1>2, <2>2, <3>1, <3>2 DEF Shape
    <3> QED
      BY <1>6, <2>2, <3>1, <3>3, <3>4, <3>5, <3>6 DEF Shape, IsBlack, IsWeak, Open
  <2> QED
    BY <2>1, <2>2
<1>9. Keeps
  BY <1>2, <1>7 DEF Keeps, Live
<1>10. ASSUME NEW q \in All, Live(q)' PROVE Sound(q)'
  <2>1. Live(q) /\ q \notin D /\ kind'[q] = kind[q] /\ Datum(Nil)'
    BY <1>2, <1>7, <1>10 DEF Live, Datum
  <2>2. CASE q \in C
    <3>1. Value(q)' = Value(q)
      BY <1>2, <1>3, <2>2 DEF Value
    <3>2. Datum(Value(q))'
      BY <1>1, <1>9, <2>2, <3>1 DEF Datum, Keeps, Ref, Live, IsDead
    <3> QED
      BY <1>1, <2>1, <2>2, <3>2 DEF Sound
  <2>3. CASE q \notin C /\ h[q] # heap[q]
    <3>1. kind[q] = "thread" /\ heap'[q] = Empty
      BY <1>2, <2>1, <2>3
    <3> QED
      BY <1>0, <2>1, <3>1 DEF Sound, Datum
  <2>4. CASE q \notin C /\ h[q] = heap[q]
    <3>1. at'[q] = at[q] /\ heap'[q] = heap[q]
      BY <1>2, <2>1, <2>4
    <3>2. StackStep(q, Nil)
      BY <3>1 DEF StackStep
    <3>3. ASSUME at[q] # <<>> PROVE at[q][1] \in All /\ StackStep(at[q][1], Nil)
      <4>1. at[q][1] \in All /\ kind[at[q][1]] = "thread"
        BY <3>3 DEF TypeOK, Shapes, Shape
      <4>2. at[q][1] \notin D /\ at[q][1] \notin C /\ h[at[q][1]] = heap[at[q][1]]
        BY <1>1, <2>1, <2>4, <3>3, <4>1
      <4> QED
        BY <1>2, <4>1, <4>2 DEF StackStep
    <3> QED
      BY <1>9, <2>1, <3>1, <3>2, <3>3, StackSound
  <2> QED
    BY <2>2, <2>3, <2>4
<1> QED
  BY <1>2, <1>3, <1>5, <1>7, <1>8, <1>10 DEF Shapes, Heap, Reclaimed

\* sweeplist: what is dead is not referred to by anything in use.
LEMMA SweepInv ==
    ASSUME Inv, NEW o \in tosweep, SweepString(o) \/ Sweep(o), "closestep" \notin Api
    PROVE  Inv'
<1> DEFINE U == OpenFrom(o, 0)
           D == (U \ Alive(U)) \cup (IF IsDead(o) THEN {o} ELSE {})
           C == IF IsDead(o) THEN Alive(U) ELSE {}
<1>0. /\ TypeOK /\ Shapes /\ Threads /\ mode # "closed"
      /\ Reclaim(D, C, heap)
      /\ fin' = Freed(fin, D, FALSE)
      /\ mark' = [q \in All |-> IF q \in D THEN "free"
                                ELSE IF q \in U \cup {o} THEN "white" ELSE mark[q]]
      /\ tosweep' = tosweep \ {o}
      /\ UNCHANGED <<gray, grayagain, weak, tmudata, running, mode>>
      /\ \/ gcstate = "sweepstring" /\ gcstate' = "sweepstring"
         \/ gcstate = "sweep" /\ gcstate' = IF tosweep = {o} THEN "finalize" ELSE "sweep"
  BY DEF Inv, SweepString, Sweep, SweepRuns, CollectorRuns, SweepObject, listVars
<1>1. /\ Heap /\ Final /\ Sweeps
      /\ o \in All /\ Swept(o) /\ kind[o] # "none" /\ ~Open(o)
  BY <1>0 DEF Inv, TypeOK, Sweeps, Swept
<1>2. ASSUME NEW q \in All
      PROVE  q \in U <=> q \in Objs /\ Open(q) /\ at[q][1] = o
  <2>1. \A s \in Slots : s >= 0
    BY LuaGCAssumption
  <2>2. Open(q) => at[q][2] \in Slots
    BY <1>0 DEF TypeOK, Open
  <2> QED
    BY <2>1, <2>2 DEF OpenFrom
<1>3. /\ U \subseteq All /\ o \notin U
      /\ \A q \in D : IsDead(q) /\ (q = o \/ q \in U)
      /\ \A q \in U : q \in D <=> IsDead(q)
      /\ o \in D <=> IsDead(o)
      /\ \A q \in C : q \in U /\ ~IsDead(q) /\ IsDead(o)
      /\ IsDead(o) => \A q \in U : q \in D \/ q \in C
      /\ D \subseteq All /\ C \subseteq All
  <2>1. U \subseteq All /\ o \notin U
    BY <1>1 DEF OpenFrom, All
  <2>2. \A q : q \in Alive(U) <=> q \in U /\ ~IsDead(q)
    BY DEF Alive
  <2> HIDE DEF U
  <2>3. \A q : q \in D <=> (q \in U /\ IsDead(q)) \/ (q = o /\ IsDead(o))
    BY <2>2
  <2>4. \A q : q \in C <=> q \in U /\ ~IsDead(q) /\ IsDead(o)
    BY <2>2
  <2> HIDE DEF D, C
  <2> QED
    BY <1>1, <2>1, <2>3, <2>4
<1>4. ASSUME NEW q \in U PROVE kind[q] = "upval" /\ Open(q) /\ at[q] # <<>> /\ at[q][1] = o
  BY <1>2, <1>3 DEF Open
<1>5. ASSUME NEW q \in All, at[q] # <<>>, at[q][1] = o PROVE q \in U
  <2>1. Open(q) /\ q # Main
    BY <1>0, <1>5 DEF Shapes, Shape, Open, Threads
  <2> QED
    BY <1>2, <1>5, <2>1 DEF All
<1>6. /\ \A q \in D : mark'[q] = "free"
      /\ \A q \in All \ D : mark'[q] = IF q \in U \/ q = o THEN "white" ELSE mark[q]
      /\ mark' \in [All -> Colour] /\ fin' \in [All -> BOOLEAN]
      /\ \A q \in All : fin'[q] <=> fin[q] /\ q \notin D
  BY <1>0, <1>3 DEF TypeOK, Colour, Freed
<1> HIDE DEF U, D, C
<1>7. ASSUME NEW q \in All \ D PROVE Repainted(q, C)
  <2>1. CASE q \in U \/ q = o
    BY <1>1, <1>3, <1>4, <1>6, <2>1 DEF Repainted, Live
  <2>2. CASE ~(q \in U \/ q = o)
    BY <1>3, <1>6, <2>2 DEF Repainted
  <2> QED
    BY <2>1, <2>2
<1>8. /\ kind' \in [All -> Kind] /\ heap' \in [All -> Object]
      /\ attr' \in [All -> {"strong", "k", "v", "kv", "gc", "nogc"}]
      /\ at' \in [All -> {<<>>} \cup (All \X Slots)]
      /\ calls' \in [All -> Nat]
      /\ Shapes' /\ Heap'
      /\ \A q \in All : Live(q) <=> Live(q)'
      /\ \A q \in All \ D : /\ kind'[q] = kind[q] /\ attr'[q] = attr[q]
                            /\ calls'[q] = calls[q]
                            /\ q \notin C => at'[q] = at[q]
      /\ \A q \in D : kind'[q] = "none"
  <2>1. \A q \in C : Open(q) /\ Live(q)
    BY <1>3, <1>4 DEF Live
  <2>2. \A q \in D : IsDead(q) /\ mark'[q] = "free"
    BY <1>3, <1>6
  <2>3. \A q \in All : q \in D \/ kind[q] = "none" => ~fin'[q]
    BY <1>0, <1>6 DEF Shapes, Shape
  <2>4. ASSUME NEW q \in All, at[q] # <<>>, at[q][1] \in D PROVE q \in D \/ q \in C
    <3>1. kind[at[q][1]] = "thread"
      BY <1>0, <2>4 DEF Shapes, Shape
    <3>2. at[q][1] = o
      BY <1>3, <1>4, <2>4, <3>1
    <3> QED
      BY <1>3, <1>5, <2>4, <3>2
  <2>5. D \in SUBSET All /\ C \in SUBSET All
    BY <1>3
  <2>6. TypeOK /\ Shapes /\ Heap /\ Reclaim(D, C, heap)
    BY <1>0, <1>1
  <2>7. Reclaimable(D, C, heap)
    BY <1>7, <2>1, <2>2, <2>3, <2>4 DEF Reclaimable
  <2>8. Reclaimed(D, C, heap)
    BY <2>5, <2>6, <2>7, ReclaimStep
  <2> QED
    BY <2>8 DEF Reclaimed
<1>9. TypeOK'
  BY <1>0, <1>6, <1>8 DEF TypeOK, GCState
<1>10. Threads'
  <2>1. Main \in All /\ running \in All /\ Main \notin D /\ running \notin D
    BY <1>0, <1>3 DEF Threads, TypeOK, All
  <2> QED
    BY <1>0, <1>6, <1>8, <2>1 DEF Threads, IsDead
<1>11. ASSUME NEW q \in All PROVE Finals(q)'
  <2>1. Finals(q)
    BY <1>1 DEF Final
  <2>2. CASE q \in D
    <3>1. ~fin'[q] /\ kind'[q] = "none" /\ q \notin tmudata
      BY <1>3, <1>6, <1>8, <2>1, <2>2 DEF Finals, Live
    <3> QED
      BY <1>0, <3>1 DEF Finals
  <2>3. CASE q \notin D
    <3>1. /\ kind'[q] = kind[q] /\ attr'[q] = attr[q] /\ calls'[q] = calls[q]
          /\ (fin'[q] <=> fin[q]) /\ (IsDead(q)' => IsDead(q)) /\ (Live(q) <=> Live(q)')
      BY <1>6, <1>8, <2>3 DEF IsDead
    <3> QED
      BY <1>0, <2>1, <3>1 DEF Finals
  <2> QED
    BY <2>2, <2>3
<1>12. ASSUME NEW q \in All PROVE Swept(q)'
  <2>1. Swept(q)
    BY <1>1 DEF Sweeps
  <2>2. ASSUME mark'[q] \in {"dead", "gray", "black"}
        PROVE  /\ q \notin D /\ q \notin U /\ q # o /\ q \notin C
               /\ mark'[q] = mark[q] /\ kind'[q] = kind[q] /\ at'[q] = at[q]
    BY <1>3, <1>6, <1>8, <2>2
  <2>3. ASSUME mark'[q] \in {"dead", "gray", "black"}, Pending(q) PROVE Pending(q)'
    <3>1. CASE q \in tosweep
      BY <1>0, <2>2, <2>3, <3>1 DEF Pending
    <3>2. CASE Open(q) /\ at[q][1] \in tosweep
      <4>1. at[q][1] # o
        BY <1>5, <2>2, <2>3, <3>2 DEF Open
      <4> QED
        BY <1>0, <2>2, <2>3, <3>2, <4>1 DEF Pending, Open
    <3> QED
      BY <2>3, <3>1, <3>2 DEF Pending
  <2>4. ASSUME q \in tosweep'
        PROVE  /\ kind'[q] # "none" /\ ~Open(q)' /\ gcstate' = gcstate
               /\ gcstate' \in {"sweepstring", "sweep"}
               /\ gcstate' = "sweep" => kind'[q] # "string"
    <3>1. q \in tosweep /\ q # o /\ ~Open(q) /\ kind[q] # "none"
      BY <1>0, <2>1, <2>4 DEF Swept
    <3>2. q \notin D /\ q \notin C
      BY <1>3, <1>4, <3>1
    <3>3. kind'[q] = kind[q] /\ ~Open(q)'
      BY <1>8, <3>1, <3>2 DEF Open
    <3>4. gcstate' = gcstate
      BY <1>0, <3>1
    <3> QED
      BY <1>0, <2>1, <3>1, <3>3, <3>4 DEF Swept
  <2>5. ASSUME IsDead(q)' PROVE Pending(q)' /\ (gcstate' = "sweep" => kind'[q] # "string")
    <3>1. mark'[q] = "dead" /\ IsDead(q) /\ kind'[q] = kind[q]
      BY <2>2, <2>5 DEF IsDead
    <3> QED
      BY <1>0, <2>1, <2>3, <3>1 DEF Swept
  <2>6. ASSUME mark'[q] \in {"gray", "black"} PROVE Pending(q)' \/ q \in tmudata'
    <3>1. mark[q] \in {"gray", "black"} /\ gcstate # "propagate"
      BY <1>0, <2>2, <2>6
    <3> QED
      BY <1>0, <2>1, <2>3, <2>6, <3>1 DEF Swept
  <2> QED
    BY <2>4, <2>5, <2>6 DEF Swept
<1> QED
  BY <1>0, <1>8, <1>9, <1>10, <1>11, <1>12 DEF Inv, Final, Sweeps, Lists, Colours

\* luaF_close, called by an instruction or by lua_close, which also gives up
\* the whole stack and moves userdata from rootgc to tmudata.
LEMMA CloseStep ==
    ASSUME Inv, mode # "closed", NEW th \in All, kind[th] = "thread", NEW s \in Nat, NEW h,
           CloseUpvals(th, s, h),
           h = heap \/ (h = [heap EXCEPT ![th] = Empty] /\ s = 0),
           UNCHANGED <<grayagain, weak, gcstate, running>>,
           \A q \in All : kind[q] # "udata" => (fin'[q] <=> fin[q]),
           tmudata \subseteq tmudata', tosweep' \subseteq tosweep,
           \A q \in tosweep \ tosweep' : q \in tmudata' /\ kind[q] = "udata" /\ ~IsDead(q)
    PROVE  /\ kind' \in [All -> Kind] /\ heap' \in [All -> Object]
           /\ attr' \in [All -> {"strong", "k", "v", "kv", "gc", "nogc"}]
           /\ at' \in [All -> {<<>>} \cup (All \X Slots)]
           /\ calls' \in [All -> Nat] /\ mark' \in [All -> Colour] /\ gray' \subseteq All
           /\ Shapes' /\ Heap' /\ Sweeps' /\ Lists'
           /\ mode' = mode => Colours'
           /\ \A q \in All : /\ Live(q) <=> Live(q)'
                             /\ IsDead(q)' => IsDead(q)
                             /\ \/ /\ kind'[q] = kind[q] /\ attr'[q] = attr[q]
                                   /\ calls'[q] = calls[q]
                                \/ kind[q] = "upval" /\ kind'[q] = "none"
<1> DEFINE U == OpenFrom(th, s)
           D == U \ Alive(U)
           C == Alive(U)
           grays == {u \in U : mark[u] = "gray"}
           S == {Value(u) : u \in grays}
           N == LinkUpval(grays)
<1>0. /\ TypeOK /\ Shapes /\ Threads /\ Heap /\ Final /\ Sweeps /\ Lists /\ Colours
      /\ Reclaim(D, C, h)
      /\ mark' = [q \in All |->
                    CASE q \in D -> "free"
                      [] q \in grays -> IF gcstate = "propagate" THEN "black" ELSE "white"
                      [] OTHER       -> Coloured(N)[q]]
      /\ gray' = gray \cup Linked(N)
  BY DEF Inv, CloseUpvals
<1>1. /\ U \subseteq All /\ grays \subseteq U
      /\ \A q \in U : kind[q] = "upval" /\ at[q] # <<>> /\ at[q][1] = th /\ Open(q)
      /\ \A q : q \in D <=> q \in U /\ IsDead(q)
      /\ \A q : q \in C <=> q \in U /\ ~IsDead(q)
      /\ \A q : q \in grays <=> q \in U /\ mark[q] = "gray"
  BY DEF OpenFrom, All, Open, Alive
<1>2. ASSUME s = 0, NEW q \in All, at[q] # <<>>, at[q][1] = th PROVE q \in U
  <2>1. \A n \in Slots : n >= 0
    BY LuaGCAssumption
  <2>2. Open(q) /\ q # Main /\ at[q][2] \in Slots
    BY <1>0, <1>2 DEF Shapes, Shape, Open, Threads, TypeOK
  <2> QED
    BY <1>2, <2>1, <2>2 DEF OpenFrom, All
<1>3. \A u \in grays : u \in All /\ Live(u) /\ Sound(u) /\ Value(u) \in Ref /\ Datum(Value(u))
  <2> SUFFICES ASSUME NEW u \in grays
               PROVE  u \in All /\ Live(u) /\ Sound(u) /\ Value(u) \in Ref /\ Datum(Value(u))
    OBVIOUS
  <2>1. u \in All /\ Live(u) /\ kind[u] = "upval" /\ at[u] # <<>>
    BY <1>1 DEF Live, IsDead
  <2>2. Sound(u)
    BY <1>0, <2>1 DEF Heap
  <2> QED
    BY <1>0, <2>1, <2>2 DEF Sound, TypeOK, Value, Object
<1>4. gcstate = "propagate" => tosweep = {} /\ \A q \in All : ~IsDead(q)
  BY <1>0, NoneDead
<1>5. /\ N \subseteq All
      /\ \A q \in N : mark[q] = "white" /\ kind[q] # "upval" /\ q # Nil
      /\ \A q \in N, r \in All : kind[q] = "udata" /\ Child(q, r) /\ IsWhite(r) => r \in N
      /\ gcstate = "propagate" => \A u \in grays :
              Value(u) = Nil \/ ~IsWhite(Value(u)) \/ Value(u) \in N
      /\ gcstate # "propagate" => N = {}
  <2>1. CASE gcstate # "propagate"
    BY <2>1 DEF LinkUpval
  <2>2. CASE gcstate = "propagate"
    <3>1. N = Marked(S)
      BY <2>2 DEF LinkUpval
    <3>2. \A q \in All : IsWhite(q) => Sound(q)
      BY <1>0, <1>4, <2>2 DEF Heap, Live, Shapes, Shape, IsWhite, IsDead
    <3>3. S \subseteq Ref /\ \A v \in S : v = Nil \/ kind[v] # "upval"
      BY <1>3 DEF Datum
    <3>4. /\ N \subseteq All
          /\ \A o \in N : IsWhite(o)
          /\ Whites(S) \subseteq N
          /\ \A o \in N, r \in All :
                  kind[o] \in {"udata", "upval"} /\ Child(o, r) /\ IsWhite(r) => r \in N
          /\ \A o \in N : kind[o] = "upval" => o \in S
      <4> HIDE DEF S, N
      <4> QED
        BY <1>0, <3>1, <3>2, <3>3, MarkedIs
    <3>5. \A q \in N : mark[q] = "white" /\ kind[q] # "upval" /\ q # Nil
      <4>1. Nil \notin All
        BY LuaGCAssumption DEF All
      <4> HIDE DEF S, N
      <4> QED
        BY <1>4, <2>2, <3>3, <3>4, <4>1 DEF IsWhite, IsDead
    <3>6. \A u \in grays : Value(u) = Nil \/ ~IsWhite(Value(u)) \/ Value(u) \in N
      <4>1. \A u \in grays : Value(u) \in S
        OBVIOUS
      <4> HIDE DEF S, N, grays
      <4> QED
        BY <3>4, <4>1 DEF Whites, Proper
    <3> HIDE DEF N, S, grays
    <3> QED
      BY <2>2, <3>4, <3>5, <3>6
  <2> QED
    BY <2>1, <2>2
<1> HIDE DEF U, D, C, grays, S, N
<1>6. /\ \A q \in D : mark'[q] = "free"
      /\ \A q \in grays : mark'[q] = IF gcstate = "propagate" THEN "black" ELSE "white"
      /\ \A q \in N : mark'[q] = ColourOf(q) /\ q \notin D /\ q \notin grays
      /\ \A q \in All : q \notin D /\ q \notin grays /\ q \notin N => mark'[q] = mark[q]
  <2>1. \A q \in N : q \notin D /\ q \notin grays
    BY <1>1, <1>5
  <2>2. \A q \in grays : q \notin D /\ q \in All
    BY <1>1 DEF IsDead
  <2>3. \A q \in All : Coloured(N)[q] = IF q \in N THEN ColourOf(q) ELSE mark[q]
    BY DEF Coloured
  <2> QED
    BY <1>0, <1>1, <1>5, <2>1, <2>2, <2>3
<1>7. mark' \in [All -> Colour]
  <2>1. \A q \in All : mark'[q] \in Colour
    BY <1>0, <1>6 DEF TypeOK, Colour, ColourOf
  <2>2. mark' = [q \in All |-> mark'[q]]
    BY <1>0
  <2> QED
    BY <2>1, <2>2
<1>8. ASSUME NEW q \in All \ D PROVE Repainted(q, C)
  <2>1. CASE q \in grays
    BY <1>1, <1>3, <1>6, <2>1 DEF Repainted, Live
  <2>2. CASE q \in N
    BY <1>5, <1>6, <2>2 DEF Repainted
  <2>3. CASE q \notin grays /\ q \notin N /\ q \in C
    <3>1. Shape(q) /\ Open(q) /\ ~IsDead(q) /\ mark[q] # "gray" /\ kind[q] = "upval"
      BY <1>0, <1>1, <2>3 DEF Shapes
    <3>2. mark[q] = "white"
      BY <1>0, <3>1 DEF Shape, IsDead, IsBlack, TypeOK, Colour
    <3> QED
      BY <1>6, <2>3, <3>1, <3>2 DEF Repainted, Live
  <2>4. CASE q \notin grays /\ q \notin N /\ q \notin C
    BY <1>6, <2>4 DEF Repainted
  <2> QED
    BY <2>1, <2>2, <2>3, <2>4
<1>9. /\ kind' \in [All -> Kind] /\ heap' \in [All -> Object]
      /\ attr' \in [All -> {"strong", "k", "v", "kv", "gc", "nogc"}]
      /\ at' \in [All -> {<<>>} \cup (All \X Slots)]
      /\ calls' \in [All -> Nat]
      /\ Shapes' /\ Heap'
      /\ \A q \in All : Live(q) <=> Live(q)'
      /\ \A q \in All \ D : /\ kind'[q] = kind[q] /\ attr'[q] = attr[q]
                            /\ calls'[q] = calls[q]
                            /\ q \notin C => at'[q] = at[q]
      /\ \A q \in D : kind'[q] = "none"
      /\ \A q \in C : at'[q] = <<>> /\ heap'[q].val = Value(q)
      /\ \A q \in All \ (D \cup C) : heap'[q] = h[q]
  <2>1. \A q \in C : Open(q) /\ Live(q)
    BY <1>1 DEF Live
  <2>2. \A q \in D : IsDead(q) /\ mark'[q] = "free"
    BY <1>1, <1>6
  <2>3. \A q \in All : q \in D \/ kind[q] = "none" => ~fin'[q]
    BY <1>0, <1>1 DEF Final, Finals
  <2>4. \A q \in All : at[q] # <<>> /\ at[q][1] \in D => q \in D \/ q \in C
    BY <1>0, <1>1 DEF Shapes, Shape
  <2>5. D \in SUBSET All /\ C \in SUBSET All
    BY <1>1
  <2>6. TypeOK /\ Shapes /\ Heap /\ Reclaim(D, C, h)
    BY <1>0
  <2>7. ASSUME NEW q \in All
        PROVE  \/ h[q] = heap[q]
               \/ /\ kind[q] = "thread" /\ h[q] = Empty
                  /\ \A r \in All : at[r] # <<>> /\ at[r][1] = q => r \in D \/ r \in C
    <3>1. CASE h = heap
      BY <3>1
    <3>2. CASE h = [heap EXCEPT ![th] = Empty] /\ s = 0
      <4>1. q # th => h[q] = heap[q]
        BY <1>0, <3>2 DEF TypeOK
      <4>2. h[th] = Empty
        BY <1>0, <3>2 DEF TypeOK
      <4>3. \A r \in All : at[r] # <<>> /\ at[r][1] = th => r \in D \/ r \in C
        BY <1>1, <1>2, <3>2
      <4> QED
        BY <4>1, <4>2, <4>3
    <3> QED
      BY <3>1, <3>2
  <2> QED
    <3>1. Reclaimable(D, C, h)
      BY <1>8, <2>1, <2>2, <2>3, <2>4, <2>7 DEF Reclaimable
    <3>2. Reclaimed(D, C, h)
      BY <2>5, <2>6, <3>1, ReclaimStep
    <3> QED
      BY <3>2 DEF Reclaimed
<1>10. ASSUME NEW q \in All
       PROVE  /\ IsDead(q)' => IsDead(q) /\ mark'[q] = mark[q] /\ q \notin U
              /\ gcstate # "propagate" /\ mark'[q] \in {"gray", "black"} =>
                    mark'[q] = mark[q] /\ q \notin U
  <2>1. CASE q \in U
    <3>1. mark'[q] \notin {"dead", "gray"} /\ (gcstate # "propagate" => mark'[q] # "black")
      <4>1. CASE q \in D \/ q \in grays
        BY <1>6, <4>1
      <4>2. CASE q \notin D /\ q \notin grays
        <5>1. q \notin N /\ mark'[q] = mark[q] /\ mark[q] # "gray" /\ ~IsDead(q) /\ ~IsBlack(q)
          BY <1>0, <1>1, <1>5, <1>6, <2>1, <4>2 DEF Shapes, Shape
        <5> QED
          BY <5>1 DEF IsDead, IsBlack
      <4> QED
        BY <4>1, <4>2
    <3> QED
      BY <3>1 DEF IsDead
  <2>2. CASE q \notin U
    <3>1. q \notin D /\ q \notin grays
      BY <1>1, <2>2
    <3>2. q \in N => gcstate = "propagate" /\ mark'[q] # "dead"
      BY <1>5, <1>6 DEF ColourOf
    <3> QED
      BY <1>6, <2>2, <3>1, <3>2 DEF IsDead
  <2> QED
    BY <2>1, <2>2
<1>11. ASSUME NEW q \in All PROVE Swept(q)'
  <2>1. Swept(q)
    BY <1>0 DEF Sweeps
  <2>2. q \notin U => kind'[q] = kind[q] /\ at'[q] = at[q]
    BY <1>1, <1>9
  <2>3. ASSUME q \notin U, Pending(q), ~IsDead(q) \/ q \notin tosweep \/ q \in tosweep'
        PROVE  Pending(q)' \/ q \in tmudata'
    <3>1. CASE q \in tosweep
      BY <2>3, <3>1 DEF Pending
    <3>2. CASE Open(q) /\ at[q][1] \in tosweep
      <4>1. kind[at[q][1]] = "thread"
        BY <1>0, <3>2 DEF Shapes, Shape, Open
      <4>2. at[q][1] \in tosweep'
        BY <3>2, <4>1
      <4> QED
        BY <2>2, <2>3, <3>2, <4>2 DEF Pending, Open
    <3> QED
      BY <2>3, <3>1, <3>2 DEF Pending
  <2>4. ASSUME IsDead(q)' PROVE Pending(q)' /\ (gcstate' = "sweep" => kind'[q] # "string")
    <3>1. IsDead(q) /\ q \notin U
      BY <1>10, <2>4
    <3>2. Pending(q) /\ (gcstate = "sweep" => kind[q] # "string")
      BY <2>1, <3>1 DEF Swept
    <3>3. q \in tosweep => q \in tosweep'
      BY <3>1
    <3>4. CASE q \in tosweep
      BY <2>2, <3>1, <3>2, <3>3, <3>4 DEF Pending
    <3>5. CASE Open(q) /\ at[q][1] \in tosweep
      <4>1. kind[at[q][1]] = "thread"
        BY <1>0, <3>5 DEF Shapes, Shape, Open
      <4>2. at[q][1] \in tosweep'
        BY <3>5, <4>1
      <4> QED
        BY <2>2, <3>1, <3>2, <3>5, <4>2 DEF Pending, Open
    <3> QED
      BY <3>2, <3>4, <3>5 DEF Pending
  <2>5. ASSUME gcstate # "propagate", mark'[q] \in {"gray", "black"}
        PROVE  Pending(q)' \/ q \in tmudata'
    <3>1. mark[q] = mark'[q] /\ q \notin U
      BY <1>10, <2>5
    <3>2. Pending(q) \/ q \in tmudata
      BY <2>1, <2>5, <3>1 DEF Swept
    <3>3. ~IsDead(q)
      BY <2>5, <3>1 DEF IsDead
    <3> QED
      BY <2>3, <3>1, <3>2, <3>3
  <2>6. ASSUME q \in tosweep' PROVE q \in tosweep /\ q \notin U
    BY <1>1, <2>1, <2>6 DEF Swept
  <2>7. q \in tosweep' => kind'[q] # "none" /\ ~Open(q)' /\ kind'[q] = kind[q]
    BY <2>1, <2>2, <2>6 DEF Swept, Open
  <2>8. q \in tosweep' => /\ gcstate \in {"sweepstring", "sweep"}
                          /\ gcstate = "sweep" => kind[q] # "string"
    BY <2>1, <2>6 DEF Swept
  <2> QED
    BY <2>4, <2>5, <2>7, <2>8 DEF Swept
<1>12. Lists'
  <2> SUFFICES ASSUME gcstate = "propagate", NEW q \in All
               PROVE  /\ q \in gray' \/ q \in grayagain \/ q \in weak <=>
                            mark'[q] = "gray" /\ kind'[q] \in {"table", "func", "thread"}
                      /\ ~(q \in gray' /\ q \in grayagain)
                      /\ ~(q \in gray' /\ q \in weak)
                      /\ ~(q \in grayagain /\ q \in weak)
    BY DEF Lists
  <2>1. /\ q \in gray \/ q \in grayagain \/ q \in weak <=>
               mark[q] = "gray" /\ kind[q] \in {"table", "func", "thread"}
        /\ ~(q \in gray /\ q \in grayagain)
        /\ ~(q \in gray /\ q \in weak)
        /\ ~(q \in grayagain /\ q \in weak)
    BY <1>0 DEF Lists
  <2>2. q \notin D /\ kind'[q] = kind[q]
    BY <1>1, <1>4, <1>9
  <2>3. CASE q \in N
    <3>1. mark[q] # "gray"
      BY <1>5, <2>3
    <3>2. q \in gray' <=> kind[q] \in {"table", "func", "thread"}
      BY <1>0, <2>1, <2>3, <3>1 DEF Linked
    <3>3. kind[q] \in {"table", "func", "thread"} => mark'[q] = "gray"
      BY <1>6, <2>3 DEF ColourOf
    <3> QED
      BY <2>1, <2>2, <3>1, <3>2, <3>3
  <2>4. CASE q \notin N
    <3>1. q \in gray' <=> q \in gray
      BY <1>0, <2>4 DEF Linked
    <3>2. kind[q] \in {"table", "func", "thread"} => mark'[q] = mark[q]
      BY <1>1, <1>6, <2>2, <2>4
    <3> QED
      BY <2>1, <2>2, <3>1, <3>2
  <2> QED
    BY <2>3, <2>4
<1>13. ASSUME gcstate = "propagate", mode \notin {"close", "closegc", "closed"},
              NEW q \in All \ tmudata', NEW r \in All, IsBlack(q)', Child(q, r)', IsWhite(r)'
       PROVE  FALSE
  <2>0. q \notin tmudata /\ r # Nil /\ q \notin D /\ r \notin D /\ kind'[q] = kind[q]
        /\ attr'[q] = attr[q]
    <3>1. r # Nil
      BY <1>13 DEF Child
    <3> QED
      BY <1>1, <1>4, <1>9, <1>13, <3>1
  <2>1. IsWhite(r) /\ r \notin N
    BY <1>6, <1>13, <2>0 DEF IsWhite, ColourOf
  <2>2. CASE q \in grays
    <3>1. q \in C /\ kind[q] = "upval" /\ q \in All
      BY <1>1, <2>2 DEF IsDead
    <3>2. r = Value(q)
      <4>1. at'[q] = <<>> /\ heap'[q].val = Value(q)
        BY <1>9, <3>1
      <4> QED
        BY <1>13, <2>0, <3>1, <4>1 DEF Child, Value
    <3> QED
      BY <1>5, <1>13, <2>0, <2>1, <2>2, <3>2
  <2>3. CASE q \notin grays
    <3>1. q \notin C
      <4> SUFFICES ASSUME q \in C PROVE FALSE
        OBVIOUS
      <4>1. q \notin N /\ mark'[q] = mark[q] /\ Open(q) /\ Shape(q)
        BY <1>0, <1>1, <1>5, <1>6, <2>0, <2>3 DEF Shapes
      <4> QED
        BY <1>13, <4>1 DEF Shape, IsBlack
    <3>2. kind[q] # "thread" /\ (kind[q] = "upval" => at[q] = <<>>)
      <4>1. CASE q \in N
        BY <1>5, <1>6, <1>13, <4>1 DEF ColourOf, IsBlack
      <4>2. CASE q \notin N
        <5>1. IsBlack(q) /\ Shape(q)
          BY <1>0, <1>6, <1>13, <2>0, <2>3, <4>2 DEF IsBlack, Shapes
        <5> QED
          BY <5>1 DEF Shape, Open
      <4> QED
        BY <4>1, <4>2
    <3>3. heap'[q] = heap[q] /\ at'[q] = at[q]
      <4>1. heap'[q] = h[q] /\ at'[q] = at[q]
        BY <1>9, <2>0, <3>1
      <4>2. h[q] = heap[q]
        BY <1>0, <3>2 DEF TypeOK
      <4> QED
        BY <4>1, <4>2
    <3>4. Child(q, r)
      BY <1>13, <2>0, <3>2, <3>3 DEF Child, Value
    <3>5. CASE q \in N
      <4>1. kind[q] = "udata"
        BY <1>5, <1>6, <1>13, <3>5 DEF ColourOf, IsBlack
      <4> QED
        BY <1>5, <2>1, <3>4, <3>5, <4>1
    <3>6. CASE q \notin N
      <4>1. IsBlack(q)
        BY <1>6, <1>13, <2>0, <2>3, <3>6 DEF IsBlack
      <4> QED
        BY <1>0, <1>13, <2>0, <2>1, <3>4, <4>1 DEF Colours
    <3> QED
      BY <3>5, <3>6
  <2> QED
    BY <2>2, <2>3
<1>14. mode' = mode => Colours'
  BY <1>13 DEF Colours
<1>15. gray' \subseteq All
  BY <1>0, <1>5 DEF TypeOK, Linked
<1>16. ASSUME NEW q \in All
       PROVE  /\ Live(q) <=> Live(q)'
              /\ IsDead(q)' => IsDead(q)
              /\ \/ /\ kind'[q] = kind[q] /\ attr'[q] = attr[q]
                    /\ calls'[q] = calls[q]
                 \/ kind[q] = "upval" /\ kind'[q] = "none"
  BY <1>1, <1>9, <1>10
<1> QED
  BY <1>7, <1>9, <1>11, <1>12, <1>14, <1>15, <1>16 DEF Sweeps

\* OP_CLOSE and OP_RETURN.
LEMMA LeaveBlockInv ==
    ASSUME Inv, NEW s \in Slots, LeaveBlock(s)
    PROVE  Inv'
<1>0. /\ TypeOK /\ Threads /\ Final /\ mode # "closed" /\ running \in All
      /\ kind[running] = "thread" /\ s \in Nat
      /\ CloseUpvals(running, s, heap)
      /\ UNCHANGED <<fin, grayagain, weak, tmudata, tosweep, gcstate, running, mode>>
  BY LuaGCAssumption DEF Inv, LeaveBlock, MutatorRuns, ctrlVars, TypeOK, Threads
<1>1. /\ tmudata \subseteq tmudata' /\ tosweep' \subseteq tosweep
      /\ \A q \in tosweep \ tosweep' : q \in tmudata' /\ kind[q] = "udata" /\ ~IsDead(q)
      /\ \A q \in All : kind[q] # "udata" => (fin'[q] <=> fin[q])
  BY <1>0
<1>2. /\ kind' \in [All -> Kind] /\ heap' \in [All -> Object]
      /\ attr' \in [All -> {"strong", "k", "v", "kv", "gc", "nogc"}]
      /\ at' \in [All -> {<<>>} \cup (All \X Slots)]
      /\ calls' \in [All -> Nat] /\ mark' \in [All -> Colour] /\ gray' \subseteq All
      /\ Shapes' /\ Heap' /\ Sweeps' /\ Lists'
      /\ mode' = mode => Colours'
      /\ \A q \in All : /\ Live(q) <=> Live(q)'
                        /\ IsDead(q)' => IsDead(q)
                        /\ \/ /\ kind'[q] = kind[q] /\ attr'[q] = attr[q]
                              /\ calls'[q] = calls[q]
                           \/ kind[q] = "upval" /\ kind'[q] = "none"
  <2> HIDE DEF Inv
  <2> QED
    BY <1>0, <1>1, CloseStep
<1>3. TypeOK'
  BY <1>0, <1>2 DEF TypeOK
<1>4. Threads'
  BY <1>0, <1>2 DEF Threads, All
<1>5. ASSUME NEW q \in All PROVE Finals(q)'
  BY <1>0, <1>2 DEF Final, Finals
<1> QED
  BY <1>0, <1>2, <1>3, <1>4, <1>5 DEF Inv, Final

\* lua_close: all userdata are separated, so that none is left without its call.
LEMMA CloseInv ==
    ASSUME Inv, Close
    PROVE  Inv'
<1>0. /\ TypeOK /\ Threads /\ Final /\ mode = "run" /\ mode' = "close" /\ running = Main
      /\ Main \in All /\ kind[Main] = "thread" /\ 0 \in Nat
      /\ CloseUpvals(Main, 0, [heap EXCEPT ![Main] = Empty])
      /\ fin' = [o \in All |-> fin[o] \/ o \in SeparatedAll]
      /\ tmudata' = tmudata \cup {o \in SeparatedAll : attr[o] = "gc"}
      /\ tosweep' = tosweep \ tmudata'
      /\ UNCHANGED <<grayagain, weak, gcstate, running>>
  BY DEF Inv, Close, Separate, Threads, All
<1>1. ASSUME NEW q \in All
      PROVE  /\ fin'[q] <=> fin[q] \/ (q # Main /\ kind[q] = "udata")
             /\ q \in tmudata' <=>
                   q \in tmudata \/ (q # Main /\ kind[q] = "udata" /\ ~fin[q] /\ attr[q] = "gc")
             /\ q \in tmudata' => kind[q] = "udata" /\ ~IsDead(q)
  <2>1. /\ fin'[q] <=> fin[q] \/ (q # Main /\ kind[q] = "udata")
        /\ q \in tmudata' <=>
              q \in tmudata \/ (q # Main /\ kind[q] = "udata" /\ ~fin[q] /\ attr[q] = "gc")
    BY <1>0, LuaGCAssumption DEF SeparatedAll, All
  <2> QED
    BY <1>0, <2>1 DEF Final, Finals, Live
<1>2. /\ tmudata \subseteq tmudata' /\ tosweep' \subseteq tosweep
      /\ \A q \in tosweep \ tosweep' : q \in tmudata' /\ kind[q] = "udata" /\ ~IsDead(q)
      /\ \A q \in All : kind[q] # "udata" => (fin'[q] <=> fin[q])
  <2>1. \A q \in tosweep \ tosweep' : q \in tmudata' /\ q \in All
    BY <1>0 DEF TypeOK
  <2> QED
    BY <1>0, <1>1, <2>1
<1>3. /\ kind' \in [All -> Kind] /\ heap' \in [All -> Object]
      /\ attr' \in [All -> {"strong", "k", "v", "kv", "gc", "nogc"}]
      /\ at' \in [All -> {<<>>} \cup (All \X Slots)]
      /\ calls' \in [All -> Nat] /\ mark' \in [All -> Colour] /\ gray' \subseteq All
      /\ Shapes' /\ Heap' /\ Sweeps' /\ Lists'
      /\ \A q \in All : /\ Live(q) <=> Live(q)'
                        /\ IsDead(q)' => IsDead(q)
                        /\ \/ /\ kind'[q] = kind[q] /\ attr'[q] = attr[q]
                              /\ calls'[q] = calls[q]
                           \/ kind[q] = "upval" /\ kind'[q] = "none"
  <2> DEFINE h == [heap EXCEPT ![Main] = Empty]
  <2>1. CloseUpvals(Main, 0, h) /\ h = [heap EXCEPT ![Main] = Empty] /\ mode # "closed"
    BY <1>0
  <2>2. UNCHANGED <<grayagain, weak, gcstate, running>> /\ Main \in All /\ kind[Main] = "thread"
        /\ 0 \in Nat
    BY <1>0
  <2> HIDE DEF Inv, h
  <2> QED
    BY <1>2, <2>1, <2>2, CloseStep
<1>4. TypeOK'
  <2>1. fin' \in [All -> BOOLEAN]
    BY <1>0 DEF TypeOK
  <2>2. tmudata' \subseteq Objs /\ tosweep' \subseteq All
    BY <1>0 DEF TypeOK, SeparatedAll
  <2> QED
    BY <1>0, <1>3, <2>1, <2>2 DEF TypeOK, Mode
<1>5. Threads'
  BY <1>0, <1>3 DEF Threads, All
<1>6. ASSUME NEW q \in All PROVE Finals(q)'
  <2>1. Finals(q) /\ (q = Main => kind[q] = "thread")
    BY <1>0 DEF Final
  <2>2. kind[q] = "udata" => kind'[q] = "udata" /\ attr'[q] = attr[q] /\ calls'[q] = calls[q]
    BY <1>3
  <2>3. kind'[q] = "udata" => kind[q] = "udata"
    BY <1>3
  <2>4. q \in tmudata' => Live(q)'
    BY <1>1, <1>3 DEF Live
  <2> QED
    BY <1>1, <1>3, <2>1, <2>2, <2>3, <2>4 DEF Finals
<1> QED
  BY <1>0, <1>3, <1>4, <1>5, <1>6 DEF Inv, Final, Colours

-----------------------------------------------------------------------------
(* The end of the marking.                                                 *)

\* The main thread is among the objects that were marked first and stay gray.
Rooted == gcstate = "propagate" => Main \in gray \/ Main \in grayagain

\* The sets that atomic computes.
Reached  == {o \in All : mark[o] \in {"gray", "black"}}
First    == MarkClosure({running} \cup UNION {Children(o) : o \in Remarked}, {})
Sep      == {o \in Whites(Objs) \ First : kind[o] = "udata" /\ ~fin[o]}
Waiting  == tmudata \cup {o \in Sep : attr[o] = "gc"}
Second   == MarkClosure(Waiting \cup UNION {Children(o) : o \in Waiting}, First)
Marks    == Reached \cup First \cup Second

\* propagateall marks what it starts from, if that is white, and all that is
\* white and can be reached from there.
LEMMA ClosureIs ==
    ASSUME NEW S, NEW Done
    PROVE  LET W == {o \in All : IsWhite(o)} \ Done
               M == MarkClosure(S, Done)
           IN  /\ M \subseteq W
               /\ S \cap W \subseteq M
               /\ \A q \in M, r \in All : Child(q, r) /\ r \in W => r \in M
<1> DEFINE W == {o \in All : IsWhite(o)} \ Done
           M == MarkClosure(S, Done)
           Closed(T) == S \cap W \subseteq T /\ \A q \in T : Children(q) \cap W \subseteq T
<1>1. \A o : o \in M <=> o \in W /\ \A T \in SUBSET W : Closed(T) => o \in T
  BY DEF MarkClosure
<1>2. S \cap W \subseteq M
  BY <1>1
<1>3. ASSUME NEW q \in M, NEW r \in All, Child(q, r), r \in W PROVE r \in M
  <2>1. q \in All /\ r \in Children(q)
    BY <1>1, <1>3, ChildrenAre
  <2>2. ASSUME NEW T \in SUBSET W, Closed(T) PROVE r \in T
    BY <1>1, <1>3, <2>1, <2>2
  <2> HIDE DEF Closed
  <2> QED
    BY <1>1, <1>3, <2>2
<1>4. M \subseteq W
  BY <1>1
<1> HIDE DEF M, W
<1> QED
  BY <1>2, <1>3, <1>4 DEF M, W

\* What is marked in the end holds the roots and all that its members refer to,
\* and so does what is marked before the finalizers are looked at, except for
\* those userdata that already wait for theirs.
LEMMA AtomicMarks ==
    ASSUME Inv, Rooted, gcstate = "propagate", gray = {},
           mode \notin {"close", "closegc", "closed"}
    PROVE  /\ First \subseteq All /\ (\A o \in First : mark[o] = "white")
           /\ Second \subseteq All /\ (\A o \in Second : mark[o] = "white")
           /\ Main \in Reached /\ running \in Reached \cup First
           /\ Waiting \subseteq Marks
           /\ \A o \in Reached \cup First, r \in All :
                 o \notin tmudata /\ Child(o, r) => r \in Reached \cup First
           /\ \A o \in Marks, r \in All : Child(o, r) => r \in Marks
<1> DEFINE W == {o \in All : IsWhite(o)}
<1>0. TypeOK /\ Shapes /\ Threads /\ Heap /\ Final /\ Sweeps /\ Lists /\ Colours
  BY DEF Inv
<1>1. \A o \in All : ~IsDead(o)
  BY <1>0, NoneDead
<1>2. /\ First \subseteq W
      /\ ({running} \cup UNION {Children(o) : o \in Remarked}) \cap W \subseteq First
      /\ \A q \in First, r \in All : Child(q, r) /\ r \in W => r \in First
  <2>1. W = W \ {}
    OBVIOUS
  <2> HIDE DEF W
  <2> QED
    BY ZenonT(40), <2>1, ClosureIs DEF First, W
<1>3. /\ Second \subseteq W \ First
      /\ (Waiting \cup UNION {Children(o) : o \in Waiting}) \cap (W \ First) \subseteq Second
      /\ \A q \in Second, r \in All : Child(q, r) /\ r \in W \ First => r \in Second
  <2> HIDE DEF W, First, Waiting
  <2> QED
    BY ClosureIs DEF Second, W
<1>4. \A o \in W : o \in All /\ mark[o] = "white"
  BY <1>1 DEF IsWhite, IsDead
<1>5. ASSUME NEW o \in All, Live(o) PROVE o \in W \/ o \in Reached
  BY <1>0, <1>5 DEF Live, IsWhite, IsDead, Reached, TypeOK, Colour, Shapes, Shape
<1>6. ASSUME NEW o \in Reached \cup First \cup Second, NEW r \in All, Child(o, r)
      PROVE  r \in W \/ r \in Reached
  <2>1. o \in All /\ Live(o)
    BY <1>0, <1>1, <1>2, <1>3, <1>4 DEF Reached, Live, Shapes, Shape
  <2>2. Sound(o)
    BY <1>0, <2>1 DEF Heap
  <2> QED
    BY <1>0, <1>5, <1>6, <2>1, <2>2, SoundChild
<1>7. ASSUME NEW o \in Reached, NEW r \in All, Child(o, r), o \notin tmudata
      PROVE  r \in Reached \cup First
  <2>1. r \in W \/ r \in Reached
    BY <1>6, <1>7
  <2>2. CASE IsBlack(o)
    BY <1>0, <1>7, <2>1, <2>2 DEF Colours, Reached
  <2>3. CASE mark[o] = "gray" /\ r \in W
    <3>1. o \in All /\ Shape(o)
      BY <1>0 DEF Reached, Shapes
    <3>2. CASE kind[o] = "upval"
      <4>1. o \in Remarked
        BY <1>0, <2>3, <3>1, <3>2 DEF Remarked, Shape, Threads, All
      <4>2. r \in Children(o)
        BY <1>7, <3>1, ChildrenAre
      <4> QED
        BY <1>2, <2>3, <4>1, <4>2
    <3>3. CASE kind[o] \in {"table", "func", "thread"}
      <4>1. o \in Remarked
        BY <1>0, <2>3, <3>1, <3>3 DEF Remarked, Lists
      <4>2. r \in Children(o)
        BY <1>7, <3>1, ChildrenAre
      <4> QED
        BY <1>2, <2>3, <4>1, <4>2
    <3>4. CASE kind[o] \notin {"upval", "table", "func", "thread"}
      BY <1>7, <2>3, <3>1, <3>4 DEF Shape, Child
    <3> QED
      BY <3>2, <3>3, <3>4
  <2> QED
    BY <2>1, <2>2, <2>3 DEF Reached, IsBlack
<1>8. ASSUME NEW o \in Reached \cup First, NEW r \in All, o \notin tmudata, Child(o, r)
      PROVE  r \in Reached \cup First
  BY <1>2, <1>6, <1>7, <1>8
<1>9. Waiting \subseteq Marks
  <2> SUFFICES ASSUME NEW o \in Waiting PROVE o \in Marks
    OBVIOUS
  <2>1. o \in All /\ Live(o)
    <3>1. CASE o \in tmudata
      BY <1>0, <3>1 DEF TypeOK, Final, Finals, All
    <3>2. CASE o \in Sep
      BY <1>1, <3>2 DEF Sep, Whites, Proper, Live, All
    <3> QED
      BY <3>1, <3>2 DEF Waiting
  <2> QED
    BY <1>3, <1>5, <2>1 DEF Marks
<1>10. ASSUME NEW o \in Marks, NEW r \in All, Child(o, r) PROVE r \in Marks
  <2>1. r \in W \/ r \in Reached
    BY <1>6, <1>10 DEF Marks
  <2>2. CASE o \in Second
    BY <1>3, <1>10, <2>1, <2>2 DEF Marks
  <2>3. CASE o \in tmudata
    <3>1. o \in All /\ o \in Waiting
      BY <1>0, <2>3 DEF TypeOK, All, Waiting
    <3>2. r \in Children(o)
      BY <1>10, <3>1, ChildrenAre
    <3> QED
      BY <1>3, <2>1, <3>1, <3>2 DEF Marks
  <2>4. CASE o \notin Second /\ o \notin tmudata
    BY <1>8, <1>10, <2>4 DEF Marks
  <2> QED
    BY <2>2, <2>3, <2>4
<1>11. Main \in Reached
  BY <1>0 DEF Rooted, Lists, Reached, All
<1>12. running \in Reached \cup First
  BY <1>0, <1>2, <1>5 DEF Threads, Live, TypeOK
<1> HIDE DEF W
<1> QED
  BY <1>2, <1>3, <1>4, <1>8, <1>9, <1>10, <1>11, <1>12

\* atomic: what is in use afterwards is what was marked, and the strings of weak
\* tables; an entry of such a table stays only if both of its parts do.
LEMMA AtomicInv ==
    ASSUME Inv, Rooted, Atomic, "closestep" \notin Api
    PROVE  Inv'
<1> DEFINE weaks   == {o \in Marks : IsWeak(o)}
           final   == {o \in Objs : fin[o]} \cup Sep
           clear   == Cleared(weaks, Marks, final)
           strings == KeptStrings(weaks, Marks, final)
           again   == First \cup Second \cup Remarked \cup Waiting
<1>0. /\ TypeOK /\ Shapes /\ Threads /\ Lists
      /\ gcstate = "propagate" /\ gray = {} /\ mode \in {"run", "mark", "gctm"}
      /\ fin' = [o \in All |-> fin[o] \/ o \in Sep]
      /\ tmudata' = Waiting
      /\ heap' = [o \in All |-> IF o \in clear THEN Empty ELSE heap[o]]
      /\ mark' = [o \in All |-> CASE o \in again   -> Traversed(o)
                                  [] o \in strings -> "gray"
                                  [] OTHER         -> Flipped(mark[o])]
      /\ gray' = {}
      /\ grayagain' = {o \in Marks : kind[o] = "thread"}
      /\ weak' = weaks
      /\ tosweep' = {o \in All : kind[o] # "none" /\ ~Open(o)} \ Waiting
      /\ gcstate' = "sweepstring"
      /\ UNCHANGED <<kind, attr, at, calls, running, mode>>
  BY DEF Inv, Atomic, CollectorRuns, Separate, First, Sep, Waiting, Second, Marks, Reached
<1>1. Heap /\ Final /\ Sweeps /\ \A o \in All : ~IsDead(o)
  BY <1>0, NoneDead DEF Inv
<1>2. /\ First \subseteq All /\ (\A o \in First : mark[o] = "white")
      /\ Second \subseteq All /\ (\A o \in Second : mark[o] = "white")
      /\ Main \in Reached /\ running \in Reached \cup First
      /\ Waiting \subseteq Marks
      /\ \A o \in Marks, r \in All : Child(o, r) => r \in Marks
  BY <1>0, AtomicMarks
<1>3. Marks \subseteq All /\ \A o \in Marks : Live(o) /\ Sound(o)
  <2>1. Marks \subseteq All /\ \A o \in Marks : kind[o] # "none"
    BY <1>0, <1>2 DEF Marks, Reached, Shapes, Shape
  <2> QED
    BY <1>1, <2>1 DEF Heap, Live
<1>4. /\ \A o \in Waiting : o \in Objs /\ kind[o] = "udata" /\ attr[o] = "gc"
      /\ \A o \in Sep : o \in Objs /\ kind[o] = "udata" /\ ~fin[o] /\ mark[o] = "white"
  <2>1. \A o \in Sep : o \in Objs /\ kind[o] = "udata" /\ ~fin[o] /\ mark[o] = "white"
    BY <1>1 DEF Sep, Whites, Proper, IsWhite, IsDead, All
  <2> QED
    BY <1>0, <1>1, <2>1 DEF Waiting, Final, Finals, TypeOK, All
<1>5. Remarked \subseteq Marks
  <2>1. \A o \in Remarked : o \in All /\ mark[o] = "gray"
    BY <1>0 DEF Remarked, Lists, TypeOK, All
  <2> QED
    BY <2>1 DEF Marks, Reached
<1>6. again \subseteq Marks
  BY <1>2, <1>5 DEF Marks
<1>7. /\ clear \subseteq weaks
      /\ \A o \in strings : o \in Objs /\ kind[o] = "string"
      /\ \A t \in weaks : t \notin clear /\ heap[t].val # Nil =>
            /\ heap[t].key = Nil \/ heap[t].key \in Marks \/ kind[heap[t].key] = "string"
            /\ heap[t].val \in Marks \/ kind[heap[t].val] = "string"
            /\ \A o \in Objs : kind[o] = "string" /\ (o = heap[t].key \/ o = heap[t].val)
                  => o \in strings
  BY DEF Cleared, KeptStrings, IsCleared
<1> HIDE DEF weaks, final, clear, strings, again
<1>8. ASSUME NEW o \in All
      PROVE  /\ o \in again => mark'[o] = Traversed(o)
             /\ o \notin again /\ o \in strings => mark'[o] = "gray"
             /\ o \notin again /\ o \notin strings => mark'[o] = Flipped(mark[o])
  <2>1. mark' = [q \in All |-> CASE q \in again   -> Traversed(q)
                                [] q \in strings -> "gray"
                                [] OTHER         -> Flipped(mark[q])]
    BY <1>0
  <2>2. mark'[o] = CASE o \in again   -> Traversed(o)
                     [] o \in strings -> "gray"
                     [] OTHER         -> Flipped(mark[o])
    BY <2>1
  <2>3. o \in strings => Traversed(o) = "gray"
    BY <1>7 DEF Traversed
  <2>4. CASE o \in strings
    BY <2>2, <2>3, <2>4
  <2>5. CASE o \notin strings
    BY <2>2, <2>5
  <2> QED
    BY <2>3, <2>4, <2>5
<1>9. ASSUME NEW o \in All
      PROVE  /\ o \in Marks \/ o \in strings => mark'[o] \in {"gray", "black"}
             /\ o \notin Marks /\ o \notin strings =>
                   \/ mark[o] = "free" /\ mark'[o] = "free"
                   \/ mark[o] = "white" /\ mark'[o] = "dead"
             /\ mark'[o] = "black" => o \in again \/ mark[o] = "black"
             /\ mark'[o] = "gray" => o \in again \/ o \in strings \/ mark[o] = "gray"
  <2>1. CASE o \in again
    BY <1>6, <1>8, <2>1 DEF Traversed
  <2>2. CASE o \notin again /\ o \in strings
    BY <1>8, <2>2
  <2>3. CASE o \notin again /\ o \notin strings
    <3>1. mark'[o] = Flipped(mark[o])
      BY <1>8, <2>3
    <3>2. CASE o \in Marks
      <4>1. mark[o] \in {"gray", "black"}
        BY <2>3, <3>2 DEF again, Marks, Reached
      <4> QED
        BY <3>1, <3>2, <4>1 DEF Flipped
    <3>3. CASE o \notin Marks
      <4>1. mark[o] \in {"free", "white"}
        BY <1>0, <1>1, <3>3 DEF Marks, Reached, TypeOK, Colour, IsDead
      <4> QED
        BY <2>3, <3>1, <3>3, <4>1 DEF Flipped
    <3> QED
      BY <3>2, <3>3
  <2> QED
    BY <2>1, <2>2, <2>3
<1>10. ASSUME NEW o \in All
       PROVE  (Live(o)' <=> o \in Marks \/ o \in strings)
  <2>1. kind'[o] = kind[o] /\ Shape(o)
    BY <1>0 DEF Shapes
  <2>2. o \in Marks \/ o \in strings => kind[o] # "none"
    BY <1>3, <1>7 DEF Live
  <2> QED
    BY <1>9, <2>1, <2>2 DEF Live, IsDead, Shape
<1>11. TypeOK'
  <2>1. mark' \in [All -> Colour]
    <3>1. \A o \in All : mark'[o] \in Colour
      BY <1>9 DEF Colour
    <3>2. mark' = [o \in All |-> mark'[o]]
      BY <1>0
    <3> QED
      BY <3>1, <3>2
  <2>2. heap' \in [All -> Object]
    <3>1. Empty \in Object
      BY DEF Empty, Object, Ref
    <3> QED
      BY <1>0, <3>1 DEF TypeOK
  <2>3. fin' \in [All -> BOOLEAN]
    BY <1>0 DEF TypeOK
  <2>4. tmudata' \subseteq Objs /\ tosweep' \subseteq All
    BY <1>0, <1>4
  <2>5. gray' \subseteq All /\ grayagain' \subseteq All /\ weak' \subseteq All
    BY <1>0, <1>3 DEF weaks
  <2> QED
    BY <1>0, <2>1, <2>2, <2>3, <2>4, <2>5 DEF TypeOK, GCState
<1>12. ASSUME NEW o \in All
       PROVE  heap'[o] = heap[o] \/ (o \in clear /\ heap'[o] = Empty /\ IsWeak(o) /\ o \in Marks)
  <2>1. heap'[o] = IF o \in clear THEN Empty ELSE heap[o]
    BY <1>0
  <2>2. o \in clear => IsWeak(o) /\ o \in Marks
    BY <1>7 DEF weaks
  <2> QED
    BY <2>1, <2>2
<1>13. ASSUME NEW o \in All PROVE Shape(o)'
  <2>1. Shape(o) /\ kind'[o] = kind[o] /\ at'[o] = at[o] /\ attr'[o] = attr[o]
        /\ calls'[o] = calls[o]
    BY <1>0 DEF Shapes
  <2>2. kind[o] = "none" => heap'[o] = heap[o] /\ ~fin'[o]
    BY <1>0, <1>4, <1>12, <2>1 DEF IsWeak, Shape
  <2>3. mark'[o] = "free" <=> mark[o] = "free"
    BY <1>3, <1>7, <1>9, <2>1 DEF Live, Shape
  <2>4. mark'[o] = "black" => /\ kind[o] \in {"table", "udata", "func", "upval"}
                              /\ ~IsWeak(o) /\ ~Open(o)
    <3>1. CASE o \in again
      <4>1. kind[o] # "none"
        BY <1>3, <1>6, <3>1 DEF Live
      <4> QED
        BY <1>0, <1>8, <3>1, <4>1 DEF Traversed, TypeOK, Kind
    <3>2. CASE mark[o] = "black"
      BY <2>1, <3>2 DEF Shape, IsBlack
    <3> QED
      BY <1>9, <3>1, <3>2
  <2>5. mark'[o] = "gray" => kind[o] # "udata" /\ (kind[o] = "upval" => Open(o))
    <3>1. CASE o \in again
      BY <1>8, <3>1 DEF Traversed, IsWeak, Open
    <3>2. CASE o \in strings
      BY <1>7, <3>2
    <3>3. CASE mark[o] = "gray"
      BY <2>1, <3>3 DEF Shape
    <3> QED
      BY <1>9, <3>1, <3>2, <3>3
  <2>6. at[o] # <<>> => kind'[at[o][1]] = "thread"
    BY <1>0, <2>1 DEF Shape
  <2> QED
    BY <2>1, <2>2, <2>3, <2>4, <2>5, <2>6 DEF Shape, IsBlack, IsWeak, Open
<1>14. Threads'
  <2>1. Live(Main)' /\ Live(running)'
    BY <1>0, <1>2, <1>10 DEF Marks, TypeOK, All
  <2> QED
    BY <1>0, <2>1 DEF Threads, Live, All, IsDead
<1>15. ASSUME NEW v \in Ref, v = Nil \/ v \in Marks \/ v \in strings
       PROVE  (Datum(v) => Datum(v)') /\ (Table(v) => Table(v)')
  <2>1. v # Nil => v \in All /\ Live(v)' /\ kind'[v] = kind[v]
    BY <1>0, <1>10, <1>15 DEF Ref
  <2> QED
    BY <2>1 DEF Datum, Table
<1>16. ASSUME NEW o \in All, Live(o)' PROVE Sound(o)'
  <2>1. kind'[o] = kind[o] /\ at'[o] = at[o] /\ heap[o] \in Object
    BY <1>0 DEF TypeOK
  <2>2. CASE o \in strings
    BY <1>7, <2>1, <2>2 DEF Sound
  <2>3. CASE o \in Marks /\ kind[o] = "table"
    <3>1. heap[o].key \in Ref /\ heap[o].val \in Ref /\ Sound(o)
      BY <1>3, <2>1, <2>3 DEF Object
    <3>2. CASE heap'[o] # heap[o]
      BY <1>12, <2>1, <2>3, <3>2 DEF Sound, Empty
    <3>3. CASE heap'[o] = heap[o] /\ heap[o].val # Nil /\ ~IsWeak(o)
      <4>1. Datum(heap[o].key) /\ Datum(heap[o].val)
        BY <2>3, <3>1, <3>3 DEF Sound
      <4>2. (heap[o].key = Nil \/ Child(o, heap[o].key)) /\ Child(o, heap[o].val)
        BY <2>3, <3>3 DEF Child, IsWeak
      <4>3. /\ heap[o].key = Nil \/ heap[o].key \in Marks
            /\ heap[o].val \in Marks
        BY <1>2, <2>3, <3>1, <3>3, <4>2 DEF Ref
      <4>4. Datum(heap[o].key)' /\ Datum(heap[o].val)'
        BY <1>15, <3>1, <3>3, <4>1, <4>3 DEF Datum, Live, IsDead
      <4> QED
        BY <2>1, <2>3, <4>4 DEF Sound
    <3>4. CASE heap'[o] = heap[o] /\ heap[o].val # Nil /\ IsWeak(o)
      <4>1. Datum(heap[o].key) /\ Datum(heap[o].val)
        BY <2>3, <3>1, <3>4 DEF Sound
      <4>2. o \in weaks /\ o \notin clear
        <5>1. Empty.val = Nil
          BY DEF Empty
        <5>2. o \in clear => heap'[o] = Empty
          BY <1>0
        <5> QED
          BY <2>3, <3>4, <5>1, <5>2 DEF weaks
      <4>3. \A q \in All : kind[q] = "string" => q \in Objs
        BY <1>0 DEF Threads, All
      <4>4. /\ heap[o].key = Nil \/ heap[o].key \in Marks \/ heap[o].key \in strings
            /\ heap[o].val \in Marks \/ heap[o].val \in strings
        BY <1>7, <3>1, <3>4, <4>2, <4>3 DEF Ref
      <4>5. Datum(heap[o].key)' /\ Datum(heap[o].val)'
        BY <1>15, <3>1, <3>4, <4>1, <4>4 DEF Datum, Live, IsDead
      <4> QED
        BY <2>1, <2>3, <4>5 DEF Sound
    <3>5. CASE heap'[o] = heap[o] /\ heap[o].val = Nil
      BY <2>1, <2>3, <3>5 DEF Sound
    <3> QED
      BY <3>2, <3>3, <3>4, <3>5
  <2>4. CASE o \in Marks /\ kind[o] # "table"
    <3>1. heap'[o] = heap[o] /\ Sound(o)
      BY <1>3, <1>12, <2>4 DEF IsWeak
    <3>2. ASSUME NEW v \in Ref, v # Nil, Child(o, v) PROVE v \in Marks
      BY <1>2, <2>4, <3>2 DEF Ref
    <3>3. CASE kind[o] = "udata"
      <4>1. heap[o].env \in Ref /\ Table(heap[o].env) /\ (heap[o].env # Nil => heap[o].env \in Marks)
        BY <2>1, <3>1, <3>2, <3>3 DEF Object, Sound, Child
      <4>2. Table(heap[o].env)'
        BY <1>15, <3>1, <4>1 DEF Table, Live, IsDead
      <4> QED
        BY <2>1, <3>3, <4>2 DEF Sound
    <3>4. CASE kind[o] = "func"
      <4>1. heap[o].env \in Ref /\ Table(heap[o].env) /\ (heap[o].env # Nil => heap[o].env \in Marks)
        BY <2>1, <3>1, <3>2, <3>4 DEF Object, Sound, Child
      <4>2. Table(heap[o].env)'
        BY <1>15, <3>1, <4>1 DEF Table, Live, IsDead
      <4>3. heap[o].up \in Ref /\ heap[o].up # Nil /\ kind[heap[o].up] = "upval"
        BY <2>1, <3>1, <3>4 DEF Object, Sound
      <4>4. heap[o].up \in Marks
        BY <3>2, <3>4, <4>3 DEF Child
      <4>5. Live(heap[o].up)' /\ kind'[heap[o].up] = "upval"
        BY <1>0, <1>3, <1>10, <3>1, <4>3, <4>4 DEF Live, IsDead
      <4> QED
        BY <2>1, <3>1, <3>4, <4>2, <4>3, <4>5 DEF Sound
    <3>5. CASE kind[o] = "upval"
      <4>1. Value(o) \in Ref /\ Datum(Value(o))
        BY <1>0, <3>1, <3>5 DEF Sound, TypeOK, Value, Object
      <4>2. Value(o) # Nil => Value(o) \in Marks
        BY <3>2, <3>5, <4>1 DEF Child
      <4>3. Value(o)' = Value(o)
        <5>1. CASE at[o] = <<>>
          BY <2>1, <3>1, <5>1 DEF Value
        <5>2. CASE at[o] # <<>>
          <6>1. at[o][1] \in All /\ kind[at[o][1]] = "thread"
            BY <1>0, <5>2 DEF TypeOK, Shapes, Shape
          <6>2. heap'[at[o][1]] = heap[at[o][1]]
            BY <1>12, <6>1 DEF IsWeak
          <6> QED
            BY <2>1, <5>2, <6>2 DEF Value
        <5> QED
          BY <5>1, <5>2
      <4>4. Datum(Value(o))'
        BY <1>15, <4>1, <4>2, <4>3 DEF Datum, Live, IsDead
      <4> QED
        BY <2>1, <3>5, <4>4 DEF Sound
    <3>6. CASE kind[o] = "thread"
      <4>1. ASSUME NEW s \in Slots PROVE Datum(heap[o].stack[s])'
        <5>1. heap[o].stack[s] \in Ref /\ Datum(heap[o].stack[s])
          BY <2>1, <3>1, <3>6 DEF Object, Sound
        <5>2. heap[o].stack[s] # Nil => heap[o].stack[s] \in Marks
          BY <3>2, <3>6, <5>1 DEF Child
        <5> QED
          BY <1>15, <3>1, <5>1, <5>2 DEF Datum, Live, IsDead
      <4> QED
        BY <2>1, <3>6, <4>1 DEF Sound
    <3>7. CASE kind[o] \in {"none", "string"}
      BY <2>1, <3>7 DEF Sound
    <3> QED
      BY <1>0, <2>4, <3>3, <3>4, <3>5, <3>6, <3>7 DEF TypeOK, Kind
  <2> QED
    BY <1>10, <1>16, <2>2, <2>3, <2>4
<1>17. ASSUME NEW o \in All PROVE Finals(o)'
  <2>1. Finals(o) /\ (o = Main => kind[o] = "thread")
    BY <1>0, <1>1 DEF Final, Threads
  <2>2. (fin'[o] <=> fin[o] \/ o \in Sep) /\ kind'[o] = kind[o] /\ attr'[o] = attr[o]
        /\ calls'[o] = calls[o] /\ tmudata' = Waiting
    BY <1>0
  <2>3. ASSUME kind[o] = "udata", IsDead(o)' PROVE fin'[o]
    <3>1. o \notin Marks /\ mark[o] = "white"
      BY <1>9, <2>3 DEF IsDead
    <3>2. o \in Objs /\ o # Nil
      BY <2>1, <2>3, LuaGCAssumption DEF All
    <3>3. o \notin First
      BY <3>1 DEF Marks
    <3> QED
      BY <2>2, <2>3, <3>1, <3>2, <3>3 DEF Sep, Whites, Proper, IsWhite
  <2>4. o \in Waiting => kind[o] = "udata" /\ attr[o] = "gc" /\ fin'[o] /\ Live(o)'
    <3>1. o \in Waiting => Live(o)'
      BY <1>2, <1>10
    <3> QED
      BY <1>4, <2>1, <2>2, <3>1 DEF Waiting, Finals
  <2>5. o \in Sep => kind[o] = "udata" /\ ~fin[o]
    BY <1>4
  <2>6. ASSUME kind[o] = "udata", attr[o] = "gc"
        PROVE  calls[o] = IF fin'[o] /\ o \notin Waiting THEN 1 ELSE 0
    <3>1. o \in Sep => o \in Waiting
      BY <2>6 DEF Waiting
    <3>2. o \in Waiting <=> o \in tmudata \/ o \in Sep
      BY <2>6 DEF Waiting
    <3> QED
      BY <2>1, <2>2, <2>5, <2>6, <3>1, <3>2 DEF Finals
  <2> QED
    BY <2>1, <2>2, <2>3, <2>4, <2>5, <2>6 DEF Finals
<1>18. ASSUME NEW o \in All PROVE Swept(o)'
  <2>1. Shape(o) /\ (Open(o)' <=> Open(o)) /\ kind'[o] = kind[o] /\ at'[o] = at[o]
    BY <1>0 DEF Shapes, Open
  <2>2. o \in tosweep' <=> kind[o] # "none" /\ ~Open(o) /\ o \notin Waiting
    BY <1>0
  <2>3. Open(o) => at[o][1] \in tosweep'
    <3> SUFFICES ASSUME Open(o) PROVE at[o][1] \in tosweep'
      OBVIOUS
    <3>1. at[o][1] \in All /\ kind[at[o][1]] = "thread"
      BY <1>0, <2>1 DEF TypeOK, Shape, Open
    <3>2. at[o][1] \notin Waiting /\ ~Open(at[o][1])
      BY <1>4, <3>1 DEF Open
    <3> QED
      BY <1>0, <3>1, <3>2
  <2>4. kind[o] # "none" => Pending(o)' \/ o \in tmudata'
    BY <1>0, <2>1, <2>2, <2>3 DEF Pending
  <2>5. IsDead(o)' => kind[o] # "none" /\ o \notin tmudata'
    BY <1>0, <1>2, <1>9, <2>1 DEF IsDead, Shape
  <2>6. mark'[o] \in {"gray", "black"} => kind[o] # "none"
    BY <1>3, <1>7, <1>9 DEF Live
  <2> QED
    BY <1>0, <2>1, <2>2, <2>4, <2>5, <2>6 DEF Swept
<1> QED
  BY <1>0, <1>11, <1>13, <1>14, <1>16, <1>17, <1>18 DEF Inv, Shapes, Heap, Final, Sweeps,
     Lists, Colours

-----------------------------------------------------------------------------
(* The invariant.                                                          *)

\* lua_newstate.
LEMMA InitInv == Init => Inv /\ Rooted
<1> SUFFICES ASSUME Init PROVE Inv /\ Rooted
  OBVIOUS
<1>0. /\ Main \in All
      /\ \A o \in All : /\ kind[o] = (IF o = Main THEN "thread" ELSE "none")
                        /\ mark[o] = (IF o = Main THEN "white" ELSE "free")
                        /\ heap[o] = Empty /\ attr[o] = "strong" /\ ~fin[o]
                        /\ at[o] = <<>> /\ calls[o] = 0
      /\ gray = {} /\ grayagain = {} /\ weak = {} /\ tmudata = {} /\ tosweep = {}
      /\ gcstate = "pause" /\ running = Main /\ mode = "run"
  BY DEF Init, All
<1>1. Empty \in Object /\ \A s \in Slots : Empty.stack[s] = Nil
  BY DEF Empty, Object, Ref
<1>2. TypeOK
  BY <1>0, <1>1 DEF Init, TypeOK, Kind, Colour, GCState, Mode
<1>3. ASSUME NEW o \in All PROVE Shape(o) /\ Finals(o) /\ Swept(o)
  BY <1>0 DEF Shape, Finals, Swept, IsBlack, IsDead
<1>4. ASSUME NEW o \in All, Live(o) PROVE Sound(o)
  BY <1>0, <1>1, <1>4 DEF Sound, Live, Datum
<1>5. Threads
  BY <1>0 DEF Threads, IsDead
<1> QED
  BY <1>0, <1>2, <1>3, <1>4, <1>5 DEF Inv, Rooted, Shapes, Heap, Final, Sweeps, Lists,
     Colours

\* Most steps neither free nor finalize a userdata, nor take anything off the
\* lists of gray objects.
Quiet ==
    /\ \A o \in Objs : kind[o] = "udata" => kind'[o] = "udata" /\ calls'[o] = calls[o]
    /\ tmudata' = tmudata
    /\ mode' = "close" => mode # "run"
    /\ gcstate' = "propagate" => /\ gcstate = "propagate"
                                 /\ gray \subseteq gray' /\ grayagain \subseteq grayagain'

\* The steps of the program that reads, writes and creates objects.
LEMMA ProgramQuiet ==
    ASSUME Inv,
           \/ \E o \in Objs, s \in Slots, k \in Kinds \cap {"table", "udata", "thread"} :
                 NewObject(o, k, s)
           \/ \E o \in Objs, s \in Slots : NewString(o, s)
           \/ \E o, u \in Objs, s, b \in Slots : NewClosure(o, u, s, b)
           \/ \E o \in Objs, f \in Held, s \in Slots : NewInnerClosure(o, f, s)
           \/ \E s \in Slots, v \in {Nil} \cup UNION {Readable(o) : o \in Held} : Load(s, v)
           \/ \E t \in Held, k, v \in Held \cup {Nil} : SetTable(t, k, v)
           \/ \E o, v \in Held : SetEnv(o, v)
           \/ \E f \in Held, v \in Held \cup {Nil} : SetUpval(f, v)
           \/ \E t \in Held, v \in Held \cup {Nil} : Resume(t, v)
           \/ \E v \in Held \cup {Nil} : Yield(v)
    PROVE  Quiet
<1>0. TypeOK
  BY DEF Inv
<1>1. UNCHANGED <<calls, tmudata, gcstate, mode>> /\ gray \subseteq gray' /\ grayagain \subseteq grayagain'
  BY DEF NewObject, NewString, NewClosure, NewInnerClosure, Load, SetTable, SetEnv,
     SetUpval, Resume, Yield, Switch, Barrier, BarrierBack, listVars, ctrlVars
<1>2. ASSUME NEW q \in Objs, kind[q] = "udata" PROVE kind'[q] = "udata"
  <2>1. ASSUME NEW o \in Objs, NEW s \in Slots, NEW k, NewObject(o, k, s)
        PROVE  kind'[q] = "udata"
    BY <1>0, <1>2, <2>1 DEF NewObject, TypeOK, All
  <2>2. ASSUME NEW o \in Objs, NEW s \in Slots, NewString(o, s)
        PROVE  kind'[q] = "udata"
    BY <1>0, <1>2, <2>2 DEF NewString, TypeOK, All
  <2>3. ASSUME NEW o \in Objs, NEW u \in Objs, NEW s \in Slots, NEW b \in Slots, NewClosure(o, u, s, b)
        PROVE  kind'[q] = "udata"
    BY <1>0, <1>2, <2>3 DEF NewClosure, TypeOK, All, OpenAt, Open
  <2>4. ASSUME NEW o \in Objs, NEW f \in Held, NEW s \in Slots, NewInnerClosure(o, f, s)
        PROVE  kind'[q] = "udata"
    BY <1>0, <1>2, <2>4 DEF NewInnerClosure, TypeOK, All
  <2>5. CASE UNCHANGED kind
    BY <1>2, <2>5
  <2> QED
    BY <2>1, <2>2, <2>3, <2>4, <2>5 DEF Load, SetTable, SetEnv, SetUpval, Resume, Yield,
       Switch
<1> QED
  BY <1>1, <1>2 DEF Quiet

\* The steps of the control, and OP_CLOSE.
LEMMA ControlQuiet ==
    ASSUME Inv,
           \/ FullGC \/ FinalizerReturns \/ FinalizerFails
           \/ SweepStringEnds \/ EndCycle \/ FullGCEnds
           \/ \E s \in Slots : LeaveBlock(s)
    PROVE  Quiet
<1>1. CASE \E s \in Slots : LeaveBlock(s)
  <2>1. PICK s \in Slots : LeaveBlock(s)
    BY <1>1
  <2> DEFINE U == OpenFrom(running, s)
             D == U \ Alive(U)
  <2>2. /\ kind' = Freed(kind, D, "none") /\ calls' = Freed(calls, D, 0)
        /\ gray \subseteq gray'
        /\ UNCHANGED <<grayagain, tmudata, gcstate, mode>>
    BY <2>1 DEF LeaveBlock, CloseUpvals, Reclaim, ctrlVars
  <2>3. \A q \in D : kind[q] = "upval"
    BY DEF OpenFrom, Open
  <2> HIDE DEF D
  <2> QED
    BY <2>2, <2>3 DEF Quiet, Freed, All
<1>2. CASE FullGC
  BY <1>2 DEF FullGC, Quiet, objVars, listVars
<1>3. CASE FinalizerReturns \/ FinalizerFails \/ FullGCEnds
  BY <1>3 DEF FinalizerReturns, FinalizerFails, FullGCEnds, Quiet, objVars, listVars
<1>4. CASE SweepStringEnds \/ EndCycle
  BY <1>4 DEF SweepStringEnds, EndCycle, Quiet, objVars, listVars
<1> QED
  BY <1>1, <1>2, <1>3, <1>4

\* Main leaves the list gray only for grayagain.
LEMMA RootedStep ==
    ASSUME Inv, Rooted, [Next]_vars
    PROVE  Rooted'
<1>0. TypeOK /\ Threads /\ Main \in All
  BY DEF Inv, All
<1>1. CASE Quiet
  BY <1>1 DEF Quiet, Rooted
<1>2. CASE MarkRoot
  BY <1>2 DEF MarkRoot, Rooted
<1>3. ASSUME NEW o \in gray, Propagate(o) PROVE Rooted'
  <2>1. /\ gray \ {o} \subseteq gray' /\ gcstate' = gcstate
        /\ grayagain' = grayagain \cup ({o} \cap {q \in All : kind[q] = "thread"})
    BY <1>3 DEF Propagate, ctrlVars
  <2> QED
    BY <1>0, <2>1 DEF Rooted, Threads
<1>4. CASE Atomic
  BY <1>4 DEF Atomic, Rooted
<1>5. ASSUME NEW o \in tosweep, SweepString(o) \/ Sweep(o) PROVE Rooted'
  BY <1>5 DEF SweepString, Sweep, Rooted
<1>6. ASSUME NEW u \in tmudata, GCTM(u) PROVE Rooted'
  BY <1>6 DEF GCTM, Rooted, listVars
<1>7. CASE Close
  BY <1>7 DEF Close, CloseUpvals, Rooted
<1>8. CASE FreeAll
  BY <1>8 DEF FreeAll, Rooted, listVars
<1>9. CASE UNCHANGED vars
  BY <1>9 DEF vars, listVars, ctrlVars, Rooted
<1>10. ASSUME Next
       PROVE  \/ Quiet \/ MarkRoot \/ (\E o \in gray : Propagate(o)) \/ Atomic
              \/ (\E o \in tosweep : SweepString(o) \/ Sweep(o))
              \/ (\E u \in tmudata : GCTM(u)) \/ Close \/ FreeAll
  <2> HIDE DEF Quiet
  <2> QED
    BY <1>10, ProgramQuiet, ControlQuiet DEF Next, Mutator, Collector
<1> QED
  BY <1>1, <1>2, <1>3, <1>4, <1>5, <1>6, <1>7, <1>8, <1>9, <1>10

\* A step that changes nothing.
LEMMA StutterInv ==
    ASSUME Inv, UNCHANGED vars
    PROVE  Inv'
<1>1. UNCHANGED <<kind, heap, attr, fin, at, calls, mark, gray, grayagain, weak, tmudata,
                  tosweep, gcstate, running, mode>>
  BY DEF vars, objVars, listVars, ctrlVars
<1>2. TypeOK'
  BY <1>1 DEF Inv, TypeOK
<1>3. (Shapes => Shapes') /\ (Heap => Heap') /\ (Final => Final')
  BY <1>1, SameObjects
<1>4. Threads'
  BY <1>1 DEF Inv, Threads, IsDead
<1>5. Sweeps => Sweeps'
  BY <1>1 DEF Sweeps, Swept, Pending, Open, IsDead
<1>6. Lists'
  BY <1>1 DEF Inv, Lists
<1>7. Colours'
  <2>1. \A o \in All, r \in All : Child(o, r)' <=> Child(o, r)
    BY <1>1 DEF Child, Value
  <2> QED
    BY <1>1, <2>1 DEF Inv, Colours, IsBlack, IsWhite
<1> QED
  BY <1>1, <1>2, <1>3, <1>4, <1>5, <1>6, <1>7 DEF Inv

\* Every step keeps the invariant.
LEMMA StepInv ==
    ASSUME Inv, Rooted, [Next]_vars, Api \cap {"setupvalue", "closestep"} = {}
    PROVE  Inv'
<1>0. "setupvalue" \notin Api /\ "closestep" \notin Api
  OBVIOUS
<1>1. ASSUME NEW o \in Objs, NEW s \in Slots, NEW k \in Kinds \cap {"table", "udata", "thread"},
             NewObject(o, k, s)
      PROVE  Inv'
  BY <1>1, NewObjectInv
<1>2. ASSUME NEW o \in Objs, NEW s \in Slots, NewString(o, s) PROVE Inv'
  BY <1>2, NewStringInv
<1>3. ASSUME NEW o \in Objs, NEW u \in Objs, NEW s \in Slots, NEW b \in Slots,
             NewClosure(o, u, s, b)
      PROVE  Inv'
  BY <1>3, NewClosureInv
<1>4. ASSUME NEW o \in Objs, NEW f \in Held, NEW s \in Slots, NewInnerClosure(o, f, s) PROVE Inv'
  BY <1>4, NewInnerClosureInv
<1>5. ASSUME NEW s \in Slots, NEW v \in {Nil} \cup UNION {Readable(o) : o \in Held}, Load(s, v)
      PROVE  Inv'
  BY <1>5, LoadInv
<1>6. ASSUME NEW s \in Slots, LeaveBlock(s) PROVE Inv'
  BY <1>6, LeaveBlockInv
<1>7. ASSUME NEW t \in Held, NEW k \in Held \cup {Nil}, NEW v \in Held \cup {Nil}, SetTable(t, k, v)
      PROVE  Inv'
  BY <1>7, SetTableInv
<1>8. ASSUME NEW o \in Held, NEW v \in Held, SetEnv(o, v) PROVE Inv'
  BY <1>8, SetEnvInv
<1>9. ASSUME NEW f \in Held, NEW v \in Held \cup {Nil}, SetUpval(f, v) PROVE Inv'
  BY <1>0, <1>9, SetUpvalInv
<1>10. ASSUME NEW v \in Held \cup {Nil}, (\E t \in Held : Resume(t, v)) \/ Yield(v) PROVE Inv'
  BY <1>10, SwitchInv
<1>11. CASE FullGC
  BY <1>11, FullGCInv
<1>12. CASE \/ FinalizerReturns \/ FinalizerFails \/ FullGCEnds
            \/ SweepStringEnds \/ EndCycle
  <2>1. /\ mode # "closed" /\ mode' \in Mode \ {"closed"}
        /\ UNCHANGED <<objVars, mark, listVars, tmudata, tosweep, running>>
        /\ mode' \in {"close", "closegc"} <=> mode \in {"close", "closegc"}
        /\ \/ gcstate' = gcstate
           \/ gcstate' = "sweep" /\ gcstate = "sweepstring" /\ \A o \in tosweep : kind[o] # "string"
           \/ gcstate' = "pause" /\ gcstate = "finalize"
    BY <1>0, <1>12 DEF FinalizerReturns, FinalizerFails, FullGCEnds, SweepStringEnds,
       EndCycle, SweepRuns, CollectorRuns, Mode
  <2> QED
    BY <2>1, ControlInv
<1>13. CASE Close
  BY <1>13, CloseInv
<1>14. CASE MarkRoot
  BY <1>14, MarkRootInv
<1>15. ASSUME NEW o \in gray, Propagate(o) PROVE Inv'
  BY <1>0, <1>15, PropagateInv
<1>16. CASE Atomic
  BY <1>0, <1>16, AtomicInv
<1>17. ASSUME NEW o \in tosweep, SweepString(o) \/ Sweep(o) PROVE Inv'
  BY <1>0, <1>17, SweepInv
<1>18. ASSUME NEW u \in tmudata, GCTM(u) PROVE Inv'
  BY <1>0, <1>18, GCTMInv
<1>19. CASE FreeAll
  BY <1>19, FreeAllInv
<1>20. CASE UNCHANGED vars
  BY <1>20, StutterInv
<1>21. CASE Mutator
  BY <1>1, <1>2, <1>3, <1>4, <1>5, <1>6, <1>7, <1>8, <1>9, <1>10, <1>11, <1>12, <1>13, <1>21
     DEF Mutator
<1>22. CASE Collector
  BY <1>12, <1>14, <1>15, <1>16, <1>17, <1>18, <1>19, <1>22 DEF Collector
<1> QED
  BY <1>20, <1>21, <1>22 DEF Next

-----------------------------------------------------------------------------
\* The program does not call lua_setupvalue, whose barrier is given the function
\* instead of the upvalue, and no finalizer that lua_close calls makes the
\* collector run.
Tame == Api \cap {"setupvalue", "closestep"} = {}

\* The invariant holds in every state of a tame program.
THEOREM Collects == Tame /\ Spec => [](Inv /\ Rooted)
<1> SUFFICES ASSUME Tame PROVE Spec => [](Inv /\ Rooted)
  OBVIOUS
<1>1. Init => Inv /\ Rooted
  BY InitInv
<1>2. Inv /\ Rooted /\ [Next]_vars => (Inv /\ Rooted)'
  BY StepInv, RootedStep DEF Tame
<1> QED
  BY <1>1, <1>2, PTL DEF Spec

\* No matter how the steps of the collector fall between those of the program,
\* nothing the program can get at has been freed or is going to be.
THEOREM NothingInUseFreed == Tame /\ Spec => []CheckLiveness
<1>1. Inv => CheckLiveness
  <2> SUFFICES ASSUME Inv, mode # "closed", NEW o \in All, kind[o] = "none" \/ IsDead(o)
               PROVE  Unreachable(o)
    BY DEF CheckLiveness
  <2>0. TypeOK /\ Threads /\ Heap
    BY DEF Inv
  <2> DEFINE T == {q \in All : Live(q)}
  <2>1. T \in SUBSET (All \ {o})
    BY DEF Live
  <2>2. {Main, running} \subseteq T
    BY <2>0 DEF Threads, Live, TypeOK, All
  <2>3. ASSUME NEW q \in T, NEW r \in Refs(q) PROVE r \in T
    <3>1. q \in All /\ Sound(q)
      BY <2>0 DEF Heap
    <3>2. CASE kind[q] = "table" /\ heap[q].val # Nil
      <4>1. r \in {heap[q].key, heap[q].val} /\ r # Nil
        BY <2>3, <3>2 DEF Refs, Proper
      <4>2. heap[q].key \in Ref /\ heap[q].val \in Ref
        BY <2>0, <3>1 DEF TypeOK, Object
      <4> QED
        BY <3>1, <3>2, <4>1, <4>2 DEF Sound, Datum, Ref
    <3>3. CASE ~(kind[q] = "table" /\ heap[q].val # Nil)
      <4>1. r \in Children(q)
        BY <2>3, <3>3 DEF Refs, Proper
      <4> QED
        BY <2>0, <3>1, <4>1, ChildrenAre, SoundChild
    <3> QED
      BY <3>2, <3>3
  <2> QED
    BY <2>1, <2>2, <2>3 DEF Unreachable
<1> QED
  BY <1>1, Collects, PTL

\* No open upvalue is left in the stack of a thread that has been freed.
THEOREM NoDanglingUpval == Tame /\ Spec => []OpenUpvalsHaveStack
<1>1. Inv => OpenUpvalsHaveStack
  BY DEF Inv, OpenUpvalsHaveStack, Shapes, Shape, Open, All
<1> QED
  BY <1>1, Collects, PTL

\* The lists linked through gclist hold every gray object, each once.
THEOREM GrayListed == Tame /\ Spec => []GrayLists
<1>1. Inv => GrayLists
  <2> SUFFICES ASSUME Inv, gcstate = "propagate", mode # "closed"
               PROVE  /\ gray \cup grayagain \cup weak = Linked({o \in All : mark[o] = "gray"})
                      /\ gray \cap grayagain = {} /\ gray \cap weak = {}
                      /\ grayagain \cap weak = {}
    BY DEF GrayLists
  <2>1. Lists /\ gray \subseteq All /\ grayagain \subseteq All /\ weak \subseteq All
    BY DEF Inv, TypeOK
  <2> QED
    BY <2>1 DEF Lists, Linked
<1> QED
  BY <1>1, Collects, PTL

\* Between two steps of the marking no black object refers to a white one.
THEOREM NoBlackToWhite == Tame /\ Spec => []TriColour
<1>1. Inv => TriColour
  <2> SUFFICES ASSUME Inv, gcstate = "propagate", mode \notin {"close", "closegc", "closed"},
                      NEW o \in All \ tmudata, IsBlack(o), NEW r \in Whites(Children(o))
               PROVE  FALSE
    BY DEF TriColour
  <2>1. Child(o, r) /\ IsWhite(r)
    BY ChildrenAre DEF Whites, Proper
  <2>2. Sound(o) /\ TypeOK /\ Colours
    <3>1. Live(o)
      BY DEF Inv, Shapes, Shape, Live, IsDead, IsBlack
    <3> QED
      BY <3>1 DEF Inv, Heap
  <2>3. r \in All
    BY <2>1, <2>2, SoundChild
  <2> QED
    BY <2>1, <2>2, <2>3 DEF Colours
<1> QED
  BY <1>1, Collects, PTL

\* A step of the program or of the collector as far as one userdata is concerned.
LEMMA UdataStep ==
    ASSUME Inv, Next, Tame, NEW o \in Objs, kind[o] = "udata", attr[o] = "gc"
    PROVE  /\ kind'[o] = "none" => calls[o] = 1 \/ (mode = "close" /\ ~fin[o])
           /\ mode = "run" /\ mode' = "close" => fin'[o]
           /\ calls'[o] <= 1
<1>0. TypeOK /\ Shapes /\ o \in All
  BY DEF Inv, All
<1>1. ASSUME mode # "closed"
      PROVE  Finals(o) /\ calls[o] \in {0, 1} /\ (o \in tmudata => calls[o] = 0)
  BY <1>0, <1>1 DEF Inv, Final, Finals
<1>2. mode # "closed"
  BY DEF Next, Mutator, Collector, MutatorRuns, CollectorRuns, SweepRuns, NewObject,
     NewString, NewClosure, NewInnerClosure, Load, LeaveBlock, SetTable, SetEnv, SetUpval,
     Resume, Yield, Switch, FullGC, FinalizerReturns, FinalizerFails, Close, MarkRoot,
     Propagate, Atomic, SweepString, Sweep, SweepStringEnds, GCTM, EndCycle, FullGCEnds,
     FreeAll
<1>3. CASE Quiet
  BY <1>1, <1>2, <1>3 DEF Quiet
<1>4. CASE MarkRoot \/ (\E q \in gray : Propagate(q)) \/ Atomic
  <2>1. UNCHANGED <<kind, calls>> /\ (mode' = "close" => mode = "close")
    BY <1>4 DEF MarkRoot, Propagate, Atomic, objVars, ctrlVars
  <2> QED
    BY <1>1, <1>2, <2>1
<1>5. ASSUME NEW q \in tosweep, SweepString(q) \/ Sweep(q)
      PROVE  /\ kind'[o] = "none" => calls[o] = 1
             /\ mode' = mode /\ calls'[o] <= 1
  <2> DEFINE U == OpenFrom(q, 0)
             D == (U \ Alive(U)) \cup (IF IsDead(q) THEN {q} ELSE {})
  <2>1. kind' = Freed(kind, D, "none") /\ calls' = Freed(calls, D, 0) /\ mode' = mode
    BY <1>5 DEF SweepString, Sweep, SweepObject, Reclaim
  <2>2. o \in D => IsDead(o)
    BY DEF OpenFrom, Open
  <2> HIDE DEF D
  <2>3. CASE o \in D
    <3>1. fin[o] /\ o \notin tmudata
      BY <1>1, <1>2, <2>2, <2>3 DEF Finals, Live
    <3> QED
      BY <1>0, <1>1, <1>2, <2>1, <2>3, <3>1 DEF Finals, Freed
  <2>4. CASE o \notin D
    BY <1>0, <1>1, <1>2, <2>1, <2>4 DEF Freed
  <2> QED
    BY <2>3, <2>4
<1>6. ASSUME NEW u \in tmudata, GCTM(u)
      PROVE  kind' = kind /\ (mode = "run" => mode' # "close") /\ calls'[o] <= 1
  <2>1. /\ kind' = kind /\ mode' = CASE mode = "mark"  -> "gctm"
                                     [] mode = "close" -> "closegc"
                                     [] OTHER          -> mode
        /\ calls' = [calls EXCEPT ![u] = IF @ < MaxCalls THEN @ + 1 ELSE @]
    BY <1>6 DEF GCTM
  <2>2. calls'[o] = calls[o] \/ (o = u /\ calls'[o] \in {calls[o], calls[o] + 1})
    BY <1>0, <2>1 DEF TypeOK
  <2> QED
    BY <1>1, <1>2, <2>1, <2>2
<1>7. CASE Close
  <2> DEFINE U == OpenFrom(Main, 0)
             D == U \ Alive(U)
  <2>1. /\ kind' = Freed(kind, D, "none") /\ calls' = Freed(calls, D, 0)
        /\ fin' = [q \in All |-> fin[q] \/ q \in SeparatedAll]
    BY <1>7 DEF Close, CloseUpvals, Reclaim, Separate
  <2>2. o \notin D
    BY DEF OpenFrom, Open
  <2>3. fin'[o]
    BY <1>0, <2>1 DEF SeparatedAll
  <2> HIDE DEF D
  <2> QED
    BY <1>0, <1>1, <1>2, <2>1, <2>2, <2>3 DEF Freed
<1>8. CASE FreeAll
  <2>1. mode = "close" /\ tmudata = {} /\ mode' = "closed" /\ calls'[o] = 0
    BY <1>0, <1>8 DEF FreeAll, Reclaim, Freed
  <2>2. fin[o] => calls[o] = 1
    BY <1>1, <1>2, <2>1 DEF Finals
  <2> QED
    BY <2>1, <2>2
<1>9. \/ Quiet \/ MarkRoot \/ (\E q \in gray : Propagate(q)) \/ Atomic
      \/ (\E q \in tosweep : SweepString(q) \/ Sweep(q))
      \/ (\E u \in tmudata : GCTM(u)) \/ Close \/ FreeAll
  <2> HIDE DEF Quiet
  <2> QED
    BY ProgramQuiet, ControlQuiet DEF Next, Mutator, Collector
<1> QED
  BY <1>3, <1>4, <1>5, <1>6, <1>7, <1>8, <1>9

\* Every userdata with a finalizer gets exactly one call of it before it is
\* freed, by the collector or by lua_close.
THEOREM OneFinalizerCall == Tame /\ Spec => FinalizedOnce
<1> SUFFICES ASSUME Tame PROVE Spec => FinalizedOnce
  OBVIOUS
<1>1. Inv /\ [Next]_vars =>
        [\A o \in Objs : kind[o] = "udata" /\ attr[o] = "gc" =>
           /\ kind'[o] = "none" => calls[o] = 1 \/ (mode = "close" /\ ~fin[o])
           /\ mode = "run" /\ mode' = "close" => fin'[o]
           /\ calls'[o] <= 1]_vars
  BY UdataStep
<1> QED
  BY <1>1, Collects, PTL DEF Spec, FinalizedOnce

\* A userdata is put among those to be finalized only when the program cannot
\* get at it by strong references, except through others that wait.
THEOREM FinalizerOnlyForGarbage == Tame /\ Spec => FinalizedUnreachable
<1> SUFFICES ASSUME Tame PROVE Spec => FinalizedUnreachable
  OBVIOUS
<1>1. ASSUME Inv, Rooted, Next, NEW o \in tmudata' \ tmudata, mode' # "close"
      PROVE  \E T \in SUBSET (All \ {o}) : /\ {Main, running} \subseteq T
                                           /\ \A q \in T \ tmudata : Children(q) \subseteq T
  <2>1. Atomic
    <3>1. \/ Quiet \/ MarkRoot \/ (\E q \in gray : Propagate(q)) \/ Atomic
          \/ (\E q \in tosweep : SweepString(q) \/ Sweep(q))
          \/ (\E u \in tmudata : GCTM(u)) \/ Close \/ FreeAll
      <4> HIDE DEF Quiet
      <4> QED
        BY <1>1, ProgramQuiet, ControlQuiet DEF Next, Mutator, Collector
    <3> QED
      BY <1>1, <3>1 DEF Quiet, MarkRoot, Propagate, ctrlVars, SweepString, Sweep,
         SweepObject, GCTM, Close, FreeAll
  <2>2. /\ gcstate = "propagate" /\ gray = {} /\ mode \notin {"close", "closegc", "closed"}
        /\ tmudata' = Waiting
    BY <2>1 DEF Tame, Atomic, CollectorRuns, Separate, Waiting, Sep, First
  <2> DEFINE T == Reached \cup First
  <2>3. /\ First \subseteq All /\ (\A q \in First : mark[q] = "white")
        /\ Main \in Reached /\ running \in Reached \cup First
        /\ \A q \in Reached \cup First, r \in All :
              q \notin tmudata /\ Child(q, r) => r \in Reached \cup First
    BY <1>1, <2>2, AtomicMarks
  <2>4. T \in SUBSET All
    BY <2>3 DEF Reached
  <2>5. o \notin T
    BY <1>1, <2>2 DEF Waiting, Sep, Whites, Reached, IsWhite
  <2>6. ASSUME NEW q \in T \ tmudata, NEW r \in Children(q) PROVE r \in T
    <3>1. q \in All /\ Live(q)
      <4>1. q \in All /\ kind[q] # "none"
        BY <1>1, <2>3, <2>4 DEF Reached, Inv, Shapes, Shape
      <4>2. ~IsDead(q)
        BY <1>1, <2>2, <4>1, NoneDead DEF Inv
      <4> QED
        BY <4>1, <4>2 DEF Live
    <3>2. Sound(q) /\ TypeOK /\ Child(q, r)
      BY <1>1, <2>2, <3>1, ChildrenAre DEF Inv, Heap
    <3>3. r \in All
      BY <3>1, <3>2, SoundChild
    <3> QED
      BY <2>3, <3>2, <3>3
  <2> HIDE DEF T
  <2>7. {Main, running} \subseteq T
    BY <2>3 DEF T
  <2> QED
    BY <2>4, <2>5, <2>6, <2>7
<1>2. Inv /\ Rooted /\ [Next]_vars =>
        [\A o \in tmudata' \ tmudata : mode' # "close" =>
           \E T \in SUBSET (All \ {o}) : /\ {Main, running} \subseteq T
                                         /\ \A q \in T \ tmudata : Children(q) \subseteq T]_vars
  BY <1>1
<1> QED
  BY <1>2, Collects, PTL DEF Spec, FinalizedUnreachable
=============================================================================
