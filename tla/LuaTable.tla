------------------------------ MODULE LuaTable ------------------------------
(***************************************************************************)
(* One Lua table (ltable.c): an array part and a hash part, a chained      *)
(* scatter table with Brent's variation, and the programs that use it.     *)
(*                                                                         *)
(* A table t is a record: t.array is the array part; t.node the hash part, *)
(* a function from 0 .. sizenode - 1 to nodes (t.dummy when it is the      *)
(* shared dummynode); t.lastfree the index above which no node is free.    *)
(* Keys are integers and strings; strings stand for every collectable key, *)
(* and a string's hash is the constant Hash.                               *)
(*                                                                         *)
(* Two clients use the table.  A Lua program (client "lua") assigns        *)
(* fields, walks the table with next and, during the walk, only assigns to *)
(* fields that exist.  A C module (client "ref") keeps references in it    *)
(* with luaL_ref and luaL_unref.                                           *)
(***************************************************************************)
EXTENDS Integers, FiniteSets, Sequences

CONSTANTS IntKeys,    \* the integer keys in use (0 is FREELIST_REF)
          StrKeys,    \* the string keys in use
          LuaKeys,    \* the keys the Lua program uses
          LuaValues,  \* the values it assigns to each of them
          Hash,       \* (str)->tsv.hash
          Values,     \* the values other than nil
          Nil,        \* nil
          MaxBits,    \* MAXBITS: the array part has at most TwoTo[MaxBits] slots
          MaxInt,     \* MAX_INT, of luaH_getn's search
          NewSizes,   \* the <<narray, nhash>> lua_createtable is called with
          ListSizes,  \* the array sizes OP_SETLIST asks for
          Clients,    \* subset of {"lua", "ref"}
          MaxFails    \* bound: how many allocations may fail

ASSUME LuaTableAssumption ==
       /\ IntKeys \subseteq Nat /\ IsFiniteSet(IntKeys)
       /\ LuaKeys \subseteq IntKeys \cup StrKeys
       /\ LuaValues \in [LuaKeys -> SUBSET Values]
       /\ Hash \in [StrKeys -> Nat]
       /\ MaxBits \in Nat /\ MaxInt \in Nat /\ MaxFails \in Nat
       /\ Nil \notin Values \cup StrKeys \cup Int /\ StrKeys \cap Int = {}
       /\ NewSizes \subseteq Nat \X Nat /\ ListSizes \subseteq Nat
       /\ Clients \subseteq {"lua", "ref"} /\ ("ref" \in Clients => 0 \in IntKeys)

VARIABLES tab,     \* the table
          client,  \* who uses it
          map,     \* history: the map the assignments so far describe
          torn,    \* history: a failed resize left a key in both parts
          fails,   \* history: allocations that failed
          stuck,   \* history: an insertion found no room after a rehash
          walk,    \* a traversal: what its calls of next returned so far
          live     \* the references luaL_ref gave out: pairs <<reference, value>>

vars == <<tab, client, map, torn, fails, stuck, walk, live>>

Keys == IntKeys \cup StrKeys
NoNode == -1
EmptyNode == [key |-> Nil, dead |-> FALSE, val |-> Nil, next |-> NoNode]

Lower(S)  == CHOOSE x \in S : \A y \in S : x <= y
Upper(S)  == CHOOSE x \in S : \A y \in S : x >= y
TwoTo[n \in Nat] == IF n = 0 THEN 1 ELSE 2 * TwoTo[n - 1]
CeilLog2(n) == Lower({l \in 0..n : TwoTo[l] >= n})

-----------------------------------------------------------------------------
(* Finding a key.                                                          *)

SizeNode(t) == Cardinality(DOMAIN t.node)
SizeArray(t) == Len(t.array)

\* (sizenode(t)-1)|1, for a size that is a power of two
OddSize(t) == IF SizeNode(t) = 1 THEN 1 ELSE SizeNode(t) - 1

MainPosition(t, k) ==
    IF k \in StrKeys THEN Hash[k] % SizeNode(t)
    ELSE IF k = 0 THEN 0 ELSE k % OddSize(t)

\* The first node of k's chain that is in the set ns.
SearchChain(t, k, ns) ==
    LET from[n \in {NoNode} \cup DOMAIN t.node] ==
            IF n = NoNode \/ n \in ns THEN n ELSE from[t.node[n].next]
    IN  from[MainPosition(t, k)]

\* The nodes that hold key k, and those whose key is not dead.
NodesOf(t, k) == {i \in DOMAIN t.node : t.node[i].key = k}
LiveNodesOf(t, k) == {i \in NodesOf(t, k) : ~t.node[i].dead}

InArray(t, k) == k \in IntKeys /\ k \in 1..SizeArray(t)
FindNode(t, k) == SearchChain(t, k, LiveNodesOf(t, k))

Get(t, k) ==
    IF InArray(t, k) THEN t.array[k]
    ELSE IF FindNode(t, k) = NoNode THEN Nil ELSE t.node[FindNode(t, k)].val

-----------------------------------------------------------------------------
(* Inserting a key: newkey, and the assignment through the slot it returns. *)

FreePos(t) ==
    LET free == {i \in 0..(t.lastfree - 1) : t.node[i].key = Nil}
    IN  IF free = {} THEN NoNode ELSE Upper(free)

Fill(t, i, k, v) ==
    [t EXCEPT !.node[i].key = k, !.node[i].dead = FALSE, !.node[i].val = v]

MoveUnlinked(t, mp, n) ==
    [t EXCEPT !.node[n] = t.node[mp], !.node[mp].next = NoNode, !.node[mp].val = Nil]

\* The colliding node at mp is out of its main position: it moves to n.
MoveColliding(t, mp, n) ==
    LET prev == SearchChain(t, t.node[mp].key, {i \in DOMAIN t.node : t.node[i].next = mp})
    IN  [t EXCEPT !.node[prev].next = n, !.node[n] = t.node[mp],
                  !.node[mp].next = NoNode, !.node[mp].val = Nil]

\* The colliding node keeps mp: the new node n follows it in the chain.
ChainAfter(t, mp, n) ==
    [t EXCEPT !.node[n].next = t.node[mp].next, !.node[mp].next = n]

NewKeyNoMove(t, k, v) ==
    LET mp == MainPosition(t, k)
        n  == IF t.dummy THEN NoNode ELSE FreePos(t)
        t1 == [t EXCEPT !.lastfree = IF t.dummy THEN @ ELSE n]
    IN  IF ~t.dummy /\ t.node[mp].val = Nil
          THEN [t |-> Fill(t, mp, k, v), ok |-> TRUE]
        ELSE IF n = NoNode
          THEN [t |-> t1, ok |-> FALSE]
          ELSE [t |-> Fill(ChainAfter(t1, mp, n), n, k, v), ok |-> TRUE]

\* ok is FALSE when there is no free place and the table must be rehashed.
NewKey(t, k, v) ==
    LET mp == MainPosition(t, k)
        n  == IF t.dummy THEN NoNode ELSE FreePos(t)
        t1 == [t EXCEPT !.lastfree = IF t.dummy THEN @ ELSE n]
    IN  IF ~t.dummy /\ t.node[mp].val = Nil
          THEN [t |-> Fill(t, mp, k, v), ok |-> TRUE]
        ELSE IF n = NoNode
          THEN [t |-> t1, ok |-> FALSE]
        ELSE IF MainPosition(t, t.node[mp].key) # mp
          THEN [t |-> Fill(MoveColliding(t1, mp, n), mp, k, v), ok |-> TRUE]
          ELSE [t |-> Fill(ChainAfter(t1, mp, n), n, k, v), ok |-> TRUE]

\* luaH_set and luaH_setnum, followed by the assignment
Put(t, k, v) ==
    IF InArray(t, k) THEN [t |-> [t EXCEPT !.array[k] = v], ok |-> TRUE]
    ELSE IF FindNode(t, k) # NoNode
      THEN [t |-> [t EXCEPT !.node[FindNode(t, k)].val = v], ok |-> TRUE]
      ELSE NewKey(t, k, v)

-----------------------------------------------------------------------------
(* Rehash: counting the integer keys, choosing the sizes, reinserting.     *)

\* The keys in use, those of the array part and those of the hash part: a
\* key that is in both counts twice.
UsedKeys(t) ==
    {<<i, "array">> : i \in {i \in 1..SizeArray(t) : t.array[i] # Nil}}
        \cup {<<t.node[i].key, "node">> : i \in {i \in DOMAIN t.node : t.node[i].val # Nil}}

IsArrayIndex(k) == k \in IntKeys /\ k \in 1..TwoTo[MaxBits]

\* nums[l]: how many of the keys us are in (TwoTo[l-1], TwoTo[l]]
Nums(us) ==
    [l \in 0..MaxBits |-> Cardinality({u \in us : IsArrayIndex(u[1]) /\ CeilLog2(u[1]) = l})]

\* The largest power of two n such that more than n/2 of 1..n are in use,
\* among those below twice the number of integer keys.
ComputeSizes(us) ==
    LET nums   == Nums(us)
        upTo(l) == Cardinality({u \in us : IsArrayIndex(u[1]) /\ CeilLog2(u[1]) <= l})
        narray == Cardinality({u \in us : IsArrayIndex(u[1])})
        good   == {l \in 0..MaxBits : /\ TwoTo[l] \div 2 < narray
                                      /\ nums[l] > 0
                                      /\ upTo(l) > TwoTo[l] \div 2}
    IN  IF good = {} THEN [n |-> 0, na |-> 0]
        ELSE [n |-> TwoTo[Upper(good)], na |-> upTo(Upper(good))]

SetArrayVector(t, size) ==
    [t EXCEPT !.array = [i \in 1..size |-> IF i <= SizeArray(t) THEN t.array[i] ELSE Nil]]

SetNodeVector(t, size) ==
    LET lsize == IF size = 0 THEN 0 ELSE CeilLog2(size)
    IN  [t EXCEPT !.dummy = (size = 0),
                  !.node = [i \in 0..(TwoTo[lsize] - 1) |-> EmptyNode],
                  !.lastfree = IF size = 0 THEN 0 ELSE TwoTo[lsize]]

\* What resize puts back: the vanishing slice of the array part, then the
\* nodes from the last to the first.
Reinserted(t, nasize) ==
    LET slice == [i \in 1..(IF nasize < SizeArray(t) THEN SizeArray(t) - nasize ELSE 0)
                      |-> <<nasize + i, t.array[nasize + i]>>]
        nodes == [i \in 1..SizeNode(t)
                      |-> <<t.node[SizeNode(t) - i].key, t.node[SizeNode(t) - i].val>>]
    IN  slice \o nodes

Reinsert(t, entries) ==
    LET put[i \in 0..Len(entries)] ==
            IF i = 0 THEN [t |-> t, ok |-> TRUE]
            ELSE LET r == put[i - 1]
                     p == Put(r.t, entries[i][1], entries[i][2])
                 IN  IF entries[i][2] = Nil THEN r ELSE [t |-> p.t, ok |-> r.ok /\ p.ok]
    IN  put[Len(entries)]

\* resize; memory may run out for the array part or for the hash part
Resize(t, nasize, nhsize, out) ==
    LET grown == IF nasize > SizeArray(t) THEN SetArrayVector(t, nasize) ELSE t
        fresh == SetNodeVector(SetArrayVector(grown, nasize), nhsize)
        full  == Reinsert(fresh, Reinserted(grown, nasize))
    IN  IF nasize > SizeArray(t) /\ out = "array"
          THEN [t |-> t, res |-> "error"]
        ELSE IF nhsize > 0 /\ (out = "node" \/ CeilLog2(nhsize) > MaxBits)
          THEN [t |-> grown, res |-> "error"]
          ELSE [t |-> full.t, res |-> IF full.ok THEN "done" ELSE "stuck"]

Rehash(t, ek, out) ==
    LET us   == UsedKeys(t) \cup {<<ek, "extra">>}
        size == ComputeSizes(us)
    IN  Resize(t, size.n, Cardinality(us) - size.na, out)

\* An assignment t[k] = v: newkey, and once more after a rehash.
Assign(t, k, v, out) ==
    LET p == Put(t, k, v)
        r == Rehash(p.t, k, out)
        q == Put(r.t, k, v)
    IN  IF p.ok THEN [t |-> p.t, res |-> "done"]
        ELSE IF r.res # "done" THEN r
        ELSE [t |-> q.t, res |-> IF q.ok THEN "done" ELSE "stuck"]

\* luaH_new
New(narray, nhash) ==
    SetNodeVector([array |-> [i \in 1..narray |-> Nil], dummy |-> TRUE,
                   node |-> [i \in {0} |-> EmptyNode], lastfree |-> 0], nhash)

-----------------------------------------------------------------------------
(* The length of a table.                                                  *)

\* Binary search between ij[1] (zero or present) and ij[2] (absent).
Between(absent, i, j) ==
    LET bs[ij \in (0..j) \X (0..j)] ==
            LET m == (ij[1] + ij[2]) \div 2
            IN  IF ij[2] - ij[1] <= 1 THEN ij[1]
                ELSE bs[IF m \in absent THEN <<ij[1], m>> ELSE <<m, ij[2]>>]
    IN  bs[<<i, j>>]

UnboundSearch(t, from) ==
    LET absent(n) == (IF n \in IntKeys THEN Get(t, n) ELSE Nil) = Nil
        linear == Lower({n \in 1..(Cardinality(IntKeys) + 1) : absent(n)}) - 1
        up[ij \in Nat \X (Nat \ {0})] ==
            IF absent(ij[2]) THEN Between({n \in 1..ij[2] : absent(n)}, ij[1], ij[2])
            ELSE IF 2 * ij[2] > MaxInt THEN linear ELSE up[<<ij[2], 2 * ij[2]>>]
    IN  up[<<from, from + 1>>]

GetNArrayOnly(t) ==
    LET absent == {n \in 1..SizeArray(t) : t.array[n] = Nil}
    IN  IF SizeArray(t) > 0 /\ t.array[SizeArray(t)] = Nil THEN Between(absent, 0, SizeArray(t))
        ELSE SizeArray(t)

GetN(t) ==
    LET size == SizeArray(t)
        absent == {n \in 1..size : t.array[n] = Nil}
    IN  IF size > 0 /\ t.array[size] = Nil THEN Between(absent, 0, size)
        ELSE IF t.dummy THEN size ELSE UnboundSearch(t, size)

-----------------------------------------------------------------------------
(* Traversal.  Positions 1 .. sizearray are the array part, the nodes      *)
(* follow; 0 is before the first and -1 stands for an invalid key.         *)

FindIndexLive(t, k) ==
    LET n == FindNode(t, k)
    IN  IF k = Nil THEN 0
        ELSE IF InArray(t, k) THEN k
        ELSE IF n = NoNode THEN -1 ELSE SizeArray(t) + n + 1

\* A dead key is still found, by the address of its object.
FindIndex(t, k) ==
    LET n == SearchChain(t, k, NodesOf(t, k))
    IN  IF k = Nil THEN 0
        ELSE IF InArray(t, k) THEN k
        ELSE IF n = NoNode THEN -1 ELSE SizeArray(t) + n + 1

ValueAt(t, p) == IF p <= SizeArray(t) THEN t.array[p] ELSE t.node[p - SizeArray(t) - 1].val
KeyAt(t, p)   == IF p <= SizeArray(t) THEN p ELSE t.node[p - SizeArray(t) - 1].key

Lost == -1

\* luaH_next: the key that follows k, Nil at the end, Lost for an invalid key
NextKey(t, k) ==
    LET i == FindIndex(t, k)
        later == {p \in (i + 1)..(SizeArray(t) + SizeNode(t)) : ValueAt(t, p) # Nil}
    IN  IF i = -1 THEN Lost ELSE IF later = {} THEN Nil ELSE KeyAt(t, Lower(later))

-----------------------------------------------------------------------------
(* The Lua program.                                                        *)

MapSet(m, k, v) == [m EXCEPT ![k] = v]

Present == {k \in LuaKeys : map[k] # Nil}

Init ==
    /\ client \in Clients
    /\ \E s \in (IF client = "ref" THEN {<<0, 0>>} ELSE NewSizes) : tab = New(s[1], s[2])
    /\ map = [k \in LuaKeys |-> Nil]
    /\ torn = FALSE /\ fails = 0 /\ stuck = FALSE
    /\ walk = << >>
    /\ live = {}

\* A key of the hash part that the array part now hides.
Hidden(t) == \E i \in DOMAIN t.node : t.node[i].val # Nil /\ InArray(t, t.node[i].key)

\* The table becomes r.t, the result of an operation that runs out of memory
\* at out ("no": it does not).
Change(r, out) ==
    /\ tab' = r.t
    /\ stuck' = (stuck \/ r.res = "stuck")
    /\ torn' = (torn \/ Hidden(r.t))
    /\ IF out = "no" THEN fails' = fails
       ELSE fails < MaxFails /\ r.res = "error" /\ fails' = fails + 1

Outs == {"no", "array", "node"}

\* t[k] = v.  During a traversal the program only assigns to existing fields.
Store(k, v, out) ==
    LET r == Assign(tab, k, v, out)
    IN  /\ client = "lua"
        /\ walk # << >> => Get(tab, k) # Nil
        /\ Change(r, out)
        /\ map' = IF r.res = "error" THEN map ELSE MapSet(map, k, v)
        /\ UNCHANGED <<client, walk, live>>

\* OP_SETLIST preallocates the array part of a table constructor.
ResizeArray(n, out) ==
    LET r == Resize(tab, n, IF tab.dummy THEN 0 ELSE SizeNode(tab), out)
    IN  /\ client = "lua" /\ walk = << >>
        /\ n > SizeArray(tab)
        /\ Change(r, out)
        /\ UNCHANGED <<client, map, walk, live>>

WalkEnded == walk # << >> /\ walk[Len(walk)] \in {Nil, Lost}

\* One call of next, with the key the last one returned.
StepWalk ==
    /\ client = "lua"
    /\ ~WalkEnded
    /\ Len(walk) <= Cardinality(Keys)    \* bound: next goes round in a torn table
    /\ walk' = Append(walk, NextKey(tab, IF walk = << >> THEN Nil ELSE walk[Len(walk)]))
    /\ UNCHANGED <<tab, client, map, torn, fails, stuck, live>>

\* The program is done with a traversal, finished or not.
ForgetWalk ==
    /\ walk # << >>
    /\ walk' = << >>
    /\ UNCHANGED <<tab, client, map, torn, fails, stuck, live>>

\* A collection passes the table: the weak fields ks go and the key of every
\* empty node becomes a dead key.
Collect(ks) ==
    LET cleared == [tab EXCEPT
            !.array = [i \in 1..SizeArray(tab) |-> IF i \in ks THEN Nil ELSE tab.array[i]],
            !.node = [i \in DOMAIN tab.node |->
                          LET n == tab.node[i]
                              v == IF n.key \in ks /\ ~n.dead THEN Nil ELSE n.val
                          IN  [n EXCEPT !.val = v,
                                        !.dead = n.dead \/ (v = Nil /\ n.key \in StrKeys)]]]
    IN  /\ client = "lua"
        /\ tab' = cleared
        /\ map' = [k \in LuaKeys |-> IF k \in ks THEN Nil ELSE map[k]]
        /\ UNCHANGED <<client, torn, fails, stuck, walk, live>>

-----------------------------------------------------------------------------
(* References: the free references form a list through t[FREELIST_REF].    *)

FREELIST_REF == 0
ToInteger(v) == IF v \in IntKeys THEN v ELSE 0

RefLeaveHead(v, out) ==
    LET free == ToInteger(Get(tab, FREELIST_REF))
        ref  == IF free # 0 THEN free ELSE GetN(tab) + 1
        r    == Assign(tab, ref, v, out)
    IN  /\ client = "ref"
        /\ ref \in IntKeys
        /\ Change(r, out)
        /\ live' = IF r.res = "error" THEN live ELSE live \cup {<<ref, v>>}
        /\ UNCHANGED <<client, map, walk>>

Ref(v, out) ==
    LET free == ToInteger(Get(tab, FREELIST_REF))
        ref  == IF free # 0 THEN free ELSE GetN(tab) + 1
        popped == Assign(tab, FREELIST_REF, Get(tab, free), "no")
        r    == Assign(IF free # 0 THEN popped.t ELSE tab, ref, v, out)
    IN  /\ client = "ref"
        /\ ref \in IntKeys
        /\ Change(r, out)
        /\ live' = IF r.res = "error" THEN live ELSE live \cup {<<ref, v>>}
        /\ UNCHANGED <<client, map, walk>>

Unref(ref, out) ==
    LET linked == Assign(tab, ref, Get(tab, FREELIST_REF), "no")
        r      == Assign(linked.t, FREELIST_REF, ref, out)
    IN  /\ client = "ref"
        /\ \E v \in Values : <<ref, v>> \in live
        /\ Change(r, out)
        /\ live' = {e \in live : e[1] # ref}
        /\ UNCHANGED <<client, map, walk>>

Next ==
    \/ \E k \in LuaKeys : \E v \in LuaValues[k] \cup {Nil}, out \in Outs : Store(k, v, out)
    \/ \E n \in ListSizes, out \in Outs : ResizeArray(n, out)
    \/ StepWalk
    \/ ForgetWalk
    \/ \E ks \in SUBSET {k \in Keys : Get(tab, k) # Nil} : Collect(ks)
    \/ \E v \in Values, out \in Outs : Ref(v, out)
    \/ \E ref \in IntKeys, out \in Outs : Unref(ref, out)

Spec == Init /\ [][Next]_vars

-----------------------------------------------------------------------------
(* Properties.                                                             *)

\* The table is the map that the assignments describe: luaH_get finds every
\* field with its last value, whichever part it is in and however often the
\* collisions in newkey and the resizes moved it.  Only the integer keys of a
\* table whose resize failed half-way are not covered.  rehash makes room for
\* the key it was called for and for those it puts back, so that newkey,
\* rehash and luaH_set never call each other again.
ActsAsMap ==
    /\ ~stuck
    /\ client = "lua" =>
        \A k \in IF torn THEN LuaKeys \ IntKeys ELSE LuaKeys : Get(tab, k) = map[k]

\* The header comment of ltable.c: "if an element is not in its main
\* position, then the colliding element is in its own main position".
BrentLayout ==
    \A i \in DOMAIN tab.node :
        LET mp == MainPosition(tab, tab.node[i].key)
        IN  tab.node[i].val # Nil /\ mp # i
                => MainPosition(tab, tab.node[mp].key) = mp

\* luaH_getn returns a boundary: t[n] is present (or n is 0) and t[n+1] is not.
Border ==
    LET n == GetN(tab)
        present(i) == i \in IntKeys /\ Get(tab, i) # Nil
    IN  (n = 0 \/ present(n)) /\ ~present(n + 1)

\* A traversal during which existing fields are assigned or cleared and
\* the collector runs returns no key twice, never loses its
\* place, and when it ends has returned every field that is still there.
TraversalExact ==
    LET seen == {walk[i] : i \in 1..Len(walk)}
    IN  ~torn => /\ Cardinality(seen) = Len(walk)
                 /\ Lost \notin seen
                 /\ Nil \in seen => Present \subseteq seen

\* Every reference luaL_ref gave out and luaL_unref did not take back reads
\* the value it was made for: luaL_ref never reuses one that is still live.
RefsHold == ~torn => \A e \in live : Get(tab, e[1]) = e[2]
=============================================================================
