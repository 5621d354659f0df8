------------------------------ MODULE Bindings ------------------------------
(***************************************************************************)
(* Bindings: kernel modules that add C functions to Lua contexts.          *)
(*                                                                         *)
(* A binding module registers one struct lunatik_binding in the global     *)
(* list lunatik_bindings when it is inserted and removes it when it is     *)
(* unloaded.  lunatik_bindings_load walks that list for one context and    *)
(* activates what is not active in it yet, holding a reference to the      *)
(* module for every activation.  The list has no lock.                     *)
(*                                                                         *)
(* A loader l is a task in lunatik_bindings_load for the context CtxOf[l]: *)
(* either the default context, in lunatik_default_context_get, or a        *)
(* context of its own, which it destroys when it is done (sys_lua).        *)
(*                                                                         *)
(* The reference count of a module is kept as the set of loaders whose     *)
(* try_module_get has not been undone: a loader visits a module at most    *)
(* once.  A module that is inserted again after it was unloaded is a new   *)
(* struct module with a new struct lunatik_binding, so it is another       *)
(* member of Modules.                                                      *)
(***************************************************************************)
EXTENDS Naturals, Sequences, FiniteSets

CONSTANTS Modules,    \* the binding modules
          Loaders,    \* the tasks that load bindings
          Contexts,   \* the lunatik contexts
          Default,    \* lunatik_default_context
          CtxOf,      \* the context each loader works on
          NoModule,   \* no binding looked at yet
          BindFails   \* what may fail: "b" and "ab" (allocations), "reg" (regfunc)

ASSUME BindingsAssumption ==
       /\ Default \in Contexts
       /\ NoModule \notin Modules
       /\ CtxOf \in [Loaders -> Contexts]
       /\ \A l1, l2 \in Loaders : CtxOf[l1] = CtxOf[l2] => l1 = l2 \/ CtxOf[l1] = Default
       /\ BindFails \subseteq {"b", "ab", "reg"}

VARIABLES
    mod,      \* absent, live, going (being unloaded) or gone, for each module
    list,     \* lunatik_bindings
    refs,     \* who holds a reference to each module
    active,   \* lc->active_bindings: pairs <<module, loader that added it>>
    funcs,    \* the modules whose C functions are in the context's Lua state
    life,     \* the context is open, putting (its modules) or closed
    lpc,      \* where loader l is
    cur,      \* b, the binding it looks at
    lret,     \* ret
    known     \* history: the bindings registered when l began

modVars  == <<mod, list>>
ctxVars  == <<active, funcs, life>>
loadVars == <<lpc, cur, lret, known>>
vars == <<modVars, refs, ctxVars, loadVars>>

Registered == {list[i] : i \in 1..Len(list)}
IndexOf(m) == CHOOSE i \in 1..Len(list) : list[i] = m
Without(m) == [i \in 1..(Len(list) - 1) |-> list[IF i < IndexOf(m) THEN i ELSE i + 1]]

IsActive(m, x) == \E l \in Loaders : <<m, l>> \in active[x]

-----------------------------------------------------------------------------
(* Binding modules.                                                        *)

\* External: insmod runs the module's init function, lunatik_bindings_register:
\* kmalloc and list_add_tail.  Without memory, insmod fails.
Insert(m) ==
    /\ mod[m] = "absent"
    /\ \/ /\ "b" \in BindFails
          /\ mod' = [mod EXCEPT ![m] = "gone"]
          /\ UNCHANGED list
       \/ /\ mod' = [mod EXCEPT ![m] = "live"]
          /\ list' = Append(list, m)
    /\ UNCHANGED <<refs, ctxVars, loadVars>>

\* External: rmmod succeeds only while nobody holds a reference; from then on
\* try_module_get fails.
Unload(m) ==
    /\ mod[m] = "live"
    /\ refs[m] = {}
    /\ mod' = [mod EXCEPT ![m] = "going"]
    /\ UNCHANGED <<list, refs, ctxVars, loadVars>>

\* The module's exit function, lunatik_bindings_unregister: list_del and kfree;
\* then the kernel frees the module's text.
Unregister(m) ==
    /\ mod[m] = "going"
    /\ mod' = [mod EXCEPT ![m] = "gone"]
    /\ list' = Without(m)
    /\ UNCHANGED <<refs, ctxVars, loadVars>>

-----------------------------------------------------------------------------
(* lunatik_bindings_load.                                                  *)

\* The list is entered at its head, or left at once if it is empty.
StartLoad(l) ==
    /\ lpc[l] = "idle"
    /\ life[CtxOf[l]] = "open"
    /\ known' = [known EXCEPT ![l] = Registered]
    /\ IF list = <<>>
       THEN lpc' = [lpc EXCEPT ![l] = "done"] /\ UNCHANGED cur
       ELSE lpc' = [lpc EXCEPT ![l] = "check"] /\ cur' = [cur EXCEPT ![l] = list[1]]
    /\ UNCHANGED <<modVars, refs, ctxVars, lret>>

\* skip bindings which are already active
\* (Mutant: bindings active in any context are skipped.)
AfterCheckAny(l) == IF \E x \in Contexts : IsActive(cur[l], x) THEN "next" ELSE "get"
AfterCheck(l) == IF IsActive(cur[l], CtxOf[l]) THEN "next" ELSE "get"
Check(l) ==
    /\ lpc[l] = "check"
    /\ lpc' = [lpc EXCEPT ![l] = AfterCheck(l)]
    /\ UNCHANGED <<modVars, refs, ctxVars, cur, lret, known>>

\* try_module_get(b->owner) fails for a module that is being unloaded; the
\* binding is then passed over.
TakeRef(l) == [refs EXCEPT ![cur[l]] = @ \cup {l}]
GetModule(l) ==
    /\ lpc[l] = "get"
    /\ cur[l] \in Registered
    /\ IF mod[cur[l]] = "live"
       THEN lpc' = [lpc EXCEPT ![l] = "reg"] /\ refs' = TakeRef(l)
       ELSE lpc' = [lpc EXCEPT ![l] = "next"] /\ UNCHANGED refs
    /\ UNCHANGED <<modVars, ctxVars, cur, lret, known>>

\* b->regfunc(lc) adds the functions to the Lua state, under the context's
\* mutex; on failure the reference is kept.
RegFunc(l) ==
    /\ lpc[l] = "reg"
    /\ \/ /\ "reg" \in BindFails
          /\ lret' = [lret EXCEPT ![l] = "error"]
          /\ lpc' = [lpc EXCEPT ![l] = "done"]
          /\ UNCHANGED funcs
       \/ /\ funcs' = [funcs EXCEPT ![CtxOf[l]] = @ \cup {cur[l]}]
          /\ lpc' = [lpc EXCEPT ![l] = "add"]
          /\ UNCHANGED lret
    /\ UNCHANGED <<modVars, refs, active, life, cur, known>>

\* kmalloc and list_add_tail of the active_binding; without memory the
\* reference is kept, and so are the functions.  (Mutant: the failure path
\* gives the reference back.)
RefsAfterFailPut(l) == [refs EXCEPT ![cur[l]] = @ \ {l}]
RefsAfterFail(l) == refs
AddActive(l) ==
    /\ lpc[l] = "add"
    /\ \/ /\ "ab" \in BindFails
          /\ lret' = [lret EXCEPT ![l] = "error"]
          /\ lpc' = [lpc EXCEPT ![l] = "done"]
          /\ refs' = RefsAfterFail(l)
          /\ UNCHANGED active
       \/ /\ active' = [active EXCEPT ![CtxOf[l]] = @ \cup {<<cur[l], l>>}]
          /\ lpc' = [lpc EXCEPT ![l] = "next"]
          /\ UNCHANGED <<lret, refs>>
    /\ UNCHANGED <<modVars, funcs, life, cur, known>>

\* b = list_next_entry(b), until the head is reached again.  (Mutant: b stays.)
FollowingSame(i) == list[i]
Following(i) == list[i + 1]
NextBinding(l) ==
    /\ lpc[l] = "next"
    /\ cur[l] \in Registered
    /\ LET i == IndexOf(cur[l]) IN
       IF i = Len(list)
       THEN lpc' = [lpc EXCEPT ![l] = "done"] /\ UNCHANGED cur
       ELSE lpc' = [lpc EXCEPT ![l] = "check"] /\ cur' = [cur EXCEPT ![l] = Following(i)]
    /\ UNCHANGED <<modVars, refs, ctxVars, lret, known>>

\* The binding the loader stands on was unregistered and freed under it: it
\* follows the owner or the poisoned link of freed memory.
LoaderOops(l) ==
    /\ lpc[l] \in {"get", "next"}
    /\ cur[l] \notin Registered
    /\ lpc' = [lpc EXCEPT ![l] = "oops"]
    /\ UNCHANGED <<modVars, refs, ctxVars, cur, lret, known>>

-----------------------------------------------------------------------------
(* lunatik_context_destroy.  It holds lc->mutex, which rmmod does not take: *)
(* modules can be unloaded between any two of its steps.                   *)

\* It begins with its loop over lc->active_bindings.
BeginDestroy(x) ==
    /\ life' = [life EXCEPT ![x] = "putting"]
    /\ UNCHANGED <<modVars, refs, active, funcs, loadVars>>

\* A context of its own is destroyed by the task that loaded it.
DestroyOwn(l) ==
    /\ CtxOf[l] # Default
    /\ lpc[l] = "done"
    /\ life[CtxOf[l]] = "open"
    /\ BeginDestroy(CtxOf[l])

\* lunatik_exit: the binding modules use the functions of lunatik_core, which
\* therefore cannot be unloaded before them.
Exit ==
    /\ life[Default] = "open"
    /\ \A m \in Modules : mod[m] \in {"absent", "gone"}
    /\ \A l \in Loaders : lpc[l] \in {"idle", "done", "oops"}
    /\ BeginDestroy(Default)

\* One turn of the loop, in any order: module_put(ab->b->owner) gives back the
\* reference that l took, list_del takes the entry out.  (Mutant: module_put is
\* not called.)
RefsAfterPutNone(m, l) == refs
RefsAfterPut(m, l) == [refs EXCEPT ![m] = @ \ {l}]
PutModule(x) ==
    /\ life[x] = "putting"
    /\ \E m \in Modules, l \in Loaders :
          /\ <<m, l>> \in active[x]
          /\ refs' = RefsAfterPut(m, l)
          /\ active' = [active EXCEPT ![x] = @ \ {<<m, l>>}]
    /\ UNCHANGED <<modVars, funcs, life, loadVars>>

\* lua_close: until here the functions are in the Lua state.
CloseState(x) ==
    /\ life[x] = "putting"
    /\ active[x] = {}
    /\ funcs' = [funcs EXCEPT ![x] = {}]
    /\ life' = [life EXCEPT ![x] = "closed"]
    /\ UNCHANGED <<modVars, refs, active, loadVars>>

-----------------------------------------------------------------------------
Init ==
    /\ mod = [m \in Modules |-> "absent"]
    /\ list = <<>>
    /\ refs = [m \in Modules |-> {}]
    /\ active = [x \in Contexts |-> {}]
    /\ funcs = [x \in Contexts |-> {}]
    /\ life = [x \in Contexts |-> "open"]
    /\ lpc = [l \in Loaders |-> "idle"]
    /\ cur = [l \in Loaders |-> NoModule]
    /\ lret = [l \in Loaders |-> "ok"]
    /\ known = [l \in Loaders |-> {}]

LoadStep(l) == \/ Check(l) \/ GetModule(l) \/ RegFunc(l) \/ AddActive(l)
               \/ NextBinding(l) \/ LoaderOops(l)

Next == \/ \E m \in Modules : Insert(m) \/ Unload(m) \/ Unregister(m)
        \/ \E l \in Loaders : StartLoad(l) \/ LoadStep(l) \/ DestroyOwn(l)
        \/ \E x \in Contexts : PutModule(x) \/ CloseState(x)
        \/ Exit

\* A running task is scheduled; nobody has to insert, unload or load anything.
Fairness == \A l \in Loaders : WF_vars(LoadStep(l))

Spec == Init /\ [][Next]_vars
FairSpec == Spec /\ Fairness

-----------------------------------------------------------------------------
(* Properties.                                                             *)

\* Types of the variables.
TypeOK ==
    /\ mod \in [Modules -> {"absent", "live", "going", "gone"}]
    /\ list \in Seq(Modules)
    /\ refs \in [Modules -> SUBSET Loaders]
    /\ active \in [Contexts -> SUBSET (Modules \X Loaders)]
    /\ funcs \in [Contexts -> SUBSET Modules]
    /\ life \in [Contexts -> {"open", "putting", "closed"}]
    /\ lpc \in [Loaders -> {"idle", "check", "get", "reg", "add", "next", "done", "oops"}]
    /\ cur \in [Loaders -> Modules \cup {NoModule}]
    /\ lret \in [Loaders -> {"ok", "error"}]
    /\ known \in [Loaders -> SUBSET Modules]

\* A C function in some Lua state belongs to a module that is loaded, however
\* loading failed on the way, until lunatik_context_destroy itself has put that
\* module: no other context's destruction, no failed or repeated load lets it be
\* unloaded.  From that module_put to lua_close the module may be gone.
FunctionsLoaded ==
    \A x \in Contexts : \A m \in funcs[x] :
        mod[m] = "live" \/ (life[x] = "putting" /\ ~IsActive(m, x))

\* Every reference is accounted for: it belongs to an active binding of the
\* context its taker worked on, to a load in progress, or to a load that failed
\* and kept it.  So module_put is called at most once for a reference, and what
\* pins a module for ever is a failed load or the default context.
Holds(l, m) == cur[l] = m /\ (lpc[l] \in {"reg", "add"} \/ lret[l] = "error")
RefsExplained ==
    \A m \in Modules :
        refs[m] = {l \in Loaders : Holds(l, m) \/ <<m, l>> \in active[CtxOf[l]]}

\* lunatik_bindings_load returns 0 only when every binding that was registered
\* when it began, and whose module has not been unloaded meanwhile, is active
\* in the context, although the list changes while it is walked.
LoadsAll ==
    \A l \in Loaders :
        lpc[l] = "done" /\ lret[l] = "ok" /\ life[CtxOf[l]] = "open" =>
            \A m \in known[l] : mod[m] = "live" => IsActive(m, CtxOf[l])

\* Whoever starts to load comes to an end: the walk over the changing list is
\* not caught in it.
LoadEnds == \A l \in Loaders : (lpc[l] # "idle") ~> (lpc[l] \in {"done", "oops"})
=============================================================================
