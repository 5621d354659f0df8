------------------------------ MODULE Loadcode ------------------------------
(***************************************************************************)
(* Execution of Lua code in lunatik contexts (lib/lunatik/lunatik.c).      *)
(*                                                                         *)
(* A call c is one invocation of lunatik_loadcode, _direct, _sync, _async, *)
(* _async_nores or lunatik_openlib on the context CtxOf[c].  All but       *)
(* _direct put a work item on the context's ordered workqueue; one worker  *)
(* per context runs the items one at a time.  A call and its worker share  *)
(* the heap blocks                                                         *)
(*     d    the struct loadcode_data        lw   the struct lunatik_work   *)
(*     code the chunk to run                res  the struct lunatik_result *)
(* and the context lc, and the model keeps which of them are allocated.    *)
(* Running Lua is one step with an arbitrary outcome.                      *)
(*                                                                         *)
(* Nothing stops a step from using a block that was freed: it then sees    *)
(* the stale contents, or what another call has put into the block since   *)
(* (variable at), or it kills its thread (WorkerOops).                     *)
(***************************************************************************)
EXTENDS Naturals, Sequences

CONSTANTS Calls,      \* the API invocations
          Contexts,   \* the lunatik contexts
          CtxOf,      \* the context each call is made on
          Variants,   \* the API functions the calls may use
          Fails,      \* the allocations that may fail, a subset of {"d","lw","res"}
          Signals,    \* whether a waiting task may receive a signal
          Reuse,      \* the API functions whose kzalloc may return a freed d again
          Teardown,   \* whether lunatik_exit destroys the contexts in the end
          NoCall      \* "no call": an idle worker, an unlocked mutex

Api == {"loadcode", "loadcode_nores", "direct", "sync", "async", "async_nores",
        "openlib"}

ASSUME LoadcodeAssumption ==
       /\ CtxOf \in [Calls -> Contexts]
       /\ Variants \subseteq Api
       /\ Fails \subseteq {"d", "lw", "res"}
       /\ Signals \in BOOLEAN
       /\ Reuse \subseteq Api
       /\ Teardown \in BOOLEAN
       /\ NoCall \notin Calls

VARIABLES
    pc,       \* where the calling task of c is
    api,      \* which function c invoked
    need,     \* d->need_result
    ret,      \* what the function returned
    got,      \* whether *presult was set to a result
    d, lw, code, res,   \* state of the blocks of each call
    at,       \* the call whose loadcode_data is in the block that was c's d
    dret,     \* d->ret
    sem,      \* d->complete
    work,     \* the work_struct: never queued, pending, running or finished
    cbs,      \* how often the client's callback was called
    queue,    \* pending work items of each context
    wpc,      \* where the worker of each context is
    running,  \* the call whose work item the worker runs
    lock,     \* on behalf of which call lc->mutex is held
    lc,       \* state of the context itself
    tpc       \* where lunatik_exit is for each context

callVars == <<pc, api, need, ret, got>>
memVars  == <<d, lw, code, res, at>>
dataVars == <<dret, sem, work, cbs>>
workVars == <<queue, wpc, running>>
ctxVars  == <<lock, lc, tpc>>
vars == <<callVars, memVars, dataVars, workVars, ctxVars>>

PC == {"idle", "alloc", "create", "wait", "free", "lock", "exec", "unlock", "returned",
       "done", "oops"}
WorkerPC == {"idle", "lock", "exec", "unlock", "up", "cb", "in_cb", "cb_work", "oops"}
Block == {"none", "live", "freed"}
Outcome == {"unset", "ok", "lua_err", "enomem", "einval"}
Return  == Outcome \cup {"none", "eintr"}

\* API functions grouped by what they store in struct loadcode_data.
Waits(c)       == api[c] \in {"loadcode", "sync"}        \* down_interruptible
Detached(c)    == api[c] \in {"loadcode_nores", "async", "async_nores"}
HasCallback(c) == api[c] \in {"async", "async_nores"}

Set(f, c, v) == [f EXCEPT ![c] = v]

-----------------------------------------------------------------------------
(* The calling task.                                                       *)

\* The client passes code (kernel memory) and chooses the function.  Only
\* _direct and _sync leave it open whether a result is wanted.
Begin(c) ==
    /\ pc[c] = "idle"
    /\ tpc[CtxOf[c]] = "idle"
    /\ \E a \in Variants, n \in BOOLEAN :
         /\ a \in {"loadcode", "async"} => n
         /\ a \in {"loadcode_nores", "async_nores", "openlib"} => ~n
         /\ api' = Set(api, c, a)
         /\ need' = Set(need, c, n)
         /\ code' = IF a = "openlib" THEN code ELSE Set(code, c, "live")
         /\ pc' = Set(pc, c, IF a = "openlib" THEN "create" ELSE "alloc")
    /\ UNCHANGED <<ret, got, d, lw, res, at, dataVars, workVars, ctxVars>>

\* d = kzalloc() fails: out of memory is reported to the client.
AllocDataFails(c) ==
    /\ pc[c] = "alloc"
    /\ "d" \in Fails
    /\ ret' = Set(ret, c, "enomem")
    /\ pc' = Set(pc, c, "returned")
    /\ UNCHANGED <<api, need, got, memVars, dataVars, workVars, ctxVars>>

\* What kzalloc may return to c: a block of its own, or the block of a call
\* that has freed its d.
FreeBlocks(c) == {c} \cup {e \in Calls : api[c] \in Reuse /\ d[at[e]] = "freed"}

\* d = kzalloc(); d->ret = -1; sema_init(&d->complete, 0).  Whoever still has a
\* pointer to the block now sees the data of c there.
AllocData(c) ==
    /\ pc[c] = "alloc"
    /\ \E b \in FreeBlocks(c) :
          at' = [e \in Calls |-> IF at[e] = at[b] THEN c ELSE at[e]]
    /\ d' = Set(d, c, "live")
    /\ dret' = Set(dret, c, "unset")
    /\ sem' = Set(sem, c, 0)
    /\ pc' = Set(pc, c, IF api[c] = "direct" THEN "lock" ELSE "create")
    /\ UNCHANGED <<api, need, ret, got, lw, code, res, work, cbs, workVars, ctxVars>>

\* lunatik_work_create reports failure as ERR_PTR, which the callers' test
\* for NULL does not see: lunatik_work_queue then dereferences it.
CreateWorkFails(c) ==
    /\ pc[c] = "create"
    /\ "lw" \in Fails
    /\ pc' = Set(pc, c, "oops")
    /\ UNCHANGED <<api, need, ret, got, memVars, dataVars, workVars, ctxVars>>

\* queue_work.  (Mutant: pending items are overwritten.)
EnqueueOver(q, c) == <<c>>
Enqueue(q, c) == Append(q, c)

\* After queueing, the functions that do not wait return 0 at once.  (Mutant:
\* they fall through to the cleanup of the waiting case.)
NextAfterQueueFree(c) == IF Waits(c) THEN "wait" ELSE "free"
NextAfterQueue(c) == IF Waits(c) THEN "wait" ELSE "returned"

\* lunatik_work_create and lunatik_work_queue.
QueueWork(c) ==
    /\ pc[c] = "create"
    /\ lw' = Set(lw, c, "live")
    /\ work' = Set(work, c, "pending")
    /\ queue' = [queue EXCEPT ![CtxOf[c]] = Enqueue(@, c)]
    /\ pc' = Set(pc, c, NextAfterQueue(c))
    /\ ret' = IF Waits(c) THEN ret ELSE Set(ret, c, "ok")
    /\ UNCHANGED <<api, need, got, d, code, res, at, dret, sem, cbs, wpc, running,
                   ctxVars>>

\* The semaphore d->complete.  (Mutant: the result is taken without waiting.)
CompletedAnyway(c) == TRUE
Completed(c) == sem[c] > 0

\* down_interruptible(&d->complete) succeeds: *presult = d->result, ret = d->ret.
Down(c) ==
    /\ pc[c] = "wait"
    /\ Completed(c)
    /\ sem' = Set(sem, c, sem[c] - 1)
    /\ ret' = Set(ret, c, dret[c])
    /\ got' = Set(got, c, need[c] /\ res[c] = "live")
    /\ pc' = Set(pc, c, "free")
    /\ UNCHANGED <<api, need, memVars, dret, work, cbs, workVars, ctxVars>>

\* A signal ends down_interruptible; *presult is left alone.
Interrupt(c) ==
    /\ Signals
    /\ pc[c] = "wait"
    /\ sem[c] = 0
    /\ ret' = Set(ret, c, "eintr")
    /\ pc' = Set(pc, c, "free")
    /\ UNCHANGED <<api, need, got, memVars, dataVars, workVars, ctxVars>>

\* out_free_work and out_free: lunatik_work_destroy(lw), kfree(d).
FreeWork(c) ==
    /\ pc[c] = "free"
    /\ lw' = Set(lw, c, "freed")
    /\ d' = Set(d, c, "freed")
    /\ pc' = Set(pc, c, "returned")
    /\ UNCHANGED <<api, need, ret, got, code, res, at, dataVars, workVars, ctxVars>>

-----------------------------------------------------------------------------
(* loadcode_internal, run by the worker or by a caller of _direct.         *)

\* Mutant: the mutex is not taken.
LockIgnored(c) == lock' = Set(lock, CtxOf[c], c)

\* lunatik_context_lock(lc) on behalf of call c.
Lock(c) == /\ lock[CtxOf[c]] = NoCall
           /\ lock' = Set(lock, CtxOf[c], c)

\* Mutant: the mutex is not released.
UnlockForgotten(c) == UNCHANGED lock

\* lunatik_context_unlock(lc).
Unlock(c) == lock' = Set(lock, CtxOf[c], NoCall)

\* luaL_loadbuffer and lua_pcall leave one value, the result or the error;
\* lunatik_result_get copies it if it is wanted, and lua_pop removes it.
\* lunatik_result_get may run out of memory, with or without a struct to
\* return, and turns a value it does not support into -EINVAL.
RunLua(c) ==
    \/ /\ ~need[c]
       /\ \E o \in {"ok", "lua_err"} : dret' = Set(dret, c, o)
       /\ UNCHANGED res
    \/ /\ need[c]
       /\ "res" \in Fails
       /\ dret' = Set(dret, c, "enomem")
       /\ res' \in {res, Set(res, c, "live")}
    \/ /\ need[c]
       /\ \E o \in {"ok", "lua_err", "einval"} : dret' = Set(dret, c, o)
       /\ res' = Set(res, c, "live")

DirectLock(c) ==
    /\ pc[c] = "lock"
    /\ Lock(c)
    /\ pc' = Set(pc, c, "exec")
    /\ UNCHANGED <<api, need, ret, got, memVars, dataVars, workVars, lc, tpc>>

DirectExec(c) ==
    /\ pc[c] = "exec"
    /\ RunLua(c)
    /\ pc' = Set(pc, c, "unlock")
    /\ UNCHANGED <<api, need, ret, got, d, lw, code, at, sem, work, cbs, workVars,
                   lock, lc, tpc>>

\* Unlock, hand over d->result and d->ret, kfree(d).
DirectReturn(c) ==
    /\ pc[c] = "unlock"
    /\ Unlock(c)
    /\ ret' = Set(ret, c, dret[c])
    /\ got' = Set(got, c, need[c] /\ res[c] = "live")
    /\ d' = Set(d, c, "freed")
    /\ pc' = Set(pc, c, "returned")
    /\ UNCHANGED <<api, need, lw, code, res, at, dataVars, workVars, lc, tpc>>

-----------------------------------------------------------------------------
(* The worker of context x: loadcode_work_handler and openlib_work_handler.*)
(* The handler has its work item's lw and, through it, a pointer to a d:   *)
(* what it finds there belongs to the call Data(x).  The steps that use d  *)
(* are stated for any call e whose data that may be.                       *)

Data(x) == at[running[x]]

\* The workqueue takes the oldest item and calls its handler.
Dequeue(x) ==
    /\ wpc[x] = "idle"
    /\ queue[x] # <<>>
    /\ running' = Set(running, x, Head(queue[x]))
    /\ queue' = Set(queue, x, Tail(queue[x]))
    /\ work' = Set(work, Head(queue[x]), "running")
    /\ wpc' = Set(wpc, x, "lock")
    /\ UNCHANGED <<callVars, memVars, dret, sem, cbs, ctxVars>>

WorkerLock(x) ==
    /\ wpc[x] = "lock"
    /\ Lock(running[x])
    /\ wpc' = Set(wpc, x, "exec")
    /\ UNCHANGED <<callVars, memVars, dataVars, queue, running, lc, tpc>>

\* openlib ignores the status of its lua_pcall, which has no d to go to; dret
\* records it all the same.
ExecOn(x, e) ==
    /\ wpc[x] = "exec"
    /\ RunLua(e)
    /\ wpc' = Set(wpc, x, "unlock")
    /\ UNCHANGED <<callVars, d, lw, code, at, sem, work, cbs, queue, running, lock,
                   lc, tpc>>
WorkerExec(x) == ExecOn(x, Data(x))

\* The handler of lunatik_openlib ends here and keeps its work item.
WorkerUnlock(x) ==
    /\ wpc[x] = "unlock"
    /\ Unlock(running[x])
    /\ IF api[running[x]] = "openlib"
       THEN /\ wpc' = Set(wpc, x, "idle")
            /\ running' = Set(running, x, NoCall)
            /\ work' = Set(work, running[x], "finished")
       ELSE /\ wpc' = Set(wpc, x, "up")
            /\ UNCHANGED <<running, work>>
    /\ UNCHANGED <<callVars, memVars, dret, sem, cbs, queue, lc, tpc>>

\* up(&d->complete)
UpOn(x, e) ==
    /\ wpc[x] = "up"
    /\ sem' = Set(sem, e, sem[e] + 1)
    /\ wpc' = Set(wpc, x, "cb")
    /\ UNCHANGED <<callVars, memVars, dret, work, cbs, queue, running, ctxVars>>
WorkerUp(x) == UpOn(x, Data(x))

\* if (d->callback) or if (d->callback_nores): call into the client.  (Mutant:
\* the callback is skipped.)
NextAfterUpSkip(e) == "cb_work"
NextAfterUp(e) == IF HasCallback(e) THEN "in_cb" ELSE "cb_work"
TestCallbackOn(x, e) ==
    /\ wpc[x] = "cb"
    /\ wpc' = Set(wpc, x, NextAfterUp(e))
    /\ UNCHANGED <<callVars, memVars, dataVars, queue, running, ctxVars>>
WorkerTestCallback(x) == TestCallbackOn(x, Data(x))

\* External: a client's callback releases the code and the result it is given.
CallbackOn(x, e) ==
    /\ wpc[x] = "in_cb"
    /\ cbs' = Set(cbs, e, cbs[e] + 1)
    /\ code' = Set(code, e, "freed")
    /\ res' = IF res[e] = "live" THEN Set(res, e, "freed") ELSE res
    /\ wpc' = Set(wpc, x, "cb_work")
    /\ UNCHANGED <<callVars, d, lw, at, dret, sem, work, queue, running, ctxVars>>
ClientCallback(x) == CallbackOn(x, Data(x))

\* The handler frees d and lw if d->callback_work is set, and d->code too if
\* that is loadcode_work_cleanup.  (Mutants: d->callback_work is set for waiting
\* callers too; it is always loadcode_async_work_cleanup.)
FreesWorkAlways(e) == TRUE
FreesWork(e) == Detached(e)
FreesCodeNever(e) == FALSE
FreesCode(e) == api[e] = "loadcode_nores"

\* if (d->callback_work): loadcode_work_cleanup or loadcode_async_work_cleanup.
CleanupOn(x, e) ==
    /\ wpc[x] = "cb_work"
    /\ LET c == running[x] IN
         /\ work' = Set(work, c, "finished")
         /\ lw' = IF FreesWork(e) THEN Set(lw, c, "freed") ELSE lw
    /\ d' = IF FreesWork(e) THEN Set(d, e, "freed") ELSE d
    /\ code' = IF FreesCode(e) THEN Set(code, e, "freed") ELSE code
    /\ wpc' = Set(wpc, x, "idle")
    /\ running' = Set(running, x, NoCall)
    /\ UNCHANGED <<callVars, res, at, dret, sem, cbs, queue, ctxVars>>
WorkerCleanup(x) == CleanupOn(x, Data(x))

-----------------------------------------------------------------------------
(* What the next step of a worker dereferences or frees.                   *)

\* The workqueue follows the list node in the lw of the oldest item.
HeadUsable(x) == queue[x] # <<>> => lw[Head(queue[x])] = "live"

\* The handler of call c reads lw->lc and lw->work_data, then uses d, with the
\* data of e in it, and d->code, to print the code (DEBUG is defined) before it
\* takes the mutex and to run it after; openlib_work_handler has only lw.
HandlerUsable(x, c, e) ==
    /\ wpc[x] = "lock" => lw[c] = "live"
    /\ wpc[x] \in {"exec", "unlock"} /\ api[c] = "openlib" => lw[c] = "live"
    /\ wpc[x] \in {"lock", "exec"} /\ api[c] # "openlib" => d[e] = "live" /\ code[e] = "live"
    /\ wpc[x] \in {"up", "cb", "cb_work"} => d[e] = "live"
    /\ wpc[x] = "in_cb" => code[e] = "live"
    /\ wpc[x] = "cb_work" /\ FreesWork(e) => lw[c] = "live"
    /\ wpc[x] = "cb_work" /\ FreesCode(e) => code[e] = "live"

\* The context is used from taking its mutex to releasing it.
ContextUsable(x) == wpc[x] \in {"lock", "exec", "unlock"} => lc[x] = "live"

\* A worker that follows a pointer into freed memory may take a fault.
WorkerOops(x) ==
    /\ \/ wpc[x] = "idle" /\ ~HeadUsable(x)
       \/ wpc[x] \notin {"idle", "oops"} /\ ~HandlerUsable(x, running[x], Data(x))
       \/ ~ContextUsable(x)
    /\ wpc' = Set(wpc, x, "oops")
    /\ UNCHANGED <<callVars, memVars, dataVars, queue, running, ctxVars>>

-----------------------------------------------------------------------------
(* The client after the call, and the end of the module.                   *)

\* External: the client frees the result it got, and the code unless it was
\* handed to lunatik (loadcode without result) or to the callback.
ClientRelease(c) ==
    /\ pc[c] = "returned"
    /\ res' = IF got[c] THEN Set(res, c, "freed") ELSE res
    /\ code' = IF api[c] = "openlib" \/ (Detached(c) /\ ret[c] = "ok")
               THEN code ELSE Set(code, c, "freed")
    /\ pc' = Set(pc, c, "done")
    /\ UNCHANGED <<api, need, ret, got, d, lw, at, dataVars, workVars, ctxVars>>

\* External: lunatik_core cannot be unloaded while a client module uses its
\* functions, and a client stays as long as it expects a callback.  (Mutant:
\* clients do not wait for their callbacks.)
ClientReturned(c) == pc[c] \in {"idle", "done", "oops"}
ClientGone(c) == /\ pc[c] \in {"idle", "done", "oops"}
                 /\ HasCallback(c) /\ ret[c] = "ok" => cbs[c] = 1

\* lunatik_exit: no client module is left.
Exit(x) ==
    /\ Teardown
    /\ tpc[x] = "idle"
    /\ \A c \in Calls : CtxOf[c] = x => ClientGone(c)
    /\ tpc' = Set(tpc, x, "lock")
    /\ UNCHANGED <<callVars, memVars, dataVars, workVars, lock, lc>>

\* lunatik_context_destroy: with the mutex held, lua_close; then unlock, kfree.
\* (Nothing can take the mutex while the Lua state is closed.)
DestroyContext(x) ==
    /\ tpc[x] = "lock"
    /\ lock[x] = NoCall
    /\ lc' = Set(lc, x, "freed")
    /\ tpc' = Set(tpc, x, "done")
    /\ UNCHANGED <<callVars, memVars, dataVars, workVars, lock>>

-----------------------------------------------------------------------------
InitWith(lc0) ==
    /\ pc = [c \in Calls |-> "idle"]
    /\ api = [c \in Calls |-> "none"]
    /\ need = [c \in Calls |-> FALSE]
    /\ ret = [c \in Calls |-> "none"]
    /\ got = [c \in Calls |-> FALSE]
    /\ d = [c \in Calls |-> "none"]
    /\ lw = [c \in Calls |-> "none"]
    /\ code = [c \in Calls |-> "none"]
    /\ res = [c \in Calls |-> "none"]
    /\ at = [c \in Calls |-> c]
    /\ dret = [c \in Calls |-> "unset"]
    /\ sem = [c \in Calls |-> 0]
    /\ work = [c \in Calls |-> "none"]
    /\ cbs = [c \in Calls |-> 0]
    /\ queue = [x \in Contexts |-> <<>>]
    /\ wpc = [x \in Contexts |-> "idle"]
    /\ running = [x \in Contexts |-> NoCall]
    /\ lock = [x \in Contexts |-> NoCall]
    /\ lc = [x \in Contexts |-> lc0]
    /\ tpc = [x \in Contexts |-> "idle"]

\* lunatik_init has created the (default) contexts.
Init == InitWith("live")

\* The steps of the calling task that belong to lunatik.c.
CallStep(c) ==
    \/ AllocData(c) \/ AllocDataFails(c) \/ CreateWorkFails(c) \/ QueueWork(c)
    \/ Down(c) \/ FreeWork(c)
    \/ DirectLock(c) \/ DirectExec(c) \/ DirectReturn(c)

\* The steps of the worker that belong to lunatik.c.
WorkerStep(x) ==
    \/ Dequeue(x) \/ WorkerLock(x) \/ WorkerExec(x) \/ WorkerUnlock(x)
    \/ WorkerUp(x) \/ WorkerTestCallback(x) \/ WorkerCleanup(x)

Quiescent ==
    /\ \A c \in Calls : pc[c] \in {"idle", "done", "oops"}
    /\ \A x \in Contexts : wpc[x] = "oops" \/ (wpc[x] = "idle" /\ queue[x] = <<>>)
    /\ \A x \in Contexts : Teardown => tpc[x] = "done"

\* Every call was made and everything has come to rest.
Terminated == Quiescent /\ UNCHANGED vars

\* All steps but the arrival of a signal.
QuietNext ==
    \/ \E c \in Calls : Begin(c) \/ CallStep(c) \/ ClientRelease(c)
    \/ \E x \in Contexts : \/ WorkerStep(x) \/ ClientCallback(x) \/ WorkerOops(x)
                           \/ Exit(x) \/ DestroyContext(x)
    \/ Terminated

Next == QuietNext \/ \E c \in Calls : Interrupt(c)

Spec == Init /\ [][Next]_vars

\* The kernel schedules every runnable task and the workqueue's worker, Lua
\* code terminates, and callbacks return.  Clients need not call anything.  The
\* fair specification is the one without signals.
Fairness ==
    /\ \A c \in Calls : WF_vars(CallStep(c) \/ ClientRelease(c))
    /\ \A x \in Contexts : WF_vars(WorkerStep(x) \/ ClientCallback(x))

FairSpec == Init /\ [][QuietNext]_vars /\ Fairness

-----------------------------------------------------------------------------
(* Properties.                                                             *)

\* Types of the variables.
TypeOK ==
    /\ pc \in [Calls -> PC]
    /\ api \in [Calls -> Api \cup {"none"}]
    /\ need \in [Calls -> BOOLEAN]
    /\ ret \in [Calls -> Return]
    /\ got \in [Calls -> BOOLEAN]
    /\ d \in [Calls -> Block]
    /\ lw \in [Calls -> Block]
    /\ code \in [Calls -> Block]
    /\ res \in [Calls -> Block]
    /\ at \in [Calls -> Calls]
    /\ dret \in [Calls -> Outcome]
    /\ sem \in [Calls -> Nat]
    /\ work \in [Calls -> {"none", "pending", "running", "finished"}]
    /\ cbs \in [Calls -> Nat]
    /\ queue \in [Contexts -> Seq(Calls)]
    /\ wpc \in [Contexts -> WorkerPC]
    /\ running \in [Contexts -> Calls \cup {NoCall}]
    /\ lock \in [Contexts -> Calls \cup {NoCall}]
    /\ lc \in [Contexts -> Block]
    /\ tpc \in [Contexts -> {"idle", "lock", "done"}]

\* lc->mutex: at most one thread, a caller of lunatik_loadcode_direct or the
\* context's worker, is inside the Lua state of a context.
InLua(c) == pc[c] \in {"exec", "unlock"}
WorkerInLua(x) == wpc[x] \in {"exec", "unlock"}
MutualExclusion ==
    \A c1, c2 \in Calls :
        /\ InLua(c1) /\ InLua(c2) /\ CtxOf[c1] = CtxOf[c2] => c1 = c2
        /\ InLua(c1) => ~WorkerInLua(CtxOf[c1])

\* Everything the workqueue and the handlers use is allocated and belongs to
\* the job they work for, with one exception: up() lets the waiting caller free
\* d, and the handler then still tests d->callback, d->callback_nores and
\* d->callback_work.  It finds none of them, so that nothing is called and
\* nothing is freed.  (Checked and proved without signals, and as long as no
\* asynchronous call is given the block at that moment: its callback would be
\* found there.)
LateTest(x) == /\ wpc[x] \in {"cb", "cb_work"} /\ Waits(running[x])
               /\ ~HasCallback(Data(x)) /\ ~FreesWork(Data(x))
HandlerMemory ==
    \A x \in Contexts :
        /\ HeadUsable(x)
        /\ wpc[x] \notin {"idle", "oops"} =>
             HandlerUsable(x, running[x], running[x]) \/ LateTest(x)

\* A task that waits on d->complete, or is about to free d and lw, still owns
\* them: lunatik_loadcode and lunatik_loadcode_sync never free twice.
WaiterMemory ==
    \A c \in Calls : pc[c] \in {"wait", "free"} => d[c] = "live" /\ lw[c] = "live"

\* A waiting caller leaves lunatik_loadcode or lunatik_loadcode_sync without an
\* error of its own only after the Lua code ran, with that run's outcome, and
\* holds a result only if it asked for one.
UninterruptedWait ==
    \A c \in Calls :
        Waits(c) /\ work[c] # "none" /\ ret[c] \notin {"none", "eintr"}
            => dret[c] # "unset" /\ ret[c] = dret[c] /\ (got[c] => need[c])

\* "Lua execution on workqueue with waiting until done": whatever way a caller
\* leaves lunatik_loadcode_sync, the Lua code has run and the chunk and the
\* context passed are no longer in use.
WaitsUntilDone ==
    \A c \in Calls :
        Waits(c) /\ work[c] # "none" /\ pc[c] \in {"free", "returned", "done"}
            => dret[c] # "unset"

\* lunatik_exit destroys a context only when no handler uses it any more, except
\* for jobs whose end nobody learns of: lunatik_exit flushes no workqueue, and
\* lunatik_loadcode without result and lunatik_openlib report to nobody.
ContextMemory ==
    \A x \in Contexts :
        wpc[x] # "oops" /\ ~ContextUsable(x)
            => api[running[x]] \in {"loadcode_nores", "openlib"}

\* Once everything has come to rest, every block of every call has been
\* released, by the caller, the handler or the callback.  (lunatik_openlib
\* never releases its work item, and a thread that died releases nothing.)
NoLeak ==
    Quiescent /\ (\A x \in Contexts : wpc[x] # "oops") =>
        \A c \in Calls : pc[c] # "oops" /\ api[c] # "openlib" =>
            "live" \notin {d[c], lw[c], code[c], res[c]}

\* A client that asked for a callback is called exactly once after its job ran,
\* and never when the call was refused.
CallbackOnce ==
    \A c \in Calls :
        /\ cbs[c] <= 1
        /\ cbs[c] = 1 => HasCallback(c) /\ dret[c] # "unset"
        /\ HasCallback(c) /\ work[c] = "finished" => cbs[c] = 1

\* Every accepted asynchronous job is eventually reported to its client, unless
\* the worker died.
EventuallyCalledBack ==
    \A c \in Calls : (HasCallback(c) /\ ret[c] = "ok")
                        ~> (cbs[c] = 1 \/ wpc[CtxOf[c]] = "oops")

\* Every call comes to an end, unless the worker died: the mutex, the queue and
\* the semaphore never block for ever.
EventuallyReturns ==
    \A c \in Calls : (pc[c] # "idle")
                        ~> (pc[c] \in {"done", "oops"} \/ wpc[CtxOf[c]] = "oops")
=============================================================================
