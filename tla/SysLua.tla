------------------------------- MODULE SysLua -------------------------------
(***************************************************************************)
(* The system call sys_lua (lib/lunatik/lunatik_syscall.c) on top of       *)
(* Loadcode: every call c creates a context CtxOf[c] of its own, runs the  *)
(* user's code in it and destroys it again.  With all three result         *)
(* pointers it uses lunatik_loadcode_sync and cleans up itself; with none  *)
(* it uses lunatik_loadcode_async_nores and leaves the cleanup to the      *)
(* callback sys_lua_async_cleanup, run by the context's own worker.        *)
(***************************************************************************)
EXTENDS Loadcode

CONSTANT SysFails   \* what may fail in sys_lua itself

ASSUME SysLuaAssumption ==
       /\ SysFails \subseteq {"code", "copy", "lc", "L", "wq", "bind", "info", "put"}
       /\ \A c1, c2 \in Calls : CtxOf[c1] = CtxOf[c2] => c1 = c2

VARIABLES
    spc,     \* where sys_lua is in call c
    ptrs,    \* which of r_type, r_data, r_size are non-NULL: none, all or some
    sysret,  \* what sys_lua returned
    L,       \* lc->L
    wq,      \* lc->lwq.wq
    ab,      \* the active_binding structs of the context
    info     \* the struct sys_lua_async_info

sysVars == <<spc, ptrs, sysret, L, wq, ab, info>>
allVars == <<vars, sysVars>>

\* goto out with the value r.
Leave(c, r) == /\ sysret' = Set(sysret, c, r)
               /\ spc' = Set(spc, c, "done")

\* goto out_lc with the value r.
LeaveDestroying(c, r) == /\ sysret' = Set(sysret, c, r)
                         /\ spc' = Set(spc, c, "out_lc")

-----------------------------------------------------------------------------
\* code_kern = kmalloc(); copy_from_user(); goto out or out_code on failure.
CopyCode(c) ==
    /\ spc[c] = "idle"
    /\ \E p \in {"none", "all", "some"} : ptrs' = Set(ptrs, c, p)
    /\ \/ "code" \in SysFails /\ Leave(c, "enomem") /\ UNCHANGED code
       \/ "copy" \in SysFails /\ Leave(c, "efault") /\ code' = Set(code, c, "freed")
       \/ /\ code' = Set(code, c, "live")
          /\ spc' = Set(spc, c, "create")
          /\ UNCHANGED sysret
    /\ UNCHANGED <<callVars, d, lw, res, at, dataVars, workVars, ctxVars, L, wq, ab, info>>

\* lunatik_context_create: without memory for lc or L nothing is left behind;
\* when the workqueue cannot be created, lc and L are.
CreateContext(c) ==
    /\ spc[c] = "create"
    /\ \/ /\ "lc" \in SysFails
          /\ Leave(c, "enomem")
          /\ code' = Set(code, c, "freed")
          /\ UNCHANGED <<lc, L, wq>>
       \/ /\ "L" \in SysFails
          /\ Leave(c, "enomem")
          /\ code' = Set(code, c, "freed")
          /\ lc' = Set(lc, CtxOf[c], "freed")
          /\ UNCHANGED <<L, wq>>
       \/ /\ "wq" \in SysFails
          /\ Leave(c, "enomem")
          /\ code' = Set(code, c, "freed")
          /\ lc' = Set(lc, CtxOf[c], "live")
          /\ L' = Set(L, CtxOf[c], "live")
          /\ UNCHANGED wq
       \/ /\ lc' = Set(lc, CtxOf[c], "live")
          /\ L' = Set(L, CtxOf[c], "live")
          /\ wq' = Set(wq, CtxOf[c], "live")
          /\ spc' = Set(spc, c, "bind")
          /\ UNCHANGED <<code, sysret>>
    /\ UNCHANGED <<callVars, d, lw, res, at, dataVars, workVars, lock, tpc, ptrs, ab, info>>

\* lunatik_bindings_load (module Bindings) fails or succeeds, and either way
\* may have allocated active_binding structs.
LoadBindings(c) ==
    /\ spc[c] = "bind"
    /\ ab' \in {ab, Set(ab, CtxOf[c], "live")}
    /\ \/ "bind" \in SysFails /\ LeaveDestroying(c, "enomem")
       \/ spc' = Set(spc, c, "dispatch") /\ UNCHANGED sysret
    /\ UNCHANGED <<callVars, memVars, dataVars, workVars, ctxVars, ptrs, L, wq, info>>

\* The branch on the three pointers, up to the call into lunatik.c.
Call(c, a, n) == /\ api' = Set(api, c, a)
                 /\ need' = Set(need, c, n)
                 /\ pc' = Set(pc, c, "alloc")
                 /\ spc' = Set(spc, c, a)

Dispatch(c) ==
    /\ spc[c] = "dispatch"
    /\ \/ /\ ptrs[c] = "none"
          /\ "info" \in SysFails
          /\ LeaveDestroying(c, "enomem")
          /\ UNCHANGED <<pc, api, need, info>>
       \/ /\ ptrs[c] = "none"
          /\ info' = Set(info, c, "live")
          /\ Call(c, "async_nores", FALSE)
          /\ UNCHANGED sysret
       \/ /\ ptrs[c] = "all"
          /\ Call(c, "sync", TRUE)
          /\ UNCHANGED <<sysret, info>>
       \/ /\ ptrs[c] = "some"
          /\ LeaveDestroying(c, "einval")
          /\ UNCHANGED <<pc, api, need, info>>
    /\ UNCHANGED <<ret, got, memVars, dataVars, workVars, ctxVars, ptrs, L, wq, ab>>

\* goto out skips the cleanup.  (Mutant: it does not.)
SkipNoCleanup(c) == LeaveDestroying(c, "ok")
SkipCleanup(c) == Leave(c, "ok")

\* lunatik_loadcode_async_nores returned; its value is ignored.
AsyncReturned(c) ==
    /\ spc[c] = "async_nores"
    /\ pc[c] = "returned"
    /\ pc' = Set(pc, c, "done")
    /\ SkipCleanup(c)
    /\ UNCHANGED <<api, need, ret, got, memVars, dataVars, workVars, ctxVars,
                   ptrs, L, wq, ab, info>>

\* if (!ret && ret2): an error in copying does not hide that of the run.
\* (Mutant: it does.)
CopyErrorAlways(c) == got[c]
CopyErrorCounts(c) == got[c] /\ ret[c] = "ok"

\* lunatik_loadcode_sync returned: a result is copied to user space, which may
\* fault, and freed.
SyncReturned(c) ==
    /\ spc[c] = "sync"
    /\ pc[c] = "returned"
    /\ pc' = Set(pc, c, "done")
    /\ res' = IF got[c] THEN Set(res, c, "freed") ELSE res
    /\ \/ LeaveDestroying(c, ret[c])
       \/ CopyErrorCounts(c) /\ "put" \in SysFails /\ LeaveDestroying(c, "efault")
    /\ UNCHANGED <<api, need, ret, got, d, lw, code, at, dataVars, workVars, ctxVars,
                   ptrs, L, wq, ab, info>>

\* lunatik_context_destroy: the modules are put, the list entries unlinked but
\* not freed, the Lua state closed and lc freed; the workqueue stays.
Destroy(x) == /\ lock[x] = NoCall
              /\ L' = Set(L, x, "freed")
              /\ lc' = Set(lc, x, "freed")

\* out_lc and out_code.  (Mutant: the code is freed but not the context.)
OutKeepContext(c) ==
    /\ spc[c] = "out_lc"
    /\ code' = Set(code, c, "freed")
    /\ spc' = Set(spc, c, "done")
    /\ UNCHANGED <<callVars, d, lw, res, at, dataVars, workVars, ctxVars, ptrs,
                   sysret, L, wq, ab, info>>
Out(c) ==
    /\ spc[c] = "out_lc"
    /\ Destroy(CtxOf[c])
    /\ code' = Set(code, c, "freed")
    /\ spc' = Set(spc, c, "done")
    /\ UNCHANGED <<callVars, d, lw, res, at, dataVars, workVars, lock, tpc, ptrs,
                   sysret, wq, ab, info>>

\* sys_lua_async_cleanup, called back by the worker with the data of call e: it
\* destroys the context and frees the code and the info.
AsyncCleanupOn(x, e) ==
    /\ wpc[x] = "in_cb"
    /\ Destroy(CtxOf[e])
    /\ cbs' = Set(cbs, e, cbs[e] + 1)
    /\ code' = Set(code, e, "freed")
    /\ info' = Set(info, e, "freed")
    /\ wpc' = Set(wpc, x, "cb_work")
    /\ UNCHANGED <<callVars, d, lw, res, at, dret, sem, work, queue, running, lock, tpc,
                   spc, ptrs, sysret, wq, ab>>
AsyncCleanup(x) == AsyncCleanupOn(x, Data(x))

-----------------------------------------------------------------------------
SysInit ==
    /\ InitWith("none")
    /\ spc = [c \in Calls |-> "idle"]
    /\ ptrs = [c \in Calls |-> "some"]
    /\ sysret = [c \in Calls |-> "none"]
    /\ L = [x \in Contexts |-> "none"]
    /\ wq = [x \in Contexts |-> "none"]
    /\ ab = [x \in Contexts |-> "none"]
    /\ info = [c \in Calls |-> "none"]

\* The steps of the calling task in sys_lua and in lunatik.c.
SysStep(c) ==
    \/ CreateContext(c) \/ LoadBindings(c) \/ Dispatch(c) \/ AsyncReturned(c)
    \/ SyncReturned(c) \/ Out(c)
    \/ CallStep(c) /\ UNCHANGED sysVars

SysWorkerStep(x) ==
    \/ AsyncCleanup(x)
    \/ WorkerStep(x) /\ UNCHANGED sysVars

AtRest ==
    /\ \A c \in Calls : spc[c] \in {"idle", "done"} \/ pc[c] = "oops"
    /\ \A x \in Contexts : wpc[x] = "oops" \/ (wpc[x] = "idle" /\ queue[x] = <<>>)

SysNext ==
    \/ \E c \in Calls : \/ CopyCode(c) \/ SysStep(c)
                        \/ Interrupt(c) /\ UNCHANGED sysVars
    \/ \E x \in Contexts : \/ SysWorkerStep(x)
                           \/ WorkerOops(x) /\ UNCHANGED sysVars
    \/ AtRest /\ UNCHANGED allVars

\* As in Loadcode; a user need not call sys_lua.
SysFairness == /\ \A c \in Calls : WF_allVars(SysStep(c))
               /\ \A x \in Contexts : WF_allVars(SysWorkerStep(x))

SysSpec == SysInit /\ [][SysNext]_allVars /\ SysFairness

-----------------------------------------------------------------------------
\* sys_lua destroys the context it created, and sys_lua_async_cleanup destroys
\* it from that context's own worker: still, the worker finds the context, the
\* Lua state and the chunk whenever it uses them, and the callback its info.
\* Stated for calls no signal interrupted.
ContextInUse ==
    \A x \in Contexts :
        LET c == running[x] IN
        wpc[x] \in {"lock", "exec", "unlock", "in_cb"} /\ ret[c] # "eintr" =>
            /\ lc[x] = "live" /\ L[x] = "live" /\ code[c] = "live"
            /\ wpc[x] = "in_cb" => info[c] = "live"

\* Nothing allocated for a system call outlives it: "It is memory-leak free".
\* The code frees neither the workqueue (lunatik_workqueue_deinit is never
\* called) nor the active_binding structs (lunatik_context_destroy only unlinks
\* them).
MemoryLeakFree ==
    AtRest => /\ \A c \in Calls : "live" \notin {d[c], lw[c], code[c], res[c], info[c]}
              /\ \A x \in Contexts : "live" \notin {lc[x], L[x], wq[x], ab[x]}

\* sys_lua and its callback do free what they set out to free: when all is over,
\* the chunk, the result, the info, the context and its Lua state of a call are
\* gone, whichever allocation or copy failed and whoever had to clean up.  Three
\* kinds of calls are left out because their cleanup is skipped: those ended by
\* a signal, those whose context got no workqueue (lunatik_context_create
\* returns without freeing), and those lunatik_loadcode_async_nores refused
\* (sys_lua expects the callback to clean up, and there is none).
Refused(c) == api[c] = "async_nores" /\ ret[c] = "enomem"
NoQueue(x) == lc[x] = "live" /\ wq[x] = "none"
CleansUp ==
    AtRest /\ (\A x \in Contexts : wpc[x] # "oops") =>
        \A c \in Calls :
            pc[c] # "oops" /\ ret[c] # "eintr" /\ ~Refused(c) /\ ~NoQueue(CtxOf[c]) =>
                "live" \notin {d[c], lw[c], res[c], code[c], info[c],
                               L[CtxOf[c]], lc[CtxOf[c]]}

\* The value sys_lua returns is the outcome of the run whenever the code ran
\* and nothing else failed; asynchronous calls report success whatever happens.
ReportsOutcome ==
    \A c \in Calls : spc[c] = "done" =>
        /\ ptrs[c] = "all" /\ dret[c] # "unset" /\ ret[c] # "eintr"
             => sysret[c] = dret[c] \/ (sysret[c] = "efault" /\ dret[c] = "ok")
        /\ api[c] = "async_nores" => sysret[c] = "ok"
        /\ ptrs[c] = "all" /\ sysret[c] = "ok" => dret[c] = "ok"

\* Every system call returns, and every asynchronous job it accepted is cleaned
\* up, unless a thread died on the way.
SysEventuallyReturns ==
    \A c \in Calls :
        (spc[c] # "idle") ~> (\/ pc[c] = "oops" \/ wpc[CtxOf[c]] = "oops"
                              \/ spc[c] = "done" /\ lc[CtxOf[c]] # "live"
                              \/ spc[c] = "done" /\ wq[CtxOf[c]] = "none"
                              \/ spc[c] = "done" /\ ret[c] = "enomem")
=============================================================================
