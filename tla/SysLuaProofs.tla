---------------------------- MODULE SysLuaProofs ----------------------------
(***************************************************************************)
(* Theorems about sys_lua, for any number of system calls, any failures,   *)
(* and signals, as long as the reuse of freed blocks is harmless.          *)
(*                                                                         *)
(* The steps sys_lua takes in lunatik.c are steps of Loadcode, so they     *)
(* keep Inv and LifeInv; the steps of lunatik_syscall.c are shown to keep  *)
(* them too.  SysLife(c) adds what sys_lua itself has allocated and        *)
(* returned, depending on where the call is.                               *)
(***************************************************************************)
EXTENDS SysLua, LoadcodeLifeProofs

SysPC == {"idle", "create", "bind", "dispatch", "sync", "async_nores", "out_lc", "done"}

SysTypes ==
    /\ spc \in [Calls -> SysPC]
    /\ ptrs \in [Calls -> {"none", "all", "some"}]
    /\ sysret \in [Calls -> Return \cup {"efault"}]
    /\ L \in [Contexts -> Block]
    /\ wq \in [Contexts -> Block]
    /\ info \in [Calls -> Block]

\* The callback has not begun, or is over.
Early == {"none", "pending", "lock", "exec", "unlock", "up", "cb", "in_cb"}
Late  == {"cb_work", "finished"}

\* Where sys_lua is in lunatik_syscall.c and in lunatik.c.
PlaceLife(c) ==
    /\ spc[c] \in {"idle", "create", "bind", "dispatch"} => pc[c] = "idle"
    /\ spc[c] \in {"sync", "async_nores"} => api[c] = spc[c] /\ pc[c] # "done"
    /\ spc[c] \in {"out_lc", "done"} => pc[c] \in {"idle", "done"}
    /\ spc[c] = "out_lc" => api[c] # "async_nores"
    /\ api[c] \in {"none", "sync", "async_nores"}
    /\ api[c] = "sync" => ptrs[c] = "all"
    /\ api[c] = "async_nores" => ptrs[c] = "none"

\* What the call, its context x and its info are made of at each place.
HeldLife(c, x) ==
    /\ spc[c] = "idle" => code[c] = "none"
    /\ spc[c] \in {"idle", "create"} => lc[x] = "none" /\ L[x] = "none" /\ wq[x] = "none"
    /\ spc[c] \in {"create", "bind", "dispatch", "sync", "out_lc"} => code[c] = "live"
    /\ spc[c] \in {"bind", "dispatch", "sync", "out_lc"} => lc[x] = "live" /\ L[x] = "live"
    /\ api[c] # "async_nores" => info[c] = "none"
    /\ api[c] = "async_nores" /\ Stage(c) \in Early =>
         code[c] = "live" /\ lc[x] = "live" /\ L[x] = "live" /\ info[c] = "live"
    /\ api[c] = "async_nores" /\ Stage(c) \in Late =>
         code[c] = "freed" /\ lc[x] = "freed" /\ L[x] = "freed" /\ info[c] = "freed"
    /\ spc[c] = "done" /\ api[c] = "sync" =>
         code[c] = "freed" /\ lc[x] = "freed" /\ L[x] = "freed"
    /\ spc[c] = "done" /\ api[c] = "none" =>
         /\ code[c] # "live"
         /\ \/ lc[x] # "live" /\ L[x] # "live"
            \/ lc[x] = "live" /\ L[x] = "live" /\ wq[x] = "none"
    /\ wq[x] # "freed"

\* What sys_lua returns.
ReportLife(c) ==
    /\ api[c] = "sync" /\ spc[c] \in {"out_lc", "done"} =>
         sysret[c] = ret[c] \/ (sysret[c] = "efault" /\ ret[c] = "ok")
    /\ api[c] = "none" /\ spc[c] \in {"out_lc", "done"} => sysret[c] # "ok"
    /\ api[c] = "async_nores" /\ spc[c] = "done" => sysret[c] = "ok"

SysLife(c) == PlaceLife(c) /\ HeldLife(c, CtxOf[c]) /\ ReportLife(c)

SysInv == Inv /\ LifeInv /\ AliasInv /\ SysTypes /\ (\A c \in Calls : SysLife(c))

-----------------------------------------------------------------------------
\* The steps of lunatik.c that sys_lua and its worker take.
Core == \/ \E c \in Calls : CallStep(c) \/ Interrupt(c)
        \/ \E x \in Contexts : PlainWorker(x) \/ WorkerOops(x)

\* What such a step may do to a call, as far as sys_lua sees it.
Moves(e) ==
    /\ api'[e] = api[e]
    /\ api[e] # "loadcode_nores" => code'[e] = code[e]
    /\ pc[e] \in {"idle", "done"} => pc'[e] = pc[e] /\ ret'[e] = ret[e]
    /\ pc[e] \notin {"idle", "done"} => pc'[e] \notin {"idle", "done"}
    /\ Stage(e)' \in Early => Stage(e) \in Early
    /\ Stage(e)' \in Late /\ HasCallback(e) => Stage(e) \in Late

\* No step of lunatik.c touches a call that has not begun or has returned, and
\* the callback is only passed by calling it.
LEMMA CoreMoves ==
    ASSUME Inv, LifeInv, Core
    PROVE  (\A e \in Calls : Moves(e)) /\ UNCHANGED lc
<1> DEFINE Goal == (\A e \in Calls : Moves(e)) /\ UNCHANGED lc
<1>1. TypeOK /\ QueueInv /\ RunsItem /\ \A e \in Calls : Life(e)
  BY DEF Inv, LifeInv
<1>0. ASSUME NEW x \in Contexts, Busy(x)
      PROVE  running[x] \in Calls /\ CtxOf[running[x]] = x /\ work[running[x]] = "running"
  BY <1>0, <1>1 DEF QueueInv, Running
<1> USE LoadcodeAssumption, <1>1 DEF TypeOK, Set, callVars, memVars, dataVars, workVars, ctxVars
<1>2. ASSUME NEW c \in Calls, AllocData(c) PROVE Goal
  <2>1. /\ pc[c] = "alloc" /\ pc'[c] \notin {"idle", "done"}
        /\ \A e \in Calls \ {c} : pc'[e] = pc[e] /\ ret'[e] = ret[e]
        /\ UNCHANGED <<api, code, work, wpc, lc>>
    BY <1>2 DEF AllocData
  <2> HIDE <1>1 DEF TypeOK, Set
  <2> QED
    BY <2>1 DEF Moves, Stage
<1>3. ASSUME NEW c \in Calls, AllocDataFails(c) PROVE Goal
  <2>1. /\ pc[c] = "alloc" /\ pc'[c] \notin {"idle", "done"}
        /\ \A e \in Calls \ {c} : pc'[e] = pc[e] /\ ret'[e] = ret[e]
        /\ UNCHANGED <<api, code, work, wpc, lc>>
    BY <1>3 DEF AllocDataFails
  <2> HIDE <1>1 DEF TypeOK, Set
  <2> QED
    BY <2>1 DEF Moves, Stage
<1>4. ASSUME NEW c \in Calls, CreateWorkFails(c) PROVE Goal
  <2>1. /\ pc[c] = "create" /\ pc'[c] \notin {"idle", "done"}
        /\ \A e \in Calls \ {c} : pc'[e] = pc[e] /\ ret'[e] = ret[e]
        /\ UNCHANGED <<api, code, work, wpc, lc>>
    BY <1>4 DEF CreateWorkFails
  <2> HIDE <1>1 DEF TypeOK, Set
  <2> QED
    BY <2>1 DEF Moves, Stage
<1>5. ASSUME NEW c \in Calls, Down(c) PROVE Goal
  <2>1. /\ pc[c] = "wait" /\ pc'[c] \notin {"idle", "done"}
        /\ \A e \in Calls \ {c} : pc'[e] = pc[e] /\ ret'[e] = ret[e]
        /\ UNCHANGED <<api, code, work, wpc, lc>>
    BY <1>5 DEF Down
  <2> HIDE <1>1 DEF TypeOK, Set
  <2> QED
    BY <2>1 DEF Moves, Stage
<1>6. ASSUME NEW c \in Calls, Interrupt(c) PROVE Goal
  <2>1. /\ pc[c] = "wait" /\ pc'[c] \notin {"idle", "done"}
        /\ \A e \in Calls \ {c} : pc'[e] = pc[e] /\ ret'[e] = ret[e]
        /\ UNCHANGED <<api, code, work, wpc, lc>>
    BY <1>6 DEF Interrupt
  <2> HIDE <1>1 DEF TypeOK, Set
  <2> QED
    BY <2>1 DEF Moves, Stage
<1>7. ASSUME NEW c \in Calls, FreeWork(c) PROVE Goal
  <2>1. /\ pc[c] = "free" /\ pc'[c] \notin {"idle", "done"}
        /\ \A e \in Calls \ {c} : pc'[e] = pc[e] /\ ret'[e] = ret[e]
        /\ UNCHANGED <<api, code, work, wpc, lc>>
    BY <1>7 DEF FreeWork
  <2> HIDE <1>1 DEF TypeOK, Set
  <2> QED
    BY <2>1 DEF Moves, Stage
<1>8. ASSUME NEW c \in Calls, DirectLock(c) PROVE Goal
  <2>1. /\ pc[c] = "lock" /\ pc'[c] \notin {"idle", "done"}
        /\ \A e \in Calls \ {c} : pc'[e] = pc[e] /\ ret'[e] = ret[e]
        /\ UNCHANGED <<api, code, work, wpc, lc>>
    BY <1>8 DEF DirectLock
  <2> HIDE <1>1 DEF TypeOK, Set
  <2> QED
    BY <2>1 DEF Moves, Stage
<1>9. ASSUME NEW c \in Calls, DirectExec(c) PROVE Goal
  <2>1. /\ pc[c] = "exec" /\ pc'[c] \notin {"idle", "done"}
        /\ \A e \in Calls \ {c} : pc'[e] = pc[e] /\ ret'[e] = ret[e]
        /\ UNCHANGED <<api, code, work, wpc, lc>>
    BY <1>9 DEF DirectExec
  <2> HIDE <1>1 DEF TypeOK, Set
  <2> QED
    BY <2>1 DEF Moves, Stage
<1>10. ASSUME NEW c \in Calls, DirectReturn(c) PROVE Goal
  <2>1. /\ pc[c] = "unlock" /\ pc'[c] \notin {"idle", "done"}
        /\ \A e \in Calls \ {c} : pc'[e] = pc[e] /\ ret'[e] = ret[e]
        /\ UNCHANGED <<api, code, work, wpc, lc>>
    BY <1>10 DEF DirectReturn
  <2> HIDE <1>1 DEF TypeOK, Set
  <2> QED
    BY <2>1 DEF Moves, Stage
<1>11. ASSUME NEW c \in Calls, QueueWork(c) PROVE Goal
  <2>1. /\ pc[c] = "create" /\ pc'[c] \notin {"idle", "done"} /\ work'[c] = "pending"
        /\ \A e \in Calls \ {c} : pc'[e] = pc[e] /\ ret'[e] = ret[e] /\ work'[e] = work[e]
        /\ UNCHANGED <<api, code, wpc, lc>>
    BY <1>11 DEF QueueWork, NextAfterQueue
  <2>2. Stage(c) = "none"
    BY <2>1 DEF Life, CallerLife
  <2> HIDE <1>1 DEF TypeOK, Set
  <2> QED
    BY <2>1, <2>2 DEF Moves, Stage, Early, Late
<1>12. ASSUME NEW x \in Contexts, Dequeue(x) PROVE Goal
  <2>0. queue[x] # <<>> /\ running[x] = NoCall
    BY <1>12 DEF Dequeue, RunsItem
  <2>1. PICK c \in Calls : /\ c = Head(queue[x]) /\ CtxOf[c] = x /\ work[c] = "pending"
                          /\ running[x] = NoCall
    <3> HIDE DEF TypeOK
    <3> QED
      BY <2>0, HeadItem
  <2>2. /\ work' = Set(work, c, "running") /\ wpc' = Set(wpc, x, "lock")
        /\ UNCHANGED <<pc, api, ret, code, lc>>
    BY <1>12, <2>1 DEF Dequeue
  <2>3. Stage(c) = "pending" /\ Stage(c)' = "lock"
    BY <2>1, <2>2 DEF Stage
  <2>4. \A e \in Calls \ {c} : Stage(e)' = Stage(e)
    <3>1. /\ \A e \in Calls \ {c} : work'[e] = work[e]
          /\ \A y \in Contexts \ {x} : wpc'[y] = wpc[y]
      BY <2>2
    <3> HIDE DEF TypeOK, Set
    <3> QED
      BY <2>1, <3>1, WorkerFrame
  <2> HIDE <1>1 DEF TypeOK, Set
  <2> QED
    BY <2>2, <2>3, <2>4 DEF Moves, Early, Late
<1>13. ASSUME NEW x \in Contexts, WorkerLock(x) PROVE Goal
  <2>1. PICK c \in Calls : c = running[x] /\ CtxOf[c] = x /\ work[c] = "running"
    BY <1>0, <1>13 DEF WorkerLock, Busy
  <2>2. /\ UNCHANGED <<pc, api, ret, lc>>
        /\ \A e \in Calls \ {c} : work'[e] = work[e] /\ code'[e] = code[e]
        /\ \A y \in Contexts \ {x} : wpc'[y] = wpc[y]
        /\ api[c] # "loadcode_nores" => code'[c] = code[c]
        /\ Stage(c) = "lock" /\ Stage(c)' = "exec"
    BY <1>13, <2>1 DEF WorkerLock, Stage
  <2>3. \A e \in Calls \ {c} : Stage(e)' = Stage(e)
    <3> HIDE DEF TypeOK, Set
    <3> QED
      BY <2>1, <2>2, WorkerFrame
  <2> HIDE <1>1 DEF TypeOK, Set
  <2> QED
    BY <2>1, <2>2, <2>3 DEF Moves, Early, Late, HasCallback
<1>14. ASSUME NEW x \in Contexts, ExecOn(x, running[x]) PROVE Goal
  <2>1. PICK c \in Calls : c = running[x] /\ CtxOf[c] = x /\ work[c] = "running"
    BY <1>0, <1>14 DEF ExecOn, Busy
  <2>2. /\ UNCHANGED <<pc, api, ret, lc>>
        /\ \A e \in Calls \ {c} : work'[e] = work[e] /\ code'[e] = code[e]
        /\ \A y \in Contexts \ {x} : wpc'[y] = wpc[y]
        /\ api[c] # "loadcode_nores" => code'[c] = code[c]
        /\ Stage(c) = "exec" /\ Stage(c)' = "unlock"
    BY <1>14, <2>1 DEF ExecOn, Stage
  <2>3. \A e \in Calls \ {c} : Stage(e)' = Stage(e)
    <3> HIDE DEF TypeOK, Set
    <3> QED
      BY <2>1, <2>2, WorkerFrame
  <2> HIDE <1>1 DEF TypeOK, Set
  <2> QED
    BY <2>1, <2>2, <2>3 DEF Moves, Early, Late, HasCallback
<1>15. ASSUME NEW x \in Contexts, WorkerUnlock(x) PROVE Goal
  <2>1. PICK c \in Calls : c = running[x] /\ CtxOf[c] = x /\ work[c] = "running"
    BY <1>0, <1>15 DEF WorkerUnlock, Busy
  <2>2. /\ UNCHANGED <<pc, api, ret, lc>>
        /\ \A e \in Calls \ {c} : work'[e] = work[e] /\ code'[e] = code[e]
        /\ \A y \in Contexts \ {x} : wpc'[y] = wpc[y]
        /\ api[c] # "loadcode_nores" => code'[c] = code[c]
        /\ Stage(c) = "unlock"
        /\ Stage(c)' = (IF api[c] = "openlib" THEN "finished" ELSE "up")
    BY <1>15, <2>1 DEF WorkerUnlock, Stage
  <2>3. \A e \in Calls \ {c} : Stage(e)' = Stage(e)
    <3> HIDE DEF TypeOK, Set
    <3> QED
      BY <2>1, <2>2, WorkerFrame
  <2> HIDE <1>1 DEF TypeOK, Set
  <2> QED
    BY <2>1, <2>2, <2>3 DEF Moves, Early, Late, HasCallback
<1>16. ASSUME NEW x \in Contexts, UpOn(x, running[x]) PROVE Goal
  <2>1. PICK c \in Calls : c = running[x] /\ CtxOf[c] = x /\ work[c] = "running"
    BY <1>0, <1>16 DEF UpOn, Busy
  <2>2. /\ UNCHANGED <<pc, api, ret, lc>>
        /\ \A e \in Calls \ {c} : work'[e] = work[e] /\ code'[e] = code[e]
        /\ \A y \in Contexts \ {x} : wpc'[y] = wpc[y]
        /\ api[c] # "loadcode_nores" => code'[c] = code[c]
        /\ Stage(c) = "up" /\ Stage(c)' = "cb"
    BY <1>16, <2>1 DEF UpOn, Stage
  <2>3. \A e \in Calls \ {c} : Stage(e)' = Stage(e)
    <3> HIDE DEF TypeOK, Set
    <3> QED
      BY <2>1, <2>2, WorkerFrame
  <2> HIDE <1>1 DEF TypeOK, Set
  <2> QED
    BY <2>1, <2>2, <2>3 DEF Moves, Early, Late, HasCallback
<1>17. ASSUME NEW x \in Contexts, TestCallbackOn(x, running[x]) PROVE Goal
  <2>1. PICK c \in Calls : c = running[x] /\ CtxOf[c] = x /\ work[c] = "running"
    BY <1>0, <1>17 DEF TestCallbackOn, Busy
  <2>2. /\ UNCHANGED <<pc, api, ret, lc>>
        /\ \A e \in Calls \ {c} : work'[e] = work[e] /\ code'[e] = code[e]
        /\ \A y \in Contexts \ {x} : wpc'[y] = wpc[y]
        /\ api[c] # "loadcode_nores" => code'[c] = code[c]
        /\ Stage(c) = "cb" /\ Stage(c)' = (IF HasCallback(c) THEN "in_cb" ELSE "cb_work")
    BY <1>17, <2>1 DEF TestCallbackOn, Stage, NextAfterUp
  <2>3. \A e \in Calls \ {c} : Stage(e)' = Stage(e)
    <3> HIDE DEF TypeOK, Set
    <3> QED
      BY <2>1, <2>2, WorkerFrame
  <2> HIDE <1>1 DEF TypeOK, Set
  <2> QED
    BY <2>1, <2>2, <2>3 DEF Moves, Early, Late, HasCallback
<1>18. ASSUME NEW x \in Contexts, CleanupOn(x, running[x]) PROVE Goal
  <2>1. PICK c \in Calls : c = running[x] /\ CtxOf[c] = x /\ work[c] = "running"
    BY <1>0, <1>18 DEF CleanupOn, Busy
  <2>2. /\ UNCHANGED <<pc, api, ret, lc>>
        /\ \A e \in Calls \ {c} : work'[e] = work[e] /\ code'[e] = code[e]
        /\ \A y \in Contexts \ {x} : wpc'[y] = wpc[y]
        /\ api[c] # "loadcode_nores" => code'[c] = code[c]
        /\ Stage(c) = "cb_work" /\ Stage(c)' = "finished"
    BY <1>18, <2>1 DEF CleanupOn, Stage, FreesCode
  <2>3. \A e \in Calls \ {c} : Stage(e)' = Stage(e)
    <3> HIDE DEF TypeOK, Set
    <3> QED
      BY <2>1, <2>2, WorkerFrame
  <2> HIDE <1>1 DEF TypeOK, Set
  <2> QED
    BY <2>1, <2>2, <2>3 DEF Moves, Early, Late, HasCallback
<1>19. ASSUME NEW x \in Contexts, WorkerOops(x) PROVE Goal
  <2>1. wpc' = Set(wpc, x, "oops") /\ UNCHANGED <<pc, api, ret, code, work, lc>>
    BY <1>19 DEF WorkerOops
  <2>2. \A e \in Calls : Stage(e)' \in {Stage(e), "oops"}
    BY <2>1 DEF Stage
  <2> HIDE <1>1 DEF TypeOK, Set
  <2> QED
    BY <2>1, <2>2 DEF Moves, Early, Late
<1> HIDE <1>1 DEF Goal, TypeOK, Set, callVars, memVars, dataVars, workVars, ctxVars
<1>20. Goal
  BY <1>2, <1>3, <1>4, <1>5, <1>6, <1>7, <1>8, <1>9, <1>10, <1>11, <1>12, <1>13,
     <1>14, <1>15, <1>16, <1>17, <1>18, <1>19
     DEF Core, CallStep, PlainWorker
<1> QED
  BY <1>20 DEF Goal

\* A step of lunatik.c keeps what sys_lua knows of its calls.
LEMMA SysCoreStep ==
    ASSUME SysInv, Core, [Next]_vars, UNCHANGED sysVars
    PROVE  Inv' /\ LifeInv' /\ AliasInv' /\ SysTypes' /\ \A c \in Calls : SysLife(c)'
<1>1. Inv /\ LifeInv /\ AliasInv /\ SysTypes /\ \A c \in Calls : SysLife(c)
  BY DEF SysInv
<1>2. [PlainNext]_vars
  BY DEF Core, PlainNext
<1>3. Inv'
  BY <1>1, TypeStep, QueueStep, LockStep DEF Inv
<1>4. LifeInv' /\ AliasInv'
  BY <1>1, <1>2, <1>3, RunsStep, LifeStep, AliasStep DEF LifeInv
<1>5. SysTypes'
  BY <1>1 DEF SysTypes, sysVars
<1>6. ASSUME NEW c \in Calls PROVE SysLife(c)'
  <2>1. Moves(c) /\ UNCHANGED lc
    BY <1>1, CoreMoves
  <2>2. SysLife(c) /\ (pc[c] = "idle" <=> api[c] = "none")
    BY <1>1 DEF LifeInv, Life, CallerLife
  <2>3. UNCHANGED <<spc, ptrs, sysret, L, wq, info>>
    BY DEF sysVars
  <2>4. PlaceLife(c)'
    BY <2>1, <2>2, <2>3 DEF SysLife, PlaceLife, Moves
  <2>5. HeldLife(c, CtxOf[c])'
    BY <2>1, <2>2, <2>3 DEF SysLife, PlaceLife, HeldLife, Moves, HasCallback
  <2>6. ReportLife(c)'
    BY <2>1, <2>2, <2>3 DEF SysLife, PlaceLife, ReportLife, Moves
  <2> QED
    BY <2>4, <2>5, <2>6 DEF SysLife
<1> QED
  BY <1>3, <1>4, <1>5, <1>6

\* A step that changes only the chunk and the context keeps Inv and LifeInv.
LEMMA QuietStep ==
    ASSUME Inv, LifeInv, AliasInv,
           UNCHANGED <<callVars, d, lw, res, at, dataVars, workVars, lock, tpc>>,
           code' \in [Calls -> Block], lc' \in [Contexts -> Block]
    PROVE  Inv' /\ LifeInv' /\ AliasInv'
<1> USE DEF callVars, dataVars, workVars
<1>1. TypeOK'
  BY DEF Inv, TypeOK
<1>2. QueueInv'
  BY DEF Inv, QueueInv, NotYetQueued, OnlyDirect, Queued, QueuedOnce, Running,
     Busy
<1>3. LockInv'
  BY DEF Inv, LockInv, InLua, WorkerInLua
<1>4. RunsItem' /\ PendingQueued'
  BY DEF LifeInv, RunsItem, PendingQueued
<1>5. ASSUME NEW c \in Calls PROVE Life(c)'
  <2>1. Life(c)
    BY DEF LifeInv
  <2> QED
    BY <2>1 DEF Life, CallerLife, OutcomeLife, CallbackLife, AnswerLife, BlockLife, Stage,
       Waits, Unattended, Detached, HasCallback
<1>6. AliasInv'
  BY DEF AliasInv
<1> QED
  BY <1>1, <1>2, <1>3, <1>4, <1>5, <1>6 DEF Inv, LifeInv

\* A step of the calling task c between returning from lunatik.c and done, or
\* from idle into it, keeps Inv and LifeInv.
LEMMA TaskStep ==
    ASSUME Inv, LifeInv, AliasInv, NEW c \in Calls, TypeOK', Life(c)',
           pc[c] \in {"idle", "returned"}, pc'[c] \in {"alloc", "done"},
           pc[c] = "idle" \/ UNCHANGED <<api, need>>,
           \A e \in Calls \ {c} : /\ pc'[e] = pc[e] /\ api'[e] = api[e]
                                  /\ need'[e] = need[e] /\ res'[e] = res[e],
           UNCHANGED <<ret, got, d, lw, code, at, dataVars, workVars, ctxVars>>,
           pc'[c] = "alloc" => pc[c] = "idle"
    PROVE  Inv' /\ LifeInv' /\ AliasInv'
<1> USE DEF dataVars, workVars, ctxVars
<1>1. QueueInv'
  <2>1. NotYetQueued' /\ OnlyDirect'
    BY DEF Inv, QueueInv, NotYetQueued, OnlyDirect
  <2>2. Queued' /\ QueuedOnce' /\ Running'
    BY DEF Inv, QueueInv, Queued, QueuedOnce, Running, Busy
  <2> QED
    BY <2>1, <2>2 DEF QueueInv
<1>2. LockInv'
  BY DEF Inv, LockInv, InLua, WorkerInLua
<1>3. RunsItem' /\ PendingQueued'
  BY DEF LifeInv, RunsItem, PendingQueued
<1>4. \A e \in Calls : Life(e)'
  <2>1. \A e \in Calls \ {c} : Same(e)
    BY DEF Same, Stage
  <2>2. \A e \in Calls : Life(e)
    BY DEF LifeInv
  <2> QED
    BY <2>1, <2>2, LifeFrame
<1>5. AliasInv'
  <2>1. pc[c] = "idle" => d[c] = "none"
    BY DEF LifeInv, Life, BlockLife
  <2>2. at \in [Calls -> Calls] /\ \A e \in Calls : e # c \/ pc[c] # "idle" => api'[e] = api[e]
    BY DEF Inv, TypeOK
  <2> QED
    BY <2>1, <2>2 DEF AliasInv
<1> QED
  BY <1>1, <1>2, <1>3, <1>4, <1>5 DEF Inv, LifeInv

\* What a step leaves alone of call e and of its context.
SysSame(e) ==
    /\ pc'[e] = pc[e] /\ api'[e] = api[e] /\ ret'[e] = ret[e] /\ code'[e] = code[e]
    /\ spc'[e] = spc[e] /\ ptrs'[e] = ptrs[e] /\ sysret'[e] = sysret[e] /\ info'[e] = info[e]
    /\ Stage(e)' = Stage(e)
    /\ lc'[CtxOf[e]] = lc[CtxOf[e]] /\ L'[CtxOf[e]] = L[CtxOf[e]]
    /\ wq'[CtxOf[e]] = wq[CtxOf[e]]

\* Calls have contexts of their own, so a step of one leaves the others alone.
LEMMA SysFrame ==
    ASSUME NEW c \in Calls, \A e \in Calls : SysLife(e), \A e \in Calls \ {c} : SysSame(e),
           SysLife(c)'
    PROVE  \A e \in Calls : SysLife(e)'
<1> SUFFICES ASSUME NEW e \in Calls, e # c PROVE SysLife(e)'
  OBVIOUS
<1>1. SysLife(e) /\ SysSame(e)
  OBVIOUS
<1> QED
  BY <1>1 DEF SysLife, PlaceLife, HeldLife, ReportLife, SysSame

\* Every step of sys_lua, of lunatik.c on its behalf, and of its callback keeps
\* the invariant.
LEMMA SysStepInv == HarmlessReuse /\ SysInv /\ [SysNext]_allVars => SysInv'
<1> SUFFICES ASSUME HarmlessReuse, SysInv, [SysNext]_allVars PROVE SysInv'
  OBVIOUS
<1>0. /\ Inv /\ LifeInv /\ AliasInv /\ TypeOK /\ SysTypes /\ RunsItem /\ QueueInv
      /\ \A e \in Calls : SysLife(e)
      /\ \A e \in Calls : Life(e)
  BY DEF SysInv, Inv, LifeInv
<1>1. ASSUME Core, [Next]_vars, UNCHANGED sysVars PROVE SysInv'
  BY <1>1, SysCoreStep DEF SysInv
<1>12. ASSUME NEW x \in Contexts, WorkerStep(x) PROVE PlainWorker(x) /\ Next
  <2>1. PlainWorker(x)
    BY <1>0, <1>12, PlainHandler
  <2> QED
    BY <1>12, <2>1 DEF Next, QuietNext
<1>2. ASSUME NEW e1 \in Calls, NEW e2 \in Calls, e1 # e2 PROVE CtxOf[e1] # CtxOf[e2]
  BY <1>2, SysLuaAssumption
<1> USE LoadcodeAssumption DEF Set, callVars, memVars, dataVars, workVars, ctxVars
<1>3. ASSUME NEW c \in Calls, CopyCode(c) PROVE SysInv'
  <2>1. Inv' /\ LifeInv' /\ AliasInv'
    <3>1. code' \in [Calls -> Block] /\ lc' \in [Contexts -> Block]
      <4>1. code' = code \/ code' = Set(code, c, "freed") \/ code' = Set(code, c, "live")
        BY <1>3 DEF CopyCode
      <4>2. code \in [Calls -> Block] /\ lc \in [Contexts -> Block] /\ lc' = lc
        BY <1>0, <1>3 DEF CopyCode, TypeOK
      <4> QED
        BY <4>1, <4>2 DEF Block
    <3>2. UNCHANGED <<callVars, d, lw, res, at, dataVars, workVars, lock, tpc>>
      BY <1>3 DEF CopyCode, Leave
    <3> QED
      BY <1>0, <3>1, <3>2, QuietStep
  <2>2. SysTypes'
    BY <1>0, <1>3 DEF CopyCode, Leave, SysTypes, SysPC, Return, Outcome, Block
  <2>3. \A e \in Calls \ {c} : SysSame(e)
    BY <1>0, <1>2, <1>3 DEF CopyCode, Leave, SysSame, Stage, TypeOK, SysTypes
  <2>4. /\ spc[c] = "idle" /\ UNCHANGED <<pc, api, ret, lc, L, wq, info>>
        /\ Stage(c)' = Stage(c)
        /\ \/ /\ spc'[c] = "done" /\ sysret'[c] \in {"enomem", "efault"}
              /\ code'[c] \in {code[c], "freed"}
           \/ spc'[c] = "create" /\ code'[c] = "live"
    BY <1>0, <1>3 DEF CopyCode, Leave, TypeOK, SysTypes, Stage
  <2>5. SysLife(c) /\ Life(c)
    BY <1>0
  <2>6. SysLife(c)'
    BY <2>4, <2>5 DEF SysLife, PlaceLife, HeldLife, ReportLife, Early, Late, Life,
       CallerLife
  <2> QED
    BY <1>0, <2>1, <2>2, <2>3, <2>6, SysFrame DEF SysInv
<1>4. ASSUME NEW c \in Calls, CreateContext(c) PROVE SysInv'
  <2>1. Inv' /\ LifeInv' /\ AliasInv'
    <3>1. code' \in [Calls -> Block] /\ lc' \in [Contexts -> Block]
      <4>1. code' = code \/ code' = Set(code, c, "freed")
        BY <1>4 DEF CreateContext
      <4>2. lc' = lc \/ lc' = Set(lc, CtxOf[c], "freed") \/ lc' = Set(lc, CtxOf[c], "live")
        BY <1>4 DEF CreateContext
      <4>3. code \in [Calls -> Block] /\ lc \in [Contexts -> Block]
        BY <1>0 DEF TypeOK
      <4>4. code' \in [Calls -> Block]
        BY <4>1, <4>3 DEF Block
      <4>5. lc' \in [Contexts -> Block]
        BY <4>2, <4>3 DEF Block
      <4> QED
        BY <4>4, <4>5
    <3>2. UNCHANGED <<callVars, d, lw, res, at, dataVars, workVars, lock, tpc>>
      BY <1>4 DEF CreateContext, Leave
    <3> QED
      BY <1>0, <3>1, <3>2, QuietStep
  <2>2. SysTypes'
    BY <1>0, <1>4 DEF CreateContext, Leave, SysTypes, SysPC, Return, Outcome, Block
  <2>3. \A e \in Calls \ {c} : SysSame(e)
    BY <1>0, <1>2, <1>4 DEF CreateContext, Leave, SysSame, Stage, TypeOK, SysTypes
  <2>4. /\ spc[c] = "create" /\ UNCHANGED <<pc, api, ret, ptrs, info>>
        /\ Stage(c)' = Stage(c)
        /\ \/ /\ spc'[c] = "done" /\ sysret'[c] = "enomem" /\ code'[c] = "freed"
              /\ wq'[CtxOf[c]] = wq[CtxOf[c]]
              /\ \/ /\ lc'[CtxOf[c]] \in {"none", "freed", lc[CtxOf[c]]}
                    /\ L'[CtxOf[c]] = L[CtxOf[c]]
                 \/ lc'[CtxOf[c]] = "live" /\ L'[CtxOf[c]] = "live"
           \/ /\ spc'[c] = "bind" /\ code'[c] = code[c]
              /\ lc'[CtxOf[c]] = "live" /\ L'[CtxOf[c]] = "live" /\ wq'[CtxOf[c]] = "live"
    BY <1>0, <1>4 DEF CreateContext, Leave, TypeOK, SysTypes, Stage
  <2>5. SysLife(c) /\ Life(c)
    BY <1>0
  <2>6. SysLife(c)'
    BY <2>4, <2>5 DEF SysLife, PlaceLife, HeldLife, ReportLife, Early, Late, Life,
       CallerLife
  <2> QED
    BY <1>0, <2>1, <2>2, <2>3, <2>6, SysFrame DEF SysInv
<1>5. ASSUME NEW c \in Calls, LoadBindings(c) PROVE SysInv'
  <2>1. Inv' /\ LifeInv' /\ AliasInv'
    <3>1. code' \in [Calls -> Block] /\ lc' \in [Contexts -> Block]
      BY <1>0, <1>5 DEF LoadBindings, LeaveDestroying, TypeOK, Block
    <3>2. UNCHANGED <<callVars, d, lw, res, at, dataVars, workVars, lock, tpc>>
      BY <1>5 DEF LoadBindings, LeaveDestroying
    <3> QED
      BY <1>0, <3>1, <3>2, QuietStep
  <2>2. SysTypes'
    BY <1>0, <1>5 DEF LoadBindings, LeaveDestroying, SysTypes, SysPC, Return, Outcome, Block
  <2>3. \A e \in Calls \ {c} : SysSame(e)
    BY <1>0, <1>2, <1>5 DEF LoadBindings, LeaveDestroying, SysSame, Stage, TypeOK, SysTypes
  <2>4. /\ spc[c] = "bind" /\ UNCHANGED <<pc, api, ret, code, ptrs, lc, L, wq, info>>
        /\ Stage(c)' = Stage(c)
        /\ \/ spc'[c] = "out_lc" /\ sysret'[c] = "enomem"
           \/ spc'[c] = "dispatch"
    BY <1>0, <1>5 DEF LoadBindings, LeaveDestroying, TypeOK, SysTypes, Stage
  <2>5. SysLife(c) /\ Life(c)
    BY <1>0
  <2>6. SysLife(c)'
    BY <2>4, <2>5 DEF SysLife, PlaceLife, HeldLife, ReportLife, Early, Late, Life,
       CallerLife
  <2> QED
    BY <1>0, <2>1, <2>2, <2>3, <2>6, SysFrame DEF SysInv
<1>6. ASSUME NEW c \in Calls, Out(c) PROVE SysInv'
  <2>1. Inv' /\ LifeInv' /\ AliasInv'
    <3>1. code' \in [Calls -> Block] /\ lc' \in [Contexts -> Block]
      BY <1>0, <1>6 DEF Out, Destroy, TypeOK, Block
    <3>2. UNCHANGED <<callVars, d, lw, res, at, dataVars, workVars, lock, tpc>>
      BY <1>6 DEF Out, Destroy
    <3> QED
      BY <1>0, <3>1, <3>2, QuietStep
  <2>2. SysTypes'
    BY <1>0, <1>6 DEF Out, Destroy, SysTypes, SysPC, Return, Outcome, Block
  <2>3. \A e \in Calls \ {c} : SysSame(e)
    BY <1>0, <1>2, <1>6 DEF Out, Destroy, SysSame, Stage, TypeOK, SysTypes
  <2>4. /\ spc[c] = "out_lc" /\ UNCHANGED <<pc, api, ret, ptrs, sysret, wq, info>>
        /\ Stage(c)' = Stage(c) /\ spc'[c] = "done"
        /\ code'[c] = "freed" /\ lc'[CtxOf[c]] = "freed" /\ L'[CtxOf[c]] = "freed"
    BY <1>0, <1>6 DEF Out, Destroy, TypeOK, SysTypes, Stage
  <2>5. SysLife(c) /\ Life(c)
    BY <1>0
  <2>6. SysLife(c)'
    BY <2>4, <2>5 DEF SysLife, PlaceLife, HeldLife, ReportLife, Early, Late, Life,
       CallerLife
  <2> QED
    BY <1>0, <2>1, <2>2, <2>3, <2>6, SysFrame DEF SysInv
<1>7. ASSUME NEW c \in Calls, Dispatch(c) PROVE SysInv'
  <2>1. CASE /\ LeaveDestroying(c, "enomem") \/ LeaveDestroying(c, "einval")
             /\ UNCHANGED <<pc, api, need, info>>
    <3>1. Inv' /\ LifeInv' /\ AliasInv'
      <4>1. UNCHANGED <<callVars, d, lw, res, at, dataVars, workVars, lock, tpc, code, lc>>
        BY <1>7, <2>1 DEF Dispatch
      <4>2. code' \in [Calls -> Block] /\ lc' \in [Contexts -> Block]
        BY <1>0, <4>1 DEF TypeOK
      <4> QED
        BY <1>0, <4>1, <4>2, QuietStep
    <3>2. SysTypes'
      BY <1>0, <1>7, <2>1 DEF Dispatch, LeaveDestroying, SysTypes, SysPC, Return, Outcome
    <3>3. \A e \in Calls \ {c} : SysSame(e)
      BY <1>0, <1>7, <2>1 DEF Dispatch, LeaveDestroying, SysSame, Stage, SysTypes
    <3>4. /\ spc[c] = "dispatch" /\ spc'[c] = "out_lc" /\ sysret'[c] # "ok"
          /\ UNCHANGED <<pc, api, ret, code, ptrs, lc, L, wq, info>>
          /\ Stage(c)' = Stage(c)
      BY <1>0, <1>7, <2>1 DEF Dispatch, LeaveDestroying, SysTypes, Stage
    <3>5. SysLife(c) /\ Life(c)
      BY <1>0
    <3>6. SysLife(c)'
      BY <3>4, <3>5 DEF SysLife, PlaceLife, HeldLife, ReportLife, Early, Late, Life,
         CallerLife
    <3> QED
      BY <1>0, <3>1, <3>2, <3>3, <3>6, SysFrame DEF SysInv
  <2>2. ASSUME NEW a \in {"sync", "async_nores"}, Call(c, a, a = "sync"), UNCHANGED sysret,
               a = "sync" => ptrs[c] = "all" /\ UNCHANGED info,
               a = "async_nores" => ptrs[c] = "none" /\ info' = Set(info, c, "live")
        PROVE  SysInv'
    <3>0. /\ pc' = Set(pc, c, "alloc") /\ api' = Set(api, c, a)
          /\ need' = Set(need, c, a = "sync") /\ spc' = Set(spc, c, a)
          /\ spc[c] = "dispatch"
          /\ UNCHANGED <<ret, got, memVars, dataVars, workVars, ctxVars, ptrs, L, wq, ab>>
      BY <1>7, <2>2 DEF Dispatch, Call
    <3>1. SysLife(c) /\ Life(c) /\ pc[c] = "idle" /\ api[c] = "none" /\ Stage(c) = "none"
      BY <1>0, <3>0 DEF SysLife, PlaceLife, Life, CallerLife
    <3>2. TypeOK'
      BY <1>0, <3>0 DEF TypeOK, PC, Api
    <3>3. /\ pc'[c] = "alloc" /\ api'[c] = a /\ spc'[c] = a
          /\ need'[c] = (a = "sync") /\ Stage(c)' = Stage(c)
          /\ info'[c] = (IF a = "sync" THEN info[c] ELSE "live")
      BY <1>0, <2>2, <3>0 DEF TypeOK, SysTypes, Stage
    <3>4. \A e \in Calls \ {c} : /\ pc'[e] = pc[e] /\ api'[e] = api[e]
                                 /\ need'[e] = need[e] /\ res'[e] = res[e]
      BY <1>0, <3>0 DEF TypeOK
    <3>5. Life(c)'
      BY <3>0, <3>1, <3>3 DEF Life, CallerLife, OutcomeLife, CallbackLife, AnswerLife,
         BlockLife, Waits, Unattended, Detached, HasCallback
    <3>6. Inv' /\ LifeInv' /\ AliasInv'
      BY <1>0, <3>0, <3>1, <3>2, <3>3, <3>4, <3>5, TaskStep
    <3>7. SysTypes'
      BY <1>0, <2>2, <3>0 DEF SysTypes, SysPC, Block
    <3>8. \A e \in Calls \ {c} : SysSame(e)
      BY <1>0, <2>2, <3>0, <3>4 DEF SysSame, Stage, SysTypes
    <3>9. SysLife(c)'
      BY <2>2, <3>0, <3>1, <3>3 DEF SysLife, PlaceLife, HeldLife, ReportLife, Early, Late
    <3> QED
      BY <1>0, <3>6, <3>7, <3>8, <3>9, SysFrame DEF SysInv
  <2>3. CASE /\ ptrs[c] = "none" /\ info' = Set(info, c, "live")
             /\ Call(c, "async_nores", FALSE) /\ UNCHANGED sysret
    <3>1. ("async_nores" = "sync") = FALSE
      OBVIOUS
    <3> QED
      BY <2>2, <2>3, <3>1
  <2>4. CASE ptrs[c] = "all" /\ Call(c, "sync", TRUE) /\ UNCHANGED <<sysret, info>>
    <3>1. ("sync" = "sync") = TRUE
      OBVIOUS
    <3> QED
      BY <2>2, <2>4, <3>1
  <2> QED
    BY <1>7, <2>1, <2>3, <2>4 DEF Dispatch
<1>8. ASSUME NEW c \in Calls, AsyncReturned(c) PROVE SysInv'
  <2>1. SysLife(c) /\ Life(c)
    BY <1>0
  <2>2. /\ spc[c] = "async_nores" /\ pc[c] = "returned" /\ pc'[c] = "done"
        /\ spc'[c] = "done" /\ sysret'[c] = "ok" /\ res'[c] = res[c]
        /\ UNCHANGED <<api, need, ret, got, d, lw, code, at, dataVars, workVars, ctxVars>>
        /\ UNCHANGED <<ptrs, L, wq, info>> /\ Stage(c)' = Stage(c)
    BY <1>0, <1>8 DEF AsyncReturned, SkipCleanup, Leave, TypeOK, SysTypes, Stage
  <2>3. TypeOK'
    BY <1>0, <1>8 DEF AsyncReturned, TypeOK, PC, Block
  <2>4. \A e \in Calls \ {c} : /\ pc'[e] = pc[e] /\ api'[e] = api[e]
                               /\ need'[e] = need[e] /\ res'[e] = res[e]
    BY <1>0, <1>8 DEF AsyncReturned, TypeOK
  <2>5. Life(c)'
    <3>1. api[c] = "async_nores"
      BY <2>1, <2>2 DEF SysLife, PlaceLife
    <3> HIDE DEF Set
    <3>2. CallerLife(c)' /\ OutcomeLife(c)' /\ CallbackLife(c)'
      BY <2>1, <2>2, <3>1 DEF Life, CallerLife, OutcomeLife, CallbackLife, Waits,
         HasCallback
    <3>3. AnswerLife(c)'
      BY <2>1, <2>2, <3>1 DEF Life, AnswerLife, Waits, Unattended, Detached
    <3>4. BlockLife(c)'
      BY <2>1, <2>2, <3>1 DEF Life, BlockLife, Detached, HasCallback, Waits
    <3> QED
      BY <3>2, <3>3, <3>4 DEF Life
  <2>6. Inv' /\ LifeInv' /\ AliasInv'
    BY <1>0, <2>2, <2>3, <2>4, <2>5, TaskStep
  <2>7. SysTypes'
    BY <1>0, <1>8 DEF AsyncReturned, SkipCleanup, Leave, TypeOK, SysTypes, SysPC, Return,
       Outcome
  <2>8. \A e \in Calls \ {c} : SysSame(e)
    BY <1>0, <1>8, <2>4 DEF AsyncReturned, SkipCleanup, Leave, SysSame, Stage, SysTypes
  <2>9. SysLife(c)'
    BY <2>1, <2>2 DEF SysLife, PlaceLife, HeldLife, ReportLife, Early, Late, Life,
       CallerLife
  <2> QED
    BY <1>0, <2>6, <2>7, <2>8, <2>9, SysFrame DEF SysInv
<1>9. ASSUME NEW c \in Calls, SyncReturned(c) PROVE SysInv'
  <2>1. SysLife(c) /\ Life(c)
    BY <1>0
  <2>2. /\ spc[c] = "sync" /\ pc[c] = "returned" /\ pc'[c] = "done"
        /\ spc'[c] = "out_lc" /\ res'[c] = (IF got[c] THEN "freed" ELSE res[c])
        /\ sysret'[c] = ret[c] \/ (sysret'[c] = "efault" /\ ret[c] = "ok")
        /\ UNCHANGED <<api, need, ret, got, d, lw, code, at, dataVars, workVars, ctxVars>>
        /\ UNCHANGED <<ptrs, L, wq, info>> /\ Stage(c)' = Stage(c)
    BY <1>0, <1>9 DEF SyncReturned, LeaveDestroying, CopyErrorCounts, TypeOK, SysTypes,
       Stage
  <2>3. TypeOK'
    BY <1>0, <1>9 DEF SyncReturned, TypeOK, PC, Block
  <2>4. \A e \in Calls \ {c} : /\ pc'[e] = pc[e] /\ api'[e] = api[e]
                               /\ need'[e] = need[e] /\ res'[e] = res[e]
    BY <1>0, <1>9 DEF SyncReturned, TypeOK
  <2>5. Life(c)'
    <3>1. api[c] = "sync"
      BY <2>1, <2>2 DEF SysLife, PlaceLife
    <3> HIDE DEF Set
    <3>2. CallerLife(c)' /\ OutcomeLife(c)' /\ CallbackLife(c)'
      BY <2>1, <2>2, <3>1 DEF Life, CallerLife, OutcomeLife, CallbackLife, Waits,
         HasCallback
    <3>3. AnswerLife(c)'
      BY <2>1, <2>2, <3>1 DEF Life, AnswerLife, Waits, Unattended, Detached
    <3>4. BlockLife(c)'
      <4>1. ~Detached(c) /\ ~HasCallback(c) /\ BlockLife(c) /\ ret[c] # "none"
        BY <2>1, <2>2, <3>1 DEF Life, AnswerLife, Detached, HasCallback
      <4>2. res'[c] \in {res[c], "freed"} /\ (res'[c] = "live" => ~got[c])
        BY <2>2
      <4>3. res'[c] # res[c] => got[c]
        BY <2>2
      <4>4. got[c] => Stage(c) \notin {"none", "pending", "lock", "exec"}
        BY <2>1, <3>1 DEF Life, AnswerLife
      <4> QED
        BY <2>2, <3>1, <4>1, <4>2, <4>3, <4>4 DEF BlockLife, Detached, HasCallback, Waits
    <3> QED
      BY <3>2, <3>3, <3>4 DEF Life
  <2>6. Inv' /\ LifeInv' /\ AliasInv'
    BY <1>0, <2>2, <2>3, <2>4, <2>5, TaskStep
  <2>7. SysTypes'
    <3>1. /\ spc' = Set(spc, c, "out_lc")
          /\ sysret' = Set(sysret, c, ret[c]) \/ sysret' = Set(sysret, c, "efault")
          /\ UNCHANGED <<ptrs, L, wq, info>>
      BY <1>9 DEF SyncReturned, LeaveDestroying
    <3>2. ret[c] \in Return
      BY <1>0 DEF TypeOK
    <3>3. sysret' \in [Calls -> Return \cup {"efault"}]
      BY <1>0, <3>1, <3>2 DEF SysTypes
    <3>4. spc' \in [Calls -> SysPC]
      BY <1>0, <3>1 DEF SysTypes, SysPC
    <3> QED
      BY <1>0, <3>1, <3>3, <3>4 DEF SysTypes
  <2>8. \A e \in Calls \ {c} : SysSame(e)
    BY <1>0, <1>9, <2>4 DEF SyncReturned, LeaveDestroying, CopyErrorCounts, SysSame, Stage,
       SysTypes
  <2>9. SysLife(c)'
    BY <2>1, <2>2 DEF SysLife, PlaceLife, HeldLife, ReportLife, Early, Late, Life,
       CallerLife
  <2> QED
    BY <1>0, <2>6, <2>7, <2>8, <2>9, SysFrame DEF SysInv
<1>10. ASSUME NEW x \in Contexts, AsyncCleanup(x) PROVE SysInv'
  <2>1. PICK c \in Calls : c = running[x] /\ CtxOf[c] = x /\ work[c] = "running"
    BY <1>0, <1>10 DEF AsyncCleanup, AsyncCleanupOn, QueueInv, Running, Busy
  <2>0. Data(x) = c
    BY <1>0, <1>10, <2>1, HandlerOwns DEF AsyncCleanup, AsyncCleanupOn, Busy
  <2>2. SysLife(c) /\ Life(c)
    BY <1>0
  <2>3. /\ wpc[x] = "in_cb" /\ wpc' = Set(wpc, x, "cb_work") /\ cbs' = Set(cbs, c, cbs[c] + 1)
        /\ code' = Set(code, c, "freed") /\ info' = Set(info, c, "freed")
        /\ lc' = Set(lc, x, "freed") /\ L' = Set(L, x, "freed")
        /\ UNCHANGED <<callVars, d, lw, res, at, dret, sem, work, queue, running, lock, tpc>>
        /\ UNCHANGED <<spc, ptrs, sysret, wq, ab>>
    BY <1>10, <2>0, <2>1 DEF AsyncCleanup, AsyncCleanupOn, Destroy
  <2>4. Stage(c) = "in_cb" /\ Stage(c)' = "cb_work"
    BY <1>0, <2>1, <2>3 DEF Stage, TypeOK
  <2>5. \A e \in Calls \ {c} : Stage(e)' = Stage(e)
    <3>1. /\ \A e \in Calls \ {c} : work'[e] = work[e]
          /\ \A y \in Contexts \ {x} : wpc'[y] = wpc[y]
      BY <1>0, <2>3 DEF TypeOK
    <3>2. RunsItem /\ running[x] \in {c, NoCall}
      BY <1>0, <2>1
    <3> HIDE DEF Set
    <3> QED
      BY <3>1, <3>2, WorkerFrame
  <2>6. TypeOK'
    BY <1>0, <2>3 DEF TypeOK, WorkerPC, Block
  <2>7. QueueInv'
    BY <1>0, <2>1, <2>3 DEF TypeOK, QueueInv, NotYetQueued, OnlyDirect, Queued, QueuedOnce,
       Running, Busy
  <2>8. LockInv'
    BY <1>0, <2>3 DEF Inv, TypeOK, LockInv, InLua, WorkerInLua
  <2>9. RunsItem' /\ PendingQueued'
    BY <1>0, <2>3 DEF LifeInv, TypeOK, RunsItem, PendingQueued
  <2>10. \A e \in Calls : Life(e)'
    <3>1. \A e \in Calls \ {c} : Same(e)
      BY <1>0, <2>3, <2>5 DEF TypeOK, Same
    <3>2. /\ cbs'[c] = cbs[c] + 1 /\ UNCHANGED <<pc, api, need, ret, got, d, lw, res, dret, sem>>
      BY <1>0, <2>3 DEF TypeOK
    <3>3. Life(c)'
      BY <2>2, <2>4, <3>2 DEF Life, CallerLife, OutcomeLife, CallbackLife, AnswerLife,
         BlockLife, Waits, Unattended, Detached, HasCallback, SysLife, PlaceLife
    <3> QED
      BY <1>0, <3>1, <3>3, LifeFrame
  <2>11. SysTypes' /\ AliasInv'
    BY <1>0, <2>3 DEF SysTypes, Block, AliasInv
  <2>12. \A e \in Calls \ {c} : SysSame(e)
    BY <1>0, <1>2, <2>1, <2>3, <2>5 DEF SysSame, TypeOK, SysTypes
  <2>13. /\ code'[c] = "freed" /\ info'[c] = "freed" /\ lc'[x] = "freed" /\ L'[x] = "freed"
         /\ UNCHANGED <<pc, api, ret, spc, ptrs, sysret, wq>>
    BY <1>0, <2>3 DEF TypeOK, SysTypes
  <2>14. SysLife(c)'
    <3>1. api[c] = "async_nores"
      BY <2>2, <2>4 DEF SysLife, PlaceLife, Life, CallbackLife, HasCallback
    <3> HIDE DEF Set
    <3>2. PlaceLife(c)' /\ ReportLife(c)'
      BY <2>2, <2>13 DEF SysLife, PlaceLife, ReportLife
    <3>3. HeldLife(c, x)'
      <4>1. HeldLife(c, x) /\ PlaceLife(c) /\ pc[c] # "idle"
        BY <2>1, <2>2, <3>1 DEF SysLife, Life, CallerLife
      <4> QED
        BY <2>4, <2>13, <3>1, <4>1 DEF PlaceLife, HeldLife, Early, Late
    <3> QED
      BY <2>1, <3>2, <3>3 DEF SysLife
  <2> QED
    BY <1>0, <2>6, <2>7, <2>8, <2>9, <2>10, <2>11, <2>12, <2>14, SysFrame
       DEF SysInv, Inv, LifeInv
<1>11. CASE UNCHANGED allVars
  <2>1. UNCHANGED <<callVars, d, lw, code, res, at, dataVars, workVars, lock, lc, tpc>>
    BY <1>11 DEF allVars, vars
  <2>2. UNCHANGED <<spc, ptrs, sysret, L, wq, info>>
    BY <1>11 DEF allVars, sysVars
  <2>3. Inv' /\ LifeInv' /\ AliasInv'
    <3>1. code' \in [Calls -> Block] /\ lc' \in [Contexts -> Block]
      BY <1>0, <2>1 DEF TypeOK
    <3> QED
      BY <1>0, <2>1, <3>1, QuietStep
  <2>4. SysTypes'
    BY <1>0, <2>2 DEF SysTypes
  <2>5. ASSUME NEW e \in Calls PROVE SysLife(e)'
    <3>1. SysLife(e)
      BY <1>0
    <3> QED
      BY <2>1, <2>2, <3>1 DEF SysLife, PlaceLife, HeldLife, ReportLife, Stage
  <2> QED
    BY <2>3, <2>4, <2>5 DEF SysInv
<1> HIDE DEF Set, callVars, memVars, dataVars, workVars, ctxVars
<1>13. ASSUME NEW c \in Calls, CallStep(c) \/ Interrupt(c) PROVE Core /\ Next
  BY <1>13 DEF Core, Next, QuietNext
<1>14. ASSUME NEW x \in Contexts, WorkerStep(x) \/ WorkerOops(x) PROVE Core /\ Next
  <2>1. PlainWorker(x) \/ WorkerOops(x)
    BY <1>12, <1>14
  <2> QED
    BY <1>14, <2>1 DEF Core, Next, QuietNext
<1> QED
  BY <1>1, <1>3, <1>4, <1>5, <1>6, <1>7, <1>8, <1>9, <1>10, <1>11, <1>13, <1>14
     DEF SysNext, SysStep, SysWorkerStep

-----------------------------------------------------------------------------
\* From the start of the system on, SysInv holds, whatever fails in sys_lua and
\* in lunatik.c and whoever is interrupted.
THEOREM SysLives == HarmlessReuse /\ SysSpec => []SysInv
<1> SUFFICES ASSUME HarmlessReuse PROVE SysSpec => []SysInv
  OBVIOUS
<1>1. SysInit => SysInv
  <2> SUFFICES ASSUME SysInit PROVE SysInv
    OBVIOUS
  <2>1. Inv
    BY LoadcodeAssumption DEF SysInit, InitWith, Inv, TypeOK, Block, Outcome, Return, PC,
       WorkerPC, QueueInv, NotYetQueued, OnlyDirect, Queued, QueuedOnce, Running,
       Busy, LockInv, InLua, WorkerInLua
  <2>2. RunsItem /\ PendingQueued
    BY LoadcodeAssumption DEF SysInit, InitWith, RunsItem, PendingQueued
  <2>3. ASSUME NEW c \in Calls PROVE Life(c)
    BY DEF SysInit, InitWith, Life, CallerLife, OutcomeLife, CallbackLife, AnswerLife,
       BlockLife, Stage, Waits, Unattended, Detached, HasCallback
  <2>4. SysTypes
    BY DEF SysInit, SysTypes, SysPC, Return, Outcome, Block
  <2>5. ASSUME NEW c \in Calls PROVE SysLife(c)
    BY LoadcodeAssumption DEF SysInit, InitWith, SysLife, PlaceLife, HeldLife, ReportLife
  <2>6. AliasInv
    BY DEF SysInit, InitWith, AliasInv
  <2> QED
    BY <2>1, <2>2, <2>3, <2>4, <2>5, <2>6 DEF SysInv, LifeInv
<1>2. SysInv /\ [SysNext]_allVars => SysInv'
  BY SysStepInv
<1> QED
  BY <1>1, <1>2, PTL DEF SysSpec

\* While the worker of an uninterrupted call is in Lua or in the callback, the
\* context, the Lua state and the chunk it uses are allocated, and so is the
\* info the callback is given: sys_lua destroys them only once the worker has
\* woken it up, and for a call without results only the callback does.
THEOREM SysContextSafe == HarmlessReuse /\ SysSpec => []ContextInUse
<1>1. SysInv => ContextInUse
  <2> SUFFICES ASSUME SysInv, NEW x \in Contexts, wpc[x] \in {"lock", "exec", "unlock", "in_cb"},
                      ret[running[x]] # "eintr"
               PROVE  /\ lc[x] = "live" /\ L[x] = "live" /\ code[running[x]] = "live"
                      /\ wpc[x] = "in_cb" => info[running[x]] = "live"
    BY DEF ContextInUse
  <2>1. PICK c \in Calls : c = running[x] /\ CtxOf[c] = x /\ work[c] = "running"
    BY DEF SysInv, Inv, QueueInv, Running, Busy
  <2>2. Stage(c) = wpc[x] /\ Life(c) /\ SysLife(c)
    BY <2>1 DEF Stage, SysInv, LifeInv
  <2>3. api[c] \in {"sync", "async_nores"}
    BY <2>2 DEF Life, CallerLife, SysLife, PlaceLife
  <2>4. CASE api[c] = "async_nores"
    BY <2>1, <2>2, <2>4 DEF SysLife, HeldLife, Early
  <2>5. CASE api[c] = "sync"
    <3>1. wpc[x] # "in_cb" /\ Waits(c)
      BY <2>2, <2>5 DEF Life, CallbackLife, HasCallback, Waits
    <3>2. ret[c] = "none"
      BY <2>1, <2>2, <3>1 DEF Life, AnswerLife
    <3>3. spc[c] = "sync"
      <4>1. spc[c] \in SysPC
        BY DEF SysInv, SysTypes
      <4>2. pc[c] \notin {"idle", "done"}
        BY <2>2, <2>5, <3>2 DEF Life, CallerLife, AnswerLife
      <4> QED
        BY <2>2, <2>5, <4>1, <4>2 DEF SysLife, PlaceLife, SysPC
    <3> QED
      BY <2>1, <2>2, <3>1, <3>3 DEF SysLife, HeldLife
  <2> QED
    BY <2>3, <2>4, <2>5
<1> QED
  BY <1>1, SysLives, PTL

\* Whatever fails, and however many calls there are, sys_lua and its callback
\* free the chunk, the result, the info, the context and the Lua state of every
\* call that is not one of the three CleansUp names.
THEOREM SysLeaks == HarmlessReuse /\ SysSpec => []CleansUp
<1>1. SysInv => CleansUp
  <2> SUFFICES ASSUME SysInv, AtRest, \A x \in Contexts : wpc[x] # "oops",
                      NEW c \in Calls, pc[c] # "oops", ret[c] # "eintr",
                      NEW x \in Contexts, x = CtxOf[c],
                      ~(api[c] = "async_nores" /\ ret[c] = "enomem"),
                      ~(lc[x] = "live" /\ wq[x] = "none")
               PROVE  "live" \notin {d[c], lw[c], res[c], code[c], info[c], L[x], lc[x]}
    BY LoadcodeAssumption DEF CleansUp, Refused, NoQueue
  <2>1. /\ spc[c] \in {"idle", "done"}
        /\ wpc[x] = "idle" /\ queue[x] = <<>>
        /\ work[c] \in {"none", "pending", "running", "finished"}
    BY DEF AtRest, SysInv, Inv, TypeOK
  <2>2. Stage(c) \in {"none", "finished"}
    <3>1. work[c] # "running"
      BY <2>1 DEF SysInv, LifeInv, RunsItem
    <3>2. work[c] # "pending"
      BY <2>1 DEF SysInv, LifeInv, PendingQueued
    <3> QED
      BY <2>1, <3>1, <3>2 DEF Stage
  <2>3. Life(c) /\ PlaceLife(c) /\ HeldLife(c, x)
    BY DEF SysInv, LifeInv, SysLife
  <2>4. CASE api[c] = "none"
    <3>1. pc[c] = "idle" /\ Stage(c) = "none" /\ wq[x] # "freed"
      BY <2>3, <2>4 DEF Life, CallerLife, HeldLife
    <3>2. d[c] = "none" /\ lw[c] = "none" /\ res[c] = "none"
      BY <2>3, <2>4, <3>1 DEF Life, BlockLife
    <3>3. code[c] # "live" /\ info[c] # "live"
      BY <2>1, <2>3, <2>4 DEF HeldLife
    <3>4. lc[x] # "live" /\ L[x] # "live"
      BY <2>1, <2>3, <2>4 DEF HeldLife
    <3> QED
      BY <2>4, <3>1, <3>2, <3>3, <3>4
  <2>5. CASE api[c] # "none"
    <3>1. spc[c] = "done" /\ pc[c] = "done" /\ ret[c] # "none"
      BY <2>1, <2>3, <2>5 DEF PlaceLife, Life, CallerLife, AnswerLife
    <3>2. CASE api[c] = "sync"
      <4>1. d[c] # "live" /\ lw[c] # "live" /\ res[c] # "live"
        BY <2>3, <3>1, <3>2 DEF Life, BlockLife, Detached
      <4>2. /\ code[c] = "freed" /\ lc[x] = "freed" /\ L[x] = "freed"
            /\ info[c] = "none" /\ wq[x] # "freed"
        BY <2>3, <3>1, <3>2 DEF HeldLife
      <4> QED
        BY <3>2, <4>1, <4>2
    <3>3. CASE api[c] = "async_nores" /\ Stage(c) = "finished"
      <4>1. d[c] # "live" /\ lw[c] # "live" /\ res[c] # "live"
        BY <2>3, <3>3 DEF Life, BlockLife, Detached, HasCallback
      <4>2. code[c] = "freed" /\ lc[x] = "freed" /\ L[x] = "freed" /\ info[c] = "freed"
        BY <2>3, <3>3 DEF HeldLife, Late
      <4> QED
        BY <4>1, <4>2
    <3>4. ~(api[c] = "async_nores" /\ Stage(c) = "none")
      BY <2>3, <3>1 DEF Life, AnswerLife
    <3> QED
      BY <2>2, <2>3, <2>5, <3>2, <3>3, <3>4 DEF PlaceLife
  <2> QED
    BY <2>4, <2>5
<1> QED
  BY <1>1, SysLives, PTL

\* The value a system call returns is the outcome of the run whenever the code
\* ran and nothing else failed.
THEOREM SysReports == HarmlessReuse /\ SysSpec => []ReportsOutcome
<1>1. SysInv => ReportsOutcome
  <2> SUFFICES ASSUME SysInv, NEW c \in Calls, spc[c] = "done"
               PROVE  /\ ptrs[c] = "all" /\ dret[c] # "unset" /\ ret[c] # "eintr" =>
                            sysret[c] = dret[c] \/ (sysret[c] = "efault" /\ dret[c] = "ok")
                      /\ api[c] = "async_nores" => sysret[c] = "ok"
                      /\ ptrs[c] = "all" /\ sysret[c] = "ok" => dret[c] = "ok"
    BY DEF ReportsOutcome
  <2>1. Life(c) /\ PlaceLife(c) /\ ReportLife(c)
    BY DEF SysInv, LifeInv, SysLife
  <2>2. CASE ptrs[c] # "all"
    BY <2>1, <2>2 DEF ReportLife
  <2>3. CASE ptrs[c] = "all" /\ api[c] = "none"
    BY <2>1, <2>3 DEF ReportLife, Life, CallerLife, OutcomeLife
  <2>4. CASE ptrs[c] = "all" /\ api[c] = "sync"
    <3>1. /\ pc[c] = "done" /\ ret[c] # "none" /\ Waits(c)
          /\ sysret[c] = ret[c] \/ (sysret[c] = "efault" /\ ret[c] = "ok")
      BY <2>1, <2>4 DEF PlaceLife, ReportLife, Life, CallerLife, AnswerLife, Waits
    <3>2. CASE Stage(c) = "none"
      BY <2>1, <2>4, <3>1, <3>2 DEF Life, OutcomeLife, AnswerLife
    <3>3. CASE Stage(c) # "none"
      BY <2>1, <2>4, <3>1, <3>3 DEF Life, AnswerLife
    <3> QED
      BY <3>2, <3>3
  <2> QED
    BY <2>1, <2>2, <2>3, <2>4 DEF PlaceLife
<1> QED
  BY <1>1, SysLives, PTL
=============================================================================
