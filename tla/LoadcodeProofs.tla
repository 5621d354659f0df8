--------------------------- MODULE LoadcodeProofs ---------------------------
(***************************************************************************)
(* Theorems about Loadcode, for any sets of calls and contexts, any        *)
(* failures, signals or not, and whichever freed blocks are used again.    *)
(*                                                                         *)
(* The inductive invariant has two parts beside the types: QueueInv, the   *)
(* life of a work item, and LockInv, who owns a context's mutex.           *)
(***************************************************************************)
EXTENDS Loadcode, TLAPS

\* The handler of the worker of x is running.
Busy(x) == wpc[x] \notin {"idle", "oops"}

\* A work item is queued once, in its own context's queue, and is then run by
\* that context's worker.
NotYetQueued ==
    \A c \in Calls : pc[c] \in {"idle", "alloc", "create", "lock", "exec", "unlock"}
                        => work[c] = "none"
OnlyDirect ==
    \A c \in Calls : pc[c] \in {"lock", "exec", "unlock"} => api[c] = "direct"
Queued ==
    \A x \in Contexts : \A i \in 1..Len(queue[x]) :
        CtxOf[queue[x][i]] = x /\ work[queue[x][i]] = "pending"
QueuedOnce ==
    \A x \in Contexts : \A i, j \in 1..Len(queue[x]) : queue[x][i] = queue[x][j] => i = j
Running ==
    \A x \in Contexts : Busy(x) =>
        running[x] \in Calls /\ CtxOf[running[x]] = x /\ work[running[x]] = "running"
QueueInv == NotYetQueued /\ OnlyDirect /\ Queued /\ QueuedOnce /\ Running

\* Whoever is inside a Lua state holds the context's mutex.
LockInv ==
    /\ \A c \in Calls : InLua(c) => lock[CtxOf[c]] = c
    /\ \A x \in Contexts : WorkerInLua(x) => lock[x] = running[x]

Inv == TypeOK /\ QueueInv /\ LockInv

\* Whatever the Lua code does, d->ret and the result keep their types.
LEMMA RunLuaTypes ==
    ASSUME NEW c \in Calls, TypeOK, RunLua(c)
    PROVE  dret' \in [Calls -> Outcome] /\ res' \in [Calls -> Block]
<1>1. \/ dret' = Set(dret, c, "ok") \/ dret' = Set(dret, c, "lua_err")
      \/ dret' = Set(dret, c, "enomem") \/ dret' = Set(dret, c, "einval")
  BY DEF RunLua
<1>2. res' = res \/ res' = Set(res, c, "live")
  BY DEF RunLua
<1>3. dret' \in [Calls -> Outcome]
  BY <1>1 DEF TypeOK, Set, Outcome
<1>4. res' \in [Calls -> Block]
  BY <1>2 DEF TypeOK, Set, Block
<1> QED
  BY <1>3, <1>4

\* Every step keeps the types.
LEMMA TypeStep == Inv /\ [Next]_vars => TypeOK'
<1> SUFFICES ASSUME TypeOK, QueueInv, [Next]_vars PROVE TypeOK'
  BY DEF Inv
<1> USE LoadcodeAssumption DEF TypeOK, Set, Api, PC, WorkerPC, Block, Outcome, Return, callVars,
        memVars, dataVars, workVars, ctxVars
<1>1. ASSUME NEW c \in Calls, Begin(c) PROVE TypeOK'
  BY <1>1 DEF Begin
<1>2. ASSUME NEW c \in Calls, AllocData(c) PROVE TypeOK'
  <2>1. at' \in [Calls -> Calls]
    BY <1>2 DEF AllocData
  <2> QED
    BY <1>2, <2>1 DEF AllocData
<1>23. ASSUME NEW c \in Calls, AllocDataFails(c) PROVE TypeOK'
  BY <1>23 DEF AllocDataFails
<1>3. ASSUME NEW c \in Calls, CreateWorkFails(c) PROVE TypeOK'
  BY <1>3 DEF CreateWorkFails
<1>4. ASSUME NEW c \in Calls, QueueWork(c) PROVE TypeOK'
  BY <1>4 DEF QueueWork, Enqueue, NextAfterQueue
<1>5. ASSUME NEW c \in Calls, Down(c) PROVE TypeOK'
  BY <1>5 DEF Down, Completed
<1>6. ASSUME NEW c \in Calls, Interrupt(c) PROVE TypeOK'
  BY <1>6 DEF Interrupt
<1>7. ASSUME NEW c \in Calls, FreeWork(c) PROVE TypeOK'
  BY <1>7 DEF FreeWork
<1>8. ASSUME NEW c \in Calls, DirectLock(c) PROVE TypeOK'
  BY <1>8 DEF DirectLock, Lock
<1>9. ASSUME NEW c \in Calls, DirectExec(c) PROVE TypeOK'
  <2>1. dret' \in [Calls -> Outcome] /\ res' \in [Calls -> Block]
    BY <1>9, RunLuaTypes DEF DirectExec
  <2> QED
    BY <1>9, <2>1 DEF DirectExec
<1>10. ASSUME NEW c \in Calls, DirectReturn(c) PROVE TypeOK'
  BY <1>10 DEF DirectReturn, Unlock
<1>11. ASSUME NEW x \in Contexts, Dequeue(x) PROVE TypeOK'
  BY SMTT(30), <1>11 DEF Dequeue
<1>12. ASSUME NEW x \in Contexts, WorkerLock(x) PROVE TypeOK'
  BY <1>12 DEF WorkerLock, Lock, QueueInv, Running, Busy
<1>13. ASSUME NEW x \in Contexts, WorkerExec(x) PROVE TypeOK'
  <2>1. Data(x) \in Calls
    BY ZenonT(40), <1>13 DEF WorkerExec, ExecOn, QueueInv, Running, Busy, Data
  <2>2. dret' \in [Calls -> Outcome] /\ res' \in [Calls -> Block]
    BY <1>13, <2>1, RunLuaTypes DEF WorkerExec, ExecOn
  <2> QED
    BY <1>13, <2>2 DEF WorkerExec, ExecOn
<1>14. ASSUME NEW x \in Contexts, WorkerUnlock(x) PROVE TypeOK'
  <2>1. running[x] \in Calls
    BY <1>14 DEF WorkerUnlock, QueueInv, Running, Busy
  <2>2. CASE api[running[x]] = "openlib"
    <3>1. /\ lock' = Set(lock, CtxOf[running[x]], NoCall)
          /\ wpc' = Set(wpc, x, "idle")
          /\ running' = Set(running, x, NoCall)
          /\ work' = Set(work, running[x], "finished")
      BY <1>14, <2>2 DEF WorkerUnlock, Unlock
    <3> QED
      BY <1>14, <2>1, <3>1 DEF WorkerUnlock
  <2>3. CASE api[running[x]] # "openlib"
    <3>1. /\ lock' = Set(lock, CtxOf[running[x]], NoCall)
          /\ wpc' = Set(wpc, x, "up")
          /\ UNCHANGED <<running, work>>
      BY <1>14, <2>3 DEF WorkerUnlock, Unlock
    <3> QED
      BY <1>14, <2>1, <3>1 DEF WorkerUnlock
  <2> QED
    BY <2>2, <2>3
<1>15. ASSUME NEW x \in Contexts, WorkerUp(x) PROVE TypeOK'
  <2>1. Data(x) \in Calls
    BY ZenonT(40), <1>15 DEF WorkerUp, UpOn, QueueInv, Running, Busy, Data
  <2> QED
    BY <1>15, <2>1 DEF WorkerUp, UpOn
<1>16. ASSUME NEW x \in Contexts, WorkerTestCallback(x) PROVE TypeOK'
  BY <1>16 DEF WorkerTestCallback, TestCallbackOn, NextAfterUp
<1>17. ASSUME NEW x \in Contexts, ClientCallback(x) PROVE TypeOK'
  <2>1. Data(x) \in Calls
    BY ZenonT(40), <1>17 DEF ClientCallback, CallbackOn, QueueInv, Running, Busy, Data
  <2> QED
    BY <1>17, <2>1 DEF ClientCallback, CallbackOn
<1>18. ASSUME NEW x \in Contexts, WorkerCleanup(x) PROVE TypeOK'
  BY <1>18 DEF WorkerCleanup, CleanupOn
<1>19. ASSUME NEW x \in Contexts, WorkerOops(x) PROVE TypeOK'
  BY <1>19 DEF WorkerOops
<1>20. ASSUME NEW c \in Calls, ClientRelease(c) PROVE TypeOK'
  BY <1>20 DEF ClientRelease
<1>21. ASSUME NEW x \in Contexts, Exit(x) PROVE TypeOK'
  BY <1>21 DEF Exit
<1>24. ASSUME NEW x \in Contexts, DestroyContext(x) PROVE TypeOK'
  BY <1>24 DEF DestroyContext
<1>22. CASE UNCHANGED vars
  BY <1>22 DEF vars
<1> HIDE DEF TypeOK, Set, Api, PC, WorkerPC, Block, Outcome, Return, callVars, memVars,
        dataVars, workVars, ctxVars
<1> QED
  BY <1>1, <1>2, <1>3, <1>4, <1>5, <1>6, <1>7, <1>8, <1>9, <1>10, <1>11, <1>12, <1>13,
     <1>14, <1>15, <1>16, <1>17, <1>18, <1>19, <1>20, <1>21, <1>22, <1>23, <1>24
     DEF Next, QuietNext, CallStep, WorkerStep, Terminated

\* A step of a running handler that leaves work items and callers alone.
LEMMA QueueFrame ==
    ASSUME QueueInv, UNCHANGED <<pc, api, work, queue, running>>,
           \A y \in Contexts : Busy(y)' => Busy(y)
    PROVE  QueueInv'
BY DEF QueueInv, NotYetQueued, OnlyDirect, Queued, QueuedOnce, Running

\* A handler ends.
LEMMA QueueFinish ==
    ASSUME TypeOK, QueueInv, NEW x \in Contexts, Busy(x), UNCHANGED <<pc, api, queue>>,
           wpc' = Set(wpc, x, "idle"), running' = Set(running, x, NoCall),
           work' = Set(work, running[x], "finished")
    PROVE  QueueInv'
<1> DEFINE c == running[x]
<1>1. c \in Calls /\ CtxOf[c] = x /\ work[c] = "running"
  BY DEF QueueInv, Running
<1>2. /\ \A e \in Calls : e # c => work'[e] = work[e]
      /\ \A y \in Contexts : y # x => running'[y] = running[y] /\ wpc'[y] = wpc[y]
      /\ ~Busy(x)'
  BY <1>1 DEF TypeOK, Set, Busy
<1>3. NotYetQueued' /\ OnlyDirect' /\ QueuedOnce'
  BY <1>1, <1>2 DEF QueueInv, NotYetQueued, OnlyDirect, QueuedOnce
<1>4. Queued'
  <2>1. \A y \in Contexts : \A i \in 1..Len(queue[y]) : queue[y][i] \in Calls
    BY DEF TypeOK
  <2> QED
    BY <1>1, <1>2, <2>1 DEF QueueInv, Queued
<1>5. Running'
  <2> SUFFICES ASSUME NEW y \in Contexts, y # x, Busy(y)
               PROVE  running[y] \in Calls /\ CtxOf[running[y]] = y
                      /\ work'[running[y]] = "running"
    BY <1>2 DEF Running, Busy
  <2> QED
    BY <1>1, <1>2 DEF QueueInv, Running
<1> QED
  BY <1>3, <1>4, <1>5 DEF QueueInv

\* Every step keeps QueueInv.
LEMMA QueueStep == Inv /\ [Next]_vars => QueueInv'
<1> SUFFICES ASSUME TypeOK, QueueInv, [Next]_vars PROVE QueueInv'
  BY DEF Inv
<1> USE LoadcodeAssumption DEF TypeOK, QueueInv, NotYetQueued, OnlyDirect, Queued,
        QueuedOnce, Running, Busy, Set, callVars, memVars, dataVars, workVars, ctxVars
<1>1. ASSUME NEW c \in Calls, Begin(c) PROVE QueueInv'
  <2>1. pc' = Set(pc, c, "create") \/ pc' = Set(pc, c, "alloc")
    BY <1>1 DEF Begin
  <2>2. PICK a \in Variants : api' = Set(api, c, a)
    BY <1>1 DEF Begin
  <2>3. UNCHANGED <<work, queue, wpc, running>> /\ work[c] = "none"
    BY <1>1 DEF Begin
  <2> QED
    BY <2>1, <2>2, <2>3
<1>2. ASSUME NEW c \in Calls, AllocData(c) PROVE QueueInv'
  BY <1>2 DEF AllocData
<1>3. ASSUME NEW c \in Calls, AllocDataFails(c) PROVE QueueInv'
  BY <1>3 DEF AllocDataFails
<1>4. ASSUME NEW c \in Calls, CreateWorkFails(c) PROVE QueueInv'
  BY <1>4 DEF CreateWorkFails
<1>5. ASSUME NEW c \in Calls, QueueWork(c) PROVE QueueInv'
  <2>1. work[c] = "none" /\ CtxOf[c] \in Contexts
    BY <1>5 DEF QueueWork
  <2>2. pc' = Set(pc, c, "wait") \/ pc' = Set(pc, c, "returned")
    BY <1>5 DEF QueueWork, NextAfterQueue
  <2>3. /\ work' = Set(work, c, "pending")
        /\ queue' = [queue EXCEPT ![CtxOf[c]] = Append(@, c)]
        /\ UNCHANGED <<api, wpc, running>>
    BY <1>5 DEF QueueWork, Enqueue
  <2>4. NotYetQueued' /\ OnlyDirect' /\ Running'
    BY <2>1, <2>2, <2>3
  <2>5. Queued' /\ QueuedOnce'
    <3>1. ASSUME NEW x \in Contexts, x # CtxOf[c] PROVE queue'[x] = queue[x]
      BY <2>3, <3>1
    <3>2. queue'[CtxOf[c]] = Append(queue[CtxOf[c]], c)
      BY <2>1, <2>3
    <3>3. Queued'
      <4>1. ASSUME NEW x \in Contexts, NEW i \in 1..Len(queue[x])
            PROVE  CtxOf[queue[x][i]] = x /\ work'[queue[x][i]] = "pending"
        <5>1. queue[x][i] \in Calls /\ CtxOf[queue[x][i]] = x /\ work[queue[x][i]] = "pending"
          OBVIOUS
        <5> QED
          BY <2>1, <2>3, <5>1
      <4>2. work'[c] = "pending"
        BY <2>3
      <4> DEFINE q == queue[CtxOf[c]]
      <4>3. ASSUME NEW i \in 1..Len(Append(q, c))
            PROVE  CtxOf[Append(q, c)[i]] = CtxOf[c] /\ work'[Append(q, c)[i]] = "pending"
        <5>1. q \in Seq(Calls)
          BY <2>1
        <5>2. CASE i = Len(q) + 1
          BY <4>2, <5>1, <5>2
        <5>3. CASE i \in 1..Len(q)
          BY <2>1, <4>1, <5>1, <5>3
        <5>4. i = Len(q) + 1 \/ i \in 1..Len(q)
          <6> HIDE DEF TypeOK, QueueInv, NotYetQueued, OnlyDirect, Queued, QueuedOnce, Running,
                       Busy, q
          <6>1. Len(Append(q, c)) = Len(q) + 1 /\ Len(q) \in Nat
            BY <5>1
          <6> QED
            BY <6>1
        <5> QED
          BY <5>2, <5>3, <5>4
      <4> HIDE DEF TypeOK, QueueInv, NotYetQueued, OnlyDirect, QueuedOnce, Running, Busy
      <4> QED
        BY <2>1, <3>1, <3>2, <4>1, <4>3
    <3>4. QueuedOnce'
      BY <2>1, <2>3, <3>1, <3>2
    <3> QED
      BY <3>3, <3>4
  <2> QED
    BY <2>4, <2>5
<1>6. ASSUME NEW c \in Calls, Down(c) PROVE QueueInv'
  BY <1>6 DEF Down
<1>7. ASSUME NEW c \in Calls, Interrupt(c) PROVE QueueInv'
  BY SMTT(30), <1>7 DEF Interrupt
<1>8. ASSUME NEW c \in Calls, FreeWork(c) PROVE QueueInv'
  BY <1>8 DEF FreeWork
<1>9. ASSUME NEW c \in Calls, DirectLock(c) PROVE QueueInv'
  BY SMTT(30), <1>9 DEF DirectLock
<1>10. ASSUME NEW c \in Calls, DirectExec(c) PROVE QueueInv'
  BY <1>10 DEF DirectExec
<1>11. ASSUME NEW c \in Calls, DirectReturn(c) PROVE QueueInv'
  <2>1. /\ pc' = Set(pc, c, "returned")
        /\ UNCHANGED <<api, work, queue, wpc, running>>
    BY <1>11 DEF DirectReturn
  <2> QED
    BY SMTT(30), <2>1
<1>12. ASSUME NEW x \in Contexts, Dequeue(x) PROVE QueueInv'
  <2> DEFINE c == queue[x][1]
  <2>1. /\ c \in Calls /\ CtxOf[c] = x /\ work[c] = "pending"
        /\ wpc[x] = "idle" /\ queue[x] # <<>>
    BY <1>12 DEF Dequeue
  <2>2. /\ running' = Set(running, x, c)
        /\ queue' = Set(queue, x, Tail(queue[x]))
        /\ work' = Set(work, c, "running")
        /\ wpc' = Set(wpc, x, "lock")
        /\ UNCHANGED <<pc, api>>
    BY <1>12 DEF Dequeue
  <2>0. /\ queue[x] \in Seq(Calls) /\ queue \in [Contexts -> Seq(Calls)]
        /\ work \in [Calls -> {"none", "pending", "running", "finished"}]
        /\ \A y \in Contexts : \A i \in 1..Len(queue[y]) : queue[y][i] \in Calls
    OBVIOUS
  <2>3. NotYetQueued' /\ OnlyDirect'
    BY <2>1, <2>2
  <2>4. Running'
    BY <2>1, <2>2
  <2> HIDE DEF c, TypeOK, QueueInv, NotYetQueued, OnlyDirect, Running, Busy
  <2>p. Queued /\ QueuedOnce
    BY DEF QueueInv
  <2>5. \A y \in Contexts : y # x => queue'[y] = queue[y]
    BY <2>0, <2>2
  <2>6. /\ queue'[x] = Tail(queue[x])
        /\ Len(queue'[x]) = Len(queue[x]) - 1
        /\ \A i \in 1..Len(queue'[x]) : queue'[x][i] = queue[x][i + 1]
    BY <2>0, <2>1, <2>2
  <2>7. \A i \in 1..Len(queue'[x]) :
           queue[x][i + 1] \in Calls /\ queue[x][i + 1] # c
    BY <2>0, <2>1, <2>6, <2>p DEF c
  <2>w. \A e \in Calls : e # c => work'[e] = work[e]
    BY <2>0, <2>2
  <2>8. Queued'
    <3>1. ASSUME NEW y \in Contexts, y # x, NEW i \in 1..Len(queue[y])
          PROVE  CtxOf[queue[y][i]] = y /\ work'[queue[y][i]] = "pending"
      <4>1. queue[y][i] \in Calls /\ CtxOf[queue[y][i]] = y
            /\ work[queue[y][i]] = "pending"
        BY <2>0, <2>p
      <4> QED
        BY <2>1, <2>w, <3>1, <4>1
    <3>2. ASSUME NEW i \in 1..Len(queue'[x])
          PROVE  CtxOf[queue'[x][i]] = x /\ work'[queue'[x][i]] = "pending"
      <4>1. i + 1 \in 1..Len(queue[x])
        BY <2>0, <2>6
      <4> QED
        BY <2>6, <2>7, <2>p, <2>w, <4>1
    <3> QED
      BY <2>5, <3>1, <3>2
  <2>9. QueuedOnce'
    <3>1. ASSUME NEW i \in 1..Len(queue'[x]), NEW j \in 1..Len(queue'[x]),
                 queue'[x][i] = queue'[x][j]
          PROVE  i = j
      <4>1. /\ i + 1 \in 1..Len(queue[x]) /\ j + 1 \in 1..Len(queue[x])
            /\ queue[x][i + 1] = queue[x][j + 1]
        BY <2>0, <2>6, <3>1
      <4>2. i + 1 = j + 1
        BY <2>p, <4>1
      <4> QED
        BY <4>2
    <3> QED
      BY <2>5, <2>p, <3>1
  <2> QED
    BY <2>3, <2>4, <2>8, <2>9 DEF QueueInv
<1> HIDE DEF QueueInv, NotYetQueued, OnlyDirect, Queued, QueuedOnce, Running
<1>13. ASSUME NEW x \in Contexts, WorkerLock(x) PROVE QueueInv'
  BY <1>13, QueueFrame DEF WorkerLock
<1>14. ASSUME NEW x \in Contexts, WorkerExec(x) PROVE QueueInv'
  BY <1>14, QueueFrame DEF WorkerExec, ExecOn
<1>15. ASSUME NEW x \in Contexts, WorkerUnlock(x) PROVE QueueInv'
  <2>1. CASE api[running[x]] = "openlib"
    BY <1>15, <2>1, QueueFinish DEF WorkerUnlock
  <2>2. CASE api[running[x]] # "openlib"
    BY <1>15, <2>2, QueueFrame DEF WorkerUnlock
  <2> QED
    BY <2>1, <2>2
<1>16. ASSUME NEW x \in Contexts, WorkerUp(x) PROVE QueueInv'
  BY <1>16, QueueFrame DEF WorkerUp, UpOn
<1>17. ASSUME NEW x \in Contexts, WorkerTestCallback(x) PROVE QueueInv'
  BY <1>17, QueueFrame DEF WorkerTestCallback, TestCallbackOn
<1>18. ASSUME NEW x \in Contexts, ClientCallback(x) PROVE QueueInv'
  BY <1>18, QueueFrame DEF ClientCallback, CallbackOn
<1>19. ASSUME NEW x \in Contexts, WorkerCleanup(x) PROVE QueueInv'
  BY <1>19, QueueFinish DEF WorkerCleanup, CleanupOn
<1>20. ASSUME NEW x \in Contexts, WorkerOops(x) PROVE QueueInv'
  BY <1>20, QueueFrame DEF WorkerOops
<1> USE DEF QueueInv, NotYetQueued, OnlyDirect, Queued, QueuedOnce, Running
<1>21. ASSUME NEW c \in Calls, ClientRelease(c) PROVE QueueInv'
  BY <1>21 DEF ClientRelease
<1>22. ASSUME NEW x \in Contexts, Exit(x) PROVE QueueInv'
  BY <1>22 DEF Exit
<1>23. ASSUME NEW x \in Contexts, DestroyContext(x) PROVE QueueInv'
  BY <1>23 DEF DestroyContext
<1>24. CASE UNCHANGED vars
  BY <1>24 DEF vars
<1> HIDE DEF TypeOK, QueueInv, NotYetQueued, OnlyDirect, Queued, QueuedOnce, Running,
        Busy, Set, callVars, memVars, dataVars, workVars, ctxVars
<1> QED
  BY <1>1, <1>2, <1>3, <1>4, <1>5, <1>6, <1>7, <1>8, <1>9, <1>10, <1>11, <1>12, <1>13,
     <1>14, <1>15, <1>16, <1>17, <1>18, <1>19, <1>20, <1>21, <1>22, <1>23, <1>24
     DEF Next, QuietNext, CallStep, WorkerStep, Terminated

\* Every step keeps LockInv: the mutex is taken only when it is free, and only
\* its owner is inside the Lua state.
LEMMA LockStep == Inv /\ [Next]_vars => LockInv'
<1> SUFFICES ASSUME TypeOK, QueueInv, LockInv, [Next]_vars PROVE LockInv'
  BY DEF Inv
<1> USE LoadcodeAssumption DEF TypeOK, LockInv, InLua, WorkerInLua, Set, callVars, memVars,
        dataVars, workVars, ctxVars
<1>1. ASSUME NEW c \in Calls, Begin(c) PROVE LockInv'
  <2>1. pc' = Set(pc, c, "create") \/ pc' = Set(pc, c, "alloc")
    BY <1>1 DEF Begin
  <2>2. UNCHANGED <<lock, wpc, running>>
    BY <1>1 DEF Begin
  <2> QED
    BY <2>1, <2>2
<1>2. ASSUME NEW c \in Calls, AllocData(c) PROVE LockInv'
  BY <1>2 DEF AllocData
<1>3. ASSUME NEW c \in Calls, AllocDataFails(c) PROVE LockInv'
  BY <1>3 DEF AllocDataFails
<1>4. ASSUME NEW c \in Calls, CreateWorkFails(c) PROVE LockInv'
  BY <1>4 DEF CreateWorkFails
<1>5. ASSUME NEW c \in Calls, QueueWork(c) PROVE LockInv'
  BY <1>5 DEF QueueWork, NextAfterQueue
<1>6. ASSUME NEW c \in Calls, Down(c) PROVE LockInv'
  BY <1>6 DEF Down
<1>7. ASSUME NEW c \in Calls, Interrupt(c) PROVE LockInv'
  BY <1>7 DEF Interrupt
<1>8. ASSUME NEW c \in Calls, FreeWork(c) PROVE LockInv'
  BY <1>8 DEF FreeWork
<1>9. ASSUME NEW c \in Calls, DirectLock(c) PROVE LockInv'
  <2>1. \A x \in Contexts : WorkerInLua(x) => running[x] \in Calls
    BY DEF QueueInv, Running, Busy
  <2> QED
    BY <1>9, <2>1 DEF DirectLock, Lock
<1>10. ASSUME NEW c \in Calls, DirectExec(c) PROVE LockInv'
  BY <1>10 DEF DirectExec
<1>11. ASSUME NEW c \in Calls, DirectReturn(c) PROVE LockInv'
  <2>1. \A x \in Contexts : WorkerInLua(x) => work[running[x]] = "running"
    BY DEF QueueInv, Running, Busy
  <2>2. /\ work[c] = "none"
        /\ lock[CtxOf[c]] = c
        /\ lock' = Set(lock, CtxOf[c], NoCall)
        /\ pc' = Set(pc, c, "returned")
        /\ UNCHANGED <<wpc, running>>
    BY <1>11 DEF DirectReturn, Unlock, QueueInv, NotYetQueued
  <2> QED
    BY <2>1, <2>2
<1>12. ASSUME NEW x \in Contexts, Dequeue(x) PROVE LockInv'
  BY <1>12 DEF Dequeue
<1>13. ASSUME NEW x \in Contexts, WorkerLock(x) PROVE LockInv'
  <2>1. running[x] \in Calls /\ CtxOf[running[x]] = x
    BY <1>13 DEF WorkerLock, QueueInv, Running, Busy
  <2>2. /\ lock[x] = NoCall
        /\ lock' = Set(lock, x, running[x])
        /\ wpc' = Set(wpc, x, "exec")
        /\ UNCHANGED <<pc, running>>
    BY <1>13, <2>1 DEF WorkerLock, Lock
  <2> QED
    BY <2>1, <2>2
<1>14. ASSUME NEW x \in Contexts, WorkerExec(x) PROVE LockInv'
  BY <1>14 DEF WorkerExec, ExecOn
<1>15. ASSUME NEW x \in Contexts, WorkerUnlock(x) PROVE LockInv'
  <2>1. /\ running[x] \in Calls
        /\ CtxOf[running[x]] = x
        /\ work[running[x]] = "running"
        /\ lock[x] = running[x]
    BY <1>15 DEF WorkerUnlock, QueueInv, Running, Busy
  <2>2. /\ lock' = Set(lock, x, NoCall)
        /\ wpc' = Set(wpc, x, "idle") \/ wpc' = Set(wpc, x, "up")
        /\ running' = running \/ running' = Set(running, x, NoCall)
        /\ UNCHANGED pc
    BY <1>15, <2>1 DEF WorkerUnlock, Unlock
  <2>3. \A c \in Calls : InLua(c) => CtxOf[c] # x
    BY <2>1 DEF QueueInv, NotYetQueued
  <2>4. \A y \in Contexts : y # x => wpc'[y] = wpc[y] /\ running'[y] = running[y]
    BY <2>2
  <2>5. ~WorkerInLua(x)'
    BY <2>2
  <2> QED
    BY <2>2, <2>3, <2>4, <2>5
<1>16. ASSUME NEW x \in Contexts, WorkerUp(x) PROVE LockInv'
  BY <1>16 DEF WorkerUp, UpOn
<1>17. ASSUME NEW x \in Contexts, WorkerTestCallback(x) PROVE LockInv'
  BY <1>17 DEF WorkerTestCallback, TestCallbackOn, NextAfterUp
<1>18. ASSUME NEW x \in Contexts, ClientCallback(x) PROVE LockInv'
  BY <1>18 DEF ClientCallback, CallbackOn
<1>19. ASSUME NEW x \in Contexts, WorkerCleanup(x) PROVE LockInv'
  BY <1>19 DEF WorkerCleanup, CleanupOn
<1>20. ASSUME NEW x \in Contexts, WorkerOops(x) PROVE LockInv'
  BY <1>20 DEF WorkerOops
<1>21. ASSUME NEW c \in Calls, ClientRelease(c) PROVE LockInv'
  BY <1>21 DEF ClientRelease
<1>22. ASSUME NEW x \in Contexts, Exit(x) PROVE LockInv'
  BY <1>22 DEF Exit
<1>23. ASSUME NEW x \in Contexts, DestroyContext(x) PROVE LockInv'
  BY <1>23 DEF DestroyContext
<1>24. CASE UNCHANGED vars
  BY <1>24 DEF vars
<1> HIDE DEF TypeOK, LockInv, InLua, WorkerInLua, Set, callVars, memVars, dataVars,
        workVars, ctxVars
<1> QED
  BY <1>1, <1>2, <1>3, <1>4, <1>5, <1>6, <1>7, <1>8, <1>9, <1>10, <1>11, <1>12, <1>13,
     <1>14, <1>15, <1>16, <1>17, <1>18, <1>19, <1>20, <1>21, <1>22, <1>23, <1>24
     DEF Next, QuietNext, CallStep, WorkerStep, Terminated

\* Inv holds in every reachable state.
THEOREM Invariant == Spec => []Inv
<1>1. Init => Inv
  BY LoadcodeAssumption DEF Init, InitWith, Inv, TypeOK, Block, Outcome, Return, PC,
     WorkerPC, QueueInv, NotYetQueued, OnlyDirect, Queued, QueuedOnce, Running,
     Busy, LockInv, InLua, WorkerInLua
<1>2. Inv /\ [Next]_vars => Inv'
  BY TypeStep, QueueStep, LockStep DEF Inv
<1> QED
  BY <1>1, <1>2, PTL DEF Spec

\* The variables always have their types: whatever memory a late handler reads
\* or frees, it is some call's.
THEOREM TypeCorrect == Spec => []TypeOK
BY Invariant, PTL DEF Inv

\* At most one thread, caller or worker, is inside a context's Lua state.
THEOREM Exclusion == Spec => []MutualExclusion
<1>1. Inv => MutualExclusion
  <2> SUFFICES ASSUME Inv PROVE MutualExclusion
    OBVIOUS
  <2>1. \A c1, c2 \in Calls :
           InLua(c1) /\ InLua(c2) /\ CtxOf[c1] = CtxOf[c2] => c1 = c2
    BY DEF Inv, LockInv
  <2>2. \A c1 \in Calls : InLua(c1) => ~WorkerInLua(CtxOf[c1])
    BY LoadcodeAssumption DEF Inv, LockInv, QueueInv, NotYetQueued, Running, Busy, InLua,
       WorkerInLua
  <2> QED
    BY <2>1, <2>2 DEF MutualExclusion
<1> QED
  BY <1>1, Invariant, PTL
=============================================================================
