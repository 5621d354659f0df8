------------------------- MODULE LoadcodeLifeProofs -------------------------
(***************************************************************************)
(* The life of one call, from its allocations to its last release: what    *)
(* its caller, its work item and the handler have done so far determine    *)
(* its outcome, its callbacks, its return value and its memory.            *)
(*                                                                         *)
(* Every step works for one call.  Life(c) speaks of call c alone, so a    *)
(* step keeps it for all the others (LifeFrame), and what is left to prove *)
(* of an action is Life(c) of the call it works for.                       *)
(***************************************************************************)
EXTENDS LoadcodeProofs

\* Nobody waits for these jobs.
Unattended(c) == Detached(c) \/ api[c] = "openlib"

\* Where the work item of c is: not queued, pending, in a step of its handler,
\* or finished.
Stage(c) == IF work[c] = "running" THEN wpc[CtxOf[c]] ELSE work[c]

\* The worker of a context runs the items that say so, and no others, and a
\* pending item is in its context's queue.
RunsItem ==
    /\ \A c \in Calls : work[c] = "running" =>
          running[CtxOf[c]] = c /\ wpc[CtxOf[c]] # "idle"
    /\ \A x \in Contexts : running[x] # NoCall =>
          CtxOf[running[x]] = x /\ work[running[x]] = "running"
    /\ \A x \in Contexts : wpc[x] = "idle" => running[x] = NoCall
PendingQueued ==
    \A c \in Calls : work[c] = "pending" =>
        \E i \in 1..Len(queue[CtxOf[c]]) : queue[CtxOf[c]][i] = c

\* The caller's position and the work item's.
CallerLife(c) ==
    /\ pc[c] \in {"idle", "alloc", "create", "lock", "exec", "unlock", "oops"}
         => Stage(c) = "none"
    /\ pc[c] = "idle" <=> api[c] = "none"
    /\ pc[c] = "alloc" => api[c] # "openlib"
    /\ pc[c] = "create" => api[c] # "direct"
    /\ pc[c] \in {"lock", "exec", "unlock"} => api[c] = "direct"
    /\ pc[c] \in {"wait", "free"} => Waits(c) /\ Stage(c) # "none"
    /\ api[c] \in {"none", "direct"} => Stage(c) = "none"
    /\ api[c] = "openlib" => Stage(c) \notin {"up", "cb", "in_cb", "cb_work"}
    /\ api[c] \in {"loadcode_nores", "async_nores", "openlib"} => ~need[c]

\* The code has run as soon as the lock is about to be released, not earlier.
OutcomeLife(c) ==
    /\ pc[c] \in {"idle", "alloc", "create", "lock", "exec"} => dret[c] = "unset"
    /\ api[c] # "direct" /\ Stage(c) = "none" => dret[c] = "unset"
    /\ pc[c] = "unlock" => dret[c] # "unset"
    /\ Stage(c) \in {"pending", "lock", "exec"} => dret[c] = "unset"
    /\ Stage(c) \in {"unlock", "up", "cb", "in_cb", "cb_work", "finished"}
         => dret[c] # "unset"
    /\ sem[c] # 0 => dret[c] # "unset"
         /\ Stage(c) \in {"cb", "in_cb", "cb_work", "finished", "oops"}

\* The client is called back in one step of the handler.
CallbackLife(c) ==
    /\ cbs[c] \in {0, 1}
    /\ cbs[c] = 1 => HasCallback(c) /\ dret[c] # "unset"
    /\ Stage(c) \in {"none", "pending", "lock", "exec", "unlock", "up", "cb", "in_cb"}
         => cbs[c] = 0
    /\ Stage(c) = "in_cb" => HasCallback(c)
    /\ HasCallback(c) /\ Stage(c) \in {"cb_work", "finished"} => cbs[c] = 1

\* What the function returned, and whether it handed out a result.
AnswerLife(c) ==
    /\ pc[c] \in {"idle", "alloc", "create", "wait", "lock", "exec", "unlock"}
         => ret[c] = "none" /\ ~got[c]
    /\ pc[c] \in {"free", "returned", "done"} => ret[c] # "none"
    /\ ret[c] = "eintr" => Signals
    /\ Waits(c) /\ Stage(c) # "none" /\ ret[c] \notin {"none", "eintr"} =>
         /\ dret[c] # "unset" /\ ret[c] = dret[c]
         /\ Stage(c) \notin {"pending", "lock", "exec", "unlock", "up"}
    /\ Unattended(c) /\ Stage(c) # "none" => ret[c] = "ok"
    /\ api[c] # "direct" /\ Stage(c) = "none" => ret[c] \in {"none", "enomem"}
    /\ got[c] => need[c]
    /\ got[c] => \/ api[c] = "direct"
                 \/ /\ Waits(c) /\ ret[c] # "eintr"
                    /\ Stage(c) \notin {"none", "pending", "lock", "exec", "unlock", "up"}

\* The blocks d, lw and res.  A result nobody took can only be that of an
\* interrupted caller.
BlockLife(c) ==
    /\ pc[c] = "idle" => d[c] = "none" /\ lw[c] = "none"
    /\ pc[c] = "alloc" => d[c] = "none"
    /\ pc[c] = "create" /\ api[c] # "openlib" => d[c] = "live"
    /\ pc[c] \in {"wait", "free"} => d[c] = "live" /\ lw[c] = "live"
    /\ pc[c] \in {"returned", "done"} /\ api[c] \in {"direct", "loadcode", "sync"}
         => d[c] # "live" /\ lw[c] # "live"
    /\ Stage(c) = "none" => lw[c] = "none"
    /\ Detached(c) /\ Stage(c) = "none" /\ pc[c] \notin {"create", "oops"} => d[c] = "none"
    /\ Detached(c) /\ Stage(c) = "finished" => d[c] = "freed" /\ lw[c] = "freed"
    /\ Detached(c) /\ Stage(c) \notin {"none", "finished", "oops"}
         => d[c] = "live" /\ lw[c] = "live"
    /\ api[c] = "openlib" /\ Stage(c) # "none" => lw[c] = "live"
    /\ d[c] = "freed" => \/ api[c] = "direct"
                         \/ Waits(c) /\ pc[c] \in {"returned", "done"}
                         \/ Detached(c) /\ Stage(c) = "finished"
    /\ res[c] = "live" => need[c]
    /\ Stage(c) \in {"none", "pending", "lock", "exec"} /\ api[c] # "direct"
         => res[c] = "none"
    /\ pc[c] \in {"alloc", "lock", "exec"} => res[c] = "none"
    /\ HasCallback(c) /\ Stage(c) \in {"cb_work", "finished"} => res[c] # "live"
    /\ pc[c] \in {"free", "returned"} /\ ~Detached(c) /\ ret[c] # "eintr" /\ res[c] = "live"
         => got[c]
    /\ pc[c] = "done" /\ ~Detached(c) /\ ret[c] # "eintr" => res[c] # "live"

Life(c) == CallerLife(c) /\ OutcomeLife(c) /\ CallbackLife(c) /\ AnswerLife(c) /\ BlockLife(c)

\* The chunk: lunatik, the callback or the client releases it, never two of
\* them and never none.
CodeLife(c) ==
    /\ pc[c] = "idle" => code[c] = "none"
    /\ pc[c] \in {"alloc", "create", "wait"} /\ api[c] # "openlib" => code[c] = "live"
    /\ Detached(c) /\ Stage(c) \in {"pending", "lock", "exec", "unlock", "up", "cb", "in_cb"}
         => code[c] = "live"
    /\ api[c] = "loadcode_nores" /\ Stage(c) = "cb_work" => code[c] = "live"
    /\ pc[c] = "done" /\ api[c] # "openlib" /\ (~Detached(c) \/ ret[c] # "ok")
         => code[c] = "freed"
    /\ HasCallback(c) /\ Stage(c) = "cb_work" => code[c] = "freed"
    /\ Detached(c) /\ Stage(c) = "finished" => code[c] = "freed"
CodeInv == \A c \in Calls : CodeLife(c)

\* lunatik_exit runs when the clients of the context are gone for good.
ExitInv ==
    \A x \in Contexts :
        /\ tpc[x] # "idle" => \A c \in Calls : CtxOf[c] = x =>
              /\ pc[c] \in {"idle", "done", "oops"}
              /\ HasCallback(c) /\ ret[c] = "ok" => cbs[c] = 1
        /\ lc[x] # "live" => tpc[x] # "idle"

LifeInv == RunsItem /\ PendingQueued /\ (\A c \in Calls : Life(c))

\* Only a freed d is given to another call, and only to one of the functions in
\* Reuse.
AliasInv ==
    \A c \in Calls : at[c] # c =>
        d[c] = "freed" /\ d[at[c]] # "none" /\ api[at[c]] \in Reuse

-----------------------------------------------------------------------------
\* What the steps do as long as every handler finds in d the data of its own
\* call: the lemmas about Life are about these steps, and HandlerOwns below
\* shows that under HarmlessReuse there are no others.
PlainWorker(x) ==
    \/ Dequeue(x) \/ WorkerLock(x) \/ ExecOn(x, running[x]) \/ WorkerUnlock(x)
    \/ UpOn(x, running[x]) \/ TestCallbackOn(x, running[x]) \/ CleanupOn(x, running[x])

PlainNext ==
    \/ \E c \in Calls : Begin(c) \/ CallStep(c) \/ Interrupt(c) \/ ClientRelease(c)
    \/ \E x \in Contexts : \/ PlainWorker(x) \/ CallbackOn(x, running[x]) \/ WorkerOops(x)
                           \/ Exit(x) \/ DestroyContext(x)
    \/ Terminated

\* A step leaves call e alone.
Same(e) ==
    /\ pc'[e] = pc[e] /\ api'[e] = api[e] /\ need'[e] = need[e]
    /\ ret'[e] = ret[e] /\ got'[e] = got[e]
    /\ d'[e] = d[e] /\ lw'[e] = lw[e] /\ code'[e] = code[e] /\ res'[e] = res[e]
    /\ dret'[e] = dret[e] /\ sem'[e] = sem[e] /\ cbs'[e] = cbs[e]
    /\ Stage(e)' = Stage(e)

\* A call that a step leaves alone keeps its life.
LEMMA LifeFrame ==
    ASSUME NEW c \in Calls, \A e \in Calls : Life(e), \A e \in Calls \ {c} : Same(e),
           Life(c)'
    PROVE  \A e \in Calls : Life(e)'
<1> SUFFICES ASSUME NEW e \in Calls, e # c PROVE Life(e)'
  OBVIOUS
<1>1. Life(e) /\ Same(e)
  OBVIOUS
<1>2. CallerLife(e)' /\ OutcomeLife(e)'
  BY <1>1 DEF Life, CallerLife, OutcomeLife, Same, Waits
<1>3. CallbackLife(e)' /\ AnswerLife(e)'
  BY <1>1 DEF Life, CallbackLife, AnswerLife, Same, HasCallback, Waits, Unattended, Detached
<1>4. BlockLife(e)'
  BY <1>1 DEF Life, BlockLife, Same, HasCallback, Detached, Waits
<1> QED
  BY <1>2, <1>3, <1>4 DEF Life

\* A step of the worker of x for its call c does not touch the items of others.
LEMMA WorkerFrame ==
    ASSUME RunsItem, NEW x \in Contexts, NEW c \in Calls, running[x] \in {c, NoCall},
           \A e \in Calls \ {c} : work'[e] = work[e],
           \A y \in Contexts \ {x} : wpc'[y] = wpc[y]
    PROVE  \A e \in Calls \ {c} : Stage(e)' = Stage(e)
<1> SUFFICES ASSUME NEW e \in Calls \ {c} PROVE Stage(e)' = Stage(e)
  OBVIOUS
<1>1. work[e] = "running" => CtxOf[e] \in Contexts \ {x}
  BY LoadcodeAssumption DEF RunsItem
<1> QED
  BY <1>1 DEF Stage

\* Running Lua sets the outcome of call c, and a result only if it is wanted.
LEMMA RunLuaEffect ==
    ASSUME NEW c \in Calls, TypeOK, RunLua(c)
    PROVE  /\ dret'[c] # "unset"
           /\ \A e \in Calls \ {c} : dret'[e] = dret[e] /\ res'[e] = res[e]
           /\ res'[c] = res[c] \/ (res'[c] = "live" /\ need[c])
<1>1. \/ dret' = Set(dret, c, "ok") \/ dret' = Set(dret, c, "lua_err")
      \/ dret' = Set(dret, c, "enomem") \/ dret' = Set(dret, c, "einval")
  BY DEF RunLua
<1>2. res' = res \/ (res' = Set(res, c, "live") /\ need[c])
  BY DEF RunLua
<1> QED
  BY <1>1, <1>2 DEF TypeOK, Set

\* The oldest item of a queue is a pending item of that context.
LEMMA HeadItem ==
    ASSUME TypeOK, QueueInv, NEW x \in Contexts, queue[x] # <<>>
    PROVE  /\ Head(queue[x]) \in Calls
           /\ CtxOf[Head(queue[x])] = x
           /\ work[Head(queue[x])] = "pending"
<1>1. queue[x] \in Seq(Calls)
  BY DEF TypeOK
<1>2. 1 \in 1..Len(queue[x]) /\ Head(queue[x]) = queue[x][1]
  BY <1>1
<1>3. queue[x][1] \in Calls
  BY <1>1, <1>2
<1>4. CtxOf[queue[x][1]] = x /\ work[queue[x][1]] = "pending"
  BY <1>2 DEF QueueInv, Queued
<1> QED
  BY <1>2, <1>3, <1>4

\* Every step keeps the correspondence of workers, queues and work items.
LEMMA RunsStep ==
    Inv /\ Inv' /\ RunsItem /\ PendingQueued /\ [PlainNext]_vars => RunsItem' /\ PendingQueued'
<1> SUFFICES ASSUME TypeOK, TypeOK', QueueInv, RunsItem, PendingQueued, [PlainNext]_vars
             PROVE  RunsItem' /\ PendingQueued'
  BY DEF Inv
<1> USE LoadcodeAssumption DEF TypeOK, Set, RunsItem, PendingQueued, callVars, memVars, dataVars,
        workVars, ctxVars
<1>1. ASSUME NEW c \in Calls, Begin(c) PROVE RunsItem' /\ PendingQueued'
  <2>1. UNCHANGED <<work, running, queue, wpc>>
    BY <1>1 DEF Begin
  <2> HIDE DEF TypeOK, Set
  <2> QED
    BY <2>1
<1>2. ASSUME NEW c \in Calls, AllocData(c) PROVE RunsItem' /\ PendingQueued'
  <2>1. UNCHANGED <<work, running, queue, wpc>>
    BY <1>2 DEF AllocData
  <2> HIDE DEF TypeOK, Set
  <2> QED
    BY <2>1
<1>3. ASSUME NEW c \in Calls, AllocDataFails(c) PROVE RunsItem' /\ PendingQueued'
  <2>1. UNCHANGED <<work, running, queue, wpc>>
    BY <1>3 DEF AllocDataFails
  <2> HIDE DEF TypeOK, Set
  <2> QED
    BY <2>1
<1>4. ASSUME NEW c \in Calls, CreateWorkFails(c) PROVE RunsItem' /\ PendingQueued'
  <2>1. UNCHANGED <<work, running, queue, wpc>>
    BY <1>4 DEF CreateWorkFails
  <2> HIDE DEF TypeOK, Set
  <2> QED
    BY <2>1
<1>5. ASSUME NEW c \in Calls, QueueWork(c) PROVE RunsItem' /\ PendingQueued'
  <2>1. /\ work' = Set(work, c, "pending") /\ work[c] = "none"
        /\ queue' = [queue EXCEPT ![CtxOf[c]] = Append(@, c)]
        /\ UNCHANGED <<wpc, running>>
    BY <1>5 DEF QueueWork, Enqueue, QueueInv, NotYetQueued
  <2>2. RunsItem'
    BY <2>1
  <2>3. ASSUME NEW e \in Calls, work'[e] = "pending"
        PROVE  \E i \in 1..Len(queue'[CtxOf[e]]) : queue'[CtxOf[e]][i] = e
    <3> DEFINE q == queue[CtxOf[e]]
    <3>1. q \in Seq(Calls)
      OBVIOUS
    <3>2. CASE e = c
      <4>1. queue'[CtxOf[e]] = Append(q, e)
        BY <2>1, <3>2
      <4>2. Len(Append(q, e)) \in 1..Len(Append(q, e)) /\ Append(q, e)[Len(Append(q, e))] = e
        BY <3>1
      <4> QED
        BY SMTT(60), <4>1, <4>2
    <3>3. CASE e # c
      <4>1. PICK i \in 1..Len(q) : q[i] = e
        BY <2>1, <2>3, <3>3
      <4>2. queue'[CtxOf[e]] = q \/ queue'[CtxOf[e]] = Append(q, c)
        <5>1. CASE CtxOf[e] = CtxOf[c]
          BY <2>1, <5>1
        <5>2. CASE CtxOf[e] # CtxOf[c]
          BY <2>1, <5>2
        <5> QED
          BY <5>1, <5>2
      <4>3. i \in 1..Len(Append(q, c)) /\ Append(q, c)[i] = e
        BY <3>1, <4>1
      <4> QED
        BY <4>1, <4>2, <4>3
    <3> QED
      BY <3>2, <3>3
  <2> QED
    BY <2>2, <2>3
<1>6. ASSUME NEW c \in Calls, Down(c) PROVE RunsItem' /\ PendingQueued'
  <2>1. UNCHANGED <<work, running, queue, wpc>>
    BY <1>6 DEF Down
  <2> HIDE DEF TypeOK, Set
  <2> QED
    BY <2>1
<1>7. ASSUME NEW c \in Calls, Interrupt(c) PROVE RunsItem' /\ PendingQueued'
  <2>1. UNCHANGED <<work, running, queue, wpc>>
    BY <1>7 DEF Interrupt
  <2> HIDE DEF TypeOK, Set
  <2> QED
    BY <2>1
<1>8. ASSUME NEW c \in Calls, FreeWork(c) PROVE RunsItem' /\ PendingQueued'
  <2>1. UNCHANGED <<work, running, queue, wpc>>
    BY <1>8 DEF FreeWork
  <2> HIDE DEF TypeOK, Set
  <2> QED
    BY <2>1
<1>9. ASSUME NEW c \in Calls, DirectLock(c) PROVE RunsItem' /\ PendingQueued'
  <2>1. UNCHANGED <<work, running, queue, wpc>>
    BY <1>9 DEF DirectLock
  <2> HIDE DEF TypeOK, Set
  <2> QED
    BY <2>1
<1>10. ASSUME NEW c \in Calls, DirectExec(c) PROVE RunsItem' /\ PendingQueued'
  <2>1. UNCHANGED <<work, running, queue, wpc>>
    BY <1>10 DEF DirectExec
  <2> HIDE DEF TypeOK, Set
  <2> QED
    BY <2>1
<1>11. ASSUME NEW c \in Calls, DirectReturn(c) PROVE RunsItem' /\ PendingQueued'
  <2>1. UNCHANGED <<work, running, queue, wpc>>
    BY <1>11 DEF DirectReturn
  <2> HIDE DEF TypeOK, Set
  <2> QED
    BY <2>1
<1>12. ASSUME NEW x \in Contexts, Dequeue(x) PROVE RunsItem' /\ PendingQueued'
  <2> DEFINE q == queue[x]
             h == Head(q)
  <2>1. /\ h \in Calls /\ CtxOf[h] = x /\ work[h] = "pending"
        /\ q \in Seq(Calls) /\ q # <<>> /\ h = q[1]
    <3>1. queue[x] # <<>> /\ queue[x] \in Seq(Calls)
      BY <1>12 DEF Dequeue
    <3> HIDE DEF TypeOK, RunsItem, PendingQueued
    <3>2. h = q[1]
      BY <3>1
    <3> QED
      BY <3>1, <3>2, HeadItem
  <2>2. /\ running' = Set(running, x, h)
        /\ queue' = Set(queue, x, Tail(q))
        /\ work' = Set(work, h, "running")
        /\ wpc' = Set(wpc, x, "lock")
        /\ wpc[x] = "idle"
    BY <1>12 DEF Dequeue
  <2>3. RunsItem'
    <3> HIDE DEF h
    <3>1. /\ running'[x] = h /\ wpc'[x] = "lock" /\ work'[h] = "running"
          /\ \A e \in Calls \ {h} : work'[e] = work[e]
          /\ \A y \in Contexts \ {x} : running'[y] = running[y] /\ wpc'[y] = wpc[y]
      BY <2>1, <2>2
    <3>2. \A y \in Contexts : running[y] \in Calls \cup {NoCall}
      OBVIOUS
    <3> HIDE DEF TypeOK, Set, PendingQueued
    <3> QED
      BY <2>1, <2>2, <3>1, <3>2
  <2>4. ASSUME NEW e \in Calls, work'[e] = "pending"
        PROVE  \E i \in 1..Len(queue'[CtxOf[e]]) : queue'[CtxOf[e]][i] = e
    <3>1. e # h /\ work[e] = "pending"
      BY SMTT(60), <2>1, <2>2, <2>4
    <3>2. CASE CtxOf[e] # x
      BY <2>2, <3>1, <3>2
    <3>3. CASE CtxOf[e] = x
      <4>1. PICK i \in 1..Len(q) : q[i] = e
        BY <3>1, <3>3
      <4>2. i # 1
        BY <2>1, <3>1, <4>1
      <4>3. i - 1 \in 1..Len(Tail(q)) /\ Tail(q)[i - 1] = e
        BY <2>1, <4>1, <4>2
      <4>4. queue'[CtxOf[e]] = Tail(q)
        BY <2>2, <3>3
      <4> QED
        BY <4>3, <4>4
    <3> QED
      BY <3>2, <3>3
  <2> QED
    BY <2>3, <2>4
<1>13. ASSUME NEW x \in Contexts, WorkerLock(x) PROVE RunsItem' /\ PendingQueued'
  <2>1. /\ wpc'[x] # "idle" /\ \A y \in Contexts \ {x} : wpc'[y] = wpc[y]
        /\ UNCHANGED <<work, running, queue>>
    BY <1>13 DEF WorkerLock
  <2> HIDE DEF TypeOK, Set
  <2> QED
    BY <2>1
<1>14. ASSUME NEW x \in Contexts, ExecOn(x, running[x]) PROVE RunsItem' /\ PendingQueued'
  <2>1. wpc' = Set(wpc, x, "unlock") /\ UNCHANGED <<work, running, queue>>
    BY <1>14 DEF ExecOn
  <2> QED
    BY <2>1
<1>15. ASSUME NEW x \in Contexts, WorkerUnlock(x) PROVE RunsItem' /\ PendingQueued'
  <2>1. /\ running[x] \in Calls /\ CtxOf[running[x]] = x /\ work[running[x]] = "running"
        /\ UNCHANGED queue
    BY <1>15 DEF WorkerUnlock, QueueInv, Running, Busy
  <2>2. \/ /\ wpc' = Set(wpc, x, "idle")
           /\ running' = Set(running, x, NoCall)
           /\ work' = Set(work, running[x], "finished")
        \/ /\ wpc' = Set(wpc, x, "up")
           /\ UNCHANGED <<running, work>>
    BY <1>15 DEF WorkerUnlock
  <2>3. CASE /\ wpc' = Set(wpc, x, "idle")
             /\ running' = Set(running, x, NoCall)
             /\ work' = Set(work, running[x], "finished")
    BY <2>1, <2>3
  <2>4. CASE wpc' = Set(wpc, x, "up") /\ UNCHANGED <<running, work>>
    BY <2>1, <2>4
  <2> QED
    BY <2>2, <2>3, <2>4
<1>16. ASSUME NEW x \in Contexts, UpOn(x, running[x]) PROVE RunsItem' /\ PendingQueued'
  <2>1. /\ wpc'[x] # "idle" /\ \A y \in Contexts \ {x} : wpc'[y] = wpc[y]
        /\ UNCHANGED <<work, running, queue>>
    BY <1>16 DEF UpOn
  <2> HIDE DEF TypeOK, Set
  <2> QED
    BY <2>1
<1>17. ASSUME NEW x \in Contexts, TestCallbackOn(x, running[x]) PROVE RunsItem' /\ PendingQueued'
  <2>1. /\ wpc'[x] # "idle" /\ \A y \in Contexts \ {x} : wpc'[y] = wpc[y]
        /\ UNCHANGED <<work, running, queue>>
    BY <1>17 DEF TestCallbackOn, NextAfterUp
  <2> HIDE DEF TypeOK, Set
  <2> QED
    BY <2>1
<1>18. ASSUME NEW x \in Contexts, CallbackOn(x, running[x]) PROVE RunsItem' /\ PendingQueued'
  <2>1. /\ wpc'[x] # "idle" /\ \A y \in Contexts \ {x} : wpc'[y] = wpc[y]
        /\ UNCHANGED <<work, running, queue>>
    BY <1>18 DEF CallbackOn
  <2> HIDE DEF TypeOK, Set
  <2> QED
    BY <2>1
<1>19. ASSUME NEW x \in Contexts, CleanupOn(x, running[x]) PROVE RunsItem' /\ PendingQueued'
  <2>1. /\ running[x] \in Calls /\ CtxOf[running[x]] = x /\ work[running[x]] = "running"
        /\ wpc' = Set(wpc, x, "idle")
        /\ running' = Set(running, x, NoCall)
        /\ work' = Set(work, running[x], "finished")
        /\ UNCHANGED queue
    BY <1>19 DEF CleanupOn, QueueInv, Running, Busy
  <2> QED
    BY <2>1
<1>20. ASSUME NEW x \in Contexts, WorkerOops(x) PROVE RunsItem' /\ PendingQueued'
  <2>1. /\ wpc'[x] # "idle" /\ \A y \in Contexts \ {x} : wpc'[y] = wpc[y]
        /\ UNCHANGED <<work, running, queue>>
    BY <1>20 DEF WorkerOops
  <2> HIDE DEF TypeOK, Set
  <2> QED
    BY <2>1
<1>21. ASSUME NEW c \in Calls, ClientRelease(c) PROVE RunsItem' /\ PendingQueued'
  <2>1. UNCHANGED <<work, running, queue, wpc>>
    BY <1>21 DEF ClientRelease
  <2> HIDE DEF TypeOK, Set
  <2> QED
    BY <2>1
<1>22. ASSUME NEW x \in Contexts, Exit(x) PROVE RunsItem' /\ PendingQueued'
  <2>1. UNCHANGED <<work, running, queue, wpc>>
    BY <1>22 DEF Exit
  <2> HIDE DEF TypeOK, Set
  <2> QED
    BY <2>1
<1>23. ASSUME NEW x \in Contexts, DestroyContext(x) PROVE RunsItem' /\ PendingQueued'
  <2>1. UNCHANGED <<work, running, queue, wpc>>
    BY <1>23 DEF DestroyContext
  <2> HIDE DEF TypeOK, Set
  <2> QED
    BY <2>1
<1>24. CASE UNCHANGED vars
  BY <1>24 DEF vars
<1> HIDE DEF TypeOK, Set, RunsItem, PendingQueued, callVars, memVars, dataVars, workVars, ctxVars
<1> QED
  BY <1>1, <1>2, <1>3, <1>4, <1>5, <1>6, <1>7, <1>8, <1>9, <1>10, <1>11, <1>12, <1>13,
     <1>14, <1>15, <1>16, <1>17, <1>18, <1>19, <1>20, <1>21, <1>22, <1>23, <1>24
     DEF PlainNext, CallStep, PlainWorker, Terminated
\* Every step keeps the life of every call.
LEMMA LifeStep == Inv /\ Inv' /\ LifeInv /\ [PlainNext]_vars => \A c \in Calls : Life(c)'
<1> DEFINE Alive == \A e \in Calls : Life(e)'
<1> SUFFICES ASSUME TypeOK, TypeOK', QueueInv, RunsItem, \A e \in Calls : Life(e), [PlainNext]_vars
             PROVE  Alive
  BY DEF Inv, LifeInv
<1>0. ASSUME NEW x \in Contexts, Busy(x)
      PROVE  running[x] \in Calls /\ CtxOf[running[x]] = x /\ work[running[x]] = "running"
  BY <1>0 DEF QueueInv, Running
<1> USE LoadcodeAssumption DEF TypeOK, Set, callVars, memVars, dataVars, workVars, ctxVars
<1>1. ASSUME NEW c \in Calls, AllocData(c) PROVE Alive
  <2>1. /\ pc[c] = "alloc"
        /\ pc'[c] = (IF api[c] = "direct" THEN "lock" ELSE "create") /\ d'[c] = "live"
        /\ dret'[c] = "unset"
        /\ sem'[c] = 0
        /\ api'[c] = api[c] /\ need'[c] = need[c] /\ ret'[c] = ret[c] /\ got'[c] = got[c]
        /\ lw'[c] = lw[c] /\ code'[c] = code[c] /\ res'[c] = res[c] /\ cbs'[c] = cbs[c]
        /\ Stage(c)' = Stage(c)
    BY <1>1 DEF AllocData, Stage
  <2>2. \A e \in Calls \ {c} : Same(e)
    BY <1>1 DEF AllocData, Stage, Same
  <2> HIDE DEF TypeOK, Set
  <2>3. Life(c)'
    BY <2>1 DEF Outcome, Life, CallerLife, OutcomeLife, CallbackLife, AnswerLife, BlockLife,
       Waits, Unattended, Detached, HasCallback
  <2> HIDE DEF Alive
  <2> QED
    BY <2>2, <2>3, LifeFrame DEF Alive
<1>2. ASSUME NEW c \in Calls, AllocDataFails(c) PROVE Alive
  <2>1. /\ pc[c] = "alloc"
        /\ pc'[c] = "returned" /\ ret'[c] = "enomem"
        /\ api'[c] = api[c] /\ need'[c] = need[c] /\ got'[c] = got[c] /\ d'[c] = d[c]
        /\ lw'[c] = lw[c] /\ code'[c] = code[c] /\ res'[c] = res[c] /\ dret'[c] = dret[c]
        /\ sem'[c] = sem[c] /\ cbs'[c] = cbs[c]
        /\ Stage(c)' = Stage(c)
    BY <1>2 DEF AllocDataFails, Stage
  <2>2. \A e \in Calls \ {c} : Same(e)
    BY <1>2 DEF AllocDataFails, Stage, Same
  <2> HIDE DEF TypeOK, Set
  <2>3. Life(c)'
    BY <2>1 DEF Outcome, Life, CallerLife, OutcomeLife, CallbackLife, AnswerLife, BlockLife,
       Waits, Unattended, Detached, HasCallback
  <2> HIDE DEF Alive
  <2> QED
    BY <2>2, <2>3, LifeFrame DEF Alive
<1>3. ASSUME NEW c \in Calls, CreateWorkFails(c) PROVE Alive
  <2>1. /\ pc[c] = "create"
        /\ pc'[c] = "oops"
        /\ api'[c] = api[c] /\ need'[c] = need[c] /\ ret'[c] = ret[c] /\ got'[c] = got[c]
        /\ d'[c] = d[c] /\ lw'[c] = lw[c] /\ code'[c] = code[c] /\ res'[c] = res[c]
        /\ dret'[c] = dret[c] /\ sem'[c] = sem[c] /\ cbs'[c] = cbs[c]
        /\ Stage(c)' = Stage(c)
    BY <1>3 DEF CreateWorkFails, Stage
  <2>2. \A e \in Calls \ {c} : Same(e)
    BY <1>3 DEF CreateWorkFails, Stage, Same
  <2> HIDE DEF TypeOK, Set
  <2>3. Life(c)'
    BY <2>1 DEF Outcome, Life, CallerLife, OutcomeLife, CallbackLife, AnswerLife, BlockLife,
       Waits, Unattended, Detached, HasCallback
  <2> HIDE DEF Alive
  <2> QED
    BY <2>2, <2>3, LifeFrame DEF Alive
<1>4. ASSUME NEW c \in Calls, QueueWork(c) PROVE Alive
  <2>1. /\ pc[c] = "create"
        /\ pc'[c] = (IF Waits(c) THEN "wait" ELSE "returned")
        /\ ret'[c] = (IF Waits(c) THEN ret[c] ELSE "ok") /\ lw'[c] = "live"
        /\ api'[c] = api[c] /\ need'[c] = need[c] /\ got'[c] = got[c] /\ d'[c] = d[c]
        /\ code'[c] = code[c] /\ res'[c] = res[c] /\ dret'[c] = dret[c] /\ sem'[c] = sem[c]
        /\ cbs'[c] = cbs[c]
        /\ Stage(c)' = "pending"
    BY <1>4 DEF QueueWork, Stage, NextAfterQueue
  <2>2. \A e \in Calls \ {c} : Same(e)
    BY <1>4 DEF QueueWork, Stage, NextAfterQueue, Same
  <2> HIDE DEF TypeOK, Set
  <2>3. Life(c)'
    BY <2>1 DEF Outcome, Life, CallerLife, OutcomeLife, CallbackLife, AnswerLife, BlockLife,
       Waits, Unattended, Detached, HasCallback
  <2> HIDE DEF Alive
  <2> QED
    BY <2>2, <2>3, LifeFrame DEF Alive
<1>5. ASSUME NEW c \in Calls, Down(c) PROVE Alive
  <2>1. /\ pc[c] = "wait" /\ sem[c] # 0
        /\ pc'[c] = "free" /\ ret'[c] = dret[c] /\ dret[c] \in Outcome
        /\ got'[c] = (need[c] /\ res[c] = "live")
        /\ api'[c] = api[c] /\ need'[c] = need[c] /\ d'[c] = d[c] /\ lw'[c] = lw[c]
        /\ code'[c] = code[c] /\ res'[c] = res[c] /\ dret'[c] = dret[c] /\ cbs'[c] = cbs[c]
        /\ Stage(c)' = Stage(c)
    BY <1>5 DEF Down, Stage, Completed
  <2>2. \A e \in Calls \ {c} : Same(e)
    BY <1>5 DEF Down, Stage, Completed, Same
  <2> HIDE DEF TypeOK, Set
  <2>3. Life(c)'
    <3>0. Life(c)
      OBVIOUS
    <3>1. CallerLife(c)' /\ OutcomeLife(c)'
      BY <2>1, <3>0 DEF Life, CallerLife, OutcomeLife, Waits
    <3>2. CallbackLife(c)' /\ AnswerLife(c)'
      BY <2>1, <3>0 DEF Outcome, Life, CallerLife, OutcomeLife, CallbackLife, AnswerLife,
         Waits, Unattended, Detached, HasCallback
    <3>3. BlockLife(c)'
      BY <2>1, <3>0 DEF Life, CallerLife, OutcomeLife, BlockLife, Waits, Detached,
         HasCallback
    <3> QED
      BY <3>1, <3>2, <3>3 DEF Life
  <2> HIDE DEF Alive
  <2> QED
    BY <2>2, <2>3, LifeFrame DEF Alive
<1>6. ASSUME NEW c \in Calls, Interrupt(c) PROVE Alive
  <2>1. /\ pc[c] = "wait" /\ Signals
        /\ pc'[c] = "free" /\ ret'[c] = "eintr"
        /\ api'[c] = api[c] /\ need'[c] = need[c] /\ got'[c] = got[c] /\ d'[c] = d[c]
        /\ lw'[c] = lw[c] /\ code'[c] = code[c] /\ res'[c] = res[c] /\ dret'[c] = dret[c]
        /\ sem'[c] = sem[c] /\ cbs'[c] = cbs[c]
        /\ Stage(c)' = Stage(c)
    BY <1>6 DEF Interrupt, Stage
  <2>2. \A e \in Calls \ {c} : Same(e)
    BY <1>6 DEF Interrupt, Stage, Same
  <2> HIDE DEF TypeOK, Set
  <2>3. Life(c)'
    BY <2>1 DEF Outcome, Life, CallerLife, OutcomeLife, CallbackLife, AnswerLife, BlockLife,
       Waits, Unattended, Detached, HasCallback
  <2> HIDE DEF Alive
  <2> QED
    BY <2>2, <2>3, LifeFrame DEF Alive
<1>7. ASSUME NEW c \in Calls, FreeWork(c) PROVE Alive
  <2>1. /\ pc[c] = "free"
        /\ pc'[c] = "returned" /\ d'[c] = "freed" /\ lw'[c] = "freed"
        /\ api'[c] = api[c] /\ need'[c] = need[c] /\ ret'[c] = ret[c] /\ got'[c] = got[c]
        /\ code'[c] = code[c] /\ res'[c] = res[c] /\ dret'[c] = dret[c] /\ sem'[c] = sem[c]
        /\ cbs'[c] = cbs[c]
        /\ Stage(c)' = Stage(c)
    BY <1>7 DEF FreeWork, Stage
  <2>2. \A e \in Calls \ {c} : Same(e)
    BY <1>7 DEF FreeWork, Stage, Same
  <2> HIDE DEF TypeOK, Set
  <2>3. Life(c)'
    BY <2>1 DEF Outcome, Life, CallerLife, OutcomeLife, CallbackLife, AnswerLife, BlockLife,
       Waits, Unattended, Detached, HasCallback
  <2> HIDE DEF Alive
  <2> QED
    BY <2>2, <2>3, LifeFrame DEF Alive
<1>8. ASSUME NEW c \in Calls, DirectLock(c) PROVE Alive
  <2>1. /\ pc[c] = "lock"
        /\ pc'[c] = "exec"
        /\ api'[c] = api[c] /\ need'[c] = need[c] /\ ret'[c] = ret[c] /\ got'[c] = got[c]
        /\ d'[c] = d[c] /\ lw'[c] = lw[c] /\ code'[c] = code[c] /\ res'[c] = res[c]
        /\ dret'[c] = dret[c] /\ sem'[c] = sem[c] /\ cbs'[c] = cbs[c]
        /\ Stage(c)' = Stage(c)
    BY <1>8 DEF DirectLock, Stage
  <2>2. \A e \in Calls \ {c} : Same(e)
    BY <1>8 DEF DirectLock, Stage, Same
  <2> HIDE DEF TypeOK, Set
  <2>3. Life(c)'
    BY <2>1 DEF Outcome, Life, CallerLife, OutcomeLife, CallbackLife, AnswerLife, BlockLife,
       Waits, Unattended, Detached, HasCallback
  <2> HIDE DEF Alive
  <2> QED
    BY <2>2, <2>3, LifeFrame DEF Alive
<1>9. ASSUME NEW c \in Calls, DirectExec(c) PROVE Alive
  <2>0. /\ dret'[c] # "unset"
        /\ \A e \in Calls \ {c} : dret'[e] = dret[e] /\ res'[e] = res[e]
        /\ res'[c] = res[c] \/ (res'[c] = "live" /\ need[c])
    BY <1>9, RunLuaEffect DEF DirectExec
  <2>1. /\ pc[c] = "exec"
        /\ pc'[c] = "unlock" /\ dret'[c] # "unset"
        /\ (res'[c] = res[c] \/ (res'[c] = "live" /\ need[c]))
        /\ api'[c] = api[c] /\ need'[c] = need[c] /\ ret'[c] = ret[c] /\ got'[c] = got[c]
        /\ d'[c] = d[c] /\ lw'[c] = lw[c] /\ code'[c] = code[c] /\ sem'[c] = sem[c]
        /\ cbs'[c] = cbs[c]
        /\ Stage(c)' = Stage(c)
    BY <1>9, <2>0 DEF DirectExec, Stage
  <2>2. \A e \in Calls \ {c} : Same(e)
    BY <1>9, <2>0 DEF DirectExec, Stage, Same
  <2> HIDE DEF TypeOK, Set
  <2>3. Life(c)'
    BY <2>1 DEF Outcome, Life, CallerLife, OutcomeLife, CallbackLife, AnswerLife, BlockLife,
       Waits, Unattended, Detached, HasCallback
  <2> HIDE DEF Alive
  <2> QED
    BY <2>2, <2>3, LifeFrame DEF Alive
<1>10. ASSUME NEW c \in Calls, DirectReturn(c) PROVE Alive
  <2>1. /\ pc[c] = "unlock"
        /\ pc'[c] = "returned" /\ ret'[c] = dret[c] /\ dret[c] \in Outcome
        /\ got'[c] = (need[c] /\ res[c] = "live")
        /\ d'[c] = "freed"
        /\ api'[c] = api[c] /\ need'[c] = need[c] /\ lw'[c] = lw[c] /\ code'[c] = code[c]
        /\ res'[c] = res[c] /\ dret'[c] = dret[c] /\ sem'[c] = sem[c] /\ cbs'[c] = cbs[c]
        /\ Stage(c)' = Stage(c)
    BY <1>10 DEF DirectReturn, Stage
  <2>2. \A e \in Calls \ {c} : Same(e)
    BY <1>10 DEF DirectReturn, Stage, Same
  <2> HIDE DEF TypeOK, Set
  <2>3. Life(c)'
    BY ZenonT(40), <2>1 DEF Outcome, Life, CallerLife, OutcomeLife, CallbackLife, AnswerLife,
       BlockLife, Waits, Unattended, Detached, HasCallback
  <2> HIDE DEF Alive
  <2> QED
    BY <2>2, <2>3, LifeFrame DEF Alive
<1>11. ASSUME NEW c \in Calls, ClientRelease(c) PROVE Alive
  <2>1. /\ pc[c] = "returned"
        /\ pc'[c] = "done" /\ res'[c] = (IF got[c] THEN "freed" ELSE res[c])
        /\ api'[c] = api[c] /\ need'[c] = need[c] /\ ret'[c] = ret[c] /\ got'[c] = got[c]
        /\ d'[c] = d[c] /\ lw'[c] = lw[c] /\ dret'[c] = dret[c] /\ sem'[c] = sem[c]
        /\ cbs'[c] = cbs[c]
        /\ Stage(c)' = Stage(c)
    BY <1>11 DEF ClientRelease, Stage
  <2>2. \A e \in Calls \ {c} : Same(e)
    BY <1>11 DEF ClientRelease, Stage, Same
  <2> HIDE DEF TypeOK, Set
  <2>3. Life(c)'
    BY <2>1 DEF Outcome, Life, CallerLife, OutcomeLife, CallbackLife, AnswerLife, BlockLife,
       Waits, Unattended, Detached, HasCallback
  <2> HIDE DEF Alive
  <2> QED
    BY <2>2, <2>3, LifeFrame DEF Alive
<1>12. ASSUME NEW x \in Contexts, WorkerLock(x) PROVE Alive
  <2>1. PICK c \in Calls : c = running[x] /\ CtxOf[c] = x /\ work[c] = "running"
    BY <1>0, <1>12 DEF WorkerLock, Busy
  <2>2. /\ wpc[x] = "lock"
        /\ pc'[c] = pc[c] /\ api'[c] = api[c] /\ need'[c] = need[c] /\ ret'[c] = ret[c]
        /\ got'[c] = got[c] /\ d'[c] = d[c] /\ lw'[c] = lw[c] /\ code'[c] = code[c]
        /\ res'[c] = res[c] /\ dret'[c] = dret[c] /\ sem'[c] = sem[c] /\ cbs'[c] = cbs[c]
        /\ Stage(c) = "lock" /\ Stage(c)' = "exec"
    BY <1>12, <2>1 DEF WorkerLock, Stage
  <2>3. \A e \in Calls \ {c} : Stage(e)' = Stage(e)
    <3>1. /\ \A e \in Calls \ {c} : work'[e] = work[e]
          /\ \A y \in Contexts \ {x} : wpc'[y] = wpc[y]
      BY <1>12, <2>1 DEF WorkerLock
    <3> HIDE DEF TypeOK, Set
    <3> QED
      BY <2>1, <3>1, WorkerFrame
  <2>4. \A e \in Calls \ {c} : Same(e)
    BY <1>12, <2>1, <2>3 DEF WorkerLock, Same
  <2> HIDE DEF TypeOK, Set
  <2>5. Life(c)'
    BY <2>1, <2>2 DEF Api, Life, CallerLife, OutcomeLife, CallbackLife, AnswerLife,
       BlockLife, Waits, Unattended, Detached, HasCallback
  <2> HIDE DEF Alive
  <2> QED
    BY <2>1, <2>4, <2>5, LifeFrame DEF Alive
<1>13. ASSUME NEW x \in Contexts, ExecOn(x, running[x]) PROVE Alive
  <2>1. PICK c \in Calls : c = running[x] /\ CtxOf[c] = x /\ work[c] = "running"
    BY <1>0, <1>13 DEF ExecOn, Busy
  <2>0. /\ dret'[c] # "unset"
        /\ \A e \in Calls \ {c} : dret'[e] = dret[e] /\ res'[e] = res[e]
        /\ res'[c] = res[c] \/ (res'[c] = "live" /\ need[c])
    BY <1>13, <2>1, RunLuaEffect DEF ExecOn
  <2>2. /\ wpc[x] = "exec" /\ api[c] \in Api \cup {"none"}
        /\ dret'[c] # "unset" /\ (res'[c] = res[c] \/ (res'[c] = "live" /\ need[c]))
        /\ pc'[c] = pc[c] /\ api'[c] = api[c] /\ need'[c] = need[c] /\ ret'[c] = ret[c]
        /\ got'[c] = got[c] /\ d'[c] = d[c] /\ lw'[c] = lw[c] /\ code'[c] = code[c]
        /\ sem'[c] = sem[c] /\ cbs'[c] = cbs[c]
        /\ Stage(c) = "exec" /\ Stage(c)' = "unlock"
    BY <1>13, <2>1, <2>0 DEF ExecOn, Stage
  <2>3. \A e \in Calls \ {c} : Stage(e)' = Stage(e)
    <3>1. /\ \A e \in Calls \ {c} : work'[e] = work[e]
          /\ \A y \in Contexts \ {x} : wpc'[y] = wpc[y]
      BY <1>13, <2>1 DEF ExecOn
    <3> HIDE DEF TypeOK, Set
    <3> QED
      BY <2>1, <3>1, WorkerFrame
  <2>4. \A e \in Calls \ {c} : Same(e)
    BY <1>13, <2>1, <2>3, <2>0 DEF ExecOn, Same
  <2> HIDE DEF TypeOK, Set
  <2>5. Life(c)'
    BY <2>1, <2>2 DEF Api, Life, CallerLife, OutcomeLife, CallbackLife, AnswerLife,
       BlockLife, Waits, Unattended, Detached, HasCallback
  <2> HIDE DEF Alive
  <2> QED
    BY <2>1, <2>4, <2>5, LifeFrame DEF Alive
<1>14. ASSUME NEW x \in Contexts, WorkerUnlock(x) PROVE Alive
  <2>1. PICK c \in Calls : c = running[x] /\ CtxOf[c] = x /\ work[c] = "running"
    BY <1>0, <1>14 DEF WorkerUnlock, Busy
  <2>2. /\ wpc[x] = "unlock"
        /\ pc'[c] = pc[c] /\ api'[c] = api[c] /\ need'[c] = need[c] /\ ret'[c] = ret[c]
        /\ got'[c] = got[c] /\ d'[c] = d[c] /\ lw'[c] = lw[c] /\ code'[c] = code[c]
        /\ res'[c] = res[c] /\ dret'[c] = dret[c] /\ sem'[c] = sem[c] /\ cbs'[c] = cbs[c]
        /\ Stage(c) = "unlock" /\ Stage(c)' = IF api[c] = "openlib" THEN "finished" ELSE "up"
    BY <1>14, <2>1 DEF WorkerUnlock, Stage
  <2>3. \A e \in Calls \ {c} : Stage(e)' = Stage(e)
    <3>1. /\ \A e \in Calls \ {c} : work'[e] = work[e]
          /\ \A y \in Contexts \ {x} : wpc'[y] = wpc[y]
      BY <1>14, <2>1 DEF WorkerUnlock
    <3> HIDE DEF TypeOK, Set
    <3> QED
      BY <2>1, <3>1, WorkerFrame
  <2>4. \A e \in Calls \ {c} : Same(e)
    BY <1>14, <2>1, <2>3 DEF WorkerUnlock, Same
  <2> HIDE DEF TypeOK, Set
  <2>5. Life(c)'
    BY <2>1, <2>2 DEF Api, Life, CallerLife, OutcomeLife, CallbackLife, AnswerLife,
       BlockLife, Waits, Unattended, Detached, HasCallback
  <2> HIDE DEF Alive
  <2> QED
    BY <2>1, <2>4, <2>5, LifeFrame DEF Alive
<1>15. ASSUME NEW x \in Contexts, UpOn(x, running[x]) PROVE Alive
  <2>1. PICK c \in Calls : c = running[x] /\ CtxOf[c] = x /\ work[c] = "running"
    BY <1>0, <1>15 DEF UpOn, Busy
  <2>0. sem[c] \in Nat /\ sem' = Set(sem, c, sem[c] + 1)
    BY <1>15, <2>1 DEF UpOn
  <2>01. sem'[c] # 0
    BY <2>0
  <2>2. /\ wpc[x] = "up"
        /\ sem'[c] # 0
        /\ pc'[c] = pc[c] /\ api'[c] = api[c] /\ need'[c] = need[c] /\ ret'[c] = ret[c]
        /\ got'[c] = got[c] /\ d'[c] = d[c] /\ lw'[c] = lw[c] /\ code'[c] = code[c]
        /\ res'[c] = res[c] /\ dret'[c] = dret[c] /\ cbs'[c] = cbs[c]
        /\ Stage(c) = "up" /\ Stage(c)' = "cb"
    BY <1>15, <2>1, <2>0, <2>01 DEF UpOn, Stage
  <2>3. \A e \in Calls \ {c} : Stage(e)' = Stage(e)
    <3>1. /\ \A e \in Calls \ {c} : work'[e] = work[e]
          /\ \A y \in Contexts \ {x} : wpc'[y] = wpc[y]
      BY <1>15, <2>1 DEF UpOn
    <3> HIDE DEF TypeOK, Set
    <3> QED
      BY <2>1, <3>1, WorkerFrame
  <2>4. \A e \in Calls \ {c} : Same(e)
    BY <1>15, <2>1, <2>3, <2>0, <2>01 DEF UpOn, Same
  <2> HIDE DEF TypeOK, Set
  <2>5. Life(c)'
    BY <2>1, <2>2 DEF Api, Life, CallerLife, OutcomeLife, CallbackLife, AnswerLife,
       BlockLife, Waits, Unattended, Detached, HasCallback
  <2> HIDE DEF Alive
  <2> QED
    BY <2>1, <2>4, <2>5, LifeFrame DEF Alive
<1>16. ASSUME NEW x \in Contexts, TestCallbackOn(x, running[x]) PROVE Alive
  <2>1. PICK c \in Calls : c = running[x] /\ CtxOf[c] = x /\ work[c] = "running"
    BY <1>0, <1>16 DEF TestCallbackOn, Busy
  <2>2. /\ wpc[x] = "cb"
        /\ pc'[c] = pc[c] /\ api'[c] = api[c] /\ need'[c] = need[c] /\ ret'[c] = ret[c]
        /\ got'[c] = got[c] /\ d'[c] = d[c] /\ lw'[c] = lw[c] /\ code'[c] = code[c]
        /\ res'[c] = res[c] /\ dret'[c] = dret[c] /\ sem'[c] = sem[c] /\ cbs'[c] = cbs[c]
        /\ Stage(c) = "cb" /\ Stage(c)' = IF HasCallback(c) THEN "in_cb" ELSE "cb_work"
    BY <1>16, <2>1 DEF TestCallbackOn, NextAfterUp, Stage
  <2>3. \A e \in Calls \ {c} : Stage(e)' = Stage(e)
    <3>1. /\ \A e \in Calls \ {c} : work'[e] = work[e]
          /\ \A y \in Contexts \ {x} : wpc'[y] = wpc[y]
      BY <1>16, <2>1 DEF TestCallbackOn, NextAfterUp
    <3> HIDE DEF TypeOK, Set
    <3> QED
      BY <2>1, <3>1, WorkerFrame
  <2>4. \A e \in Calls \ {c} : Same(e)
    BY <1>16, <2>1, <2>3 DEF TestCallbackOn, NextAfterUp, Same
  <2> HIDE DEF TypeOK, Set
  <2>5. Life(c)'
    BY <2>1, <2>2 DEF Api, Life, CallerLife, OutcomeLife, CallbackLife, AnswerLife,
       BlockLife, Waits, Unattended, Detached, HasCallback
  <2> HIDE DEF Alive
  <2> QED
    BY <2>1, <2>4, <2>5, LifeFrame DEF Alive
<1>17. ASSUME NEW x \in Contexts, CallbackOn(x, running[x]) PROVE Alive
  <2>1. PICK c \in Calls : c = running[x] /\ CtxOf[c] = x /\ work[c] = "running"
    BY <1>0, <1>17 DEF CallbackOn, Busy
  <2>2. /\ wpc[x] = "in_cb"
        /\ cbs'[c] = cbs[c] + 1 /\ res'[c] = (IF res[c] = "live" THEN "freed" ELSE res[c])
        /\ pc'[c] = pc[c] /\ api'[c] = api[c] /\ need'[c] = need[c] /\ ret'[c] = ret[c]
        /\ got'[c] = got[c] /\ d'[c] = d[c] /\ lw'[c] = lw[c] /\ dret'[c] = dret[c]
        /\ sem'[c] = sem[c]
        /\ Stage(c) = "in_cb" /\ Stage(c)' = "cb_work"
    BY <1>17, <2>1 DEF CallbackOn, Stage
  <2>3. \A e \in Calls \ {c} : Stage(e)' = Stage(e)
    <3>1. /\ \A e \in Calls \ {c} : work'[e] = work[e]
          /\ \A y \in Contexts \ {x} : wpc'[y] = wpc[y]
      BY <1>17, <2>1 DEF CallbackOn
    <3> HIDE DEF TypeOK, Set
    <3> QED
      BY <2>1, <3>1, WorkerFrame
  <2>4. \A e \in Calls \ {c} : Same(e)
    BY <1>17, <2>1, <2>3 DEF CallbackOn, Same
  <2> HIDE DEF TypeOK, Set
  <2>5. Life(c)'
    BY <2>1, <2>2 DEF Api, Life, CallerLife, OutcomeLife, CallbackLife, AnswerLife,
       BlockLife, Waits, Unattended, Detached, HasCallback
  <2> HIDE DEF Alive
  <2> QED
    BY <2>1, <2>4, <2>5, LifeFrame DEF Alive
<1>18. ASSUME NEW x \in Contexts, CleanupOn(x, running[x]) PROVE Alive
  <2>1. PICK c \in Calls : c = running[x] /\ CtxOf[c] = x /\ work[c] = "running"
    BY <1>0, <1>18 DEF CleanupOn, Busy
  <2>2. /\ wpc[x] = "cb_work"
        /\ d'[c] = (IF Detached(c) THEN "freed" ELSE d[c])
        /\ lw'[c] = (IF Detached(c) THEN "freed" ELSE lw[c])
        /\ pc'[c] = pc[c] /\ api'[c] = api[c] /\ need'[c] = need[c] /\ ret'[c] = ret[c]
        /\ got'[c] = got[c] /\ res'[c] = res[c] /\ dret'[c] = dret[c] /\ sem'[c] = sem[c]
        /\ cbs'[c] = cbs[c]
        /\ Stage(c) = "cb_work" /\ Stage(c)' = "finished"
    BY <1>18, <2>1 DEF CleanupOn, FreesWork, Stage
  <2>3. \A e \in Calls \ {c} : Stage(e)' = Stage(e)
    <3>1. /\ \A e \in Calls \ {c} : work'[e] = work[e]
          /\ \A y \in Contexts \ {x} : wpc'[y] = wpc[y]
      BY <1>18, <2>1 DEF CleanupOn, FreesWork
    <3> HIDE DEF TypeOK, Set
    <3> QED
      BY <2>1, <3>1, WorkerFrame
  <2>4. \A e \in Calls \ {c} : Same(e)
    BY <1>18, <2>1, <2>3 DEF CleanupOn, FreesWork, Same
  <2> HIDE DEF TypeOK, Set
  <2>5. Life(c)'
    BY <2>1, <2>2 DEF Api, Life, CallerLife, OutcomeLife, CallbackLife, AnswerLife,
       BlockLife, Waits, Unattended, Detached, HasCallback
  <2> HIDE DEF Alive
  <2> QED
    BY <2>1, <2>4, <2>5, LifeFrame DEF Alive
<1>19. ASSUME NEW c \in Calls, Begin(c) PROVE Alive
  <2>1. PICK a \in Variants, m \in BOOLEAN :
           /\ a \in {"loadcode_nores", "async_nores", "openlib"} => ~m
           /\ api' = Set(api, c, a)
           /\ need' = Set(need, c, m)
           /\ code' = IF a = "openlib" THEN code ELSE Set(code, c, "live")
           /\ pc' = Set(pc, c, IF a = "openlib" THEN "create" ELSE "alloc")
    <3> HIDE DEF Set, TypeOK
    <3> QED
      BY <1>19, Zenon DEF Begin
  <2>2. /\ pc[c] = "idle"
        /\ UNCHANGED <<ret, got, d, lw, res, dret, sem, work, cbs, wpc>>
    BY <1>19 DEF Begin
  <2>3. \A e \in Calls \ {c} : Same(e)
    BY <2>1, <2>2 DEF Same, Stage
  <2>4. /\ api'[c] = a /\ a \in Api /\ need'[c] = m
        /\ pc'[c] = IF a = "openlib" THEN "create" ELSE "alloc"
        /\ Stage(c)' = Stage(c)
    BY <2>1, <2>2 DEF Stage
  <2> HIDE DEF TypeOK, Set
  <2>5. Life(c)'
    BY <2>1, <2>2, <2>4 DEF Api, Life, CallerLife, OutcomeLife, CallbackLife, AnswerLife,
       BlockLife, Waits, Unattended, Detached, HasCallback
  <2> HIDE DEF Alive
  <2> QED
    BY <2>3, <2>5, LifeFrame DEF Alive
<1>20. ASSUME NEW x \in Contexts, Dequeue(x) PROVE Alive
  <2>0. queue[x] # <<>> /\ running[x] = NoCall
    BY <1>20 DEF Dequeue, RunsItem
  <2>1. PICK c \in Calls : /\ c = Head(queue[x]) /\ CtxOf[c] = x /\ work[c] = "pending"
                          /\ running[x] = NoCall
    <3> HIDE DEF TypeOK
    <3> QED
      BY <2>0, HeadItem
  <2>2. /\ work' = Set(work, c, "running") /\ wpc' = Set(wpc, x, "lock")
        /\ UNCHANGED <<pc, api, need, ret, got, d, lw, code, res, dret, sem, cbs>>
    BY <1>20, <2>1 DEF Dequeue
  <2>3. Stage(c) = "pending" /\ Stage(c)' = "lock"
    BY <2>1, <2>2 DEF Stage
  <2>4. \A e \in Calls \ {c} : Stage(e)' = Stage(e)
    <3>1. /\ \A e \in Calls \ {c} : work'[e] = work[e]
          /\ \A y \in Contexts \ {x} : wpc'[y] = wpc[y]
      BY <2>2
    <3> HIDE DEF TypeOK, Set
    <3> QED
      BY <2>1, <3>1, WorkerFrame
  <2>5. \A e \in Calls \ {c} : Same(e)
    BY <2>2, <2>4 DEF Same
  <2> HIDE DEF TypeOK, Set
  <2>6. Life(c)'
    BY <2>1, <2>2, <2>3 DEF Life, CallerLife, OutcomeLife, CallbackLife, AnswerLife,
       BlockLife, Waits, Unattended, Detached, HasCallback
  <2> HIDE DEF Alive
  <2> QED
    BY <2>1, <2>5, <2>6, LifeFrame DEF Alive
<1>21. ASSUME NEW x \in Contexts, WorkerOops(x) PROVE Alive
  <2>1. /\ wpc' = Set(wpc, x, "oops")
        /\ UNCHANGED <<pc, api, need, ret, got, d, lw, code, res, dret, sem, work, cbs>>
    BY <1>21 DEF WorkerOops
  <2>2. ASSUME NEW e \in Calls PROVE Stage(e)' \in {Stage(e), "oops"}
    BY <2>1 DEF Stage
  <2>3. ASSUME NEW e \in Calls PROVE Stage(e)' = "oops" => Stage(e) # "none"
    <3>1. wpc[CtxOf[e]] \in WorkerPC
      OBVIOUS
    <3> HIDE DEF TypeOK, Set
    <3>2. wpc[CtxOf[e]] # "none"
      BY <3>1 DEF WorkerPC
    <3> QED
      BY <2>1, <3>2 DEF Stage
  <2>6. ASSUME NEW e \in Calls PROVE wpc[CtxOf[e]] # "finished"
    <3>1. wpc[CtxOf[e]] \in WorkerPC
      OBVIOUS
    <3> HIDE DEF TypeOK, Set
    <3> QED
      BY <3>1 DEF WorkerPC
  <2> HIDE DEF TypeOK, Set
  <2> SUFFICES ASSUME NEW e \in Calls PROVE Life(e)'
    OBVIOUS
  <2>4. CASE Stage(e)' = Stage(e)
    BY <2>1, <2>4 DEF Life, CallerLife, OutcomeLife, CallbackLife, AnswerLife, BlockLife,
       Waits, Unattended, Detached, HasCallback
  <2>5. CASE Stage(e)' = "oops"
    <3>1. Stage(e) # "finished"
      BY <2>1, <2>5, <2>6 DEF Stage
    <3>2. Life(e) /\ Stage(e) # "none"
      BY <2>3, <2>5
    <3>3. CallerLife(e)' /\ OutcomeLife(e)' /\ CallbackLife(e)' /\ AnswerLife(e)'
      BY <2>1, <2>5, <3>2 DEF Life, CallerLife, OutcomeLife, CallbackLife, AnswerLife,
         Waits, Unattended, Detached, HasCallback
    <3>4. BlockLife(e)'
      BY <2>1, <2>5, <3>1, <3>2 DEF Life, BlockLife, Waits, Detached, HasCallback
    <3> QED
      BY <3>3, <3>4 DEF Life
  <2> QED
    BY <2>2, <2>4, <2>5
<1>22. ASSUME NEW x \in Contexts, Exit(x) PROVE Alive
  <2>1. UNCHANGED <<callVars, memVars, dataVars, wpc>>
    BY <1>22 DEF Exit
  <2> HIDE DEF TypeOK, Set
  <2> QED
    BY <2>1 DEF Life, CallerLife, OutcomeLife, CallbackLife, AnswerLife, BlockLife, Waits,
       Unattended, Detached, HasCallback, Stage
<1>23. ASSUME NEW x \in Contexts, DestroyContext(x) PROVE Alive
  <2>1. UNCHANGED <<callVars, memVars, dataVars, wpc>>
    BY <1>23 DEF DestroyContext
  <2> HIDE DEF TypeOK, Set
  <2> QED
    BY <2>1 DEF Life, CallerLife, OutcomeLife, CallbackLife, AnswerLife, BlockLife, Waits,
       Unattended, Detached, HasCallback, Stage
<1>24. CASE UNCHANGED vars
  <2>1. UNCHANGED <<callVars, memVars, dataVars, wpc>>
    BY <1>24 DEF vars
  <2> HIDE DEF TypeOK, Set
  <2> QED
    BY <2>1 DEF Life, CallerLife, OutcomeLife, CallbackLife, AnswerLife, BlockLife, Waits,
       Unattended, Detached, HasCallback, Stage
<1> HIDE DEF TypeOK, Set, Alive, callVars, memVars, dataVars, workVars, ctxVars
<1> QED
  BY <1>1, <1>2, <1>3, <1>4, <1>5, <1>6, <1>7, <1>8, <1>9, <1>10, <1>11, <1>12, <1>13,
     <1>14, <1>15, <1>16, <1>17, <1>18, <1>19, <1>20, <1>21, <1>22, <1>23, <1>24 DEF PlainNext,
     CallStep, PlainWorker, Terminated

\* Every step keeps track of who releases the chunk.
LEMMA CodeStep == Inv /\ Inv' /\ LifeInv /\ CodeInv /\ [PlainNext]_vars => CodeInv'
<1> SUFFICES ASSUME TypeOK, TypeOK', QueueInv, RunsItem, CodeInv, \A e \in Calls : Life(e),
                    [PlainNext]_vars
             PROVE  CodeInv'
  BY DEF Inv, LifeInv
<1>0. ASSUME NEW x \in Contexts, Busy(x)
      PROVE  running[x] \in Calls /\ CtxOf[running[x]] = x /\ work[running[x]] = "running"
  BY <1>0 DEF QueueInv, Running
<1> USE LoadcodeAssumption DEF TypeOK, Set, callVars, memVars, dataVars, workVars, ctxVars
<1>1. ASSUME NEW c \in Calls, AllocData(c) PROVE CodeInv'
  <2>1. /\ \A e \in Calls \ {c} : pc'[e] = pc[e] /\ ret'[e] = ret[e]
        /\ pc'[c] \notin {"idle", "done"}
        /\ pc[c] \in {"alloc", "create", "wait"} \/ pc'[c] \notin {"alloc", "create", "wait"}
        /\ UNCHANGED <<api, code, work, wpc>>
    BY <1>1 DEF AllocData
  <2> HIDE DEF TypeOK, Set
  <2> QED
    BY <2>1 DEF CodeInv, CodeLife, HasCallback, Detached, Stage
<1>2. ASSUME NEW c \in Calls, AllocDataFails(c) PROVE CodeInv'
  <2>1. /\ \A e \in Calls \ {c} : pc'[e] = pc[e] /\ ret'[e] = ret[e]
        /\ pc'[c] \notin {"idle", "done"}
        /\ pc[c] \in {"alloc", "create", "wait"} \/ pc'[c] \notin {"alloc", "create", "wait"}
        /\ UNCHANGED <<api, code, work, wpc>>
    BY <1>2 DEF AllocDataFails
  <2> HIDE DEF TypeOK, Set
  <2> QED
    BY <2>1 DEF CodeInv, CodeLife, HasCallback, Detached, Stage
<1>3. ASSUME NEW c \in Calls, CreateWorkFails(c) PROVE CodeInv'
  <2>1. /\ \A e \in Calls \ {c} : pc'[e] = pc[e] /\ ret'[e] = ret[e]
        /\ pc'[c] \notin {"idle", "done"}
        /\ pc[c] \in {"alloc", "create", "wait"} \/ pc'[c] \notin {"alloc", "create", "wait"}
        /\ UNCHANGED <<api, code, work, wpc>>
    BY <1>3 DEF CreateWorkFails
  <2> HIDE DEF TypeOK, Set
  <2> QED
    BY <2>1 DEF CodeInv, CodeLife, HasCallback, Detached, Stage
<1>4. ASSUME NEW c \in Calls, Down(c) PROVE CodeInv'
  <2>1. /\ \A e \in Calls \ {c} : pc'[e] = pc[e] /\ ret'[e] = ret[e]
        /\ pc'[c] \notin {"idle", "done"}
        /\ pc[c] \in {"alloc", "create", "wait"} \/ pc'[c] \notin {"alloc", "create", "wait"}
        /\ UNCHANGED <<api, code, work, wpc>>
    BY <1>4 DEF Down
  <2> HIDE DEF TypeOK, Set
  <2> QED
    BY <2>1 DEF CodeInv, CodeLife, HasCallback, Detached, Stage
<1>5. ASSUME NEW c \in Calls, Interrupt(c) PROVE CodeInv'
  <2>1. /\ \A e \in Calls \ {c} : pc'[e] = pc[e] /\ ret'[e] = ret[e]
        /\ pc'[c] \notin {"idle", "done"}
        /\ pc[c] \in {"alloc", "create", "wait"} \/ pc'[c] \notin {"alloc", "create", "wait"}
        /\ UNCHANGED <<api, code, work, wpc>>
    BY <1>5 DEF Interrupt
  <2> HIDE DEF TypeOK, Set
  <2> QED
    BY <2>1 DEF CodeInv, CodeLife, HasCallback, Detached, Stage
<1>6. ASSUME NEW c \in Calls, FreeWork(c) PROVE CodeInv'
  <2>1. /\ \A e \in Calls \ {c} : pc'[e] = pc[e] /\ ret'[e] = ret[e]
        /\ pc'[c] \notin {"idle", "done"}
        /\ pc[c] \in {"alloc", "create", "wait"} \/ pc'[c] \notin {"alloc", "create", "wait"}
        /\ UNCHANGED <<api, code, work, wpc>>
    BY <1>6 DEF FreeWork
  <2> HIDE DEF TypeOK, Set
  <2> QED
    BY <2>1 DEF CodeInv, CodeLife, HasCallback, Detached, Stage
<1>7. ASSUME NEW c \in Calls, DirectLock(c) PROVE CodeInv'
  <2>1. /\ \A e \in Calls \ {c} : pc'[e] = pc[e] /\ ret'[e] = ret[e]
        /\ pc'[c] \notin {"idle", "done"}
        /\ pc[c] \in {"alloc", "create", "wait"} \/ pc'[c] \notin {"alloc", "create", "wait"}
        /\ UNCHANGED <<api, code, work, wpc>>
    BY <1>7 DEF DirectLock
  <2> HIDE DEF TypeOK, Set
  <2> QED
    BY <2>1 DEF CodeInv, CodeLife, HasCallback, Detached, Stage
<1>8. ASSUME NEW c \in Calls, DirectExec(c) PROVE CodeInv'
  <2>1. /\ \A e \in Calls \ {c} : pc'[e] = pc[e] /\ ret'[e] = ret[e]
        /\ pc'[c] \notin {"idle", "done"}
        /\ pc[c] \in {"alloc", "create", "wait"} \/ pc'[c] \notin {"alloc", "create", "wait"}
        /\ UNCHANGED <<api, code, work, wpc>>
    BY <1>8 DEF DirectExec
  <2> HIDE DEF TypeOK, Set
  <2> QED
    BY <2>1 DEF CodeInv, CodeLife, HasCallback, Detached, Stage
<1>9. ASSUME NEW c \in Calls, DirectReturn(c) PROVE CodeInv'
  <2>1. /\ \A e \in Calls \ {c} : pc'[e] = pc[e] /\ ret'[e] = ret[e]
        /\ pc'[c] \notin {"idle", "done"}
        /\ pc[c] \in {"alloc", "create", "wait"} \/ pc'[c] \notin {"alloc", "create", "wait"}
        /\ UNCHANGED <<api, code, work, wpc>>
    BY <1>9 DEF DirectReturn
  <2> HIDE DEF TypeOK, Set
  <2> QED
    BY <2>1 DEF CodeInv, CodeLife, HasCallback, Detached, Stage
<1>10. ASSUME NEW c \in Calls, QueueWork(c) PROVE CodeInv'
  <2>1. /\ \A e \in Calls \ {c} : pc'[e] = pc[e] /\ ret'[e] = ret[e] /\ work'[e] = work[e]
        /\ pc[c] = "create" /\ pc'[c] \notin {"idle", "done"} /\ work'[c] = "pending"
        /\ UNCHANGED <<api, code, wpc>>
    BY <1>10 DEF QueueWork, NextAfterQueue
  <2>2. api[c] = "openlib" => ~Detached(c)
    BY DEF Detached
  <2> HIDE DEF TypeOK, Set
  <2> QED
    BY <2>1, <2>2 DEF CodeInv, CodeLife, HasCallback, Detached, Stage
<1>11. ASSUME NEW c \in Calls, Begin(c) PROVE CodeInv'
  <2>1. /\ pc[c] = "idle" /\ pc'[c] \in {"alloc", "create"}
        /\ api'[c] = "openlib" \/ code'[c] = "live"
        /\ \A e \in Calls \ {c} : /\ pc'[e] = pc[e] /\ api'[e] = api[e]
                                   /\ code'[e] = code[e]
        /\ UNCHANGED <<ret, work, wpc>>
    BY <1>11 DEF Begin
  <2>2. Stage(c) = "none"
    BY <2>1 DEF Life, CallerLife
  <2> HIDE DEF TypeOK, Set
  <2> QED
    BY <2>1, <2>2 DEF CodeInv, CodeLife, HasCallback, Detached, Stage
<1>12. ASSUME NEW c \in Calls, ClientRelease(c) PROVE CodeInv'
  <2>1. /\ pc[c] = "returned" /\ pc'[c] = "done"
        /\ \A e \in Calls \ {c} : pc'[e] = pc[e] /\ code'[e] = code[e]
        /\ UNCHANGED <<api, ret, work, wpc>>
        /\ code'[c] = IF api[c] = "openlib" \/ (Detached(c) /\ ret[c] = "ok")
                       THEN code[c] ELSE "freed"
    BY <1>12 DEF ClientRelease
  <2>2. Detached(c) /\ Stage(c) # "none" => ret[c] = "ok"
    BY DEF Life, AnswerLife, Unattended
  <2>3. api[c] = "loadcode_nores" => Detached(c)
    BY DEF Detached
  <2> HIDE DEF TypeOK, Set
  <2>4. CodeLife(c)'
    BY <2>1, <2>2, <2>3 DEF CodeInv, CodeLife, HasCallback, Detached, Stage
  <2> QED
    BY <2>1, <2>4 DEF CodeInv, CodeLife, HasCallback, Detached, Stage
<1>13. ASSUME NEW x \in Contexts, Dequeue(x) PROVE CodeInv'
  <2>0. queue[x] # <<>> /\ running[x] = NoCall
    BY <1>13 DEF Dequeue, RunsItem
  <2>1. PICK c \in Calls : /\ c = Head(queue[x]) /\ CtxOf[c] = x /\ work[c] = "pending"
                          /\ running[x] = NoCall
    <3> HIDE DEF TypeOK
    <3> QED
      BY <2>0, HeadItem
  <2>2. /\ work' = Set(work, c, "running") /\ wpc' = Set(wpc, x, "lock")
        /\ UNCHANGED <<pc, api, ret, code>>
    BY <1>13, <2>1 DEF Dequeue
  <2>3. Stage(c) = "pending" /\ Stage(c)' = "lock"
    BY <2>1, <2>2 DEF Stage
  <2>4. \A e \in Calls \ {c} : Stage(e)' = Stage(e)
    <3>1. /\ \A e \in Calls \ {c} : work'[e] = work[e]
          /\ \A y \in Contexts \ {x} : wpc'[y] = wpc[y]
      BY <2>2
    <3> HIDE DEF TypeOK, Set
    <3> QED
      BY <2>1, <3>1, WorkerFrame
  <2> HIDE DEF TypeOK, Set
  <2> QED
    BY <2>2, <2>3, <2>4 DEF CodeInv, CodeLife, HasCallback, Detached
<1>14. ASSUME NEW x \in Contexts, WorkerLock(x) PROVE CodeInv'
  <2>1. PICK c \in Calls : c = running[x] /\ CtxOf[c] = x /\ work[c] = "running"
    BY <1>0, <1>14 DEF WorkerLock, Busy
  <2>2. /\ UNCHANGED <<pc, api, ret>>
        /\ \A e \in Calls \ {c} : code'[e] = code[e] /\ work'[e] = work[e]
        /\ \A y \in Contexts \ {x} : wpc'[y] = wpc[y]
        /\ code'[c] = code[c] /\ Stage(c) = "lock" /\ Stage(c)' = "exec"
    BY <1>14, <2>1 DEF WorkerLock, Stage
  <2>3. \A e \in Calls \ {c} : Stage(e)' = Stage(e)
    <3> HIDE DEF TypeOK, Set
    <3> QED
      BY <2>1, <2>2, WorkerFrame
  <2>4. Life(c)
    OBVIOUS
  <2> HIDE DEF TypeOK, Set
  <2>5. CodeLife(c)'
    BY <2>1, <2>2, <2>4 DEF CodeInv, CodeLife, HasCallback, Detached, Waits, Unattended,
       Life, CallerLife, AnswerLife, CallbackLife
  <2> QED
    BY <2>2, <2>3, <2>5 DEF CodeInv, CodeLife, HasCallback, Detached
<1>15. ASSUME NEW x \in Contexts, ExecOn(x, running[x]) PROVE CodeInv'
  <2>1. PICK c \in Calls : c = running[x] /\ CtxOf[c] = x /\ work[c] = "running"
    BY <1>0, <1>15 DEF ExecOn, Busy
  <2>2. /\ UNCHANGED <<pc, api, ret>>
        /\ \A e \in Calls \ {c} : code'[e] = code[e] /\ work'[e] = work[e]
        /\ \A y \in Contexts \ {x} : wpc'[y] = wpc[y]
        /\ code'[c] = code[c] /\ Stage(c) = "exec" /\ Stage(c)' = "unlock"
    BY <1>15, <2>1 DEF ExecOn, Stage
  <2>3. \A e \in Calls \ {c} : Stage(e)' = Stage(e)
    <3> HIDE DEF TypeOK, Set
    <3> QED
      BY <2>1, <2>2, WorkerFrame
  <2>4. Life(c)
    OBVIOUS
  <2> HIDE DEF TypeOK, Set
  <2>5. CodeLife(c)'
    BY <2>1, <2>2, <2>4 DEF CodeInv, CodeLife, HasCallback, Detached, Waits, Unattended,
       Life, CallerLife, AnswerLife, CallbackLife
  <2> QED
    BY <2>2, <2>3, <2>5 DEF CodeInv, CodeLife, HasCallback, Detached
<1>16. ASSUME NEW x \in Contexts, WorkerUnlock(x) PROVE CodeInv'
  <2>1. PICK c \in Calls : c = running[x] /\ CtxOf[c] = x /\ work[c] = "running"
    BY <1>0, <1>16 DEF WorkerUnlock, Busy
  <2>2. /\ UNCHANGED <<pc, api, ret>>
        /\ \A e \in Calls \ {c} : code'[e] = code[e] /\ work'[e] = work[e]
        /\ \A y \in Contexts \ {x} : wpc'[y] = wpc[y]
        /\ code'[c] = code[c] /\ Stage(c) = "unlock"
        /\ Stage(c)' = (IF api[c] = "openlib" THEN "finished" ELSE "up")
    BY <1>16, <2>1 DEF WorkerUnlock, Stage
  <2>3. \A e \in Calls \ {c} : Stage(e)' = Stage(e)
    <3> HIDE DEF TypeOK, Set
    <3> QED
      BY <2>1, <2>2, WorkerFrame
  <2>4. Life(c)
    OBVIOUS
  <2> HIDE DEF TypeOK, Set
  <2>5. CodeLife(c)'
    BY <2>1, <2>2, <2>4 DEF CodeInv, CodeLife, HasCallback, Detached, Waits, Unattended,
       Life, CallerLife, AnswerLife, CallbackLife
  <2> QED
    BY <2>2, <2>3, <2>5 DEF CodeInv, CodeLife, HasCallback, Detached
<1>17. ASSUME NEW x \in Contexts, UpOn(x, running[x]) PROVE CodeInv'
  <2>1. PICK c \in Calls : c = running[x] /\ CtxOf[c] = x /\ work[c] = "running"
    BY <1>0, <1>17 DEF UpOn, Busy
  <2>2. /\ UNCHANGED <<pc, api, ret>>
        /\ \A e \in Calls \ {c} : code'[e] = code[e] /\ work'[e] = work[e]
        /\ \A y \in Contexts \ {x} : wpc'[y] = wpc[y]
        /\ code'[c] = code[c] /\ Stage(c) = "up" /\ Stage(c)' = "cb"
    BY <1>17, <2>1 DEF UpOn, Stage
  <2>3. \A e \in Calls \ {c} : Stage(e)' = Stage(e)
    <3> HIDE DEF TypeOK, Set
    <3> QED
      BY <2>1, <2>2, WorkerFrame
  <2>4. Life(c)
    OBVIOUS
  <2> HIDE DEF TypeOK, Set
  <2>5. CodeLife(c)'
    BY <2>1, <2>2, <2>4 DEF CodeInv, CodeLife, HasCallback, Detached, Waits, Unattended,
       Life, CallerLife, AnswerLife, CallbackLife
  <2> QED
    BY <2>2, <2>3, <2>5 DEF CodeInv, CodeLife, HasCallback, Detached
<1>18. ASSUME NEW x \in Contexts, TestCallbackOn(x, running[x]) PROVE CodeInv'
  <2>1. PICK c \in Calls : c = running[x] /\ CtxOf[c] = x /\ work[c] = "running"
    BY <1>0, <1>18 DEF TestCallbackOn, Busy
  <2>2. /\ UNCHANGED <<pc, api, ret>>
        /\ \A e \in Calls \ {c} : code'[e] = code[e] /\ work'[e] = work[e]
        /\ \A y \in Contexts \ {x} : wpc'[y] = wpc[y]
        /\ code'[c] = code[c] /\ Stage(c) = "cb"
        /\ Stage(c)' = (IF HasCallback(c) THEN "in_cb" ELSE "cb_work")
    BY <1>18, <2>1 DEF TestCallbackOn, Stage, NextAfterUp
  <2>3. \A e \in Calls \ {c} : Stage(e)' = Stage(e)
    <3> HIDE DEF TypeOK, Set
    <3> QED
      BY <2>1, <2>2, WorkerFrame
  <2>4. Life(c)
    OBVIOUS
  <2> HIDE DEF TypeOK, Set
  <2>5. CodeLife(c)'
    BY <2>1, <2>2, <2>4 DEF CodeInv, CodeLife, HasCallback, Detached, Waits, Unattended,
       Life, CallerLife, AnswerLife, CallbackLife
  <2> QED
    BY <2>2, <2>3, <2>5 DEF CodeInv, CodeLife, HasCallback, Detached
<1>19. ASSUME NEW x \in Contexts, CallbackOn(x, running[x]) PROVE CodeInv'
  <2>1. PICK c \in Calls : c = running[x] /\ CtxOf[c] = x /\ work[c] = "running"
    BY <1>0, <1>19 DEF CallbackOn, Busy
  <2>2. /\ UNCHANGED <<pc, api, ret>>
        /\ \A e \in Calls \ {c} : code'[e] = code[e] /\ work'[e] = work[e]
        /\ \A y \in Contexts \ {x} : wpc'[y] = wpc[y]
        /\ code'[c] = "freed" /\ Stage(c) = "in_cb" /\ Stage(c)' = "cb_work"
    BY <1>19, <2>1 DEF CallbackOn, Stage
  <2>3. \A e \in Calls \ {c} : Stage(e)' = Stage(e)
    <3> HIDE DEF TypeOK, Set
    <3> QED
      BY <2>1, <2>2, WorkerFrame
  <2>4. Life(c)
    OBVIOUS
  <2> HIDE DEF TypeOK, Set
  <2>5. CodeLife(c)'
    BY <2>1, <2>2, <2>4 DEF CodeInv, CodeLife, HasCallback, Detached, Waits, Unattended,
       Life, CallerLife, AnswerLife, CallbackLife
  <2> QED
    BY <2>2, <2>3, <2>5 DEF CodeInv, CodeLife, HasCallback, Detached
<1>20. ASSUME NEW x \in Contexts, CleanupOn(x, running[x]) PROVE CodeInv'
  <2>1. PICK c \in Calls : c = running[x] /\ CtxOf[c] = x /\ work[c] = "running"
    BY <1>0, <1>20 DEF CleanupOn, Busy
  <2>2. /\ UNCHANGED <<pc, api, ret>>
        /\ \A e \in Calls \ {c} : code'[e] = code[e] /\ work'[e] = work[e]
        /\ \A y \in Contexts \ {x} : wpc'[y] = wpc[y]
        /\ code'[c] = (IF api[c] = "loadcode_nores" THEN "freed" ELSE code[c])
        /\ Stage(c) = "cb_work" /\ Stage(c)' = "finished"
    BY <1>20, <2>1 DEF CleanupOn, Stage, FreesCode
  <2>3. \A e \in Calls \ {c} : Stage(e)' = Stage(e)
    <3> HIDE DEF TypeOK, Set
    <3> QED
      BY <2>1, <2>2, WorkerFrame
  <2>4. Life(c)
    OBVIOUS
  <2> HIDE DEF TypeOK, Set
  <2>5. CodeLife(c)'
    BY <2>1, <2>2, <2>4 DEF CodeInv, CodeLife, HasCallback, Detached, Waits, Unattended,
       Life, CallerLife, AnswerLife, CallbackLife
  <2> QED
    BY <2>2, <2>3, <2>5 DEF CodeInv, CodeLife, HasCallback, Detached
<1>21. ASSUME NEW x \in Contexts, WorkerOops(x) PROVE CodeInv'
  <2>1. wpc' = Set(wpc, x, "oops") /\ UNCHANGED <<pc, api, ret, code, work>>
    BY <1>21 DEF WorkerOops
  <2>2. \A e \in Calls : Stage(e)' \in {Stage(e), "oops"}
    BY <2>1 DEF Stage
  <2> HIDE DEF TypeOK, Set
  <2> QED
    BY <2>1, <2>2 DEF CodeInv, CodeLife, HasCallback, Detached
<1>22. ASSUME NEW x \in Contexts, Exit(x) PROVE CodeInv'
  BY <1>22 DEF Exit, CodeInv, CodeLife, HasCallback, Detached, Stage
<1>23. ASSUME NEW x \in Contexts, DestroyContext(x) PROVE CodeInv'
  BY <1>23 DEF DestroyContext, CodeInv, CodeLife, HasCallback, Detached, Stage
<1>24. CASE UNCHANGED vars
  BY <1>24 DEF vars, CodeInv, CodeLife, HasCallback, Detached, Stage
<1> HIDE DEF TypeOK, Set, callVars, memVars, dataVars, workVars, ctxVars
<1> QED
  BY <1>1, <1>2, <1>3, <1>4, <1>5, <1>6, <1>7, <1>8, <1>9, <1>10, <1>11, <1>12, <1>13,
     <1>14, <1>15, <1>16, <1>17, <1>18, <1>19, <1>20, <1>21, <1>22, <1>23, <1>24 DEF PlainNext,
     CallStep, PlainWorker, Terminated

\* Every step respects that the clients of a context are gone when
\* lunatik_exit destroys it.
LEMMA ExitStep == Inv /\ Inv' /\ LifeInv /\ ExitInv /\ [PlainNext]_vars => ExitInv'
<1> SUFFICES ASSUME TypeOK, TypeOK', QueueInv, ExitInv, \A e \in Calls : Life(e),
                    [PlainNext]_vars
             PROVE  ExitInv'
  BY DEF Inv, LifeInv
<1>0. ASSUME NEW x \in Contexts, Busy(x)
      PROVE  running[x] \in Calls /\ CtxOf[running[x]] = x /\ work[running[x]] = "running"
  BY <1>0 DEF QueueInv, Running
<1>00. ASSUME NEW c \in Calls, pc[c] \notin {"idle", "done", "oops"}
       PROVE  tpc[CtxOf[c]] = "idle"
  BY <1>00, LoadcodeAssumption DEF ExitInv
<1> USE LoadcodeAssumption DEF TypeOK, Set, callVars, memVars, dataVars, workVars, ctxVars
<1>1. ASSUME NEW c \in Calls, Begin(c) PROVE ExitInv'
  <2>1. tpc[CtxOf[c]] = "idle"
    BY <1>1 DEF Begin, ExitInv
  <2>2. /\ \A e \in Calls \ {c} : pc'[e] = pc[e] /\ ret'[e] = ret[e] /\ api'[e] = api[e]
        /\ UNCHANGED <<cbs, lc, tpc>>
    BY <1>1 DEF Begin
  <2> HIDE DEF TypeOK, Set
  <2> QED
    BY <2>1, <2>2 DEF ExitInv, HasCallback
<1>2. ASSUME NEW c \in Calls, AllocData(c) PROVE ExitInv'
  <2>1. tpc[CtxOf[c]] = "idle"
    BY <1>00, <1>2 DEF AllocData
  <2>2. /\ \A e \in Calls \ {c} : pc'[e] = pc[e] /\ ret'[e] = ret[e] /\ api'[e] = api[e]
        /\ UNCHANGED <<cbs, lc, tpc>>
    BY <1>2 DEF AllocData
  <2> HIDE DEF TypeOK, Set
  <2> QED
    BY <2>1, <2>2 DEF ExitInv, HasCallback
<1>3. ASSUME NEW c \in Calls, AllocDataFails(c) PROVE ExitInv'
  <2>1. tpc[CtxOf[c]] = "idle"
    BY <1>00, <1>3 DEF AllocDataFails
  <2>2. /\ \A e \in Calls \ {c} : pc'[e] = pc[e] /\ ret'[e] = ret[e] /\ api'[e] = api[e]
        /\ UNCHANGED <<cbs, lc, tpc>>
    BY <1>3 DEF AllocDataFails
  <2> HIDE DEF TypeOK, Set
  <2> QED
    BY <2>1, <2>2 DEF ExitInv, HasCallback
<1>4. ASSUME NEW c \in Calls, CreateWorkFails(c) PROVE ExitInv'
  <2>1. tpc[CtxOf[c]] = "idle"
    BY <1>00, <1>4 DEF CreateWorkFails
  <2>2. /\ \A e \in Calls \ {c} : pc'[e] = pc[e] /\ ret'[e] = ret[e] /\ api'[e] = api[e]
        /\ UNCHANGED <<cbs, lc, tpc>>
    BY <1>4 DEF CreateWorkFails
  <2> HIDE DEF TypeOK, Set
  <2> QED
    BY <2>1, <2>2 DEF ExitInv, HasCallback
<1>5. ASSUME NEW c \in Calls, QueueWork(c) PROVE ExitInv'
  <2>1. tpc[CtxOf[c]] = "idle"
    BY <1>00, <1>5 DEF QueueWork
  <2>2. /\ \A e \in Calls \ {c} : pc'[e] = pc[e] /\ ret'[e] = ret[e] /\ api'[e] = api[e]
        /\ UNCHANGED <<cbs, lc, tpc>>
    BY <1>5 DEF QueueWork
  <2> HIDE DEF TypeOK, Set
  <2> QED
    BY <2>1, <2>2 DEF ExitInv, HasCallback
<1>6. ASSUME NEW c \in Calls, Down(c) PROVE ExitInv'
  <2>1. tpc[CtxOf[c]] = "idle"
    BY <1>00, <1>6 DEF Down
  <2>2. /\ \A e \in Calls \ {c} : pc'[e] = pc[e] /\ ret'[e] = ret[e] /\ api'[e] = api[e]
        /\ UNCHANGED <<cbs, lc, tpc>>
    BY <1>6 DEF Down
  <2> HIDE DEF TypeOK, Set
  <2> QED
    BY <2>1, <2>2 DEF ExitInv, HasCallback
<1>7. ASSUME NEW c \in Calls, Interrupt(c) PROVE ExitInv'
  <2>1. tpc[CtxOf[c]] = "idle"
    BY <1>00, <1>7 DEF Interrupt
  <2>2. /\ \A e \in Calls \ {c} : pc'[e] = pc[e] /\ ret'[e] = ret[e] /\ api'[e] = api[e]
        /\ UNCHANGED <<cbs, lc, tpc>>
    BY <1>7 DEF Interrupt
  <2> HIDE DEF TypeOK, Set
  <2> QED
    BY <2>1, <2>2 DEF ExitInv, HasCallback
<1>8. ASSUME NEW c \in Calls, FreeWork(c) PROVE ExitInv'
  <2>1. tpc[CtxOf[c]] = "idle"
    BY <1>00, <1>8 DEF FreeWork
  <2>2. /\ \A e \in Calls \ {c} : pc'[e] = pc[e] /\ ret'[e] = ret[e] /\ api'[e] = api[e]
        /\ UNCHANGED <<cbs, lc, tpc>>
    BY <1>8 DEF FreeWork
  <2> HIDE DEF TypeOK, Set
  <2> QED
    BY <2>1, <2>2 DEF ExitInv, HasCallback
<1>9. ASSUME NEW c \in Calls, DirectLock(c) PROVE ExitInv'
  <2>1. tpc[CtxOf[c]] = "idle"
    BY <1>00, <1>9 DEF DirectLock
  <2>2. /\ \A e \in Calls \ {c} : pc'[e] = pc[e] /\ ret'[e] = ret[e] /\ api'[e] = api[e]
        /\ UNCHANGED <<cbs, lc, tpc>>
    BY <1>9 DEF DirectLock
  <2> HIDE DEF TypeOK, Set
  <2> QED
    BY <2>1, <2>2 DEF ExitInv, HasCallback
<1>10. ASSUME NEW c \in Calls, DirectExec(c) PROVE ExitInv'
  <2>1. tpc[CtxOf[c]] = "idle"
    BY <1>00, <1>10 DEF DirectExec
  <2>2. /\ \A e \in Calls \ {c} : pc'[e] = pc[e] /\ ret'[e] = ret[e] /\ api'[e] = api[e]
        /\ UNCHANGED <<cbs, lc, tpc>>
    BY <1>10 DEF DirectExec
  <2> HIDE DEF TypeOK, Set
  <2> QED
    BY <2>1, <2>2 DEF ExitInv, HasCallback
<1>11. ASSUME NEW c \in Calls, DirectReturn(c) PROVE ExitInv'
  <2>1. tpc[CtxOf[c]] = "idle"
    BY <1>00, <1>11 DEF DirectReturn
  <2>2. /\ \A e \in Calls \ {c} : pc'[e] = pc[e] /\ ret'[e] = ret[e] /\ api'[e] = api[e]
        /\ UNCHANGED <<cbs, lc, tpc>>
    BY <1>11 DEF DirectReturn
  <2> HIDE DEF TypeOK, Set
  <2> QED
    BY <2>1, <2>2 DEF ExitInv, HasCallback
<1>12. ASSUME NEW c \in Calls, ClientRelease(c) PROVE ExitInv'
  <2>1. tpc[CtxOf[c]] = "idle"
    BY <1>00, <1>12 DEF ClientRelease
  <2>2. /\ \A e \in Calls \ {c} : pc'[e] = pc[e] /\ ret'[e] = ret[e] /\ api'[e] = api[e]
        /\ UNCHANGED <<cbs, lc, tpc>>
    BY <1>12 DEF ClientRelease
  <2> HIDE DEF TypeOK, Set
  <2> QED
    BY <2>1, <2>2 DEF ExitInv, HasCallback
<1>13. ASSUME NEW x \in Contexts, Dequeue(x) PROVE ExitInv'
  <2>1. UNCHANGED <<callVars, cbs, lc, tpc>>
    BY <1>13 DEF Dequeue
  <2> HIDE DEF TypeOK, Set
  <2> QED
    BY <2>1 DEF ExitInv, HasCallback
<1>14. ASSUME NEW x \in Contexts, WorkerLock(x) PROVE ExitInv'
  <2>1. UNCHANGED <<callVars, cbs, lc, tpc>>
    BY <1>14 DEF WorkerLock
  <2> HIDE DEF TypeOK, Set
  <2> QED
    BY <2>1 DEF ExitInv, HasCallback
<1>15. ASSUME NEW x \in Contexts, ExecOn(x, running[x]) PROVE ExitInv'
  <2>1. UNCHANGED <<callVars, cbs, lc, tpc>>
    BY <1>15 DEF ExecOn
  <2> HIDE DEF TypeOK, Set
  <2> QED
    BY <2>1 DEF ExitInv, HasCallback
<1>16. ASSUME NEW x \in Contexts, WorkerUnlock(x) PROVE ExitInv'
  <2>1. UNCHANGED <<callVars, cbs, lc, tpc>>
    BY <1>16 DEF WorkerUnlock
  <2> HIDE DEF TypeOK, Set
  <2> QED
    BY <2>1 DEF ExitInv, HasCallback
<1>17. ASSUME NEW x \in Contexts, UpOn(x, running[x]) PROVE ExitInv'
  <2>1. UNCHANGED <<callVars, cbs, lc, tpc>>
    BY <1>17 DEF UpOn
  <2> HIDE DEF TypeOK, Set
  <2> QED
    BY <2>1 DEF ExitInv, HasCallback
<1>18. ASSUME NEW x \in Contexts, TestCallbackOn(x, running[x]) PROVE ExitInv'
  <2>1. UNCHANGED <<callVars, cbs, lc, tpc>>
    BY <1>18 DEF TestCallbackOn
  <2> HIDE DEF TypeOK, Set
  <2> QED
    BY <2>1 DEF ExitInv, HasCallback
<1>19. ASSUME NEW x \in Contexts, CleanupOn(x, running[x]) PROVE ExitInv'
  <2>1. UNCHANGED <<callVars, cbs, lc, tpc>>
    BY <1>19 DEF CleanupOn
  <2> HIDE DEF TypeOK, Set
  <2> QED
    BY <2>1 DEF ExitInv, HasCallback
<1>20. ASSUME NEW x \in Contexts, WorkerOops(x) PROVE ExitInv'
  <2>1. UNCHANGED <<callVars, cbs, lc, tpc>>
    BY <1>20 DEF WorkerOops
  <2> HIDE DEF TypeOK, Set
  <2> QED
    BY <2>1 DEF ExitInv, HasCallback
<1>21. ASSUME NEW x \in Contexts, CallbackOn(x, running[x]) PROVE ExitInv'
  <2>1. PICK c \in Calls : c = running[x] /\ CtxOf[c] = x /\ work[c] = "running"
    BY <1>0, <1>21 DEF CallbackOn, Busy
  <2>2. /\ Stage(c) = "in_cb"
        /\ cbs' = Set(cbs, c, cbs[c] + 1)
        /\ UNCHANGED <<callVars, lc, tpc>>
    BY <1>21, <2>1 DEF CallbackOn, Stage
  <2>3. cbs[c] = 0 /\ HasCallback(c)
    BY <2>2 DEF Life, CallbackLife
  <2>4. /\ cbs'[c] = 1
        /\ \A e \in Calls \ {c} : cbs'[e] = cbs[e]
    BY <2>2, <2>3
  <2> HIDE DEF TypeOK, Set
  <2> QED
    BY <2>2, <2>4 DEF ExitInv, HasCallback
<1>22. ASSUME NEW x \in Contexts, Exit(x) PROVE ExitInv'
  <2>1. /\ \A c \in Calls : CtxOf[c] = x => ClientGone(c)
        /\ \A y \in Contexts \ {x} : tpc'[y] = tpc[y]
        /\ tpc'[x] = "lock"
        /\ UNCHANGED <<callVars, cbs, lc>>
    BY <1>22 DEF Exit
  <2> HIDE DEF TypeOK, Set
  <2> QED
    BY <2>1 DEF ExitInv, HasCallback, ClientGone
<1>23. ASSUME NEW x \in Contexts, DestroyContext(x) PROVE ExitInv'
  <2>1. /\ tpc[x] = "lock" /\ tpc'[x] = "done"
        /\ \A y \in Contexts \ {x} : tpc'[y] = tpc[y] /\ lc'[y] = lc[y]
        /\ UNCHANGED <<callVars, cbs>>
    BY <1>23 DEF DestroyContext
  <2> HIDE DEF TypeOK, Set
  <2> QED
    BY <2>1 DEF ExitInv, HasCallback
<1>24. CASE UNCHANGED vars
  BY <1>24 DEF vars, ExitInv, HasCallback
<1> HIDE DEF TypeOK, Set, callVars, memVars, dataVars, workVars, ctxVars
<1> QED
  BY <1>1, <1>2, <1>3, <1>4, <1>5, <1>6, <1>7, <1>8, <1>9, <1>10, <1>11, <1>12, <1>13,
     <1>14, <1>15, <1>16, <1>17, <1>18, <1>19, <1>20, <1>21, <1>22, <1>23, <1>24 DEF PlainNext,
     CallStep, PlainWorker, Terminated

-----------------------------------------------------------------------------
\* Every step keeps AliasInv: a call whose block was given away never uses d as
\* its owner again, and the block's new owner stays what it is.
LEMMA AliasStep == Inv /\ Inv' /\ LifeInv /\ AliasInv /\ [PlainNext]_vars => AliasInv'
<1> SUFFICES ASSUME TypeOK, TypeOK', QueueInv, AliasInv, \A e \in Calls : Life(e),
                    [PlainNext]_vars
             PROVE  AliasInv'
  BY DEF Inv, LifeInv
<1>0. ASSUME NEW x \in Contexts, Busy(x)
      PROVE  running[x] \in Calls
  BY <1>0 DEF QueueInv, Running
<1>00. ASSUME UNCHANGED <<api, at>>,
              \A e \in Calls : d'[e] = d[e] \/ (d[e] # "none" /\ d'[e] = "freed")
       PROVE  AliasInv'
  <2> SUFFICES ASSUME NEW k \in Calls, at[k] # k
               PROVE  d'[k] = "freed" /\ d'[at[k]] # "none" /\ api[at[k]] \in Reuse
    BY <1>00 DEF AliasInv
  <2>1. at[k] \in Calls
    BY DEF TypeOK
  <2> QED
    BY <1>00, <2>1 DEF AliasInv
<1> USE LoadcodeAssumption DEF callVars, memVars, dataVars, workVars, ctxVars
<1>1. ASSUME NEW c \in Calls, Begin(c) PROVE AliasInv'
  <2>1. pc[c] = "idle" /\ UNCHANGED <<at, d>> /\ \A e \in Calls \ {c} : api'[e] = api[e]
    BY <1>1 DEF Begin, TypeOK, Set
  <2>2. d[c] = "none"
    BY <2>1 DEF Life, BlockLife
  <2>3. at \in [Calls -> Calls]
    BY DEF TypeOK
  <2> QED
    BY <2>1, <2>2, <2>3 DEF AliasInv
<1>2. ASSUME NEW c \in Calls, AllocData(c) PROVE AliasInv'
  <2>1. PICK b \in FreeBlocks(c) :
           at' = [e \in Calls |-> IF at[e] = at[b] THEN c ELSE at[e]]
    BY <1>2 DEF AllocData
  <2>2. /\ pc[c] = "alloc" /\ UNCHANGED api
        /\ d'[c] = "live" /\ \A e \in Calls \ {c} : d'[e] = d[e]
    BY <1>2 DEF AllocData, TypeOK, Set
  <2>3. d[c] = "none"
    BY <2>2 DEF Life, BlockLife
  <2>4. at \in [Calls -> Calls]
    BY DEF TypeOK
  <2>5. at[c] = c /\ \A e \in Calls : at[e] = c => e = c
    BY <2>3 DEF AliasInv
  <2>6. b = c \/ (b \in Calls /\ b # c /\ api[c] \in Reuse /\ d[at[b]] = "freed")
    BY <2>1 DEF FreeBlocks
  <2> SUFFICES ASSUME NEW k \in Calls, at'[k] # k
               PROVE  d'[k] = "freed" /\ d'[at'[k]] # "none" /\ api[at'[k]] \in Reuse
    BY <2>2 DEF AliasInv
  <2>7. CASE b = c
    <3>1. at'[k] = at[k]
      BY <2>1, <2>5, <2>7
    <3> QED
      BY <2>2, <2>3, <2>4, <2>5, <3>1 DEF AliasInv
  <2>8. CASE b # c
    <3>1. k # c
      <4>1. at[b] # c
        BY <2>5, <2>6, <2>8
      <4>2. at'[c] = at[c]
        BY <2>1, <2>5, <4>1
      <4> QED
        BY <2>5, <4>2
    <3>2. CASE at[k] = at[b]
      <4>1. at'[k] = c
        BY <2>1, <3>2
      <4>2. d[k] = "freed"
        <5>1. CASE at[k] = k
          BY <2>6, <2>8, <3>2, <5>1
        <5>2. CASE at[k] # k
          BY <5>2 DEF AliasInv
        <5> QED
          BY <5>1, <5>2
      <4> QED
        BY <2>2, <2>6, <2>8, <3>1, <4>1, <4>2
    <3>3. CASE at[k] # at[b]
      <4>1. at'[k] = at[k]
        BY <2>1, <3>3
      <4> QED
        BY <2>2, <2>4, <3>1, <4>1 DEF AliasInv
    <3> QED
      BY <3>2, <3>3
  <2> QED
    BY <2>7, <2>8
<1>3. ASSUME NEW c \in Calls, AllocDataFails(c) PROVE AliasInv'
  BY <1>00, <1>3 DEF AllocDataFails
<1>4. ASSUME NEW c \in Calls, CreateWorkFails(c) PROVE AliasInv'
  BY <1>00, <1>4 DEF CreateWorkFails
<1>5. ASSUME NEW c \in Calls, QueueWork(c) PROVE AliasInv'
  BY <1>00, <1>5 DEF QueueWork
<1>6. ASSUME NEW c \in Calls, Down(c) PROVE AliasInv'
  BY <1>00, <1>6 DEF Down
<1>7. ASSUME NEW c \in Calls, Interrupt(c) PROVE AliasInv'
  BY <1>00, <1>7 DEF Interrupt
<1>8. ASSUME NEW c \in Calls, FreeWork(c) PROVE AliasInv'
  <2>1. d[c] = "live"
    BY <1>8 DEF FreeWork, Life, BlockLife
  <2>2. /\ UNCHANGED <<api, at>> /\ d'[c] = "freed"
        /\ \A e \in Calls \ {c} : d'[e] = d[e]
    BY <1>8 DEF FreeWork, TypeOK, Set
  <2> QED
    BY <1>00, <2>1, <2>2
<1>9. ASSUME NEW c \in Calls, DirectLock(c) PROVE AliasInv'
  BY <1>00, <1>9 DEF DirectLock
<1>10. ASSUME NEW c \in Calls, DirectExec(c) PROVE AliasInv'
  BY <1>00, <1>10 DEF DirectExec
<1>11. ASSUME NEW c \in Calls, DirectReturn(c) PROVE AliasInv'
  <2>1. /\ UNCHANGED <<api, at>> /\ d'[c] = "freed"
        /\ \A e \in Calls \ {c} : d'[e] = d[e]
    BY <1>11 DEF DirectReturn, TypeOK, Set
  <2>2. at \in [Calls -> Calls]
    BY DEF TypeOK
  <2> QED
    BY <2>1, <2>2 DEF AliasInv
<1>12. ASSUME NEW c \in Calls, ClientRelease(c) PROVE AliasInv'
  BY <1>00, <1>12 DEF ClientRelease
<1>13. ASSUME NEW x \in Contexts, Dequeue(x) PROVE AliasInv'
  BY <1>00, <1>13 DEF Dequeue
<1>14. ASSUME NEW x \in Contexts, WorkerLock(x) PROVE AliasInv'
  BY <1>00, <1>14 DEF WorkerLock
<1>15. ASSUME NEW x \in Contexts, ExecOn(x, running[x]) PROVE AliasInv'
  BY <1>00, <1>15 DEF ExecOn
<1>16. ASSUME NEW x \in Contexts, WorkerUnlock(x) PROVE AliasInv'
  BY <1>00, <1>16 DEF WorkerUnlock
<1>17. ASSUME NEW x \in Contexts, UpOn(x, running[x]) PROVE AliasInv'
  BY <1>00, <1>17 DEF UpOn
<1>18. ASSUME NEW x \in Contexts, TestCallbackOn(x, running[x]) PROVE AliasInv'
  BY <1>00, <1>18 DEF TestCallbackOn
<1>19. ASSUME NEW x \in Contexts, CallbackOn(x, running[x]) PROVE AliasInv'
  BY <1>00, <1>19 DEF CallbackOn
<1>20. ASSUME NEW x \in Contexts, CleanupOn(x, running[x]) PROVE AliasInv'
  <2>1. running[x] \in Calls
    BY <1>0, <1>20 DEF CleanupOn, Busy
  <2>2. /\ UNCHANGED <<api, at>>
        /\ \A e \in Calls : d'[e] = d[e] \/ d'[e] = "freed"
    BY <1>20, <2>1 DEF CleanupOn, TypeOK, Set
  <2>3. at \in [Calls -> Calls]
    BY DEF TypeOK
  <2> QED
    BY <2>2, <2>3 DEF AliasInv
<1>21. ASSUME NEW x \in Contexts, WorkerOops(x) PROVE AliasInv'
  BY <1>00, <1>21 DEF WorkerOops
<1>22. ASSUME NEW x \in Contexts, Exit(x) PROVE AliasInv'
  BY <1>00, <1>22 DEF Exit
<1>23. ASSUME NEW x \in Contexts, DestroyContext(x) PROVE AliasInv'
  BY <1>00, <1>23 DEF DestroyContext
<1>24. CASE UNCHANGED vars
  BY <1>00, <1>24 DEF vars
<1> QED
  BY <1>1, <1>2, <1>3, <1>4, <1>5, <1>6, <1>7, <1>8, <1>9, <1>10, <1>11, <1>12, <1>13,
     <1>14, <1>15, <1>16, <1>17, <1>18, <1>19, <1>20, <1>21, <1>22, <1>23, <1>24
     DEF PlainNext, CallStep, PlainWorker, Terminated

\* A freed d is not given to another call, or no signal ends a wait and it is
\* never given to a call that leaves its cleanup to the handler.
HarmlessReuse ==
    \/ Reuse = {}
    \/ ~Signals /\ Reuse \cap {"loadcode_nores", "async", "async_nores"} = {}

\* A handler finds in d the data of its own call, except that between up() and
\* its end the handler of a waiting call may find those of another call with
\* neither callback nor cleanup.
LEMMA HandlerOwns ==
    ASSUME HarmlessReuse, Inv, LifeInv, AliasInv, NEW x \in Contexts, Busy(x)
    PROVE  \/ Data(x) = running[x] /\ running[x] \in Calls
           \/ /\ wpc[x] \in {"cb", "cb_work"} /\ Waits(running[x])
              /\ ~Detached(Data(x)) /\ ~HasCallback(Data(x))
              /\ ~Detached(running[x]) /\ ~HasCallback(running[x])
<1> DEFINE c == running[x]
           e == at[c]
<1>1. c \in Calls /\ CtxOf[c] = x /\ work[c] = "running"
  BY DEF Inv, QueueInv, Running
<1>2. SUFFICES ASSUME e # c
               PROVE  /\ wpc[x] \in {"cb", "cb_work"} /\ Waits(c)
                      /\ ~Detached(e) /\ ~HasCallback(e) /\ ~Detached(c) /\ ~HasCallback(c)
  BY <1>1 DEF Data
<1>3. d[c] = "freed" /\ api[e] \in Reuse
  BY <1>1, <1>2 DEF AliasInv
<1>4. ~Signals /\ ~Detached(e) /\ ~HasCallback(e)
  BY <1>3 DEF HarmlessReuse, Detached, HasCallback
<1>5. Life(c) /\ Stage(c) = wpc[x] /\ wpc[x] \in WorkerPC \ {"idle", "oops"}
  BY <1>1 DEF LifeInv, Stage, Inv, TypeOK, Busy
<1>6. Waits(c) /\ pc[c] \in {"returned", "done"}
  BY <1>3, <1>5 DEF Life, CallerLife, BlockLife, WorkerPC
<1>7. ret[c] \notin {"none", "eintr"}
  BY <1>4, <1>5, <1>6 DEF Life, AnswerLife
<1>8. wpc[x] \in {"cb", "in_cb", "cb_work"}
  BY <1>5, <1>6, <1>7 DEF Life, AnswerLife, WorkerPC
<1>9. ~Detached(c) /\ ~HasCallback(c)
  BY <1>6 DEF Waits, Detached, HasCallback
<1>10. wpc[x] # "in_cb"
  BY <1>5, <1>9 DEF Life, CallbackLife
<1> QED
  BY <1>4, <1>6, <1>8, <1>9, <1>10

\* So a handler does what it would do if d could not be given away.
LEMMA PlainHandler ==
    ASSUME HarmlessReuse, Inv, LifeInv, AliasInv, NEW x \in Contexts
    PROVE  /\ WorkerStep(x) => PlainWorker(x)
           /\ ClientCallback(x) => CallbackOn(x, running[x]) /\ Data(x) = running[x]
<1> DEFINE own == Data(x) = running[x]
           late == /\ ~Detached(Data(x)) /\ ~HasCallback(Data(x))
                   /\ ~Detached(running[x]) /\ ~HasCallback(running[x])
<1>1. WorkerExec(x) => ExecOn(x, running[x])
  <2>1. WorkerExec(x) => own
    BY HandlerOwns DEF WorkerExec, ExecOn, Busy
  <2> QED
    BY <2>1 DEF WorkerExec
<1>2. WorkerUp(x) => UpOn(x, running[x])
  <2>1. WorkerUp(x) => own
    BY HandlerOwns DEF WorkerUp, UpOn, Busy
  <2> QED
    BY <2>1 DEF WorkerUp
<1>3. WorkerTestCallback(x) => TestCallbackOn(x, running[x])
  <2>1. WorkerTestCallback(x) => own \/ late
    BY HandlerOwns DEF WorkerTestCallback, TestCallbackOn, Busy
  <2> HIDE DEF own
  <2>2. late => (WorkerTestCallback(x) => TestCallbackOn(x, running[x]))
    BY DEF WorkerTestCallback, TestCallbackOn, NextAfterUp
  <2>3. own => (WorkerTestCallback(x) => TestCallbackOn(x, running[x]))
    BY DEF WorkerTestCallback, own
  <2> QED
    BY <2>1, <2>2, <2>3
<1>4. WorkerCleanup(x) => CleanupOn(x, running[x])
  <2>1. WorkerCleanup(x) => own \/ late
    BY HandlerOwns DEF WorkerCleanup, CleanupOn, Busy
  <2> HIDE DEF own
  <2>2. late => (WorkerCleanup(x) => CleanupOn(x, running[x]))
    BY DEF WorkerCleanup, CleanupOn, FreesWork, FreesCode, Detached
  <2>3. own => (WorkerCleanup(x) => CleanupOn(x, running[x]))
    BY DEF WorkerCleanup, own
  <2> QED
    BY <2>1, <2>2, <2>3
<1>5. ClientCallback(x) => own
  BY HandlerOwns DEF ClientCallback, CallbackOn, Busy
<1>6. ClientCallback(x) => CallbackOn(x, running[x])
  BY <1>5 DEF ClientCallback
<1> QED
  BY <1>1, <1>2, <1>3, <1>4, <1>5, <1>6 DEF WorkerStep, PlainWorker

-----------------------------------------------------------------------------
\* The whole inductive invariant.
FullInv == Inv /\ LifeInv /\ CodeInv /\ ExitInv /\ AliasInv

\* Under the full invariant every step is a plain one.
LEMMA PlainStep == HarmlessReuse /\ FullInv /\ [Next]_vars => [PlainNext]_vars
<1> SUFFICES ASSUME HarmlessReuse, FullInv, Next PROVE PlainNext
  OBVIOUS
<1>1. ASSUME NEW x \in Contexts
      PROVE  /\ WorkerStep(x) => PlainWorker(x)
             /\ ClientCallback(x) => CallbackOn(x, running[x])
  BY PlainHandler DEF FullInv
<1> QED
  BY <1>1 DEF Next, QuietNext, PlainNext

\* Every call lives as Life, CodeLife and ExitInv say, in every reachable state.
THEOREM Lives == HarmlessReuse /\ Spec => []FullInv
<1> SUFFICES ASSUME HarmlessReuse PROVE Spec => []FullInv
  OBVIOUS
<1>1. Init => FullInv
  <2> SUFFICES ASSUME Init PROVE FullInv
    OBVIOUS
  <2>1. Inv
    BY LoadcodeAssumption DEF Init, InitWith, Inv, TypeOK, Block, Outcome, Return, PC,
       WorkerPC, QueueInv, NotYetQueued, OnlyDirect, Queued, QueuedOnce, Running,
       Busy, LockInv, InLua, WorkerInLua
  <2>2. RunsItem /\ PendingQueued /\ CodeInv /\ ExitInv
    BY LoadcodeAssumption DEF Init, InitWith, RunsItem, PendingQueued, CodeInv, CodeLife,
       ExitInv, Detached, HasCallback, Stage
  <2>3. ASSUME NEW c \in Calls PROVE Life(c)
    BY DEF Init, InitWith, Life, CallerLife, OutcomeLife, CallbackLife, AnswerLife,
       BlockLife, Stage, Waits, Unattended, Detached, HasCallback
  <2>4. AliasInv
    BY DEF Init, InitWith, AliasInv
  <2> QED
    BY <2>1, <2>2, <2>3, <2>4 DEF FullInv, LifeInv
<1>2. FullInv /\ [Next]_vars => FullInv'
  <2> SUFFICES ASSUME FullInv, [Next]_vars PROVE FullInv'
    OBVIOUS
  <2>0. [PlainNext]_vars
    BY PlainStep
  <2>1. Inv'
    BY TypeStep, QueueStep, LockStep DEF FullInv, Inv
  <2>2. LifeInv'
    BY <2>0, <2>1, RunsStep, LifeStep DEF FullInv, LifeInv
  <2>3. CodeInv' /\ ExitInv' /\ AliasInv'
    BY <2>0, <2>1, CodeStep, ExitStep, AliasStep DEF FullInv
  <2> QED
    BY <2>1, <2>2, <2>3 DEF FullInv
<1> QED
  BY <1>1, <1>2, PTL DEF Spec

\* Whatever the failures and signals, a client that asked for a callback is
\* called once, after its code ran, by the time its work item is finished, and
\* nobody else is ever called back.
THEOREM CalledBackOnce == HarmlessReuse /\ Spec => []CallbackOnce
<1> SUFFICES ASSUME HarmlessReuse PROVE Spec => []CallbackOnce
  OBVIOUS
<1>1. FullInv => CallbackOnce
  <2> SUFFICES ASSUME FullInv, NEW c \in Calls
               PROVE  /\ cbs[c] <= 1
                      /\ cbs[c] = 1 => HasCallback(c) /\ dret[c] # "unset"
                      /\ HasCallback(c) /\ work[c] = "finished" => cbs[c] = 1
    BY DEF CallbackOnce
  <2>1. CallbackLife(c)
    BY DEF FullInv, LifeInv, Life
  <2> QED
    BY <2>1 DEF CallbackLife, Stage
<1> QED
  BY <1>1, Lives, PTL

\* A task waiting in lunatik_loadcode or _sync, or about to free d and lw, still
\* owns them, even if a signal ended its wait: nothing is freed twice.
THEOREM WaiterOwns == HarmlessReuse /\ Spec => []WaiterMemory
<1> SUFFICES ASSUME HarmlessReuse PROVE Spec => []WaiterMemory
  OBVIOUS
<1>1. FullInv => WaiterMemory
  BY DEF FullInv, LifeInv, Life, BlockLife, WaiterMemory
<1> QED
  BY <1>1, Lives, PTL

\* A caller that waited and was not interrupted returns the outcome of its run,
\* and only after it.
THEOREM WaiterAnswered == HarmlessReuse /\ Spec => []UninterruptedWait
<1> SUFFICES ASSUME HarmlessReuse PROVE Spec => []UninterruptedWait
  OBVIOUS
<1>1. FullInv => UninterruptedWait
  <2> SUFFICES ASSUME FullInv, NEW c \in Calls, Waits(c), work[c] # "none",
                      ret[c] \notin {"none", "eintr"}
               PROVE  dret[c] # "unset" /\ ret[c] = dret[c] /\ (got[c] => need[c])
    BY DEF UninterruptedWait
  <2>1. AnswerLife(c) /\ Stage(c) # "none"
    <3>1. AnswerLife(c) /\ wpc[CtxOf[c]] \in WorkerPC
      BY LoadcodeAssumption DEF FullInv, Inv, TypeOK, LifeInv, Life
    <3> QED
      BY <3>1 DEF Stage, WorkerPC
  <2> QED
    BY <2>1 DEF AnswerLife
<1> QED
  BY <1>1, Lives, PTL

\* Without signals, lunatik_exit frees a context under a running handler only if
\* the handler's job is one that reports to nobody.
THEOREM ContextSafe == ~Signals /\ HarmlessReuse /\ Spec => []ContextMemory
<1> SUFFICES ASSUME ~Signals, HarmlessReuse PROVE Spec => []ContextMemory
  OBVIOUS
<1>1. FullInv => ContextMemory
  <2> SUFFICES ASSUME FullInv, NEW x \in Contexts,
                      wpc[x] \in {"lock", "exec", "unlock"}, lc[x] # "live",
                      api[running[x]] \notin {"loadcode_nores", "openlib"}
               PROVE  FALSE
    BY DEF ContextMemory, ContextUsable
  <2>1. PICK c \in Calls : c = running[x] /\ CtxOf[c] = x /\ work[c] = "running"
    BY DEF FullInv, Inv, QueueInv, Running, Busy
  <2>2. Stage(c) \in {"lock", "exec", "unlock"} /\ Life(c)
    BY <2>1 DEF Stage, FullInv, LifeInv
  <2>3. /\ pc[c] \in {"idle", "done", "oops"}
        /\ HasCallback(c) /\ ret[c] = "ok" => cbs[c] = 1
    BY <2>1 DEF FullInv, ExitInv
  <2>4. api[c] \in Api \cup {"none"}
    BY DEF FullInv, Inv, TypeOK
  <2>5. CASE Waits(c)
    BY <2>2, <2>3, <2>5 DEF Life, CallerLife, AnswerLife
  <2>6. CASE HasCallback(c)
    BY <2>2, <2>3, <2>6 DEF Life, AnswerLife, CallbackLife, Unattended, Detached,
       HasCallback
  <2>7. CASE api[c] \in {"none", "direct"}
    BY <2>2, <2>7 DEF Life, CallerLife
  <2> QED
    BY <2>1, <2>4, <2>5, <2>6, <2>7 DEF Api, Waits, HasCallback
<1> QED
  BY <1>1, Lives, PTL

\* Without signals, when everything has come to rest every block of every call
\* has been released, by the caller, the handler, the callback or the client.
THEOREM LeakFree == ~Signals /\ HarmlessReuse /\ Spec => []NoLeak
<1> SUFFICES ASSUME ~Signals, HarmlessReuse PROVE Spec => []NoLeak
  OBVIOUS
<1>1. FullInv => NoLeak
  <2> SUFFICES ASSUME FullInv, Quiescent, \A x \in Contexts : wpc[x] # "oops",
                      NEW c \in Calls, pc[c] # "oops", api[c] # "openlib"
               PROVE  d[c] # "live" /\ lw[c] # "live" /\ code[c] # "live" /\ res[c] # "live"
    BY DEF NoLeak
  <2>1. /\ pc[c] \in {"idle", "done"}
        /\ wpc[CtxOf[c]] = "idle" /\ queue[CtxOf[c]] = <<>>
        /\ api[c] \in Api \cup {"none"}
        /\ work[c] \in {"none", "pending", "running", "finished"}
    BY LoadcodeAssumption DEF Quiescent, FullInv, Inv, TypeOK
  <2>2. Stage(c) \in {"none", "finished"}
    <3>1. work[c] # "running"
      BY <2>1 DEF FullInv, LifeInv, RunsItem
    <3>2. work[c] # "pending"
      BY <2>1 DEF FullInv, LifeInv, PendingQueued
    <3> QED
      BY <2>1, <3>1, <3>2 DEF Stage
  <2>3. Life(c) /\ CodeLife(c)
    BY DEF FullInv, LifeInv, CodeInv
  <2>4. CASE pc[c] = "idle"
    BY <2>2, <2>3, <2>4 DEF Life, CallerLife, BlockLife, CodeLife
  <2>5. CASE pc[c] = "done"
    <3>1. ret[c] \notin {"none", "eintr"}
      BY <2>3, <2>5 DEF Life, AnswerLife
    <3>2. CASE Detached(c)
      BY <2>2, <2>3, <2>5, <3>1, <3>2 DEF Life, CallerLife, AnswerLife, BlockLife, CodeLife,
         Unattended, Detached, HasCallback
    <3>3. CASE ~Detached(c)
      <4>1. api[c] # "none"
        BY <2>3, <2>5, <3>1 DEF Life, CallerLife
      <4> QED
        BY <2>1, <2>2, <2>3, <2>5, <3>1, <3>3, <4>1 DEF Api, Life, BlockLife, CodeLife,
           Detached
    <3> QED
      BY <3>2, <3>3
  <2> QED
    BY <2>1, <2>4, <2>5
<1> QED
  BY <1>1, Lives, PTL

\* Without signals, the workqueue and the handlers use allocated blocks of the
\* job they work for only, up to the harmless tests of a d that its waiter was
\* let to free.
THEOREM HandlerSafe == ~Signals /\ HarmlessReuse /\ Spec => []HandlerMemory
<1> SUFFICES ASSUME ~Signals, HarmlessReuse PROVE Spec => []HandlerMemory
  OBVIOUS
<1>1. FullInv => HandlerMemory
  <2> SUFFICES ASSUME FullInv PROVE HandlerMemory
    OBVIOUS
  <2>0. TypeOK /\ QueueInv /\ RunsItem
    BY DEF FullInv, Inv, LifeInv
  <2>1. ASSUME NEW c \in Calls, Stage(c) \in {"pending", "lock", "exec", "unlock", "up"}
        PROVE  /\ lw[c] = "live"
               /\ api[c] # "openlib" => d[c] = "live" /\ code[c] = "live"
    <3>1. Life(c) /\ CodeLife(c) /\ api[c] \in Api \cup {"none"} /\ pc[c] \in PC
      BY <2>0 DEF FullInv, LifeInv, CodeInv, TypeOK
    <3>2. CASE Waits(c)
      <4>1. ret[c] # "eintr"
        BY <3>1 DEF Life, AnswerLife
      <4>2. pc[c] = "wait"
        BY <2>1, <3>1, <3>2, <4>1 DEF Life, CallerLife, AnswerLife, PC
      <4> QED
        BY <3>1, <3>2, <4>2 DEF Life, BlockLife, CodeLife, Waits
    <3>3. CASE Unattended(c)
      BY <2>1, <3>1, <3>3 DEF Life, BlockLife, CodeLife, Unattended, Detached
    <3>4. CASE api[c] \in {"none", "direct"}
      BY <2>1, <3>1, <3>4 DEF Life, CallerLife
    <3> QED
      BY <3>1, <3>2, <3>3, <3>4 DEF Api, Waits, Unattended, Detached
  <2>2. ASSUME NEW x \in Contexts PROVE HeadUsable(x)
    <3> SUFFICES ASSUME queue[x] # <<>> PROVE lw[Head(queue[x])] = "live"
      BY DEF HeadUsable
    <3>1. Head(queue[x]) \in Calls /\ work[Head(queue[x])] = "pending"
      BY <2>0, HeadItem
    <3> QED
      BY <2>1, <3>1 DEF Stage
  <2>3. ASSUME NEW x \in Contexts, wpc[x] \notin {"idle", "oops"}
        PROVE  HandlerUsable(x, running[x], running[x]) \/ LateTest(x)
    <3> DEFINE c == running[x]
    <3>1. c \in Calls /\ CtxOf[c] = x /\ work[c] = "running"
      BY <2>0, <2>3 DEF QueueInv, Running, Busy
    <3>2. /\ Stage(c) = wpc[x] /\ wpc[x] \in WorkerPC /\ Life(c) /\ CodeLife(c)
          /\ api[c] \in Api \cup {"none"}
      BY <2>0, <3>1 DEF Stage, FullInv, LifeInv, CodeInv, TypeOK
    <3>3. CASE wpc[x] \in {"lock", "exec", "unlock", "up"}
      <4>1. /\ lw[c] = "live"
            /\ api[c] # "openlib" => d[c] = "live" /\ code[c] = "live"
            /\ api[c] = "openlib" => wpc[x] # "up"
        BY <2>1, <3>1, <3>2, <3>3 DEF Life, CallerLife
      <4> QED
        BY <3>3, <4>1 DEF HandlerUsable
    <3>4. CASE wpc[x] \in {"cb", "in_cb", "cb_work"} /\ Detached(c)
      BY <3>2, <3>4 DEF HandlerUsable, FreesWork, FreesCode, Detached, Life, BlockLife, CodeLife
    <3>5. CASE wpc[x] \in {"cb", "in_cb", "cb_work"} /\ Waits(c)
      <4>1. wpc[x] # "in_cb"
        BY <3>2, <3>5 DEF Life, CallbackLife, Waits, HasCallback
      <4>2. \/ Data(x) = c
            \/ ~Detached(Data(x)) /\ ~HasCallback(Data(x))
        BY <2>3, HandlerOwns DEF FullInv, Busy
      <4>3. ~Detached(Data(x)) /\ ~HasCallback(Data(x))
        BY <3>5, <4>2 DEF Waits, Detached, HasCallback
      <4> QED
        BY <3>5, <4>1, <4>3 DEF LateTest, FreesWork
    <3>6. wpc[x] \in {"cb", "in_cb", "cb_work"} => Waits(c) \/ Detached(c)
      BY <3>2 DEF Life, CallerLife, Api, Waits, Detached
    <3> QED
      BY <2>3, <3>2, <3>3, <3>4, <3>5, <3>6 DEF WorkerPC
  <2> QED
    BY <2>2, <2>3 DEF HandlerMemory
<1> QED
  BY <1>1, Lives, PTL
=============================================================================
