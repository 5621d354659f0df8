----------------------- MODULE LoadcodeServiceProofs ------------------------
(***************************************************************************)
(* Loadcode implements LuaService, for any calls, contexts and failures    *)
(* but no signals: every step of lunatik.c is a step of the service or     *)
(* invisible to it.                                                        *)
(*                                                                         *)
(* A step works for one call c.  It maps to a stuttering step or to one of *)
(* the service's five actions for c (Stutters to Answers below), and       *)
(* changes nothing the service shows of the other calls (Elsewhere).       *)
(***************************************************************************)
EXTENDS LoadcodeService, LoadcodeLifeProofs

\* A context's mutex is held on behalf of a call only between Lock and Unlock,
\* or for ever by a worker that died.
OwnerInv ==
    \A c \in Calls : lock[CtxOf[c]] = c =>
        pc[c] \in {"exec", "unlock"} \/ Stage(c) \in {"exec", "unlock", "oops"}

\* What a step may do to a call, seen from the service.
Stutters(c) == PhaseOf(c)' = PhaseOf(c) /\ AnswerOf(c)' = AnswerOf(c) /\ dret'[c] = dret[c]
Accepts(c) ==
    /\ PhaseOf(c) = "new" /\ PhaseOf(c)' = "accepted"
    /\ AnswerOf(c) = "none" /\ AnswerOf(c)' = "none"
    /\ dret'[c] = dret[c]
Refuses(c) ==
    /\ PhaseOf(c) = "new" /\ PhaseOf(c)' = "new"
    /\ AnswerOf(c) = "none" /\ AnswerOf(c)' = "enomem"
    /\ dret'[c] = dret[c]
Starts(c) ==
    /\ PhaseOf(c) = "accepted" /\ PhaseOf(c)' = "running"
    /\ lock[CtxOf[c]] = NoCall
    /\ AnswerOf(c)' = AnswerOf(c) /\ dret'[c] = dret[c]
Finishes(c) ==
    /\ PhaseOf(c) = "running" /\ PhaseOf(c)' = "ran"
    /\ dret'[c] \in Outcome \ {"unset"}
    /\ AnswerOf(c)' = AnswerOf(c)
Answers(c) ==
    /\ PhaseOf(c) = "ran" /\ PhaseOf(c)' = "ran"
    /\ AnswerOf(c) = "none" /\ AnswerOf(c)' = dret[c]
    /\ dret'[c] = dret[c]

\* The step leaves alone what the service shows of the calls other than c.
Elsewhere(c) ==
    \A e \in Calls \ {c} :
        /\ pc'[e] = pc[e] /\ api'[e] = api[e] /\ ret'[e] = ret[e]
        /\ dret'[e] = dret[e] /\ cbs'[e] = cbs[e]
        /\ work'[e] # "none" <=> work[e] # "none"
        /\ lock'[CtxOf[e]] = e <=> lock[CtxOf[e]] = e

\* The phase of a call, as nested conditions, before and after a step.
LEMMA PhaseIf ==
    ASSUME NEW c \in Calls
    PROVE  /\ PhaseOf(c) = IF dret[c] # "unset" THEN "ran"
                           ELSE IF lock[CtxOf[c]] = c THEN "running"
                           ELSE IF pc[c] = "lock" \/ work[c] # "none" THEN "accepted"
                           ELSE "new"
           /\ PhaseOf(c)' = IF dret'[c] # "unset" THEN "ran"
                            ELSE IF lock'[CtxOf[c]] = c THEN "running"
                            ELSE IF pc'[c] = "lock" \/ work'[c] # "none" THEN "accepted"
                            ELSE "new"
BY DEF PhaseOf

\* A step that stutters for every call changes nothing of the service.
LEMMA ServiceStutters ==
    ASSUME TypeOK, TypeOK', \A e \in Calls : Stutters(e)
    PROVE  UNCHANGED <<[c \in Calls |-> PhaseOf(c)], dret, [c \in Calls |-> AnswerOf(c)]>>
BY DEF TypeOK, Stutters

\* A step that works for call c is a step of the service or stutters.
LEMMA ServiceSteps ==
    ASSUME TypeOK, TypeOK', NEW c \in Calls, Elsewhere(c),
           Stutters(c) \/ Accepts(c) \/ Refuses(c) \/ Starts(c) \/ Finishes(c) \/ Answers(c)
    PROVE  [Service!Next]_(Service!serviceVars)
<1> DEFINE phase  == [e \in Calls |-> PhaseOf(e)]
           answer == [e \in Calls |-> AnswerOf(e)]
<1>1. ASSUME NEW e \in Calls \ {c} PROVE Stutters(e)
  BY PhaseIf DEF Elsewhere, Stutters, AnswerOf
<1> DEFINE others == \A e \in Calls \ {c} : PhaseOf(e)' = PhaseOf(e) /\ AnswerOf(e)' = AnswerOf(e)
                                             /\ dret'[e] = dret[e]
<1>10. others
  BY <1>1 DEF Stutters
<1>11. dret \in [Calls -> Outcome] /\ dret' \in [Calls -> Outcome]
  BY DEF TypeOK
<1>12. phase' = [phase EXCEPT ![c] = PhaseOf(c)'] /\ (PhaseOf(c)' = PhaseOf(c) => phase' = phase)
  BY <1>10
<1>13. /\ answer' = [answer EXCEPT ![c] = AnswerOf(c)']
       /\ AnswerOf(c)' = AnswerOf(c) => answer' = answer
  BY <1>10
<1>14. dret' = [dret EXCEPT ![c] = dret'[c]] /\ (dret'[c] = dret[c] => dret' = dret)
  BY <1>10, <1>11
<1>2. /\ phase' = [phase EXCEPT ![c] = PhaseOf(c)']
      /\ answer' = [answer EXCEPT ![c] = AnswerOf(c)']
      /\ dret' = [dret EXCEPT ![c] = dret'[c]]
  BY <1>12, <1>13, <1>14
<1>3. CASE Stutters(c)
  <2>1. \A e \in Calls : Stutters(e)
    BY <1>1, <1>3
  <2> QED
    BY <2>1, ServiceStutters DEF Service!serviceVars
<1>4. phase[c] = PhaseOf(c) /\ answer[c] = AnswerOf(c)
  OBVIOUS
<1>5. CASE Accepts(c)
  <2>1. UNCHANGED <<dret, answer>>
    BY <1>13, <1>14, <1>5 DEF Accepts
  <2>2. Service!Accept(c)
    BY <1>2, <1>4, <1>5, <2>1 DEF Accepts, Service!Accept
  <2> QED
    BY <2>2 DEF Service!Next
<1>6. CASE Refuses(c)
  <2>1. UNCHANGED <<dret, phase>>
    BY <1>12, <1>14, <1>6 DEF Refuses
  <2>2. Service!Refuse(c)
    BY <1>2, <1>4, <1>6, <2>1 DEF Refuses, Service!Refuse
  <2> QED
    BY <2>2 DEF Service!Next
<1>7. CASE Starts(c)
  <2>1. UNCHANGED <<dret, answer>>
    BY <1>13, <1>14, <1>7 DEF Starts
  <2>2. \A e \in Calls : CtxOf[e] = CtxOf[c] => phase[e] # "running"
    BY <1>7, PhaseIf, LoadcodeAssumption DEF Starts
  <2>3. Service!Start(c)
    BY <1>2, <1>4, <1>7, <2>1, <2>2 DEF Starts, Service!Start
  <2> QED
    BY <2>3 DEF Service!Next
<1>8. CASE Finishes(c)
  <2>1. UNCHANGED answer
    BY <1>13, <1>8 DEF Finishes
  <2>2. Service!Finish(c)
    BY <1>2, <1>4, <1>8, <2>1 DEF Finishes, Service!Finish
  <2> QED
    BY <2>2 DEF Service!Next
<1>9. CASE Answers(c)
  <2>1. UNCHANGED <<dret, phase>>
    BY <1>12, <1>14, <1>9 DEF Answers
  <2>2. Service!Answer(c)
    BY <1>2, <1>4, <1>9, <2>1 DEF Answers, Service!Answer
  <2> QED
    BY <2>2 DEF Service!Next
<1> QED
  BY <1>3, <1>5, <1>6, <1>7, <1>8, <1>9

\* Every step keeps track of the mutex.
LEMMA OwnerStep == Inv /\ Inv' /\ LifeInv /\ OwnerInv /\ [PlainNext]_vars => OwnerInv'
<1> SUFFICES ASSUME TypeOK, TypeOK', QueueInv, RunsItem, OwnerInv, \A e \in Calls : Life(e),
                    [PlainNext]_vars
             PROVE  OwnerInv'
  BY DEF Inv, LifeInv
<1>0. ASSUME NEW x \in Contexts, Busy(x)
      PROVE  running[x] \in Calls /\ CtxOf[running[x]] = x /\ work[running[x]] = "running"
  BY <1>0 DEF QueueInv, Running
<1> USE LoadcodeAssumption DEF TypeOK, Set, callVars, memVars, dataVars, workVars, ctxVars
<1>1. ASSUME NEW c \in Calls, Begin(c) PROVE OwnerInv'
  <2>1. /\ pc[c] \notin {"exec", "unlock"}
        /\ \A e \in Calls \ {c} : pc'[e] = pc[e] /\ work'[e] = work[e]
        /\ UNCHANGED <<wpc, lock>>
        /\ work'[c] = work[c] \/ pc[c] = "create"
    BY <1>1 DEF Begin
  <2>2. pc[c] = "create" => Stage(c) = "none"
    BY DEF Life, CallerLife
  <2> HIDE DEF TypeOK, Set
  <2> QED
    BY <2>1, <2>2 DEF OwnerInv, Stage
<1>2. ASSUME NEW c \in Calls, AllocData(c) PROVE OwnerInv'
  <2>1. /\ pc[c] \notin {"exec", "unlock"}
        /\ \A e \in Calls \ {c} : pc'[e] = pc[e] /\ work'[e] = work[e]
        /\ UNCHANGED <<wpc, lock>>
        /\ work'[c] = work[c] \/ pc[c] = "create"
    BY <1>2 DEF AllocData
  <2>2. pc[c] = "create" => Stage(c) = "none"
    BY DEF Life, CallerLife
  <2> HIDE DEF TypeOK, Set
  <2> QED
    BY <2>1, <2>2 DEF OwnerInv, Stage
<1>3. ASSUME NEW c \in Calls, AllocDataFails(c) PROVE OwnerInv'
  <2>1. /\ pc[c] \notin {"exec", "unlock"}
        /\ \A e \in Calls \ {c} : pc'[e] = pc[e] /\ work'[e] = work[e]
        /\ UNCHANGED <<wpc, lock>>
        /\ work'[c] = work[c] \/ pc[c] = "create"
    BY <1>3 DEF AllocDataFails
  <2>2. pc[c] = "create" => Stage(c) = "none"
    BY DEF Life, CallerLife
  <2> HIDE DEF TypeOK, Set
  <2> QED
    BY <2>1, <2>2 DEF OwnerInv, Stage
<1>4. ASSUME NEW c \in Calls, CreateWorkFails(c) PROVE OwnerInv'
  <2>1. /\ pc[c] \notin {"exec", "unlock"}
        /\ \A e \in Calls \ {c} : pc'[e] = pc[e] /\ work'[e] = work[e]
        /\ UNCHANGED <<wpc, lock>>
        /\ work'[c] = work[c] \/ pc[c] = "create"
    BY <1>4 DEF CreateWorkFails
  <2>2. pc[c] = "create" => Stage(c) = "none"
    BY DEF Life, CallerLife
  <2> HIDE DEF TypeOK, Set
  <2> QED
    BY <2>1, <2>2 DEF OwnerInv, Stage
<1>5. ASSUME NEW c \in Calls, QueueWork(c) PROVE OwnerInv'
  <2>1. /\ pc[c] \notin {"exec", "unlock"}
        /\ \A e \in Calls \ {c} : pc'[e] = pc[e] /\ work'[e] = work[e]
        /\ UNCHANGED <<wpc, lock>>
        /\ work'[c] = work[c] \/ pc[c] = "create"
    BY <1>5 DEF QueueWork, NextAfterQueue
  <2>2. pc[c] = "create" => Stage(c) = "none"
    BY DEF Life, CallerLife
  <2> HIDE DEF TypeOK, Set
  <2> QED
    BY <2>1, <2>2 DEF OwnerInv, Stage
<1>6. ASSUME NEW c \in Calls, Down(c) PROVE OwnerInv'
  <2>1. /\ pc[c] \notin {"exec", "unlock"}
        /\ \A e \in Calls \ {c} : pc'[e] = pc[e] /\ work'[e] = work[e]
        /\ UNCHANGED <<wpc, lock>>
        /\ work'[c] = work[c] \/ pc[c] = "create"
    BY <1>6 DEF Down
  <2>2. pc[c] = "create" => Stage(c) = "none"
    BY DEF Life, CallerLife
  <2> HIDE DEF TypeOK, Set
  <2> QED
    BY <2>1, <2>2 DEF OwnerInv, Stage
<1>7. ASSUME NEW c \in Calls, Interrupt(c) PROVE OwnerInv'
  <2>1. /\ pc[c] \notin {"exec", "unlock"}
        /\ \A e \in Calls \ {c} : pc'[e] = pc[e] /\ work'[e] = work[e]
        /\ UNCHANGED <<wpc, lock>>
        /\ work'[c] = work[c] \/ pc[c] = "create"
    BY <1>7 DEF Interrupt
  <2>2. pc[c] = "create" => Stage(c) = "none"
    BY DEF Life, CallerLife
  <2> HIDE DEF TypeOK, Set
  <2> QED
    BY <2>1, <2>2 DEF OwnerInv, Stage
<1>8. ASSUME NEW c \in Calls, FreeWork(c) PROVE OwnerInv'
  <2>1. /\ pc[c] \notin {"exec", "unlock"}
        /\ \A e \in Calls \ {c} : pc'[e] = pc[e] /\ work'[e] = work[e]
        /\ UNCHANGED <<wpc, lock>>
        /\ work'[c] = work[c] \/ pc[c] = "create"
    BY <1>8 DEF FreeWork
  <2>2. pc[c] = "create" => Stage(c) = "none"
    BY DEF Life, CallerLife
  <2> HIDE DEF TypeOK, Set
  <2> QED
    BY <2>1, <2>2 DEF OwnerInv, Stage
<1>9. ASSUME NEW c \in Calls, ClientRelease(c) PROVE OwnerInv'
  <2>1. /\ pc[c] \notin {"exec", "unlock"}
        /\ \A e \in Calls \ {c} : pc'[e] = pc[e] /\ work'[e] = work[e]
        /\ UNCHANGED <<wpc, lock>>
        /\ work'[c] = work[c] \/ pc[c] = "create"
    BY <1>9 DEF ClientRelease
  <2>2. pc[c] = "create" => Stage(c) = "none"
    BY DEF Life, CallerLife
  <2> HIDE DEF TypeOK, Set
  <2> QED
    BY <2>1, <2>2 DEF OwnerInv, Stage
<1>10. ASSUME NEW c \in Calls, DirectLock(c) PROVE OwnerInv'
  <2>1. /\ pc'[c] = "exec" /\ lock[CtxOf[c]] = NoCall /\ lock'[CtxOf[c]] = c
        /\ \A e \in Calls \ {c} : pc'[e] = pc[e]
        /\ \A y \in Contexts \ {CtxOf[c]} : lock'[y] = lock[y]
        /\ UNCHANGED <<work, wpc>>
    BY <1>10 DEF DirectLock, Lock
  <2> HIDE DEF TypeOK, Set
  <2> QED
    BY <2>1 DEF OwnerInv, Stage
<1>11. ASSUME NEW c \in Calls, DirectExec(c) PROVE OwnerInv'
  <2>1. /\ pc'[c] = "unlock"
        /\ \A e \in Calls \ {c} : pc'[e] = pc[e]
        /\ UNCHANGED <<work, wpc, lock>>
    BY <1>11 DEF DirectExec
  <2> HIDE DEF TypeOK, Set
  <2> QED
    BY <2>1 DEF OwnerInv, Stage
<1>12. ASSUME NEW c \in Calls, DirectReturn(c) PROVE OwnerInv'
  <2>1. /\ lock'[CtxOf[c]] = NoCall
        /\ \A e \in Calls \ {c} : pc'[e] = pc[e]
        /\ \A y \in Contexts \ {CtxOf[c]} : lock'[y] = lock[y]
        /\ UNCHANGED <<work, wpc>>
    BY <1>12 DEF DirectReturn, Unlock
  <2> HIDE DEF TypeOK, Set
  <2> QED
    BY <2>1 DEF OwnerInv, Stage
<1>13. ASSUME NEW x \in Contexts, Dequeue(x) PROVE OwnerInv'
  <2>0. queue[x] # <<>> /\ running[x] = NoCall
    BY <1>13 DEF Dequeue, RunsItem
  <2>1. PICK c \in Calls : /\ c = Head(queue[x]) /\ CtxOf[c] = x /\ work[c] = "pending"
                          /\ running[x] = NoCall
    <3> HIDE DEF TypeOK
    <3> QED
      BY <2>0, HeadItem
  <2>2. /\ work' = Set(work, c, "running") /\ wpc' = Set(wpc, x, "lock")
        /\ UNCHANGED <<pc, lock>>
    BY <1>13, <2>1 DEF Dequeue
  <2>3. Stage(c) = "pending"
    BY <2>1 DEF Stage
  <2>4. \A e \in Calls \ {c} : Stage(e)' = Stage(e)
    <3>1. /\ \A e \in Calls \ {c} : work'[e] = work[e]
          /\ \A y \in Contexts \ {x} : wpc'[y] = wpc[y]
      BY <2>2
    <3> HIDE DEF TypeOK, Set
    <3> QED
      BY <2>1, <3>1, WorkerFrame
  <2>5. pc[c] \notin {"exec", "unlock"}
    BY <2>3 DEF Life, CallerLife
  <2> HIDE DEF TypeOK, Set
  <2> QED
    BY <2>2, <2>3, <2>4, <2>5 DEF OwnerInv
<1>14. ASSUME NEW x \in Contexts, WorkerLock(x) PROVE OwnerInv'
  <2>1. PICK c \in Calls : c = running[x] /\ CtxOf[c] = x /\ work[c] = "running"
    BY <1>0, <1>14 DEF WorkerLock, Busy
  <2>2. /\ UNCHANGED pc
        /\ \A e \in Calls \ {c} : work'[e] = work[e]
        /\ \A y \in Contexts \ {x} : wpc'[y] = wpc[y] /\ lock'[y] = lock[y]
        /\ lock[x] = NoCall /\ lock'[x] = c
        /\ Stage(c) = "lock" /\ Stage(c)' = "exec"
    BY <1>14, <2>1 DEF WorkerLock, Stage, Lock
  <2>3. \A e \in Calls \ {c} : Stage(e)' = Stage(e)
    <3> HIDE DEF TypeOK, Set
    <3> QED
      BY <2>1, <2>2, WorkerFrame
  <2>4. pc[c] \notin {"exec", "unlock"}
    BY <2>2 DEF Life, CallerLife
  <2> HIDE DEF TypeOK, Set
  <2> QED
    BY <2>1, <2>2, <2>3, <2>4 DEF OwnerInv
<1>15. ASSUME NEW x \in Contexts, ExecOn(x, running[x]) PROVE OwnerInv'
  <2>1. PICK c \in Calls : c = running[x] /\ CtxOf[c] = x /\ work[c] = "running"
    BY <1>0, <1>15 DEF ExecOn, Busy
  <2>2. /\ UNCHANGED pc
        /\ \A e \in Calls \ {c} : work'[e] = work[e]
        /\ \A y \in Contexts \ {x} : wpc'[y] = wpc[y] /\ lock'[y] = lock[y]
        /\ UNCHANGED lock
        /\ Stage(c) = "exec" /\ Stage(c)' = "unlock"
    BY <1>15, <2>1 DEF ExecOn, Stage
  <2>3. \A e \in Calls \ {c} : Stage(e)' = Stage(e)
    <3> HIDE DEF TypeOK, Set
    <3> QED
      BY <2>1, <2>2, WorkerFrame
  <2>4. pc[c] \notin {"exec", "unlock"}
    BY <2>2 DEF Life, CallerLife
  <2> HIDE DEF TypeOK, Set
  <2> QED
    BY <2>1, <2>2, <2>3, <2>4 DEF OwnerInv
<1>16. ASSUME NEW x \in Contexts, WorkerUnlock(x) PROVE OwnerInv'
  <2>1. PICK c \in Calls : c = running[x] /\ CtxOf[c] = x /\ work[c] = "running"
    BY <1>0, <1>16 DEF WorkerUnlock, Busy
  <2>2. /\ UNCHANGED pc
        /\ \A e \in Calls \ {c} : work'[e] = work[e]
        /\ \A y \in Contexts \ {x} : wpc'[y] = wpc[y] /\ lock'[y] = lock[y]
        /\ lock'[x] = NoCall /\ Stage(c) = "unlock"
    BY <1>16, <2>1 DEF WorkerUnlock, Stage, Unlock
  <2>3. \A e \in Calls \ {c} : Stage(e)' = Stage(e)
    <3> HIDE DEF TypeOK, Set
    <3> QED
      BY <2>1, <2>2, WorkerFrame
  <2>4. pc[c] \notin {"exec", "unlock"}
    BY <2>2 DEF Life, CallerLife
  <2> HIDE DEF TypeOK, Set
  <2> QED
    BY <2>1, <2>2, <2>3, <2>4 DEF OwnerInv
<1>17. ASSUME NEW x \in Contexts, UpOn(x, running[x]) PROVE OwnerInv'
  <2>1. PICK c \in Calls : c = running[x] /\ CtxOf[c] = x /\ work[c] = "running"
    BY <1>0, <1>17 DEF UpOn, Busy
  <2>2. /\ UNCHANGED pc
        /\ \A e \in Calls \ {c} : work'[e] = work[e]
        /\ \A y \in Contexts \ {x} : wpc'[y] = wpc[y] /\ lock'[y] = lock[y]
        /\ UNCHANGED lock /\ Stage(c) = "up"
    BY <1>17, <2>1 DEF UpOn, Stage
  <2>3. \A e \in Calls \ {c} : Stage(e)' = Stage(e)
    <3> HIDE DEF TypeOK, Set
    <3> QED
      BY <2>1, <2>2, WorkerFrame
  <2>4. pc[c] \notin {"exec", "unlock"}
    BY <2>2 DEF Life, CallerLife
  <2> HIDE DEF TypeOK, Set
  <2> QED
    BY <2>1, <2>2, <2>3, <2>4 DEF OwnerInv
<1>18. ASSUME NEW x \in Contexts, TestCallbackOn(x, running[x]) PROVE OwnerInv'
  <2>1. PICK c \in Calls : c = running[x] /\ CtxOf[c] = x /\ work[c] = "running"
    BY <1>0, <1>18 DEF TestCallbackOn, Busy
  <2>2. /\ UNCHANGED pc
        /\ \A e \in Calls \ {c} : work'[e] = work[e]
        /\ \A y \in Contexts \ {x} : wpc'[y] = wpc[y] /\ lock'[y] = lock[y]
        /\ UNCHANGED lock /\ Stage(c) = "cb"
    BY <1>18, <2>1 DEF TestCallbackOn, Stage, NextAfterUp
  <2>3. \A e \in Calls \ {c} : Stage(e)' = Stage(e)
    <3> HIDE DEF TypeOK, Set
    <3> QED
      BY <2>1, <2>2, WorkerFrame
  <2>4. pc[c] \notin {"exec", "unlock"}
    BY <2>2 DEF Life, CallerLife
  <2> HIDE DEF TypeOK, Set
  <2> QED
    BY <2>1, <2>2, <2>3, <2>4 DEF OwnerInv
<1>19. ASSUME NEW x \in Contexts, CallbackOn(x, running[x]) PROVE OwnerInv'
  <2>1. PICK c \in Calls : c = running[x] /\ CtxOf[c] = x /\ work[c] = "running"
    BY <1>0, <1>19 DEF CallbackOn, Busy
  <2>2. /\ UNCHANGED pc
        /\ \A e \in Calls \ {c} : work'[e] = work[e]
        /\ \A y \in Contexts \ {x} : wpc'[y] = wpc[y] /\ lock'[y] = lock[y]
        /\ UNCHANGED lock /\ Stage(c) = "in_cb"
    BY <1>19, <2>1 DEF CallbackOn, Stage
  <2>3. \A e \in Calls \ {c} : Stage(e)' = Stage(e)
    <3> HIDE DEF TypeOK, Set
    <3> QED
      BY <2>1, <2>2, WorkerFrame
  <2>4. pc[c] \notin {"exec", "unlock"}
    BY <2>2 DEF Life, CallerLife
  <2> HIDE DEF TypeOK, Set
  <2> QED
    BY <2>1, <2>2, <2>3, <2>4 DEF OwnerInv
<1>20. ASSUME NEW x \in Contexts, CleanupOn(x, running[x]) PROVE OwnerInv'
  <2>1. PICK c \in Calls : c = running[x] /\ CtxOf[c] = x /\ work[c] = "running"
    BY <1>0, <1>20 DEF CleanupOn, Busy
  <2>2. /\ UNCHANGED pc
        /\ \A e \in Calls \ {c} : work'[e] = work[e]
        /\ \A y \in Contexts \ {x} : wpc'[y] = wpc[y] /\ lock'[y] = lock[y]
        /\ UNCHANGED lock /\ Stage(c) = "cb_work"
    BY <1>20, <2>1 DEF CleanupOn, Stage
  <2>3. \A e \in Calls \ {c} : Stage(e)' = Stage(e)
    <3> HIDE DEF TypeOK, Set
    <3> QED
      BY <2>1, <2>2, WorkerFrame
  <2>4. pc[c] \notin {"exec", "unlock"}
    BY <2>2 DEF Life, CallerLife
  <2> HIDE DEF TypeOK, Set
  <2> QED
    BY <2>1, <2>2, <2>3, <2>4 DEF OwnerInv
<1>21. ASSUME NEW x \in Contexts, WorkerOops(x) PROVE OwnerInv'
  <2>1. wpc' = Set(wpc, x, "oops") /\ UNCHANGED <<pc, work, lock>>
    BY <1>21 DEF WorkerOops
  <2>2. \A e \in Calls : Stage(e)' \in {Stage(e), "oops"}
    BY <2>1 DEF Stage
  <2> HIDE DEF TypeOK, Set
  <2> QED
    BY <2>1, <2>2 DEF OwnerInv
<1>22. ASSUME NEW x \in Contexts, Exit(x) PROVE OwnerInv'
  BY <1>22 DEF Exit, OwnerInv, Stage
<1>23. ASSUME NEW x \in Contexts, DestroyContext(x) PROVE OwnerInv'
  BY <1>23 DEF DestroyContext, OwnerInv, Stage
<1>24. CASE UNCHANGED vars
  BY <1>24 DEF vars, OwnerInv, Stage
<1> HIDE DEF TypeOK, Set, callVars, memVars, dataVars, workVars, ctxVars
<1> QED
  BY <1>1, <1>2, <1>3, <1>4, <1>5, <1>6, <1>7, <1>8, <1>9, <1>10, <1>11, <1>12,
     <1>13, <1>14, <1>15, <1>16, <1>17, <1>18, <1>19, <1>20, <1>21, <1>22, <1>23,
     <1>24
     DEF PlainNext, CallStep, PlainWorker, Terminated

\* Without signals every step is a step of the service or invisible to it: the
\* allocations and queue_work accept or refuse a call, taking the mutex starts
\* it, the end of lua_pcall finishes it, and down, the return of _direct or the
\* callback answers it.
LEMMA RefineStep ==
    ~Signals /\ Inv /\ Inv' /\ LifeInv /\ OwnerInv /\ [PlainNext]_vars
        => [Service!Next]_(Service!serviceVars)
<1> DEFINE Refined == [Service!Next]_(Service!serviceVars)
<1> SUFFICES ASSUME ~Signals, TypeOK, TypeOK', QueueInv, LockInv, RunsItem, OwnerInv,
                    \A e \in Calls : Life(e), [PlainNext]_vars
             PROVE  Refined
  BY DEF Inv, LifeInv
<1>0. ASSUME NEW x \in Contexts, Busy(x)
      PROVE  running[x] \in Calls /\ CtxOf[running[x]] = x /\ work[running[x]] = "running"
  BY <1>0 DEF QueueInv, Running
<1>00. ASSUME NEW c \in Calls, pc[c] \in {"alloc", "create", "lock"}
       PROVE  lock[CtxOf[c]] # c /\ work[c] = "none"
  BY <1>00 DEF OwnerInv, Life, CallerLife, QueueInv, NotYetQueued
<1> USE LoadcodeAssumption DEF TypeOK, Set, callVars, memVars, dataVars, workVars, ctxVars
<1> HIDE DEF Refined
<1>1. ASSUME NEW c \in Calls, Begin(c) PROVE Refined
  <2>1. /\ pc[c] = "idle" /\ pc'[c] \in {"alloc", "create"}
        /\ UNCHANGED <<ret, dret, cbs, work, lock>>
    BY <1>1 DEF Begin
  <2>2. Elsewhere(c)
    BY <1>1 DEF Begin, Elsewhere
  <2>3. Life(c)
    OBVIOUS
  <2> HIDE DEF TypeOK, Set
  <2>4. Stutters(c)
    BY <1>00, <2>1, <2>3, PhaseIf DEF Stutters, Life, CallerLife, OutcomeLife, CallbackLife,
       AnswerLife, AnswerOf, Waits, Unattended, Detached, HasCallback
  <2> QED
    BY <2>2, <2>4, ServiceSteps DEF Refined
<1>2. ASSUME NEW c \in Calls, AllocData(c) PROVE Refined
  <2>1. /\ pc[c] = "alloc" /\ dret'[c] = "unset"
        /\ pc'[c] = (IF api[c] = "direct" THEN "lock" ELSE "create")
        /\ UNCHANGED <<api, ret, cbs, work, lock>>
    BY <1>2 DEF AllocData
  <2>2. Elsewhere(c)
    BY <1>2 DEF AllocData, Elsewhere
  <2>3. Life(c)
    OBVIOUS
  <2> HIDE DEF TypeOK, Set
  <2>4. Accepts(c) \/ Stutters(c)
    BY <1>00, <2>1, <2>3, PhaseIf DEF Accepts, Stutters, Life, CallerLife, OutcomeLife,
       CallbackLife, AnswerLife, AnswerOf, Waits, Unattended, Detached, HasCallback
  <2> QED
    BY <2>2, <2>4, ServiceSteps DEF Refined
<1>3. ASSUME NEW c \in Calls, AllocDataFails(c) PROVE Refined
  <2>1. /\ pc[c] = "alloc" /\ pc'[c] = "returned" /\ ret'[c] = "enomem"
        /\ UNCHANGED <<api, dret, cbs, work, lock>>
    BY <1>3 DEF AllocDataFails
  <2>2. Elsewhere(c)
    BY <1>3 DEF AllocDataFails, Elsewhere
  <2>3. Life(c)
    OBVIOUS
  <2> HIDE DEF TypeOK, Set
  <2>4. Refuses(c)
    BY <1>00, <2>1, <2>3, PhaseIf DEF Refuses, Life, CallerLife, OutcomeLife, CallbackLife,
       AnswerLife, AnswerOf, Waits, Unattended, Detached, HasCallback
  <2> QED
    BY <2>2, <2>4, ServiceSteps DEF Refined
<1>4. ASSUME NEW c \in Calls, CreateWorkFails(c) PROVE Refined
  <2>1. /\ pc[c] = "create" /\ pc'[c] = "oops"
        /\ UNCHANGED <<api, ret, dret, cbs, work, lock>>
    BY <1>4 DEF CreateWorkFails
  <2>2. Elsewhere(c)
    BY <1>4 DEF CreateWorkFails, Elsewhere
  <2>3. Life(c)
    OBVIOUS
  <2> HIDE DEF TypeOK, Set
  <2>4. Stutters(c)
    BY <1>00, <2>1, <2>3, PhaseIf DEF Stutters, Life, CallerLife, OutcomeLife, CallbackLife,
       AnswerLife, AnswerOf, Waits, Unattended, Detached, HasCallback
  <2> QED
    BY <2>2, <2>4, ServiceSteps DEF Refined
<1>5. ASSUME NEW c \in Calls, QueueWork(c) PROVE Refined
  <2>1. /\ pc[c] = "create" /\ api[c] \in Api \cup {"none"}
        /\ work'[c] = "pending" /\ pc'[c] # "lock"
        /\ ret'[c] = (IF Waits(c) THEN ret[c] ELSE "ok")
        /\ UNCHANGED <<api, dret, cbs, lock>>
    BY <1>5, <1>00 DEF QueueWork, NextAfterQueue
  <2>2. Elsewhere(c)
    BY <1>5, <1>00 DEF QueueWork, NextAfterQueue, Elsewhere
  <2>3. Life(c)
    OBVIOUS
  <2> HIDE DEF TypeOK, Set
  <2>4. Accepts(c)
    BY <1>00, <2>1, <2>3, PhaseIf DEF Accepts, Api, Life, CallerLife, OutcomeLife,
       CallbackLife, AnswerLife, AnswerOf, Waits, Unattended, Detached, HasCallback
  <2> QED
    BY <2>2, <2>4, ServiceSteps DEF Refined
<1>6. ASSUME NEW c \in Calls, Down(c) PROVE Refined
  <2>1. /\ pc[c] = "wait" /\ sem[c] # 0 /\ pc'[c] = "free" /\ ret'[c] = dret[c]
        /\ UNCHANGED <<api, dret, cbs, work, lock>>
    BY <1>6 DEF Down, Completed
  <2>2. Elsewhere(c)
    BY <1>6 DEF Down, Completed, Elsewhere
  <2>3. Life(c)
    OBVIOUS
  <2> HIDE DEF TypeOK, Set
  <2>4. Answers(c)
    BY <1>00, <2>1, <2>3, PhaseIf DEF Answers, Life, CallerLife, OutcomeLife, CallbackLife,
       AnswerLife, AnswerOf, Waits, Unattended, Detached, HasCallback
  <2> QED
    BY <2>2, <2>4, ServiceSteps DEF Refined
<1>7. ASSUME NEW c \in Calls, FreeWork(c) PROVE Refined
  <2>1. /\ pc[c] = "free" /\ pc'[c] = "returned"
        /\ UNCHANGED <<api, ret, dret, cbs, work, lock>>
    BY <1>7 DEF FreeWork
  <2>2. Elsewhere(c)
    BY <1>7 DEF FreeWork, Elsewhere
  <2>3. Life(c)
    OBVIOUS
  <2> HIDE DEF TypeOK, Set
  <2>4. Stutters(c)
    BY <1>00, <2>1, <2>3, PhaseIf DEF Stutters, Life, CallerLife, OutcomeLife, CallbackLife,
       AnswerLife, AnswerOf, Waits, Unattended, Detached, HasCallback
  <2> QED
    BY <2>2, <2>4, ServiceSteps DEF Refined
<1>8. ASSUME NEW c \in Calls, DirectLock(c) PROVE Refined
  <2>1. /\ pc[c] = "lock" /\ pc'[c] = "exec"
        /\ lock[CtxOf[c]] = NoCall /\ lock'[CtxOf[c]] = c
        /\ UNCHANGED <<api, ret, dret, cbs, work>>
    BY <1>8 DEF DirectLock, Lock
  <2>2. Elsewhere(c)
    BY <1>8 DEF DirectLock, Lock, Elsewhere
  <2>3. Life(c)
    OBVIOUS
  <2> HIDE DEF TypeOK, Set
  <2>4. Starts(c)
    BY <1>00, <2>1, <2>3, PhaseIf DEF Starts, Life, CallerLife, OutcomeLife, CallbackLife,
       AnswerLife, AnswerOf, Waits, Unattended, Detached, HasCallback
  <2> QED
    BY <2>2, <2>4, ServiceSteps DEF Refined
<1>9. ASSUME NEW c \in Calls, DirectExec(c) PROVE Refined
  <2>0. dret'[c] # "unset" /\ \A e \in Calls \ {c} : dret'[e] = dret[e]
    BY <1>9, RunLuaEffect DEF DirectExec
  <2>1. /\ pc[c] = "exec" /\ pc'[c] = "unlock" /\ lock[CtxOf[c]] = c
        /\ dret'[c] \in Outcome \ {"unset"}
        /\ UNCHANGED <<api, ret, cbs, work, lock>>
    BY <1>9, <2>0 DEF DirectExec, LockInv, InLua
  <2>2. Elsewhere(c)
    BY <1>9, <2>0 DEF DirectExec, LockInv, InLua, Elsewhere
  <2>3. Life(c)
    OBVIOUS
  <2> HIDE DEF TypeOK, Set
  <2>4. Finishes(c)
    BY <1>00, <2>1, <2>3, PhaseIf DEF Finishes, Life, CallerLife, OutcomeLife, CallbackLife,
       AnswerLife, AnswerOf, Waits, Unattended, Detached, HasCallback
  <2> QED
    BY <2>2, <2>4, ServiceSteps DEF Refined
<1>10. ASSUME NEW c \in Calls, DirectReturn(c) PROVE Refined
  <2>1. /\ pc[c] = "unlock" /\ pc'[c] = "returned" /\ ret'[c] = dret[c]
        /\ UNCHANGED <<api, dret, cbs, work>>
    BY <1>10 DEF DirectReturn, Unlock, LockInv, InLua
  <2>2. Elsewhere(c)
    BY <1>10 DEF DirectReturn, Unlock, LockInv, InLua, Elsewhere
  <2>3. Life(c)
    OBVIOUS
  <2> HIDE DEF TypeOK, Set
  <2>4. Answers(c)
    BY <1>00, <2>1, <2>3, PhaseIf DEF Answers, Life, CallerLife, OutcomeLife, CallbackLife,
       AnswerLife, AnswerOf, Waits, Unattended, Detached, HasCallback
  <2> QED
    BY <2>2, <2>4, ServiceSteps DEF Refined
<1>11. ASSUME NEW c \in Calls, ClientRelease(c) PROVE Refined
  <2>1. /\ pc[c] = "returned" /\ pc'[c] = "done"
        /\ UNCHANGED <<api, ret, dret, cbs, work, lock>>
    BY <1>11 DEF ClientRelease
  <2>2. Elsewhere(c)
    BY <1>11 DEF ClientRelease, Elsewhere
  <2>3. Life(c)
    OBVIOUS
  <2> HIDE DEF TypeOK, Set
  <2>4. Stutters(c)
    BY <1>00, <2>1, <2>3, PhaseIf DEF Stutters, Life, CallerLife, OutcomeLife, CallbackLife,
       AnswerLife, AnswerOf, Waits, Unattended, Detached, HasCallback
  <2> QED
    BY <2>2, <2>4, ServiceSteps DEF Refined
<1>12. ASSUME NEW x \in Contexts, Dequeue(x) PROVE Refined
  <2>1. PICK c \in Calls : c = Head(queue[x]) /\ CtxOf[c] = x /\ work[c] = "pending"
    <3>1. queue[x] # <<>>
      BY <1>12 DEF Dequeue
    <3> HIDE DEF TypeOK
    <3> QED
      BY <3>1, HeadItem
  <2>2. /\ work' = Set(work, c, "running")
        /\ UNCHANGED <<pc, api, ret, dret, cbs, lock>>
    BY <1>12, <2>1 DEF Dequeue
  <2>3. Elsewhere(c) /\ work'[c] = "running"
    BY <2>2 DEF Elsewhere
  <2> HIDE DEF TypeOK, Set
  <2>4. Stutters(c)
    BY <2>1, <2>2, <2>3, PhaseIf DEF Stutters, AnswerOf
  <2> QED
    BY <2>3, <2>4, ServiceSteps DEF Refined
<1>13. ASSUME NEW x \in Contexts, WorkerLock(x) PROVE Refined
  <2>1. PICK c \in Calls : c = running[x] /\ CtxOf[c] = x /\ work[c] = "running"
    BY <1>0, <1>13 DEF WorkerLock, Busy
  <2>2. /\ Stage(c) = "lock" /\ work'[c] = "running"
        /\ lock[x] = NoCall /\ lock'[x] = c
        /\ UNCHANGED <<pc, api, ret, dret, cbs>>
    BY <1>13, <2>1 DEF WorkerLock, Lock, Stage
  <2>3. Elsewhere(c)
    BY <1>13, <2>1 DEF WorkerLock, Lock, Elsewhere
  <2>4. Life(c)
    OBVIOUS
  <2> HIDE DEF TypeOK, Set
  <2>5. Starts(c)
    BY <2>1, <2>2, <2>4, PhaseIf DEF Starts, Life, CallerLife, OutcomeLife, CallbackLife,
       AnswerLife, AnswerOf, Waits, Unattended, Detached, HasCallback
  <2> QED
    BY <2>3, <2>5, ServiceSteps DEF Refined
<1>14. ASSUME NEW x \in Contexts, ExecOn(x, running[x]) PROVE Refined
  <2>1. PICK c \in Calls : c = running[x] /\ CtxOf[c] = x /\ work[c] = "running"
    BY <1>0, <1>14 DEF ExecOn, Busy
  <2>0. dret'[c] # "unset" /\ \A e \in Calls \ {c} : dret'[e] = dret[e]
    BY ZenonT(40), <1>14, <2>1, RunLuaEffect DEF ExecOn
  <2>2. /\ Stage(c) = "exec" /\ lock[x] = c
        /\ dret'[c] \in Outcome \ {"unset"}
        /\ UNCHANGED <<pc, api, ret, cbs, work, lock>>
    BY <1>14, <2>1, <2>0 DEF ExecOn, LockInv, WorkerInLua, Stage
  <2>3. Elsewhere(c)
    BY <1>14, <2>1, <2>0 DEF ExecOn, LockInv, WorkerInLua, Elsewhere
  <2>4. Life(c)
    OBVIOUS
  <2> HIDE DEF TypeOK, Set
  <2>5. Finishes(c)
    BY <2>1, <2>2, <2>4, PhaseIf DEF Finishes, Life, CallerLife, OutcomeLife, CallbackLife,
       AnswerLife, AnswerOf, Waits, Unattended, Detached, HasCallback
  <2> QED
    BY <2>3, <2>5, ServiceSteps DEF Refined
<1>15. ASSUME NEW x \in Contexts, WorkerUnlock(x) PROVE Refined
  <2>1. PICK c \in Calls : c = running[x] /\ CtxOf[c] = x /\ work[c] = "running"
    BY <1>0, <1>15 DEF WorkerUnlock, Busy
  <2>2. /\ Stage(c) = "unlock"
        /\ UNCHANGED <<pc, api, ret, dret, cbs>>
    BY <1>15, <2>1 DEF WorkerUnlock, Unlock, LockInv, WorkerInLua, Stage
  <2>3. Elsewhere(c)
    BY <1>15, <2>1 DEF WorkerUnlock, Unlock, LockInv, WorkerInLua, Elsewhere
  <2>4. Life(c)
    OBVIOUS
  <2> HIDE DEF TypeOK, Set
  <2>5. Stutters(c)
    BY <2>1, <2>2, <2>4, PhaseIf DEF Stutters, Life, CallerLife, OutcomeLife, CallbackLife,
       AnswerLife, AnswerOf, Waits, Unattended, Detached, HasCallback
  <2> QED
    BY <2>3, <2>5, ServiceSteps DEF Refined
<1>16. ASSUME NEW x \in Contexts, UpOn(x, running[x]) PROVE Refined
  <2>1. PICK c \in Calls : c = running[x] /\ CtxOf[c] = x /\ work[c] = "running"
    BY <1>0, <1>16 DEF UpOn, Busy
  <2>2. /\ Stage(c) = "up"
        /\ UNCHANGED <<pc, api, ret, dret, cbs, work, lock>>
    BY <1>16, <2>1 DEF UpOn, Stage
  <2>3. Elsewhere(c)
    BY <1>16, <2>1 DEF UpOn, Elsewhere
  <2>4. Life(c)
    OBVIOUS
  <2> HIDE DEF TypeOK, Set
  <2>5. Stutters(c)
    BY <2>1, <2>2, <2>4, PhaseIf DEF Stutters, Life, CallerLife, OutcomeLife, CallbackLife,
       AnswerLife, AnswerOf, Waits, Unattended, Detached, HasCallback
  <2> QED
    BY <2>3, <2>5, ServiceSteps DEF Refined
<1>17. ASSUME NEW x \in Contexts, TestCallbackOn(x, running[x]) PROVE Refined
  <2>1. PICK c \in Calls : c = running[x] /\ CtxOf[c] = x /\ work[c] = "running"
    BY <1>0, <1>17 DEF TestCallbackOn, Busy
  <2>2. /\ Stage(c) = "cb"
        /\ UNCHANGED <<pc, api, ret, dret, cbs, work, lock>>
    BY <1>17, <2>1 DEF TestCallbackOn, Stage
  <2>3. Elsewhere(c)
    BY <1>17, <2>1 DEF TestCallbackOn, Elsewhere
  <2>4. Life(c)
    OBVIOUS
  <2> HIDE DEF TypeOK, Set
  <2>5. Stutters(c)
    BY <2>1, <2>2, <2>4, PhaseIf DEF Stutters, Life, CallerLife, OutcomeLife, CallbackLife,
       AnswerLife, AnswerOf, Waits, Unattended, Detached, HasCallback
  <2> QED
    BY <2>3, <2>5, ServiceSteps DEF Refined
<1>18. ASSUME NEW x \in Contexts, CallbackOn(x, running[x]) PROVE Refined
  <2>1. PICK c \in Calls : c = running[x] /\ CtxOf[c] = x /\ work[c] = "running"
    BY <1>0, <1>18 DEF CallbackOn, Busy
  <2>2. /\ Stage(c) = "in_cb" /\ cbs'[c] = cbs[c] + 1
        /\ UNCHANGED <<pc, api, ret, dret, work, lock>>
    BY <1>18, <2>1 DEF CallbackOn, Stage
  <2>3. Elsewhere(c)
    BY <1>18, <2>1 DEF CallbackOn, Elsewhere
  <2>4. Life(c)
    OBVIOUS
  <2> HIDE DEF TypeOK, Set
  <2>5. Answers(c)
    BY <2>1, <2>2, <2>4, PhaseIf DEF Answers, Life, CallerLife, OutcomeLife, CallbackLife,
       AnswerLife, AnswerOf, Waits, Unattended, Detached, HasCallback
  <2> QED
    BY <2>3, <2>5, ServiceSteps DEF Refined
<1>19. ASSUME NEW x \in Contexts, CleanupOn(x, running[x]) PROVE Refined
  <2>1. PICK c \in Calls : c = running[x] /\ CtxOf[c] = x /\ work[c] = "running"
    BY <1>0, <1>19 DEF CleanupOn, Busy
  <2>2. /\ Stage(c) = "cb_work" /\ work'[c] = "finished"
        /\ UNCHANGED <<pc, api, ret, dret, cbs, lock>>
    BY <1>19, <2>1 DEF CleanupOn, Stage
  <2>3. Elsewhere(c)
    BY <1>19, <2>1 DEF CleanupOn, Elsewhere
  <2>4. Life(c)
    OBVIOUS
  <2> HIDE DEF TypeOK, Set
  <2>5. Stutters(c)
    BY <2>1, <2>2, <2>4, PhaseIf DEF Stutters, Life, CallerLife, OutcomeLife, CallbackLife,
       AnswerLife, AnswerOf, Waits, Unattended, Detached, HasCallback
  <2> QED
    BY <2>3, <2>5, ServiceSteps DEF Refined
<1>20. ASSUME NEW x \in Contexts, WorkerOops(x) PROVE Refined
  <2>1. UNCHANGED <<pc, api, ret, dret, cbs, work, lock>>
    BY <1>20 DEF WorkerOops
  <2> HIDE DEF TypeOK, Set
  <2>2. \A e \in Calls : Stutters(e)
    BY <2>1, PhaseIf DEF Stutters, AnswerOf
  <2> QED
    BY <2>2, ServiceStutters DEF Refined, Service!serviceVars
<1>21. ASSUME NEW x \in Contexts, Exit(x) PROVE Refined
  <2>1. UNCHANGED <<pc, api, ret, dret, cbs, work, lock>>
    BY <1>21 DEF Exit
  <2> HIDE DEF TypeOK, Set
  <2>2. \A e \in Calls : Stutters(e)
    BY <2>1, PhaseIf DEF Stutters, AnswerOf
  <2> QED
    BY <2>2, ServiceStutters DEF Refined, Service!serviceVars
<1>22. ASSUME NEW x \in Contexts, DestroyContext(x) PROVE Refined
  <2>1. UNCHANGED <<pc, api, ret, dret, cbs, work, lock>>
    BY <1>22 DEF DestroyContext
  <2> HIDE DEF TypeOK, Set
  <2>2. \A e \in Calls : Stutters(e)
    BY <2>1, PhaseIf DEF Stutters, AnswerOf
  <2> QED
    BY <2>2, ServiceStutters DEF Refined, Service!serviceVars
<1>23. CASE UNCHANGED vars
  <2>1. UNCHANGED <<pc, api, ret, dret, cbs, work, lock>>
    BY <1>23 DEF vars
  <2> HIDE DEF TypeOK, Set
  <2>2. \A e \in Calls : Stutters(e)
    BY <2>1, PhaseIf DEF Stutters, AnswerOf
  <2> QED
    BY <2>2, ServiceStutters DEF Refined, Service!serviceVars
<1>24. ASSUME NEW c \in Calls, Interrupt(c) PROVE Refined
  BY <1>24 DEF Interrupt
<1> HIDE DEF TypeOK, Set, callVars, memVars, dataVars, workVars, ctxVars
<1> QED
  BY <1>1, <1>2, <1>3, <1>4, <1>5, <1>6, <1>7, <1>8, <1>9, <1>10, <1>11, <1>12,
     <1>13, <1>14, <1>15, <1>16, <1>17, <1>18, <1>19, <1>20, <1>21, <1>22, <1>23,
     <1>24
     DEF PlainNext, CallStep, PlainWorker, Terminated

\* As long as no signal ends a wait, lunatik.c gives the clients of all its
\* functions the service LuaService describes: a call is refused only for lack
\* of memory, its code runs once and alone in its context, and whoever is told
\* an outcome is told that of the run, after it.
THEOREM Refinement == ~Signals /\ HarmlessReuse /\ Spec => ImplementsService
<1> SUFFICES ASSUME ~Signals, HarmlessReuse PROVE Spec => ImplementsService
  OBVIOUS
<1>1. Init => OwnerInv /\ Service!Init
  <2> SUFFICES ASSUME Init PROVE OwnerInv /\ Service!Init
    OBVIOUS
  <2>1. ASSUME NEW c \in Calls
        PROVE  lock[CtxOf[c]] # c /\ PhaseOf(c) = "new" /\ AnswerOf(c) = "none"
    <3>1. lock[CtxOf[c]] = NoCall /\ dret[c] = "unset" /\ pc[c] = "idle" /\ work[c] = "none"
      BY LoadcodeAssumption DEF Init, InitWith
    <3>2. lock[CtxOf[c]] # c
      BY <3>1, LoadcodeAssumption
    <3>3. PhaseOf(c) = "new"
      BY <3>1, <3>2, PhaseIf
    <3>4. AnswerOf(c) = "none"
      BY DEF Init, InitWith, AnswerOf
    <3> QED
      BY <3>2, <3>3, <3>4
  <2>2. dret = [c \in Calls |-> "unset"]
    BY DEF Init, InitWith
  <2> QED
    BY <2>1, <2>2 DEF OwnerInv, Service!Init
<1>2. FullInv /\ OwnerInv /\ [Next]_vars => OwnerInv' /\ [Service!Next]_(Service!serviceVars)
  <2> SUFFICES ASSUME FullInv, OwnerInv, [Next]_vars
               PROVE  OwnerInv' /\ [Service!Next]_(Service!serviceVars)
    OBVIOUS
  <2>1. [PlainNext]_vars
    BY PlainStep
  <2>2. Inv /\ Inv' /\ LifeInv
    BY TypeStep, QueueStep, LockStep DEF FullInv, Inv
  <2> QED
    BY <2>1, <2>2, OwnerStep, RefineStep
<1> QED
  BY <1>1, <1>2, Lives, PTL DEF Spec, ImplementsService, Service!Spec
=============================================================================
