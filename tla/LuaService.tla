----------------------------- MODULE LuaService -----------------------------
(***************************************************************************)
(* What lunatik promises a user of its loadcode functions, without work    *)
(* items, queues, semaphores or memory: a call is accepted or refused, its *)
(* code runs once and alone in its context, and whoever is told an outcome *)
(* is told the outcome of that run, after it.                              *)
(***************************************************************************)
CONSTANTS Calls, CtxOf, Outcomes

VARIABLES phase,    \* new, accepted, running or ran
          outcome,  \* what running the code came to
          answer    \* what the client was told

serviceVars == <<phase, outcome, answer>>

Init == /\ phase = [c \in Calls |-> "new"]
        /\ outcome = [c \in Calls |-> "unset"]
        /\ answer = [c \in Calls |-> "none"]

Accept(c) ==
    /\ phase[c] = "new"
    /\ answer[c] = "none"
    /\ phase' = [phase EXCEPT ![c] = "accepted"]
    /\ UNCHANGED <<outcome, answer>>

\* The only reason to refuse a call is a lack of memory.
Refuse(c) ==
    /\ phase[c] = "new"
    /\ answer[c] = "none"
    /\ answer' = [answer EXCEPT ![c] = "enomem"]
    /\ UNCHANGED <<phase, outcome>>

Start(c) ==
    /\ phase[c] = "accepted"
    /\ \A other \in Calls : CtxOf[other] = CtxOf[c] => phase[other] # "running"
    /\ phase' = [phase EXCEPT ![c] = "running"]
    /\ UNCHANGED <<outcome, answer>>

Finish(c) ==
    /\ phase[c] = "running"
    /\ \E o \in Outcomes : outcome' = [outcome EXCEPT ![c] = o]
    /\ phase' = [phase EXCEPT ![c] = "ran"]
    /\ UNCHANGED answer

Answer(c) ==
    /\ phase[c] = "ran"
    /\ answer[c] = "none"
    /\ answer' = [answer EXCEPT ![c] = outcome[c]]
    /\ UNCHANGED <<phase, outcome>>

Next == \E c \in Calls : Accept(c) \/ Refuse(c) \/ Start(c) \/ Finish(c) \/ Answer(c)

Spec == Init /\ [][Next]_serviceVars
=============================================================================
