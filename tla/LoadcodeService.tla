-------------------------- MODULE LoadcodeService ---------------------------
(* Loadcode implements LuaService: the refinement mapping.                  *)
EXTENDS Loadcode

\* A call runs from taking the context's mutex until its outcome is stored.
PhaseOf(c) ==
    CASE dret[c] # "unset"                   -> "ran"
      [] dret[c] = "unset" /\ lock[CtxOf[c]] = c -> "running"
      [] dret[c] = "unset" /\ lock[CtxOf[c]] # c
         /\ (pc[c] = "lock" \/ work[c] # "none") -> "accepted"
      [] OTHER                               -> "new"

\* The client of a job that is not waited for is told by the callback, if it
\* has one, or by the error return; every other client by the return value.
AnswerOf(c) ==
    IF api[c] \in {"loadcode_nores", "async", "async_nores", "openlib"}
       /\ ret[c] # "enomem"
    THEN IF cbs[c] > 0 THEN dret[c] ELSE "none"
    ELSE ret[c]

Service == INSTANCE LuaService WITH
              Outcomes <- Outcome \ {"unset"},
              phase    <- [c \in Calls |-> PhaseOf(c)],
              outcome  <- dret,
              answer   <- [c \in Calls |-> AnswerOf(c)]

\* As long as no signal interrupts a waiting caller, every function of
\* lunatik.c gives its clients the service LuaService describes: refused only
\* for lack of memory, run once and alone, answered with the run's outcome
\* (lunatik_loadcode, _direct, _sync by return value, _async and _async_nores
\* by callback).
ImplementsService == Service!Spec
=============================================================================
