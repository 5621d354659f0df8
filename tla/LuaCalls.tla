------------------------------ MODULE LuaCalls ------------------------------
(***************************************************************************)
(* Calls, errors and coroutines of one Lua thread (ldo.c).                 *)
(*                                                                         *)
(* Three stacks have to agree: the CallInfo array (L.ci), the Lua stack,   *)
(* of which only the positions matter here (L.top, the bounds of every     *)
(* CallInfo and the size of the array), and the C stack (cs), which        *)
(* longjmp and yields cut short.  A frame of cs is a C activation that     *)
(* waits for the one above it; the last one is what runs:                  *)
(*                                                                         *)
(*   exec     luaV_execute, with its nexeccalls      cfun   a C function   *)
(*   enter    luaD_call, before luaD_precall         call   and after it   *)
(*   tm       a tag method or finalizer was called   pcall  luaD_pcall     *)
(*   error    luaG_runerror or luaG_errormsg         resume lua_resume     *)
(*   handler  luaG_errormsg, calling the handler     close  lua_close      *)
(*   throw    luaD_throw                                                   *)
(*                                                                         *)
(* When cs is empty the kernel code that owns the Lua state runs.  Lua     *)
(* programs and C functions do any call at any time; which one is called   *)
(* is chosen from Callees.  Debug hooks are not modelled.                  *)
(***************************************************************************)
EXTENDS Integers, Sequences, FiniteSets

CONSTANTS Callees,     \* what a call may find: [kind, tm, va, np, size]
          MaxCCalls,   \* LUAI_MAXCCALLS
          ExtraCCalls, \* LUAI_MAXCCALLS >> 3, left for error handlers
          MaxCalls,    \* LUAI_MAXCALLS
          BasicCI,     \* BASIC_CI_SIZE
          MinStack,    \* LUA_MINSTACK
          Extra,       \* EXTRA_STACK
          MaxWork,     \* bound: activations in a behaviour
          MaxSize,     \* bound: slots of the stack array
          Handlers,    \* error handlers: "none", "ok" (a function) or "bad"
          MaxFails,    \* bound: how many allocations may fail
          MaxUdata,    \* bound: userdata with finalizers
          Reused       \* whether the owner calls functions on a thread it has resumed

MULTRET == -1
None == -1

ASSUME LuaCallsAssumption ==
       /\ Callees \subseteq [kind : {"Lua", "C", "other"}, tm : BOOLEAN, va : BOOLEAN,
                             np : Nat, size : Nat]
       /\ MaxCCalls \in Nat \ {0} /\ ExtraCCalls \in Nat /\ MaxCalls \in Nat
       /\ BasicCI \in Nat \ {0} /\ MinStack \in Nat /\ Extra \in Nat
       /\ MaxWork \in Nat /\ MaxSize \in Nat /\ Handlers \subseteq {"none", "ok", "bad"} /\ MaxFails \in Nat
       /\ MaxUdata \in Nat /\ Reused \in BOOLEAN

VARIABLES L,        \* the lua_State
          cs,       \* the C stack
          fails,    \* history: allocations that failed
          tmudata,  \* how many finalizers are left to call
          overrun,  \* history: something was written past the stack array
          calls,    \* how many activations there have been
          ended     \* "no", "panic" or "closed"

vars == <<L, cs, fails, tmudata, overrun, calls, ended>>

TopFrame == cs[Len(cs)]
At(t) == ended = "no" /\ cs # << >> /\ TopFrame.t = t
Idle == ended = "no" /\ cs = << >>
InC == Idle \/ At("cfun")

Frame(t) == [t |-> t]
Replace(f) == [cs EXCEPT ![Len(cs)] = f]
Pop == SubSeq(cs, 1, Len(cs) - 1)

CI(S) == S.ci[Len(S.ci)]
StackLast(S) == S.size - Extra - 1
Larger(a, b) == IF a > b THEN a ELSE b

\* stack_init and preinit_state
NewState ==
    [ci |-> <<[kind |-> "base", func |-> 0, base |-> 1, top |-> 1 + MinStack,
               nres |-> 0, tail |-> 0]>>,
     top |-> 1, size |-> 2 * MinStack + Extra, sizeci |-> BasicCI, open |-> None,
     ccalls |-> 0, baseccalls |-> 0, status |-> "ok", errfunc |-> "none", upvals |-> {}]

Init ==
    /\ L = NewState
    /\ cs = << >>
    /\ fails = 0 /\ tmudata = MaxUdata /\ overrun = FALSE
    /\ calls = 0 /\ ended = "no"

-----------------------------------------------------------------------------
(* Room on the stack and in the CallInfo array.                            *)


NeedsRoom(S, n) == StackLast(S) - S.top <= n

GrowStack(S, n) ==
    [S EXCEPT !.size = (IF n <= S.size THEN 2 * S.size ELSE S.size + n) + 1 + Extra]

CheckStack(S, n) == IF NeedsRoom(S, n) THEN GrowStack(S, n) ELSE S

CloseNoUpvals(S, level) == S

\* luaF_close: the upvalues at level and above are closed
CloseUpvals(S, level) == [S EXCEPT !.upvals = {u \in S.upvals : u.slot < level}]
RestoreStackLimit(S) ==
    IF S.sizeci > MaxCalls /\ Len(S.ci) < MaxCalls THEN [S EXCEPT !.sizeci = MaxCalls] ELSE S

\* Result of a step that may fail: the state, how it ended, and how many slots
\* past the end of the array (as large as it was then) the step has written.
Result(S, res, past) == [S |-> S, res |-> res, past |-> past]

\* inc_ci and growCI
IncCI(S, frame, res, oom) ==
    LET grown == [S EXCEPT !.sizeci = 2 * @]
        push(T) == [T EXCEPT !.ci = Append(@, frame)]
    IN  IF Len(S.ci) < S.sizeci THEN Result(push(S), res, frame.top - S.size)
        ELSE IF S.sizeci > MaxCalls THEN Result(S, "err", 0)
        ELSE IF oom THEN Result(S, "mem", 0)
        ELSE IF grown.sizeci > MaxCalls THEN Result(grown, "run", 0)
        ELSE Result(push(grown), res, frame.top - S.size)

-----------------------------------------------------------------------------
(* luaD_precall and luaD_poscall.                                          *)

\* The CallInfo of a Lua function called at func; adjust_varargs moves the
\* fixed parameters (and the table arg) above the arguments.
LuaFrame(S, func, c, nres) ==
    LET nargs == S.top - func - 1
        base  == IF c.va THEN S.top + Larger(0, c.np - nargs) ELSE func + 1
    IN  [kind |-> "Lua", func |-> func, base |-> base, top |-> base + c.size,
         nres |-> nres, tail |-> 0]

CFrame(S, func, nres) ==
    [kind |-> "C", func |-> func, base |-> func + 1, top |-> S.top + MinStack,
     nres |-> nres, tail |-> 0]

\* tryfuncTM puts the tag method under the object that was called.
TryFuncTM(S, c) ==
    IF c.tm THEN LET T == CheckStack(S, 1) IN [T EXCEPT !.top = @ + 1] ELSE S

\* The arguments of a Lua function: those that are too many are dropped, or
\* the fixed parameters of a vararg function are moved to the top.
AdjustArgs(S, func, c) ==
    [S EXCEPT !.top = IF c.va THEN LuaFrame(S, func, c, 0).base + c.np
                      ELSE IF @ > func + 1 + c.np THEN func + 1 + c.np ELSE @]

\* The first allocation that the step needs may fail (oom).
Precall(S0, func, c, nres, oom) ==
    LET S1   == TryFuncTM(S0, c)
        lua  == c.kind = "Lua"
        need == IF lua THEN c.size ELSE MinStack
        S2   == CheckStack(S1, need)
        S3   == IF lua THEN AdjustArgs(S2, func, c) ELSE S2
        new  == IF lua THEN LuaFrame(S2, func, c, nres) ELSE CFrame(S2, func, nres)
        r    == IncCI(S3, new, c.kind, oom)
        hole == S1.top - S0.size
    IN  IF c.kind = "other" THEN Result(S0, "run", 0)
        ELSE IF oom /\ c.tm /\ NeedsRoom(S0, 1) THEN Result(S0, "mem", hole)
        ELSE IF oom /\ NeedsRoom(S1, need) THEN Result(S1, "mem", hole)
        ELSE IF lua /\ r.res = "Lua"
          THEN [r EXCEPT !.S.top = new.top, !.S.open = None, !.past = Larger(@, hole)]
          ELSE [r EXCEPT !.past = Larger(Larger(@, hole), S3.top - S3.size)]

\* The frame returns the n values below the top.
Poscall(S, n) ==
    LET ci == CI(S)
    IN  [S EXCEPT !.ci = SubSeq(@, 1, Len(@) - 1),
                  !.top = ci.func + (IF ci.nres = MULTRET THEN n ELSE ci.nres)]

\* A Lua function goes on after the OP_CALL of ci: its top is back at ci->top,
\* unless the results are open (from L.open to the top).
AfterCall(S, ci) ==
    IF ci.nres = MULTRET THEN [S EXCEPT !.open = ci.func]
    ELSE [S EXCEPT !.top = CI(S).top, !.open = None]

-----------------------------------------------------------------------------
(* How a step ends.  ok is the C stack if nothing went wrong; "run" calls  *)
(* luaG_runerror, "err" and "mem" call luaD_throw.                         *)

Ends(r, ok, raised, oom) ==
    /\ r.S.size <= MaxSize
    /\ calls' = IF r.res \in {"Lua", "C"} THEN calls + 1 ELSE calls
    /\ calls' <= MaxWork
    /\ L' = r.S
    /\ overrun' = (overrun \/ r.past > 0)
    /\ cs' = CASE r.res \in {"run"} -> Append(raised, [t |-> "error", msg |-> TRUE])
               [] r.res \in {"err", "mem"} -> Append(raised, [t |-> "throw", code |-> r.res])
               [] OTHER -> ok
    /\ IF oom THEN r.res = "mem" /\ fails < MaxFails /\ fails' = fails + 1
       ELSE fails' = fails
    /\ UNCHANGED <<tmudata, ended>>

\* A step that only changes L, writing up to the new top, and the C stack.
Does(S, stack) == Ends(Result(S, "ok", S.top - S.size), stack, stack, FALSE)

-----------------------------------------------------------------------------
(* luaD_call.                                                              *)

Enter(c, oom) ==
    LET f == TopFrame
        S == [L EXCEPT !.ccalls = @ + 1]
        r == IF S.ccalls = MaxCCalls THEN Result(S, "run", 0)
             ELSE IF S.ccalls >= MaxCCalls + ExtraCCalls THEN Result(S, "err", 0)
             ELSE Precall(S, f.func, c, f.nres, oom)
        here == Replace(Frame("call"))
    IN  /\ At("enter")
        /\ Ends(r, Append(here, IF c.kind = "Lua" THEN [t |-> "exec", n |-> 1]
                                ELSE Frame("cfun")), here, oom)

CallReturns == At("call") /\ Does([L EXCEPT !.ccalls = @ - 1], Pop)

-----------------------------------------------------------------------------
(* Instructions of a Lua function.  The function that is called is in      *)
(* register 1 with one argument, or just below open results.               *)

Base == CI(L).base
Open == L.open # None
CallArgs == IF Open THEN L ELSE [L EXCEPT !.top = Base + 3]
CallFunc == IF Open THEN L.open - 1 ELSE Base + 1

OpCall(c, nres, oom) ==
    LET r == Precall(CallArgs, CallFunc, c, nres, oom)
    IN  /\ At("exec") /\ CallFunc >= Base
        /\ Ends(r, IF c.kind = "Lua" THEN Replace([TopFrame EXCEPT !.n = @ + 1])
                   ELSE Append(cs, Frame("cfun")), cs, oom)

\* The new frame replaces the one that makes the tail call.
MoveFrameDown(S) ==
    LET new == CI(S)
        old == S.ci[Len(S.ci) - 1]
        T   == CloseUpvals(S, old.base)
        top == old.func + (S.top - new.func)
    IN  [T EXCEPT !.ci = Append(SubSeq(@, 1, Len(@) - 2),
                                [old EXCEPT !.base = old.func + (new.base - new.func),
                                            !.top = top, !.tail = @ + 1]),
                  !.top = top]

OpTailCall(c, oom) ==
    LET r == Precall(CallArgs, CallFunc, c, MULTRET, oom)
        s == IF r.res = "Lua" THEN [r EXCEPT !.S = MoveFrameDown(r.S)] ELSE r
    IN  /\ At("exec") /\ CallFunc >= Base
        /\ CI(L).tail = 0    \* bound: tail calls of an activation
        /\ Ends(s, IF c.kind = "Lua" THEN cs ELSE Append(cs, Frame("cfun")), cs, oom)

\* OP_RETURN of one value, or of the open results
OpReturn ==
    LET S == Poscall(CloseUpvals(L, Base), IF Open THEN L.top - L.open ELSE 1)
    IN  /\ At("exec")
        /\ IF TopFrame.n = 1 THEN Does([S EXCEPT !.open = None], Pop)
           ELSE Does(AfterCall(S, CI(L)), Replace([TopFrame EXCEPT !.n = @ - 1]))

\* OP_VARARG with open results
OpVararg(oom) ==
    LET n == CI(L).base - CI(L).func - 2
        T == CheckStack(L, n)
    IN  /\ At("exec") /\ ~Open
        /\ n > 0
        /\ IF oom /\ NeedsRoom(L, n) THEN Ends(Result(L, "mem", 0), cs, cs, oom)
           ELSE Ends(Result([T EXCEPT !.top = Base + 1 + n, !.open = Base + 1], "ok",
                            Base + 1 + n - T.size), cs, cs, oom)

\* OP_CLOSURE captures register 0 (luaF_findupval).
OpClosure ==
    /\ At("exec") /\ ~Open
    /\ \A u \in L.upvals : u.slot # Base
    /\ Does([L EXCEPT !.upvals = @ \cup {[slot |-> Base, depth |-> Len(L.ci),
                                          tail |-> CI(L).tail]}], cs)

OpError == At("exec") /\ ~Open /\ Ends(Result(L, "run", 0), cs, cs, FALSE)

\* callTM (4 slots), callTMres (3), GCTM (2, without luaD_checkstack): the
\* slots are written before luaD_checkstack.
CallTM(n, oom) ==
    LET T == IF n = 2 THEN L ELSE CheckStack(L, n)
        frame == [t |-> "tm", res |-> n = 3]
        enter == [t |-> "enter", func |-> L.top, nres |-> IF n = 3 THEN 1 ELSE 0]
    IN  /\ At("exec") /\ ~Open
        /\ IF oom /\ n # 2 /\ NeedsRoom(L, n) THEN Ends(Result(L, "mem", L.top + n - L.size), cs, cs, oom)
           ELSE Ends(Result([T EXCEPT !.top = @ + n], "ok", L.top + n - L.size),
                     cs \o <<frame, enter>>, cs, oom)

TMReturns == At("tm") /\ Does([L EXCEPT !.top = IF TopFrame.res THEN @ - 1 ELSE @], Pop)

-----------------------------------------------------------------------------
(* The C API, used by C functions and by the owner of the state.           *)

Fits(n) == L.top + n <= CI(L).top

\* Bound: C code makes a call when at most one value is in its frame.
Tidy == L.top <= CI(L).base + 1

Call(nres) ==
    /\ At("cfun")
    /\ Fits(2) /\ Tidy
    /\ Does([L EXCEPT !.top = @ + 2],
            Append(cs, [t |-> "enter", func |-> L.top, nres |-> nres]))

\* lua_pcall; the handler, if there is one, is pushed before the function
Pcall(nres, handler) ==
    LET func == L.top + (IF handler = "none" THEN 0 ELSE 1)
        frame == [t |-> "pcall", top |-> func, ci |-> Len(L.ci), ccalls |-> L.ccalls,
                  errfunc |-> L.errfunc, nres |-> nres]
    IN  /\ InC /\ L.status = "ok"
        /\ Idle => L.baseccalls = 0 \/ Reused
        /\ Fits(3) /\ Tidy
        /\ Does([L EXCEPT !.top = func + 2, !.errfunc = handler],
                cs \o <<frame, [t |-> "enter", func |-> func, nres |-> nres]>>)

\* The C code drops what a call left, keeping its frame as it was.
AdjustResults(S, nres) ==
    IF nres = MULTRET /\ S.top >= CI(S).top
    THEN [S EXCEPT !.ci[Len(S.ci)].top = S.top] ELSE S

PcallReturns ==
    At("pcall") /\ Does(AdjustResults([L EXCEPT !.errfunc = TopFrame.errfunc], TopFrame.nres), Pop)

\* lua_settop
SetTop(n) ==
    /\ InC /\ L.status = "ok"
    /\ L.top # CI(L).base + n
    /\ n <= StackLast(L) - CI(L).base
    /\ Does([L EXCEPT !.top = CI(L).base + n], cs)

\* lua_checkstack
ApiCheckStack(n, oom) ==
    LET T == CheckStack(L, n)
        new == [T EXCEPT !.ci[Len(T.ci)].top = Larger(@, T.top + n)]
    IN  /\ InC /\ L.status = "ok"
        /\ ~Fits(n) /\ Tidy
        /\ L.top - CI(L).base + n <= 2 * MinStack     \* LUAI_MAXCSTACK
        /\ oom => At("cfun")
        /\ IF oom /\ NeedsRoom(L, n) THEN Ends(Result(L, "mem", 0), cs, cs, oom)
           ELSE Ends(Result(new, "ok", 0), cs, cs, oom)

\* lua_error
Error ==
    /\ At("cfun") /\ L.top > CI(L).base
    /\ Does(L, Append(cs, [t |-> "error", msg |-> FALSE]))

\* A C function returns its last value, if it has one.
Return ==
    LET S == Poscall(L, IF L.top > CI(L).base THEN 1 ELSE 0)
        below == cs[Len(cs) - 1]
    IN  /\ At("cfun")
        /\ Does(IF below.t = "exec" THEN AfterCall(S, CI(L)) ELSE S, Pop)

-----------------------------------------------------------------------------
(* Errors.                                                                 *)

\* luaG_runerror pushes its message, luaG_errormsg calls the handler.
RunError(oom) ==
    LET S == IF TopFrame.msg THEN [CheckStack(L, 1) EXCEPT !.top = L.top + 1] ELSE L
        T == CheckStack(S, 1)
        here == Replace(Frame("handler"))
    IN  /\ At("error")
        /\ IF oom THEN TopFrame.msg /\ Ends(Result(L, "mem", 0), cs, Pop, oom)
           ELSE IF L.errfunc = "none"
             THEN Ends(Result(S, "ok", S.top - L.size), Replace([t |-> "throw", code |-> "run"]), cs, oom)
           ELSE IF L.errfunc = "bad" THEN Ends(Result(S, "err", S.top - L.size), cs, Pop, oom)
           ELSE Ends(Result([T EXCEPT !.top = @ + 1], "ok", S.top + 1 - S.size),
                     Append(here, [t |-> "enter", func |-> S.top - 1, nres |-> 1]), cs, oom)

HandlerReturns == At("handler") /\ Does(L, Replace([t |-> "throw", code |-> "run"]))

Catchers == {i \in 1..Len(cs) : cs[i].t \in {"pcall", "resume", "close"}}
Catcher == CHOOSE i \in Catchers : \A j \in Catchers : j <= i
Caught(t) == At("throw") /\ Catchers # {} /\ cs[Catcher].t = t

RecoverKeepCI(S, p) ==
    RestoreStackLimit(
        [CloseUpvals(S, p.top) EXCEPT !.top = p.top + 1, !.ccalls = p.ccalls,
                                      !.errfunc = p.errfunc])

RecoverKeepCalls(S, p) ==
    RestoreStackLimit(
        [CloseUpvals(S, p.top) EXCEPT !.top = p.top + 1,
                                      !.ci = SubSeq(@, 1, p.ci), !.errfunc = p.errfunc])

\* luaD_pcall after an error
Recover(S, p) ==
    RestoreStackLimit(
        [CloseUpvals(S, p.top) EXCEPT !.top = p.top + 1, !.ccalls = p.ccalls,
                                      !.ci = SubSeq(@, 1, p.ci), !.errfunc = p.errfunc])

CaughtByPcall ==
    /\ Caught("pcall")
    /\ LET p == cs[Catcher]
       IN  Does(AdjustResults([Recover(L, p) EXCEPT !.open = None], p.nres),
                SubSeq(cs, 1, Catcher - 1))

\* There is no memory for the message "error in error handling": the error
\* goes on to the next protected call, with L not yet restored.
RecoveryFails ==
    /\ Caught("pcall") /\ TopFrame.code = "err"
    /\ Ends(Result(CloseUpvals(L, cs[Catcher].top), "mem", 0), cs,
            SubSeq(cs, 1, Catcher - 1), TRUE)

CaughtByResume ==
    /\ Caught("resume")
    /\ LET S == [L EXCEPT !.status = "dead", !.top = @ + 1, !.ccalls = @ - 1]
       IN  Does([S EXCEPT !.ci[Len(S.ci)].top = S.top], SubSeq(cs, 1, Catcher - 1))

\* Nobody catches the error: luaD_throw resets the stack, calls panic and, as
\* exit() is defined as return, returns to the code that raised the error.
Panic ==
    /\ At("throw") /\ Catchers = {}
    /\ L' = RestoreStackLimit([CloseUpvals(L, 1) EXCEPT
                !.ci = <<@[1]>>, !.top = 2, !.ccalls = L.baseccalls, !.errfunc = "none",
                !.status = "dead"])
    /\ ended' = "panic"
    /\ UNCHANGED <<cs, fails, tmudata, overrun, calls>>

-----------------------------------------------------------------------------
(* Coroutines.                                                             *)

\* lua_resume of a new coroutine, whose body is a Lua function
Start(c, oom) ==
    LET S == [L EXCEPT !.top = @ + 2, !.ccalls = @ + 1, !.baseccalls = L.ccalls + 1]
        here == Append(cs, Frame("resume"))
        r == Precall(S, L.top, c, MULTRET, oom)
    IN  /\ Idle /\ L.status = "ok" /\ Len(L.ci) = 1
        /\ L.errfunc = "none" /\ Fits(2) /\ Tidy
        /\ c.kind = "Lua"
        /\ Ends(r, Append(here, [t |-> "exec", n |-> 1]), here, oom)

\* lua_resume after a yield: the call of the C function that yielded ends
Resume ==
    LET S == [AfterCall(Poscall([L EXCEPT !.top = @ + 1], 1), CI(L)) EXCEPT
                  !.ccalls = @ + 1, !.baseccalls = L.ccalls + 1, !.status = "ok"]
    IN  /\ Idle /\ L.status = "yield"
        /\ Does(S, <<Frame("resume"), [t |-> "exec", n |-> Len(S.ci) - 1]>>)

\* lua_resume of a thread that is running: resume_error
ResumeRunning ==
    /\ At("cfun")
    /\ Does([CheckStack([L EXCEPT !.top = CI(L).base], 1) EXCEPT !.top = @ + 1], cs)

ResumeReturns == At("resume") /\ Does([L EXCEPT !.ccalls = @ - 1], Pop)

\* The C function that yielded and luaV_execute, if it called it, return.
Unwound == IF cs[Len(cs) - 1].t = "exec" THEN SubSeq(cs, 1, Len(cs) - 2) ELSE Pop

YieldAnywhere ==
    /\ At("cfun") /\ L.top > CI(L).base
    /\ Does([L EXCEPT !.status = "yield"], Unwound)

Yield ==
    /\ At("cfun") /\ L.top > CI(L).base
    /\ IF L.ccalls > L.baseccalls THEN Ends(Result(L, "run", 0), cs, cs, FALSE)
       ELSE Does([L EXCEPT !.status = "yield"], Unwound)

-----------------------------------------------------------------------------
(* The collector and lua_close.                                            *)

\* traversestack, called at any time, shrinks what is too large.
Shrink ==
    LET used == CHOOSE m \in {L.top} \cup {L.ci[i].top : i \in 1..Len(L.ci)} :
                    /\ L.top <= m
                    /\ \A i \in 1..Len(L.ci) : L.ci[i].top <= m
        ci   == IF 4 * (Len(L.ci) - 1) < L.sizeci /\ 2 * BasicCI < L.sizeci
                THEN L.sizeci \div 2 ELSE L.sizeci
        size == IF 4 * used < L.size /\ 2 * (2 * MinStack + Extra) < L.size
                THEN L.size \div 2 + 1 + Extra ELSE L.size
    IN  /\ Idle \/ At("exec") \/ At("cfun")
        /\ L.sizeci <= MaxCalls
        /\ <<ci, size>> # <<L.sizeci, L.size>>
        /\ Does([L EXCEPT !.sizeci = ci, !.size = size], cs)

\* Every round of lua_close starts from the base of the stack.
Reset(S) ==
    [S EXCEPT !.ci = <<@[1]>>, !.top = 1, !.ccalls = 0, !.baseccalls = 0, !.open = None]

Close ==
    /\ Idle
    /\ L.status = "ok" /\ L.baseccalls = 0
    /\ L' = [Reset(CloseUpvals(L, 0)) EXCEPT !.errfunc = "none"]
    /\ cs' = <<Frame("close")>>
    /\ UNCHANGED <<fails, tmudata, overrun, calls, ended>>

\* GCTM takes the userdata off the list before it calls the finalizer.
CloseFinalizes ==
    /\ At("close") /\ tmudata > 0
    /\ tmudata' = tmudata - 1
    /\ L' = [L EXCEPT !.top = @ + 2]
    /\ overrun' = (overrun \/ L.top + 2 > L.size)
    /\ cs' = Append(cs, [t |-> "enter", func |-> L.top, nres |-> 0])
    /\ UNCHANGED <<fails, calls, ended>>

CaughtByClose == Caught("close") /\ Does(Reset(L), <<Frame("close")>>)

CloseEnds ==
    /\ At("close") /\ tmudata = 0
    /\ ended' = "closed"
    /\ UNCHANGED <<L, cs, fails, tmudata, overrun, calls>>

-----------------------------------------------------------------------------
Next ==
    \/ \E oom \in BOOLEAN :
          \/ \E c \in Callees : Enter(c, oom) \/ OpTailCall(c, oom) \/ Start(c, oom)
          \/ \E c \in Callees, nres \in {1, MULTRET} : OpCall(c, nres, oom)
          \/ OpVararg(oom) \/ RunError(oom)
          \/ \E n \in 2..4 : CallTM(n, oom)
          \/ ApiCheckStack(MinStack, oom)
    \/ CallReturns \/ TMReturns \/ PcallReturns \/ HandlerReturns \/ ResumeReturns
    \/ OpReturn \/ OpClosure \/ OpError
    \/ Call(1) \/ \E h \in Handlers : Pcall(IF h = "none" THEN MULTRET ELSE 1, h)
    \/ SetTop(0) \/ Error \/ Return
    \/ CaughtByPcall \/ RecoveryFails \/ CaughtByResume \/ Panic
    \/ Resume \/ ResumeRunning \/ Yield
    \/ Shrink \/ Close \/ CloseFinalizes \/ CaughtByClose \/ CloseEnds

Spec == Init /\ [][Next]_vars

-----------------------------------------------------------------------------
(* Properties.                                                             *)

\* What the C stack says the CallInfo array must hold.
Owned(f) == CASE f.t = "exec" -> [i \in 1..f.n |-> "Lua"]
              [] f.t = "cfun" -> <<"C">>
              [] OTHER -> << >>

Closing == cs # << >> /\ cs[1].t = "close"
Throwing == cs # << >> /\ TopFrame.t = "throw"

\* The CallInfo array and the C stack agree: every luaV_execute owns as many
\* Lua functions as its nexeccalls says and every C function has its own
\* CallInfo, through errors, overflows, tail calls and yields.  (So the
\* lua_assert(isLua(L->ci)) of luaV_execute holds, and OP_RETURN leaves
\* luaV_execute exactly when its first function returns.)
FramesMatch ==
    cs # << >> /\ (L.status = "ok" \/ Closing) /\ ended = "no" /\ ~Throwing =>
        LET kinds[i \in 0..Len(cs)] == IF i = 0 THEN <<"base">> ELSE kinds[i - 1] \o Owned(cs[i])
        IN  kinds[Len(cs)] = [i \in 1..Len(L.ci) |-> L.ci[i].kind]

\* nCcalls is the number of luaD_call and lua_resume activations on the C
\* stack, whatever was cut off by longjmp: no error leaks a level and the
\* limit LUAI_MAXCCALLS means what it says.
CCallsCount ==
    (L.status # "dead" \/ Closing) /\ ended = "no" /\ ~Throwing =>
        L.ccalls = Cardinality({i \in 1..Len(cs) : cs[i].t \in {"call", "resume"}})

\* A yield never leaves a C function half-way: nothing but lua_resume is on
\* the C stack when it has happened.
YieldUnwinds ==
    L.status = "yield" /\ ~Closing => cs \in {<< >>, <<Frame("resume")>>}

\* An open upvalue belongs to an activation that is still there, the one that
\* created it (not one that a tail call put in its place).  lua_close is an
\* exception: it does not close the upvalues of a finalizer that failed.
UpvalsOwned ==
    ~Closing => \A u \in L.upvals : /\ u.depth <= Len(L.ci)
                                    /\ L.ci[u.depth].base = u.slot
                                    /\ L.ci[u.depth].tail = u.tail

=============================================================================
