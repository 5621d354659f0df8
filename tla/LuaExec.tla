------------------------------ MODULE LuaExec ------------------------------
(***************************************************************************)
(* A program is compiled (LuaParser, LuaCode) and run by luaV_execute      *)
(* (lvm.c), one instruction a step.                                        *)
(*                                                                         *)
(* What a program does is what its environment sees of it: calls of        *)
(* functions that are not Lua functions of the program, reads and writes   *)
(* of tables it did not make, assignments to globals, errors and the       *)
(* values it returns.  The environment answers a call or a read with two   *)
(* numbers or with nothing.  Meaning, below, says what a program must do,  *)
(* from its syntax tree alone.                                             *)
(*                                                                         *)
(* Every frame has registers of its own: what the callee leaves in the     *)
(* registers it shares with the caller is Junk.  Upvalues are cells        *)
(* shared by closures, open (in a register) or closed.                     *)
(***************************************************************************)
EXTENDS LuaParser, LuaMeaning, FiniteSets

CONSTANTS Programs,   \* syntax trees (LuaParser)
          MaxInputs,  \* bound: answers the environment gives
          MaxCells,   \* bound: upvalues a program makes
          Slack       \* bound: open results beyond the registers of a function

ASSUME LuaExecAssumption == {MaxInputs, MaxCells, Slack} \subseteq Nat

VARIABLES prog,    \* the program
          phase,   \* "source", "running", "halted", "stopped" (the bound) or "error"
          main,    \* the FuncState of the compiled main function
          frames,  \* the activations of Lua functions
          upvals,  \* upvalues: [depth, reg, open, v]
          given,   \* history: the answers of the environment
          log      \* history: what the environment has seen

vars == <<prog, phase, main, frames, upvals, given, log>>

Junk == <<"junk">>
Init ==
    /\ prog \in Programs
    /\ phase = "source"
    /\ main = << >> /\ frames = << >> /\ upvals = << >> /\ given = << >> /\ log = << >>

\* luaD_precall for a Lua function; a vararg function may have a table arg
NewFrame(p, cells, args, nres, dest) ==
    LET n    == p.np
        arg  == IF p.needsarg THEN TableOf({<<Num(i), args[n + i]>> : i \in 1..Len(args) - n})
                ELSE Nil
        in   == IF p.hasarg THEN Append(Adjust(args, n), arg) ELSE Adjust(args, n)
    IN  [p |-> p, cells |-> cells, pc |-> 0, top |-> -1, nres |-> nres, dest |-> dest,
         va |-> IF p.va THEN SubSeq(args, n + 1, Len(args)) ELSE << >>,
         r |-> [i \in 0..p.maxstack + Slack |-> IF i < Len(in) THEN in[i + 1] ELSE Nil]]

\* f_parser and the call of the main function; an error leaves no function
Start(F) ==
    /\ main' = F
    /\ phase' = IF F.failed THEN "error" ELSE "running"
    /\ frames' = <<NewFrame(Proto(F), << >>, VarArgs, MultRet, 0)>>
    /\ UNCHANGED <<prog, upvals, given, log>>
Compile == phase = "source" /\ Start(Parser(prog))

-----------------------------------------------------------------------------
(* The machine: the frame that runs, its instruction and its operands.     *)

Depth == Len(frames)
Fr == frames[Depth]
I == Fr.p.code[Fr.pc + 1]
R(x) == Fr.r[x]
K(x) == Fr.p.k[x + 1]
RKOf(x) == IF x >= BitRK THEN K(x - BitRK) ELSE R(x)
Runs(ops) == phase = "running" /\ I.op \in ops

Put(f, reg, v) == [f EXCEPT !.r[reg] = v]
Skip(f, n) == [f EXCEPT !.pc = @ + 1 + n]
Top(f) == [frames EXCEPT ![Depth] = f]

\* the jump that follows a test is at pc + 1
TestJump(f, holds) ==
    IF holds THEN Skip(f, 1 + f.p.code[f.pc + 2].b) ELSE Skip(f, 1)

Goes(f) == frames' = Top(f) /\ UNCHANGED <<prog, phase, main, upvals, given, log>>

\* The results vs of a call go to register dest and above; the rest of the
\* registers there was used by the callee.
Results(f, dest, nres, vs) ==
    LET n == IF nres = MultRet THEN Len(vs) ELSE nres
        w == Adjust(vs, n)
    IN  [f EXCEPT !.r = [i \in DOMAIN f.r |-> IF i < dest THEN f.r[i]
                                              ELSE IF i < dest + n THEN w[i - dest + 1] ELSE Junk],
                  !.top = IF nres = MultRet THEN dest + n ELSE -1]

\* The environment sees an event and may answer it.
Sees(event) == log' = Append(log, event)
Asks(event, after(_)) ==
    /\ Sees(event)
    /\ \/ /\ Len(given) < MaxInputs
          /\ \E yes \in BOOLEAN :
                /\ given' = Append(given, yes)
                /\ frames' = Top(after(Answer(Len(given) + 1, yes)))
          /\ phase' = phase
       \/ Len(given) = MaxInputs /\ phase' = "stopped" /\ UNCHANGED <<given, frames>>
    /\ UNCHANGED <<prog, main, upvals>>

Fails == Sees(<<"error">>) /\ phase' = "error" /\ UNCHANGED <<prog, main, frames, upvals, given>>

\* register a gets the result of an operation, or the operation fails
Sets(a, result) == IF result = << >> THEN Fails ELSE Goes(Skip(Put(Fr, a, result[1]), 0))

\* luaF_close for the registers of the running frame from level on
CloseFrom(level) ==
    [u \in DOMAIN upvals |->
        IF upvals[u].open /\ upvals[u].depth = Depth /\ upvals[u].reg >= level
        THEN [upvals[u] EXCEPT !.open = FALSE, !.v = R(upvals[u].reg)] ELSE upvals[u]]

UpvalValue(u) == IF upvals[u].open THEN frames[upvals[u].depth].r[upvals[u].reg] ELSE upvals[u].v

-----------------------------------------------------------------------------
(* Instructions.                                                           *)

OpMove == Runs({"MOVE"}) /\ Sets(I.a, <<R(I.b)>>)
OpLoadK == Runs({"LOADK"}) /\ Sets(I.a, <<K(I.b)>>)
OpLoadBool == Runs({"LOADBOOL"}) /\ Goes(Skip(Put(Fr, I.a, Bool(I.b = 1)), I.c))
OpLoadNil ==
    /\ Runs({"LOADNIL"})
    /\ Goes(Skip([Fr EXCEPT !.r = [i \in DOMAIN @ |-> IF i \in I.a..I.b THEN Nil ELSE @[i]]], 0))
OpGetUpval == Runs({"GETUPVAL"}) /\ Sets(I.a, <<UpvalValue(Fr.cells[I.b + 1])>>)
OpGetGlobal == Runs({"GETGLOBAL"}) /\ Sets(I.a, <<<<"global", K(I.b)>>>>)
OpGetTable ==
    /\ Runs({"GETTABLE"})
    /\ Asks(<<"get", Show(R(I.b)), Show(RKOf(I.c))>>,
            LAMBDA vs : Skip(Put(Fr, I.a, First(vs)), 0))
OpSetGlobal ==
    /\ Runs({"SETGLOBAL"})
    /\ Sees(<<"set", K(I.b), Show(R(I.a))>>)
    /\ frames' = Top(Skip(Fr, 0))
    /\ UNCHANGED <<prog, phase, main, upvals, given>>

OpSetUpval ==
    LET u == Fr.cells[I.b + 1]
        c == upvals[u]
        f == Top(Skip(Fr, 0))
    IN  /\ Runs({"SETUPVAL"})
        /\ frames' = IF c.open THEN [f EXCEPT ![c.depth].r[c.reg] = R(I.a)] ELSE f
        /\ upvals' = IF c.open THEN upvals ELSE [upvals EXCEPT ![u].v = R(I.a)]
        /\ UNCHANGED <<prog, phase, main, given, log>>

\* luaV_settable: a table of the environment, or one under construction
OpSetTable ==
    LET pairs == {q \in R(I.a)[2] : q[1] # RKOf(I.b)}
    IN  /\ Runs({"SETTABLE"})
        /\ IF R(I.a)[1] = "table"
           THEN Sets(I.a, <<TableOf(pairs \cup {<<RKOf(I.b), Show(RKOf(I.c))>>})>>)
           ELSE /\ Sees(<<"set", Show(R(I.a)), Show(RKOf(I.b)), Show(RKOf(I.c))>>)
                /\ frames' = Top(Skip(Fr, 0))
                /\ UNCHANGED <<prog, phase, main, upvals, given>>

OpNewTable == Runs({"NEWTABLE"}) /\ Sets(I.a, <<TableOf({})>>)
OpSelf ==
    /\ Runs({"SELF"})
    /\ Asks(<<"get", Show(R(I.b)), RKOf(I.c)>>,
            LAMBDA vs : Skip(Put(Put(Fr, I.a + 1, R(I.b)), I.a, First(vs)), 0))

OpArith ==
    /\ Runs({"ADD", "SUB", "MUL", "DIV", "MOD", "POW"})
    /\ Sets(I.a, Arith(I.op, RKOf(I.b), RKOf(I.c)))
OpUnm == Runs({"UNM"}) /\ Sets(I.a, Arith("UNM", R(I.b), R(I.b)))
OpNot == Runs({"NOT"}) /\ Sets(I.a, <<Bool(IsFalse(R(I.b)))>>)
OpLen == Runs({"LEN"}) /\ Sets(I.a, Length(R(I.b)))

\* luaV_concat of registers b to c, from the last one
RECURSIVE JoinFrom(_, _)
JoinFrom(b, c) ==
    LET rest == JoinFrom(b + 1, c)
    IN  IF b = c THEN <<R(b)>> ELSE IF rest = << >> THEN << >> ELSE Joined(R(b), rest[1])
OpConcat == Runs({"CONCAT"}) /\ Sets(I.a, JoinFrom(I.b, I.c))

OpJmp == Runs({"JMP"}) /\ Goes(Skip(Fr, I.b))
OpCompare ==
    LET c == Compared(I.op, RKOf(I.b), RKOf(I.c))
    IN  /\ Runs({"EQ", "LT", "LE"})
        /\ IF c = << >> THEN Fails ELSE Goes(TestJump(Fr, c[1] = Bool(I.a = 1)))
OpTest == Runs({"TEST"}) /\ Goes(TestJump(Fr, IsFalse(R(I.a)) # (I.c = 1)))
OpTestSet ==
    LET holds == IsFalse(R(I.b)) # (I.c = 1)
    IN  Runs({"TESTSET"}) /\ Goes(TestJump(IF holds THEN Put(Fr, I.a, R(I.b)) ELSE Fr, holds))

\* the function in register a and its arguments, up to the top if b is 0
Args(a, b) == LET n == IF b = 0 THEN Fr.top - a - 1 ELSE b - 1
              IN  [i \in 1..n |-> R(a + i)]
Callee == R(I.a)

OpCall ==
    LET new == NewFrame(Callee[2], Callee[3], Args(I.a, I.b), I.c - 1, I.a)
    IN  /\ Runs({"CALL"})
        /\ IF Callee[1] = "closure"
           THEN /\ frames' = Append(Top(Skip(Fr, 0)), new)
                /\ UNCHANGED <<prog, phase, main, upvals, given, log>>
           ELSE Asks(<<"call", Callee, ShowAll(Args(I.a, I.b))>>,
                     LAMBDA vs : Skip(Results(Fr, I.a, I.c - 1, vs), 0))

OpTailCall ==
    LET new == NewFrame(Callee[2], Callee[3], Args(I.a, I.b), Fr.nres, Fr.dest)
    IN  /\ Runs({"TAILCALL"})
        /\ IF Callee[1] = "closure"
           THEN /\ frames' = Top(new) /\ upvals' = CloseFrom(0)
                /\ UNCHANGED <<prog, phase, main, given, log>>
           ELSE Asks(<<"call", Callee, ShowAll(Args(I.a, I.b))>>,
                     LAMBDA vs : Skip(Results(Fr, I.a, MultRet, vs), 0))

OpReturn ==
    LET n == IF I.b = 0 THEN Fr.top - I.a ELSE I.b - 1
        vs == [i \in 1..n |-> R(I.a + i - 1)]
        below == SubSeq(frames, 1, Depth - 1)
    IN  /\ Runs({"RETURN"})
        /\ upvals' = CloseFrom(0)
        /\ IF Depth = 1
           THEN phase' = "halted" /\ Sees(<<"return", ShowAll(vs)>>) /\ frames' = << >>
           ELSE /\ frames' = [below EXCEPT ![Depth - 1] = Results(@, Fr.dest, Fr.nres, vs)]
                /\ UNCHANGED <<phase, log>>
        /\ UNCHANGED <<prog, main, given>>

OpForPrep ==
    /\ Runs({"FORPREP"})
    /\ IF \A i \in 0..2 : IsNum(R(I.a + i))
       THEN Goes(Skip(Put(Fr, I.a, Num(R(I.a)[2] - R(I.a + 2)[2])), I.b)) ELSE Fails

OpForLoop ==
    LET step == R(I.a + 2)[2]
        idx == R(I.a)[2] + step
        limit == R(I.a + 1)[2]
    IN  /\ Runs({"FORLOOP"})
        /\ Goes(IF IF 0 < step THEN idx <= limit ELSE limit <= idx
                THEN Skip(Put(Put(Fr, I.a, Num(idx)), I.a + 3, Num(idx)), I.b) ELSE Skip(Fr, 0))

\* the generators of the programs belong to the environment
OpTForLoop ==
    LET after(vs) == LET f == Results(Fr, I.a + 3, I.c, vs)
                     IN  IF First(vs) # Nil THEN TestJump(Put(f, I.a + 2, First(vs)), TRUE)
                         ELSE TestJump(f, FALSE)
    IN  /\ Runs({"TFORLOOP"})
        /\ Asks(<<"call", R(I.a), <<Show(R(I.a + 1)), Show(R(I.a + 2))>>>>, after)

OpSetList ==
    LET n == IF I.b = 0 THEN Fr.top - I.a - 1 ELSE I.b
        first == (I.c - 1) * FieldsPerFlush
        new == {<<Num(first + i), Show(R(I.a + i))>> : i \in 1..n}
    IN  /\ Runs({"SETLIST"})
        /\ Goes(Skip([Put(Fr, I.a, TableOf(R(I.a)[2] \cup new)) EXCEPT !.top = -1], 0))

OpClose ==
    /\ Runs({"CLOSE"})
    /\ upvals' = CloseFrom(I.a)
    /\ frames' = Top(Skip(Fr, 0))
    /\ UNCHANGED <<prog, phase, main, given, log>>

\* luaF_findupval for each local captured; the pseudo-instructions are skipped
OpClosure ==
    LET p == Fr.p.p[I.b + 1]
        n == Len(p.ups)
        pseudo(j) == Fr.p.code[Fr.pc + 1 + j]
        open(reg) == {u \in DOMAIN upvals : upvals[u].open /\ upvals[u].depth = Depth
                                            /\ upvals[u].reg = reg}
        new == {pseudo(j).b : j \in {i \in 1..n : pseudo(i).op = "MOVE" /\ open(pseudo(i).b) = {}}}
        rank(reg) == Cardinality({x \in new : x <= reg})
        cell(j) == IF pseudo(j).op = "GETUPVAL" THEN Fr.cells[pseudo(j).b + 1]
                   ELSE IF pseudo(j).b \in new THEN Len(upvals) + rank(pseudo(j).b)
                   ELSE CHOOSE u \in open(pseudo(j).b) : TRUE
    IN  /\ Runs({"CLOSURE"})
        /\ Len(upvals) + Cardinality(new) <= MaxCells
        /\ upvals' = upvals \o [i \in 1..Cardinality(new) |->
                         [depth |-> Depth, reg |-> CHOOSE x \in new : rank(x) = i, open |-> TRUE,
                          v |-> Nil]]
        /\ frames' = Top(Skip(Put(Fr, I.a, <<"closure", p, [j \in 1..n |-> cell(j)]>>), n))
        /\ UNCHANGED <<prog, phase, main, given, log>>

OpVararg ==
    LET n == IF I.b = 0 THEN Len(Fr.va) ELSE I.b - 1
        w == Adjust(Fr.va, n)
        f == [Fr EXCEPT !.r = [i \in DOMAIN @ |-> IF i \in I.a..I.a + n - 1 THEN w[i - I.a + 1]
                                                  ELSE @[i]]]
    IN  /\ Runs({"VARARG"})
        /\ Goes(Skip([f EXCEPT !.top = IF I.b = 0 THEN I.a + n ELSE -1], 0))

Next ==
    \/ Compile
    \/ OpMove \/ OpLoadK \/ OpLoadBool \/ OpLoadNil \/ OpGetUpval \/ OpGetGlobal \/ OpGetTable
    \/ OpSetGlobal \/ OpSetUpval \/ OpSetTable \/ OpNewTable \/ OpSelf \/ OpArith \/ OpUnm
    \/ OpNot \/ OpLen \/ OpConcat \/ OpJmp \/ OpCompare \/ OpTest \/ OpTestSet \/ OpCall
    \/ OpTailCall \/ OpReturn \/ OpForPrep \/ OpForLoop \/ OpTForLoop \/ OpSetList \/ OpClose
    \/ OpClosure \/ OpVararg

Spec == Init /\ [][Next]_vars

-----------------------------------------------------------------------------
(* luaG_checkcode (symbexec of ldebug.c, without a register to trace).     *)

ABx == {"LOADK", "GETGLOBAL", "SETGLOBAL", "CLOSURE"}
AsBx == {"JMP", "FORLOOP", "FORPREP"}
BReg == {"MOVE", "LOADNIL", "GETTABLE", "SELF", "UNM", "NOT", "LEN", "CONCAT", "TEST", "TESTSET"}
BNone == {"TFORLOOP", "CLOSE"}
BKst == {"SETTABLE", "ADD", "SUB", "MUL", "DIV", "MOD", "POW", "EQ", "LT", "LE"}
CReg == {"CONCAT"}
CNone == {"MOVE", "LOADNIL", "GETUPVAL", "SETUPVAL", "UNM", "NOT", "LEN", "RETURN", "CLOSE", "VARARG"}
CKst == BKst \cup {"GETTABLE", "SELF"}

CheckOpenOp(i) == i.op \in {"CALL", "TAILCALL", "RETURN", "SETLIST"} /\ i.b = 0

PreCheck(p) ==
    /\ p.maxstack <= MaxStack
    /\ p.np + (IF p.hasarg THEN 1 ELSE 0) <= p.maxstack
    /\ p.needsarg => p.hasarg
    /\ p.code # << >> /\ p.code[Len(p.code)].op = "RETURN"

CheckInstruction(p, pc) ==
    LET i == p.code[pc + 1]
        next == p.code[pc + 2]
        reg(x) == x < p.maxstack
        kst(x) == IF x >= BitRK THEN x - BitRK < Len(p.k) ELSE reg(x)
    IN  /\ reg(i.a)
        /\ i.op \in BReg => reg(i.b)
        /\ i.op \in BNone => i.b = 0
        /\ i.op \in BKst => kst(i.b)
        /\ i.op \in CReg => reg(i.c)
        /\ i.op \in CNone => i.c = 0
        /\ i.op \in CKst => kst(i.c)
        /\ i.op \in ABx \ {"CLOSURE"} => i.b < Len(p.k)
        /\ i.op \in AsBx => pc + 1 + i.b \in 0..Len(p.code) - 1
        /\ i.op \in TMode => pc + 2 < Len(p.code) /\ next.op = "JMP"
        /\ i.op = "LOADBOOL" /\ i.c = 1 => pc + 2 < Len(p.code)
        /\ i.op \in {"GETUPVAL", "SETUPVAL"} => i.b < Len(p.ups)
        /\ i.op \in {"GETGLOBAL", "SETGLOBAL"} => p.k[i.b + 1][1] = "str"
        /\ i.op = "SELF" => reg(i.a + 1)
        /\ i.op = "CONCAT" => i.b < i.c
        /\ i.op = "TFORLOOP" => i.c >= 1 /\ reg(i.a + 2 + i.c)
        /\ i.op \in {"FORLOOP", "FORPREP"} => reg(i.a + 3)
        /\ i.op \in {"CALL", "TAILCALL"} =>
              /\ i.b # 0 => reg(i.a + i.b - 1)
              /\ IF i.c = 0 THEN CheckOpenOp(next) ELSE i.c # 1 => reg(i.a + i.c - 2)
        /\ i.op = "RETURN" /\ i.b > 1 => reg(i.a + i.b - 2)
        /\ i.op = "SETLIST" /\ i.b > 0 => reg(i.a + i.b)
        /\ i.op = "CLOSURE" =>
              /\ i.b < Len(p.p)
              /\ pc + Len(p.p[i.b + 1].ups) < Len(p.code)
              /\ \A j \in 1..Len(p.p[i.b + 1].ups) : p.code[pc + j + 1].op \in {"GETUPVAL", "MOVE"}
        /\ i.op = "VARARG" =>
              /\ p.va /\ ~p.needsarg
              /\ i.b = 0 => CheckOpenOp(next)
              /\ reg(i.a + i.b - 2)

RECURSIVE CheckCode(_)
CheckCode(p) ==
    /\ PreCheck(p)
    /\ \A pc \in 0..Len(p.code) - 1 : CheckInstruction(p, pc)
    /\ \A i \in DOMAIN p.p : CheckCode(p.p[i])

-----------------------------------------------------------------------------
(* Properties.                                                             *)

\* When the compiled program ends, what the environment has seen of it is what
\* its syntax tree means, whatever the answers: every jump, register, short
\* circuit, folded constant and captured variable is right.
MeansProgram ==
    [][phase' \in {"halted", "stopped", "error"} => log' = Meaning(prog', given')]_vars

\* Every lua_assert of the compiler holds, the bytecode checker's verdict on
\* each function (luaG_checkcode(f)) included, and so does luaV_execute's: when
\* a call or ... leaves an open number of values, the next instruction takes
\* them (L->top == L->ci->top || luaG_checkopenop(i)).
AssertsHold ==
    phase = "running" => /\ main.asserts /\ CheckCode(Proto(main))
                         /\ Fr.top # -1 => CheckOpenOp(I)
=============================================================================
