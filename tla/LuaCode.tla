------------------------------ MODULE LuaCode ------------------------------
(***************************************************************************)
(* The code generator (lcode.c) as operators on a FuncState F:             *)
(*                                                                         *)
(*   code        the instructions, [op, a, b, c]; pc 0 is code[1]          *)
(*   jpc         list of the pending jumps to the next instruction         *)
(*   lasttarget  pc of the last jump target                                *)
(*   freereg     first free register         nactvar   active locals       *)
(*   maxstack    f->maxstacksize             k         the constants       *)
(*   asserts     whether every lua_assert met so far held                  *)
(*   failed      whether a limit was exceeded (the parser raises an error) *)
(*                                                                         *)
(* and the fields LuaParser adds.  The jumps of a list are chained through *)
(* their own offsets, as in the code.  An expdesc e is [k, info, aux, t,   *)
(* f]; the numeral of a VKNUM is in info.  A function of lcode.c that      *)
(* works on an expression is an operator from a pair R = [F, e] to a pair; *)
(* one that yields a jump list or an index returns J = [F, l].  Line       *)
(* information is not modelled.                                            *)
(***************************************************************************)
EXTENDS Integers, Sequences

CONSTANTS MaxIndexRK,      \* MAXINDEXRK: greatest constant index in an operand
          MaxStack,        \* MAXSTACK
          FieldsPerFlush   \* LFIELDS_PER_FLUSH

ASSUME LuaCodeAssumption ==
       MaxIndexRK \in 0..255 /\ MaxStack \in 3..254 /\ FieldsPerFlush \in Nat \ {0}

NoJump == -1
NoReg == 255
BitRK == 256
MultRet == -1

\* testTMode: the instruction is followed by a jump
TMode == {"EQ", "LT", "LE", "TEST", "TESTSET", "TFORLOOP"}

\* Values: <<"nil">>, <<"true">>, <<"false">>, <<"num", n>>, <<"str", s>>, ...
Nil == <<"nil">>
Bool(b) == IF b THEN <<"true">> ELSE <<"false">>
Num(n) == <<"num", n>>
IsNum(v) == v[1] = "num"

\* luai_num*: lua_Number is an integer type, / truncates, ^ multiplies
Quotient(a, b) ==
    LET abs(x) == IF x < 0 THEN -x ELSE x
        q == abs(a) \div abs(b)
    IN  IF (a < 0) = (b < 0) THEN q ELSE -q

NumOp(op, a, b) ==
    CASE op = "ADD" -> a + b
      [] op = "SUB" -> a - b
      [] op \in {"MUL", "POW"} -> a * b
      [] op = "DIV" -> Quotient(a, b)
      [] op = "MOD" -> a - b * Quotient(a, b)
      [] op = "UNM" -> -a

Exp(k, info) == [k |-> k, info |-> info, aux |-> 0, t |-> NoJump, f |-> NoJump]
Void == Exp("VOID", 0)

Instr(op, a, b, c) == [op |-> op, a |-> a, b |-> b, c |-> c]
Pc(F) == Len(F.code)
At(F, pc) == F.code[pc + 1]
Assert(F, ok) == [F EXCEPT !.asserts = @ /\ ok]
Pair(F, e) == [F |-> F, e |-> e]
List(F, l) == [F |-> F, l |-> l]
AsExp(J, k) == Pair(J.F, Exp(k, J.l))
InList(J, e, x) == Pair(J.F, [e EXCEPT ![x] = J.l])     \* x is "t" or "f"

HasJumps(e) == e.t # e.f
IsNumeral(e) == e.k = "KNUM" /\ e.t = NoJump /\ e.f = NoJump

-----------------------------------------------------------------------------
(* Jump lists.                                                             *)

FixJump(F, pc, dest) == Assert([F EXCEPT !.code[pc + 1].b = dest - (pc + 1)], dest # NoJump)

GetLabel(F) == [F EXCEPT !.lasttarget = Pc(F)]

GetJump(F, pc) == IF At(F, pc).b = NoJump THEN NoJump ELSE pc + 1 + At(F, pc).b

GetJumpControl(F, pc) == IF pc >= 1 /\ At(F, pc - 1).op \in TMode THEN pc - 1 ELSE pc

Produces(F, pc) == At(F, GetJumpControl(F, pc)).op = "TESTSET"

RECURSIVE NeedValue(_, _)
NeedValue(F, list) ==
    list # NoJump /\ (~Produces(F, list) \/ NeedValue(F, GetJump(F, list)))

\* patchtestreg for the test at pc (its result is whether it is a TESTSET)
PatchTest(F, pc, reg) ==
    [F EXCEPT !.code[pc + 1] = CASE @.op # "TESTSET" -> @
                                 [] @.op = "TESTSET" /\ reg \notin {NoReg, @.b} -> [@ EXCEPT !.a = reg]
                                 [] OTHER -> Instr("TEST", @.b, 0, @.c)]
PatchTestReg(F, node, reg) == PatchTest(F, GetJumpControl(F, node), reg)

RECURSIVE RemoveValues(_, _)
RemoveValues(F, list) ==
    IF list = NoJump THEN F
    ELSE RemoveValues(PatchTestReg(F, list, NoReg), GetJump(F, list))

RECURSIVE PatchListAux(_, _, _, _, _)
PatchListAux(F, list, vtarget, reg, dtarget) ==
    IF list = NoJump THEN F
    ELSE PatchListAux(FixJump(PatchTestReg(F, list, reg), list,
                              IF Produces(F, list) THEN vtarget ELSE dtarget),
                      GetJump(F, list), vtarget, reg, dtarget)

DischargeJpc(F) == [PatchListAux(F, F.jpc, Pc(F), NoReg, Pc(F)) EXCEPT !.jpc = NoJump]

RECURSIVE LastOf(_, _)
LastOf(F, list) == IF GetJump(F, list) = NoJump THEN list ELSE LastOf(F, GetJump(F, list))

Concat(F, l1, l2) ==
    IF l2 = NoJump THEN List(F, l1)
    ELSE IF l1 = NoJump THEN List(F, l2)
    ELSE List(FixJump(F, LastOf(F, l1), l2), l1)
ConcatTo(l, J) == Concat(J.F, l, J.l)

SetJpc(J) == [J.F EXCEPT !.jpc = J.l]
PatchToHere(F, list) == SetJpc(Concat(GetLabel(F), F.jpc, list))

PatchList(J, target) ==
    IF target = Pc(J.F) THEN PatchToHere(J.F, J.l)
    ELSE Assert(PatchListAux(J.F, J.l, target, NoReg, target), target < Pc(J.F))

-----------------------------------------------------------------------------
(* Instructions, registers and constants.                                  *)

\* luaK_code: the new instruction is at the old Pc(F)
Code(F, op, a, b, c) == [DischargeJpc(F) EXCEPT !.code = Append(@, Instr(op, a, b, c))]

Jump(F) == Concat(Code([F EXCEPT !.jpc = NoJump], "JMP", 0, NoJump, 0), Pc(F), F.jpc)

CondJump(F, op, a, b, c) == Jump(Code(F, op, a, b, c))

Ret(F, first, nret) == Code(F, "RETURN", first, nret + 1, 0)

\* luaK_nil
LoadNil(F, from, n) ==
    LET last == At(F, Pc(F) - 1)
        target == Pc(F) <= F.lasttarget
    IN  IF ~target /\ Pc(F) = 0 /\ from >= F.nactvar THEN F
        ELSE IF ~target /\ Pc(F) > 0 /\ last.op = "LOADNIL" /\ last.a <= from /\ from <= last.b + 1
          THEN IF from + n - 1 > last.b THEN [F EXCEPT !.code[Pc(F)].b = from + n - 1] ELSE F
          ELSE Code(F, "LOADNIL", from, from + n - 1, 0)

CheckStack(F, n) ==
    LET new == F.freereg + n
    IN  IF new <= F.maxstack THEN F
        ELSE [F EXCEPT !.maxstack = new, !.failed = @ \/ new >= MaxStack]

ReserveRegs(F, n) == [CheckStack(F, n) EXCEPT !.freereg = @ + n]

FreeReg(F, reg) ==
    IF reg < BitRK /\ reg >= F.nactvar
    THEN Assert([F EXCEPT !.freereg = @ - 1], reg = F.freereg - 1) ELSE F

FreeExp(F, e) == IF e.k = "NONRELOC" THEN FreeReg(F, e.info) ELSE F
Freed(R) == Pair(FreeExp(R.F, R.e), R.e)

\* addk: l is the index of the constant
AddK(F, v) ==
    LET found == {i \in 1..Len(F.k) : F.k[i] = v}
    IN  IF found # {} THEN List(F, (CHOOSE i \in found : TRUE) - 1)
        ELSE List([F EXCEPT !.k = Append(@, v)], Len(F.k))

SetReturns(R, nresults) ==
    CASE R.e.k = "CALL" -> [R EXCEPT !.F.code[R.e.info + 1].c = nresults + 1]
      [] R.e.k = "VARARG" ->
             Pair(ReserveRegs([R.F EXCEPT !.code[R.e.info + 1].b = nresults + 1,
                                          !.code[R.e.info + 1].a = R.F.freereg], 1), R.e)
      [] OTHER -> R

SetOneRet(R) ==
    CASE R.e.k = "CALL" -> Pair(R.F, [R.e EXCEPT !.k = "NONRELOC", !.info = At(R.F, @).a])
      [] R.e.k = "VARARG" ->
             Pair([R.F EXCEPT !.code[R.e.info + 1].b = 2], [R.e EXCEPT !.k = "RELOCABLE"])
      [] OTHER -> R

-----------------------------------------------------------------------------
(* Bringing the value of an expression where it is needed.                 *)

\* the last instruction of F computes e
Relocable(F, e) == Pair(F, [e EXCEPT !.k = "RELOCABLE", !.info = Pc(F) - 1])

GetOp == [UPVAL |-> "GETUPVAL", GLOBAL |-> "GETGLOBAL", INDEXED |-> "GETTABLE"]
DischargeVars(R) ==
    CASE R.e.k = "LOCAL" -> [R EXCEPT !.e.k = "NONRELOC"]
      [] R.e.k \in DOMAIN GetOp ->
             Relocable(Code(IF R.e.k = "INDEXED" THEN FreeReg(FreeReg(R.F, R.e.aux), R.e.info)
                            ELSE R.F, GetOp[R.e.k], 0, R.e.info, R.e.aux), R.e)
      [] OTHER -> SetOneRet(R)

\* discharge2reg for an expression that is no variable
LoadOp == [FALSE |-> "LOADBOOL", TRUE |-> "LOADBOOL", K |-> "LOADK", KNUM |-> "LOADK",
           NONRELOC |-> "MOVE"]
LoadSource(F, e) ==
    CASE e.k = "FALSE" -> List(F, 0)
      [] e.k = "TRUE" -> List(F, 1)
      [] e.k \in {"K", "NONRELOC"} -> List(F, e.info)
      [] e.k = "KNUM" -> AddK(F, Num(e.info))
LoadFrom(J, op, reg) == Code(J.F, op, reg, J.l, 0)
LoadReg(F, e, reg) ==
    CASE e.k = "NIL" -> LoadNil(F, reg, 1)
      [] e.k = "RELOCABLE" -> [F EXCEPT !.code[e.info + 1].a = reg]
      [] e.k = "NONRELOC" /\ reg = e.info -> F
      [] e.k \in DOMAIN LoadOp /\ ~(e.k = "NONRELOC" /\ reg = e.info) ->
             LoadFrom(LoadSource(F, e), LoadOp[e.k], reg)
      [] OTHER -> Assert(F, e.k \in {"VOID", "JMP"})
InReg(R, reg) ==
    Pair(LoadReg(R.F, R.e, reg), IF R.e.k \in {"VOID", "JMP"} THEN R.e
                                 ELSE [R.e EXCEPT !.info = reg, !.k = "NONRELOC"])
Discharge2Reg(R, reg) == InReg(DischargeVars(R), reg)

Discharge2AnyReg(R) ==
    IF R.e.k = "NONRELOC" THEN R
    ELSE Discharge2Reg(Pair(ReserveRegs(R.F, 1), R.e), R.F.freereg)

CodeLabel(F, a, b, jump) == Code(GetLabel(F), "LOADBOOL", a, b, jump)

\* exp2reg: a jump joins the true exits; then the exits that need a value go
\* to a LOADBOOL (J jumps over the two), the others behind them
JoinJump(R) ==
    IF R.e.k = "JMP" THEN InList(Concat(R.F, R.e.t, R.e.info), R.e, "t") ELSE R
NeedsLoads(R) == NeedValue(R.F, R.e.t) \/ NeedValue(R.F, R.e.f)
CodeLoads(J, reg) == PatchToHere(CodeLabel(CodeLabel(J.F, reg, 0, 1), reg, 1, 0), J.l)
PatchExits(F, e, reg, loads) ==
    PatchListAux(PatchListAux(F, e.f, Pc(F), reg, IF loads THEN Pc(F) - 2 ELSE NoJump),
                 e.t, Pc(F), reg, IF loads THEN Pc(F) - 1 ELSE NoJump)
EndExits(R, reg) ==
    IF ~HasJumps(R.e) THEN R.F
    ELSE PatchExits(GetLabel(IF ~NeedsLoads(R) THEN R.F
                             ELSE CodeLoads(IF R.e.k = "JMP" THEN List(R.F, NoJump)
                                            ELSE Jump(R.F), reg)), R.e, reg, NeedsLoads(R))
Exp2Reg(R, reg) == Pair(EndExits(JoinJump(Discharge2Reg(R, reg)), reg), Exp("NONRELOC", reg))

\* luaK_exp2nextreg
WithReg(R) == Pair(ReserveRegs(FreeExp(R.F, R.e), 1), R.e)
Exp2LastReg(R) == Exp2Reg(R, R.F.freereg - 1)
Exp2NextReg(R) == Exp2LastReg(WithReg(DischargeVars(R)))

AnyReg(R) ==
    IF R.e.k = "NONRELOC" /\ ~HasJumps(R.e) THEN R
    ELSE IF R.e.k = "NONRELOC" /\ R.e.info >= R.F.nactvar THEN Exp2Reg(R, R.e.info)
    ELSE Exp2LastReg(WithReg(R))
Exp2AnyReg(R) == AnyReg(DischargeVars(R))

Exp2Val(R) == IF HasJumps(R.e) THEN Exp2AnyReg(R) ELSE DischargeVars(R)

\* luaK_exp2RK; the operand it returns is RK of the expression
Constant(e) ==
    CASE e.k = "KNUM" -> Num(e.info)
      [] e.k = "TRUE" -> Bool(TRUE)
      [] e.k = "FALSE" -> Bool(FALSE)
      [] e.k = "NIL" -> Nil
Operand(R) ==
    CASE R.e.k \in {"KNUM", "TRUE", "FALSE", "NIL"} /\ Len(R.F.k) <= MaxIndexRK ->
             AsExp(AddK(R.F, Constant(R.e)), "K")
      [] R.e.k = "K" /\ R.e.info <= MaxIndexRK -> R
      [] OTHER -> Exp2AnyReg(R)
Exp2RK(R) == Operand(Exp2Val(R))

RK(e) == IF e.k = "K" THEN BitRK + e.info ELSE e.info

\* luaK_storevar
SetOp == [UPVAL |-> "SETUPVAL", GLOBAL |-> "SETGLOBAL", INDEXED |-> "SETTABLE"]
StoreReg(R, var) ==
    FreeExp(IF var.k = "INDEXED" THEN Code(R.F, SetOp[var.k], var.info, var.aux, RK(R.e))
            ELSE Code(R.F, SetOp[var.k], R.e.info, var.info, 0), R.e)
StoreVar(var, R) ==
    CASE var.k = "LOCAL" -> Exp2Reg(Freed(R), var.info).F
      [] var.k \in DOMAIN SetOp ->
             StoreReg(IF var.k = "INDEXED" THEN Exp2RK(R) ELSE Exp2AnyReg(R), var)
      [] OTHER -> Assert(R.F, FALSE)

\* luaK_self
CodeSelf(K, e, func) ==
    Pair(FreeExp(Code(K.F, "SELF", func, e.info, RK(K.e)), K.e),
         [e EXCEPT !.info = func, !.k = "NONRELOC"])
SelfKey(R, key) == CodeSelf(Exp2RK(Pair(ReserveRegs(R.F, 2), key)), R.e, R.F.freereg)
Self(R, key) == SelfKey(Freed(Exp2AnyReg(R)), key)

-----------------------------------------------------------------------------
(* Conditions.                                                             *)

InvertJump(F, e) ==
    LET pc == GetJumpControl(F, e.info)
    IN  Assert([F EXCEPT !.code[pc + 1].a = 1 - @], At(F, pc).op \in TMode \ {"TEST", "TESTSET"})

JumpOnReg(R, cond) == CondJump(R.F, "TESTSET", NoReg, R.e.info, cond)
JumpOnCond(R, cond) ==
    IF R.e.k = "RELOCABLE" /\ At(R.F, R.e.info).op = "NOT"
    THEN CondJump([R.F EXCEPT !.code = SubSeq(@, 1, Pc(R.F) - 1)],
                  "TEST", At(R.F, R.e.info).b, 0, 1 - cond)
    ELSE JumpOnReg(Freed(Discharge2AnyReg(R)), cond)

\* the jumps J join the list x of e, and the list y ends here
LeaveBy(J, e, x, y) ==
    InList(List(PatchToHere(J.F, e[y]), J.l), [e EXCEPT ![y] = NoJump], x)

TrueExits(R) ==
    CASE R.e.k \in {"K", "KNUM", "TRUE"} -> List(R.F, NoJump)
      [] R.e.k = "FALSE" -> Jump(R.F)
      [] R.e.k = "JMP" -> List(InvertJump(R.F, R.e), R.e.info)
      [] OTHER -> JumpOnCond(R, 0)
GoTrue(R) == LeaveBy(ConcatTo(R.e.f, TrueExits(R)), R.e, "f", "t")
GoIfTrue(R) == GoTrue(DischargeVars(R))

FalseExits(R) ==
    CASE R.e.k \in {"NIL", "FALSE"} -> List(R.F, NoJump)
      [] R.e.k = "TRUE" -> Jump(R.F)
      [] R.e.k = "JMP" -> List(R.F, R.e.info)
      [] OTHER -> JumpOnCond(R, 1)
GoFalse(R) == LeaveBy(ConcatTo(R.e.t, FalseExits(R)), R.e, "t", "f")
GoIfFalse(R) == GoFalse(DischargeVars(R))

NotReg(R) == Relocable(Code(R.F, "NOT", 0, R.e.info, 0), R.e)
Negated(R) ==
    CASE R.e.k \in {"NIL", "FALSE"} -> [R EXCEPT !.e.k = "TRUE"]
      [] R.e.k \in {"K", "KNUM", "TRUE"} -> [R EXCEPT !.e.k = "FALSE"]
      [] R.e.k = "JMP" -> Pair(InvertJump(R.F, R.e), R.e)
      [] R.e.k \in {"RELOCABLE", "NONRELOC"} -> NotReg(Freed(Discharge2AnyReg(R)))
      [] OTHER -> Pair(Assert(R.F, FALSE), R.e)
SwapExits(R) ==
    Pair(RemoveValues(RemoveValues(R.F, R.e.t), R.e.f), [R.e EXCEPT !.f = R.e.t, !.t = R.e.f])
CodeNot(R) == SwapExits(Negated(DischargeVars(R)))

IndexedBy(t, K) == Pair(K.F, [t EXCEPT !.aux = RK(K.e), !.k = "INDEXED"])
Indexed(t, R) == IndexedBy(t, Exp2RK(R))

-----------------------------------------------------------------------------
(* Operators.                                                              *)

ConstFolding(op, e1, e2) ==
    /\ IsNumeral(e1) /\ IsNumeral(e2)
    /\ op \in {"DIV", "MOD"} => e2.info # 0
    /\ op # "LEN"

\* codearith; R is the second operand, which comes first into a register
FreeBoth(F, e1, e2, o2) ==
    IF RK(e1) > o2 THEN FreeExp(FreeExp(F, e1), e2) ELSE FreeExp(FreeExp(F, e2), e1)
Operate(op, R1, e2, o2) ==
    Relocable(Code(FreeBoth(R1.F, R1.e, e2, o2), op, 0, RK(R1.e), o2), R1.e)
OperateOn(op, e1, R2) ==
    Operate(op, Exp2RK(Pair(R2.F, e1)), R2.e, IF op \in {"UNM", "LEN"} THEN 0 ELSE RK(R2.e))
CodeArith(op, e1, R) ==
    IF ConstFolding(op, e1, R.e) THEN Pair(R.F, [e1 EXCEPT !.info = NumOp(op, @, R.e.info)])
    ELSE OperateOn(op, e1, IF op \in {"UNM", "LEN"} THEN R ELSE Exp2RK(R))

\* codecomp: the operands of GT and GE are exchanged
CompOp == [EQ |-> <<"EQ", 1>>, NE |-> <<"EQ", 0>>, LT |-> <<"LT", 1>>, LE |-> <<"LE", 1>>,
           GT |-> <<"LT", 0>>, GE |-> <<"LE", 0>>]
JumpIf(F, op, cond, o1, o2) ==
    CondJump(F, op, IF op = "EQ" THEN cond ELSE 1, IF cond = 0 /\ op # "EQ" THEN o2 ELSE o1,
             IF cond = 0 /\ op # "EQ" THEN o1 ELSE o2)
AsJump(J, e) == Pair(J.F, [e EXCEPT !.info = J.l, !.k = "JMP"])
Compare(op, cond, e1, R2) ==
    AsJump(JumpIf(FreeExp(FreeExp(R2.F, R2.e), e1), op, cond, RK(e1), RK(R2.e)), e1)
CompareWith(op, cond, R1, e2) == Compare(op, cond, R1.e, Exp2RK(Pair(R1.F, e2)))
CodeComp(op, cond, e1, R) == CompareWith(op, cond, Exp2RK(Pair(R.F, e1)), R.e)

UnaryArith(op, R) == CodeArith(op, R.e, Pair(R.F, Exp("KNUM", 0)))
Prefix(op, R) ==
    CASE op = "NOT" -> CodeNot(R)
      [] OTHER -> UnaryArith(IF op = "MINUS" THEN "UNM" ELSE "LEN",
                             IF op = "MINUS" /\ IsNumeral(R.e) THEN R ELSE Exp2AnyReg(R))

Infix(op, R) ==
    CASE op = "AND" -> GoIfTrue(R)
      [] op = "OR" -> GoIfFalse(R)
      [] op = "CONCAT" -> Exp2NextReg(R)
      [] op \in {"ADD", "SUB", "MUL", "DIV", "MOD", "POW"} /\ IsNumeral(R.e) -> R
      [] OTHER -> Exp2RK(R)

\* luaK_posfix for OPR_CONCAT: a chain of concatenations is one instruction
ConcatWith(e1, R) ==
    LET i == At(R.F, R.e.info)
    IN  IF R.e.k = "RELOCABLE" /\ i.op = "CONCAT"
        THEN Pair([FreeExp(Assert(R.F, e1.info = i.b - 1), e1) EXCEPT
                      !.code[R.e.info + 1].b = e1.info],
                  [e1 EXCEPT !.k = "RELOCABLE", !.info = R.e.info])
        ELSE CodeArith("CONCAT", e1, Exp2NextReg(R))

\* luaK_posfix for OPR_AND and OPR_OR: both operands leave by the list x
Join(e1, R, x) == InList(Concat(R.F, R.e[x], e1[x]), R.e, x)
JoinExits(e1, R, x, y) ==
    Join(e1, DischargeVars(Pair(Assert(R.F, e1[y] = NoJump), R.e)), x)

Posfix(op, e1, R) ==
    CASE op = "AND" -> JoinExits(e1, R, "f", "t")
      [] op = "OR" -> JoinExits(e1, R, "t", "f")
      [] op = "CONCAT" -> ConcatWith(e1, Exp2Val(R))
      [] op \in DOMAIN CompOp -> CodeComp(CompOp[op][1], CompOp[op][2], e1, R)
      [] OTHER -> CodeArith(op, e1, R)

\* luaO_int2fb: a size as a floating point byte, rounded up
RECURSIVE Int2fb(_, _)
Int2fb(x, e) ==
    IF x >= 16 THEN Int2fb((x + 1) \div 2, e + 1)
    ELSE IF x < 8 THEN x ELSE 8 * (e + 1) + (x - 8)

\* luaK_setlist
SetList(F, base, nelems, tostore) ==
    [Assert(Code(F, "SETLIST", base, IF tostore = MultRet THEN 0 ELSE tostore,
                 (nelems - 1) \div FieldsPerFlush + 1), tostore # 0) EXCEPT !.freereg = base + 1]
=============================================================================
