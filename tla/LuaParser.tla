----------------------------- MODULE LuaParser -----------------------------
(***************************************************************************)
(* The parser (lparser.c), which generates the code of a program while it  *)
(* reads it.  Its functions are driven here by the syntax tree that the    *)
(* tokens denote, in the order the code reads them; the recognition of the *)
(* grammar (llex.c, operator priorities, syntax errors) is left out.       *)
(*                                                                         *)
(* Expressions: [t |-> "nil"], "true", "false", "dots", [t |-> "num", n],  *)
(*   [t |-> "str", s], [t |-> "var", name], [t |-> "paren", e],            *)
(*   [t |-> "index", o, key], [t |-> "call", f, args],                     *)
(*   [t |-> "method", o, name, args], [t |-> "un", op, e],                 *)
(*   [t |-> "bin", op, l, r], [t |-> "func", pars, va, body],              *)
(*   [t |-> "cons", items] with items [key, e] (key << >>, or <<expr>>)    *)
(* Statements: "local", "localfunc", "assign", "callstat", "do", "while",  *)
(*   "repeat", "if", "fornum", "forlist", "function", "return", "break".   *)
(*                                                                         *)
(* LuaParser adds to a FuncState: actvar (the names of the active locals,  *)
(* and after them of those being declared), bl (the blocks, innermost      *)
(* last), ups (upvalues), p (nested functions), np, va, hasarg, needsarg   *)
(* and prev (<< >>, or <<the enclosing FuncState>>).  Once F.failed, the    *)
(* error is on its way out of luaY_parser and nothing more is read.        *)
(***************************************************************************)
EXTENDS LuaCode

CONSTANTS MaxVars,     \* LUAI_MAXVARS
          MaxUpvalues  \* LUAI_MAXUPVALUES

ASSUME LuaParserAssumption == MaxVars \in Nat /\ MaxUpvalues \in Nat

Fail(F, cond) == [F EXCEPT !.failed = @ \/ cond]

\* open_func
OpenFunc(prev, va) ==
    [code |-> << >>, jpc |-> NoJump, lasttarget |-> -1, freereg |-> 0, nactvar |-> 0,
     maxstack |-> 2, k |-> << >>, asserts |-> TRUE, failed |-> FALSE, actvar |-> << >>,
     bl |-> << >>, ups |-> << >>, p |-> << >>, np |-> 0, va |-> va, hasarg |-> FALSE,
     needsarg |-> FALSE, prev |-> prev]

-----------------------------------------------------------------------------
(* Variables and blocks.                                                   *)

\* new_localvar: the name is known, the variable not yet active
NewLocalVar(F, name) ==
    Fail([F EXCEPT !.actvar = Append(@, name)], Len(F.actvar) + 1 > MaxVars)

AdjustLocalVars(F, n) == [F EXCEPT !.nactvar = @ + n]

RemoveVars(F, tolevel) == [F EXCEPT !.nactvar = tolevel, !.actvar = SubSeq(@, 1, tolevel)]

\* searchvar: the innermost active local of that name, -1 if there is none
SearchVar(F, n) ==
    LET found == {i \in 1..F.nactvar : F.actvar[i] = n}
    IN  IF found = {} THEN -1 ELSE (CHOOSE i \in found : \A j \in found : j <= i) - 1

\* markupval: the block that declares the local needs an OP_CLOSE
MarkUpval(F, level) ==
    LET in == {i \in 1..Len(F.bl) : F.bl[i].nactvar <= level}
    IN  IF in = {} THEN F
        ELSE [F EXCEPT !.bl[CHOOSE i \in in : \A j \in in : j <= i].upval = TRUE]

\* indexupvalue: l is the index of the upvalue
IndexUpvalue(F, v) ==
    LET same == {i \in 1..Len(F.ups) : F.ups[i].k = v.k /\ F.ups[i].info = v.info}
    IN  IF same # {} THEN List(F, (CHOOSE i \in same : TRUE) - 1)
        ELSE List(Fail([F EXCEPT !.ups = Append(@, [k |-> v.k, info |-> v.info])],
                       Len(F.ups) + 1 > MaxUpvalues), Len(F.ups))

RECURSIVE SingleVarAux(_, _, _)
FromOuter(F, R) ==
    IF R.e.k = "GLOBAL" THEN Pair([F EXCEPT !.prev = <<R.F>>], R.e)
    ELSE AsExp(IndexUpvalue([F EXCEPT !.prev = <<R.F>>], R.e), "UPVAL")
SingleVarAux(F, n, base) ==
    LET v == SearchVar(F, n)
    IN  IF v >= 0 THEN Pair(IF base THEN F ELSE MarkUpval(F, v), Exp("LOCAL", v))
        ELSE IF F.prev = << >> THEN Pair(F, Exp("GLOBAL", NoReg))
        ELSE FromOuter(F, SingleVarAux(F.prev[1], n, FALSE))

StringK(F, s) == AsExp(AddK(F, <<"str", s>>), "K")
GlobalName(R, n) == IF R.e.k = "GLOBAL" THEN AsExp(AddK(R.F, <<"str", n>>), "GLOBAL") ELSE R
SingleVar(F, n) == GlobalName(SingleVarAux(F, n, TRUE), n)

HasMultRet(e) == e.k \in {"CALL", "VARARG"}

AddNils(F, n) == IF n > 0 THEN LoadNil(ReserveRegs(F, n), F.freereg, n) ELSE F
AdjustAssign(R, nvars, nexps) ==
    LET extra == nvars - nexps
        calls == IF extra + 1 < 0 THEN 0 ELSE extra + 1
    IN  IF HasMultRet(R.e)
        THEN ReserveRegs(SetReturns(R, calls).F, IF calls > 1 THEN calls - 1 ELSE 0)
        ELSE AddNils(IF R.e.k = "VOID" THEN R.F ELSE Exp2NextReg(R).F, extra)

EnterBlock(F, breakable) ==
    Assert([F EXCEPT !.bl = Append(@, [breaklist |-> NoJump, isbreakable |-> breakable,
                                       nactvar |-> F.nactvar, upval |-> FALSE])],
           F.freereg = F.nactvar)

InnerBlock(F) == F.bl[Len(F.bl)]
CloseBlock(F, bl) ==
    PatchToHere([Assert(IF bl.upval THEN Code(F, "CLOSE", bl.nactvar, 0, 0) ELSE F,
                        ~bl.isbreakable \/ ~bl.upval) EXCEPT !.freereg = F.nactvar],
                bl.breaklist)
LeaveBlock(F) ==
    CloseBlock(RemoveVars([F EXCEPT !.bl = SubSeq(@, 1, Len(@) - 1)], InnerBlock(F).nactvar),
               InnerBlock(F))

\* The prototype that close_func completes.
Proto(F) ==
    [code |-> F.code, k |-> F.k, p |-> F.p, ups |-> F.ups, maxstack |-> F.maxstack,
     np |-> F.np, va |-> F.va, hasarg |-> F.hasarg, needsarg |-> F.needsarg]

\* close_func; its lua_assert(luaG_checkcode(f)) is a property of LuaExec
CloseFunc(F) == Assert(Ret(RemoveVars(F, 0), 0, 0), F.bl = << >>)

\* pushclosure, from the closed function inner
RECURSIVE CodeUpvalues(_, _)
CodeUpvalues(F, ups) ==
    IF ups = << >> THEN F
    ELSE CodeUpvalues(Code(F, IF Head(ups).k = "LOCAL" THEN "MOVE" ELSE "GETUPVAL",
                           0, Head(ups).info, 0), Tail(ups))

WithProto(F, inner) ==
    [F EXCEPT !.p = Append(@, Proto(inner)), !.asserts = @ /\ inner.asserts,
              !.failed = @ \/ inner.failed]
PushClosure(F, inner) ==
    Pair(CodeUpvalues(Code(WithProto(F, inner), "CLOSURE", 0, Len(F.p), 0), inner.ups),
         Exp("RELOCABLE", Pc(F)))

RECURSIVE NewLocalVars(_, _)
NewLocalVars(F, names) ==
    IF names = << >> THEN F ELSE NewLocalVars(NewLocalVar(F, Head(names)), Tail(names))

\* parlist; a vararg function also has the local arg (LUA_COMPAT_VARARG)
ParList(F, pars, va) ==
    LET n == Len(pars) + (IF va THEN 1 ELSE 0)
    IN  ReserveRegs([AdjustLocalVars(NewLocalVars(F, IF va THEN Append(pars, "arg") ELSE pars), n)
                     EXCEPT !.np = Len(pars), !.va = va, !.hasarg = va, !.needsarg = va], n)

-----------------------------------------------------------------------------
(* Expressions.                                                            *)

RECURSIVE Expr(_, _), ExpList1(_, _), Fields(_, _), Chunk(_, _)

\* body
CloseBody(C) == PushClosure(C.prev[1], C)
Body(F, f) == CloseBody(CloseFunc(Chunk(ParList(OpenFunc(<<F>>, FALSE), f.pars, f.va), f.body)))

\* funcargs: the call of f, which is in a register, with the arguments R
CodeCall(F, f, open) ==
    Pair([Code(Assert(F, f.k = "NONRELOC"), "CALL", f.info, IF open THEN 0 ELSE F.freereg - f.info, 2)
              EXCEPT !.freereg = f.info + 1], Exp("CALL", Pc(F)))
CallWith(R, f) ==
    CodeCall(IF HasMultRet(R.e) \/ R.e.k = "VOID" THEN R.F ELSE Exp2NextReg(R).F, f,
             HasMultRet(R.e))
FuncArgs(R, args) ==
    CallWith(IF args = << >> THEN Pair(R.F, Void) ELSE SetReturns(ExpList1(R.F, args), MultRet),
             R.e)

\* constructor: the state cc is [F, t (register), v (pending item), na, nh, tostore]
Pending(cc) == Pair(cc.F, cc.v)
FlushItems(cc) ==
    IF cc.tostore # FieldsPerFlush THEN cc
    ELSE [cc EXCEPT !.F = SetList(@, cc.t, cc.na, cc.tostore), !.tostore = 0]
CloseListField(cc) ==
    IF cc.v.k = "VOID" THEN cc
    ELSE FlushItems([cc EXCEPT !.F = Exp2NextReg(Pending(cc)).F, !.v = Void])

RecStore(cc, key, R) ==
    [cc EXCEPT !.nh = @ + 1, !.F = [Code(R.F, "SETTABLE", cc.t, RK(key), RK(R.e))
                                        EXCEPT !.freereg = cc.F.freereg]]
RecValue(cc, K, x) == RecStore(cc, K.e, Exp2RK(Expr(K.F, x)))
RecField(cc, item) == RecValue(cc, Exp2RK(Expr(cc.F, item.key[1])), item.e)

ListValue(cc, R) == [cc EXCEPT !.F = R.F, !.v = R.e, !.na = @ + 1, !.tostore = @ + 1]
ListField(cc, item) == ListValue(cc, Expr(cc.F, item.e))

CheckItem(cc) == [cc EXCEPT !.F = Assert(@, cc.v.k = "VOID" \/ cc.tostore > 0)]
AddField(cc, item) == IF item.key = << >> THEN ListField(cc, item) ELSE RecField(cc, item)
Fields(cc, items) ==
    IF cc.F.failed \/ items = << >> THEN cc
    ELSE Fields(AddField(CloseListField(CheckItem(cc)), Head(items)), Tail(items))

LastListField(cc) ==
    IF cc.tostore = 0 THEN cc
    ELSE IF HasMultRet(cc.v)
      THEN [cc EXCEPT !.F = SetList(SetReturns(Pending(cc), MultRet).F, cc.t, cc.na, MultRet),
                      !.na = @ - 1]
      ELSE [cc EXCEPT !.F = SetList(IF cc.v.k = "VOID" THEN cc.F ELSE Exp2NextReg(Pending(cc)).F,
                                    cc.t, cc.na, cc.tostore)]

SetSizes(cc, pc) ==
    Pair([cc.F EXCEPT !.code[pc + 1].b = Int2fb(cc.na, 0), !.code[pc + 1].c = Int2fb(cc.nh, 0)],
         Exp("NONRELOC", cc.t))
NewTable(R) ==
    [F |-> R.F, t |-> R.e.info, v |-> Void, na |-> 0, nh |-> 0, tostore |-> 0]
Constructor(F, items) ==
    SetSizes(LastListField(Fields(NewTable(Exp2NextReg(Pair(Code(F, "NEWTABLE", 0, 0, 0),
                                                            Exp("RELOCABLE", Pc(F))))), items)),
             Pc(F))

\* field, for each of the names
RECURSIVE Field(_, _)
FieldOf(R, name) == Indexed(R.e, StringK(R.F, name))
Field(R, names) ==
    IF names = << >> THEN R ELSE Field(FieldOf(Exp2AnyReg(R), Head(names)), Tail(names))

\* primaryexp, for what follows the prefix
IndexWith(R, key) == Indexed(R.e, Exp2Val(Expr(R.F, key)))
MethodOf(e, K) == Self(Pair(K.F, e), K.e)
Suffix(R, x) ==
    IF x.t = "index" THEN IndexWith(Exp2AnyReg(R), x.key)
    ELSE FuncArgs(IF x.t = "call" THEN Exp2NextReg(R) ELSE MethodOf(R.e, StringK(R.F, x.name)),
                  x.args)
PrimaryExp(F, x) == Suffix(Expr(F, IF x.t = "call" THEN x.f ELSE x.o), x)

\* subexpr and simpleexp
RightOperand(R, x) == Posfix(x.op, R.e, Expr(R.F, x.r))
Expr(F, x) ==
    CASE x.t = "nil" -> Pair(F, Exp("NIL", 0))
      [] x.t = "true" -> Pair(F, Exp("TRUE", 0))
      [] x.t = "false" -> Pair(F, Exp("FALSE", 0))
      [] x.t = "num" -> Pair(F, Exp("KNUM", x.n))
      [] x.t = "str" -> StringK(F, x.s)
      [] x.t = "dots" -> Pair(Fail(Code([F EXCEPT !.needsarg = FALSE], "VARARG", 0, 1, 0), ~F.va),
                              Exp("VARARG", Pc(F)))
      [] x.t = "cons" -> Constructor(F, x.items)
      [] x.t = "func" -> Body(F, x)
      [] x.t = "paren" -> DischargeVars(Expr(F, x.e))
      [] x.t = "var" -> SingleVar(F, x.name)
      [] x.t = "un" -> Prefix(x.op, Expr(F, x.e))
      [] x.t = "bin" -> RightOperand(Infix(x.op, Expr(F, x.l)), x)
      [] OTHER -> PrimaryExp(F, x)

\* explist1: all values but the last are in consecutive registers
ExpListRest(R, xs) == IF R.F.failed \/ xs = << >> THEN R ELSE ExpList1(Exp2NextReg(R).F, xs)
ExpList1(F, xs) == ExpListRest(Expr(F, Head(xs)), Tail(xs))

-----------------------------------------------------------------------------
(* Statements.                                                             *)

EndBlock(F) == LeaveBlock(Assert(F, InnerBlock(F).breaklist = NoJump))
Block(F, ss) == EndBlock(Chunk(EnterBlock(F, FALSE), ss))

\* check_conflict: a local is assigned that the targets lhs read so far use
CheckConflict(F, lhs, v) ==
    LET conflict(x) == x.k = "INDEXED" /\ (x.info = v.info \/ x.aux = v.info)
        safe(x) == IF x.k # "INDEXED" THEN x
                   ELSE [x EXCEPT !.info = IF @ = v.info THEN F.freereg ELSE @,
                                  !.aux = IF @ = v.info THEN F.freereg ELSE @]
    IN  IF \E i \in 1..Len(lhs) : conflict(lhs[i])
        THEN [F |-> ReserveRegs(Code(F, "MOVE", F.freereg, v.info, 0), 1),
              lhs |-> [i \in 1..Len(lhs) |-> safe(lhs[i])]]
        ELSE [F |-> F, lhs |-> lhs]

\* the left-hand sides T.lhs of an assignment
RECURSIVE Targets(_, _)
AddTarget(lhs, R) ==
    [(IF R.e.k = "LOCAL" THEN CheckConflict(R.F, lhs, R.e) ELSE [F |-> R.F, lhs |-> lhs])
        EXCEPT !.lhs = Append(@, R.e)]
Targets(T, xs) ==
    IF T.F.failed \/ xs = << >> THEN T
    ELSE Targets(AddTarget(T.lhs, Expr(T.F, Head(xs))), Tail(xs))

\* storing into lhs, last first, the values on top of the registers
RECURSIVE StoreAll(_, _)
StoreAll(F, lhs) ==
    IF F.failed \/ lhs = << >> THEN F
    ELSE StoreAll(StoreVar(lhs[Len(lhs)], Pair(F, Exp("NONRELOC", F.freereg - 1))),
                  SubSeq(lhs, 1, Len(lhs) - 1))

AssignValues(lhs, R, nexps) ==
    LET n == Len(lhs)
    IN  IF nexps = n THEN StoreAll(StoreVar(lhs[n], SetOneRet(R)), SubSeq(lhs, 1, n - 1))
        ELSE StoreAll([AdjustAssign(R, n, nexps) EXCEPT
                          !.freereg = IF nexps > n THEN @ - (nexps - n) ELSE @], lhs)
AssignTo(T, es) == AssignValues(T.lhs, ExpList1(T.F, es), Len(es))
Assignment(F, xs, es) == AssignTo(Targets([F |-> F, lhs |-> << >>], xs), es)

\* cond: l is the list of the jumps taken when the condition is false
NilIsFalse(R) == IF R.e.k = "NIL" THEN [R EXCEPT !.e.k = "FALSE"] ELSE R
FalseList(R) == List(R.F, R.e.f)
Cond(F, x) == FalseList(GoIfTrue(NilIsFalse(Expr(F, x))))

\* breakstat
Breakable(F) == {i \in 1..Len(F.bl) : F.bl[i].isbreakable}
LoopBlock(F) == CHOOSE i \in Breakable(F) : \A j \in Breakable(F) : j <= i
SetBreaklist(J, b) == [J.F EXCEPT !.bl[b].breaklist = J.l]
AddBreak(J, b) == SetBreaklist(ConcatTo(J.F.bl[b].breaklist, J), b)

BreakStatNoClose(F) == AddBreak(Jump(F), LoopBlock(F))

BreakStat(F) ==
    LET upval == \E i \in LoopBlock(F) + 1..Len(F.bl) : F.bl[i].upval
    IN  IF Breakable(F) = {} THEN Fail(F, TRUE)
        ELSE AddBreak(Jump(IF upval THEN Code(F, "CLOSE", F.bl[LoopBlock(F)].nactvar, 0, 0) ELSE F),
                      LoopBlock(F))

WhileBody(C, whileinit, body) ==
    PatchToHere(LeaveBlock(PatchList(Jump(Block(EnterBlock(C.F, TRUE), body)), whileinit)), C.l)
WhileStat(F, x, body) == WhileBody(Cond(GetLabel(F), x), Pc(F), body)

Until(C, init) ==
    IF InnerBlock(C.F).upval
    THEN PatchList(Jump(LeaveBlock(PatchToHere(BreakStat(C.F), C.l))), init)
    ELSE PatchList(List(LeaveBlock(C.F), C.l), init)
RepeatStat(F, body, x) ==
    LeaveBlock(Until(Cond(Chunk(EnterBlock(EnterBlock(GetLabel(F), TRUE), FALSE), body), x), Pc(F)))

\* exp1, for each of the expressions
RECURSIVE Exp1(_, _)
Exp1(F, xs) == IF xs = << >> THEN F ELSE Exp1(Exp2NextReg(Expr(F, Head(xs))).F, Tail(xs))

\* forbody; base is the first of the three control variables
ForJump(F, op, base) == List(Code(F, op, base, NoJump, 0), Pc(F))
ForPrep(F, base, isnum) == IF isnum THEN ForJump(F, "FORPREP", base) ELSE Jump(F)
ForEnd(F, base, nvars, isnum) ==
    IF isnum THEN ForJump(F, "FORLOOP", base) ELSE Jump(Code(F, "TFORLOOP", base, 0, nvars))
ForBlock(F, nvars, body) ==
    LeaveBlock(Block(ReserveRegs(AdjustLocalVars(EnterBlock(F, FALSE), nvars), nvars), body))
ForLoop(P, base, nvars, isnum, body) ==
    PatchList(ForEnd(PatchToHere(ForBlock(P.F, nvars, body), P.l), base, nvars, isnum), P.l + 1)
ForBody(F, base, nvars, isnum, body) ==
    ForLoop(ForPrep(AdjustLocalVars(F, 3), base, isnum), base, nvars, isnum, body)

\* fornum up to forbody; es has the initial value, the limit and maybe the step
StepOne(J) == ReserveRegs(LoadFrom(J, "LOADK", J.F.freereg), 1)
ForStep(F, es) == IF Len(es) = 3 THEN F ELSE StepOne(AddK(F, Num(1)))
ForNum(F, name, es) ==
    ForStep(Exp1(NewLocalVars(F, <<"(for index)", "(for limit)", "(for step)", name>>), es), es)

\* forlist up to forbody
ForList(F, names, es) ==
    CheckStack(AdjustAssign(ExpList1(NewLocalVars(F, <<"(for generator)", "(for state)",
                                                       "(for control)">> \o names), es),
                            3, Len(es)), 3)

ForVars(F, s) == IF s.t = "fornum" THEN ForNum(F, s.name, s.es) ELSE ForList(F, s.names, s.es)
ForStat(F, s) ==
    LeaveBlock(ForBody(ForVars(EnterBlock(F, TRUE), s), F.freereg,
                       IF s.t = "fornum" THEN 1 ELSE Len(s.names), s.t = "fornum", s.body))

\* test_then_block: l is the list of the jumps over the block
ThenBlock(C, body) == List(Block(C.F, body), C.l)
TestThenBlock(F, c) == ThenBlock(Cond(F, c.cond), c.body)

\* ifstat: escapelist are the jumps to its end, T.l those over the block just
\* read; clauses are the ones left to read, else is << >> or <<block>>
RECURSIVE IfNext(_, _, _, _)
PatchHere(J) == PatchToHere(J.F, J.l)
IfEscape(J, flist, clauses, else) == IfNext(PatchToHere(J.F, flist), J.l, clauses, else)
IfRest(T, escapelist, clauses, else) ==
    IF clauses = << >> /\ else = << >> THEN PatchHere(Concat(T.F, escapelist, T.l))
    ELSE IfEscape(ConcatTo(escapelist, Jump(T.F)), T.l, clauses, else)
IfNext(F, escapelist, clauses, else) ==
    IF clauses # << >> THEN IfRest(TestThenBlock(F, Head(clauses)), escapelist, Tail(clauses), else)
    ELSE PatchToHere(Block(F, else[1]), escapelist)
IfStat(F, clauses, else) == IfNext(F, NoJump, clauses, else)

LocalFunc(F, name, f) ==
    StoreVar(Exp("LOCAL", F.freereg),
             Body(AdjustLocalVars(ReserveRegs(NewLocalVar(F, name), 1), 1), f))

LocalValues(F, es) == IF es = << >> THEN Pair(F, Void) ELSE ExpList1(F, es)
LocalStat(F, names, es) ==
    AdjustLocalVars(AdjustAssign(LocalValues(NewLocalVars(F, names), es), Len(names), Len(es)),
                    Len(names))

\* funcstat: FUNCTION name{.field} body; a method has the parameter self
DefineFunc(R, f) == StoreVar(R.e, Body(R.F, f))
FuncStat(F, name, fields, f) == DefineFunc(Field(SingleVar(F, name), fields), f)

\* exprstat, for a call
NoResults(R) == [R.F EXCEPT !.code[R.e.info + 1].c = 1]
CallStat(F, x) == NoResults(Expr(F, x))

\* retstat: open results (a tail call if there is nothing else), one value or several
RetOpen(F, e, n) ==
    Ret(IF e.k = "CALL" /\ n = 1
        THEN Assert([F EXCEPT !.code[e.info + 1].op = "TAILCALL"], At(F, e.info).a = F.nactvar)
        ELSE F, F.nactvar, MultRet)
RetOne(R) == Ret(R.F, R.e.info, 1)
RetMany(F, n) == Ret(Assert(F, n = F.freereg - F.nactvar), F.nactvar, n)

RetValuesCounted(R, n) ==
    IF HasMultRet(R.e) THEN Ret(SetReturns(R, MultRet).F, R.F.nactvar, n)
    ELSE IF n = 1 THEN RetOne(Exp2AnyReg(R))
    ELSE RetMany(Exp2NextReg(R).F, n)

RetValues(R, n) ==
    IF HasMultRet(R.e) THEN RetOpen(SetReturns(R, MultRet).F, R.e, n)
    ELSE IF n = 1 THEN RetOne(Exp2AnyReg(R))
    ELSE RetMany(Exp2NextReg(R).F, n)

RetStat(F, es) == IF es = << >> THEN Ret(F, 0, 0) ELSE RetValues(ExpList1(F, es), Len(es))

Statement(F, s) ==
    CASE s.t = "if" -> IfStat(F, s.clauses, s.else)
      [] s.t = "while" -> WhileStat(F, s.cond, s.body)
      [] s.t = "do" -> Block(F, s.body)
      [] s.t \in {"fornum", "forlist"} -> ForStat(F, s)
      [] s.t = "repeat" -> RepeatStat(F, s.body, s.cond)
      [] s.t = "local" -> LocalStat(F, s.names, s.es)
      [] s.t = "function" -> FuncStat(F, s.name, s.fields, s.f)
      [] s.t = "localfunc" -> LocalFunc(F, s.name, s.f)
      [] s.t = "return" -> RetStat(F, s.es)
      [] s.t = "break" -> BreakStat(F)
      [] s.t = "callstat" -> CallStat(F, s.call)
      [] s.t = "assign" -> Assignment(F, s.vars, s.es)

\* chunk: after each statement its registers are free again
EndStatement(F) ==
    [Assert(F, F.maxstack >= F.freereg /\ F.freereg >= F.nactvar) EXCEPT !.freereg = F.nactvar]
Chunk(F, ss) ==
    IF F.failed \/ ss = << >> THEN F ELSE Chunk(EndStatement(Statement(F, Head(ss))), Tail(ss))

\* luaY_parser: the main function takes any arguments
Parser(program) == CloseFunc(Chunk(OpenFunc(<< >>, TRUE), program))
=============================================================================
