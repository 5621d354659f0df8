----------------------------- MODULE LuaMeaning -----------------------------
(***************************************************************************)
(* What a program means: the reference semantics that the compiled code is *)
(* compared with (LuaExec).  It walks the syntax tree (LuaParser), with    *)
(* variables in a store and environments that map names to locations, and  *)
(* knows nothing of registers, jumps and upvalues.                         *)
(*                                                                         *)
(* The state st of an evaluation: store, used (answers used so far), log,  *)
(* fuel (loop iterations left), ctl ("go", "break", "return" or "stop")    *)
(* and ret (the values returned).  An expression yields [st, vs] with a    *)
(* sequence of values, a statement [st, env].  In a function that uses ... *)
(* the parser leaves arg nil (simpleexp, TK_DOTS); here arg is always the  *)
(* table of the extra arguments, so no program of the runs uses both.      *)
(***************************************************************************)
EXTENDS LuaCode

VarArgs == <<<<"str", "v1">>, <<"str", "v2">>>>   \* the arguments of the program
MaxFuel == 20                                     \* bound: loop iterations

IsFalse(v) == v \in {Nil, Bool(FALSE)}
First(vs) == IF vs = << >> THEN Nil ELSE vs[1]
Adjust(vs, n) == [i \in 1..n |-> IF i <= Len(vs) THEN vs[i] ELSE Nil]

\* The answer of the environment to the i-th question.
Answer(i, yes) == IF yes THEN <<Num(10 + i), Num(20 + i)>> ELSE << >>

\* Operations on values; a result << >> is an error.  (Strings are opaque.)
Arith(op, a, b) ==
    IF IsNum(a) /\ IsNum(b) /\ (op \in {"DIV", "MOD"} => b[2] # 0)
    THEN <<Num(NumOp(op, a[2], b[2]))>> ELSE << >>
Length(a) == IF a[1] \in {"str", "cat"} THEN <<Num(7)>> ELSE << >>
Joined(a, b) ==
    IF {a[1], b[1]} \subseteq {"num", "str", "cat"} THEN <<<<"cat", a, b>>>> ELSE << >>
Compared(op, a, b) ==
    CASE op = "EQ" -> <<Bool(a = b)>>
      [] IsNum(a) /\ IsNum(b) ->
             <<Bool(IF op = "LT" THEN a[2] < b[2] ELSE a[2] <= b[2])>>
      [] OTHER -> << >>

\* A table under construction is the set of its pairs.
TableOf(pairs) == <<"table", {q \in pairs : q[2] # Nil}>>

\* What the environment sees of a value.
Show(v) == IF v[1] \in {"closure", "func"} THEN <<"function">> ELSE v
ShowAll(vs) == [i \in DOMAIN vs |-> Show(vs[i])]

-----------------------------------------------------------------------------
Go(st) == st.ctl = "go"
Values(st, vs) == [st |-> st, vs |-> vs]
Stop(st, event) == [st EXCEPT !.log = Append(@, event), !.ctl = "stop"]

\* A question to the environment, which stops the program when it has no answer.
Ask(st, event, in) ==
    LET n == st.used + 1
    IN  IF n > Len(in) THEN Values(Stop(st, event), << >>)
        ELSE Values([st EXCEPT !.log = Append(@, event), !.used = n], Answer(n, in[n]))

\* The result of an operation on values, or an error.
Operation(st, result) ==
    IF ~Go(st) THEN Values(st, <<Nil>>)
    ELSE IF result = << >> THEN Values(Stop(st, <<"error">>), <<Nil>>)
    ELSE Values(st, result)

\* Environments: pairs <<name, location>>, the innermost last.
Bound(env, name) == {i \in DOMAIN env : env[i][1] = name}
Location(env, name) == env[CHOOSE i \in Bound(env, name) : \A j \in Bound(env, name) : j <= i][2]

\* New variables with their values.
Declare(st, env, names, vs) ==
    LET n == Len(names)
    IN  [st |-> [st EXCEPT !.store = @ \o Adjust(vs, n)],
         env |-> env \o [i \in 1..n |-> <<names[i], Len(st.store) + i>>]]

RECURSIVE Eval(_, _, _, _), EvalList(_, _, _, _), Items(_, _, _, _, _, _), Do(_, _, _, _),
          DoAll(_, _, _, _), Apply(_, _, _, _), Loop(_, _, _, _), Clauses(_, _, _, _),
          Lefts(_, _, _, _), StoreLefts(_, _, _, _), Count(_, _, _, _, _)

\* one value of an expression
Eval1(x, env, st, in) ==
    LET E == Eval(x, env, st, in) IN [st |-> E.st, v |-> First(E.vs)]

Apply(f, args, st, in) ==
    LET n == Len(f[2].pars)
        va == SubSeq(args, n + 1, Len(args))
        P == Declare(st, f[3], f[2].pars, args)
        A == Declare(P.st, P.env, <<"arg">>,
                     <<TableOf({<<Num(i), Show(va[i])>> : i \in DOMAIN va})>>)
        D == IF f[2].va THEN A ELSE P
        B == DoAll(f[2].body, Append(D.env, <<"...", va>>), D.st, in)
    IN  IF f[1] # "func" THEN Ask(st, <<"call", f, ShowAll(args)>>, in)
        ELSE IF B.st.ctl = "stop" THEN Values(B.st, << >>)
        ELSE Values([B.st EXCEPT !.ctl = "go", !.ret = << >>], B.st.ret)

\* All but the last expression yield one value.
EvalList(xs, env, st, in) ==
    LET E == Eval(Head(xs), env, st, in)
        T == EvalList(Tail(xs), env, E.st, in)
    IN  IF xs = << >> THEN Values(st, << >>)
        ELSE IF Len(xs) = 1 THEN E
        ELSE Values(T.st, <<First(E.vs)>> \o T.vs)

Items(items, n, pairs, env, st, in) ==
    LET it == Head(items)
        k == Eval1(it.key[1], env, st, in)
        V == Eval(it.e, env, IF it.key = << >> THEN st ELSE k.st, in)
        all == IF Len(items) = 1 THEN V.vs ELSE <<First(V.vs)>>
        new == IF it.key = << >> THEN {<<Num(n + i), Show(all[i])>> : i \in DOMAIN all}
               ELSE {<<k.v, Show(First(V.vs))>>}
    IN  IF items = << >> THEN Values(st, <<TableOf(pairs)>>)
        ELSE Items(Tail(items), IF it.key = << >> THEN n + 1 ELSE n, pairs \cup new, env, V.st, in)

Binary(x, env, st, in) ==
    LET a == Eval1(x.l, env, st, in)
        b == Eval1(x.r, env, a.st, in)
    IN  CASE x.op = "AND" -> IF IsFalse(a.v) THEN Values(a.st, <<a.v>>) ELSE Values(b.st, <<b.v>>)
          [] x.op = "OR" -> IF IsFalse(a.v) THEN Values(b.st, <<b.v>>) ELSE Values(a.st, <<a.v>>)
          [] x.op = "CONCAT" -> Operation(b.st, Joined(a.v, b.v))
          [] x.op = "NE" -> Operation(b.st, <<Bool(a.v # b.v)>>)
          [] x.op \in {"EQ", "LT", "LE"} -> Operation(b.st, Compared(x.op, a.v, b.v))
          [] x.op = "GT" -> Operation(b.st, Compared("LT", b.v, a.v))
          [] x.op = "GE" -> Operation(b.st, Compared("LE", b.v, a.v))
          [] OTHER -> Operation(b.st, Arith(x.op, a.v, b.v))

Unary(op, v, st) ==
    CASE op = "NOT" -> Operation(st, <<Bool(IsFalse(v))>>)
      [] op = "MINUS" -> Operation(st, Arith("UNM", v, v))
      [] op = "LEN" -> Operation(st, Length(v))

Eval(x, env, st, in) ==
    LET o == Eval1(x.o, env, st, in)
        key == Eval1(x.key, env, o.st, in)
        field == Ask(key.st, <<"get", Show(o.v), Show(key.v)>>, in)
        f == Eval1(x.f, env, st, in)
        args == EvalList(x.args, env, f.st, in)
        m == Ask(o.st, <<"get", Show(o.v), <<"str", x.name>>>>, in)
        margs == EvalList(x.args, env, m.st, in)
        e == Eval1(x.e, env, st, in)
    IN  CASE ~Go(st) -> Values(st, <<Nil>>)
          [] x.t = "nil" -> Values(st, <<Nil>>)
          [] x.t \in {"true", "false"} -> Values(st, <<Bool(x.t = "true")>>)
          [] x.t = "num" -> Values(st, <<Num(x.n)>>)
          [] x.t = "str" -> Values(st, <<<<"str", x.s>>>>)
          [] x.t = "dots" -> Values(st, Location(env, "..."))
          [] x.t = "var" /\ Bound(env, x.name) = {} -> Values(st, <<<<"global", <<"str", x.name>>>>>>)
          [] x.t = "var" -> Values(st, <<st.store[Location(env, x.name)]>>)
          [] x.t = "func" -> Values(st, <<<<"func", x, env>>>>)
          [] x.t = "paren" -> Values(e.st, <<e.v>>)
          [] x.t = "un" -> Unary(x.op, e.v, e.st)
          [] x.t = "bin" -> Binary(x, env, st, in)
          [] x.t = "cons" -> Items(x.items, 0, {}, env, st, in)
          [] x.t = "index" -> IF Go(key.st) THEN Values(field.st, <<First(field.vs)>>)
                              ELSE Values(key.st, <<Nil>>)
          [] x.t = "call" -> IF Go(args.st) THEN Apply(f.v, args.vs, args.st, in)
                             ELSE Values(args.st, <<Nil>>)
          [] x.t = "method" -> IF Go(o.st) /\ Go(margs.st)
                               THEN Apply(First(m.vs), <<o.v>> \o margs.vs, margs.st, in)
                               ELSE Values(IF Go(o.st) THEN margs.st ELSE o.st, <<Nil>>)

-----------------------------------------------------------------------------
(* Statements.                                                             *)

In(st, env) == [st |-> st, env |-> env]

\* The targets of an assignment: locations, globals, or <<object, key>>.
Lefts(xs, env, st, in) ==
    LET x == Head(xs)
        o == Eval1(x.o, env, st, in)
        key == Eval1(x.key, env, o.st, in)
        rest(s) == Lefts(Tail(xs), env, s, in)
        with(s, t) == Values(rest(s).st, <<t>> \o rest(s).vs)
    IN  IF xs = << >> THEN Values(st, << >>)
        ELSE IF x.t = "index" THEN with(key.st, <<"at", o.v, key.v>>)
        ELSE with(st, <<"var", x.name>>)

\* The assignments are made from the last to the first.
StoreLefts(lefts, vs, env, st) ==
    LET n == Len(lefts)
        t == lefts[n]
        seen(event) == [st EXCEPT !.log = Append(@, event)]
        s == CASE t[1] = "at" -> seen(<<"set", Show(t[2]), Show(t[3]), Show(vs[n])>>)
               [] Bound(env, t[2]) = {} -> seen(<<"set", <<"str", t[2]>>, Show(vs[n])>>)
               [] OTHER -> [st EXCEPT !.store[Location(env, t[2])] = vs[n]]
    IN  IF n = 0 \/ ~Go(st) THEN st ELSE StoreLefts(SubSeq(lefts, 1, n - 1), vs, env, s)

\* A block leaves the variables it declares.
BlockOf(ss, env, st, in) == DoAll(ss, env, st, in).st

EndOfLoop(st) == IF st.ctl = "break" THEN [st EXCEPT !.ctl = "go"] ELSE st
Burn(st) == IF st.fuel = 0 THEN [st EXCEPT !.ctl = "stop"] ELSE [st EXCEPT !.fuel = @ - 1]

\* while, repeat and the generic for, once round and on
Loop(s, env, st0, in) ==
    LET st == Burn(st0)
        c == Eval1(s.cond, env, st, in)
        W == BlockOf(s.body, env, c.st, in)
        B == DoAll(s.body, env, st, in)
        u == Eval1(s.cond, B.env, B.st, in)
        q == Apply(s.gen[1], <<s.gen[2], s.gen[3]>>, st, in)
        V == Declare(q.st, env, s.names, q.vs)
        G == BlockOf(s.body, V.env, V.st, in)
    IN  CASE ~Go(st) -> st
          [] s.t = "while" -> IF ~Go(c.st) \/ IsFalse(c.v) THEN c.st
                              ELSE IF Go(W) THEN Loop(s, env, W, in) ELSE EndOfLoop(W)
          [] s.t = "repeat" -> IF ~Go(B.st) THEN EndOfLoop(B.st)
                               ELSE IF Go(u.st) /\ IsFalse(u.v) THEN Loop(s, env, u.st, in) ELSE u.st
          [] s.t = "forlist" -> IF ~Go(q.st) \/ First(q.vs) = Nil THEN q.st
                                ELSE IF Go(G) THEN Loop([s EXCEPT !.gen[3] = First(q.vs)], env, G, in)
                                ELSE EndOfLoop(G)

\* the numeric for, from index i
Count(s, i, env, st, in) ==
    LET V == Declare(st, env, <<s.name>>, <<Num(i)>>)
        B == BlockOf(s.body, V.env, V.st, in)
        more == IF 0 < s.bounds[3] THEN i <= s.bounds[2] ELSE s.bounds[2] <= i
    IN  IF ~more THEN st
        ELSE IF Go(B) THEN Count(s, i + s.bounds[3], env, B, in) ELSE EndOfLoop(B)

Clauses(s, env, st, in) ==
    LET c == Eval1(Head(s.clauses).cond, env, st, in)
    IN  IF s.clauses = << >> THEN IF s.else = << >> THEN st ELSE BlockOf(s.else[1], env, st, in)
        ELSE IF ~Go(c.st) THEN c.st
        ELSE IF IsFalse(c.v) THEN Clauses([s EXCEPT !.clauses = Tail(@)], env, c.st, in)
        ELSE BlockOf(Head(s.clauses).body, env, c.st, in)

Do(s, env, st, in) ==
    LET E == EvalList(s.es, env, st, in)
        D == Declare(E.st, env, s.names, E.vs)
        F == Declare(st, env, <<s.name>>, <<Nil>>)
        L == Lefts(s.vars, env, st, in)
        A == EvalList(s.es, env, L.st, in)
        n == Len(s.es)
        by == IF n = 3 THEN E.vs[3] ELSE Num(1)
        target == IF s.fields = << >> THEN [t |-> "var", name |-> s.name]
                  ELSE [t |-> "index", o |-> [t |-> "var", name |-> s.name],
                        key |-> [t |-> "str", s |-> s.fields[1]]]
    IN  CASE s.t = "local" -> IF Go(E.st) THEN D ELSE In(E.st, env)
          [] s.t = "localfunc" ->
                 In([F.st EXCEPT !.store[Len(st.store) + 1] = <<"func", s.f, F.env>>], F.env)
          [] s.t = "function" ->
                 In(StoreLefts(Lefts(<<target>>, env, st, in).vs, <<<<"func", s.f, env>>>>, env, st),
                    env)
          [] s.t = "assign" -> In(StoreLefts(L.vs, Adjust(A.vs, Len(s.vars)), env, A.st), env)
          [] s.t = "callstat" -> In(Eval(s.call, env, st, in).st, env)
          [] s.t = "do" -> In(BlockOf(s.body, env, st, in), env)
          [] s.t \in {"while", "repeat"} -> In(Loop(s, env, st, in), env)
          [] s.t = "forlist" ->
                 In(Loop([t |-> "forlist", names |-> s.names, body |-> s.body,
                          gen |-> Adjust(E.vs, 3)], env, E.st, in), env)
          [] s.t = "fornum" ->
                 In(IF ~Go(E.st) THEN E.st
                    ELSE IF \A v \in {First(E.vs), Adjust(E.vs, 2)[2], by} : IsNum(v)
                      THEN Count([name |-> s.name, body |-> s.body,
                                  bounds |-> <<E.vs[1][2], E.vs[2][2], by[2]>>],
                                 E.vs[1][2], env, E.st, in)
                      ELSE Stop(E.st, <<"error">>), env)
          [] s.t = "if" -> In(Clauses(s, env, st, in), env)
          [] s.t = "return" -> In(IF Go(E.st) THEN [E.st EXCEPT !.ctl = "return", !.ret = E.vs]
                                  ELSE E.st, env)
          [] s.t = "break" -> In([st EXCEPT !.ctl = "break"], env)

DoAll(ss, env, st, in) ==
    LET S == Do(Head(ss), env, st, in)
    IN  IF ss = << >> \/ ~Go(st) THEN In(st, env) ELSE DoAll(Tail(ss), S.env, S.st, in)

\* What the environment sees of the program when it gives the answers in.
Meaning(program, in) ==
    LET st == DoAll(program, <<<<"...", VarArgs>>>>,
                    [store |-> << >>, used |-> 0, log |-> << >>, fuel |-> MaxFuel, ctl |-> "go",
                     ret |-> << >>], in).st
    IN  IF st.ctl = "stop" THEN st.log ELSE Append(st.log, <<"return", ShowAll(st.ret)>>)
=============================================================================
