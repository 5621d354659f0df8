---------------------------- MODULE MCLuaCompile ----------------------------
(* Programs for LuaExec, by what they exercise.                            *)
EXTENDS LuaExec

Kw(t) == [t |-> t]
N(n) == [t |-> "num", n |-> n]
Str(s) == [t |-> "str", s |-> s]
Var(x) == [t |-> "var", name |-> x]
Call(f, args) == [t |-> "call", f |-> f, args |-> args]
Ask0 == Call(Var("f"), << >>)
Index(o, key) == [t |-> "index", o |-> o, key |-> key]
Un(op, e) == [t |-> "un", op |-> op, e |-> e]
Bin(op, l, r) == [t |-> "bin", op |-> op, l |-> l, r |-> r]
Func(pars, va, body) == [t |-> "func", pars |-> pars, va |-> va, body |-> body]
Local(names, es) == [t |-> "local", names |-> names, es |-> es]
Assign(vars1, es) == [t |-> "assign", vars |-> vars1, es |-> es]
Tell(es) == [t |-> "callstat", call |-> Call(Var("g"), es)]
Return(es) == [t |-> "return", es |-> es]
If(c, then, else) == [t |-> "if", clauses |-> <<[cond |-> c, body |-> then]>>, else |-> else]
While(c, body) == [t |-> "while", cond |-> c, body |-> body]
Repeat(body, c) == [t |-> "repeat", body |-> body, cond |-> c]
Break == Kw("break")

-----------------------------------------------------------------------------
(* Expressions: two operators over a local, a call and constants, as a     *)
(* value, as a condition and as an argument.                               *)

Atoms == {Kw("nil"), Kw("true"), N(2), Var("a"), Ask0}
Unaries == {"NOT", "MINUS"}
Binaries == {"AND", "OR", "EQ", "GT", "SUB", "CONCAT"}
One(xs, ys) == {Un(op, x) : op \in Unaries, x \in xs} \cup
               {Bin(op, x, y) : op \in Binaries, x \in xs, y \in ys}
Ones == One(Atoms, Atoms)
Paren(e) == [t |-> "paren", e |-> e]
Twos == {Un("NOT", x) : x \in Ones} \cup
        {Bin(op, Paren(x), y) : op \in {"AND", "OR", "EQ", "CONCAT"}, x \in Ones, y \in {Var("a"), Ask0}} \cup
        {Bin(op, y, x) : op \in {"AND", "OR", "EQ", "CONCAT"}, x \in Ones, y \in {Var("a"), Ask0}}

WithA(ss) == <<Local(<<"a">>, <<Ask0>>)>> \o ss
AsValue(e) == WithA(<<Local(<<"b">>, <<e>>), Tell(<<Var("b"), Var("a")>>)>>)
AsCond(e) == WithA(<<If(e, <<Tell(<<N(1)>>)>>, <<<<Tell(<<N(2)>>)>>>>)>>)
AsArg(e) == WithA(<<Assign(<<Var("a")>>, <<e>>), Return(<<e, Var("a")>>)>>)
Expressions == {AsValue(e) : e \in Twos} \cup {AsCond(e) : e \in Twos} \cup {AsArg(e) : e \in Ones}

-----------------------------------------------------------------------------
(* Loops: their bodies declare and capture variables, break and return.    *)

Capture(e) == Assign(<<Var("c")>>, <<Func(<< >>, FALSE, <<Return(<<e>>)>>)>>)
Set(x) == Assign(<<Var(x)>>, <<Ask0>>)
LoopStats ==
    {Local(<<"b">>, <<Ask0>>), Local(<<"b", "d">>, << >>), Capture(Var("b")), Set("b"),
     [t |-> "do", body |-> <<Local(<<"b">>, <<Var("a")>>), Capture(Var("b"))>>],
     If(Var("b"), <<Break>>, << >>), Tell(<<Var("b")>>)}
LoopBodies ==
    {<<x, y>> : x, y \in LoopStats} \cup
    {<<Local(<<"b">>, <<Ask0>>), x, y>> : x, y \in LoopStats} \cup
    {<<Local(<<"b">>, <<Ask0>>), Capture(Var("b")), x>> :
         x \in {Break, Return(<<Var("b")>>), If(Var("b"), <<Break>>, <<<<Set("b")>>>>)}}
Loops(body) ==
    {While(Ask0, body), Repeat(body, Var("b")), Repeat(body, Bin("AND", Var("b"), Ask0)),
     [t |-> "fornum", name |-> "a", es |-> <<N(2), N(1), Un("MINUS", N(1))>>, body |-> body],
     [t |-> "forlist", names |-> <<"a", "d">>, es |-> <<Ask0>>, body |-> body]}
Looping == {WithA(<<Local(<<"c">>, << >>), loop, Tell(<<Call(Var("c"), << >>), Var("a")>>)>>) :
                loop \in UNION {Loops(body) : body \in LoopBodies}}

-----------------------------------------------------------------------------
(* Assignments: which value goes where, and through which table and key.   *)

Lhs == {Var("a"), Var("b"), Var("x"), Index(Var("a"), Var("b")), Index(Var("b"), Var("a"))}
Rhs == {Var("a"), Var("b"), N(1), Ask0}
Lists == {<<x>> : x \in Rhs} \cup {<<x, y>> : x, y \in Rhs} \cup
         {<<x, Ask0, y>> : x, y \in {Var("a"), Ask0}}
Assigning ==
    {<<Local(<<"a", "b">>, <<Ask0>>), Assign(lhs, es), Tell(<<Var("a"), Var("b")>>)>> :
        lhs \in {<<x, y>> : x, y \in Lhs} \cup {<<x, Var("a"), Var("b")>> : x \in Lhs}, es \in Lists}

-----------------------------------------------------------------------------
(* Lists of values: arguments, results, table constructors, parameters.    *)

Dots == Kw("dots")
Elements == {Var("a"), Ask0, Dots, Kw("nil"), Index(Var("a"), Str("k"))}
ValueLists == {<< >>} \cup {<<x>> : x \in Elements} \cup {<<x, y>> : x, y \in Elements} \cup
              {<<x, y, z>> : x \in {Var("a"), Dots}, y, z \in Elements}
Item(e) == [key |-> << >>, e |-> e]
Field1(k, e) == [key |-> <<k>>, e |-> e]
Items1(es) == [i \in DOMAIN es |-> Item(es[i])]
Cons(items) == [t |-> "cons", items |-> items]
Local3(es) == Local(<<"p", "q", "r">>, es)
TellAll == Tell(<<Var("p"), Var("q"), Var("r")>>)
LocalFunc1(pars, va, body) == [t |-> "localfunc", name |-> "h", f |-> Func(pars, va, body)]
Uses(es) ==
    {<<Return(es)>>, <<Local3(es), TellAll>>, <<Return(<<Cons(Items1(es))>>)>>,
     <<Return(<<Cons(<<Item(Ask0), Field1(Str("k"), Ask0)>> \o Items1(es))>>)>>,
     <<Return(<<[t |-> "method", o |-> Var("a"), name |-> "m", args |-> es]>>)>>,
     <<LocalFunc1(<<"p", "q">>, FALSE, <<Return(<<Var("q"), Var("p"), Var("a")>>)>>),
       Local3(<<Call(Var("h"), es)>>), TellAll>>,
     <<LocalFunc1(<<"p">>, TRUE, <<Return(<<Var("p"), Var("arg")>>)>>), Return(<<Call(Var("h"), es)>>)>>,
     <<LocalFunc1(<<"p">>, TRUE, <<Tell(<<Var("p")>>), Return(<<Dots>>)>>),
       Tell(<<Call(Var("h"), es)>>)>>}
Listing == {WithA(u) : u \in UNION {Uses(es) : es \in ValueLists}}

-----------------------------------------------------------------------------
(* Functions: upvalues of upvalues, assignments to them, tail calls.       *)

Counter(body) == <<Local(<<"n">>, <<N(0)>>), LocalFunc1(<< >>, FALSE, body)>>
Up == Assign(<<Var("n")>>, <<Bin("ADD", Var("n"), N(1))>>)
Twice == <<[t |-> "callstat", call |-> Call(Var("h"), << >>)], Tell(<<Call(Var("h"), << >>), Var("n")>>)>>
Functions ==
    {Counter(<<Up, Return(<<Var("n")>>)>>) \o Twice,
     Counter(<<Return(<<Func(<< >>, FALSE, <<Up, Return(<<Var("n"), Var("a")>>)>>)>>)>>) \o
         <<Local(<<"a">>, <<Call(Var("h"), << >>)>>), Tell(<<Call(Var("a"), << >>), Var("n")>>)>>,
     Counter(<<Up, If(Bin("GE", Var("n"), N(2)), <<Return(<<Var("n")>>)>>, << >>),
               Return(<<Call(Var("h"), <<Ask0>>)>>)>>) \o Twice,
     <<[t |-> "function", name |-> "x", fields |-> << >>, f |-> Func(<< >>, FALSE, <<Return(<<N(1)>>)>>)],
       [t |-> "function", name |-> "x", fields |-> <<"y">>, f |-> Func(<<"self">>, FALSE, << >>)],
       Return(<<Un("LEN", Str("s")), Bin("DIV", N(7), N(2)), Bin("MOD", N(7), Var("n"))>>)>>,
     WithA(<<[t |-> "if", clauses |-> <<[cond |-> Var("a"), body |-> <<Tell(<<N(1)>>)>>],
                                        [cond |-> Kw("nil"), body |-> <<Tell(<<N(2)>>)>>],
                                        [cond |-> Ask0, body |-> <<Return(<<Var("a")>>)>>]>>,
              else |-> <<<<Tell(<<N(3)>>)>>>>], Tell(<<Bin("LT", N(1), Ask0)>>)>>)}

MCPrograms == Expressions \cup Looping \cup Assigning \cup Listing \cup Functions
=============================================================================
