----------------------------- MODULE MCCodegen -----------------------------
(* Programs of a few helper functions and a main with two statements.      *)
EXTENDS Meaning

I(v) == Node("int", v, <<>>)

V(id, name) == Node("var", [id |-> id, name |-> name], <<>>)

A == V(1, "a")

B == V(2, "b")

X == V(8, "x")

Bin(op, l, r) == Node("bin", op, <<l, r>>)

Un(op, e) == Node("un", op, <<e>>)

Do(e) == Node("expr", "", <<e>>)

Assign(x, e) == Do(Bin("=", x, e))

Block(ss) == Node("block", "", ss)

CallOf(f, args) == Node("call", f, args)

Say(k) == Do(CallOf("print", <<I(k)>>))

Let(id, name, class, kids) == Node("let", [id |-> id, name |-> name, class |-> class], kids)

For(id, name, iter, body) == Node("for", [id |-> id, name |-> name], <<iter, body>>)

ToRange(lo, hi) == Node("range", "", <<lo, hi>>)

ArrayOf(ks) == Node("array", "", ks)

If(more, kids) == Node("if", more, kids)

Match(pats, kids) == Node("match", pats, kids)

To(lo, hi, incl) == [range |-> TRUE, lo |-> lo, hi |-> hi, incl |-> incl]

Arm(disc, var) == [all |-> FALSE, disc |-> disc, var |-> var]

CatchAll(var) == [all |-> TRUE, disc |-> Unknown, var |-> var]

Try(body, arms, bodies, fin) ==
  Node("try", [arms |-> arms, finally |-> fin # <<>>], <<Block(body)>> \o bodies \o fin)

IfElifElse ==
  If({"elif", "else"}, <<Bin("<", B, A), Block(<<Say(1)>>),
                         If({}, <<Bin("<", A, B), Block(<<Say(2)>>)>>), Block(<<Say(3)>>)>>)

RangeMatch == Match(<<<<To(0, 2, FALSE)>>, <<>>>>, <<A, CallOf("print", <<I(1)>>), CallOf("print", <<I(2)>>)>>)

\* The statements main is made of.
Statements == <<
  Assign(A, Bin("+", A, CallOf("inc", <<CallOf("inc", <<B>>)>>))),
  If({"else"}, <<Bin("<", A, B), Block(<<Assign(A, Bin("-", Bin("*", B, I(3)), A))>>), Block(<<Assign(B, Un("-", A))>>)>>),
  Node("while", "", <<Bin("<", A, I(5)), Block(<<Do(Bin("+=", A, I(2))), Say(1)>>)>>),
  For(4, "e", ArrayOf(<<I(1), I(2)>>), Block(<<Assign(B, Bin("+", V(4, "e"), B)), Say(2)>>)),
  Node("defer", "", <<Block(<<Do(Bin("+=", B, I(1))), Say(4)>>)>>),
  Let(5, "o", TRUE, <<I(0)>>),
  Try(<<Do(CallOf("risky", <<A>>))>>, <<Arm(2, FALSE), CatchAll(TRUE)>>,
      <<Block(<<Assign(B, I(9))>>), Block(<<Say(5)>>)>>, <<Block(<<Say(6)>>)>>),
  Try(<<Do(Un("deref", I(0)))>>, <<CatchAll(TRUE)>>, <<Block(<<Do(CallOf("inc", <<A>>))>>)>>, <<>>),
  Try(<<Assign(A, I(0)), Node("return", "", <<I(1)>>)>>, <<Arm(Unknown, TRUE)>>, <<Block(<<>>)>>, <<>>),
  Node("region", "", <<Block(<<Node("region", "", <<Block(<<>>)>>), Do(CallOf("inner", <<>>))>>)>>),
  Do(Un("++", B)),
  Node("unsafe", "", <<Do(Bin("*=", B, I(2))), Node("break", "", <<>>)>>),
  Node("while", "", <<Bin("<", A, I(3)), Block(<<Try(<<Do(CallOf("risky", <<I(0)>>))>>, <<CatchAll(FALSE)>>,
                                                    <<Block(<<Assign(A, Bin("+", A, I(1)))>>)>>, <<>>)>>)>>),
  Block(<<Let(6, "a", FALSE, <<>>), Assign(A, I(4))>>),
  For(4, "e", ArrayOf(<<I(1), I(2)>>),
      Block(<<Try(<<Do(CallOf("risky", <<I(0)>>))>>, <<CatchAll(FALSE)>>, <<Block(<<Assign(B, V(4, "e"))>>)>>, <<>>)>>)),
  If({}, <<Bin("<", B, A), Block(<<Node("defer", "", <<Say(8)>>)>>)>>),
  Do(CallOf("make", <<>>)),
  Do(Bin("+=", B, Bin("/", I(9), Bin("-", A, I(1))))),
  For(3, "i", ToRange(I(0), I(3)), Block(<<Assign(B, V(3, "i"))>>)),
  For(3, "i", ToRange(I(0), I(3)), Block(<<Assign(B, Bin("+", V(3, "i"), I(1)))>>)),
  Match(<<<<Lit(1), Lit(2)>>, <<Lit(0)>>, <<>>>>, <<A, Bin("=", B, I(7)), CallOf("print", <<I(3)>>), Bin("+=", A, I(1))>>),
  Node("return", "", <<Bin("+", A, I(1))>>),
  Try(<<Do(CallOf("risky", <<I(0)>>))>>, <<Arm(5, FALSE)>>, <<Block(<<>>)>>, <<>>),
  Node("region", "", <<Block(<<Assign(A, Bin("+", A, I(1)))>>)>>),
  Node("throw", "", <<Bin("+", A, I(2))>>),
  Do(Un("deref", Bin("==", A, I(7)))),
  Do(CallOf("guard", <<A>>)),
  Assign(B, Node("index", "", <<ArrayOf(<<I(5)>>), Bin("&&", A, I(0))>>)),
  If({"elif"}, <<Bin("<", B, A), Block(<<Say(1)>>),
                 If({"elif"}, <<Bin("==", A, I(1)), Block(<<Assign(A, I(3))>>),
                                If({}, <<Bin("<", A, I(5)), Block(<<Say(2)>>)>>)>>)>>),
  IfElifElse,
  Node("if let", "", <<A, Block(<<Say(3)>>)>>),
  Assign(B, Match(<<<<To(0, 2, FALSE)>>, <<To(2, 3, TRUE)>>, <<>>>>, <<A, I(4), I(5), CallOf("inc", <<A>>)>>)),
  RangeMatch >>

F(name, params, body, pre, post, throws) ==
  [name |-> name, params |-> params, body |-> Block(body), pre |-> pre, post |-> post, throws |-> throws]

x1 == <<[id |-> 8, name |-> "x"]>>

\* inc has a deferred block and a condition, risky may throw, make has an object,
\* guard catches a fault.
Helpers == <<
  F("inc", x1, <<Node("defer", "", <<Block(<<Assign(X, I(0)), Say(9)>>)>>), Node("defer", "", <<Say(7)>>),
                 Node("return", "", <<Bin("+", X, I(1))>>)>>, <<Bin("<", X, I(6))>>, <<>>, FALSE),
  F("risky", x1, <<If({}, <<Un("!", X), Block(<<Node("throw", "", <<I(2)>>)>>)>>),
                   Node("return", "", <<X>>)>>, <<>>, <<>>, TRUE),
  F("inner", <<>>, <<Node("region", "", <<Block(<<>>)>>)>>, <<>>, <<>>, FALSE),
  F("make", <<>>, <<Let(9, "m", TRUE, <<I(0)>>)>>, <<>>, <<>>, FALSE),
  F("guard", x1, <<Try(<<Do(Un("deref", X))>>, <<CatchAll(TRUE)>>, <<Block(<<Assign(X, I(1))>>)>>, <<>>)>>,
    <<>>, <<Bin("||", X, I(0))>>, FALSE) >>

MainOf(i, j) ==
  F("main", <<>>, <<Let(1, "a", FALSE, <<I(1)>>), Let(2, "b", FALSE, <<I(2)>>), Statements[i], Statements[j],
                    Node("return", "", <<Bin("-", B, A)>>)>>, <<>>, <<>>, FALSE)

Uses(n) ==
  LET b == Below(n) IN {b[i].v : i \in {k \in DOMAIN b : b[k].t = "call"}}

\* A program holds only the functions main calls.
ProgramOf(m) ==
  LET u == Uses(m.body) IN Append(SelectSeq(Helpers, LAMBDA f : f.name \in u), m)

\* The statements after which another one may go differently.
Lasting == 17

\* One of these and any other, the one behind the other.
MCPrograms ==
  LET n == Len(Statements)
  IN [k \in 1..Lasting * n |-> ProgramOf(MainOf(1 + ((k - 1) \div n), 1 + ((k - 1) % n)))]

\* Programs (for Programs <- MCElif and so on) that hold one statement against the
\* specification of the language, behind a declaration of both variables: TLC finds
\* that Exact, and for MCGuard Guarded, does not hold of them.
MainOfOne(stmt) ==
  F("main", <<>>, <<Let(1, "a", FALSE, <<I(1)>>), Let(2, "b", FALSE, <<I(2)>>), stmt,
                    Node("return", "", <<Bin("-", B, A)>>)>>, <<>>, <<>>, TRUE)

MCElif == <<ProgramOf(MainOfOne(IfElifElse))>>

MCPatterns == <<ProgramOf(MainOfOne(RangeMatch))>>

MCCounter ==
  <<ProgramOf(MainOfOne(For(3, "i", ToRange(I(0), I(3)), Block(<<Assign(B, Bin("+", V(3, "i"), I(2)))>>))))>>

MCTag == <<ProgramOf(MainOfOne(Try(<<Do(Bin("/=", A, B))>>, <<CatchAll(TRUE)>>, <<Block(<<Say(5)>>)>>, <<>>)))>>

MCThrow ==
  <<ProgramOf(MainOfOne(Try(<<Node("throw", "", <<I(2)>>)>>, <<CatchAll(TRUE)>>, <<Block(<<Say(5)>>)>>, <<>>)))>>

MCDefer == <<ProgramOf(MainOfOne(If({}, <<Bin("<", B, A), Block(<<Node("defer", "", <<Say(4)>>)>>)>>)))>>

\* A function that returns from its try, and one that is called after it.
MCGuard ==
  LET early == F("early", <<>>, <<Try(<<Node("return", "", <<I(1)>>)>>, <<CatchAll(TRUE)>>, <<Block(<<>>)>>, <<>>)>>,
                 <<>>, <<>>, FALSE)
  IN <<<<early>> \o ProgramOf(MainOfOne(Block(<<Do(CallOf("early", <<>>)), Do(CallOf("inc", <<A>>))>>)))>>

============================================================================
