---------------------------- MODULE MCOptimizer ----------------------------
(* Instance of Optimizer.  Folding: every constant expression with up to    *)
(* three operators over small literals.  Elimination: programs of three     *)
(* functions whose bodies declare, use, call and branch.                    *)
EXTENDS Optimizer

Num(n) == Node("int", n, <<>>)
Bool(b) == Node("bool", Truth(b), <<>>)
Id(n) == Node("ident", n, <<>>)
Un(op, e) == Node("un", op, <<e>>)
Bin(op, l, r) == Node("bin", op, <<l, r>>)
Call(f, args) == Node("call", "", <<Id(f)>> \o args)
Index(a, i) == Node("index", "", <<a, i>>)
Let(n, e) == Node("let", n, <<e>>)
Do(e) == Node("expr_stmt", "", <<e>>)
Block(items) == Node("block", "", items)
If(c, t, e) == Node("if", "", <<c, t, e>>)
While(c, b) == Node("while", "", <<c, b>>)
Return(e) == Node("return", "", <<e>>)
Func(name, exported, test, items) ==
  Node("func", [name |-> name, exported |-> exported, test |-> test], <<Block(items)>>)
Program(decls) == Node("program", "", decls)

Leaves == {Num(0), Num(1), Num(3), Num(Mod - 1), Bool(TRUE), Node("str", "s", <<>>)}
Simple == Leaves \cup {Un(op, e) : op \in {"neg", "!", "~"}, e \in {Num(1), Num(3)}}
Binaries == {Bin(op, l, r) : op \in Foldable, l \in Simple, r \in Simple}
Nested == {Un(op, b) : op \in {"neg", "!", "~"}, b \in Binaries}
            \cup {Bin(op, b, Un("!", Bin("/", Num(1), Num(0)))) : op \in {"&&", "||"}, b \in Binaries}

FoldPrograms == {Program(<<Func("main", FALSE, FALSE, <<Let("x", e)>>)>>) : e \in Nested}

\* Bodies that use f and g in different ways.
Bodies ==
  {<<Let("f", Un("neg", Call("g", <<>>))), Do(Call("f", <<>>))>>,
   <<Let("x", Index(Id("a"), Call("g", <<>>))), Do(Call("f", <<>>))>>,
   <<Let("x", Bin("+", Call("f", <<>>), Num(1))), Do(Call("g", <<Id("x")>>))>>,
   <<Let("x", Call("f", <<Call("g", <<>>)>>)), Return(Num(0))>>,
   <<If(Bool(FALSE), Block(<<Do(Call("f", <<>>))>>), Block(<<Do(Call("g", <<>>))>>)), Return(Num(0))>>,
   <<If(Bool(TRUE), Block(<<Let("y", Num(1)), Do(Call("f", <<>>))>>), Null), Return(Num(0))>>,
   <<Do(Call("g", <<>>)), If(Bool(FALSE), Block(<<Do(Call("f", <<>>))>>), Null)>>,
   <<If(Bin("&&", Bool(TRUE), Bool(FALSE)), Block(<<Do(Call("f", <<>>))>>), Null)>>,
   <<While(Id("x"), Block(<<Do(Call("f", <<>>)), Let("z", Id("x"))>>)), Do(Call("g", <<>>))>>}

MCElimination ==
  {Program(<<Func("f", e, FALSE, b1), Func("main", FALSE, FALSE, b2), Func("g", FALSE, t, <<Return(Num(1))>>)>>)
     : e \in BOOLEAN, t \in BOOLEAN, b1 \in Bodies, b2 \in Bodies}
  \cup
  {Program(<<Func("main", FALSE, FALSE, b2), Func("g", e, FALSE, b1)>>)
     : e \in BOOLEAN, b1 \in Bodies, b2 \in Bodies}

MCPrograms == FoldPrograms \cup MCElimination

\* A branch that is never taken, without an else.
MCUnreachable ==
  {Program(<<Func("main", FALSE, FALSE,
      <<If(Bool(b), Block(<<Do(Call("f", <<>>))>>), e), Return(Num(0))>>)>>)
     : b \in BOOLEAN, e \in {Null, Block(<<Do(Call("g", <<>>))>>)}}
============================================================================
