----------------------------- MODULE MCSemantic -----------------------------
(* Programs for Semantic.                                                  *)
EXTENDS Semantic

Func(n, p)     == [kind |-> "func", name |-> n, param |-> p]
Let(n, v)      == [kind |-> "let", name |-> n, value |-> v]
Const(n, v)    == [kind |-> "const", name |-> n, value |-> v]
Comptime(n, v) == [kind |-> "run", name |-> n, value |-> v]
Class(n, f, m) == [kind |-> "class", name |-> n, field |-> f, method |-> m]

Forward   == <<Func("f", "x"), Let("y", "f")>>
Method    == <<Func("f", "x"), Class("y", "x", "f"), Let("x", "f")>>
Early     == <<Comptime("x", "f"), Func("f", "x")>>
Chain     == <<Const("x", "y"), Const("y", "f"), Const("f", "1")>>
Stuck     == <<Const("x", "f"), Func("f", "y"), Const("y", "1")>>
Circular  == <<Const("x", "y"), Const("y", "x")>>

MCPrograms == {Forward, Method, Early, Chain, Stuck, Circular}
=============================================================================
