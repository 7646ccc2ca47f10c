----------------------------- MODULE MCGenerics -----------------------------
(* Instance of Generics: generic functions that call one another directly,  *)
(* through slices, with parameters in another order and recursively, and    *)
(* #run blocks that call and emit.                                          *)
EXTENDS Generics

Prim(n) == Type("prim", n, <<>>)
Named(n) == Type("named", n, <<>>)
Slice(t) == Type("slice", "", <<t>>)
Typed(t) == [k |-> "typed", t |-> t]
Other == [k |-> "other", t |-> I64]
Call(f, args) == [f |-> f, args |-> args]

Id == Func("id", <<"T">>, <<Named("T")>>, <<>>)
Wrap(f, tp) == Func("wrap", <<tp>>, <<Named(tp)>>,
                 <<Call(f, <<Typed(Slice(Named(tp)))>>), Call(f, <<Typed(Named(tp))>>)>>)
Pair == Func("pair", <<"A", "B">>, <<Named("A"), Slice(Named("B")), Named("B")>>,
             <<Call("id", <<Typed(Named("B"))>>)>>)
Pick == Func("pick", <<"T">>, <<Prim("i32"), Slice(Named("T"))>>, <<>>)

\* Arguments of the calls in main.
Args == {<<>>, <<Other>>, <<Typed(Prim("i32"))>>, <<Typed(Slice(Prim("u8"))), Typed(Prim("i32"))>>}

MainBodies == {<<Call(f, a), Call(g, b)>> :
                 f \in {"wrap", "pair", "main"}, g \in {"pick", "id", "print"}, a \in Args, b \in Args}

GenericPrograms ==
  {<<Id, Wrap("id", tp), Pair, Pick, Func("main", <<>>, <<>>, b)>> : tp \in {"T", "U"}, b \in MainBodies}
  \cup {<<Func("main", <<>>, <<>>, <<Call("wrap", a)>>), Wrap(f, "U"), Pair>> :
          a \in Args, f \in {"wrap", "pair", "gone"}}

\* Two generic functions that call each other.
PingPong ==
  <<Func("ping", <<"T">>, <<Named("T")>>, <<Call("pong", <<Typed(Named("T"))>>)>>),
    Func("pong", <<"U">>, <<Named("U")>>, <<Call("ping", <<Typed(Named("U"))>>)>>),
    Func("main", <<>>, <<>>, <<Call("ping", <<Other>>)>>)>>

Emitted == {<<>>, <<Func("e", <<>>, <<>>, <<Call("f", <<>>)>>)>>, <<Blank>>,
            <<Func("e", <<"T">>, <<Named("T")>>, <<Call("f", <<Typed(Named("T"))>>)>>)>>}
RunCalls == {<<>>, <<Call("f", <<>>)>>, <<Call("e", <<Typed(Prim("i32"))>>), Call("print", <<>>)>>}

RunPrograms ==
  {<<Run(c1, e1), Func("f", <<>>, <<>>, c3), Run(c2, e2)>> :
      c1 \in RunCalls, c2 \in RunCalls, c3 \in RunCalls, e1 \in Emitted, e2 \in Emitted}

\* A block that emits a constant, and one that emits a function.
MCEmitting == {<<Run(<<>>, e), Func("f", <<>>, <<>>, <<>>)>> :
                 e \in {<<Blank>>, <<Func("f2", <<>>, <<>>, <<>>)>>}}

MCPrograms == GenericPrograms \cup RunPrograms \cup {PingPong}
============================================================================
