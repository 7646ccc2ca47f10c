------------------------------ MODULE Codegen ------------------------------
(***************************************************************************)
(* src/codegen.c: from the tree of a function to instructions.  An         *)
(* instruction is a tuple; only what the machine of module Nasm needs is   *)
(* kept of its operands.  Sizes are counted in words of eight bytes, and   *)
(* the word at rbp - 8*k is slot k of the frame.                           *)
(*                                                                         *)
(* A node has a type, a value and children; a variable has an identity     *)
(* (the declaration it is resolved to) and a name.                         *)
(***************************************************************************)
EXTENDS Integers, FiniteSets, SequencesExt

Node(t, v, kids) == [t |-> t, v |-> v, kids |-> kids]

\* What the generator carries along: the code so far, the label counter, the
\* deferred blocks of the function and the objects to drop, most recent first,
\* and (for the properties only) the words an enclosing statement has pushed.
Start(drops, labels) == [code |-> <<>>, lab |-> labels, defers |-> <<>>, drops |-> drops, depth |-> 0]

Emit(c, insts) == [c EXCEPT !.code = @ \o insts]

Labels(c, n) == [c EXCEPT !.lab = @ + n]

Deeper(c, n) == [c EXCEPT !.depth = @ + n]

----------------------------------------------------------------------------
(* Stack frame.                                                            *)

\* The variables that are given a slot below a node, in order.  Nothing is
\* collected from finally, defer, region, unsafe and match bodies.
RECURSIVE frame_collect(_)
frame_collect(n) ==
  LET below(from) == FlattenSeq([i \in 1..Len(n.kids) - from + 1 |-> frame_collect(n.kids[from + i - 1])]) IN
  CASE n.t \in {"let", "for"} -> <<[id |-> n.v.id, name |-> n.v.name]>> \o below(1)
    [] n.t \in {"block", "if", "if let", "while"} -> below(1)
    [] n.t = "try" -> FlattenSeq([i \in 1..1 + Len(n.v.arms) |-> frame_collect(n.kids[i])])
    [] OTHER -> <<>>

compute_frame(f) == f.params \o frame_collect(f.body)

\* The stack pointer moves by a multiple of two words.
Pairs(words) == words + (words % 2)

FrameSize(slots) == Pairs(Len(slots))

\* Slot 1 stands for every variable that has none.
find_var_offset(slots, id) ==
  LET at == {k \in DOMAIN slots : slots[k].id = id} IN IF at = {} THEN 1 ELSE Min(at)

\* By name, the variable collected last is found first.
find_var_offset_by_name(slots, name) ==
  LET at == {k \in DOMAIN slots : slots[k].name = name} IN IF at = {} THEN 1 ELSE Max(at)

----------------------------------------------------------------------------
(* Expressions: the value ends up in rax.                                  *)

Regs == <<"rdi", "rsi", "rdx", "rcx", "r8", "r9">>

Assignments == {"=", "+=", "-=", "*=", "/="}

\* The right operand is evaluated first and waits on the stack; && and || are
\* no exception.
BinaryCode(n, left, right) ==
  IF n.v = "=" THEN right \o <<<<"push", "rax">>, <<"pop", "rax">>>>
  ELSE right \o <<<<"push", "rax">>>> \o left \o <<<<"pop", "rcx">>, <<"alu", n.v>>>>

\* An assignment looks its variable up by name.
StoreCode(n, slots) ==
  IF n.v \in Assignments
  THEN <<<<"store", find_var_offset_by_name(slots, n.kids[1].v.name), "rax">>>> ELSE <<>>

\* ++ and -- look their variable up with a name that is not terminated, find
\* nothing and store to slot 1.
UnaryCode(n) ==
  CASE n.v \in {"++", "--"} -> <<<<"alu1", n.v>>, <<"store", 1, "rax">>>>
    [] n.v = "deref"        -> <<<<"deref">>>>
    [] OTHER                -> <<<<"alu1", n.v>>>>

\* Arguments are pushed from the last to the first and popped into registers.
ArgsCode(argc, arg) ==
  FlattenSeq([i \in 1..argc |-> Append(arg[argc + 1 - i], <<"push", "rax">>)])
    \o [i \in 1..argc |-> <<"pop", Regs[i]>>]

\* A pattern is a literal or a range of them.
Lit(k) == [range |-> FALSE, lo |-> k, hi |-> k, incl |-> TRUE]

\* A value below or above the range goes on to the next arm at once.
RangeCode(pat, bodylab, nextlab) ==
  <<<<"imm", "rax", pat.lo>>, <<"push", "rax">>, <<"pop", "rcx">>, <<"peek">>, <<"jl rcx", nextlab>>,
    <<"imm", "rax", pat.hi>>, <<"mov", "rcx", "rax">>, <<"peek">>,
    <<IF pat.incl THEN "jg rcx" ELSE "jge rcx", nextlab>>, <<"jmp", bodylab>>>>

\* The code of one arm's test: jump to the body, or on to the next arm.  Only
\* a match that is an expression knows ranges, and only as first pattern.
PatternCode(pats, expr, bodylab, nextlab) ==
  LET Test(i) == CASE ~pats[i].range    -> <<<<"je", pats[i].lo, bodylab>>>>
                   [] expr /\ i = 1     -> RangeCode(pats[i], bodylab, nextlab)
                   [] OTHER             -> <<>>
  IN IF pats = <<>> THEN <<>>   \* the wildcard
     ELSE FlattenSeq([i \in DOMAIN pats |-> Test(i)]) \o <<<<"jmp", nextlab>>>>

\* Expressions need no labels but those of match, which are numbered from lab.
RECURSIVE cg_expr(_, _, _, _)
RECURSIVE cg_match(_, _, _, _, _)
cg_expr(n, slots, host, lab) ==
  LET Sub(i) == cg_expr(n.kids[i], slots, host, lab + 40 * i) IN
  CASE n.t = "int"   -> <<<<"imm", "rax", n.v>>>>
    [] n.t = "var"   -> <<<<"load", find_var_offset(slots, n.v.id)>>>>
    [] n.t = "bin"   -> BinaryCode(n, IF n.v = "=" THEN <<>> ELSE Sub(1), Sub(2)) \o StoreCode(n, slots)
    [] n.t = "un"    -> Sub(1) \o UnaryCode(n)
    [] n.t = "call" /\ n.v = "print" /\ host -> <<<<"print", n.kids[1].v>>>>
    [] n.t = "call"  -> ArgsCode(Len(n.kids), [i \in DOMAIN n.kids |-> Sub(i)]) \o <<<<"call", n.v>>>>
    [] n.t = "array" /\ n.kids # <<>> ->
                        <<<<"sub rsp", Pairs(Len(n.kids) + 1)>>, <<"count", Len(n.kids)>>>>
                          \o FlattenSeq([i \in DOMAIN n.kids |-> Append(Sub(i), <<"elem", i>>)])
                          \o <<<<"array">>>>
    [] n.t = "index" -> Sub(2) \o <<<<"push", "rax">>>> \o Sub(1) \o <<<<"pop", "rcx">>, <<"index">>>>
    [] n.t = "match" -> cg_match(n, TRUE, slots, host, lab)
    [] OTHER         -> <<<<"imm", "rax", 0>>>>

\* The value stays on the stack while the arms are tried; the body of the
\* last arm also takes what no arm matches.  A body that is a block is not an
\* expression: it gives zero.
cg_match(n, expr, slots, host, lab) ==
  LET arms == Len(n.v)
      Body(i) == cg_expr(n.kids[i + 1], slots, host, lab + 40 * (i + 1))
      Arm(i) == <<<<"peek">>>> \o PatternCode(n.v[i], expr, lab + 2 * i, lab + 2 * i + 1)
                  \o <<<<"label", lab + 2 * i>>>> \o Body(i) \o <<<<"jmp", lab>>, <<"label", lab + 2 * i + 1>>>>
                  \o (IF i = arms THEN Body(i) ELSE <<>>)
  IN cg_expr(n.kids[1], slots, host, lab + 40) \o <<<<"push", "rax">>>>
       \o FlattenSeq([i \in 1..arms |-> Arm(i)]) \o <<<<"label", lab>>, <<"add rsp", 1>>>>

----------------------------------------------------------------------------
(* Statements.                                                             *)

Epilogue == <<<<"ret">>>>

RECURSIVE cg_stmt(_, _, _, _)
RECURSIVE cg_stmts(_, _, _, _)
RECURSIVE cg_arms(_, _, _, _, _, _)

\* The statements of a list, one after the other.
cg_stmts(items, slots, host, c) ==
  IF items = <<>> THEN c ELSE cg_stmts(Tail(items), slots, host, cg_stmt(Head(items), slots, host, c))

\* Labels for the expressions of one statement.
ExprLabels == 2000

Expr(n, slots, host, c) ==
  Labels(Emit(c, cg_expr(n, slots, host, c.lab)), ExprLabels)


\* Deferred blocks: the last one first.
DeferOrder(c) == Reverse(c.defers)

\* Every block deferred so far in the text of the function, then every object
\* declared so far, functions generated earlier included.  What these blocks
\* defer is registered for the next exit only, their objects at once.
cg_emit_defers(slots, host, c) ==
  LET d == cg_stmts(DeferOrder(c), slots, host, c)
  IN Emit(d, [i \in DOMAIN d.drops |-> <<"drop", d.drops[i].off, d.drops[i].id>>])

ReturnCode(n, slots, host, c) ==
  IF n.kids = <<>> THEN Emit(cg_emit_defers(slots, host, c), Epilogue)
  ELSE LET v == Deeper(Emit(Expr(n.kids[1], slots, host, c), <<<<"push", "rax">>>>), 1)
       IN Emit(Deeper(cg_emit_defers(slots, host, v), -1), <<<<"pop", "rax">>>> \o Epilogue)

\* A class-typed variable is registered for its drop() wherever it stands.
LetCode(n, slots, host, c) ==
  LET off == find_var_offset(slots, n.v.id)
      v == IF n.kids = <<>> THEN Emit(c, <<<<"zero", off>>>>)
           ELSE Emit(Expr(n.kids[1], slots, host, c), <<<<"store", off, "rax">>>>)
  IN IF n.v.class THEN [v EXCEPT !.drops = <<[off |-> off, id |-> n.v.id]>> \o @] ELSE v

\* n.v names what follows the two children all have: an elif, which is an if
\* itself and holds the next elif, and an else.  Both stand behind the label of
\* a false condition, one after the other.
IfCode(n, slots, host, c) ==
  LET else == c.lab
      end == c.lab + 1
      cond == Emit(Expr(n.kids[1], slots, host, Labels(c, 2)), <<<<"jz", else>>>>)
      then == Emit(cg_stmt(n.kids[2], slots, host, cond), <<<<"jmp", end>>, <<"label", else>>>>)
  IN Emit(cg_stmts(SubSeq(n.kids, 3, Len(n.kids)), slots, host, then), <<<<"label", end>>>>)

\* The low byte of the value is the tag; the pattern is not bound.
IfLetCode(n, slots, host, c) ==
  LET end == c.lab
      tag == Emit(Expr(n.kids[1], slots, host, Labels(c, 1)), <<<<"mov", "rcx", "rax">>, <<"jz tag", end>>>>)
  IN Emit(cg_stmt(n.kids[2], slots, host, tag), <<<<"label", end>>>>)

WhileCode(n, slots, host, c) ==
  LET start == c.lab
      end == c.lab + 1
      cond == Expr(n.kids[1], slots, host, Emit(Labels(c, 2), <<<<"label", start>>>>))
      body == cg_stmt(n.kids[2], slots, host, Emit(cond, <<<<"jz", end>>>>))
  IN Emit(body, <<<<"jmp", start>>, <<"label", end>>>>)

\* Mutant: the counter stays where it is.
NextRound_Stays(start, end) == <<<<"jmp", start>>, <<"label", end>>>>

\* Behind the body of a loop that counts.
NextRound(start, end) == <<<<"inc", "rcx">>, <<"jmp", start>>, <<"label", end>>>>

\* A range loop keeps its counter in rcx; ..= is taken for .. here.
ForRangeCode(n, slots, host, c) ==
  LET start == c.lab
      end == c.lab + 1
      range == n.kids[1]
      init == Emit(Expr(range.kids[1], slots, host, Labels(c, 2)), <<<<"mov", "rcx", "rax">>, <<"label", start>>>>)
      test == Emit(Expr(range.kids[2], slots, host, init),
                   <<<<"jge", end>>, <<"store", find_var_offset_by_name(slots, n.v.name), "rcx">>>>)
      body == cg_stmt(n.kids[2], slots, host, test)
  IN Emit(body, NextRound(start, end))

\* An array loop saves its counter around the body.
ForArrayCode(n, slots, host, c) ==
  LET start == c.lab
      end == c.lab + 1
      init == Emit(Expr(n.kids[1], slots, host, Labels(c, 2)),
                   <<<<"push", "rax">>, <<"length">>, <<"push", "rcx">>, <<"imm", "rcx", 0>>, <<"label", start>>>>)
      test == Emit(init, <<<<"jge top", end>>, <<"element">>,
                           <<"store", find_var_offset_by_name(slots, n.v.name), "rax">>, <<"push", "rcx">>>>)
      body == Deeper(cg_stmt(n.kids[2], slots, host, Deeper(test, 3)), -3)
  IN Emit(body, <<<<"pop", "rcx">>>> \o NextRound(start, end) \o <<<<"add rsp", 2>>>>)

\* The stack pointer of a region is kept in r15.
RegionCode(n, slots, host, c) ==
  LET body == cg_stmt(n.kids[1], slots, host, Deeper(Emit(c, <<<<"save rsp">>, <<"sub rsp", 2>>>>), 2))
  IN Emit(Deeper(body, -2), <<<<"restore rsp">>, <<"imm", "rax", 0>>>>)

\* The discriminant of a type that is not known: such an arm is not tested.
Unknown == 0 - 1

\* Mutant: a catch-all leaves the error on the stack even if it names it.
TakesError_Typed(arm, last) == ~arm.all \/ ~last

\* Whether an arm removes the saved error from the stack.
TakesError(arm, last) == arm.var \/ ~arm.all \/ ~last

\* The arms of a try, from arm i; out is where a handler goes when it is done.
\* No slot is ever made for a catch variable: the value is dropped.
cg_arms(n, slots, host, i, out, c) ==
  LET arm == n.v.arms[i]
      next == c.lab
      test == IF arm.all \/ arm.disc = Unknown THEN <<>> ELSE <<<<"peek">>, <<"jne", arm.disc, next>>>>
      pop == IF TakesError(arm, i = Len(n.v.arms)) THEN <<<<"add rsp", 1>>>> ELSE <<>>
      body == cg_stmt(n.kids[i + 1], slots, host, Emit(Labels(c, 1), test \o pop))
      done == Emit(body, <<<<"imm", "rdx", 0>>, <<"jmp", out>>, <<"label", next>>>>)
  IN IF i > Len(n.v.arms) THEN c ELSE cg_arms(n, slots, host, i + 1, out, done)

\* Only host targets catch hardware faults.
TryCode(n, slots, host, c) ==
  LET catch == c.lab
      end == c.lab + 1
      finally == c.lab + 2
      out == IF n.v.finally THEN finally ELSE end
      begin == Emit(Labels(c, 3), (IF host THEN <<<<"setJmpBuf">>, <<"jnz", catch>>>> ELSE <<>>)
                                    \o <<<<"imm", "rdx", 0>>>>)
      body == Emit(cg_stmt(n.kids[1], slots, host, begin),
                   (IF host THEN <<<<"clearJmpBuf">>>> ELSE <<>>) \o <<<<"jnz rdx", catch>>, <<"jmp", out>>,
                                        <<"label", catch>>, <<"push", "rax">>>>)
      arms == cg_arms(n, slots, host, 1, out, body)
      rethrow == IF \E i \in DOMAIN n.v.arms : n.v.arms[i].all THEN arms
                 ELSE Emit(cg_emit_defers(slots, host, Emit(arms, <<<<"add rsp", 1>>>>)), Epilogue)
      last == IF n.v.finally
              THEN cg_stmt(Last(n.kids), slots, host, Emit(rethrow, <<<<"label", finally>>>>)) ELSE rethrow
  IN Emit(last, <<<<"label", end>>>>)

\* A throw leaves the function, whether or not it stands in a try.
ThrowCode(n, slots, host, c) ==
  Emit(cg_emit_defers(slots, host, Emit(Expr(n.kids[1], slots, host, c), <<<<"imm", "rdx", 1>>>>)), Epilogue)

\* The mark in front of a statement records how deep the stack should be.
cg_stmt(n, slots, host, c0) ==
  LET c == Emit(c0, <<<<"mark", c0.depth>>>>) IN
  CASE n.t = "return" -> ReturnCode(n, slots, host, c)
    [] n.t = "let"    -> LetCode(n, slots, host, c)
    [] n.t = "expr"   -> Expr(n.kids[1], slots, host, c)
    [] n.t \in {"block", "unsafe"} -> cg_stmts(n.kids, slots, host, c)
    [] n.t = "if"     -> IfCode(n, slots, host, c)
    [] n.t = "if let" -> IfLetCode(n, slots, host, c)
    [] n.t = "while"  -> WhileCode(n, slots, host, c)
    [] n.t = "for"    -> IF n.kids[1].t = "range" THEN ForRangeCode(n, slots, host, c)
                         ELSE ForArrayCode(n, slots, host, c)
    [] n.t = "match"  -> Labels(Emit(c, cg_match(n, FALSE, slots, host, c.lab)), ExprLabels)
    [] n.t = "defer"  -> [c EXCEPT !.defers = Append(@, n.kids[1])]
    [] n.t = "region" -> RegionCode(n, slots, host, c)
    [] n.t = "try"    -> TryCode(n, slots, host, c)
    [] n.t = "throw"  -> ThrowCode(n, slots, host, c)
    [] OTHER          -> c   \* break, continue: a warning and no code

----------------------------------------------------------------------------
(* Functions.                                                              *)

\* A condition that is false ends the process.
CheckCode(conds, slots, host, c) ==
  LET Check(d, e) == Emit(Expr(e, slots, host, d), <<<<"check">>>>)
      f[i \in 0..Len(conds)] == IF i = 0 THEN c ELSE Check(f[i - 1], conds[i])
  IN f[Len(conds)]

EndsInReturn(f) == f.body.kids # <<>> /\ Last(f.body.kids).t = "return"

\* Post-conditions are checked where control falls off the end, not at return.
cg_func(f, host, drops, labels) ==
  LET slots == compute_frame(f)
      entry == Emit(Start(drops, labels), <<<<"sub rsp", FrameSize(slots)>>>>
                 \o [i \in DOMAIN f.params |-> <<"store", find_var_offset(slots, f.params[i].id), Regs[i]>>])
      body == cg_stmt(f.body, slots, host, CheckCode(f.pre, slots, host, entry))
      Unless(none, insts) == IF none THEN <<>> ELSE insts
      deflt == Emit(body, Unless(EndsInReturn(f),
                                 <<<<"imm", "rax", 0>>>> \o Unless(~f.throws, <<<<"imm", "rdx", 0>>>>)))
      saved == Emit(deflt, Unless(f.post = <<>>, <<<<"push", "rax">>>>))
      post == Emit(CheckCode(f.post, slots, host, saved), Unless(f.post = <<>>, <<<<"pop", "rax">>>>))
  IN Emit(cg_emit_defers(slots, host, post), Epilogue)

\* The functions of a program in order; objects to drop are never forgotten.
RECURSIVE codegen_functions(_, _, _, _)
codegen_functions(funcs, host, drops, labels) ==
  LET FollowedBy(c, rest) == <<c.code>> \o codegen_functions(rest, host, c.drops, c.lab)
  IN IF funcs = <<>> THEN <<>> ELSE FollowedBy(cg_func(Head(funcs), host, drops, labels), Tail(funcs))

============================================================================
