------------------------------ MODULE Meaning ------------------------------
(***************************************************************************)
(* What a program means, by evaluating its tree, and the promise of the    *)
(* code generator: the generated code does the same.                       *)
(***************************************************************************)
EXTENDS Nasm

\* An evaluation carries the variables by identity, what was printed and
\* dropped, the value of the last expression, the deferred blocks and the
\* objects of the current function, and how control goes on.
Fresh(env, tr) == [env |-> env, trace |-> tr, val |-> 0, defers |-> <<>>, drops |-> <<>>, out |-> "go"]

Bind(env, id, v) == [x \in (DOMAIN env) \cup {id} |-> IF x = id THEN v ELSE env[x]]

ValueOp(op) == CASE op = "+=" -> "+" [] op = "-=" -> "-" [] op = "*=" -> "*" [] op = "/=" -> "/" [] OTHER -> op

RECURSIVE Eval(_, _, _)
RECURSIVE EvalAll(_, _, _, _)
RECURSIVE Exec(_, _, _)
RECURSIVE ExecAll(_, _, _)
RECURSIVE Repeat(_, _, _)
RECURSIVE Each(_, _, _, _)
RECURSIVE Choice(_, _, _, _)
RECURSIVE Apply(_, _, _, _)

\* The values of expressions, from the last to the first.
EvalAll(p, ns, vals, s) ==
  IF ns = <<>> \/ s.out # "go" THEN [s EXCEPT !.val = vals]
  ELSE LET r == Eval(p, Last(ns), s) IN EvalAll(p, Front(ns), <<r.val>> \o vals, r)

Matches(pat, v) == pat.lo <= v /\ v <= (IF pat.incl THEN pat.hi ELSE pat.hi - 1)

MatchArm(n, v) ==
  Min({i \in DOMAIN n.v : n.v[i] = <<>> \/ \E j \in DOMAIN n.v[i] : Matches(n.v[i][j], Signed(v))})

Eval(p, n, s) ==
  IF s.out # "go" THEN s ELSE
  CASE n.t = "int" -> [s EXCEPT !.val = n.v]
    [] n.t = "var" -> [s EXCEPT !.val = s.env[n.v.id]]
    [] n.t = "bin" /\ n.v = "=" ->
         LET r == Eval(p, n.kids[2], s) IN [r EXCEPT !.env = IF r.out = "go" THEN Bind(@, n.kids[1].v.id, r.val) ELSE @]
    [] n.t = "bin" ->
         LET r == EvalAll(p, n.kids, <<>>, s)
         IN CASE r.out # "go" -> r
              [] ValueOp(n.v) \in {"/", "%"} /\ r.val[2] = 0 -> [r EXCEPT !.out = "killed"]
              [] OTHER -> LET v == Alu(ValueOp(n.v), r.val[1], r.val[2])
                          IN [r EXCEPT !.val = v, !.env = IF n.v \in Assignments THEN Bind(@, n.kids[1].v.id, v) ELSE @]
    [] n.t = "un" /\ n.v = "deref" ->
         LET r == Eval(p, n.kids[1], s)
         IN IF r.val \in 0..Size - 1 THEN [r EXCEPT !.val = 1, !.out = "fault"] ELSE [r EXCEPT !.val = Len(@)]
    [] n.t = "un" ->
         LET r == Eval(p, n.kids[1], s)
             v == Alu1(n.v, r.val)
         IN [r EXCEPT !.val = v, !.env = IF n.v \in {"++", "--"} THEN Bind(@, n.kids[1].v.id, v) ELSE @]
    [] n.t = "call" ->
         LET r == EvalAll(p, n.kids, <<>>, s)
         IN IF n.v = "print" THEN [r EXCEPT !.trace = Append(@, <<"print", r.val[1]>>), !.val = 0]
            ELSE Apply(p, CHOOSE k \in DOMAIN p : p[k].name = n.v, r.val, r)
    [] n.t = "array" -> EvalAll(p, n.kids, <<>>, s)
    [] n.t = "match" ->
         LET r == Eval(p, n.kids[1], s) IN Eval(p, n.kids[1 + MatchArm(n, r.val)], r)
    [] OTHER -> s

ExecAll(p, ns, s) == IF ns = <<>> \/ s.out # "go" THEN s ELSE ExecAll(p, Tail(ns), Exec(p, Head(ns), s))

Repeat(p, n, s) ==
  LET c == Eval(p, n.kids[1], s)
  IN IF c.out # "go" \/ c.val = 0 THEN c
     ELSE LET b == Exec(p, n.kids[2], c) IN IF b.out = "go" THEN Repeat(p, n, b) ELSE b

Each(p, n, vals, s) ==
  IF vals = <<>> \/ s.out # "go" THEN s
  ELSE Each(p, n, Tail(vals), Exec(p, n.kids[2], [s EXCEPT !.env = Bind(@, n.v.id, Head(vals))]))

\* An if and its elifs, and what stands in the else.
RECURSIVE Elifs(_)
Elifs(n) == <<n>> \o (IF "elif" \in n.v THEN Elifs(n.kids[3]) ELSE <<>>)

Else(n) == IF "else" \in n.v THEN <<Last(n.kids)>> ELSE <<>>

\* The block behind the first condition that holds, or else the last one.
Choice(p, ifs, last, s) ==
  IF ifs = <<>> THEN ExecAll(p, last, s)
  ELSE LET c == Eval(p, Head(ifs).kids[1], s)
       IN CASE c.out # "go" -> c
            [] c.val # 0    -> Exec(p, Head(ifs).kids[2], c)
            [] OTHER        -> Choice(p, Tail(ifs), last, c)

\* The handler of an error: a fault is error 1.
Handler(n, err) ==
  LET hit == {i \in DOMAIN n.v.arms : n.v.arms[i].all \/ n.v.arms[i].disc \in {Unknown, err}}
  IN IF hit = {} THEN 0 ELSE Min(hit)

Exec(p, n, s) ==
  CASE n.t = "return" ->
         LET r == IF n.kids = <<>> THEN s ELSE Eval(p, n.kids[1], s) IN [r EXCEPT !.out = IF @ = "go" THEN "return" ELSE @]
    [] n.t = "throw" -> LET r == Eval(p, n.kids[1], s) IN [r EXCEPT !.out = IF @ = "go" THEN "throw" ELSE @]
    [] n.t = "let" ->
         LET r == IF n.kids = <<>> THEN [s EXCEPT !.val = 0] ELSE Eval(p, n.kids[1], s)
         IN [r EXCEPT !.env = Bind(@, n.v.id, r.val), !.drops = IF n.v.class THEN <<n.v.id>> \o @ ELSE @]
    [] n.t \in {"expr", "match"} -> Eval(p, IF n.t = "expr" THEN n.kids[1] ELSE n, s)
    [] n.t \in {"block", "unsafe", "region"} -> ExecAll(p, n.kids, s)
    [] n.t = "if" -> Choice(p, Elifs(n), Else(n), s)
    [] n.t = "while" -> Repeat(p, n, s)
    [] n.t = "for" /\ n.kids[1].t = "range" ->
         LET r == EvalAll(p, n.kids[1].kids, <<>>, s)
         IN Each(p, n, [k \in 1..(r.val[2] - r.val[1]) |-> r.val[1] + k - 1], r)
    [] n.t = "for" -> LET r == Eval(p, n.kids[1], s) IN Each(p, n, r.val, r)
    [] n.t = "defer" -> [s EXCEPT !.defers = <<n.kids[1]>> \o @]
    [] n.t = "try" ->
         LET b == Exec(p, n.kids[1], s)
             h == IF b.out \in {"throw", "fault"} THEN Handler(n, b.val) ELSE 0
             c == IF h = 0 THEN b ELSE Exec(p, n.kids[1 + h], [b EXCEPT !.out = "go"])
             f == Exec(p, Last(n.kids), [c EXCEPT !.out = "go"])
         IN IF n.v.finally THEN [f EXCEPT !.out = c.out, !.val = c.val] ELSE c
    [] OTHER -> s

\* Conditions that do not hold end the program.
Holds(p, conds, s) ==
  LET failed == \E i \in DOMAIN conds : Eval(p, conds[i], s).val = 0
  IN IF failed /\ s.out \in {"go", "return"} THEN [s EXCEPT !.out = "failed"] ELSE s

\* At the exit of a function the deferred blocks, the last one first, then the
\* objects.  A fault runs neither.
Leave(p, body, s) ==
  LET quiet == body.out \in {"go", "return", "throw"}
      last == ExecAll(p, body.defers, [body EXCEPT !.out = "go"])
      drops == [i \in DOMAIN body.drops |-> <<"drop", body.drops[i]>>]
  IN [s EXCEPT !.trace = IF quiet THEN last.trace \o drops ELSE body.trace,
               !.val = IF body.out = "go" THEN 0 ELSE body.val,
               !.out = IF body.out \in {"go", "return"} THEN "go" ELSE body.out]

\* A call.
Apply(p, k, args, s) ==
  LET f == p[k]
      env == [id \in {f.params[i].id : i \in DOMAIN f.params} |-> args[CHOOSE i \in DOMAIN f.params : f.params[i].id = id]]
      body == ExecAll(p, <<f.body>>, Holds(p, f.pre, Fresh(env, s.trace)))
  IN IF s.out # "go" THEN s ELSE Leave(p, Holds(p, f.post, body), s)

MeaningOf == [k \in DOMAIN Programs |-> Apply(Programs[k], Len(Programs[k]), <<>>, Fresh(<<>>, <<>>))]

----------------------------------------------------------------------------
(* What the generator does not translate as it should, each with its       *)
(* reason; Faithful speaks of the programs without any of it.              *)

\* A node and everything below it, in order.
RECURSIVE Below(_)
Below(n) == <<n>> \o FlattenSeq([i \in DOMAIN n.kids |-> Below(n.kids[i])])

Every(n, P(_)) == LET b == Below(n) IN \A i \in DOMAIN b : P(b[i])

Some(n, P(_)) == LET b == Below(n) IN \E i \in DOMAIN b : P(b[i])

Has(n, types) == Some(n, LAMBDA m : m.t \in types)

Throwing(p) == {p[k].name : k \in {j \in DOMAIN p : p[j].throws}}

CallsThrowing(p, m) == m.t = "call" /\ m.v \in Throwing(p)

ClassLet(m) == m.t = "let" /\ m.v.class

CatchesAll(n) == \E i \in DOMAIN n.v.arms : n.v.arms[i].all

\* An assignment goes to the variable of that name declared last, and ++ and
\* -- to the first slot; a declaration that frame_collect passes over has none.
VariablesFit(f) ==
  LET slots == compute_frame(f)
      ids == {slots[k].id : k \in DOMAIN slots}
  IN /\ \A j, k \in DOMAIN slots : slots[j].name = slots[k].name => j = k
     /\ Every(f.body, LAMBDA n : /\ n.t \in {"var", "let"} => n.v.id \in ids
                                 /\ n.t = "un" => n.v \notin {"++", "--"}
                                 /\ n.t # "index")

\* Anything but a plain assignment uses rcx, where a range loop counts.
CounterKept(n) ==
  LET plain(m) == m.t \in {"block", "expr", "int", "var"} \/ (m.t = "bin" /\ m.v = "=")
  IN n.kids[1].t = "range" => Every(n.kids[1].kids[2], plain) /\ Every(n.kids[2], plain)

\* What leaves words on the stack: an array literal, a catch-all without a
\* variable as last arm, and a region around another one, in it or in a
\* function it calls, because one register holds the stack pointer of both.
LeavesWords(n) ==
  \/ n.t = "array"
  \/ n.t = "try" /\ n.v.arms # <<>> /\ Last(n.v.arms).all /\ ~Last(n.v.arms).var
  \/ n.t = "region" /\ Has(n.kids[1], {"region", "call"})

Leaky(n) == Some(n, LeavesWords)

\* An elif and an else are emitted one after the other: a taken elif also runs
\* the else.  An if let binds nothing.
ChoiceFits(n) ==
  /\ n.t # "if let"
  /\ n.t = "if" => ~({"elif", "else"} \subseteq n.v)

\* A match that is a statement passes over ranges, any other one over what
\* stands behind a range, and over ranges behind something else.
PatternsFit(n) ==
  LET Ranged(m) == {i \in DOMAIN m.v : \E j \in DOMAIN m.v[i] : m.v[i][j].range}
  IN /\ n.t \in {"block", "unsafe"} =>
          \A i \in DOMAIN n.kids : n.kids[i].t = "match" => Ranged(n.kids[i]) = {}
     /\ n.t = "match" => \A i \in Ranged(n) : Len(n.v[i]) = 1

\* Below a loop over an array, and in a deferred block, a word is waiting on
\* the stack; the arms of a match are expressions.
StackKept(n) ==
  /\ n.t = "for" => ~Leaky(n.kids[2])
  /\ n.t = "defer" => ~Leaky(n)
  /\ n.t = "match" => Last(n.v) = <<>> /\ \A i \in 2..Len(n.kids) : n.kids[i].t # "block"

\* Deferred blocks and objects are registered by the text, not by control, and
\* objects also for every function behind.
DefersFit(p, k) ==
  LET registers(n) == n.t = "defer" \/ ClassLet(n)
      stmts == p[k].body.kids
  IN \A i \in DOMAIN stmts :
       /\ ~registers(stmts[i]) => ~Some(stmts[i], registers)
       /\ stmts[i].t = "defer" => ~Has(stmts[i].kids[1], {"defer", "let", "return", "throw", "try"})
       /\ ClassLet(stmts[i]) => k = Len(p)

Dereferences(m) == m.t = "un" /\ m.v = "deref"

\* rdx tells an error, but every multiplication, division and call uses it; a
\* throw does not look for a try around it; nothing clears the jump buffer at
\* a return; finally is skipped when an error goes on; a fault is caught only
\* as long as nothing is pushed in the try.
TryFits(p, n) ==
  LET body == n.kids[1]
      last == Last(body.kids)
  IN n.t = "try" =>
       /\ ~Has(body, {"try", "throw", "return", "for", "region"})
       /\ Every(body, LAMBDA m : m.t = "bin" => m.v \notin {"*", "*=", "/", "/=", "%"})
       /\ \A i \in DOMAIN body.kids :
            Has(body.kids[i], {"call"}) =>
              i = Len(body.kids) /\ last.t = "expr" /\ CallsThrowing(p, last.kids[1])
       /\ Some(body, Dereferences) => /\ Len(body.kids) = 1 /\ last.t = "expr"
                                      /\ Dereferences(last.kids[1]) /\ last.kids[1].kids[1].t \in {"int", "var"}
       /\ n.v.finally => CatchesAll(n)

\* An error leaves a function in rax and rdx, which deferred blocks may change,
\* and a caller looks at rdx only in a try.
ErrorsFit(p, f) ==
  LET Count(n, P(_)) == Len(SelectSeq(Below(n), P))
      throwing(m) == CallsThrowing(p, m)
      guarded == SelectSeq(Below(f.body), LAMBDA n : n.t = "try")
  IN /\ Count(f.body, throwing) = FoldLeft(LAMBDA a, n : a + Count(n.kids[1], throwing), 0, guarded)
     /\ (Has(f.body, {"defer"}) \/ Some(f.body, ClassLet)) => ~Has(f.body, {"throw"})
     /\ \A i \in DOMAIN guarded : CatchesAll(guarded[i])

Supported(p) ==
  \A k \in DOMAIN p :
    /\ VariablesFit(p[k])
    /\ DefersFit(p, k)
    /\ ErrorsFit(p, p[k])
    /\ Every(p[k].body, LAMBDA n : /\ n.t = "for" => CounterKept(n)
                                   /\ ChoiceFits(n)
                                   /\ PatternsFit(n)
                                   /\ StackKept(n)
                                   /\ TryFits(p, n))

\* A try that is left by return or throw, or that another one stands in.
LeavesTry(f) == Some(f.body, LAMBDA n : n.t = "try" /\ Has(n.kids[1], {"return", "throw", "try"}))

\* Only a host catches faults.
CatchesFault(f) == Some(f.body, LAMBDA n : n.t = "try" /\ Some(n.kids[1], Dereferences))

Supporting == {k \in DOMAIN Programs : Supported(Programs[k])}

NeedHost == {k \in DOMAIN Programs : \E f \in DOMAIN Programs[k] : CatchesFault(Programs[k][f])}

HasTry == {k \in DOMAIN Programs : \E f \in DOMAIN Programs[k] : Has(Programs[k][f].body, {"try"})}

\* The program that is run is one the generator translates.  Every try of a host
\* relies on aether_clearJmpBuf to change no register.
Fits ==
  /\ prog \in Supporting
  /\ Host(target) \/ prog \notin NeedHost
  /\ target = "elf64-host-abi" => prog \notin HasTry

Leaks == [k \in DOMAIN Programs |-> [f \in DOMAIN Programs[k] |-> Leaky(Programs[k][f].body)]]

Frame == [k \in DOMAIN Programs |-> [f \in DOMAIN Programs[k] |-> FrameSize(compute_frame(Programs[k][f]))]]

Leaves == [k \in DOMAIN Programs |-> \E f \in DOMAIN Programs[k] : LeavesTry(Programs[k][f])]

----------------------------------------------------------------------------
(* Properties.                                                             *)

\* The process has done what was meant: an ending, a value or an error, events.
\* Only macOS ends a process whose condition fails.
Agrees(m) ==
  (m.out = "failed" => target = "macho64") =>
    /\ status = IF m.out \in {"go", "throw"} THEN "returned" ELSE m.out
    /\ trace = m.trace
    /\ status = "returned" => regs["rax"] = m.val /\ (m.out = "throw" => regs["rdx"] # 0)


\* What SPECIFICATION.md says of the statements of the language would hold of every
\* program, supported or not.  It does not: the programs behind MCPrograms in
\* MCCodegen refute it.
Exact == ~Running => Agrees(MeaningOf[prog])

\* A function whose statements leave nothing behind has, in front of every
\* statement it comes to, exactly the words on its stack that its frame and the
\* enclosing statements account for: no path through loops, handlers, regions or
\* early exits gains or loses a word.
StackBalanced ==
  (Running /\ Op = "mark") =>
    Leaks[prog][Top.fn] \/ Len(Stack) = Frame[prog][Top.fn] + Inst[2]

\* While gActiveJmpBuf is set, the frame that set it is still on the stack with
\* the words it had: a fault anywhere goes back to a live try.  (A return in a
\* try leaves it set.)
Guarded ==
  jmp.active =>
       /\ jmp.frame <= Len(frames)
       /\ frames[jmp.frame].fn = jmp.fn
       /\ Len(frames[jmp.frame].stack) >= jmp.depth

\* The same of the programs in which no try is left by return or throw and none
\* stands in another one.
GuardAlive == ~Leaves[prog] => Guarded

\* The code of a program whose loops end comes to an end too.
Halts == Fits ~> ~Running

============================================================================
