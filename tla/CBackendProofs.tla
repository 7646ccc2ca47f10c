--------------------------- MODULE CBackendProofs ---------------------------
(***************************************************************************)
(* Objects are destroyed once, errors reach the arms of their try, finally *)
(* blocks run and loops take every number of their range, for programs of  *)
(* any size (CBackend).  First every c_emit_ function keeps its code       *)
(* Ready; then the running program keeps to the regions of the code: an    *)
(* object lives from its let to its drop, and in a try body the jump       *)
(* buffer is the one that try filled.  The last parts do the same for      *)
(* finally blocks and loops, from what every step does to the code (Grew). *)
(***************************************************************************)
EXTENDS CBackendFacts, FiniteSetTheorems, WellFoundedInduction

\* The code under construction, with the blocks and the list it is built with.
Ready == Len(open) \in DOMAIN open /\ Emitted(code, open, auto_drop_list, {}, FALSE)

\* ... after a step of the emission.
Readied == Len(open') \in DOMAIN open' /\ Emitted(code', open', auto_drop_list', {}, FALSE)

\* Code under construction has an innermost block, which lies in it.
LEMMA ReadyTypes ==
  ASSUME Ready
  PROVE  /\ code \in Seq(Instruction) /\ open \in Seq(BlockInProgress)
         /\ auto_drop_list \in Seq(Nat)
         /\ Len(code) \in Nat /\ DOMAIN code = 1..Len(code) /\ Here = Len(code) + 1
         /\ Len(open) \in Nat /\ DOMAIN open = 1..Len(open) /\ Len(open) >= 1
         /\ Innermost = open[Len(open)] /\ Innermost \in BlockInProgress
         /\ Block = open[Len(open)].id /\ Block \in 0..Len(code)
         /\ Innermost.of \in 0..Len(code) /\ Innermost.test \in 0..Len(code)
<1>1. /\ code \in Seq(Instruction) /\ open \in Seq(BlockInProgress) /\ auto_drop_list \in Seq(Nat)
      /\ Geometry(code, open)
  BY DEF Ready, Emitted, Typed
<1>2. /\ Len(code) \in Nat /\ DOMAIN code = 1..Len(code)
      /\ Len(open) \in Nat /\ DOMAIN open = 1..Len(open) /\ Len(open) >= 1
  BY <1>1 DEF Ready
<1>3. Innermost = open[Len(open)]
  BY DEF Innermost, Last
<1>4. Innermost \in BlockInProgress
  BY <1>1, <1>3 DEF Ready
<1>5. open[Len(open)].id \in 0..Len(code) /\ open[Len(open)].of \in 0..Len(code)
      /\ open[Len(open)].test \in 0..Len(code)
  BY <1>1, BlockTypes DEF Ready
<1>6. QED BY <1>1, <1>2, <1>3, <1>4, <1>5 DEF Here, Block

\* A non-empty set of positions has a last one.
LEMMA LastExists ==
  ASSUME NEW n \in Nat, NEW S, S \subseteq 1..n, S # {}
  PROVE  \E i \in S : \A j \in S : i >= j
<1> DEFINE R == OpToRel(<, Nat)
           T == {n - i : i \in S}
<1>1. IsWellFoundedOn(R, Nat)
  BY NatLessThanWellFounded
<1>2. T \subseteq Nat
  OBVIOUS
<1>3. T # {}
  <2>1. PICK i \in S : TRUE
    OBVIOUS
  <2>2. n - i \in T
    BY <2>1
  <2>3. QED BY <2>2
<1>4. \A x, y \in Nat : x < y => <<x, y>> \in R
  BY DEF OpToRel
<1> HIDE DEF R, T
<1>5. PICK t \in T : \A u \in T : ~(<<u, t>> \in R)
  BY <1>1, <1>2, <1>3, WFMin
<1>6. PICK i \in S : t = n - i
  BY <1>5 DEF T
<1>7. \A j \in S : i >= j
  <2> SUFFICES ASSUME NEW j \in S PROVE i >= j
    OBVIOUS
  <2>1. n - j \in T
    BY DEF T
  <2>2. ~(n - j < t)
    BY <1>2, <1>4, <1>5, <2>1
  <2>3. QED BY <1>6, <2>2
<1>8. QED BY <1>6, <1>7

\* The innermost block of one of the kinds is one.
LEMMA InnermostFacts ==
  ASSUME open \in Seq(BlockInProgress), NEW kinds, InnermostOf(kinds) # 0
  PROVE  InnermostOf(kinds) \in DOMAIN open /\ open[InnermostOf(kinds)].kind \in kinds
<1> DEFINE n == Len(open)
           I == {i \in 1..n : open[i].kind \in kinds}
<1>1. n \in Nat /\ DOMAIN open = 1..n
  OBVIOUS
<1>2. InnermostOf(kinds) = IF I # {} THEN Max(I) ELSE 0
  BY DEF InnermostOf, SelectLastInSeq
<1>3. I # {} /\ InnermostOf(kinds) = Max(I)
  BY <1>2
<1>4. I \subseteq 1..n /\ \A i \in I : open[i].kind \in kinds
  OBVIOUS
<1> HIDE DEF I, n
<1>5. \E i \in I : \A j \in I : i >= j
  BY <1>1, <1>3, <1>4, LastExists
<1>6. Max(I) \in I
  BY <1>5 DEF Max
<1>7. QED BY <1>1, <1>3, <1>4, <1>6

\* The try whose body a statement stands in is open.
LEMMA InnermostTryFacts ==
  ASSUME Ready
  PROVE  /\ InnermostTry \in Nat
         /\ InnermostTry # 0 => /\ InnermostTry \in DOMAIN code
                                /\ code[InnermostTry].op = "setjmp" /\ code[InnermostTry].to = 0
<1> DEFINE k == InnermostOf({"try"})
<1>1. CASE k = 0
  BY <1>1 DEF InnermostTry
<1>2. CASE k # 0
  <2>1. k \in DOMAIN open /\ open[k].kind = "try"
    BY <1>2, ReadyTypes, InnermostFacts
  <2>2. open[k].of \in DOMAIN code /\ code[open[k].of].op = "setjmp" /\ code[open[k].of].to = 0
    BY <2>1 DEF Ready, Emitted, Geometry
  <2>3. DOMAIN code \subseteq Nat
    BY ReadyTypes
  <2>4. QED BY <1>2, <2>2, <2>3 DEF InnermostTry
<1>3. QED BY <1>1, <1>2

----------------------------------------------------------------------------
(* Emission.                                                               *)

\* c_emit_let.
LEMMA LetReady ==
  ASSUME Ready, c_emit_let PROVE Readied
<1>1. Instr("init", Here, Block, 0) \in Instruction
  <2>1. "init" \in Ops /\ Here \in Nat /\ Block \in Nat /\ 0 \in Nat
    BY ReadyTypes DEF Ops
  <2>2. QED BY <2>1, InstrFacts
<1> DEFINE x == Instr("init", Here, Block, 0)
<1>2. x.op = "init" /\ x.v = Len(code) + 1 /\ x.s = open[Len(open)].id /\ x.to = 0
  BY ReadyTypes DEF Instr
<1>3. code' = Append(code, x) /\ open' = open /\ auto_drop_list' = <<Len(code) + 1>> \o auto_drop_list
  BY ReadyTypes DEF c_emit_let
<1> HIDE DEF x
<1>4. Emitted(Append(code, x), open, <<Len(code) + 1>> \o auto_drop_list, {}, FALSE)
  BY <1>1, <1>2, EmitInit DEF Ready, x
<1>5. QED BY <1>3, <1>4 DEF Ready, Readied

\* Instructions without a region of their own.
LEMMA PlainReady ==
  ASSUME Ready, NEW op \in Ops \ {"init", "drop", "setjmp"}, NEW v \in Nat,
         op \in {"throw", "call"} /\ v # 0 =>
           v \in DOMAIN code /\ code[v].op = "setjmp" /\ code[v].to = 0
  PROVE  /\ Instr(op, v, Block, 0) \in Instruction /\ Instr(op, v, Block, 0).op = op
         /\ Emitted(Append(code, Instr(op, v, Block, 0)), open, auto_drop_list,
                    IF op \in PendOps THEN {Len(code) + 1} ELSE {}, FALSE)
<1> DEFINE x == Instr(op, v, Block, 0)
           q == IF op \in PendOps THEN {Len(code) + 1} ELSE {}
<1>1. Block \in Nat /\ 0 \in Nat /\ Block <= Len(code)
  BY ReadyTypes
<1>2. x \in Instruction /\ x.op = op /\ x.v = v /\ x.s = Block /\ x.to = 0
  BY <1>1, InstrFacts
<1> HIDE DEF x
<1>3. q = IF x.op \in PendOps THEN {} \cup {Len(code) + 1} ELSE {}
  BY <1>2
<1> HIDE DEF q
<1>4. Emitted(Append(code, x), open, auto_drop_list, q, FALSE)
  BY <1>1, <1>2, <1>3, EmitPlain DEF Ready
<1>5. QED BY <1>2, <1>4 DEF x, q

\* OpenBlock keeps the list of the block around and starts with an empty one.
LEMMA OpenBlockFacts ==
  ASSUME Ready, NEW d, NEW kind \in Kinds \ {"func"}, NEW p, NEW test,
         OpenBlock(NewBlock(kind, p, test)), code' = d,
         Emitted(d, Append(open, [kind |-> kind, id |-> Len(code) + 1, of |-> Len(code) + 1,
                                  saved |-> auto_drop_list, exits |-> p, next |-> {},
                                  test |-> test, arm |-> 0]), <<>>, {}, FALSE)
  PROVE  Readied
<1> DEFINE b == [kind |-> kind, id |-> Len(code) + 1, of |-> Len(code) + 1,
                 saved |-> auto_drop_list, exits |-> p, next |-> {}, test |-> test, arm |-> 0]
<1>1. open' = Append(open, b) /\ auto_drop_list' = <<>>
  BY ReadyTypes DEF OpenBlock, NewBlock
<1> HIDE DEF b
<1>2. Emitted(d, Append(open, b), <<>>, {}, FALSE)
  BY DEF b
<1>3. Append(open, b) \in Seq(BlockInProgress)
  BY <1>2 DEF Emitted, Typed
<1>4. Len(Append(open, b)) = Len(open) + 1 /\ Len(open) \in Nat
  BY ReadyTypes
<1>5. Len(open') \in DOMAIN open'
  BY <1>1, <1>3, <1>4
<1>6. QED BY <1>1, <1>2, <1>5 DEF Readied

\* A defer, block, if or while: one instruction and its block.
LEMMA OpenReady ==
  ASSUME Ready, NEW op \in Ops \ {"init", "drop", "setjmp", "throw", "call"}, NEW v \in Nat,
         NEW kind \in Kinds \ {"func", "try"}, NEW test \in Nat, NEW p,
         p = IF op \in PendOps THEN {Here} ELSE {},
         test # 0 <=> kind \in Loops, test # 0 => test = Here /\ op \in {"branch", "test"},
         kind \in {"block", "finally"} => p = {},
         code' = Append(code, Instr(op, v, Block, 0)), OpenBlock(NewBlock(kind, p, test))
  PROVE  Readied
<1> DEFINE x == Instr(op, v, Block, 0)
           d == Append(code, x)
<1>1. x \in Instruction /\ x.op = op /\ Emitted(d, open, auto_drop_list, p, FALSE)
  BY PlainReady, ReadyTypes
<1> HIDE DEF x
<1>2. /\ Len(d) = Len(code) + 1 /\ Len(code) \in Nat /\ d[Len(code) + 1] = x
      /\ \A i \in 1..Len(code) : d[i] = code[i]
  BY <1>1, ReadyTypes, AppendFacts
<1>3. code' = d
  BY DEF x
<1> HIDE DEF d
<1>4. /\ Len(code) < Len(d) /\ \A i \in Len(code) + 1..Len(d) : d[i].op = op
      /\ Here = Len(code) + 1
  BY <1>1, <1>2, ReadyTypes
<1>5. \A i \in Len(code) + 1..Len(d) : d[i].op \notin {"init", "drop", "setjmp"}
  BY <1>4
<1>6. test # 0 => test \in Len(code) + 1..Len(d) /\ d[test].op \in {"branch", "test"}
  BY <1>1, <1>2, <1>4
<1>7. \A i \in p : i = Len(code) + 1 \/ i = test
  BY <1>4
<1>8. Emitted(d, Append(open, [kind |-> kind, id |-> Len(code) + 1, of |-> Len(code) + 1,
                               saved |-> auto_drop_list, exits |-> p, next |-> {},
                               test |-> test, arm |-> 0]), <<>>, {}, FALSE)
  BY <1>1, <1>2, <1>4, <1>5, <1>6, <1>7, EmitHead DEF Ready
<1>9. QED BY <1>3, <1>8, OpenBlockFacts

\* c_emit_defer, whose block is like any other.
LEMMA DeferReady ==
  ASSUME Ready, c_emit_defer PROVE Readied
<1>1. code' = Append(code, Instr("defer", Here, Block, 0)) /\ OpenBlock(NewBlock("block", {}, 0))
  BY DEF c_emit_defer
<1>2. /\ "defer" \in Ops \ {"init", "drop", "setjmp", "throw", "call"} /\ Here \in Nat /\ 0 \in Nat
      /\ "block" \in Kinds \ {"func", "try"} /\ "block" \notin Loops /\ "defer" \notin PendOps
  BY ReadyTypes DEF Ops, Kinds, Loops, PendOps
<1>3. QED BY <1>1, <1>2, OpenReady

\* A block, unsafe or region statement.
LEMMA PlainBlockReady ==
  ASSUME Ready, c_emit_plain_block PROVE Readied
<1>1. code' = Append(code, Instr("nop", 0, Block, 0)) /\ OpenBlock(NewBlock("block", {}, 0))
  BY DEF c_emit_plain_block
<1>2. /\ "nop" \in Ops \ {"init", "drop", "setjmp", "throw", "call"} /\ 0 \in Nat
      /\ "block" \in Kinds \ {"func", "try"} /\ "block" \notin Loops /\ "nop" \notin PendOps
  BY DEF Ops, Kinds, Loops, PendOps
<1>3. QED BY <1>1, <1>2, OpenReady

\* The head of an if or match.
LEMMA IfReady ==
  ASSUME Ready, c_emit_if PROVE Readied
<1>1. code' = Append(code, Instr("branch", 0, Block, 0)) /\ OpenBlock(NewBlock("if", {Here}, 0))
  BY DEF c_emit_if
<1>2. /\ "branch" \in Ops \ {"init", "drop", "setjmp", "throw", "call"} /\ 0 \in Nat
      /\ "if" \in Kinds \ {"func", "try"} /\ "if" \notin Loops /\ "branch" \in PendOps
      /\ "if" \notin {"block", "finally"}
  BY DEF Ops, Kinds, Loops, PendOps
<1>3. QED BY <1>1, <1>2, OpenReady

\* The head of a while loop, where its end will lead back.
LEMMA WhileReady ==
  ASSUME Ready, c_emit_while PROVE Readied
<1>1. code' = Append(code, Instr("branch", 0, Block, 0)) /\ OpenBlock(NewBlock("while", {Here}, Here))
  BY DEF c_emit_while
<1>2. /\ "branch" \in Ops \ {"init", "drop", "setjmp", "throw", "call"} /\ 0 \in Nat
      /\ "while" \in Kinds \ {"func", "try"} /\ "while" \in Loops /\ "branch" \in PendOps
      /\ "while" \notin {"block", "finally"} /\ "branch" \in {"branch", "test"}
  BY DEF Ops, Kinds, Loops, PendOps
<1>3. Here \in Nat /\ Here # 0
  BY ReadyTypes
<1>4. QED BY <1>1, <1>2, <1>3, OpenReady

\* The head and the test of a for loop.
LEMMA ForReady ==
  ASSUME Ready, c_emit_for PROVE Readied
<1>1. PICK kind \in {"range", "range_inclusive", "array"} :
        /\ code' = code \o <<Instr(kind, Here, Block, 0), Instr("test", Here, Block, 0)>>
        /\ OpenBlock(NewBlock(kind, {Here + 1}, Here + 1))
  BY DEF c_emit_for
<1> DEFINE x == Instr(kind, Here, Block, 0)
           y == Instr("test", Here, Block, 0)
           c == Append(code, x)
           d == Append(c, y)
           l == auto_drop_list
<1>2. /\ kind \in Ops \ {"init", "drop", "setjmp"} /\ kind \notin {"throw", "call"}
      /\ kind \notin PendOps /\ "test" \in Ops /\ "test" \in PendOps
      /\ kind \in Kinds \ {"func", "try"} /\ kind \in Loops /\ kind \notin {"block", "finally"}
  BY DEF Ops, PendOps, Kinds, Loops
<1>3. Here = Len(code) + 1 /\ Here \in Nat /\ Len(code) \in Nat /\ 0 \in Nat
      /\ Block \in Nat /\ Block <= Len(code)
  BY ReadyTypes
<1>4. x \in Instruction /\ x.op = kind /\ Emitted(c, open, l, {}, FALSE)
  BY <1>2, <1>3, PlainReady
<1>5. y \in Instruction /\ y.op = "test" /\ y.v = Here /\ y.s = Block /\ y.to = 0
  BY <1>2, <1>3, InstrFacts
<1>6. code' = d
  <2>1. code \o <<x, y>> = Append(Append(code, x), y)
    BY <1>4, <1>5, ReadyTypes
  <2>2. QED BY <1>1, <2>1
<1> HIDE DEF x, y
<1>7. /\ Len(c) = Len(code) + 1 /\ c \in Seq(Instruction)
      /\ c[Len(code) + 1] = x /\ \A i \in 1..Len(code) : c[i] = code[i]
  BY <1>4, ReadyTypes, AppendFacts
<1> HIDE DEF c
<1>8. /\ Len(d) = Len(code) + 2 /\ d \in Seq(Instruction) /\ d[Len(code) + 2] = y
      /\ d[Len(code) + 1] = x /\ \A i \in 1..Len(code) : d[i] = code[i]
  <2>1. /\ Len(d) = Len(c) + 1 /\ d \in Seq(Instruction) /\ d[Len(c) + 1] = y
        /\ \A i \in 1..Len(c) : d[i] = c[i]
    BY <1>5, <1>7, AppendFacts
  <2>2. QED BY <1>3, <1>7, <2>1
<1>9. Emitted(d, open, l, {Here + 1}, FALSE)
  <2>1. {Here + 1} = IF y.op \in PendOps THEN {} \cup {Len(c) + 1} ELSE {}
    BY <1>2, <1>3, <1>5, <1>7
  <2>2. y.op \notin {"init", "drop", "setjmp"} /\ y.op \notin {"throw", "call"} /\ y.s <= Len(c)
    BY <1>3, <1>5, <1>7
  <2>3. QED BY <1>4, <1>5, <2>1, <2>2, EmitPlain
<1> HIDE DEF d, l
<1>10. \A i \in Len(code) + 1..Len(d) : d[i] = x \/ d[i] = y
  BY <1>3, <1>8
<1>11. \A i \in Len(code) + 1..Len(d) : d[i].op \notin {"init", "drop", "setjmp"}
  BY <1>2, <1>4, <1>5, <1>10
<1>12. /\ Here + 1 \in Nat /\ Here + 1 # 0 /\ Here + 1 \in Len(code) + 1..Len(d)
       /\ Here + 1 = Len(code) + 2 /\ Len(code) < Len(d)
  BY <1>3, <1>8
<1>13. d[Here + 1].op \in {"branch", "test"}
  BY <1>5, <1>8, <1>12
<1>14. Emitted(d, Append(open, [kind |-> kind, id |-> Len(code) + 1, of |-> Len(code) + 1,
                                saved |-> l, exits |-> {Here + 1}, next |-> {},
                                test |-> Here + 1, arm |-> 0]), <<>>, {}, FALSE)
  <2>1. Emitted(code, open, l, {}, FALSE) /\ Len(open) \in DOMAIN open
    BY DEF Ready, l
  <2>2. /\ Here + 1 # 0 <=> kind \in Loops
        /\ \A i \in {Here + 1} : i = Len(code) + 1 \/ i = Here + 1
        /\ kind \in {"block", "finally"} => {Here + 1} = {}
    BY <1>2, <1>12
  <2>3. QED BY <1>2, <1>8, <1>9, <1>11, <1>12, <1>13, <2>1, <2>2, EmitHead
<1>15. QED BY <1>1, <1>2, <1>6, <1>14, OpenBlockFacts DEF l

\* A block in progress keeps its place while a loop notes a jump.
LEMMA NotedReady ==
  ASSUME Ready, NEW c, NEW p, Emitted(c, open, auto_drop_list, p, FALSE), ~NoBreaks,
         NEW m \in DOMAIN open, open[m].kind \in Loops, Here \in DOMAIN c,
         c[Here].op \in PendOps,
         NEW ex, NEW nx, ex = open[m].exits \/ ex = open[m].exits \cup {Here},
         nx = open[m].next \/ nx = open[m].next \cup {Here}, p \subseteq ex \cup nx,
         open[m].kind # "array" => nx = {}
  PROVE  Emitted(c, [open EXCEPT ![m] = [open[m] EXCEPT !.exits = ex, !.next = nx]],
                 auto_drop_list, {}, FALSE)
<1>1. \A i \in (ex \cup nx) \ (open[m].exits \cup open[m].next) : i = Here
  OBVIOUS
<1>2. Here >= open[m].of
  <2>1. open[m].of \in 0..Len(code)
    BY BlockTypes, ReadyTypes DEF Ready, Emitted
  <2>2. QED BY <2>1, ReadyTypes
<1>3. open[m].exits \subseteq ex /\ open[m].next \subseteq nx
  OBVIOUS
<1>4. \A i \in (ex \cup nx) \ (open[m].exits \cup open[m].next) :
         i \in DOMAIN c /\ c[i].op \in PendOps /\ i >= open[m].of
  BY <1>1, <1>2
<1>5. QED BY <1>3, <1>4, Register

\* Noting a jump in the list of a block leaves the blocks what they are.
LEMMA NotedLength ==
  ASSUME Ready, NEW m \in DOMAIN open, NEW b \in BlockInProgress, open' = [open EXCEPT ![m] = b]
  PROVE  Len(open') \in DOMAIN open'
<1>1. Len(open') = Len(open) /\ DOMAIN open' = DOMAIN open
  BY ReadyTypes, ExceptSeq
<1>2. QED BY <1>1 DEF Ready

\* break: a jump out of the loop from anywhere in it.
LEMMA BreakReady ==
  ASSUME Ready, c_emit_break PROVE Readied
<1> DEFINE m == InnermostOf(Loops)
           c == Append(code, Instr("goto", 0, Block, 0))
           b == [open[m] EXCEPT !.exits = open[m].exits \cup {Here}, !.next = open[m].next]
           s == [open[m] EXCEPT !.exits = @ \cup {Here}]
<1>1. /\ m # 0 /\ "break" \in profile.features /\ code' = c /\ auto_drop_list' = auto_drop_list
      /\ open' = [open EXCEPT ![m].exits = @ \cup {Here}]
  BY DEF c_emit_break, Statement
<1>2. m \in DOMAIN open /\ open[m].kind \in Loops
  BY <1>1, InnermostFacts, ReadyTypes
<1>3. "goto" \in Ops \ {"init", "drop", "setjmp"} /\ "goto" \notin {"throw", "call"}
      /\ "goto" \in PendOps /\ 0 \in Nat
  BY DEF Ops, PendOps
<1>4. /\ Instr("goto", 0, Block, 0) \in Instruction /\ Instr("goto", 0, Block, 0).op = "goto"
      /\ Emitted(c, open, auto_drop_list, {Len(code) + 1}, FALSE)
  BY <1>3, PlainReady
<1>5. c \in Seq(Instruction) /\ Len(code) + 1 \in DOMAIN c /\ c[Len(code) + 1].op = "goto"
  <2>1. /\ Len(code) \in Nat /\ c \in Seq(Instruction) /\ DOMAIN c = 1..Len(code) + 1
        /\ c[Len(code) + 1] = Instr("goto", 0, Block, 0)
    BY <1>4, ReadyTypes, AppendFacts
  <2>2. QED BY <1>4, <2>1
<1>6. Here = Len(code) + 1 /\ Here \in Nat
  BY ReadyTypes
<1> HIDE DEF m, c
<1>7. open[m] \in BlockInProgress
  BY <1>2, ReadyTypes
<1>8. b \in BlockInProgress /\ s \in BlockInProgress
  BY <1>6, <1>7 DEF BlockInProgress
<1>9. b = s
  <2>1. /\ b.kind = s.kind /\ b.id = s.id /\ b.of = s.of /\ b.saved = s.saved
        /\ b.exits = s.exits /\ b.next = s.next /\ b.test = s.test /\ b.arm = s.arm
    BY <1>7 DEF BlockInProgress
  <2> HIDE DEF b, s
  <2>2. QED BY <1>8, <2>1, SameBlock
<1>10. open' = [open EXCEPT ![m] = s]
  BY <1>1
<1>11. open' = [open EXCEPT ![m] = b]
  BY <1>9, <1>10
<1>12. ~NoBreaks
  BY <1>1 DEF NoBreaks
<1>13. open[m].kind # "array" => open[m].next = {}
  BY <1>2 DEF Ready, Emitted, Pending
<1> DEFINE ex == open[m].exits \cup {Here}
           nx == open[m].next
           p  == {Len(code) + 1}
<1>15. /\ Here \in DOMAIN c /\ c[Here].op \in PendOps
       /\ ex = open[m].exits \cup {Here} /\ nx = open[m].next /\ p \subseteq ex \cup nx
       /\ open[m].kind # "array" => nx = {}
       /\ Emitted(c, open, auto_drop_list, p, FALSE)
  BY <1>3, <1>4, <1>5, <1>6, <1>13
<1>16. open' = [open EXCEPT ![m] = [open[m] EXCEPT !.exits = ex, !.next = nx]]
  BY <1>11
<1>17. Len(open') \in DOMAIN open'
  BY <1>2, <1>8, <1>11, NotedLength
<1> HIDE DEF b, s, ex, nx, p
<1>18. Emitted(c, open', auto_drop_list, {}, FALSE)
  BY <1>2, <1>12, <1>15, <1>16, NotedReady
<1>19. QED BY <1>1, <1>17, <1>18 DEF Readied

\* continue: a jump to the test, or to the increment still to be written.
LEMMA ContinueReady ==
  ASSUME Ready, c_emit_continue PROVE Readied
<1> DEFINE m == InnermostOf(Loops)
           x == Instr("goto", 0, Block, open[m].test)
           c == Append(code, x)
           b == [open[m] EXCEPT !.exits = open[m].exits, !.next = open[m].next \cup {Here}]
           s == [open[m] EXCEPT !.next = @ \cup {Here}]
<1>1. /\ m # 0 /\ "continue" \in profile.features /\ code' = c /\ auto_drop_list' = auto_drop_list
      /\ open' = IF open[m].kind = "array" THEN [open EXCEPT ![m].next = @ \cup {Here}] ELSE open
  BY DEF c_emit_continue, Statement
<1>2. m \in DOMAIN open /\ open[m].kind \in Loops
  BY <1>1, InnermostFacts, ReadyTypes
<1>3. open[m].test \in Nat /\ open[m].test # 0
  <2>1. open[m].test \in 0..Len(code)
    BY <1>2, ReadyTypes, BlockTypes DEF Ready, Emitted
  <2>2. open[m].test # 0
    BY <1>2 DEF Ready, Emitted, Geometry
  <2>3. QED BY <2>1, <2>2
<1>4. x \in Instruction /\ x.op = "goto" /\ x.s = Block /\ x.to = open[m].test
  <2>1. "goto" \in Ops /\ 0 \in Nat /\ Block \in Nat
    BY ReadyTypes DEF Ops
  <2>2. QED BY <1>3, <2>1, InstrFacts
<1>5. ~NoBreaks
  BY <1>1 DEF NoBreaks
<1>6. Here = Len(code) + 1 /\ Here \in Nat /\ Block <= Len(code)
  BY ReadyTypes
<1> HIDE DEF m, x
<1>7. Emitted(c, open, auto_drop_list, {}, FALSE)
  BY <1>2, <1>3, <1>4, <1>5, <1>6, EmitBack DEF Ready
<1>8. c \in Seq(Instruction) /\ Here \in DOMAIN c /\ c[Here].op \in PendOps
  <2>1. c \in Seq(Instruction) /\ Len(code) + 1 \in DOMAIN c /\ c[Len(code) + 1] = x
    <3>1. Len(code) \in Nat
      BY ReadyTypes
    <3>2. QED BY <1>4, <3>1, ReadyTypes, AppendFacts
  <2>2. QED BY <1>4, <1>6, <2>1 DEF PendOps
<1> HIDE DEF c
<1>9. open[m] \in BlockInProgress
  BY <1>2, ReadyTypes
<1>10. b \in BlockInProgress /\ s \in BlockInProgress
  BY <1>6, <1>9 DEF BlockInProgress
<1>11. b = s
  <2>1. /\ b.kind = s.kind /\ b.id = s.id /\ b.of = s.of /\ b.saved = s.saved
        /\ b.exits = s.exits /\ b.next = s.next /\ b.test = s.test /\ b.arm = s.arm
    BY <1>9 DEF BlockInProgress
  <2> HIDE DEF b, s
  <2>2. QED BY <1>10, <2>1, SameBlock
<1>12. CASE open[m].kind = "array"
  <2>1. open' = [open EXCEPT ![m] = s]
    BY <1>1, <1>12
  <2>2. open' = [open EXCEPT ![m] = b]
    BY <1>11, <2>1
  <2> DEFINE ex == open[m].exits
             nx == open[m].next \cup {Here}
             p  == {}
  <2>3. Len(open') \in DOMAIN open'
    BY <1>2, <1>10, <2>2, NotedLength
  <2>4. /\ p \subseteq ex \cup nx /\ ex = open[m].exits /\ nx = open[m].next \cup {Here}
        /\ open[m].kind # "array" => nx = {}
        /\ Emitted(c, open, auto_drop_list, p, FALSE)
    BY <1>7, <1>12
  <2>5. open' = [open EXCEPT ![m] = [open[m] EXCEPT !.exits = ex, !.next = nx]]
    BY <2>2
  <2> HIDE DEF b, s, ex, nx, p
  <2>6. Emitted(c, open', auto_drop_list, {}, FALSE)
    BY <1>2, <1>5, <1>8, <2>4, <2>5, NotedReady
  <2>7. QED BY <1>1, <2>3, <2>6 DEF Readied
<1>13. CASE open[m].kind # "array"
  BY <1>1, <1>7, <1>13 DEF Ready, Readied
<1>14. QED BY <1>12, <1>13

\* return, throw and the call of a throws function.
LEMMA JumpReady ==
  ASSUME Ready, NEW op \in {"return", "throw_return", "throw", "call"}, NEW v \in {0, InnermostTry},
         code' = Append(code, Instr(op, v, Block, 0)), UNCHANGED <<open, auto_drop_list>>
  PROVE  Readied
<1>1. op \in Ops \ {"init", "drop", "setjmp"} /\ op \notin PendOps
  BY DEF Ops, PendOps
<1>2. v \in Nat /\ (v # 0 => v \in DOMAIN code /\ code[v].op = "setjmp" /\ code[v].to = 0)
  BY InnermostTryFacts
<1>3. Emitted(Append(code, Instr(op, v, Block, 0)), open, auto_drop_list, {}, FALSE)
  BY <1>1, <1>2, PlainReady
<1>4. QED BY <1>3 DEF Ready, Readied

\* c_emit_try: a setjmp and the body.
LEMMA TryReady ==
  ASSUME Ready, c_emit_try, profile.tries \in Nat PROVE Readied
<1> DEFINE x == Instr("setjmp", Here, Block, 0)
           K == {k \in DOMAIN open : open[k].kind = "try"}
<1>1. code' = Append(code, x) /\ OpenBlock(NewBlock("try", {}, 0)) /\ Cardinality(K) < profile.tries
  BY DEF c_emit_try
<1>2. Here = Len(code) + 1 /\ Here \in Nat /\ Block \in Nat /\ 0 \in Nat /\ Block <= Len(code)
  BY ReadyTypes
<1>3. x \in Instruction /\ x.op = "setjmp" /\ x.v = Len(code) + 1 /\ x.s = Block /\ x.to = 0
  <2>1. "setjmp" \in Ops
    BY DEF Ops
  <2>2. QED BY <1>2, <2>1, InstrFacts
<1>4. profile.tries <= 1 => \A k \in DOMAIN open : open[k].kind # "try"
  <2>1. IsFiniteSet(1..Len(open))
    <3>1. 1 \in Int /\ Len(open) \in Int
      BY ReadyTypes
    <3>2. QED BY <3>1, FS_Interval
  <2>2. IsFiniteSet(K)
    BY <2>1, ReadyTypes, FS_Subset
  <2>3. Cardinality(K) \in Nat
    BY <2>2, FS_CardinalityType
  <2>a. Cardinality(K) = 0 => K = {}
    BY <2>2, FS_EmptySet
  <2>b. profile.tries <= 1 => Cardinality(K) = 0
    BY <1>1, <2>3
  <2>4. profile.tries <= 1 => K = {}
    BY <2>a, <2>b
  <2>5. QED BY <2>4
<1> HIDE DEF x, K
<1>5. Emitted(Append(code, x), Append(open, [kind |-> "try", id |-> Len(code) + 1,
                of |-> Len(code) + 1, saved |-> auto_drop_list, exits |-> {}, next |-> {},
                test |-> 0, arm |-> 0]), <<>>, {}, FALSE)
  BY <1>2, <1>3, <1>4, EmitSetjmp DEF Ready
<1>6. "try" \in Kinds \ {"func"}
  BY DEF Kinds
<1>7. QED BY <1>1, <1>5, <1>6, OpenBlockFacts

----------------------------------------------------------------------------
(* The end of a block.                                                     *)

\* The body of a block with the drops c_emit_block writes behind it.
LEMMA BodyReady ==
  ASSUME Ready
  PROVE  /\ Emitted(Body, open, <<>>, {}, TRUE)
         /\ Body \in Seq(Instruction) /\ Len(Body) \in Nat /\ Len(code) <= Len(Body)
         /\ Block \in Nat /\ Block <= Len(Body)
<1>1. Body = code \o DropCode(auto_drop_list, open[Len(open)].id)
  BY ReadyTypes DEF Body, Drops, DropCode
<1>2. Emitted(Body, open, <<>>, {}, TRUE)
  BY <1>1, EmitDrops DEF Ready
<1>3. Len(Body) = Len(code) + Len(auto_drop_list) /\ Len(auto_drop_list) \in Nat
  <2>1. open[Len(open)].id \in Nat
    BY ReadyTypes
  <2>2. code \in Seq(Instruction) /\ auto_drop_list \in Seq(Nat)
    BY ReadyTypes
  <2>3. Len(code \o DropCode(auto_drop_list, open[Len(open)].id)) = Len(code) + Len(auto_drop_list)
    BY <2>1, <2>2, DropCodeFacts
  <2>4. Len(auto_drop_list) \in Nat
    BY <2>2
  <2>5. QED BY <1>1, <2>3, <2>4
<1>4. Body \in Seq(Instruction)
  BY <1>2 DEF Emitted, Typed
<1>5. Len(code) \in Nat /\ Block \in 0..Len(code)
  BY ReadyTypes
<1>6. Len(Body) \in Nat /\ Len(code) <= Len(Body) /\ Block \in Nat /\ Block <= Len(Body)
  BY <1>3, <1>5
<1>7. QED BY <1>2, <1>4, <1>6

\* Behind a block that is not the function there is the block around it.
LEMMA FrontReady ==
  ASSUME Ready, Innermost.kind # "func"
  PROVE  Len(Front(open)) \in DOMAIN Front(open)
<1>1. Len(open) # 1
  BY ReadyTypes DEF Ready, Emitted, Geometry
<1>2. Len(open) - 1 \in Nat /\ Len(open) - 1 >= 1
  BY <1>1, ReadyTypes
<1>3. Front(open) \in Seq(BlockInProgress) /\ Len(Front(open)) = Len(open) - 1
  BY <1>2, ReadyTypes DEF Front
<1>4. QED BY <1>2, <1>3

\* The statement of the innermost block is complete.
LEMMA CloseReady ==
  ASSUME Ready, NEW c, NEW z, Emitted(c, open, <<>>, {}, z), Innermost.kind \notin {"func", "try"},
         \A i \in Innermost.next : c[i].to # 0, CloseBlock(c, Innermost.exits)
  PROVE  Readied
<1> DEFINE t == Len(open)
           d == Patch(c, open[t].exits, Len(c) + 1)
<1>1. Innermost = open[t] /\ t \in DOMAIN open /\ open[t].kind \notin {"func", "try"}
  BY ReadyTypes DEF Ready
<1>2. code' = d /\ open' = Front(open) /\ auto_drop_list' = open[t].saved
  BY <1>1 DEF CloseBlock
<1>3. c \in Seq(Instruction) /\ Len(c) \in Nat /\ Pending(c, open, {})
  BY DEF Emitted, Typed
<1>4. open[t].exits \cup open[t].next \subseteq 1..Len(c)
  BY <1>1, <1>3 DEF Pending
<1>5. /\ Len(d) = Len(c)
      /\ \A i \in 1..Len(c) : d[i].to = IF i \in open[t].exits THEN Len(c) + 1 ELSE c[i].to
  BY <1>3, PatchFacts
<1>6. \A i \in open[t].exits \cup open[t].next : d[i].to # 0
  BY <1>1, <1>3, <1>4, <1>5
<1>7. Emitted(d, open, <<>>, {}, z)
  BY <1>1, EmitPatch
<1> HIDE DEF d
<1>8. Emitted(d, Front(open), open[t].saved, {}, FALSE)
  BY <1>1, <1>6, <1>7, Pop
<1>9. Len(open') \in DOMAIN open'
  BY <1>1, <1>2, FrontReady
<1>10. QED BY <1>2, <1>8, <1>9 DEF Readied

\* The end of a block, an if, else or finally.
LEMMA EndBlockReady ==
  ASSUME Ready, EndBlock PROVE Readied
<1>1. /\ Innermost.kind \in {"block", "if", "else", "finally"}
      /\ CloseBlock(Body, Innermost.exits)
  BY DEF EndBlock, EndOf
<1>2. Innermost.kind \notin {"func", "try"}
  BY <1>1
<1>3. Innermost.next = {}
  BY <1>1, ReadyTypes DEF Ready, Emitted, Pending
<1>4. QED BY <1>1, <1>2, <1>3, BodyReady, CloseReady

\* A jump at the end of the body.
LEMMA GotoEmitted ==
  ASSUME Ready
  PROVE  /\ Instr("goto", 0, Block, 0) \in Instruction
         /\ Emitted(Append(Body, Instr("goto", 0, Block, 0)), open, <<>>, {Len(Body) + 1}, TRUE)
         /\ Len(Append(Body, Instr("goto", 0, Block, 0))) = Len(Body) + 1
<1> DEFINE x == Instr("goto", 0, Block, 0)
<1>1. "goto" \in Ops /\ "goto" \in PendOps /\ 0 \in Nat
  BY DEF Ops, PendOps
<1>2. x \in Instruction /\ x.op = "goto" /\ x.s = Block /\ x.to = 0
  BY <1>1, BodyReady, InstrFacts
<1> HIDE DEF x
<1>3. Emitted(Append(Body, x), open, <<>>, {Len(Body) + 1}, TRUE)
  <2>1. {Len(Body) + 1} = IF x.op \in PendOps THEN {} \cup {Len(Body) + 1} ELSE {}
    BY <1>1, <1>2
  <2>2. x.op \notin {"init", "drop", "setjmp"} /\ x.op \notin {"throw", "call"}
    BY <1>2
  <2>3. QED BY <1>2, <2>1, <2>2, BodyReady, EmitPlain
<1>4. Len(Append(Body, x)) = Len(Body) + 1
  BY <1>2, BodyReady, AppendFacts
<1>5. QED BY <1>2, <1>3, <1>4 DEF x

\* The statement goes on with another block.
LEMMA NextReady ==
  ASSUME Ready, NEW c, NEW kind \in Kinds, NEW exits \in SUBSET Nat, NEW arm \in Nat,
         c \in Seq(Instruction), NextBlock(c, kind, exits, arm),
         Emitted(c, Renewed(open, kind, Len(c), exits, arm), <<>>, {}, FALSE)
  PROVE  Readied
<1>1. /\ code' = c /\ open' = Renewed(open, kind, Len(c), exits, arm) /\ auto_drop_list' = <<>>
  BY ReadyTypes DEF NextBlock, Renewed
<1>2. Len(open') \in DOMAIN open'
  <2>1. Len(c) \in Nat
    OBVIOUS
  <2>2. QED BY <1>1, <2>1, ReadyTypes, RenewedFacts DEF Ready
<1>3. QED BY <1>1, <1>2 DEF Readied

\* The end of an if with an else behind it.
LEMMA EndIfElseReady ==
  ASSUME Ready, EndIfElse PROVE Readied
<1> DEFINE t == Len(open)
           c == Append(Body, Instr("goto", 0, Block, 0))
           d == Patch(c, open[t].exits, Len(c) + 1)
<1>1. Innermost = open[t] /\ t \in DOMAIN open /\ t = Len(open)
  BY ReadyTypes DEF Ready
<1>2. open[t].kind = "if" /\ NextBlock(d, "else", {Len(c)}, 0)
  BY <1>1 DEF EndIfElse, EndOf
<1>3. /\ Emitted(c, open, <<>>, {Len(c)}, TRUE) /\ c \in Seq(Instruction) /\ Len(c) \in Nat
      /\ Len(c) = Len(Body) + 1
  <2>1. Emitted(c, open, <<>>, {Len(Body) + 1}, TRUE) /\ Len(c) = Len(Body) + 1
    BY GotoEmitted
  <2> HIDE DEF c
  <2>2. c \in Seq(Instruction)
    BY <2>1 DEF Emitted, Typed
  <2>3. Len(c) \in Nat
    BY <2>2
  <2>4. QED BY <2>1, <2>2, <2>3
<1> HIDE DEF c
<1>4. Emitted(d, open, <<>>, {Len(c)}, TRUE)
  BY <1>1, <1>2, <1>3, EmitPatch
<1>5. /\ d \in Seq(Instruction) /\ Len(d) = Len(c)
      /\ \A i \in 1..Len(c) : d[i].to = IF i \in open[t].exits THEN Len(c) + 1 ELSE c[i].to
  BY <1>3, PatchFacts
<1>6. open[t].exits \subseteq 1..Len(c)
  BY <1>1, <1>3 DEF Emitted, Pending
<1> HIDE DEF d, t
<1>7. Emitted(d, Renewed(open, "else", Len(d), {Len(c)}, 0), <<>>, {}, FALSE)
  <2>1. /\ open[t].kind \notin Loops \cup {"func", "try"} /\ "else" \in {"else", "arm", "finally"}
        /\ 0 \in Nat /\ {Len(c)} \subseteq {Len(c)} \cup open[t].exits
    BY <1>2 DEF Loops
  <2>2. \A i \in ({Len(c)} \cup open[t].exits) \ {Len(c)} : d[i].to # 0
    BY <1>3, <1>5, <1>6
  <2>3. QED BY <1>1, <1>4, <2>1, <2>2, EmitRenew
<1>8. "else" \in Kinds /\ {Len(c)} \in SUBSET Nat /\ 0 \in Nat
  BY <1>3 DEF Kinds
<1>9. QED BY <1>2, <1>5, <1>7, <1>8, NextReady

\* The end of a while loop: back to its test.
LEMMA EndWhileReady ==
  ASSUME Ready, EndWhile PROVE Readied
<1> DEFINE t == Len(open)
           x == Instr("goto", 0, Block, Innermost.test)
           c == Append(Body, x)
<1>1. Innermost = open[t] /\ t \in DOMAIN open /\ t = Len(open)
  BY ReadyTypes DEF Ready
<1>2. Innermost.kind = "while" /\ CloseBlock(c, Innermost.exits)
  BY DEF EndWhile, EndOf
<1>3. Innermost.next = {} /\ Innermost.test # 0
  <2>1. Innermost.next = {}
    BY <1>1, <1>2 DEF Ready, Emitted, Pending
  <2>2. Innermost.test # 0
    BY <1>1, <1>2 DEF Ready, Emitted, Geometry, Loops
  <2>3. QED BY <2>1, <2>2
<1>4. x \in Instruction /\ x.op = "goto" /\ x.s = Block /\ x.to = Innermost.test
  <2>1. "goto" \in Ops /\ 0 \in Nat /\ Block \in Nat /\ Innermost.test \in Nat
    BY ReadyTypes DEF Ops
  <2>2. QED BY <2>1, InstrFacts
<1> HIDE DEF x, t
<1>5. Emitted(c, open, <<>>, {}, TRUE)
  BY <1>1, <1>3, <1>4, BodyReady, EmitBack
<1>6. QED BY <1>2, <1>3, <1>5, CloseReady

\* The end of a for loop: its increment, and back to its test.
LEMMA EndForReady ==
  ASSUME Ready, EndFor PROVE Readied
<1> DEFINE t == Len(open)
           x == Instr("inc", Innermost.of, Block, 0)
           y == Instr("goto", 0, Block, Innermost.test)
           b == Patch(Body, Innermost.next, Len(Body) + 1)
           c == Append(b, x)
           d == Append(c, y)
<1>1. Innermost = open[t] /\ t \in DOMAIN open /\ t = Len(open)
  BY ReadyTypes DEF Ready
<1>2. /\ Innermost.kind \in {"range", "range_inclusive", "array"}
      /\ CloseBlock(b \o <<x, y>>, Innermost.exits)
  BY DEF EndFor, EndOf
<1>3. Innermost.kind \notin {"func", "try"} /\ Innermost.test # 0
  <2>1. Innermost.kind \in Loops
    BY <1>2 DEF Loops
  <2>2. QED BY <1>1, <1>2, <2>1 DEF Ready, Emitted, Geometry
<1>4. /\ x \in Instruction /\ x.op = "inc" /\ x.s = Block /\ x.to = 0
      /\ y \in Instruction /\ y.op = "goto" /\ y.s = Block /\ y.to = Innermost.test
  <2>1. /\ "inc" \in Ops /\ "goto" \in Ops /\ 0 \in Nat /\ Block \in Nat
        /\ Innermost.test \in Nat /\ Innermost.of \in Nat
    BY ReadyTypes DEF Ops
  <2>2. QED BY <2>1, InstrFacts
<1>5. Innermost.next \subseteq 1..Len(Body) /\ Len(Body) \in Nat /\ Body \in Seq(Instruction)
  <2>1. Pending(Body, open, {}) /\ Body \in Seq(Instruction)
    BY BodyReady DEF Emitted
  <2>2. QED BY <1>1, <2>1 DEF Pending
<1>6. /\ b \in Seq(Instruction) /\ Len(b) = Len(Body)
      /\ \A i \in Innermost.next : b[i].to = Len(Body) + 1
  BY <1>5, PatchFacts
<1>7. Emitted(b, open, <<>>, {}, TRUE)
  <2>1. Innermost.next \subseteq {} \cup open[t].exits \cup open[t].next /\ open[t].kind # "try"
    BY <1>1, <1>3
  <2>2. QED BY <1>1, <2>1, BodyReady, EmitPatch
<1> HIDE DEF x, y, b, t
<1>8. Block <= Len(b)
  BY <1>6, BodyReady
<1>9. Emitted(c, open, <<>>, {}, TRUE)
  <2>1. {} = IF x.op \in PendOps THEN {} \cup {Len(b) + 1} ELSE {}
    BY <1>4 DEF PendOps
  <2>2. x.op \notin {"init", "drop", "setjmp"} /\ x.op \notin {"throw", "call"} /\ x.s <= Len(b)
    BY <1>4, <1>8
  <2>3. QED BY <1>4, <1>7, <2>1, <2>2, EmitPlain
<1>10. /\ c \in Seq(Instruction) /\ Len(c) = Len(b) + 1 /\ Len(b) \in Nat
       /\ \A i \in 1..Len(b) : c[i] = b[i]
  BY <1>4, <1>6, AppendFacts
<1> HIDE DEF c
<1>11. Block <= Len(c)
  BY <1>8, <1>10, BodyReady
<1>12. Emitted(d, open, <<>>, {}, TRUE)
  BY <1>1, <1>3, <1>4, <1>9, <1>11, EmitBack
<1>13. d = b \o <<x, y>>
  BY <1>4, <1>6 DEF c
<1>14. \A i \in Innermost.next : d[i].to # 0
  <2> SUFFICES ASSUME NEW i \in Innermost.next PROVE d[i].to # 0
    OBVIOUS
  <2>1. i \in 1..Len(b) /\ b[i].to = Len(Body) + 1
    BY <1>5, <1>6
  <2>2. i \in 1..Len(c) /\ c[i] = b[i]
    BY <1>10, <2>1
  <2>3. d[i] = c[i]
    BY <1>4, <1>10, <2>2, AppendFacts
  <2>4. QED BY <1>5, <2>1, <2>2, <2>3
<1> HIDE DEF d
<1>15. CloseBlock(d, Innermost.exits)
  BY <1>2, <1>13
<1>16. QED BY <1>3, <1>12, <1>14, <1>15, CloseReady

\* The blocks q differ from o in what the next block of the innermost statement replaces.
AsGoodAs(q, o) ==
  /\ Len(q) = Len(o) /\ Len(q) \in DOMAIN q /\ Front(q) = Front(o)
  /\ q[Len(q)].saved = o[Len(o)].saved
  /\ \A kind \in Kinds, id \in Nat, ex \in SUBSET Nat, arm \in Nat :
       Renewed(q, kind, id, ex, arm) = Renewed(o, kind, id, ex, arm)

\* Behind the body of a try or one of its arms.
LEMMA AfterTryReady ==
  ASSUME Ready, Innermost.kind # "func", NEW c, NEW exits, NEW q, NEW z, Emitted(c, q, <<>>, {}, z),
         AsGoodAs(q, open), q[Len(q)].kind = "arm", q[Len(q)].exits = exits,
         Block <= Len(c), AfterTry(c, exits)
  PROVE  Readied
<1> DEFINE of  == Innermost.of
           x   == Append(c, Instr("arm", of, Block, 0))
           y   == Append(Patch(c, exits, Len(c) + 1), Instr("finally", of, Block, 0))
           arm == Innermost.arm + 1
<1>1. of \in Nat /\ Block \in Nat /\ arm \in Nat
  <2>1. Innermost.arm \in Nat
    BY ReadyTypes DEF BlockInProgress
  <2>2. QED BY <2>1, ReadyTypes
<1>2. c \in Seq(Instruction) /\ q \in Seq(BlockInProgress)
  BY DEF Emitted, Typed
<1>3. exits \in SUBSET Nat
  <2>1. q[Len(q)] \in BlockInProgress
    BY <1>2 DEF AsGoodAs
  <2>2. q[Len(q)].exits \in SUBSET Nat
    BY <2>1 DEF BlockInProgress
  <2>3. QED BY <2>2
<1>4. /\ Emitted(x, Renewed(q, "arm", Len(x), exits, arm), <<>>, {}, FALSE)
      /\ Emitted(y, Renewed(q, "finally", Len(y), {}, 0), <<>>, {}, FALSE)
      /\ Emitted(Patch(c, exits, Len(c) + 1), Front(q), q[Len(q)].saved, {}, FALSE)
  BY <1>1, BehindTry DEF AsGoodAs
<1> HIDE DEF of, arm
<1>5. CASE CatchArm(c, exits)
  <2>1. NextBlock(x, "arm", exits, arm)
    BY <1>5 DEF CatchArm, of, arm
  <2> HIDE DEF x
  <2>2. x \in Seq(Instruction)
    BY <1>4 DEF Emitted, Typed
  <2>3. Len(x) \in Nat /\ "arm" \in Kinds
    BY <2>2 DEF Kinds
  <2>4. Emitted(x, Renewed(open, "arm", Len(x), exits, arm), <<>>, {}, FALSE)
    BY <1>1, <1>3, <1>4, <2>3 DEF AsGoodAs
  <2>5. QED BY <1>1, <1>3, <2>1, <2>2, <2>3, <2>4, NextReady
<1>6. CASE Finally(c, exits)
  <2>1. NextBlock(y, "finally", {}, 0)
    BY <1>6 DEF Finally, of
  <2> HIDE DEF y
  <2>2. y \in Seq(Instruction)
    BY <1>4 DEF Emitted, Typed
  <2>3. Len(y) \in Nat /\ "finally" \in Kinds /\ {} \in SUBSET Nat /\ 0 \in Nat
    BY <2>2 DEF Kinds
  <2>4. Emitted(y, Renewed(open, "finally", Len(y), {}, 0), <<>>, {}, FALSE)
    BY <1>4, <2>3 DEF AsGoodAs
  <2>5. QED BY <2>1, <2>2, <2>3, <2>4, NextReady
<1>7. CASE CloseBlock(c, exits)
  <2>1. /\ code' = Patch(c, exits, Len(c) + 1) /\ open' = Front(open)
        /\ auto_drop_list' = Innermost.saved
    BY <1>7 DEF CloseBlock
  <2>2. Innermost = open[Len(open)]
    BY ReadyTypes
  <2>3. QED BY <1>4, <2>1, <2>2, FrontReady DEF Readied, AsGoodAs
<1>8. QED BY <1>5, <1>6, <1>7 DEF AfterTry

\* The end of a try body.
LEMMA EndTryReady ==
  ASSUME Ready, EndTry PROVE Readied
<1> DEFINE t == Len(open)
           c == Append(Body, Instr("goto", 0, Block, 0))
           d == Patch(c, {open[t].of}, Len(c) + 1)
           q == Renewed(open, "arm", Len(c), {Len(c)}, 0)
<1>1. Innermost = open[t] /\ t \in DOMAIN open /\ t = Len(open) /\ open \in Seq(BlockInProgress)
  BY ReadyTypes DEF Ready
<1>2. Innermost.kind = "try" /\ AfterTry(d, {Len(c)})
  BY <1>1 DEF EndTry, EndOf
<1>3. /\ Emitted(c, open, <<>>, {Len(c)}, TRUE) /\ c \in Seq(Instruction) /\ Len(c) \in Nat
      /\ Len(c) = Len(Body) + 1
  <2>1. Emitted(c, open, <<>>, {Len(Body) + 1}, TRUE) /\ Len(c) = Len(Body) + 1
    BY GotoEmitted
  <2> HIDE DEF c
  <2>2. c \in Seq(Instruction)
    BY <2>1 DEF Emitted, Typed
  <2>3. Len(c) \in Nat
    BY <2>2
  <2>4. QED BY <2>1, <2>2, <2>3
<1> HIDE DEF c
<1>4. Emitted(d, q, <<>>, {}, FALSE)
  BY <1>1, <1>2, <1>3, CloseTry
<1>5. Len(d) = Len(c)
  BY <1>3, PatchFacts
<1>6. "arm" \in Kinds /\ {Len(c)} \in SUBSET Nat /\ 0 \in Nat
  BY <1>3 DEF Kinds
<1>7. /\ Len(q) = t /\ DOMAIN q = DOMAIN open /\ q[t].kind = "arm" /\ q[t].exits = {Len(c)}
      /\ q[t].saved = open[t].saved /\ Front(q) = Front(open)
  BY <1>1, <1>3, <1>6, RenewedFacts
<1>8. \A kind \in Kinds, id \in Nat, ex \in SUBSET Nat, arm \in Nat :
         Renewed(q, kind, id, ex, arm) = Renewed(open, kind, id, ex, arm)
  BY <1>1, <1>3, <1>6, RenewedTwice
<1> HIDE DEF d, q, t
<1>9. Block <= Len(d)
  BY <1>3, <1>5, BodyReady
<1>10. Innermost.kind # "func" /\ q[Len(q)].kind = "arm" /\ q[Len(q)].exits = {Len(c)}
  BY <1>1, <1>2, <1>7
<1>11. AsGoodAs(q, open)
  BY <1>1, <1>7, <1>8 DEF AsGoodAs
<1>12. QED BY <1>2, <1>4, <1>9, <1>10, <1>11, AfterTryReady

\* The end of a catch arm.
LEMMA EndArmReady ==
  ASSUME Ready, EndArm PROVE Readied
<1>1. Innermost.kind = "arm" /\ AfterTry(Body, Innermost.exits)
  BY DEF EndArm, EndOf
<1>2. Innermost = open[Len(open)] /\ Len(open) \in DOMAIN open
  BY ReadyTypes DEF Ready
<1>3. AsGoodAs(open, open)
  BY <1>2 DEF AsGoodAs
<1>4. QED BY <1>1, <1>2, <1>3, BodyReady, AfterTryReady

\* The function is complete.
LEMMA EndFunctionReady ==
  ASSUME Ready, EndFunction PROVE Emitted(code', <<>>, <<>>, {}, FALSE)
<1> DEFINE t == Len(open)
           x == Instr("return", 0, 0, 0)
<1>1. Innermost = open[t] /\ t \in DOMAIN open /\ t = Len(open) /\ open \in Seq(BlockInProgress)
  BY ReadyTypes DEF Ready
<1>2. Innermost.kind = "func" /\ code' = Append(Body, x)
  BY DEF EndFunction
<1>3. x \in Instruction /\ x.op = "return" /\ x.s = 0 /\ x.to = 0
  <2>1. "return" \in Ops /\ 0 \in Nat
    BY DEF Ops
  <2>2. QED BY <2>1, InstrFacts
<1> HIDE DEF x, t
<1>4. Emitted(code', open, <<>>, {}, TRUE)
  <2>1. {} = IF x.op \in PendOps THEN {} \cup {Len(Body) + 1} ELSE {}
    BY <1>3 DEF PendOps
  <2>2. /\ x.op \notin {"init", "drop", "setjmp"} /\ x.op \notin {"throw", "call"}
        /\ x.s <= Len(Body)
    BY <1>3, BodyReady
  <2>3. QED BY <1>2, <1>3, <2>1, <2>2, BodyReady, EmitPlain
<1>5. open[t].kind = "func" /\ t = 1 /\ open[t].exits = {} /\ open[t].next = {}
  <2>1. open[t].kind = "func"
    BY <1>1, <1>2
  <2>2. t = 1
    BY <1>1, <2>1 DEF Ready, Emitted, Geometry
  <2>3. open[t].exits = {} /\ open[t].next = {}
    BY <1>1, <2>1 DEF Ready, Emitted, Pending
  <2>4. QED BY <2>1, <2>2, <2>3
<1>6. Emitted(code', Front(open), open[t].saved, {}, FALSE)
  <2>1. open[t].kind # "try" /\ \A i \in open[t].exits \cup open[t].next : code'[i].to # 0
    BY <1>5
  <2>2. QED BY <1>1, <1>4, <2>1, Pop
<1>7. Front(open) = <<>>
  <2>1. Front(open) = SubSeq(open, 1, 0)
    BY <1>1, <1>5 DEF Front
  <2>2. QED BY <1>1, <2>1, SubSeqEmpty
<1>8. Emitted(code', <<>>, open[t].saved, {}, FALSE)
  BY <1>6, <1>7
<1>9. Emitted(code', <<>>, <<>>, {}, FALSE)
  <2>1. \A k \in DOMAIN <<>> : FALSE
    OBVIOUS
  <2>2. <<>> \in Seq(Nat)
    OBVIOUS
  <2>3. Typed(code', <<>>, <<>>) /\ Geometry(code', <<>>) /\ Pending(code', <<>>, {})
        /\ Tries(code', <<>>) /\ Nested(code', <<>>, {})
    BY <1>8, <2>2 DEF Emitted, Typed
  <2>4. Objects(code', <<>>, <<>>, FALSE)
    BY <1>8, <2>1 DEF Emitted, Objects, Listed, Covered, Sealed, InList
  <2>5. QED BY <2>3, <2>4 DEF Emitted
<1>10. QED BY <1>9

----------------------------------------------------------------------------
(* What the instructions owe to the profile.                               *)

\* The instructions that need a feature of the profile.
Special == {"setjmp", "throw", "throw_return", "call", "return"}

\* The features that let the first n instructions be emitted.
Featured(c, n) ==
  \A i \in 1..n :
    /\ c[i].op = "setjmp" => "try" \in profile.features
    /\ c[i].op = "throw_return" => profile.throws
    /\ c[i].op = "return" => "return" \in profile.features
    /\ c[i].op \in {"throw", "throw_return", "call", "return"} =>
         profile.features \cap EarlyExits # {}
    /\ c[i].op \in {"throw", "call"} /\ c[i].v = 0 =>
         {"throw_outside", "call_outside"} \cap profile.features # {}

\* d has the special instructions of c and no others.
Quiet(c, d) ==
  \A i \in DOMAIN d : \/ i \in DOMAIN c /\ d[i].op = c[i].op /\ d[i].v = c[i].v
                      \/ d[i].op \notin Special

\* Code without further special instructions needs no further features.
LEMMA QuietFeatured ==
  ASSUME NEW c \in Seq(Instruction), NEW d \in Seq(Instruction), Quiet(c, d), Featured(c, Len(c))
  PROVE  Featured(d, Len(d))
<1> SUFFICES ASSUME NEW i \in 1..Len(d)
             PROVE  /\ d[i].op = "setjmp" => "try" \in profile.features
                    /\ d[i].op = "throw_return" => profile.throws
                    /\ d[i].op = "return" => "return" \in profile.features
                    /\ d[i].op \in {"throw", "throw_return", "call", "return"} =>
                         profile.features \cap EarlyExits # {}
                    /\ d[i].op \in {"throw", "call"} /\ d[i].v = 0 =>
                         {"throw_outside", "call_outside"} \cap profile.features # {}
  BY DEF Featured
<1>1. DOMAIN c = 1..Len(c) /\ DOMAIN d = 1..Len(d)
  OBVIOUS
<1>2. CASE i \in DOMAIN c /\ d[i].op = c[i].op /\ d[i].v = c[i].v
  BY <1>1, <1>2 DEF Featured
<1>3. CASE d[i].op \notin Special
  BY <1>3 DEF Special
<1>4. QED BY <1>1, <1>2, <1>3 DEF Quiet

\* Quiet steps add up.
LEMMA QuietThen ==
  ASSUME NEW c, NEW d, NEW e, Quiet(c, d), Quiet(d, e)
  PROVE  Quiet(c, e)
BY DEF Quiet

\* One more instruction that is not special.
LEMMA QuietAppend ==
  ASSUME NEW c \in Seq(Instruction), NEW x \in Instruction, x.op \notin Special
  PROVE  Quiet(c, Append(c, x))
<1> DEFINE d == Append(c, x)
<1>1. /\ Len(c) \in Nat /\ DOMAIN d = 1..Len(c) + 1 /\ DOMAIN c = 1..Len(c)
      /\ d[Len(c) + 1] = x /\ \A i \in 1..Len(c) : d[i] = c[i]
  BY AppendFacts
<1> HIDE DEF d
<1>2. Quiet(c, d)
  <2> SUFFICES ASSUME NEW i \in DOMAIN d
               PROVE  \/ i \in DOMAIN c /\ d[i].op = c[i].op /\ d[i].v = c[i].v
                      \/ d[i].op \notin Special
    BY DEF Quiet
  <2>1. CASE i = Len(c) + 1
    BY <1>1, <2>1
  <2>2. CASE i # Len(c) + 1
    BY <1>1, <2>2
  <2>3. QED BY <2>1, <2>2
<1>3. QED BY <1>2 DEF d

\* Patching changes targets only.
LEMMA QuietPatch ==
  ASSUME NEW c \in Seq(Instruction), NEW from
  PROVE  Quiet(c, Patch(c, from, Len(c) + 1))
<1> DEFINE d == Patch(c, from, Len(c) + 1)
<1>1. /\ d \in Seq(Instruction) /\ Len(d) = Len(c) /\ DOMAIN c = 1..Len(c)
      /\ \A i \in 1..Len(c) : d[i].op = c[i].op /\ d[i].v = c[i].v
  BY PatchFacts
<1>2. DOMAIN d = DOMAIN c
  BY <1>1
<1> HIDE DEF d
<1>3. Quiet(c, d)
  BY <1>1, <1>2 DEF Quiet
<1>4. QED BY <1>3 DEF d

\* Drops are not special.
LEMMA QuietBody ==
  ASSUME Ready
  PROVE  Quiet(code, Body)
<1> DEFINE l == auto_drop_list
           s == open[Len(open)].id
<1>1. /\ code \in Seq(Instruction) /\ l \in Seq(Nat) /\ s \in Nat /\ DOMAIN code = 1..Len(code)
      /\ Len(code) \in Nat /\ Len(l) \in Nat
  BY ReadyTypes
<1>2. Body = code \o DropCode(l, s)
  BY ReadyTypes DEF Body, Drops, DropCode
<1> HIDE DEF l, s
<1>3. /\ DOMAIN Body = 1..Len(code) + Len(l)
      /\ \A i \in 1..Len(code) : Body[i] = code[i]
      /\ \A i \in Len(code) + 1..Len(code) + Len(l) :
           \E y \in 1..Len(l) : Body[i] = Instr("drop", l[y], s, 0)
  BY <1>1, <1>2, DropsBehind
<1>4. ASSUME NEW i \in DOMAIN Body, i \notin DOMAIN code PROVE Body[i].op \notin Special
  <2>1. i \in Len(code) + 1..Len(code) + Len(l)
    BY <1>1, <1>3, <1>4
  <2>2. PICK y \in 1..Len(l) : Body[i] = Instr("drop", l[y], s, 0)
    BY <1>3, <2>1
  <2>3. Body[i].op = "drop"
    BY <2>2 DEF Instr
  <2>4. QED BY <2>3 DEF Special
<1>5. QED BY <1>1, <1>3, <1>4 DEF Quiet

\* One more instruction, as Instr makes it.
LEMMA QuietInstr ==
  ASSUME NEW c \in Seq(Instruction), NEW op \in Ops \ Special, NEW v \in Nat, NEW s \in Nat,
         NEW to \in Nat
  PROVE  Quiet(c, Append(c, Instr(op, v, s, to))) /\ Append(c, Instr(op, v, s, to)) \in Seq(Instruction)
<1> DEFINE x == Instr(op, v, s, to)
<1>1. x \in Instruction /\ x.op \notin Special
  BY InstrFacts
<1> HIDE DEF x
<1>2. Quiet(c, Append(c, x)) /\ Append(c, x) \in Seq(Instruction)
  BY <1>1, QuietAppend
<1>3. QED BY <1>2 DEF x

\* The features in the code of a statement that is not special.
LEMMA StatementFeatured ==
  ASSUME Ready, Featured(code, Len(code)),
         \/ c_emit_let \/ c_emit_defer \/ c_emit_plain_block \/ c_emit_if \/ c_emit_while
         \/ c_emit_for \/ c_emit_break \/ c_emit_continue
  PROVE  Featured(code', Len(code'))
<1>1. /\ code \in Seq(Instruction) /\ Here \in Nat /\ Block \in Nat /\ 0 \in Nat
  BY ReadyTypes
<1>2. ASSUME NEW op \in Ops \ Special, NEW v \in Nat, NEW to \in Nat,
             code' = Append(code, Instr(op, v, Block, to))
      PROVE  Featured(code', Len(code'))
  BY <1>1, <1>2, QuietInstr, QuietFeatured
<1>3. {"init", "defer", "nop", "branch", "goto", "test", "range", "range_inclusive", "array"}
         \subseteq Ops \ Special
  BY DEF Ops, Special
<1>4. CASE c_emit_let
  BY <1>1, <1>2, <1>3, <1>4 DEF c_emit_let
<1>5. CASE c_emit_defer
  BY <1>1, <1>2, <1>3, <1>5 DEF c_emit_defer
<1>6. CASE c_emit_plain_block
  BY <1>1, <1>2, <1>3, <1>6 DEF c_emit_plain_block
<1>7. CASE c_emit_if
  BY <1>1, <1>2, <1>3, <1>7 DEF c_emit_if
<1>8. CASE c_emit_while
  BY <1>1, <1>2, <1>3, <1>8 DEF c_emit_while
<1>9. CASE c_emit_for
  <2>1. PICK kind \in {"range", "range_inclusive", "array"} :
          code' = code \o <<Instr(kind, Here, Block, 0), Instr("test", Here, Block, 0)>>
    BY <1>9 DEF c_emit_for
  <2> DEFINE x == Instr(kind, Here, Block, 0)
             y == Instr("test", Here, Block, 0)
             c == Append(code, x)
  <2>2. x \in Instruction /\ y \in Instruction
    BY <1>1, <1>3, InstrFacts
  <2>3. code' = Append(c, y)
    <3>1. code \o <<x, y>> = Append(Append(code, x), y)
      BY <1>1, <2>2
    <3>2. QED BY <2>1, <3>1
  <2>4. Quiet(code, c) /\ c \in Seq(Instruction)
    BY <1>1, <1>3, QuietInstr
  <2>5. Quiet(c, Append(c, y)) /\ Append(c, y) \in Seq(Instruction)
    <3> HIDE DEF c
    <3>1. QED BY <1>1, <1>3, <2>4, QuietInstr
  <2> HIDE DEF c, y
  <2>6. Quiet(code, Append(c, y))
    BY <2>4, <2>5, QuietThen
  <2>7. QED BY <1>1, <2>3, <2>5, <2>6, QuietFeatured
<1>10. CASE c_emit_break
  BY <1>1, <1>2, <1>3, <1>10 DEF c_emit_break
<1>11. CASE c_emit_continue
  <2>1. InnermostOf(Loops) \in DOMAIN open
    BY <1>11, ReadyTypes, InnermostFacts DEF c_emit_continue
  <2>2. open[InnermostOf(Loops)].test \in Nat
    BY <2>1, ReadyTypes, BlockTypes DEF Ready, Emitted
  <2>3. QED BY <1>1, <1>2, <1>3, <1>11, <2>2 DEF c_emit_continue
<1>12. QED BY <1>4, <1>5, <1>6, <1>7, <1>8, <1>9, <1>10, <1>11

\* One more instruction with its feature.
LEMMA AppendFeatured ==
  ASSUME NEW c \in Seq(Instruction), Featured(c, Len(c)), NEW x \in Instruction,
         x.op = "setjmp" => "try" \in profile.features,
         x.op = "throw_return" => profile.throws,
         x.op = "return" => "return" \in profile.features,
         x.op \in {"throw", "throw_return", "call", "return"} =>
           profile.features \cap EarlyExits # {},
         x.op \in {"throw", "call"} /\ x.v = 0 =>
           {"throw_outside", "call_outside"} \cap profile.features # {}
  PROVE  Featured(Append(c, x), Len(Append(c, x)))
<1> DEFINE d == Append(c, x)
<1>1. /\ Len(c) \in Nat /\ Len(d) = Len(c) + 1 /\ d[Len(c) + 1] = x
      /\ \A i \in 1..Len(c) : d[i] = c[i]
  BY AppendFacts
<1> HIDE DEF d
<1>2. Featured(d, Len(d))
  <2> SUFFICES ASSUME NEW i \in 1..Len(c) + 1
               PROVE  /\ d[i].op = "setjmp" => "try" \in profile.features
                      /\ d[i].op = "throw_return" => profile.throws
                      /\ d[i].op = "return" => "return" \in profile.features
                      /\ d[i].op \in {"throw", "throw_return", "call", "return"} =>
                           profile.features \cap EarlyExits # {}
                      /\ d[i].op \in {"throw", "call"} /\ d[i].v = 0 =>
                           {"throw_outside", "call_outside"} \cap profile.features # {}
    BY <1>1 DEF Featured
  <2>1. CASE i = Len(c) + 1
    BY <1>1, <2>1
  <2>2. CASE i # Len(c) + 1
    BY <1>1, <2>2 DEF Featured
  <2>3. QED BY <2>1, <2>2
<1>3. QED BY <1>2 DEF d

\* return, throw, a call and try have their features.
LEMMA JumpFeatured ==
  ASSUME Ready, Featured(code, Len(code)), c_emit_return \/ c_emit_throw \/ c_emit_call \/ c_emit_try
  PROVE  Featured(code', Len(code'))
<1>1. /\ code \in Seq(Instruction) /\ Here \in Nat /\ Block \in Nat /\ 0 \in Nat
      /\ InnermostTry \in Nat
  BY ReadyTypes, InnermostTryFacts
<1>2. {"return", "throw", "throw_return", "call", "setjmp"} \subseteq Ops
  BY DEF Ops
<1>3. CASE c_emit_return
  <2> DEFINE x == Instr("return", 0, Block, 0)
  <2>1. x \in Instruction /\ x.op = "return"
    BY <1>1, <1>2, InstrFacts
  <2>2. /\ profile.features \cap EarlyExits # {} /\ code' = Append(code, x)
        /\ "return" \in profile.features
    BY <1>3 DEF c_emit_return, Statement, EarlyExits
  <2> HIDE DEF x
  <2>3. QED BY <1>1, <2>1, <2>2, AppendFeatured
<1>4. CASE c_emit_throw
  <2> DEFINE op == IF profile.throws THEN "throw_return" ELSE "throw"
             x  == Instr(op, InnermostTry, Block, 0)
  <2>1. op \in Ops /\ op \in {"throw", "throw_return"} /\ (op = "throw_return" => profile.throws)
    BY <1>2
  <2>2. x \in Instruction /\ x.op = op /\ x.v = InnermostTry
    BY <1>1, <2>1, InstrFacts
  <2>3. /\ profile.features \cap EarlyExits # {} /\ code' = Append(code, x)
        /\ InnermostTry = 0 => {"throw_outside", "call_outside"} \cap profile.features # {}
    BY <1>4 DEF c_emit_throw, Statement, EarlyExits
  <2> HIDE DEF x, op
  <2>4. QED BY <1>1, <2>1, <2>2, <2>3, AppendFeatured
<1>5. CASE c_emit_call
  <2> DEFINE x == Instr("call", InnermostTry, Block, 0)
  <2>1. x \in Instruction /\ x.op = "call" /\ x.v = InnermostTry
    BY <1>1, <1>2, InstrFacts
  <2>2. /\ profile.features \cap EarlyExits # {} /\ code' = Append(code, x)
        /\ InnermostTry = 0 => {"throw_outside", "call_outside"} \cap profile.features # {}
    BY <1>5 DEF c_emit_call, Statement, EarlyExits
  <2> HIDE DEF x
  <2>3. QED BY <1>1, <2>1, <2>2, AppendFeatured
<1>6. CASE c_emit_try
  <2> DEFINE x == Instr("setjmp", Here, Block, 0)
  <2>1. x \in Instruction /\ x.op = "setjmp"
    BY <1>1, <1>2, InstrFacts
  <2>2. "try" \in profile.features /\ code' = Append(code, x)
    BY <1>6 DEF c_emit_try, Statement
  <2> HIDE DEF x
  <2>3. QED BY <1>1, <2>1, <2>2, AppendFeatured
<1>7. QED BY <1>3, <1>4, <1>5, <1>6

\* The end of a block adds nothing special.
LEMMA EndFeatured ==
  ASSUME Ready, Featured(code, Len(code)),
         EndBlock \/ EndIfElse \/ EndWhile \/ EndFor \/ EndTry \/ EndArm, code' \in Seq(Instruction)
  PROVE  Featured(code', Len(code'))
<1>1. /\ Body \in Seq(Instruction) /\ Block \in Nat /\ 0 \in Nat /\ code \in Seq(Instruction)
      /\ Innermost.of \in Nat /\ Innermost.test \in Nat
  BY BodyReady, ReadyTypes
<1>2. Quiet(code, Body)
  BY QuietBody
<1>3. {"goto", "inc", "arm", "finally"} \subseteq Ops \ Special
  BY DEF Ops, Special
<1>4. ASSUME NEW c \in Seq(Instruction), NEW from, Quiet(code, c), code' = Patch(c, from, Len(c) + 1)
      PROVE  Quiet(code, code')
  BY <1>4, QuietPatch, QuietThen
<1>5. ASSUME NEW c \in Seq(Instruction), Quiet(code, c),
             NEW op \in {"goto", "inc", "arm", "finally"}, NEW v \in Nat, NEW to \in Nat
      PROVE  /\ Quiet(code, Append(c, Instr(op, v, Block, to)))
             /\ Append(c, Instr(op, v, Block, to)) \in Seq(Instruction)
  <2>1. /\ Quiet(c, Append(c, Instr(op, v, Block, to)))
        /\ Append(c, Instr(op, v, Block, to)) \in Seq(Instruction)
    BY <1>1, <1>3, QuietInstr
  <2>2. QED BY <1>5, <2>1, QuietThen
<1>6. ASSUME NEW c \in Seq(Instruction), Quiet(code, c), NEW from
      PROVE  Quiet(code, Patch(c, from, Len(c) + 1)) /\ Patch(c, from, Len(c) + 1) \in Seq(Instruction)
  BY <1>6, QuietPatch, QuietThen, PatchFacts
<1>7. ASSUME NEW c \in Seq(Instruction), Quiet(code, c), NEW exits, AfterTry(c, exits)
      PROVE  Quiet(code, code')
  <2>1. CASE CatchArm(c, exits)
    <3>1. code' = Append(c, Instr("arm", Innermost.of, Block, 0))
      BY <2>1 DEF CatchArm, NextBlock
    <3>2. QED BY <1>1, <1>5, <1>7, <3>1
  <2>2. CASE Finally(c, exits)
    <3> DEFINE b == Patch(c, exits, Len(c) + 1)
    <3>1. code' = Append(b, Instr("finally", Innermost.of, Block, 0))
      BY <2>2 DEF Finally, NextBlock
    <3>2. Quiet(code, b) /\ b \in Seq(Instruction)
      BY <1>6, <1>7
    <3> HIDE DEF b
    <3>3. QED BY <1>1, <1>5, <3>1, <3>2
  <2>3. CASE CloseBlock(c, exits)
    BY <1>6, <1>7, <2>3 DEF CloseBlock
  <2>4. QED BY <1>7, <2>1, <2>2, <2>3 DEF AfterTry
<1>8. Quiet(code, code')
  <2>1. CASE EndBlock
    BY <1>1, <1>2, <1>6, <2>1 DEF EndBlock, CloseBlock
  <2>2. CASE EndIfElse
    <3> DEFINE c == Append(Body, Instr("goto", 0, Block, 0))
    <3>1. code' = Patch(c, Innermost.exits, Len(c) + 1)
      BY <2>2 DEF EndIfElse, NextBlock
    <3>2. Quiet(code, c) /\ c \in Seq(Instruction)
      BY <1>1, <1>2, <1>5
    <3> HIDE DEF c
    <3>3. QED BY <1>6, <3>1, <3>2
  <2>3. CASE EndWhile
    <3> DEFINE c == Append(Body, Instr("goto", 0, Block, Innermost.test))
    <3>1. code' = Patch(c, Innermost.exits, Len(c) + 1)
      BY <2>3 DEF EndWhile, CloseBlock
    <3>2. Quiet(code, c) /\ c \in Seq(Instruction)
      BY <1>1, <1>2, <1>5
    <3> HIDE DEF c
    <3>3. QED BY <1>6, <3>1, <3>2
  <2>4. CASE EndFor
    <3> DEFINE x == Instr("inc", Innermost.of, Block, 0)
               y == Instr("goto", 0, Block, Innermost.test)
               b == Patch(Body, Innermost.next, Len(Body) + 1)
               c == Append(b, x)
               d == Append(c, y)
    <3>1. code' = Patch(b \o <<x, y>>, Innermost.exits, Len(b \o <<x, y>>) + 1)
      BY <2>4 DEF EndFor, CloseBlock
    <3>2. Quiet(code, b) /\ b \in Seq(Instruction)
      BY <1>1, <1>2, <1>6
    <3>3. Quiet(code, c) /\ c \in Seq(Instruction)
      <4> HIDE DEF b
      <4>1. QED BY <1>1, <1>5, <3>2
    <3>4. Quiet(code, d) /\ d \in Seq(Instruction)
      <4> HIDE DEF c
      <4>1. QED BY <1>1, <1>5, <3>3
    <3>5. b \o <<x, y>> = d
      <4>1. x \in Instruction /\ y \in Instruction
        BY <1>1, <1>3, InstrFacts
      <4> HIDE DEF b, x, y
      <4>2. QED BY <3>2, <4>1
    <3> HIDE DEF d, b, c, x, y
    <3>6. QED BY <1>6, <3>1, <3>4, <3>5
  <2>5. CASE EndTry
    <3> DEFINE c == Append(Body, Instr("goto", 0, Block, 0))
               d == Patch(c, {Innermost.of}, Len(c) + 1)
    <3>1. AfterTry(d, {Len(c)})
      BY <2>5 DEF EndTry
    <3>2. Quiet(code, c) /\ c \in Seq(Instruction)
      BY <1>1, <1>2, <1>5
    <3> HIDE DEF c
    <3>3. Quiet(code, d) /\ d \in Seq(Instruction)
      BY <1>6, <3>2
    <3> HIDE DEF d
    <3>4. QED BY <1>7, <3>1, <3>3
  <2>6. CASE EndArm
    BY <1>1, <1>2, <1>7, <2>6 DEF EndArm
  <2>7. QED BY <2>1, <2>2, <2>3, <2>4, <2>5, <2>6
<1>9. QED BY <1>1, <1>8, QuietFeatured

\* A complete function ends with its return.
Ended(c) ==
  /\ c \in Seq(Instruction) /\ Len(c) >= 1 /\ c[Len(c)].op = "return"
  /\ \A i \in DOMAIN c : c[i].to <= Len(c)

\* The only return without its feature is the last instruction.
LEMMA EndFunctionFeatured ==
  ASSUME Ready, Featured(code, Len(code)), EndFunction
  PROVE  Ended(code') /\ Featured(code', Len(code') - 1)
<1> DEFINE x == Instr("return", 0, 0, 0)
<1>1. Body \in Seq(Instruction) /\ Targets(Body) /\ Len(Body) \in Nat
  BY BodyReady DEF Emitted, Nested
<1>2. x \in Instruction /\ x.op = "return" /\ x.to = 0
  <2>1. "return" \in Ops /\ 0 \in Nat
    BY DEF Ops
  <2>2. QED BY <2>1, InstrFacts
<1>3. code' = Append(Body, x)
  BY DEF EndFunction
<1> HIDE DEF x
<1>4. /\ code' \in Seq(Instruction) /\ Len(code') = Len(Body) + 1 /\ DOMAIN Body = 1..Len(Body)
      /\ DOMAIN code' = 1..Len(Body) + 1
      /\ code'[Len(Body) + 1] = x /\ \A i \in 1..Len(Body) : code'[i] = Body[i]
  BY <1>1, <1>2, <1>3, AppendFacts
<1>5. \A i \in DOMAIN code' : code'[i].to <= Len(code')
  <2> SUFFICES ASSUME NEW i \in DOMAIN code' PROVE code'[i].to <= Len(code')
    OBVIOUS
  <2>1. CASE i = Len(Body) + 1
    BY <1>1, <1>2, <1>4, <2>1
  <2>2. CASE i # Len(Body) + 1
    <3>1. i \in DOMAIN Body /\ code'[i] = Body[i]
      BY <1>1, <1>4, <2>2
    <3>2. QED BY <1>1, <1>4, <3>1 DEF Targets
  <2>3. QED BY <2>1, <2>2
<1>6. Featured(Body, Len(Body))
  BY <1>1, QuietBody, QuietFeatured, ReadyTypes
<1>7. Featured(code', Len(code') - 1)
  <2>1. Len(code') - 1 = Len(Body)
    BY <1>1, <1>4
  <2>2. QED BY <1>4, <1>6, <2>1 DEF Featured
<1>8. Len(code') >= 1 /\ code'[Len(code')].op = "return"
  BY <1>1, <1>2, <1>4
<1>9. QED BY <1>4, <1>5, <1>7, <1>8 DEF Ended

----------------------------------------------------------------------------
(* The code of a complete function.                                        *)

\* All of this about the code of a complete function.
Complete(c) == Emitted(c, <<>>, <<>>, {}, FALSE) /\ Ended(c) /\ Featured(c, Len(c) - 1)

\* Every jump of a complete function leads to one of its instructions, and only a
\* return has none behind it.
LEMMA CompleteCode ==
  ASSUME NEW c, Complete(c)
  PROVE  /\ c \in Seq(Instruction) /\ Len(c) \in Nat /\ Len(c) >= 1 /\ DOMAIN c = 1..Len(c)
         /\ \A i \in DOMAIN c : i \in Nat /\ c[i] \in Instruction
         /\ \A i \in DOMAIN c : c[i].op \in PendOps \cup {"setjmp"} => c[i].to \in DOMAIN c
         /\ \A i \in DOMAIN c : c[i].op # "return" => i + 1 \in DOMAIN c /\ i \in 1..Len(c) - 1
<1>1. c \in Seq(Instruction) /\ Len(c) >= 1 /\ c[Len(c)].op = "return"
      /\ \A i \in DOMAIN c : c[i].to <= Len(c)
  BY DEF Complete, Ended
<1>2. Len(c) \in Nat /\ DOMAIN c = 1..Len(c)
  BY <1>1
<1>3. ASSUME NEW i \in DOMAIN c PROVE i \in Nat /\ c[i] \in Instruction /\ c[i].to \in Nat
  <2>1. i \in Nat /\ c[i] \in Instruction
    BY <1>1, <1>2
  <2>2. c[i].to \in Nat
    BY <2>1 DEF Instruction
  <2>3. QED BY <2>1, <2>2
<1>4. DOMAIN <<>> = {}
  OBVIOUS
<1>5. ASSUME NEW i \in DOMAIN c, c[i].op \in PendOps \cup {"setjmp"}
      PROVE  c[i].to \in DOMAIN c
  <2>1. c[i].to # 0
    <3>1. CASE c[i].op \in PendOps
      <4>1. Pend(<<>>, {}) = {}
        BY <1>4 DEF Pend
      <4>2. QED BY <3>1, <4>1 DEF Complete, Emitted, Pending
    <3>2. CASE c[i].op = "setjmp"
      BY <1>4, <3>2 DEF Complete, Emitted, Tries, TriesOpen
    <3>3. QED BY <1>5, <3>1, <3>2
  <2>2. QED BY <1>1, <1>2, <1>3, <2>1
<1>6. ASSUME NEW i \in DOMAIN c, c[i].op # "return"
      PROVE  i + 1 \in DOMAIN c /\ i \in 1..Len(c) - 1
  <2>1. i # Len(c)
    BY <1>1, <1>6
  <2>2. QED BY <1>2, <2>1
<1>7. QED BY <1>1, <1>2, <1>3, <1>5, <1>6

\* In a complete function every object has its drop, written behind it.
LEMMA CompleteObjects ==
  ASSUME NEW c, Complete(c)
  PROVE  /\ \A a \in DOMAIN c : c[a].op = "init" => c[a].v = a /\ \E d \in Nat : DropOf(c, d, a)
         /\ \A d, a \in Nat : DropOf(c, d, a) =>
              /\ d \in DOMAIN c /\ a \in DOMAIN c /\ a < d /\ c[a].op = "init" /\ c[a].s = c[d].s
              /\ <<a, d>> \in Lifetimes(c)
         /\ \A r \in Lifetimes(c) :
              /\ r[1] \in DOMAIN c /\ r[2] \in DOMAIN c /\ c[r[1]].op = "init" /\ r[1] < r[2]
              /\ DropOf(c, r[2], r[1])
<1>0. c \in Seq(Instruction) /\ Len(c) \in Nat /\ DOMAIN c = 1..Len(c) /\ DOMAIN <<>> = {}
  BY CompleteCode
<1>a. Inits(c) /\ DropsKnown(c) /\ Covered(c, <<>>, <<>>)
  BY DEF Complete, Emitted, Objects
<1>1. /\ c \in Seq(Instruction) /\ Len(c) \in Nat /\ DOMAIN c = 1..Len(c) /\ DOMAIN <<>> = {}
      /\ Inits(c) /\ DropsKnown(c) /\ Covered(c, <<>>, <<>>)
  BY <1>0, <1>a
<1>2. ASSUME NEW a \in DOMAIN c, c[a].op = "init"
      PROVE  c[a].v = a /\ \E d \in Nat : DropOf(c, d, a)
  <2>1. ~InList(<<>>, <<>>, a)
    BY <1>1 DEF InList
  <2>2. QED BY <1>1, <1>2, <2>1 DEF Inits, Covered
<1>3. ASSUME NEW d \in Nat, NEW a \in Nat, DropOf(c, d, a)
      PROVE  /\ d \in DOMAIN c /\ a \in DOMAIN c /\ a < d /\ c[a].op = "init" /\ c[a].s = c[d].s
             /\ <<a, d>> \in Lifetimes(c)
  <2>1. /\ d \in 1..Len(c) /\ a \in 1..d - 1 /\ c[a].op = "init" /\ c[a].s = c[d].s
    BY <1>1, <1>3 DEF DropOf, DropsKnown
  <2>2. a \in 1..Len(c) /\ a < d /\ d # 0 /\ d \in 0..Len(c)
    BY <1>1, <2>1
  <2>3. <<a, d>> \in Lifetimes(c)
    BY <1>1, <1>3, <2>1, <2>2 DEF Lifetimes
  <2>4. QED BY <1>1, <2>1, <2>2, <2>3
<1>4. ASSUME NEW r \in Lifetimes(c)
      PROVE  /\ r[1] \in DOMAIN c /\ r[2] \in DOMAIN c /\ c[r[1]].op = "init" /\ r[1] < r[2]
             /\ DropOf(c, r[2], r[1])
  <2>1. /\ r \in (DOMAIN c) \X (0..Len(c)) /\ c[r[1]].op = "init"
        /\ IF r[2] = 0 THEN \A d \in Nat : ~DropOf(c, d, r[1]) ELSE DropOf(c, r[2], r[1])
    BY DEF Lifetimes
  <2>2. r[1] \in DOMAIN c /\ r[2] \in Nat /\ r[1] \in Nat
    BY <1>1, <2>1
  <2>3. DropOf(c, r[2], r[1])
    BY <1>2, <2>1, <2>2
  <2>4. QED BY <1>3, <2>1, <2>2, <2>3
<1>5. QED BY <1>2, <1>3, <1>4

\* In a complete function every try body has its end.
LEMMA CompleteBodies ==
  ASSUME NEW c, Complete(c), NEW r \in Bodies(c)
  PROVE  /\ r[1] \in DOMAIN c /\ r[1] \in Nat /\ r[2] \in Nat /\ c[r[1]].op = "setjmp"
         /\ r[2] # 0 /\ c[r[1]].to = r[2] + 1
<1>1. Len(c) \in Nat /\ DOMAIN c = 1..Len(c)
      /\ \A i \in DOMAIN c : c[i].op \in PendOps \cup {"setjmp"} => c[i].to \in DOMAIN c
  BY CompleteCode
<1>2. /\ r \in (DOMAIN c) \X (0..Len(c)) /\ c[r[1]].op = "setjmp"
      /\ c[r[1]].to = (IF r[2] = 0 THEN 0 ELSE r[2] + 1)
  BY DEF Bodies
<1>3. r[1] \in DOMAIN c /\ r[2] \in 0..Len(c)
  BY <1>2
<1>4. c[r[1]].to # 0
  BY <1>1, <1>2, <1>3
<1>5. QED BY <1>1, <1>2, <1>3, <1>4

\* The geometry of a complete function, for one jump.
LEMMA CompleteJumps ==
  ASSUME NEW c, Complete(c), NEW i \in DOMAIN c, c[i].op \in PendOps \cup {"setjmp"}
  PROVE  /\ Jump(c, i, c[i].to) /\ c[i].to \in Nat
         /\ \A r \in Lifetimes(c) : Within(r, c[i].to) => Within(r, i)
         /\ \A r \in Bodies(c) : Within(r, c[i].to) => Within(r, i)
         /\ NoBreaks /\ c[i].op # "setjmp" =>
              \A r \in Lifetimes(c) : Within(r, i) => Within(r, c[i].to)
<1>1. Len(c) \in Nat /\ DOMAIN c = 1..Len(c) /\ c[i].to \in DOMAIN c
  BY CompleteCode
<1>2. i \in Nat /\ c[i].to \in Nat /\ c[i].to # 0
  BY <1>1
<1>3. c[i].op \in JumpOps
  BY DEF PendOps, JumpOps
<1>4. Jump(c, i, c[i].to)
  BY <1>2, <1>3 DEF Jump
<1>5. /\ Enter(c, <<>>, Lifetimes(c)) /\ Enter(c, <<>>, Bodies(c))
      /\ NoBreaks => Leave(c, <<>>, {}, Lifetimes(c))
  BY DEF Complete, Emitted, Nested
<1>6. \A r \in Lifetimes(c) : Within(r, c[i].to) => Within(r, i)
  BY <1>2, <1>4, <1>5 DEF Enter
<1>7. \A r \in Bodies(c) : Within(r, c[i].to) => Within(r, i)
  BY <1>2, <1>4, <1>5 DEF Enter
<1>8. ASSUME NoBreaks, c[i].op # "setjmp"
      PROVE  \A r \in Lifetimes(c) : Within(r, i) => Within(r, c[i].to)
  BY <1>2, <1>4, <1>5, <1>8 DEF Leave
<1>9. QED BY <1>2, <1>4, <1>6, <1>7, <1>8

----------------------------------------------------------------------------
(* A step of the compiled program.                                         *)

\* Where an instruction may go on: behind it, where it jumps to, where a longjmp with the
\* buffer leads, or out of the function if it leads nowhere.
Moves ==
  \/ code[pc].op \notin {"return", "throw_return", "throw", "goto"} /\ pc' = pc + 1
  \/ code[pc].op \in PendOps /\ pc' = code[pc].to
  \/ code[pc].op \in {"throw", "call"} /\ jmp_buf' > 0 /\ pc' = code[jmp_buf'].to
  \/ /\ code[pc].op \in {"return", "throw_return", "throw", "call"}
     /\ pc' \in {Returned, Undefined}
     /\ code[pc].op \in {"throw", "call"} => ~(jmp_buf' > 0)

\* What it does to the objects and the buffer.
Effects ==
  /\ code[pc].op = "init" => live' = live \cup {code[pc].v}
  /\ code[pc].op = "drop" => live' = live \ {code[pc].v}
  /\ code[pc].op \notin {"init", "drop"} => live' = live
  /\ code[pc].op = "setjmp" => jmp_buf' = pc
  /\ code[pc].op = "call" =>
       jmp_buf' = jmp_buf \/ (jmp_buf' = Dead /\ "call_try" \in profile.features)
  /\ code[pc].op \notin {"setjmp", "call"} => jmp_buf' = jmp_buf

\* Each instruction moves and has its effects as described.
LEMMA RunSteps ==
  ASSUME Run, jmp_buf \in Int
  PROVE  phase = "run" /\ pc > 0 /\ phase' = phase /\ code' = code /\ Moves /\ Effects
<1>1. CASE RunNop
  BY <1>1 DEF RunNop, At, Moves, Effects, emitVars
<1>2. CASE RunInit
  BY <1>2 DEF RunInit, Straight, At, Moves, Effects, emitVars
<1>3. CASE RunDrop
  BY <1>3 DEF RunDrop, Straight, At, Moves, Effects, emitVars
<1>4. CASE RunBranch
  BY <1>4 DEF RunBranch, At, Moves, Effects, emitVars, PendOps
<1>5. CASE RunGoto
  BY <1>5 DEF RunGoto, At, Moves, Effects, emitVars, PendOps
<1>6. CASE RunFor
  BY <1>6 DEF RunFor, At, Moves, Effects, emitVars
<1>7. CASE RunTest
  <2>1. /\ At({"test"}) /\ (pc' = pc + 1 \/ pc' = code[pc].to)
        /\ UNCHANGED <<phase, emitVars, jmp_buf, live>>
    BY <1>7 DEF RunTest
  <2>2. QED BY <2>1 DEF At, Moves, Effects, emitVars, PendOps
<1>8. CASE RunIncrement
  BY <1>8 DEF RunIncrement, Straight, At, Moves, Effects, emitVars
<1>9. ASSUME NEW buf, buf \in Int, longjmp(buf)
      PROVE  (buf > 0 /\ pc' = code[buf].to) \/ (~(buf > 0) /\ pc' \in {Returned, Undefined})
  BY <1>9 DEF longjmp, Caller
<1>10. CASE RunThrow
  <2>1. \/ jmp_buf > 0 /\ pc' = code[jmp_buf].to
        \/ ~(jmp_buf > 0) /\ pc' \in {Returned, Undefined}
    BY <1>9, <1>10 DEF RunThrow
  <2>2. QED BY <1>10, <2>1 DEF RunThrow, At, Moves, Effects, emitVars
<1>11. CASE RunReturn
  BY <1>11 DEF RunReturn, At, Moves, Effects, emitVars
<1>12. CASE RunCall
  <2>1. jmp_buf' = jmp_buf \/ (jmp_buf' = Dead /\ "call_try" \in profile.features)
    BY <1>12 DEF RunCall
  <2>2. jmp_buf' \in Int
    BY <2>1 DEF Dead
  <2>3. \/ pc' = pc + 1
        \/ jmp_buf' > 0 /\ pc' = code[jmp_buf'].to
        \/ ~(jmp_buf' > 0) /\ pc' \in {Returned, Undefined}
    <3>1. pc' = pc + 1 \/ longjmp(jmp_buf')
      BY <1>12 DEF RunCall
    <3>2. longjmp(jmp_buf') => \/ jmp_buf' > 0 /\ pc' = code[jmp_buf'].to
                               \/ ~(jmp_buf' > 0) /\ pc' \in {Returned, Undefined}
      BY <2>2 DEF longjmp, Caller
    <3>3. QED BY <3>1, <3>2
  <2>4. At({"call"}) /\ UNCHANGED <<phase, emitVars, live>>
    BY <1>12 DEF RunCall
  <2>5. QED BY <2>1, <2>3, <2>4 DEF At, Moves, Effects, emitVars
<1>13. CASE RunSetjmp
  BY <1>13 DEF RunSetjmp, Straight, At, Moves, Effects, emitVars
<1>14. CASE RunArm
  BY <1>14 DEF RunArm, Straight, At, Moves, Effects, emitVars
<1>15. QED
  BY <1>1, <1>2, <1>3, <1>4, <1>5, <1>6, <1>7, <1>8, <1>10, <1>11, <1>12, <1>13, <1>14 DEF Run

----------------------------------------------------------------------------
(* The invariants of the running program.                                  *)

\* The program counter stands at an instruction, what lives was constructed by an
\* instruction, and a buffer of this function was filled by a setjmp.
Placed ==
  /\ pc \in DOMAIN code \cup {Returned, Undefined}
  /\ live \subseteq {i \in DOMAIN code : code[i].op = "init"}
  /\ jmp_buf \in Int
  /\ jmp_buf > 0 => jmp_buf \in DOMAIN code /\ code[jmp_buf].op = "setjmp"

\* No error is raised behind a try it jumps back to.
Tame == FlatErrors \/ "try" \notin profile.features

\* Between its construction and its drop an object lives.
Alive == pc > 0 => \A r \in Lifetimes(code) : Within(r, pc) => r[1] \in live

\* Within a series of drops, what has been dropped lives no more.
Dropped ==
  pc > 0 /\ code[pc].op = "drop" =>
    \A e \in 1..pc - 1 : \A w \in Nat :
      DropOf(code, e, w) /\ (\A j \in e..pc : code[j].op = "drop" /\ code[j].s = code[pc].s)
        => w \notin live

\* Within a try body the buffer is the one it filled.
Armed == pc > 0 => \A r \in Bodies(code) : Within(r, pc) => jmp_buf = r[1]

\* What lives is between its construction and its drop.
Confined == \A r \in Lifetimes(code) : r[1] \in live => pc > 0 /\ Within(r, pc)

\* No instruction leaves the code: it ends with a return.
LEMMA PlacedSteps ==
  ASSUME Complete(code), Placed, code' = code, pc > 0, Moves, Effects
  PROVE  Placed'
<1>1. /\ code \in Seq(Instruction) /\ Len(code) \in Nat /\ DOMAIN code = 1..Len(code)
      /\ \A i \in DOMAIN code : code[i].op \in PendOps \cup {"setjmp"} => code[i].to \in DOMAIN code
      /\ \A i \in DOMAIN code : code[i].op # "return" => i + 1 \in DOMAIN code
  BY CompleteCode
<1>2. pc \in DOMAIN code
  BY DEF Placed, Returned, Undefined
<1>3. jmp_buf' \in Int /\ (jmp_buf' > 0 => jmp_buf' \in DOMAIN code /\ code[jmp_buf'].op = "setjmp")
  <2>1. CASE code[pc].op = "setjmp"
    BY <1>1, <1>2, <2>1 DEF Effects
  <2>2. CASE jmp_buf' = jmp_buf
    BY <2>2 DEF Placed
  <2>3. CASE jmp_buf' = Dead
    BY <2>3 DEF Dead
  <2>4. QED BY <2>1, <2>2, <2>3 DEF Effects
<1>4. live' \subseteq {i \in DOMAIN code : code[i].op = "init"}
  <2>1. CASE code[pc].op = "init"
    <3>1. code[pc].v = pc
      BY <1>2, <2>1, CompleteObjects
    <3>2. QED BY <1>2, <2>1, <3>1 DEF Effects, Placed
  <2>2. CASE code[pc].op # "init"
    BY <2>2 DEF Effects, Placed
  <2>3. QED BY <2>1, <2>2
<1>5. pc' \in DOMAIN code \cup {Returned, Undefined}
  BY <1>1, <1>2, <1>3 DEF Moves
<1>6. QED BY <1>3, <1>4, <1>5 DEF Placed

\* Under FlatErrors an error is raised within the body of the try that filled the buffer.
LEMMA BodyArmed ==
  ASSUME Complete(code), Placed, FlatErrors, Armed, pc > 0,
         code[pc].op \in {"throw", "call"}
  PROVE  /\ jmp_buf = code[pc].v
         /\ jmp_buf \in DOMAIN code /\ code[jmp_buf].op = "setjmp"
         /\ jmp_buf < pc /\ pc < code[jmp_buf].to
<1> DEFINE t == code[pc].v
<1>1. /\ Len(code) \in Nat /\ DOMAIN code = 1..Len(code)
      /\ \A i \in DOMAIN code : code[i].op \in PendOps \cup {"setjmp"} => code[i].to \in DOMAIN code
      /\ \A i \in DOMAIN code : code[i].op # "return" => i \in 1..Len(code) - 1
  BY CompleteCode
<1>2. pc \in DOMAIN code
  BY DEF Placed, Returned, Undefined
<1>3. t # 0
  <2>1. pc \in 1..Len(code) - 1
    BY <1>1, <1>2
  <2>2. QED BY <2>1 DEF Complete, Featured, FlatErrors
<1>4. t \in 1..pc - 1 /\ code[t].op = "setjmp" /\ (code[t].to = 0 \/ pc < code[t].to)
  BY <1>2, <1>3 DEF Complete, Emitted, Tries, ThrowsKnown
<1> HIDE DEF t
<1>5. t \in DOMAIN code /\ t < pc /\ t \in Nat
  BY <1>1, <1>2, <1>4
<1>6. code[t].to \in DOMAIN code
  BY <1>1, <1>4, <1>5
<1>7. code[t].to \in 1..Len(code) /\ pc < code[t].to
  BY <1>1, <1>2, <1>4, <1>6
<1> DEFINE r == <<t, code[t].to - 1>>
<1>8. r \in Bodies(code)
  <2>1. code[t].to - 1 \in 0..Len(code) /\ code[t].to - 1 # 0
    BY <1>1, <1>2, <1>7
  <2>2. r \in (DOMAIN code) \X (0..Len(code))
    BY <1>5, <2>1
  <2>3. code[r[1]].op = "setjmp" /\ code[r[1]].to = (IF r[2] = 0 THEN 0 ELSE r[2] + 1)
    BY <1>1, <1>4, <1>7, <2>1
  <2>4. QED BY <2>2, <2>3 DEF Bodies
<1>9. Within(r, pc)
  BY <1>1, <1>2, <1>5, <1>7 DEF Within
<1>10. jmp_buf = t
  BY <1>8, <1>9 DEF Armed
<1>11. QED BY <1>4, <1>5, <1>7, <1>10 DEF t

\* Under FlatErrors a longjmp from within a try body leads behind that body.
LEMMA JumpsBehindBody ==
  ASSUME Complete(code), Placed, FlatErrors, Armed, pc > 0, Effects,
         code[pc].op \in {"throw", "call"}
  PROVE  /\ jmp_buf' = jmp_buf /\ jmp_buf \in DOMAIN code /\ code[jmp_buf].op = "setjmp"
         /\ jmp_buf < pc /\ pc < code[jmp_buf].to
<1>1. jmp_buf' = jmp_buf
  BY DEF Effects, FlatErrors
<1>2. QED BY <1>1, BodyArmed

\* A try is not armed while the body of another is open, so setjmp leaves no body.
LEMMA OneBody ==
  ASSUME Complete(code), FlatErrors, NEW r \in Bodies(code),
         NEW t \in DOMAIN code, code[t].op = "setjmp", r[1] < t
  PROVE  r[2] < t
<1>1. /\ r[1] \in DOMAIN code /\ r[2] \in Nat /\ code[r[1]].op = "setjmp"
      /\ code[r[1]].to = r[2] + 1
  BY CompleteBodies
<1>2. TriesFlat(code) /\ profile.tries <= 1
  BY DEF Complete, Emitted, Tries, FlatErrors
<1>3. code[r[1]].to <= t
  BY <1>1, <1>2 DEF TriesFlat
<1>4. t \in Nat
  BY CompleteCode
<1>5. QED BY <1>1, <1>3, <1>4

\* Within a try body the buffer stays the one it filled: bodies are entered through
\* their setjmp, which no longjmp, jump or other try undoes.
LEMMA ArmedSteps ==
  ASSUME Complete(code), Placed, FlatErrors, Armed, code' = code, pc > 0, Moves, Effects
  PROVE  Armed'
<1> SUFFICES ASSUME pc' > 0, NEW r \in Bodies(code), Within(r, pc')
             PROVE  jmp_buf' = r[1]
  BY DEF Armed
<1>1. pc \in DOMAIN code /\ pc \in Nat
  BY CompleteCode DEF Placed, Returned, Undefined
<1>2. /\ r[1] \in DOMAIN code /\ r[1] \in Nat /\ r[2] \in Nat /\ code[r[1]].op = "setjmp"
      /\ r[2] # 0 /\ code[r[1]].to = r[2] + 1
  BY CompleteBodies
<1>3. CASE pc' = pc + 1
  <2>1. CASE r[1] = pc
    BY <1>2, <2>1 DEF Effects
  <2>2. CASE r[1] # pc
    <3>1. r[1] < pc /\ pc + 1 <= r[2]
      BY <1>1, <1>2, <1>3, <2>2 DEF Within
    <3>2. Within(r, pc)
      BY <1>1, <1>2, <3>1 DEF Within
    <3>3. code[pc].op # "setjmp"
      BY <1>1, <1>2, <3>1, OneBody
    <3>4. jmp_buf' = jmp_buf
      BY <3>3 DEF Effects, FlatErrors
    <3>5. QED BY <3>2, <3>4 DEF Armed
  <2>3. QED BY <2>1, <2>2
<1>4. CASE code[pc].op \in PendOps /\ pc' = code[pc].to
  <2>1. Within(r, pc)
    BY <1>1, <1>4, CompleteJumps
  <2>2. jmp_buf' = jmp_buf
    BY <1>4 DEF Effects, PendOps
  <2>3. QED BY <2>1, <2>2 DEF Armed
<1>5. CASE code[pc].op \in {"throw", "call"} /\ jmp_buf' > 0 /\ pc' = code[jmp_buf'].to
  <2>1. jmp_buf' = jmp_buf /\ jmp_buf \in DOMAIN code /\ code[jmp_buf].op = "setjmp"
    BY <1>5, JumpsBehindBody
  <2>2. Within(r, code[jmp_buf].to)
    BY <1>5, <2>1
  <2>3. Within(r, jmp_buf)
    BY <2>1, <2>2, CompleteJumps
  <2>4. r[1] < jmp_buf /\ jmp_buf <= r[2]
    BY <1>2, <2>3 DEF Within
  <2>5. r[2] < jmp_buf
    BY <2>1, <2>4, OneBody
  <2>6. jmp_buf \in Nat
    BY <2>1, CompleteCode
  <2>7. QED BY <1>2, <2>4, <2>5, <2>6
<1>6. CASE pc' \in {Returned, Undefined}
  BY <1>6 DEF Returned, Undefined
<1>7. QED BY <1>3, <1>4, <1>5, <1>6 DEF Moves

\* Without a try there is no buffer of this function to jump with.
LEMMA NoBuffer ==
  ASSUME Complete(code), Placed, "try" \notin profile.features, code' = code, pc > 0, Effects,
         code[pc].op \in {"throw", "call"}
  PROVE  ~(jmp_buf' > 0)
<1>1. pc \in DOMAIN code
  BY DEF Placed, Returned, Undefined
<1>2. ASSUME NEW i \in DOMAIN code PROVE code[i].op # "setjmp"
  <2>1. CASE code[i].op = "return"
    BY <2>1
  <2>2. CASE code[i].op # "return"
    <3>1. i \in 1..Len(code) - 1
      BY <2>2, CompleteCode
    <3>2. QED BY <3>1 DEF Complete, Featured
  <2>3. QED BY <2>1, <2>2
<1>3. ~(jmp_buf > 0)
  BY <1>2 DEF Placed
<1>4. jmp_buf' = jmp_buf \/ jmp_buf' = Dead
  BY DEF Effects
<1>5. QED BY <1>3, <1>4 DEF Dead

\* No instruction between a construction and its drop destroys the object, and none
\* jumps there from where it does not live.
LEMMA AliveSteps ==
  ASSUME Complete(code), Placed, Tame, FlatErrors => Armed, Alive, code' = code, pc > 0,
         Moves, Effects
  PROVE  Alive'
<1> SUFFICES ASSUME pc' > 0, NEW r \in Lifetimes(code), Within(r, pc')
             PROVE  r[1] \in live'
  BY DEF Alive
<1>1. /\ pc \in DOMAIN code /\ pc \in Nat
      /\ code[pc].op = "init" => code[pc].v = pc
  BY CompleteCode, CompleteObjects DEF Placed, Returned, Undefined
<1>2. /\ r[1] \in DOMAIN code /\ r[2] \in DOMAIN code /\ code[r[1]].op = "init"
      /\ DropOf(code, r[2], r[1]) /\ r[1] \in Nat /\ r[2] \in Nat
  BY CompleteObjects, CompleteCode
<1>3. CASE pc' = pc + 1
  <2>1. CASE r[1] = pc
    BY <1>1, <1>2, <2>1 DEF Effects
  <2>2. CASE r[1] # pc
    <3>1. r[1] < pc /\ (r[2] = 0 \/ pc + 1 <= r[2])
      BY <1>1, <1>2, <1>3, <2>2 DEF Within
    <3>2. Within(r, pc) /\ (r[2] # 0 => pc # r[2])
      BY <1>1, <1>2, <3>1 DEF Within
    <3>3. r[1] \in live
      BY <3>2 DEF Alive
    <3>4. code[pc].op = "drop" => code[pc].v # r[1]
      <4>1. SUFFICES ASSUME code[pc].op = "drop", code[pc].v = r[1] PROVE FALSE
        OBVIOUS
      <4>2. DropOf(code, pc, r[1])
        BY <1>1, <4>1 DEF DropOf
      <4>3. DropsOnce(code)
        BY DEF Complete, Emitted, Objects
      <4>4. pc = r[2]
        BY <1>1, <1>2, <4>2, <4>3 DEF DropsOnce
      <4>5. r[2] # 0
        BY <1>1, <1>2, <3>1, CompleteCode
      <4>6. QED BY <3>2, <4>4, <4>5
    <3>5. QED BY <3>3, <3>4 DEF Effects
  <2>3. QED BY <2>1, <2>2
<1>4. CASE code[pc].op \in PendOps /\ pc' = code[pc].to
  <2>1. Within(r, pc)
    BY <1>1, <1>4, CompleteJumps
  <2>2. live' = live
    BY <1>4 DEF Effects, PendOps
  <2>3. QED BY <2>1, <2>2 DEF Alive
<1>5. CASE code[pc].op \in {"throw", "call"} /\ jmp_buf' > 0 /\ pc' = code[jmp_buf'].to
  <2>1. FlatErrors
    BY <1>5, NoBuffer DEF Tame
  <2>2. /\ jmp_buf' = jmp_buf /\ jmp_buf \in DOMAIN code /\ code[jmp_buf].op = "setjmp"
        /\ jmp_buf < pc /\ pc < code[jmp_buf].to
    BY <1>5, <2>1, JumpsBehindBody
  <2>3. Within(r, code[jmp_buf].to)
    BY <1>5, <2>2
  <2>4. Within(r, jmp_buf) /\ code[jmp_buf].to \in Nat /\ jmp_buf \in Nat
    BY <2>2, <2>3, CompleteJumps, CompleteCode
  <2>5. Within(r, pc)
    BY <1>1, <1>2, <2>2, <2>3, <2>4 DEF Within
  <2>6. live' = live
    BY <1>5 DEF Effects
  <2>7. QED BY <2>5, <2>6 DEF Alive
<1>6. CASE pc' \in {Returned, Undefined}
  BY <1>6 DEF Returned, Undefined
<1>7. QED BY <1>3, <1>4, <1>5, <1>6 DEF Moves

\* A jump never leads into a series of drops.
LEMMA NoDropsBefore ==
  ASSUME Complete(code), NEW i \in DOMAIN code, code[i].op \in PendOps \cup {"setjmp"},
         NEW e \in 1..code[i].to - 1, code[code[i].to].op = "drop",
         \A j \in e..code[i].to : code[j].op = "drop" /\ code[j].s = code[code[i].to].s
  PROVE  FALSE
<1> DEFINE t == code[i].to
<1>1. Jump(code, i, t) /\ t \in Nat /\ i \in Nat /\ t \in 1..Len(code) /\ Len(code) \in Nat
  BY CompleteJumps, CompleteCode
<1>a. e \in 1..t - 1 /\ code[t].op = "drop"
      /\ \A j \in e..t : code[j].op = "drop" /\ code[j].s = code[t].s
  OBVIOUS
<1> HIDE DEF t
<1>2. t \in 2..Len(code) /\ t - 1 \in e..t
  BY <1>1, <1>a
<1>3. code[t - 1].op = "drop" /\ code[t - 1].s = code[t].s
  BY <1>2, <1>a
<1>4. DropsFall(code)
  BY DEF Complete, Emitted, Nested
<1>5. QED BY <1>1, <1>2, <1>3, <1>4, <1>a DEF DropsFall

\* A series of drops is entered at its first, so what it has destroyed is dead.
LEMMA DroppedSteps ==
  ASSUME Complete(code), Placed, Tame, FlatErrors => Armed, Dropped, code' = code, pc > 0,
         Moves, Effects
  PROVE  Dropped'
<1> SUFFICES ASSUME pc' > 0, code[pc'].op = "drop", NEW e \in 1..pc' - 1, NEW w \in Nat,
                    DropOf(code, e, w),
                    \A j \in e..pc' : code[j].op = "drop" /\ code[j].s = code[pc'].s
             PROVE  w \notin live'
  BY DEF Dropped
<1>1. pc \in DOMAIN code /\ pc \in Nat
  BY CompleteCode DEF Placed, Returned, Undefined
<1>2. CASE pc' = pc + 1
  <2>1. pc \in e..pc' /\ code[pc].op = "drop" /\ code[pc].s = code[pc'].s
    BY <1>1, <1>2
  <2>2. live' = live \ {code[pc].v}
    BY <2>1 DEF Effects
  <2>3. CASE e = pc
    BY <2>2, <2>3 DEF DropOf
  <2>4. CASE e # pc
    <3>1. e \in 1..pc - 1
      BY <1>1, <1>2, <2>4
    <3>2. \A j \in e..pc : code[j].op = "drop" /\ code[j].s = code[pc].s
      BY <1>1, <1>2, <2>1
    <3>3. w \notin live
      BY <2>1, <3>1, <3>2 DEF Dropped
    <3>4. QED BY <2>2, <3>3
  <2>5. QED BY <2>3, <2>4
<1>3. CASE code[pc].op \in PendOps /\ pc' = code[pc].to
  BY <1>1, <1>3, NoDropsBefore
<1>4. CASE code[pc].op \in {"throw", "call"} /\ jmp_buf' > 0 /\ pc' = code[jmp_buf'].to
  <2>1. FlatErrors
    BY <1>4, NoBuffer DEF Tame
  <2>2. jmp_buf' = jmp_buf /\ jmp_buf \in DOMAIN code /\ code[jmp_buf].op = "setjmp"
    BY <1>4, <2>1, JumpsBehindBody
  <2>3. pc' = code[jmp_buf].to
    BY <1>4, <2>2
  <2>4. QED BY <2>2, <2>3, NoDropsBefore
<1>5. CASE pc' \in {Returned, Undefined}
  BY <1>5 DEF Returned, Undefined
<1>6. QED BY <1>2, <1>3, <1>4, <1>5 DEF Moves

\* Without early exits nothing leaves the lifetime of an object before its drop.
LEMMA ConfinedSteps ==
  ASSUME Complete(code), Placed, profile.features \cap EarlyExits = {}, Confined, code' = code,
         pc > 0, Moves, Effects
  PROVE  Confined'
<1> SUFFICES ASSUME NEW r \in Lifetimes(code), r[1] \in live'
             PROVE  pc' > 0 /\ Within(r, pc')
  BY DEF Confined
<1>1. /\ pc \in DOMAIN code /\ pc \in Nat /\ Len(code) \in Nat /\ DOMAIN code = 1..Len(code)
      /\ code[pc].op = "init" => code[pc].v = pc
  BY CompleteCode, CompleteObjects DEF Placed, Returned, Undefined
<1>2. /\ r[1] \in DOMAIN code /\ r[2] \in DOMAIN code /\ code[r[1]].op = "init" /\ r[1] < r[2]
      /\ DropOf(code, r[2], r[1]) /\ r[1] \in Nat /\ r[2] \in Nat
  BY CompleteObjects, CompleteCode
<1>3. NoBreaks
  BY DEF NoBreaks, EarlyExits
<1>4. code[pc].op \in {"return", "throw_return", "throw", "call"} => code[pc].op = "return"
                                                                   /\ pc = Len(code)
  <2>1. pc \in 1..Len(code) - 1 => code[pc].op \notin {"return", "throw_return", "throw", "call"}
    BY DEF Complete, Featured
  <2>2. pc = Len(code) => code[pc].op = "return"
    BY DEF Complete, Ended
  <2>3. QED BY <1>1, <2>1, <2>2
<1>5. CASE pc' = pc + 1
  <2>1. CASE r[1] = pc
    BY <1>1, <1>2, <1>5, <2>1 DEF Within
  <2>2. CASE r[1] # pc
    <3>1. r[1] \in live
      BY <1>1, <2>2 DEF Effects
    <3>2. Within(r, pc)
      BY <3>1 DEF Confined
    <3>3. pc # r[2]
      <4>1. pc = r[2] => live' = live \ {r[1]}
        BY <1>2 DEF Effects, DropOf
      <4>2. QED BY <4>1
    <3>4. QED BY <1>1, <1>2, <1>5, <3>2, <3>3 DEF Within
  <2>3. QED BY <2>1, <2>2
<1>6. CASE code[pc].op \in PendOps /\ pc' = code[pc].to
  <2>1. r[1] \in live
    BY <1>6 DEF Effects, PendOps
  <2>2. Within(r, pc)
    BY <2>1 DEF Confined
  <2>3. Within(r, code[pc].to)
    <3>1. code[pc].op # "setjmp"
      BY <1>6 DEF PendOps
    <3>2. QED BY <1>1, <1>3, <1>6, <2>2, <3>1, CompleteJumps
  <2>4. code[pc].to > 0
    <3>1. code[pc].to \in 1..Len(code)
      BY <1>1, <1>6, CompleteCode
    <3>2. QED BY <1>1, <3>1
  <2>5. QED BY <1>6, <2>3, <2>4
<1>7. CASE code[pc].op \in {"return", "throw_return", "throw", "call"}
  <2>1. code[pc].op = "return" /\ pc = Len(code)
    BY <1>4, <1>7
  <2>2. r[1] \in live
    BY <2>1 DEF Effects
  <2>3. Within(r, pc)
    BY <2>2 DEF Confined
  <2>4. pc <= r[2]
    BY <1>1, <1>2, <2>3 DEF Within
  <2>5. r[2] = pc
    BY <1>1, <1>2, <2>1, <2>4
  <2>6. QED BY <1>2, <2>1, <2>5 DEF DropOf
<1>8. QED BY <1>5, <1>6, <1>7 DEF Moves

----------------------------------------------------------------------------
(* The properties follow.                                                  *)

\* At a drop the object lives.
LEMMA DropsFollow ==
  ASSUME Complete(code), Placed, Tame => Alive /\ Dropped,
         profile.features \cap EarlyExits = {} => Confined
  PROVE  DropsMatchInits
<1> SUFFICES ASSUME Tame
             PROVE  /\ At({"drop"}) => code[pc].v \in live
                    /\ At({"init"}) /\ profile.features \cap EarlyExits = {} =>
                         code[pc].v \notin live
  BY DEF DropsMatchInits, Tame
<1>1. pc > 0 => pc \in DOMAIN code /\ pc \in Nat
  BY CompleteCode DEF Placed, Returned, Undefined
<1>2. ASSUME At({"drop"}) PROVE code[pc].v \in live
  <2>1. pc > 0 /\ pc \in DOMAIN code /\ pc \in Nat /\ DropOf(code, pc, code[pc].v)
    BY <1>1, <1>2 DEF At, DropOf
  <2>2. code[pc].v \in Nat
    BY <2>1, CompleteCode DEF Instruction
  <2>3. <<code[pc].v, pc>> \in Lifetimes(code) /\ code[pc].v < pc
    BY <2>1, <2>2, CompleteObjects
  <2>4. Within(<<code[pc].v, pc>>, pc)
    BY <2>1, <2>3 DEF Within
  <2>5. QED BY <2>1, <2>3, <2>4 DEF Alive
<1>3. ASSUME At({"init"}), profile.features \cap EarlyExits = {}, code[pc].v \in live
      PROVE  FALSE
  <2>1. pc > 0 /\ pc \in DOMAIN code /\ pc \in Nat /\ code[pc].op = "init"
    BY <1>1, <1>3 DEF At
  <2>2. code[pc].v = pc
    BY <2>1, CompleteObjects
  <2>3. PICK d \in Nat : DropOf(code, d, pc)
    BY <2>1, CompleteObjects
  <2>4. <<pc, d>> \in Lifetimes(code)
    BY <2>1, <2>3, CompleteObjects
  <2>5. Within(<<pc, d>>, pc)
    BY <1>3, <2>2, <2>4 DEF Confined
  <2>6. QED BY <2>1, <2>5 DEF Within
<1>4. QED BY <1>2, <1>3

\* At the last return no object is between its construction and its drop.
LEMMA CleanFollows ==
  ASSUME Complete(code), Placed, profile.features \cap EarlyExits = {} => Confined
  PROVE  CleanWithoutEarlyExit
<1> SUFFICES ASSUME profile.features \cap EarlyExits = {}, pc = Returned, NEW w \in live
             PROVE  FALSE
  BY DEF CleanWithoutEarlyExit
<1>1. w \in DOMAIN code /\ w \in Nat /\ code[w].op = "init"
  BY CompleteCode DEF Placed
<1>2. PICK d \in Nat : DropOf(code, d, w)
  BY <1>1, CompleteObjects
<1>3. <<w, d>> \in Lifetimes(code)
  BY <1>1, <1>2, CompleteObjects
<1>4. QED BY <1>3 DEF Confined, Returned

\* At a throw or call in a try body the buffer is that of the body.
LEMMA CaughtFollows ==
  ASSUME Complete(code), Placed, FlatErrors => Armed
  PROVE  FlatErrors => CaughtByInnermost
<1> SUFFICES ASSUME FlatErrors PROVE CaughtByInnermost
  OBVIOUS
<1>1. pc > 0 => pc \in DOMAIN code
  BY DEF Placed, Returned, Undefined
<1>2. ASSUME At({"throw", "call"}), code[pc].v # 0 PROVE jmp_buf = code[pc].v
  <2>1. pc > 0 /\ pc \in DOMAIN code /\ code[pc].op \in {"throw", "call"}
    BY <1>1, <1>2 DEF At
  <2>2. QED BY <2>1, BodyArmed
<1>3. ASSUME At({"throw_return"}) PROVE FALSE
  <2>1. pc > 0 /\ pc \in DOMAIN code /\ code[pc].op = "throw_return"
    BY <1>1, <1>3 DEF At
  <2>2. pc \in 1..Len(code) - 1
    BY <2>1, CompleteCode
  <2>3. QED BY <2>1, <2>2 DEF Complete, Featured, FlatErrors
<1>4. QED BY <1>2, <1>3 DEF CaughtByInnermost

----------------------------------------------------------------------------
(* The inductive invariant.                                                *)

\* While the function is emitted nothing runs.
Emitting ==
  Ready /\ Featured(code, Len(code)) /\ pc = 1 /\ live = {} /\ jmp_buf \in {Unset, Caller}

\* The compiled program in any state of it.
Running ==
  /\ Complete(code) /\ Placed
  /\ Tame => Alive /\ Dropped
  /\ FlatErrors => Armed
  /\ profile.features \cap EarlyExits = {} => Confined

\* The inductive invariant: what is emitted is in order, and from then on what runs is.
IInv ==
  /\ profile \in Profile /\ phase \in {"emit", "run"}
  /\ phase = "emit" => Emitting
  /\ phase = "run" => Running

\* The definitions about code depend on the profile only.
LEMMA ReadyPrimed ==
  ASSUME Readied, UNCHANGED profile
  PROVE  Ready'
BY DEF Ready, Readied, Emitted, Tries, TriesFlat, Nested, NoBreaks

\* What features a function has, as well.
LEMMA FeaturedPrimed ==
  ASSUME NEW c, NEW n, Featured(c, n), UNCHANGED profile, c = code', n = Len(code')
  PROVE  Featured(code, Len(code))'
BY DEF Featured

\* Code that is complete is complete in the next state, too.
LEMMA CompletePrimed ==
  ASSUME NEW c, Complete(c), UNCHANGED profile, code' = c
  PROVE  Complete(code)'
<1>1. Emitted(code, <<>>, <<>>, {}, FALSE)'
  BY DEF Complete, Emitted, Tries, TriesFlat, Nested, NoBreaks
<1>2. Ended(code)'
  BY DEF Complete, Ended
<1>3. Featured(code, Len(code) - 1)'
  BY DEF Complete, Featured
<1>4. QED BY <1>1, <1>2, <1>3 DEF Complete

\* A function without a statement.
LEMMA InitReady ==
  ASSUME Init
  PROVE  Ready /\ Featured(code, Len(code))
<1> DEFINE b == [kind |-> "func", id |-> 0, of |-> 0, saved |-> <<>>,
                 exits |-> {}, next |-> {}, test |-> 0, arm |-> 0]
<1>1. code = <<>> /\ open = <<b>> /\ auto_drop_list = <<>>
  BY DEF Init
<1>2. /\ b \in BlockInProgress /\ b.kind = "func" /\ b.id = 0 /\ b.of = 0 /\ b.saved = <<>>
      /\ b.exits = {} /\ b.next = {} /\ b.test = 0
  <2>1. "func" \in Kinds /\ <<>> \in Seq(Nat)
    BY DEF Kinds
  <2>2. QED BY <2>1 DEF BlockInProgress
<1>3. /\ Len(code) = 0 /\ DOMAIN code = {} /\ code \in Seq(Instruction)
      /\ Len(auto_drop_list) = 0 /\ auto_drop_list \in Seq(Nat)
  BY <1>1
<1>4. open \in Seq(BlockInProgress) /\ Len(open) = 1 /\ DOMAIN open = {1} /\ open[1] = b
  <2> HIDE DEF b
  <2>1. QED BY <1>1, <1>2
<1> HIDE DEF b
<1>5. Typed(code, open, auto_drop_list)
  BY <1>3, <1>4 DEF Typed
<1>6. Geometry(code, open)
  BY <1>2, <1>3, <1>4 DEF Geometry, Loops
<1>7. Pending(code, open, {})
  BY <1>2, <1>3, <1>4 DEF Pending
<1>8. Objects(code, open, auto_drop_list, FALSE)
  <2>1. Inits(code) /\ DropsKnown(code) /\ InOrder(code)
    BY <1>3 DEF Inits, DropsKnown, InOrder
  <2>2. DropsOnce(code)
    BY <1>3 DEF DropsOnce, DropOf
  <2>3. Listed(code, open, auto_drop_list)
    <3>1. \A k \in DOMAIN open : Lst(open, auto_drop_list, k) = auto_drop_list
      BY <1>4 DEF Lst
    <3>2. 1..0 = {}
      OBVIOUS
    <3>3. QED BY <1>3, <3>1, <3>2 DEF Listed
  <2>4. Covered(code, open, auto_drop_list) /\ Sealed(code, open, FALSE)
    BY <1>3 DEF Covered, Sealed
  <2>5. QED BY <2>1, <2>2, <2>3, <2>4 DEF Objects
<1>9. Tries(code, open)
  BY <1>3 DEF Tries, ThrowsKnown, TriesFlat, TriesOpen
<1>10. Nested(code, open, {})
  <2>1. \A i, j : ~Jump(code, i, j)
    BY <1>3 DEF Jump
  <2>2. Lifetimes(code) = {} /\ Bodies(code) = {}
    BY <1>3 DEF Lifetimes, Bodies
  <2>3. Targets(code) /\ DropsFall(code)
    BY <1>3, <2>1 DEF Targets, DropsFall
  <2>4. Enter(code, open, Lifetimes(code)) /\ Enter(code, open, Bodies(code))
    BY <2>1, <2>2 DEF Enter
  <2>5. Near(open) /\ Leave(code, open, {}, Lifetimes(code))
    BY <1>2, <1>4, <2>1, <2>2 DEF Near, Leave
  <2>6. QED BY <2>3, <2>4, <2>5 DEF Nested
<1>11. Ready
  BY <1>4, <1>5, <1>6, <1>7, <1>8, <1>9, <1>10 DEF Ready, Emitted
<1>12. Featured(code, Len(code))
  <2>1. 1..Len(code) = {}
    BY <1>3
  <2>2. QED BY <2>1 DEF Featured
<1>13. QED BY <1>11, <1>12

\* An empty function is in order.
LEMMA InitIInv == Init => IInv
<1> SUFFICES ASSUME Init PROVE IInv
  OBVIOUS
<1>1. profile \in Profile /\ phase = "emit" /\ pc = 1 /\ live = {} /\ jmp_buf \in {Unset, Caller}
  BY CBackendAssumption DEF Init
<1>2. Ready /\ Featured(code, Len(code))
  BY InitReady
<1>3. QED BY <1>1, <1>2 DEF IInv, Emitting

\* Every statement and every end of a block but that of the function.
EmitMore ==
  \/ c_emit_let \/ c_emit_defer \/ c_emit_plain_block \/ c_emit_if \/ c_emit_while
  \/ c_emit_for \/ c_emit_break \/ c_emit_continue \/ c_emit_return
  \/ c_emit_throw \/ c_emit_call \/ c_emit_try
  \/ EndBlock \/ EndIfElse \/ EndWhile \/ EndFor \/ EndTry \/ EndArm

\* Every step of the emission but the last keeps the code in order.
LEMMA EmitSteps ==
  ASSUME Ready, Featured(code, Len(code)), profile \in Profile, EmitMore
  PROVE  Readied /\ Featured(code', Len(code')) /\ UNCHANGED <<phase, runVars>>
<1>1. Readied
  <2>1. CASE c_emit_let
    BY <2>1, LetReady
  <2>2. CASE c_emit_defer
    BY <2>2, DeferReady
  <2>3. CASE c_emit_plain_block
    BY <2>3, PlainBlockReady
  <2>4. CASE c_emit_if
    BY <2>4, IfReady
  <2>5. CASE c_emit_while
    BY <2>5, WhileReady
  <2>6. CASE c_emit_for
    BY <2>6, ForReady
  <2>7. CASE c_emit_break
    BY <2>7, BreakReady
  <2>8. CASE c_emit_continue
    BY <2>8, ContinueReady
  <2>9. CASE c_emit_return
    <3>1. code' = Append(code, Instr("return", 0, Block, 0)) /\ UNCHANGED <<open, auto_drop_list>>
      BY <2>9 DEF c_emit_return
    <3>2. QED BY <3>1, JumpReady
  <2>10. CASE c_emit_throw
    <3> DEFINE op == IF profile.throws THEN "throw_return" ELSE "throw"
    <3>1. /\ code' = Append(code, Instr(op, InnermostTry, Block, 0))
          /\ UNCHANGED <<open, auto_drop_list>>
      BY <2>10 DEF c_emit_throw
    <3>2. op \in {"return", "throw_return", "throw", "call"}
      OBVIOUS
    <3> HIDE DEF op
    <3>3. QED BY <3>1, <3>2, JumpReady
  <2>11. CASE c_emit_call
    <3>1. /\ code' = Append(code, Instr("call", InnermostTry, Block, 0))
          /\ UNCHANGED <<open, auto_drop_list>>
      BY <2>11 DEF c_emit_call
    <3>2. QED BY <3>1, JumpReady
  <2>12. CASE c_emit_try
    BY <2>12, TryReady DEF Profile
  <2>13. CASE EndBlock
    BY <2>13, EndBlockReady
  <2>14. CASE EndIfElse
    BY <2>14, EndIfElseReady
  <2>15. CASE EndWhile
    BY <2>15, EndWhileReady
  <2>16. CASE EndFor
    BY <2>16, EndForReady
  <2>17. CASE EndTry
    BY <2>17, EndTryReady
  <2>18. CASE EndArm
    BY <2>18, EndArmReady
  <2>19. QED
    BY <2>1, <2>2, <2>3, <2>4, <2>5, <2>6, <2>7, <2>8, <2>9, <2>10, <2>11, <2>12, <2>13,
       <2>14, <2>15, <2>16, <2>17, <2>18 DEF EmitMore
<1>2. code' \in Seq(Instruction)
  BY <1>1 DEF Readied, Emitted, Typed
<1>3. Featured(code', Len(code'))
  <2>1. CASE \/ c_emit_let \/ c_emit_defer \/ c_emit_plain_block \/ c_emit_if \/ c_emit_while
             \/ c_emit_for \/ c_emit_break \/ c_emit_continue
    BY <2>1, StatementFeatured
  <2>2. CASE c_emit_return \/ c_emit_throw \/ c_emit_call \/ c_emit_try
    BY <2>2, JumpFeatured
  <2>3. CASE EndBlock \/ EndIfElse \/ EndWhile \/ EndFor \/ EndTry \/ EndArm
    BY <1>2, <2>3, EndFeatured
  <2>4. QED BY <2>1, <2>2, <2>3 DEF EmitMore
<1>4. UNCHANGED <<phase, runVars>>
  <2>1. CASE \/ c_emit_let \/ c_emit_defer \/ c_emit_plain_block \/ c_emit_if \/ c_emit_while
             \/ c_emit_for \/ c_emit_break \/ c_emit_continue
    BY <2>1 DEF c_emit_let, c_emit_defer, c_emit_plain_block, c_emit_if, c_emit_while,
                c_emit_for, c_emit_break, c_emit_continue, Statement
  <2>2. CASE c_emit_return \/ c_emit_throw \/ c_emit_call \/ c_emit_try
    BY <2>2 DEF c_emit_return, c_emit_throw, c_emit_call, c_emit_try, Statement
  <2>3. CASE EndBlock \/ EndIfElse \/ EndWhile \/ EndFor \/ EndTry \/ EndArm
    BY <2>3 DEF EndBlock, EndIfElse, EndWhile, EndFor, EndTry, EndArm, EndOf
  <2>4. QED BY <2>1, <2>2, <2>3 DEF EmitMore
<1>5. QED BY <1>1, <1>3, <1>4

\* The function is complete and is called.
LEMMA CallSteps ==
  ASSUME Emitting, EndFunction, UNCHANGED profile
  PROVE  Running' /\ phase' = "run"
<1>1. /\ Emitted(code', <<>>, <<>>, {}, FALSE) /\ Ended(code') /\ Featured(code', Len(code') - 1)
      /\ pc = 1 /\ live = {} /\ jmp_buf \in {Unset, Caller}
  BY EndFunctionReady, EndFunctionFeatured DEF Emitting
<1>2. Complete(code')
  BY <1>1 DEF Complete
<1>3. Complete(code)'
  BY <1>2, CompletePrimed
<1>4. pc' = 1 /\ live' = {} /\ jmp_buf' \in {Unset, Caller} /\ phase' = "run"
  BY <1>1 DEF EndFunction, runVars
<1>5. Len(code') \in Nat /\ Len(code') >= 1 /\ DOMAIN code' = 1..Len(code')
  BY <1>2, CompleteCode
<1>6. Placed'
  BY <1>4, <1>5 DEF Placed, Unset, Caller
<1>7. Alive'
  <2>1. ASSUME NEW r \in Lifetimes(code') PROVE ~Within(r, 1)
    <3>1. r[1] \in 1..Len(code')
      BY <1>2, <1>5, CompleteObjects
    <3>2. QED BY <1>5, <3>1 DEF Within
  <2>2. QED BY <1>4, <2>1 DEF Alive
<1>8. Dropped'
  BY <1>4 DEF Dropped
<1>9. Armed'
  <2>1. ASSUME NEW r \in Bodies(code') PROVE ~Within(r, 1)
    <3>1. r[1] \in 1..Len(code')
      BY <1>2, <1>5, CompleteBodies
    <3>2. QED BY <1>5, <3>1 DEF Within
  <2>2. QED BY <1>4, <2>1 DEF Armed
<1>10. Confined'
  BY <1>4 DEF Confined
<1>11. QED BY <1>3, <1>4, <1>6, <1>7, <1>8, <1>9, <1>10 DEF Running

\* Every instruction keeps the invariants of the running program.
LEMMA RunningSteps ==
  ASSUME Running, Run, UNCHANGED profile
  PROVE  Running' /\ phase' = "run"
<1>1. Complete(code) /\ Placed
  BY DEF Running
<1>2. phase = "run" /\ pc > 0 /\ phase' = phase /\ code' = code /\ Moves /\ Effects
  BY <1>1, RunSteps DEF Placed
<1>3. Complete(code)'
  BY <1>1, <1>2, CompletePrimed
<1>4. Placed'
  BY <1>1, <1>2, PlacedSteps
<1>5. (Tame <=> Tame') /\ (FlatErrors <=> FlatErrors')
  BY DEF Tame, FlatErrors
<1>6. ASSUME FlatErrors PROVE Armed'
  BY <1>1, <1>2, <1>6, ArmedSteps DEF Running
<1>7. ASSUME Tame PROVE Alive' /\ Dropped'
  BY <1>1, <1>2, <1>7, AliveSteps, DroppedSteps DEF Running
<1>8. ASSUME profile.features \cap EarlyExits = {} PROVE Confined'
  BY <1>1, <1>2, <1>8, ConfinedSteps DEF Running
<1>9. QED BY <1>2, <1>3, <1>4, <1>5, <1>6, <1>7, <1>8 DEF Running

\* Every step keeps the invariant.
LEMMA NextIInv == IInv /\ [Next]_vars => IInv'
<1> SUFFICES ASSUME IInv, [Next]_vars PROVE IInv'
  OBVIOUS
<1>1. ASSUME Emit, UNCHANGED profile PROVE IInv'
  <2>1. phase = "emit"
    BY <1>1 DEF Emit, c_emit_let, c_emit_defer, c_emit_plain_block, c_emit_if, c_emit_while,
                c_emit_for, c_emit_break, c_emit_continue, c_emit_return, c_emit_throw,
                c_emit_call, c_emit_try, Statement, EndBlock, EndIfElse, EndWhile, EndFor,
                EndTry, EndArm, EndOf, EndFunction
  <2>2. Emitting /\ profile \in Profile
    BY <2>1 DEF IInv
  <2>3. CASE EmitMore
    <3>1. Readied /\ Featured(code', Len(code')) /\ UNCHANGED <<phase, runVars>>
      BY <2>2, <2>3, EmitSteps DEF Emitting
    <3>2. Ready' /\ Featured(code, Len(code))'
      BY <1>1, <3>1, ReadyPrimed, FeaturedPrimed
    <3>3. pc' = 1 /\ live' = {} /\ jmp_buf' \in {Unset, Caller} /\ phase' = "emit"
      BY <2>1, <2>2, <3>1 DEF runVars, Emitting
    <3>4. Emitting'
      BY <3>2, <3>3 DEF Emitting, Unset, Caller
    <3>5. QED BY <1>1, <2>2, <3>3, <3>4 DEF IInv
  <2>4. CASE EndFunction
    BY <1>1, <2>2, <2>4, CallSteps DEF IInv
  <2>5. QED BY <1>1, <2>3, <2>4 DEF Emit, EmitMore
<1>2. ASSUME Run, UNCHANGED profile PROVE IInv'
  <2>1. phase = "run"
    BY <1>2 DEF Run, RunNop, RunInit, RunDrop, RunBranch, RunGoto, RunFor, RunTest,
                RunIncrement, RunThrow, RunReturn, RunCall, RunSetjmp, RunArm, Straight, At
  <2>2. Running /\ profile \in Profile
    BY <2>1 DEF IInv
  <2>3. QED BY <1>2, <2>2, RunningSteps DEF IInv
<1>3. CASE UNCHANGED vars
  <2>1. /\ profile' = profile /\ phase' = phase /\ code' = code /\ open' = open
        /\ auto_drop_list' = auto_drop_list /\ pc' = pc /\ jmp_buf' = jmp_buf /\ live' = live
    BY <1>3 DEF vars, emitVars, runVars
  <2>2. profile' \in Profile /\ phase' \in {"emit", "run"}
    BY <2>1 DEF IInv
  <2>3. ASSUME phase = "emit" PROVE Emitting'
    <3>1. Emitting
      BY <2>3 DEF IInv
    <3>2. Readied
      BY <2>1, <3>1 DEF Emitting, Ready, Readied
    <3>3. Ready' /\ Featured(code, Len(code))'
      BY <2>1, <3>1, <3>2, ReadyPrimed, FeaturedPrimed DEF Emitting
    <3>4. QED BY <2>1, <3>1, <3>3 DEF Emitting, Unset, Caller
  <2>4. ASSUME phase = "run" PROVE Running'
    <3>1. Running
      BY <2>4 DEF IInv
    <3>2. Complete(code)'
      BY <2>1, <3>1, CompletePrimed DEF Running
    <3>3. /\ Placed => Placed'
          /\ Alive => Alive'
          /\ Dropped => Dropped'
          /\ Armed => Armed'
          /\ Confined => Confined'
      BY <2>1 DEF Placed, Alive, Dropped, Armed, Confined
    <3>4. (Tame <=> Tame') /\ (FlatErrors <=> FlatErrors')
      BY <2>1 DEF Tame, FlatErrors
    <3>5. QED BY <2>1, <3>1, <3>2, <3>3, <3>4 DEF Running
  <2>5. QED BY <2>1, <2>2, <2>3, <2>4 DEF IInv
<1>4. QED BY <1>1, <1>2, <1>3 DEF Next

\* The invariant holds in every state of every program of every profile.
LEMMA IInvHolds == Spec => []IInv
<1>1. QED BY InitIInv, NextIInv, PTL DEF Spec

----------------------------------------------------------------------------
\* c_emit_let and c_emit_block agree on every path: in the code c_emit_block writes, no
\* object is destroyed twice or before it is constructed.
THEOREM DropsAgree == Spec => []DropsMatchInits
<1>1. IInv => DropsMatchInits
  <2> SUFFICES ASSUME IInv PROVE DropsMatchInits
    OBVIOUS
  <2>1. CASE phase = "run"
    BY <2>1, DropsFollow DEF IInv, Running
  <2>2. CASE phase # "run"
    BY <2>2 DEF DropsMatchInits, At
  <2>3. QED BY <2>1, <2>2
<1>2. QED BY <1>1, IInvHolds, PTL

\* Without early exits, a function that returns leaves no object behind: each block
\* is left through the drops c_emit_block wrote for its own list.
THEOREM CleanReturn == Spec => []CleanWithoutEarlyExit
<1>1. IInv => CleanWithoutEarlyExit
  <2> SUFFICES ASSUME IInv PROVE CleanWithoutEarlyExit
    OBVIOUS
  <2>1. CASE phase = "run"
    BY <2>1, CleanFollows DEF IInv, Running
  <2>2. CASE phase # "run"
    BY <2>2 DEF IInv, Emitting, CleanWithoutEarlyExit, Returned
  <2>3. QED BY <2>1, <2>2
<1>2. QED BY <1>1, IInvHolds, PTL

\* As long as trys are flat, throw and the error test of a call jump to the arms of the
\* try whose body they stand in, never out of the function and never to another try.
THEOREM CaughtByItsTry == Spec => []CaughtWhenFlat
<1>1. IInv => CaughtWhenFlat
  <2> SUFFICES ASSUME IInv PROVE CaughtWhenFlat
    OBVIOUS
  <2>1. CASE phase = "run"
    BY <2>1, CaughtFollows DEF IInv, Running, CaughtWhenFlat
  <2>2. CASE phase # "run"
    BY <2>2 DEF CaughtByInnermost, CaughtWhenFlat, At
  <2>3. QED BY <2>1, <2>2
<1>2. QED BY <1>1, IInvHolds, PTL

----------------------------------------------------------------------------
(* What a step of the emission does to the code, as a whole.               *)

ForKinds == {"range", "range_inclusive", "array"}

\* The steps that jump back, and to the test of which open block: the end of a loop to its
\* own, and continue.
JumpsBack(o, k) == (k = Len(o) /\ (EndWhile \/ EndFor)) \/ c_emit_continue

\* There is no continue without the feature.
LEMMA ContinueBreaks ==
  ASSUME c_emit_continue
  PROVE  ~NoBreaks
BY DEF c_emit_continue, Statement, NoBreaks

\* What marks a loop, an arm or a finally block in the code.
Marks == ForKinds \cup {"test", "inc", "arm", "finally"}

\* The instructions whose target may change when a block ends.
Loose(b) == b.exits \cup b.next \cup (IF b.kind = "try" THEN {b.of} ELSE {})

\* d has the instructions of c, some jumps of the innermost block led behind c, and more
\* instructions, of the kinds K; those of them that are jumps lead behind c, too, or back
\* to the test of an open loop.
Grew(c, o, d, K) ==
  /\ Len(c) <= Len(d)
  /\ \A i \in 1..Len(c) :
       /\ d[i].op = c[i].op /\ d[i].v = c[i].v
       /\ d[i].to = c[i].to \/ (d[i].to > Len(c) /\ i \in Loose(o[Len(o)]))
  /\ \A i \in Len(c) + 1..Len(d) :
       /\ d[i].op \in K
       /\ \/ d[i].to = 0 \/ d[i].to > Len(c)
          \/ \E k \in DOMAIN o : o[k].test # 0 /\ d[i].to = o[k].test /\ JumpsBack(o, k)

\* Block m of q is block m of o, or the next block of its statement.
SameStatement(c, o, d, q, m) ==
  /\ m \in DOMAIN o /\ q[m].of = o[m].of /\ q[m].test = o[m].test
  /\ \/ q[m].kind = o[m].kind
     \/ m = Len(o) /\ o[m].kind = "if" /\ q[m].kind = "else"
     \/ m = Len(o) /\ o[m].kind \in {"try", "arm"} /\ q[m].kind \in {"arm", "finally"}
  /\ \A i \in q[m].exits : \/ i \in o[m].exits /\ (m = Len(o) => d[i].to = c[i].to)
                           \/ i \in Len(c) + 1..Len(d) /\ d[i].to = 0
  /\ o[m].next \subseteq q[m].next /\ \A i \in q[m].next : i \in o[m].next \/ i > Len(c)

\* Block m of q has just been opened.
NewStatement(c, o, d, q, m) ==
  /\ m = Len(o) + 1 /\ q[m].of = Len(c) + 1 /\ q[m].next = {}
  /\ q[m].kind \notin {"func", "arm", "finally"}
  /\ \A i \in Len(c) + 1..Len(d) : d[i].to = 0
  /\ \A i \in q[m].exits : i \in Len(c) + 1..Len(d)

Goes(c, o, d, q) ==
  \A m \in DOMAIN q : SameStatement(c, o, d, q, m) \/ NewStatement(c, o, d, q, m)

\* Nothing has been done yet.
LEMMA GrewNone ==
  ASSUME NEW c \in Seq(Instruction), NEW o, NEW K
  PROVE  Grew(c, o, c, K)
<1>1. Len(c) \in Nat
  OBVIOUS
<1>2. Len(c) + 1..Len(c) = {}
  BY <1>1
<1>3. QED BY <1>1, <1>2 DEF Grew

\* One more instruction.
LEMMA GrewAppend ==
  ASSUME NEW c \in Seq(Instruction), NEW d \in Seq(Instruction), NEW o, NEW K, Grew(c, o, d, K),
         NEW x \in Instruction, x.op \in K,
         \/ x.to = 0
         \/ \E k \in DOMAIN o : o[k].test # 0 /\ x.to = o[k].test /\ JumpsBack(o, k)
  PROVE  Grew(c, o, Append(d, x), K)
<1> DEFINE e == Append(d, x)
<1>1. /\ Len(e) = Len(d) + 1 /\ Len(d) \in Nat /\ Len(c) \in Nat
      /\ e[Len(d) + 1] = x /\ \A i \in 1..Len(d) : e[i] = d[i]
  BY AppendFacts
<1> HIDE DEF e
<1>2. Len(c) <= Len(d)
  BY DEF Grew
<1>3. ASSUME NEW i \in 1..Len(c)
      PROVE  /\ e[i].op = c[i].op /\ e[i].v = c[i].v
             /\ e[i].to = c[i].to \/ (e[i].to > Len(c) /\ i \in Loose(o[Len(o)]))
  <2>1. e[i] = d[i]
    BY <1>1, <1>2
  <2>2. QED BY <2>1 DEF Grew
<1>4. ASSUME NEW i \in Len(c) + 1..Len(e)
      PROVE  /\ e[i].op \in K
             /\ \/ e[i].to = 0 \/ e[i].to > Len(c)
                \/ \E k \in DOMAIN o : o[k].test # 0 /\ e[i].to = o[k].test /\ JumpsBack(o, k)
  <2>1. CASE i = Len(d) + 1
    BY <1>1, <2>1
  <2>2. CASE i # Len(d) + 1
    <3>1. i \in Len(c) + 1..Len(d) /\ e[i] = d[i]
      BY <1>1, <2>2
    <3>2. QED BY <3>1 DEF Grew
  <2>3. QED BY <2>1, <2>2
<1>5. Len(c) <= Len(e)
  BY <1>1, <1>2
<1>6. QED BY <1>3, <1>4, <1>5 DEF Grew, e

\* Jumps of the innermost block led behind the code.
LEMMA GrewPatch ==
  ASSUME NEW c \in Seq(Instruction), NEW d \in Seq(Instruction), NEW o, NEW K, Grew(c, o, d, K),
         NEW from, \A i \in from : i \in 1..Len(c) => i \in Loose(o[Len(o)])
  PROVE  Grew(c, o, Patch(d, from, Len(d) + 1), K)
<1> DEFINE e == Patch(d, from, Len(d) + 1)
<1>1. /\ Len(e) = Len(d) /\ Len(d) \in Nat /\ Len(c) \in Nat
      /\ \A i \in 1..Len(d) : /\ e[i].op = d[i].op /\ e[i].v = d[i].v
                              /\ e[i].to = IF i \in from THEN Len(d) + 1 ELSE d[i].to
  BY PatchFacts
<1> HIDE DEF e
<1>2. Len(c) <= Len(d) /\ Len(d) + 1 > Len(c)
  BY <1>1 DEF Grew
<1>3. ASSUME NEW i \in 1..Len(c)
      PROVE  /\ e[i].op = c[i].op /\ e[i].v = c[i].v
             /\ e[i].to = c[i].to \/ (e[i].to > Len(c) /\ i \in Loose(o[Len(o)]))
  <2>1. /\ e[i].op = d[i].op /\ e[i].v = d[i].v
        /\ e[i].to = IF i \in from THEN Len(d) + 1 ELSE d[i].to
    BY <1>1, <1>2
  <2>2. /\ d[i].op = c[i].op /\ d[i].v = c[i].v
        /\ d[i].to = c[i].to \/ (d[i].to > Len(c) /\ i \in Loose(o[Len(o)]))
    BY DEF Grew
  <2>3. QED BY <1>2, <2>1, <2>2
<1>4. ASSUME NEW i \in Len(c) + 1..Len(e)
      PROVE  /\ e[i].op \in K
             /\ \/ e[i].to = 0 \/ e[i].to > Len(c)
                \/ \E k \in DOMAIN o : o[k].test # 0 /\ e[i].to = o[k].test /\ JumpsBack(o, k)
  <2>1. i \in Len(c) + 1..Len(d) /\ i \in 1..Len(d)
    BY <1>1
  <2>2. e[i].op = d[i].op /\ e[i].to = IF i \in from THEN Len(d) + 1 ELSE d[i].to
    BY <1>1, <2>1
  <2>3. CASE i \in from
    BY <1>2, <2>1, <2>2, <2>3 DEF Grew
  <2>4. CASE i \notin from
    BY <2>1, <2>2, <2>4 DEF Grew
  <2>5. QED BY <2>3, <2>4
<1>5. QED BY <1>1, <1>2, <1>3, <1>4 DEF Grew, e

\* Fewer kinds are among more.
LEMMA GrewMore ==
  ASSUME NEW c, NEW d, NEW o, NEW K, NEW L, Grew(c, o, d, K), K \subseteq L
  PROVE  Grew(c, o, d, L)
BY DEF Grew

\* The body is the code with the drops of the block behind it.
LEMMA BodyFacts ==
  ASSUME Ready
  PROVE  /\ \A i \in 1..Len(code) : Body[i] = code[i]
         /\ \A i \in Len(code) + 1..Len(Body) : Body[i].op = "drop" /\ Body[i].to = 0
         /\ Len(code) \in Nat /\ Len(Body) \in Nat /\ Len(code) <= Len(Body)
         /\ Body \in Seq(Instruction)
<1> DEFINE l == auto_drop_list
           s == open[Len(open)].id
<1>1. /\ code \in Seq(Instruction) /\ l \in Seq(Nat) /\ s \in Nat
      /\ Len(code) \in Nat /\ Len(l) \in Nat
  BY ReadyTypes
<1>2. Body = code \o DropCode(l, s)
  BY ReadyTypes DEF Body, Drops, DropCode
<1> HIDE DEF l, s
<1>3. /\ Len(Body) = Len(code) + Len(l) /\ Body \in Seq(Instruction)
      /\ \A i \in 1..Len(code) : Body[i] = code[i]
      /\ \A i \in Len(code) + 1..Len(code) + Len(l) :
           \E y \in 1..Len(l) : Body[i] = Instr("drop", l[y], s, 0)
  BY <1>1, <1>2, DropsBehind
<1>4. \A i \in Len(code) + 1..Len(Body) : Body[i].op = "drop" /\ Body[i].to = 0
  <2>1. \A y : Instr("drop", l[y], s, 0).op = "drop" /\ Instr("drop", l[y], s, 0).to = 0
    BY DEF Instr
  <2>2. QED BY <1>3, <2>1
<1>5. QED BY <1>1, <1>3, <1>4

\* The drops of a block.
LEMMA GrewBody ==
  ASSUME Ready
  PROVE  Grew(code, open, Body, {"drop"})
BY BodyFacts DEF Grew

\* The jumps the blocks have noted are in the code.
LEMMA NotedTypes ==
  ASSUME Ready, NEW m \in DOMAIN open
  PROVE  /\ \A i \in open[m].exits \cup open[m].next :
              i \in 1..Len(code) /\ code[i].op \in PendOps /\ i >= open[m].of
         /\ open[m].of \in 0..Len(code) /\ open[m].id \in 0..Len(code)
         /\ open[m].test \in 0..Len(code) /\ open[m].kind \in Kinds
<1>1. Pending(code, open, {}) /\ Geometry(code, open)
  BY DEF Ready, Emitted
<1>2. QED BY <1>1, ReadyTypes, BlockTypes DEF Pending

\* Blocks that stay what they are but for the jump Here they may note.
LEMMA GoesNoted ==
  ASSUME Ready, NEW d \in Seq(Instruction), NEW q, DOMAIN q = DOMAIN open,
         \A i \in 1..Len(code) : d[i] = code[i], Here \in 1..Len(d),
         \A m \in DOMAIN open :
           /\ q[m].of = open[m].of /\ q[m].test = open[m].test /\ q[m].kind = open[m].kind
           /\ q[m].exits = open[m].exits \/ (q[m].exits = open[m].exits \cup {Here} /\ d[Here].to = 0)
           /\ open[m].next \subseteq q[m].next /\ q[m].next \subseteq open[m].next \cup {Here}
  PROVE  Goes(code, open, d, q)
<1>1. Here = Len(code) + 1 /\ Len(code) \in Nat /\ Len(d) \in Nat
  BY ReadyTypes
<1>2. ASSUME NEW m \in DOMAIN q PROVE SameStatement(code, open, d, q, m)
  <2>1. \A i \in open[m].exits \cup open[m].next : i \in 1..Len(code)
    BY <1>2, NotedTypes
  <2>2. m \in DOMAIN open /\ q[m].of = open[m].of /\ q[m].test = open[m].test
        /\ q[m].kind = open[m].kind
    OBVIOUS
  <2>3. ASSUME NEW i \in q[m].exits
        PROVE  \/ i \in open[m].exits /\ (m = Len(open) => d[i].to = code[i].to)
               \/ i \in Len(code) + 1..Len(d) /\ d[i].to = 0
    <3>1. CASE i \in open[m].exits
      BY <2>1, <3>1
    <3>2. CASE i \notin open[m].exits
      <4>1. i = Here /\ d[Here].to = 0
        BY <2>2, <2>3, <3>2
      <4>2. QED BY <1>1, <4>1
    <3>3. QED BY <3>1, <3>2
  <2>4. /\ open[m].next \subseteq q[m].next
        /\ \A i \in q[m].next : i \in open[m].next \/ i > Len(code)
    BY <1>1, <2>2
  <2>5. QED BY <2>2, <2>3, <2>4 DEF SameStatement
<1>3. QED BY <1>2 DEF Goes

\* A statement that opens no block.
LEMMA LeafGrows ==
  ASSUME Ready, NEW op \in Ops \ Marks, NEW v \in Nat, NEW to,
         \/ to = 0
         \/ \E k \in DOMAIN open : open[k].test # 0 /\ to = open[k].test /\ c_emit_continue,
         code' = Append(code, Instr(op, v, Block, to))
  PROVE  /\ Grew(code, open, code', Ops \ Marks) /\ code' \in Seq(Instruction)
         /\ Len(code') = Len(code) + 1 /\ code'[Len(code) + 1].to = to
         /\ \A i \in 1..Len(code) : code'[i] = code[i]
<1> DEFINE x == Instr(op, v, Block, to)
<1>1. to \in Nat /\ Block \in Nat
  <2>1. Block \in Nat
    BY ReadyTypes
  <2>2. \A k \in DOMAIN open : open[k].test \in Nat
    BY ReadyTypes, NotedTypes
  <2>3. QED BY <2>1, <2>2
<1>2. x \in Instruction /\ x.op = op /\ x.to = to
  BY <1>1, InstrFacts
<1> HIDE DEF x
<1>3. /\ Append(code, x) \in Seq(Instruction) /\ Len(Append(code, x)) = Len(code) + 1
      /\ Append(code, x)[Len(code) + 1] = x /\ \A i \in 1..Len(code) : Append(code, x)[i] = code[i]
  BY <1>2, ReadyTypes, AppendFacts
<1>4. Grew(code, open, Append(code, x), Ops \ Marks)
  <2>1. Grew(code, open, code, Ops \ Marks)
    BY ReadyTypes, GrewNone
  <2>2. \/ x.to = 0
        \/ \E k \in DOMAIN open : open[k].test # 0 /\ x.to = open[k].test /\ JumpsBack(open, k)
    BY <1>2 DEF JumpsBack
  <2>3. x.op \in Ops \ Marks
    BY <1>2
  <2>4. QED BY <1>2, <2>1, <2>2, <2>3, ReadyTypes, GrewAppend
<1>5. code' = Append(code, x)
  BY DEF x
<1>6. QED BY <1>2, <1>3, <1>4, <1>5

\* let, return, throw and call leave the blocks alone.
LEMMA StatementGrows ==
  ASSUME Ready, c_emit_let \/ c_emit_return \/ c_emit_throw \/ c_emit_call
  PROVE  /\ Grew(code, open, code', Ops \ Marks) /\ Goes(code, open, code', open')
         /\ \A i \in 1..Len(code) : code'[i] = code[i]
<1>1. Here \in Nat /\ Here = Len(code) + 1 /\ InnermostTry \in Nat /\ Len(code) \in Nat
  BY ReadyTypes, InnermostTryFacts
<1>2. {"init", "return", "throw_return", "throw", "call"} \subseteq Ops \ Marks
  BY DEF Ops, Marks, ForKinds
<1>3. /\ open' = open
      /\ \E op \in Ops \ Marks : \E v \in Nat : code' = Append(code, Instr(op, v, Block, 0))
  <2>1. CASE c_emit_let
    BY <1>1, <1>2, <2>1 DEF c_emit_let
  <2>2. CASE c_emit_return
    BY <1>1, <1>2, <2>2 DEF c_emit_return
  <2>3. CASE c_emit_throw
    BY <1>1, <1>2, <2>3 DEF c_emit_throw
  <2>4. CASE c_emit_call
    BY <1>1, <1>2, <2>4 DEF c_emit_call
  <2>5. QED BY <2>1, <2>2, <2>3, <2>4
<1>4. PICK op \in Ops \ Marks : \E v \in Nat : code' = Append(code, Instr(op, v, Block, 0))
  BY <1>3
<1>5. PICK v \in Nat : code' = Append(code, Instr(op, v, Block, 0))
  BY <1>4
<1>6. /\ Grew(code, open, code', Ops \ Marks) /\ code' \in Seq(Instruction)
      /\ Len(code') = Len(code) + 1 /\ \A i \in 1..Len(code) : code'[i] = code[i]
  BY <1>5, LeafGrows
<1>7. Goes(code, open, code', open)
  BY <1>1, <1>6, GoesNoted
<1>8. QED BY <1>3, <1>6, <1>7

\* break and continue note their jump in the list of the loop.
LEMMA LeaveLoopGrows ==
  ASSUME Ready, c_emit_break \/ c_emit_continue
  PROVE  /\ Grew(code, open, code', Ops \ Marks) /\ Goes(code, open, code', open')
         /\ \A i \in 1..Len(code) : code'[i] = code[i]
         /\ DOMAIN open' = DOMAIN open
<1> DEFINE m == InnermostOf(Loops)
<1>1. Here \in Nat /\ Here = Len(code) + 1 /\ Len(code) \in Nat
  BY ReadyTypes
<1>2. "goto" \in Ops \ Marks /\ 0 \in Nat
  BY DEF Ops, Marks, ForKinds
<1>3. m # 0
  BY DEF c_emit_break, c_emit_continue
<1>4. m \in DOMAIN open /\ open[m].kind \in Loops
  BY <1>3, InnermostFacts, ReadyTypes
<1>5. open[m] \in BlockInProgress /\ \A k \in DOMAIN open : open[k] \in BlockInProgress
  BY <1>4, ReadyTypes
<1>6. open[m].test # 0
  BY <1>4 DEF Ready, Emitted, Geometry
<1> HIDE DEF m
<1>7. CASE c_emit_break
  <2>1. /\ code' = Append(code, Instr("goto", 0, Block, 0))
        /\ open' = [open EXCEPT ![m] = [open[m] EXCEPT !.exits = open[m].exits \cup {Here}]]
    BY <1>7 DEF c_emit_break, m
  <2>2. /\ Grew(code, open, code', Ops \ Marks) /\ code' \in Seq(Instruction)
        /\ Len(code') = Len(code) + 1 /\ code'[Len(code) + 1].to = 0
        /\ \A i \in 1..Len(code) : code'[i] = code[i]
    BY <1>2, <2>1, LeafGrows
  <2> DEFINE b == [open[m] EXCEPT !.exits = open[m].exits \cup {Here}]
  <2>3. /\ b.of = open[m].of /\ b.test = open[m].test /\ b.kind = open[m].kind
        /\ b.exits = open[m].exits \cup {Here} /\ b.next = open[m].next
    BY <1>5 DEF BlockInProgress
  <2> HIDE DEF b
  <2>4. open' = [open EXCEPT ![m] = b]
    BY <2>1 DEF b
  <2>5. DOMAIN open' = DOMAIN open /\ \A k \in DOMAIN open : open'[k] = IF k = m THEN b ELSE open[k]
    BY <1>4, <2>4
  <2>6. Here \in 1..Len(code')
    BY <1>1, <2>2
  <2>7. Goes(code, open, code', open')
    BY <1>1, <2>2, <2>3, <2>5, <2>6, GoesNoted
  <2>8. QED BY <2>2, <2>5, <2>7
<1>8. CASE c_emit_continue
  <2>1. /\ code' = Append(code, Instr("goto", 0, Block, open[m].test))
        /\ open' = IF open[m].kind = "array"
                   THEN [open EXCEPT ![m] = [open[m] EXCEPT !.next = open[m].next \cup {Here}]]
                   ELSE open
    BY <1>8 DEF c_emit_continue, m
  <2>2. /\ Grew(code, open, code', Ops \ Marks) /\ code' \in Seq(Instruction)
        /\ Len(code') = Len(code) + 1
        /\ \A i \in 1..Len(code) : code'[i] = code[i]
    BY <1>2, <1>4, <1>6, <1>8, <2>1, LeafGrows
  <2> DEFINE b == [open[m] EXCEPT !.next = open[m].next \cup {Here}]
  <2>3. /\ b.of = open[m].of /\ b.test = open[m].test /\ b.kind = open[m].kind
        /\ b.exits = open[m].exits /\ b.next = open[m].next \cup {Here}
    BY <1>5 DEF BlockInProgress
  <2> HIDE DEF b
  <2>4. open' = [open EXCEPT ![m] = b] \/ open' = open
    BY <2>1 DEF b
  <2>5. /\ DOMAIN open' = DOMAIN open
        /\ \A k \in DOMAIN open : open'[k] = open[k] \/ (k = m /\ open'[k] = b)
    BY <1>4, <2>4
  <2>6. Here \in 1..Len(code')
    BY <1>1, <2>2
  <2>7. Goes(code, open, code', open')
    BY <1>1, <2>2, <2>3, <2>5, <2>6, GoesNoted
  <2>8. QED BY <2>2, <2>5, <2>7
<1>9. QED BY <1>7, <1>8

\* The first block of a statement.
LEMMA NewBlockFacts ==
  ASSUME Ready, NEW kind \in Kinds, NEW exits \in SUBSET Nat, NEW test \in Nat
  PROVE  /\ NewBlock(kind, exits, test) \in BlockInProgress
         /\ NewBlock(kind, exits, test).kind = kind
         /\ NewBlock(kind, exits, test).of = Len(code) + 1
         /\ NewBlock(kind, exits, test).exits = exits
         /\ NewBlock(kind, exits, test).next = {}
         /\ NewBlock(kind, exits, test).test = test
<1>1. Here \in Nat /\ Here = Len(code) + 1 /\ auto_drop_list \in Seq(Nat)
  BY ReadyTypes
<1>2. QED BY <1>1 DEF NewBlock, BlockInProgress

\* A block more, at the end of the code that was.
LEMMA GoesOpened ==
  ASSUME Ready, NEW d \in Seq(Instruction), NEW b \in BlockInProgress,
         b.kind \notin {"func", "arm", "finally"}, b.of = Len(code) + 1, b.next = {},
         b.exits \subseteq Len(code) + 1..Len(d), open' = Append(open, b),
         \A i \in 1..Len(code) : d[i] = code[i],
         \A i \in Len(code) + 1..Len(d) : d[i].to = 0
  PROVE  /\ Goes(code, open, d, open')
         /\ Len(open') = Len(open) + 1 /\ DOMAIN open' = 1..Len(open) + 1
         /\ open'[Len(open) + 1] = b /\ \A m \in DOMAIN open : open'[m] = open[m]
<1>1. Len(code) \in Nat /\ open \in Seq(BlockInProgress) /\ DOMAIN open = 1..Len(open)
      /\ Len(open) \in Nat
  BY ReadyTypes
<1>2. /\ Len(open') = Len(open) + 1 /\ DOMAIN open' = 1..Len(open) + 1
      /\ open'[Len(open) + 1] = b /\ \A m \in DOMAIN open : open'[m] = open[m]
  BY <1>1
<1>3. ASSUME NEW m \in DOMAIN open'
      PROVE  SameStatement(code, open, d, open', m) \/ NewStatement(code, open, d, open', m)
  <2>1. CASE m = Len(open) + 1
    BY <1>2, <2>1 DEF NewStatement
  <2>2. CASE m # Len(open) + 1
    <3>1. m \in DOMAIN open /\ open'[m] = open[m]
      BY <1>1, <1>2, <2>2
    <3>2. \A i \in open[m].exits : i \in 1..Len(code) /\ d[i].to = code[i].to
      BY <3>1, NotedTypes
    <3>3. QED BY <3>1, <3>2 DEF SameStatement
  <2>3. QED BY <2>1, <2>2
<1>4. Goes(code, open, d, open')
  BY <1>3 DEF Goes
<1>5. QED BY <1>2, <1>4

\* defer, block, if, while and try write one instruction and open a block.
LEMMA OpenGrows ==
  ASSUME Ready, c_emit_defer \/ c_emit_plain_block \/ c_emit_if \/ c_emit_while \/ c_emit_try
  PROVE  /\ Grew(code, open, code', Ops \ Marks) /\ Goes(code, open, code', open')
         /\ \A m \in DOMAIN open' : open'[m].kind \in ForKinds =>
              m \in DOMAIN open /\ open'[m] = open[m]
         /\ \A m \in DOMAIN open : m \in DOMAIN open' /\ open'[m] = open[m]
         /\ \A i \in 1..Len(code) : code'[i] = code[i]
<1>1. Here \in Nat /\ Here = Len(code) + 1 /\ Len(code) \in Nat
  BY ReadyTypes
<1>2. \E op \in Ops \ Marks, v \in Nat, kind \in Kinds \ ({"func", "arm", "finally"} \cup ForKinds),
         exits \in SUBSET {Here}, test \in {0, Here} :
        code' = Append(code, Instr(op, v, Block, 0)) /\ OpenBlock(NewBlock(kind, exits, test))
  <2>1. /\ {"defer", "nop", "branch", "setjmp"} \subseteq Ops \ Marks /\ 0 \in Nat
        /\ {"block", "if", "while", "try"} \subseteq Kinds \ ({"func", "arm", "finally"} \cup ForKinds)
        /\ {} \in SUBSET {Here} /\ {Here} \in SUBSET {Here} /\ 0 \in {0, Here} /\ Here \in {0, Here}
    BY DEF Ops, Marks, ForKinds, Kinds
  <2>2. CASE c_emit_defer
    <3>1. /\ code' = Append(code, Instr("defer", Here, Block, 0))
          /\ OpenBlock(NewBlock("block", {}, 0))
      BY <2>2 DEF c_emit_defer
    <3>2. QED BY <1>1, <2>1, <3>1
  <2>3. CASE c_emit_plain_block
    <3>1. /\ code' = Append(code, Instr("nop", 0, Block, 0))
          /\ OpenBlock(NewBlock("block", {}, 0))
      BY <2>3 DEF c_emit_plain_block
    <3>2. QED BY <1>1, <2>1, <3>1
  <2>4. CASE c_emit_if
    <3>1. /\ code' = Append(code, Instr("branch", 0, Block, 0))
          /\ OpenBlock(NewBlock("if", {Here}, 0))
      BY <2>4 DEF c_emit_if
    <3>2. QED BY <1>1, <2>1, <3>1
  <2>5. CASE c_emit_while
    <3>1. /\ code' = Append(code, Instr("branch", 0, Block, 0))
          /\ OpenBlock(NewBlock("while", {Here}, Here))
      BY <2>5 DEF c_emit_while
    <3>2. QED BY <1>1, <2>1, <3>1
  <2>6. CASE c_emit_try
    <3>1. /\ code' = Append(code, Instr("setjmp", Here, Block, 0))
          /\ OpenBlock(NewBlock("try", {}, 0))
      BY <2>6 DEF c_emit_try
    <3>2. QED BY <1>1, <2>1, <3>1
  <2>7. QED BY <2>2, <2>3, <2>4, <2>5, <2>6
<1>3. PICK op \in Ops \ Marks, v \in Nat, kind \in Kinds \ ({"func", "arm", "finally"} \cup ForKinds),
         exits \in SUBSET {Here}, test \in {0, Here} :
        code' = Append(code, Instr(op, v, Block, 0)) /\ OpenBlock(NewBlock(kind, exits, test))
  BY <1>2
<1>4. /\ Grew(code, open, code', Ops \ Marks) /\ code' \in Seq(Instruction)
      /\ Len(code') = Len(code) + 1 /\ code'[Len(code) + 1].to = 0
      /\ \A i \in 1..Len(code) : code'[i] = code[i]
  BY <1>3, LeafGrows
<1>5. /\ \A i \in Len(code) + 1..Len(code') : code'[i].to = 0
      /\ exits \subseteq Len(code) + 1..Len(code') /\ exits \in SUBSET Nat /\ test \in Nat
  BY <1>1, <1>4
<1>6. kind \in Kinds /\ kind \notin {"func", "arm", "finally"} /\ kind \notin ForKinds
  OBVIOUS
<1> DEFINE b == NewBlock(kind, exits, test)
<1>a. /\ b \in BlockInProgress /\ b.kind = kind /\ b.of = Len(code) + 1 /\ b.exits = exits
      /\ b.next = {}
  <2>1. kind \in Kinds /\ exits \in SUBSET Nat /\ test \in Nat
    BY <1>5, <1>6
  <2>2. Here \in Nat /\ Here = Len(code) + 1 /\ auto_drop_list \in Seq(Nat)
    BY ReadyTypes
  <2>3. QED BY <2>1, <2>2 DEF NewBlock, BlockInProgress
<1>b. open' = Append(open, b)
  BY <1>3 DEF OpenBlock
<1> HIDE DEF b
<1>7. /\ Goes(code, open, code', open') /\ DOMAIN open' = 1..Len(open) + 1
      /\ open'[Len(open) + 1].kind = kind
      /\ \A m \in DOMAIN open : open'[m] = open[m]
  BY <1>a, <1>b, <1>4, <1>5, <1>6, GoesOpened
<1>8. Len(open) \in Nat /\ DOMAIN open = 1..Len(open)
  BY ReadyTypes
<1>9. \A m \in DOMAIN open' : m = Len(open) + 1 \/ m \in DOMAIN open
  BY <1>7, <1>8
<1>10. QED BY <1>4, <1>6, <1>7, <1>8, <1>9

\* for writes its head and its test.
LEMMA ForGrows ==
  ASSUME Ready, c_emit_for
  PROVE  /\ Grew(code, open, code', ForKinds \cup {"test"}) /\ Goes(code, open, code', open')
         /\ Len(code') = Len(code) + 2 /\ Len(open') = Len(open) + 1
         /\ DOMAIN open' = 1..Len(open) + 1 /\ \A m \in DOMAIN open : open'[m] = open[m]
         /\ code'[Len(code) + 1].op \in ForKinds
         /\ code'[Len(code) + 1].op = open'[Len(open) + 1].kind
         /\ code'[Len(code) + 2].op = "test" /\ code'[Len(code) + 2].v = Len(code) + 1
         /\ \A i \in Len(code) + 1..Len(code') : code'[i].to = 0
         /\ \A i \in 1..Len(code) : code'[i] = code[i]
         /\ open'[Len(open) + 1].kind \in ForKinds /\ open'[Len(open) + 1].of = Len(code) + 1
         /\ open'[Len(open) + 1].test = Len(code) + 2
<1>1. PICK kind \in {"range", "range_inclusive", "array"} :
        /\ code' = code \o <<Instr(kind, Here, Block, 0), Instr("test", Here, Block, 0)>>
        /\ OpenBlock(NewBlock(kind, {Here + 1}, Here + 1))
  BY DEF c_emit_for
<1> DEFINE x == Instr(kind, Here, Block, 0)
           y == Instr("test", Here, Block, 0)
           c == Append(code, x)
           d == Append(c, y)
<1>2. /\ kind \in Ops /\ "test" \in Ops /\ kind \in ForKinds
      /\ kind \in Kinds \ {"func", "arm", "finally"}
  BY DEF Ops, Kinds, ForKinds
<1>3. Here = Len(code) + 1 /\ Here \in Nat /\ Len(code) \in Nat /\ 0 \in Nat /\ Block \in Nat
      /\ code \in Seq(Instruction)
  BY ReadyTypes
<1>4. /\ x \in Instruction /\ x.op = kind /\ x.to = 0
      /\ y \in Instruction /\ y.op = "test" /\ y.v = Len(code) + 1 /\ y.to = 0
  BY <1>2, <1>3, InstrFacts
<1>5. code' = d
  <2>1. code \o <<x, y>> = Append(Append(code, x), y)
    BY <1>3, <1>4
  <2>2. QED BY <1>1, <2>1
<1> HIDE DEF x, y
<1> DEFINE K == ForKinds \cup {"test"}
<1>6. x.op \in K /\ y.op \in K
  BY <1>2, <1>4
<1> HIDE DEF K
<1>7. /\ Len(c) = Len(code) + 1 /\ c \in Seq(Instruction)
      /\ c[Len(code) + 1] = x /\ \A i \in 1..Len(code) : c[i] = code[i]
      /\ Grew(code, open, c, K)
  BY <1>3, <1>4, <1>6, AppendFacts, GrewNone, GrewAppend
<1> HIDE DEF c
<1>8. /\ Len(d) = Len(code) + 2 /\ d \in Seq(Instruction) /\ d[Len(code) + 2] = y
      /\ d[Len(code) + 1] = x /\ \A i \in 1..Len(code) : d[i] = code[i]
      /\ Grew(code, open, d, K)
  <2>1. /\ Len(d) = Len(c) + 1 /\ d \in Seq(Instruction) /\ d[Len(c) + 1] = y
        /\ \A i \in 1..Len(c) : d[i] = c[i]
    BY <1>4, <1>7, AppendFacts
  <2>2. Grew(code, open, d, K)
    BY <1>3, <1>4, <1>6, <1>7, GrewAppend
  <2>3. QED BY <1>3, <1>7, <2>1, <2>2
<1> HIDE DEF d
<1>9. /\ \A i \in Len(code) + 1..Len(d) : d[i].to = 0
      /\ {Here + 1} \subseteq Len(code) + 1..Len(d) /\ {Here + 1} \in SUBSET Nat /\ Here + 1 \in Nat
  <2>1. \A i \in Len(code) + 1..Len(d) : i = Len(code) + 1 \/ i = Len(code) + 2
    BY <1>3, <1>8
  <2>2. QED BY <1>3, <1>4, <1>8, <2>1
<1> DEFINE ex == {Here + 1}
           te == Here + 1
           b  == NewBlock(kind, ex, te)
<1>a. kind \in Kinds /\ ex \in SUBSET Nat /\ te \in Nat
  BY <1>2, <1>9
<1>b. open' = Append(open, b)
  BY <1>1 DEF OpenBlock
<1> HIDE DEF ex, te
<1>d. /\ b \in BlockInProgress /\ b.kind = kind /\ b.of = Len(code) + 1 /\ b.exits = ex
      /\ b.next = {} /\ b.test = te
  BY <1>a, NewBlockFacts
<1> HIDE DEF b
<1>c. b.kind \notin {"func", "arm", "finally"} /\ b.exits \subseteq Len(code) + 1..Len(d)
  BY <1>2, <1>9, <1>d DEF ex
<1>10. /\ Goes(code, open, d, open')
       /\ Len(open') = Len(open) + 1 /\ DOMAIN open' = 1..Len(open) + 1
       /\ open'[Len(open) + 1].kind = kind /\ open'[Len(open) + 1].of = Len(code) + 1
       /\ open'[Len(open) + 1].test = Here + 1
       /\ \A m \in DOMAIN open : open'[m] = open[m]
  BY <1>8, <1>9, <1>b, <1>c, <1>d, GoesOpened DEF te
<1>11. QED BY <1>2, <1>3, <1>4, <1>5, <1>8, <1>9, <1>10 DEF K

\* The innermost block is closed.
LEMMA GoesClosed ==
  ASSUME Ready, NEW d, open' = Front(open)
  PROVE  /\ Goes(code, open, d, open') /\ Len(open') = Len(open) - 1
         /\ DOMAIN open' = 1..Len(open) - 1 /\ \A m \in 1..Len(open) - 1 : open'[m] = open[m]
<1>1. /\ open \in Seq(BlockInProgress) /\ DOMAIN open = 1..Len(open) /\ Len(open) \in Nat
      /\ Len(open) >= 1
  BY ReadyTypes
<1>2. /\ Len(open') = Len(open) - 1 /\ DOMAIN open' = 1..Len(open) - 1
      /\ \A m \in 1..Len(open) - 1 : open'[m] = open[m]
  BY <1>1 DEF Front
<1>3. ASSUME NEW m \in DOMAIN open' PROVE SameStatement(code, open, d, open', m)
  BY <1>1, <1>2 DEF SameStatement
<1>4. QED BY <1>2, <1>3 DEF Goes

\* The jumps to behind the statement are those the innermost block has noted, or new.
ExitsOf(d, exits) ==
  \A i \in exits : \/ i \in Innermost.exits /\ d[i].to = code[i].to
                   \/ i \in Len(code) + 1..Len(d) /\ d[i].to = 0

\* The innermost statement goes on with another block.
LEMMA GoesRenewed ==
  ASSUME Ready, NEW d, NEW kind \in Kinds, NEW id \in Nat, NEW exits \in SUBSET Nat, NEW arm \in Nat,
         open' = Renewed(open, kind, id, exits, arm),
         \/ Innermost.kind = "if" /\ kind = "else"
         \/ Innermost.kind \in {"try", "arm"} /\ kind \in {"arm", "finally"},
         ExitsOf(d, exits)
  PROVE  /\ Goes(code, open, d, open') /\ Len(open') = Len(open) /\ DOMAIN open' = DOMAIN open
         /\ \A m \in DOMAIN open : m # Len(open) => open'[m] = open[m]
         /\ open'[Len(open)].kind = kind /\ open'[Len(open)].of = Innermost.of
         /\ open'[Len(open)].exits = exits
<1>1. /\ open \in Seq(BlockInProgress) /\ DOMAIN open = 1..Len(open) /\ Len(open) \in Nat
      /\ Innermost = open[Len(open)] /\ Len(open) \in DOMAIN open
  BY ReadyTypes DEF Ready
<1>2. /\ Len(open') = Len(open) /\ DOMAIN open' = DOMAIN open
      /\ \A m \in DOMAIN open : m # Len(open) => open'[m] = open[m]
      /\ open'[Len(open)].kind = kind /\ open'[Len(open)].of = Innermost.of
      /\ open'[Len(open)].exits = exits /\ open'[Len(open)].next = Innermost.next
      /\ open'[Len(open)].test = Innermost.test
  BY <1>1, RenewedFacts
<1>3. ASSUME NEW m \in DOMAIN open' PROVE SameStatement(code, open, d, open', m)
  <2>1. CASE m = Len(open)
    BY <1>1, <1>2, <2>1 DEF SameStatement, ExitsOf
  <2>2. CASE m # Len(open)
    BY <1>1, <1>2, <2>2 DEF SameStatement
  <2>3. QED BY <2>1, <2>2
<1>4. QED BY <1>2, <1>3 DEF Goes

\* The jumps out of the innermost block lead behind its statement.
LEMMA CloseGrows ==
  ASSUME Ready, NEW c \in Seq(Instruction), NEW K, Grew(code, open, c, K),
         CloseBlock(c, Innermost.exits)
  PROVE  /\ Grew(code, open, code', K) /\ Goes(code, open, code', open')
         /\ Len(open') = Len(open) - 1 /\ DOMAIN open' = 1..Len(open) - 1
         /\ \A m \in 1..Len(open) - 1 : open'[m] = open[m]
         /\ code' \in Seq(Instruction) /\ Len(code') = Len(c)
         /\ \A i \in 1..Len(c) : /\ code'[i].op = c[i].op /\ code'[i].v = c[i].v
                                 /\ code'[i].to = IF i \in Innermost.exits THEN Len(c) + 1 ELSE c[i].to
<1>1. code' = Patch(c, Innermost.exits, Len(c) + 1) /\ open' = Front(open)
  BY DEF CloseBlock
<1>2. Innermost.exits \subseteq Loose(open[Len(open)])
  BY ReadyTypes DEF Loose
<1>3. Grew(code, open, code', K)
  BY <1>1, <1>2, ReadyTypes, GrewPatch
<1>4. QED BY <1>1, <1>3, GoesClosed, PatchFacts

\* The body with a jump behind it.
BodyThen(to) == Append(Body, Instr("goto", 0, Block, to))

\* A jump behind the body is one more instruction of the growth.
LEMMA GotoGrows ==
  ASSUME Ready, NEW to \in Nat, to = 0 \/ (to = Innermost.test /\ to # 0 /\ EndWhile)
  PROVE  /\ Grew(code, open, BodyThen(to), {"drop", "goto"}) /\ BodyThen(to) \in Seq(Instruction)
         /\ Len(BodyThen(to)) = Len(Body) + 1
         /\ BodyThen(to)[Len(Body) + 1].op = "goto" /\ BodyThen(to)[Len(Body) + 1].to = to
         /\ \A i \in 1..Len(Body) : BodyThen(to)[i] = Body[i]
         /\ Len(Body) \in Nat /\ Len(code) <= Len(Body) /\ Len(code) \in Nat
<1> DEFINE x == Instr("goto", 0, Block, to)
<1>1. Body \in Seq(Instruction) /\ Block \in Nat /\ Len(Body) \in Nat /\ Len(code) <= Len(Body)
  BY BodyReady
<1>2. "goto" \in Ops /\ 0 \in Nat
  BY DEF Ops
<1>3. x \in Instruction /\ x.op = "goto" /\ x.to = to
  BY <1>1, <1>2, InstrFacts
<1> HIDE DEF x
<1>4. /\ Append(Body, x) \in Seq(Instruction) /\ Len(Append(Body, x)) = Len(Body) + 1
      /\ Append(Body, x)[Len(Body) + 1] = x /\ \A i \in 1..Len(Body) : Append(Body, x)[i] = Body[i]
  BY <1>1, <1>3, AppendFacts
<1>5. Grew(code, open, Append(Body, x), {"drop", "goto"})
  <2>1. Grew(code, open, Body, {"drop", "goto"})
    BY GrewBody, GrewMore
  <2>2. \/ x.to = 0
        \/ \E k \in DOMAIN open : open[k].test # 0 /\ x.to = open[k].test /\ JumpsBack(open, k)
    BY <1>3, ReadyTypes DEF Ready, JumpsBack
  <2>3. x.op \in {"drop", "goto"}
    BY <1>3
  <2>4. QED BY <1>1, <1>3, <2>1, <2>2, <2>3, ReadyTypes, GrewAppend
<1>6. BodyThen(to) = Append(Body, x)
  BY DEF x, BodyThen
<1>7. QED BY <1>1, <1>3, <1>4, <1>5, <1>6, ReadyTypes

\* The end of a block, an if, else or finally.
LEMMA EndBlockGrows ==
  ASSUME Ready, EndBlock
  PROVE  /\ Grew(code, open, code', Ops \ Marks) /\ Goes(code, open, code', open')
         /\ \A m \in DOMAIN open : open[m].kind \in ForKinds => m \in DOMAIN open' /\ open'[m] = open[m]
<1>1. Innermost.kind \in {"block", "if", "else", "finally"} /\ CloseBlock(Body, Innermost.exits)
  BY DEF EndBlock, EndOf
<1>2. Body \in Seq(Instruction) /\ Grew(code, open, Body, {"drop"})
  BY BodyReady, GrewBody
<1>3. /\ Grew(code, open, code', {"drop"}) /\ Goes(code, open, code', open')
      /\ DOMAIN open' = 1..Len(open) - 1 /\ \A m \in 1..Len(open) - 1 : open'[m] = open[m]
  BY <1>1, <1>2, CloseGrows
<1>4. {"drop"} \subseteq Ops \ Marks
  BY DEF Ops, Marks, ForKinds
<1>5. ASSUME NEW m \in DOMAIN open, open[m].kind \in ForKinds PROVE m \in 1..Len(open) - 1
  BY <1>1, <1>5, ReadyTypes DEF ForKinds
<1>6. Grew(code, open, code', Ops \ Marks)
  BY <1>3, <1>4, GrewMore
<1>7. QED BY <1>3, <1>5, <1>6

\* The end of a while loop.
LEMMA EndWhileGrows ==
  ASSUME Ready, EndWhile
  PROVE  /\ Grew(code, open, code', Ops \ Marks) /\ Goes(code, open, code', open')
         /\ \A m \in DOMAIN open : open[m].kind \in ForKinds => m \in DOMAIN open' /\ open'[m] = open[m]
<1> DEFINE c == BodyThen(Innermost.test)
<1>1. Innermost.kind = "while" /\ CloseBlock(c, Innermost.exits)
  BY DEF EndWhile, EndOf, BodyThen
<1>2. Innermost.test \in Nat
  BY ReadyTypes
<1>3. c \in Seq(Instruction) /\ Grew(code, open, c, {"drop", "goto"})
  BY <1>2, GotoGrows
<1> HIDE DEF c
<1>4. /\ Grew(code, open, code', {"drop", "goto"}) /\ Goes(code, open, code', open')
      /\ DOMAIN open' = 1..Len(open) - 1 /\ \A m \in 1..Len(open) - 1 : open'[m] = open[m]
  BY <1>1, <1>3, CloseGrows
<1>5. {"drop", "goto"} \subseteq Ops \ Marks
  BY DEF Ops, Marks, ForKinds
<1>6. ASSUME NEW m \in DOMAIN open, open[m].kind \in ForKinds PROVE m \in 1..Len(open) - 1
  BY <1>1, <1>6, ReadyTypes DEF ForKinds
<1>7. Grew(code, open, code', Ops \ Marks)
  BY <1>4, <1>5, GrewMore
<1>8. QED BY <1>4, <1>6, <1>7

\* The end of an if with an else behind it.
LEMMA EndIfElseGrows ==
  ASSUME Ready, EndIfElse
  PROVE  /\ Grew(code, open, code', Ops \ Marks) /\ Goes(code, open, code', open')
         /\ \A m \in DOMAIN open : open[m].kind \in ForKinds => m \in DOMAIN open' /\ open'[m] = open[m]
<1> DEFINE c == BodyThen(0)
           d == Patch(c, Innermost.exits, Len(c) + 1)
<1>1. Innermost.kind = "if" /\ NextBlock(d, "else", {Len(c)}, 0)
  BY DEF EndIfElse, EndOf, BodyThen
<1>2. /\ c \in Seq(Instruction) /\ Grew(code, open, c, {"drop", "goto"})
      /\ Len(c) = Len(Body) + 1 /\ c[Len(c)].to = 0 /\ Len(Body) \in Nat
      /\ Len(code) <= Len(Body) /\ Len(code) \in Nat
  BY GotoGrows
<1>3. /\ Innermost = open[Len(open)] /\ Len(open) \in DOMAIN open
  BY ReadyTypes DEF Ready
<1>4. \A i \in Innermost.exits : i \in 1..Len(code)
  BY <1>3, NotedTypes
<1> HIDE DEF c
<1>5. /\ Len(d) = Len(c) /\ d[Len(c)].to = 0 /\ Grew(code, open, d, {"drop", "goto"})
  <2>1. Innermost.exits \subseteq Loose(open[Len(open)])
    BY <1>3 DEF Loose
  <2>2. Grew(code, open, d, {"drop", "goto"})
    BY <1>2, <2>1, ReadyTypes, GrewPatch
  <2>3. Len(c) \notin Innermost.exits /\ Len(c) \in 1..Len(c)
    BY <1>2, <1>4
  <2>4. QED BY <1>2, <2>2, <2>3, PatchFacts
<1> HIDE DEF d
<1>6. code' = d /\ open' = Renewed(open, "else", Len(d), {Len(c)}, 0)
  BY <1>1, <1>3 DEF NextBlock, Renewed
<1>7. /\ "else" \in Kinds /\ Len(d) \in Nat /\ {Len(c)} \in SUBSET Nat /\ 0 \in Nat
      /\ ExitsOf(d, {Len(c)})
  BY <1>2, <1>5 DEF Kinds, ExitsOf
<1>8. /\ Goes(code, open, d, open') /\ DOMAIN open' = DOMAIN open
      /\ \A m \in DOMAIN open : m # Len(open) => open'[m] = open[m]
  BY <1>1, <1>6, <1>7, GoesRenewed
<1>9. {"drop", "goto"} \subseteq Ops \ Marks
  BY DEF Ops, Marks, ForKinds
<1>10. Grew(code, open, d, Ops \ Marks)
  BY <1>5, <1>9, GrewMore
<1>11. ASSUME NEW m \in DOMAIN open, open[m].kind \in ForKinds PROVE m # Len(open)
  BY <1>1, <1>3, <1>11 DEF ForKinds
<1>12. QED BY <1>6, <1>8, <1>10, <1>11

\* A for loop has got its increment, to which its continues lead, and its jump back.
LoopDone(c, o, d) ==
  LET b == o[Len(o)] IN
  /\ b.kind \in ForKinds /\ Len(d) > Len(c) + 1
  /\ d[Len(d) - 1].op = "inc" /\ d[Len(d) - 1].v = b.of
  /\ d[Len(d)].op = "goto" /\ d[Len(d)].to = b.test
  /\ \A i \in Len(c) + 1..Len(d) - 2 : d[i].op = "drop"
  /\ \A i \in 1..Len(c) : \/ d[i].to = c[i].to
                          \/ i \in b.exits /\ d[i].to = Len(d) + 1
                          \/ i \in b.next
  /\ \A i \in 1..Len(c) : i \in b.next => d[i].to \in {Len(d) - 1, Len(d) + 1}

\* The end of a for loop.
LEMMA EndForGrows ==
  ASSUME Ready, EndFor
  PROVE  /\ Grew(code, open, code', {"drop", "inc", "goto"}) /\ Goes(code, open, code', open')
         /\ LoopDone(code, open, code')
         /\ DOMAIN open' = 1..Len(open) - 1 /\ \A m \in 1..Len(open) - 1 : open'[m] = open[m]
<1> DEFINE x == Instr("inc", Innermost.of, Block, 0)
           y == Instr("goto", 0, Block, Innermost.test)
           b == Patch(Body, Innermost.next, Len(Body) + 1)
           c == Append(b, x)
           d == Append(c, y)
           K == {"drop", "inc", "goto"}
<1>1. /\ Innermost.kind \in {"range", "range_inclusive", "array"}
      /\ CloseBlock(b \o <<x, y>>, Innermost.exits)
  BY DEF EndFor, EndOf
<1>2. /\ Innermost = open[Len(open)] /\ Len(open) \in DOMAIN open
      /\ Innermost.test \in Nat /\ Innermost.of \in Nat /\ Len(code) \in Nat
  BY ReadyTypes DEF Ready
<1>3. Innermost.test # 0
  <2>1. Innermost.kind \in Loops
    BY <1>1 DEF Loops
  <2>2. QED BY <1>2, <2>1 DEF Ready, Emitted, Geometry
<1>4. \A i \in Innermost.exits \cup Innermost.next : i \in 1..Len(code)
  BY <1>2, NotedTypes
<1>5. /\ Body \in Seq(Instruction) /\ Block \in Nat /\ Len(Body) \in Nat /\ Len(code) <= Len(Body)
      /\ Grew(code, open, Body, {"drop"})
  BY BodyReady, GrewBody
<1>6. /\ x \in Instruction /\ x.op = "inc" /\ x.v = Innermost.of /\ x.to = 0
      /\ y \in Instruction /\ y.op = "goto" /\ y.to = Innermost.test
  <2>a. "inc" \in Ops /\ "goto" \in Ops
    BY DEF Ops
  <2>1. /\ "inc" \in Ops /\ "goto" \in Ops /\ 0 \in Nat /\ Block \in Nat
        /\ Innermost.of \in Nat /\ Innermost.test \in Nat
    BY <1>2, <1>5, <2>a
  <2>2. x \in Instruction /\ x.op = "inc" /\ x.v = Innermost.of /\ x.to = 0
    BY <2>1, InstrFacts
  <2>3. y \in Instruction /\ y.op = "goto" /\ y.to = Innermost.test
    BY <2>1, InstrFacts
  <2>4. QED BY <2>2, <2>3
<1>7. /\ b \in Seq(Instruction) /\ Len(b) = Len(Body)
      /\ \A i \in 1..Len(Body) : /\ b[i].op = Body[i].op
                                 /\ b[i].to = IF i \in Innermost.next THEN Len(Body) + 1 ELSE Body[i].to
  BY <1>5, PatchFacts
<1>8. Grew(code, open, b, K)
  <2>1. Innermost.next \subseteq Loose(open[Len(open)])
    BY <1>2 DEF Loose
  <2>2. Grew(code, open, Body, K)
    BY <1>5, GrewMore
  <2>3. QED BY <1>5, <2>1, <2>2, ReadyTypes, GrewPatch
<1>9. b \o <<x, y>> = d
  BY <1>6, <1>7
<1>10. x.op \in K /\ y.op \in K
  BY <1>6
<1> HIDE DEF x, y, b, K
<1>11. /\ c \in Seq(Instruction) /\ Len(c) = Len(b) + 1 /\ c[Len(b) + 1] = x
       /\ \A i \in 1..Len(b) : c[i] = b[i]
       /\ Grew(code, open, c, K)
  BY <1>6, <1>7, <1>8, <1>10, ReadyTypes, AppendFacts, GrewAppend
<1> HIDE DEF c
<1>12. /\ d \in Seq(Instruction) /\ Len(d) = Len(c) + 1 /\ d[Len(c) + 1] = y
       /\ \A i \in 1..Len(c) : d[i] = c[i]
  BY <1>6, <1>11, AppendFacts
<1>13. Grew(code, open, d, K)
  BY <1>2, <1>3, <1>6, <1>10, <1>11, ReadyTypes, GrewAppend DEF JumpsBack
<1> HIDE DEF d
<1>14. CloseBlock(d, Innermost.exits)
  BY <1>1, <1>9
<1>15. /\ Grew(code, open, code', K) /\ Goes(code, open, code', open')
       /\ DOMAIN open' = 1..Len(open) - 1 /\ \A m \in 1..Len(open) - 1 : open'[m] = open[m]
       /\ Len(code') = Len(d)
       /\ \A i \in 1..Len(d) : /\ code'[i].op = d[i].op /\ code'[i].v = d[i].v
                               /\ code'[i].to = IF i \in Innermost.exits THEN Len(d) + 1 ELSE d[i].to
  BY <1>12, <1>13, <1>14, CloseGrows
<1>16. /\ Len(d) = Len(Body) + 2 /\ d[Len(Body) + 2] = y /\ d[Len(Body) + 1] = x
       /\ \A i \in 1..Len(Body) : d[i] = b[i]
  <2>1. \A i \in 1..Len(b) : i \in 1..Len(c)
    BY <1>5, <1>7, <1>11
  <2>2. QED BY <1>5, <1>7, <1>11, <1>12, <2>1
<1>17. LoopDone(code, open, code')
  <2>1. open[Len(open)].kind \in ForKinds /\ Len(code') > Len(code) + 1
        /\ Len(code') = Len(Body) + 2
    BY <1>1, <1>2, <1>5, <1>15, <1>16 DEF ForKinds
  <2>2. Len(code') - 1 \in 1..Len(d) /\ Len(code') - 1 = Len(Body) + 1
    BY <1>5, <1>15, <1>16, <2>1
  <2>3. code'[Len(code') - 1].op = "inc" /\ code'[Len(code') - 1].v = open[Len(open)].of
    BY <1>2, <1>6, <1>15, <1>16, <2>2
  <2>4. Len(code') \in 1..Len(d) /\ Len(code') \notin Innermost.exits /\ Len(code') = Len(Body) + 2
    BY <1>4, <1>5, <1>2, <1>15, <1>16, <2>1
  <2>5. code'[Len(code')].op = "goto" /\ code'[Len(code')].to = open[Len(open)].test
    BY <1>2, <1>6, <1>15, <1>16, <2>4
  <2>6. ASSUME NEW i \in Len(code) + 1..Len(code') - 2 PROVE code'[i].op = "drop"
    <3>1. i \in Len(code) + 1..Len(Body) /\ i \in 1..Len(Body) /\ i \in 1..Len(d)
      BY <1>2, <1>5, <1>15, <1>16
    <3>2. Body[i].op = "drop"
      BY <1>5, <3>1 DEF Grew
    <3>3. QED BY <1>7, <1>15, <1>16, <3>1, <3>2
  <2>7. ASSUME NEW i \in 1..Len(code)
        PROVE  /\ \/ code'[i].to = code[i].to
                  \/ i \in open[Len(open)].exits /\ code'[i].to = Len(code') + 1
                  \/ i \in open[Len(open)].next
               /\ i \in open[Len(open)].next => code'[i].to \in {Len(code') - 1, Len(code') + 1}
    <3>1. i \in 1..Len(Body) /\ i \in 1..Len(d)
      BY <1>2, <1>5, <1>16
    <3>2. code'[i].to = IF i \in Innermost.exits THEN Len(code') + 1 ELSE b[i].to
      BY <1>15, <1>16, <3>1
    <3>3. b[i].to = IF i \in Innermost.next THEN Len(Body) + 1 ELSE Body[i].to
      BY <1>7, <3>1
    <3>4. Body[i].to = code[i].to
      BY BodyFacts
    <3>5. Len(code') = Len(Body) + 2 /\ Len(Body) \in Nat
      BY <1>5, <1>15, <1>16
    <3>6. QED BY <1>2, <3>2, <3>3, <3>4, <3>5
  <2>8. QED BY <2>1, <2>3, <2>5, <2>6, <2>7 DEF LoopDone
<1>18. QED BY <1>15, <1>17 DEF K

\* A try has got another arm; the first is where the setjmp leads.
NewArm(c, o, d, q) ==
  LET b == o[Len(o)] IN
  /\ b.kind \in {"try", "arm"} /\ Len(d) > Len(c)
  /\ d[Len(d)].op = "arm" /\ d[Len(d)].v = b.of
  /\ \A i \in Len(c) + 1..Len(d) - 1 : d[i].op \in {"drop", "goto"}
  /\ \A i \in Len(c) + 1..Len(d) : d[i].to = 0
  /\ \A i \in 1..Len(c) : d[i].to = c[i].to \/ (b.kind = "try" /\ i = b.of)
  /\ b.kind = "try" => /\ d[b.of].to = Len(d) /\ Len(d) > Len(c) + 1
                       /\ d[Len(d) - 1].op = "goto"
  /\ Len(q) = Len(o) /\ DOMAIN q = DOMAIN o /\ \A m \in DOMAIN o : m # Len(o) => q[m] = o[m]
  /\ q[Len(o)].kind = "arm" /\ q[Len(o)].of = b.of

\* A try has got its finally block, where the jumps out of its body and arms lead.
NewFinally(c, o, d, q) ==
  LET b == o[Len(o)] IN
  /\ b.kind \in {"try", "arm"} /\ Len(d) > Len(c)
  /\ d[Len(d)].op = "finally" /\ d[Len(d)].v = b.of
  /\ \A i \in Len(c) + 1..Len(d) - 1 : d[i].op \in {"drop", "goto"}
  /\ \A i \in 1..Len(d) : d[i].to <= Len(d)
  /\ b.kind = "try" => d[b.of].to = Len(d)
  /\ Len(q) = Len(o) /\ DOMAIN q = DOMAIN o /\ \A m \in DOMAIN o : m # Len(o) => q[m] = o[m]
  /\ q[Len(o)].kind = "finally" /\ q[Len(o)].of = b.of

\* A try has neither.
TryDone(c, o, d, q) ==
  /\ o[Len(o)].kind \in {"try", "arm"}
  /\ \A i \in Len(c) + 1..Len(d) : d[i].op \in {"drop", "goto"}
  /\ DOMAIN q = 1..Len(o) - 1 /\ \A m \in 1..Len(o) - 1 : q[m] = o[m]

\* The code behind which a try goes on: that of an arm, or the try body with a jump and
\* the setjmp leading behind it.
TryCode(c, o, d, exits) ==
  LET b == o[Len(o)] IN
  /\ d \in Seq(Instruction) /\ Grew(c, o, d, {"drop", "goto"}) /\ b.kind \in {"try", "arm"}
  /\ \A i \in exits : /\ i \in Nat
                      /\ \/ i \in b.exits /\ d[i].to = c[i].to /\ i \in 1..Len(c)
                         \/ i \in Len(c) + 1..Len(d) /\ d[i].to = 0 /\ b.kind = "try"
  /\ \A i \in 1..Len(d) : d[i].to <= Len(d) + 1
  /\ \A i \in Len(c) + 1..Len(d) : d[i].to = 0
  /\ \A i \in 1..Len(c) : d[i].to = c[i].to \/ (b.kind = "try" /\ i = b.of)
  /\ b.kind = "try" => /\ d[b.of].to = Len(d) + 1 /\ Len(d) > Len(c) /\ d[Len(d)].op = "goto"
                       /\ b.of \notin exits /\ b.of \in 1..Len(c)

\* What EndTry and EndArm make of the code before the statement goes on.
LEMMA TryGoesOn ==
  ASSUME Ready, EndTry \/ EndArm
  PROVE  \E c, exits : TryCode(code, open, c, exits) /\ AfterTry(c, exits)
<1>1. /\ Innermost = open[Len(open)] /\ Len(open) \in DOMAIN open /\ code \in Seq(Instruction)
      /\ Len(code) \in Nat
  BY ReadyTypes DEF Ready
<1>2. \A i \in 1..Len(Body) : Body[i].to <= Len(Body) + 1
  <2>1. Targets(Body) /\ Body \in Seq(Instruction)
    BY BodyReady DEF Emitted, Nested
  <2>2. QED BY <2>1 DEF Targets
<1>3. CASE EndArm
  <2>1. Innermost.kind = "arm" /\ AfterTry(Body, Innermost.exits)
    BY <1>3 DEF EndArm, EndOf
  <2>2. Grew(code, open, Body, {"drop", "goto"})
    BY GrewBody, GrewMore
  <2>3. \A i \in Innermost.exits : i \in 1..Len(code)
    BY <1>1, NotedTypes
  <2>4. TryCode(code, open, Body, Innermost.exits)
    BY <1>1, <1>2, <2>1, <2>2, <2>3, BodyFacts DEF TryCode
  <2>5. QED BY <2>1, <2>4
<1>4. CASE EndTry
  <2> DEFINE c == BodyThen(0)
             d == Patch(c, {Innermost.of}, Len(c) + 1)
             of == Innermost.of
  <2>1. Innermost.kind = "try" /\ AfterTry(d, {Len(c)})
    BY <1>4 DEF EndTry, EndOf, BodyThen
  <2>2. /\ c \in Seq(Instruction) /\ Grew(code, open, c, {"drop", "goto"})
        /\ Len(c) = Len(Body) + 1 /\ c[Len(c)].to = 0 /\ c[Len(c)].op = "goto"
        /\ Len(Body) \in Nat /\ Len(code) <= Len(Body) /\ \A i \in 1..Len(Body) : c[i] = Body[i]
    BY GotoGrows
  <2>3. of \in 1..Len(code)
    BY <1>1, <2>1, ReadyTypes DEF Ready, Emitted, Geometry
  <2> HIDE DEF c, of
  <2>4. /\ d \in Seq(Instruction) /\ Len(d) = Len(c)
        /\ \A i \in 1..Len(c) : /\ d[i].op = c[i].op
                                /\ d[i].to = IF i \in {of} THEN Len(c) + 1 ELSE c[i].to
    BY <2>2, PatchFacts DEF of
  <2>5. Grew(code, open, d, {"drop", "goto"})
    <3>1. {Innermost.of} \subseteq Loose(open[Len(open)])
      BY <1>1, <2>1 DEF Loose
    <3>2. QED BY <1>1, <2>2, <3>1, GrewPatch
  <2> HIDE DEF d
  <2>6. \A i \in 1..Len(d) : d[i].to <= Len(d) + 1
    <3> SUFFICES ASSUME NEW i \in 1..Len(d) PROVE d[i].to <= Len(d) + 1
      OBVIOUS
    <3>1. CASE i = of
      BY <2>2, <2>4, <3>1
    <3>2. CASE i # of /\ i = Len(c)
      BY <2>2, <2>4, <3>2
    <3>3. CASE i # of /\ i # Len(c)
      <4>1. i \in 1..Len(Body) /\ d[i].to = Body[i].to
        BY <2>2, <2>4, <3>3
      <4>2. Body[i].to <= Len(Body) + 1 /\ Body[i].to \in Nat
        <5>1. Body[i] \in Instruction
          BY <4>1, BodyFacts
        <5>2. QED BY <1>2, <4>1, <5>1 DEF Instruction
      <4>3. QED BY <2>2, <2>4, <4>1, <4>2
    <3>4. QED BY <3>1, <3>2, <3>3
  <2>7. \A i \in Len(code) + 1..Len(d) : d[i].to = 0
    <3> SUFFICES ASSUME NEW i \in Len(code) + 1..Len(d) PROVE d[i].to = 0
      OBVIOUS
    <3>1. d[i].to = c[i].to
      BY <1>1, <2>2, <2>3, <2>4
    <3>2. CASE i = Len(c)
      BY <2>2, <3>1, <3>2
    <3>3. CASE i # Len(c)
      <4>1. i \in Len(code) + 1..Len(Body) /\ i \in 1..Len(Body)
        BY <1>1, <2>2, <2>4, <3>3
      <4>2. QED BY <2>2, <3>1, <4>1, BodyFacts
    <3>4. QED BY <3>2, <3>3
  <2>8. \A i \in 1..Len(code) : d[i].to = code[i].to \/ i = of
    <3> SUFFICES ASSUME NEW i \in 1..Len(code), i # of PROVE d[i].to = code[i].to
      OBVIOUS
    <3>1. i \in 1..Len(Body) /\ i \in 1..Len(c)
      BY <1>1, <2>2
    <3>2. QED BY <2>2, <2>4, <3>1, BodyFacts
  <2>9. d[of].to = Len(d) + 1 /\ Len(d) > Len(code) /\ d[Len(d)].op = "goto"
    BY <1>1, <2>2, <2>3, <2>4
  <2>10. Len(c) \in Len(code) + 1..Len(d) /\ Len(c) \in Nat /\ of # Len(c)
    BY <1>1, <2>2, <2>3, <2>4
  <2>11. TryCode(code, open, d, {Len(c)})
    BY <1>1, <2>1, <2>3, <2>4, <2>5, <2>6, <2>7, <2>8, <2>9, <2>10 DEF TryCode, of
  <2>12. QED BY <2>1, <2>11
<1>5. QED BY <1>3, <1>4

\* The end of the body or an arm of a try.
LEMMA TryGrows ==
  ASSUME Ready, EndTry \/ EndArm
  PROVE  /\ Grew(code, open, code', {"drop", "goto", "arm", "finally"})
         /\ Goes(code, open, code', open') /\ code' \in Seq(Instruction)
         /\ \/ NewArm(code, open, code', open')
            \/ NewFinally(code, open, code', open')
            \/ TryDone(code, open, code', open')
<1> DEFINE K == {"drop", "goto", "arm", "finally"}
           of == Innermost.of
<1>1. /\ Innermost = open[Len(open)] /\ Len(open) \in DOMAIN open /\ code \in Seq(Instruction)
      /\ Len(code) \in Nat /\ of \in Nat /\ Block \in Nat /\ Innermost.arm \in Nat
      /\ open \in Seq(BlockInProgress)
  BY ReadyTypes DEF Ready, BlockInProgress
<1>2. PICK c, exits : TryCode(code, open, c, exits) /\ AfterTry(c, exits)
  BY TryGoesOn
<1>3. /\ c \in Seq(Instruction) /\ Grew(code, open, c, {"drop", "goto"})
      /\ Innermost.kind \in {"try", "arm"} /\ of = open[Len(open)].of
  BY <1>1, <1>2 DEF TryCode
<1>4. /\ Len(c) \in Nat /\ Len(code) <= Len(c) /\ Grew(code, open, c, K)
      /\ \A i \in Len(code) + 1..Len(c) : c[i].op \in {"drop", "goto"}
      /\ \A i \in 1..Len(c) : c[i] \in Instruction
  <2>1. Grew(code, open, c, K)
    BY <1>3, GrewMore
  <2>2. QED BY <1>3, <2>1 DEF Grew
<1>5. exits \in SUBSET Nat /\ \A i \in exits : i \in 1..Len(code) => i \in Loose(open[Len(open)])
  BY <1>1, <1>2, <1>4 DEF TryCode, Loose
<1>6. CASE CatchArm(c, exits)
  <2> DEFINE x == Instr("arm", of, Block, 0)
             d == Append(c, x)
  <2>1. NextBlock(d, "arm", exits, Innermost.arm + 1)
    BY <1>6 DEF CatchArm
  <2>2. /\ "arm" \in Ops /\ "arm" \in Kinds /\ 0 \in Nat /\ Innermost.arm + 1 \in Nat
        /\ of \in Nat /\ Block \in Nat
    BY <1>1 DEF Ops, Kinds
  <2>3. x \in Instruction /\ x.op = "arm" /\ x.v = of /\ x.to = 0
    BY <2>2, InstrFacts
  <2> HIDE DEF x
  <2>4. /\ d \in Seq(Instruction) /\ Len(d) = Len(c) + 1 /\ d[Len(c) + 1] = x
        /\ \A i \in 1..Len(c) : d[i] = c[i]
    BY <1>3, <2>3, AppendFacts
  <2>5. Grew(code, open, d, K)
    <3>1. x.op \in K
      BY <2>3
    <3>2. QED BY <1>1, <1>3, <1>4, <2>3, <3>1, GrewAppend
  <2> HIDE DEF d
  <2>6. code' = d /\ open' = Renewed(open, "arm", Len(d), exits, Innermost.arm + 1)
    BY <2>1, <1>1 DEF NextBlock, Renewed
  <2>7. \A i \in exits : \/ i \in Innermost.exits /\ d[i].to = code[i].to
                         \/ i \in Len(code) + 1..Len(d) /\ d[i].to = 0
    <3> SUFFICES ASSUME NEW i \in exits
                 PROVE \/ i \in Innermost.exits /\ d[i].to = code[i].to
                       \/ i \in Len(code) + 1..Len(d) /\ d[i].to = 0
      OBVIOUS
    <3>1. \/ i \in Innermost.exits /\ c[i].to = code[i].to /\ i \in 1..Len(code)
          \/ i \in Len(code) + 1..Len(c) /\ c[i].to = 0
      BY <1>1, <1>2 DEF TryCode
    <3>2. i \in 1..Len(c)
      BY <1>1, <1>4, <3>1
    <3>3. QED BY <1>1, <1>4, <2>4, <3>1, <3>2
  <2>8. Len(d) \in Nat
    BY <1>4, <2>4
  <2> DEFINE arm == Innermost.arm + 1
             id == Len(d)
  <2>a. open' = Renewed(open, "arm", id, exits, arm) /\ id \in Nat /\ arm \in Nat
    BY <2>6, <2>8, <2>2
  <2> HIDE DEF arm, id
  <2>9. /\ Goes(code, open, d, open') /\ Len(open') = Len(open) /\ DOMAIN open' = DOMAIN open
        /\ \A m \in DOMAIN open : m # Len(open) => open'[m] = open[m]
        /\ open'[Len(open)].kind = "arm" /\ open'[Len(open)].of = Innermost.of
    <3>1. /\ "arm" \in Kinds /\ id \in Nat /\ exits \in SUBSET Nat /\ arm \in Nat
          /\ Innermost.kind \in {"try", "arm"} /\ "arm" \in {"arm", "finally"}
      BY <1>3, <1>5, <2>2, <2>a
    <3>2. ExitsOf(d, exits)
      BY <2>7 DEF ExitsOf
    <3>3. QED BY <2>a, <3>1, <3>2, GoesRenewed
  <2>10. \A i \in Len(code) + 1..Len(d) - 1 : i \in 1..Len(c) /\ i \in Len(code) + 1..Len(c)
    BY <1>1, <1>4, <2>4
  <2>11. \A i \in Len(code) + 1..Len(d) - 1 : d[i].op \in {"drop", "goto"}
    BY <1>4, <2>4, <2>10
  <2>12. \A i \in Len(code) + 1..Len(d) : d[i].to = 0
    <3> SUFFICES ASSUME NEW i \in Len(code) + 1..Len(d) PROVE d[i].to = 0
      OBVIOUS
    <3>1. CASE i = Len(c) + 1
      BY <2>3, <2>4, <3>1
    <3>2. CASE i # Len(c) + 1
      <4>1. i \in Len(code) + 1..Len(c) /\ i \in 1..Len(c)
        BY <1>1, <1>4, <2>4, <3>2
      <4>2. QED BY <1>2, <2>4, <4>1 DEF TryCode
    <3>3. QED BY <3>1, <3>2
  <2>13. \A i \in 1..Len(code) : d[i].to = code[i].to \/ (open[Len(open)].kind = "try" /\ i = of)
    <3> SUFFICES ASSUME NEW i \in 1..Len(code)
                 PROVE  d[i].to = code[i].to \/ (open[Len(open)].kind = "try" /\ i = of)
      OBVIOUS
    <3>1. i \in 1..Len(c) /\ d[i] = c[i]
      BY <1>1, <1>4, <2>4
    <3>2. QED BY <1>1, <1>2, <3>1 DEF TryCode
  <2>14. open[Len(open)].kind = "try" => /\ d[of].to = Len(d) /\ Len(d) > Len(code) + 1
                                         /\ d[Len(d) - 1].op = "goto"
    <3> SUFFICES ASSUME open[Len(open)].kind = "try"
                 PROVE  d[of].to = Len(d) /\ Len(d) > Len(code) + 1 /\ d[Len(d) - 1].op = "goto"
      OBVIOUS
    <3>1. c[of].to = Len(c) + 1 /\ Len(c) > Len(code) /\ c[Len(c)].op = "goto" /\ of \in 1..Len(code)
      BY <1>1, <1>2 DEF TryCode
    <3>2. of \in 1..Len(c) /\ Len(c) \in 1..Len(c) /\ Len(d) - 1 = Len(c)
      BY <1>1, <1>4, <2>4, <3>1
    <3>3. QED BY <1>1, <1>4, <2>4, <3>1, <3>2
  <2>15. d[Len(d)].op = "arm" /\ d[Len(d)].v = of /\ Len(d) > Len(code)
    BY <1>1, <1>4, <2>3, <2>4
  <2>16. NewArm(code, open, d, open')
    BY <1>1, <1>3, <2>9, <2>11, <2>12, <2>13, <2>14, <2>15 DEF NewArm
  <2>17. QED BY <2>4, <2>5, <2>6, <2>9, <2>16
<1>7. CASE Finally(c, exits)
  <2> DEFINE x == Instr("finally", of, Block, 0)
             p == Patch(c, exits, Len(c) + 1)
             d == Append(p, x)
  <2>1. NextBlock(d, "finally", {}, 0)
    BY <1>7 DEF Finally
  <2>2. /\ "finally" \in Ops /\ "finally" \in Kinds /\ 0 \in Nat
        /\ of \in Nat /\ Block \in Nat
    BY <1>1 DEF Ops, Kinds
  <2>3. x \in Instruction /\ x.op = "finally" /\ x.v = of /\ x.to = 0
    BY <2>2, InstrFacts
  <2>4. /\ p \in Seq(Instruction) /\ Len(p) = Len(c)
        /\ \A i \in 1..Len(c) : /\ p[i].op = c[i].op
                                /\ p[i].to = IF i \in exits THEN Len(c) + 1 ELSE c[i].to
    BY <1>3, PatchFacts
  <2>5. Grew(code, open, p, K)
    BY <1>1, <1>3, <1>4, <1>5, GrewPatch
  <2> HIDE DEF x, p
  <2>6. /\ d \in Seq(Instruction) /\ Len(d) = Len(p) + 1 /\ d[Len(p) + 1] = x
        /\ \A i \in 1..Len(p) : d[i] = p[i]
    BY <2>3, <2>4, AppendFacts
  <2>7. Grew(code, open, d, K)
    <3>1. x.op \in K
      BY <2>3
    <3>2. QED BY <1>1, <2>4, <2>5, <2>3, <3>1, GrewAppend
  <2> HIDE DEF d
  <2> DEFINE id == Len(d)
  <2>8. code' = d /\ open' = Renewed(open, "finally", id, {}, 0) /\ id \in Nat
    BY <2>1, <1>1, <2>6 DEF NextBlock, Renewed
  <2> HIDE DEF id
  <2>9. /\ Goes(code, open, d, open') /\ Len(open') = Len(open) /\ DOMAIN open' = DOMAIN open
        /\ \A m \in DOMAIN open : m # Len(open) => open'[m] = open[m]
        /\ open'[Len(open)].kind = "finally" /\ open'[Len(open)].of = Innermost.of
    <3> DEFINE none == {}
    <3>1. none \in SUBSET Nat /\ ExitsOf(d, none)
      BY DEF ExitsOf
    <3>2. open' = Renewed(open, "finally", id, none, 0)
      BY <2>8
    <3> HIDE DEF none
    <3>3. /\ "finally" \in Kinds /\ id \in Nat /\ none \in SUBSET Nat /\ 0 \in Nat
          /\ Innermost.kind \in {"try", "arm"} /\ "finally" \in {"arm", "finally"}
      BY <1>3, <2>2, <2>8, <3>1
    <3>4. QED BY <3>1, <3>2, <3>3, GoesRenewed
  <2>10. \A i \in Len(code) + 1..Len(d) - 1 : i \in 1..Len(c) /\ i \in Len(code) + 1..Len(c)
    BY <1>1, <1>4, <2>4, <2>6
  <2>11. \A i \in Len(code) + 1..Len(d) - 1 : d[i].op \in {"drop", "goto"}
    BY <1>4, <2>4, <2>6, <2>10
  <2>12. \A i \in 1..Len(d) : d[i].to <= Len(d)
    <3> SUFFICES ASSUME NEW i \in 1..Len(d) PROVE d[i].to <= Len(d)
      OBVIOUS
    <3>1. CASE i = Len(c) + 1
      BY <1>4, <2>3, <2>4, <2>6, <3>1
    <3>2. CASE i # Len(c) + 1
      <4>1. i \in 1..Len(c)
        BY <1>4, <2>4, <2>6, <3>2
      <4>2. c[i].to <= Len(c) + 1
        BY <1>2, <4>1 DEF TryCode
      <4>3. QED BY <1>4, <2>4, <2>6, <4>1, <4>2
    <3>3. QED BY <3>1, <3>2
  <2>13. open[Len(open)].kind = "try" => d[of].to = Len(d)
    <3> SUFFICES ASSUME open[Len(open)].kind = "try" PROVE d[of].to = Len(d)
      OBVIOUS
    <3>1. c[of].to = Len(c) + 1 /\ of \in 1..Len(code) /\ of \notin exits
      BY <1>1, <1>2 DEF TryCode
    <3>2. of \in 1..Len(c)
      BY <1>1, <1>4, <3>1
    <3>3. QED BY <1>4, <2>4, <2>6, <3>1, <3>2
  <2>14. d[Len(d)].op = "finally" /\ d[Len(d)].v = of /\ Len(d) > Len(code)
    BY <1>1, <1>4, <2>3, <2>4, <2>6
  <2>15. NewFinally(code, open, d, open')
    BY <1>1, <1>3, <2>9, <2>11, <2>12, <2>13, <2>14 DEF NewFinally
  <2>16. QED BY <2>6, <2>7, <2>8, <2>9, <2>15
<1>8. CASE CloseBlock(c, exits)
  <2> DEFINE d == Patch(c, exits, Len(c) + 1)
  <2>1. code' = d /\ open' = Front(open)
    BY <1>8 DEF CloseBlock
  <2>2. Grew(code, open, d, K)
    BY <1>1, <1>3, <1>4, <1>5, GrewPatch
  <2>3. /\ d \in Seq(Instruction) /\ Len(d) = Len(c) /\ \A i \in 1..Len(c) : d[i].op = c[i].op
    BY <1>3, PatchFacts
  <2> HIDE DEF d
  <2>4. /\ Goes(code, open, d, open')
        /\ DOMAIN open' = 1..Len(open) - 1 /\ \A m \in 1..Len(open) - 1 : open'[m] = open[m]
    BY <2>1, GoesClosed
  <2>5. \A i \in Len(code) + 1..Len(d) : d[i].op \in {"drop", "goto"}
    <3>1. \A i \in Len(code) + 1..Len(d) : i \in 1..Len(c)
      BY <1>1, <1>4, <2>3
    <3>2. QED BY <1>4, <2>3, <3>1
  <2>6. TryDone(code, open, d, open')
    BY <1>1, <1>3, <2>4, <2>5 DEF TryDone
  <2>7. QED BY <2>1, <2>2, <2>3, <2>4, <2>6
<1>9. QED BY <1>2, <1>6, <1>7, <1>8 DEF AfterTry

\* The end of the function.
LEMMA EndFunctionGrows ==
  ASSUME Ready, EndFunction
  PROVE  Grew(code, open, code', {"drop", "return"}) /\ code' \in Seq(Instruction)
<1> DEFINE x == Instr("return", 0, 0, 0)
           K == {"drop", "return"}
<1>1. "return" \in Ops /\ 0 \in Nat
  BY DEF Ops
<1>2. x \in Instruction /\ x.op = "return" /\ x.to = 0
  BY <1>1, InstrFacts
<1>3. Body \in Seq(Instruction) /\ Grew(code, open, Body, {"drop"}) /\ code \in Seq(Instruction)
  BY BodyReady, GrewBody, ReadyTypes
<1>4. Grew(code, open, Body, K)
  BY <1>3, GrewMore
<1>5. x.op \in K
  BY <1>2
<1> HIDE DEF x, K
<1>6. Grew(code, open, Append(Body, x), K) /\ Append(Body, x) \in Seq(Instruction)
  BY <1>2, <1>3, <1>4, <1>5, GrewAppend
<1>7. code' = Append(Body, x)
  BY DEF EndFunction, x
<1>8. QED BY <1>6, <1>7 DEF K

\* What a step of the emission does to loops and trys.
LEMMA EmitGrows ==
  ASSUME Ready, EmitMore
  PROVE  /\ Grew(code, open, code', Ops) /\ Goes(code, open, code', open')
         /\ \/ Grew(code, open, code', Ops \ {"finally"})
            \/ NewFinally(code, open, code', open')
         /\ \/ Grew(code, open, code', Ops \ {"arm"})
            \/ NewArm(code, open, code', open')
         /\ open[Len(open)].kind \in {"try", "arm"} =>
              \/ /\ Len(open) \in DOMAIN open' /\ open'[Len(open)] = open[Len(open)]
                 /\ \A i \in 1..Len(code) : code'[i] = code[i]
              \/ NewArm(code, open, code', open')
              \/ NewFinally(code, open, code', open')
              \/ Len(open) \notin DOMAIN open'
<1>1. ASSUME NEW K, Grew(code, open, code', K), K \subseteq Ops, "arm" \notin K, "finally" \notin K
      PROVE  /\ Grew(code, open, code', Ops)
             /\ Grew(code, open, code', Ops \ {"finally"})
             /\ Grew(code, open, code', Ops \ {"arm"})
  BY <1>1 DEF Grew
<1>2. /\ Ops \ Marks \subseteq Ops /\ "arm" \notin Ops \ Marks /\ "finally" \notin Ops \ Marks
      /\ {"drop", "inc", "goto"} \subseteq Ops /\ ForKinds \cup {"test"} \subseteq Ops
      /\ {"drop", "goto", "arm", "finally"} \subseteq Ops
  BY DEF Ops, Marks, ForKinds
<1>3. /\ Innermost = open[Len(open)] /\ Len(open) \in DOMAIN open /\ DOMAIN open = 1..Len(open)
      /\ Len(code) \in Nat /\ open \in Seq(BlockInProgress) /\ Len(open) \in Nat
  BY ReadyTypes DEF Ready
<1>4. CASE c_emit_let \/ c_emit_return \/ c_emit_throw \/ c_emit_call
  <2>1. open' = open
    BY <1>4 DEF c_emit_let, c_emit_return, c_emit_throw, c_emit_call
  <2>2. QED BY <1>1, <1>2, <1>3, <1>4, <2>1, StatementGrows
<1>5. CASE c_emit_break \/ c_emit_continue
  <2>1. InnermostOf(Loops) # 0
    BY <1>5 DEF c_emit_break, c_emit_continue
  <2>2. InnermostOf(Loops) \in DOMAIN open /\ open[InnermostOf(Loops)].kind \in Loops
    BY <1>3, <2>1, InnermostFacts
  <2>3. \/ open' = [open EXCEPT ![InnermostOf(Loops)].exits = @ \cup {Here}]
        \/ open' = [open EXCEPT ![InnermostOf(Loops)].next = @ \cup {Here}]
        \/ open' = open
    BY <1>5 DEF c_emit_break, c_emit_continue
  <2>4. open[Len(open)].kind \in {"try", "arm"} =>
          Len(open) \in DOMAIN open' /\ open'[Len(open)] = open[Len(open)]
    BY <1>3, <2>2, <2>3 DEF Loops
  <2>5. QED BY <1>1, <1>2, <1>5, <2>4, LeaveLoopGrows
<1>6. CASE c_emit_defer \/ c_emit_plain_block \/ c_emit_if \/ c_emit_while \/ c_emit_try
  BY <1>1, <1>2, <1>3, <1>6, OpenGrows
<1>7. CASE c_emit_for
  <2>1. "arm" \notin ForKinds \cup {"test"} /\ "finally" \notin ForKinds \cup {"test"}
    BY DEF ForKinds
  <2>2. QED BY <1>1, <1>2, <1>3, <1>7, <2>1, ForGrows
<1>8. CASE EndBlock
  <2>1. open[Len(open)].kind \notin {"try", "arm"}
    BY <1>3, <1>8 DEF EndBlock, EndOf
  <2>2. QED BY <1>1, <1>2, <1>8, <2>1, EndBlockGrows
<1>9. CASE EndIfElse
  <2>1. open[Len(open)].kind \notin {"try", "arm"}
    BY <1>3, <1>9 DEF EndIfElse, EndOf
  <2>2. QED BY <1>1, <1>2, <1>9, <2>1, EndIfElseGrows
<1>10. CASE EndWhile
  <2>1. open[Len(open)].kind \notin {"try", "arm"}
    BY <1>3, <1>10 DEF EndWhile, EndOf
  <2>2. QED BY <1>1, <1>2, <1>10, <2>1, EndWhileGrows
<1>11. CASE EndFor
  <2>1. open[Len(open)].kind \notin {"try", "arm"}
    BY <1>3, <1>11 DEF EndFor, EndOf
  <2>2. QED BY <1>1, <1>2, <1>11, <2>1, EndForGrows
<1>12. CASE EndTry \/ EndArm
  <2> DEFINE K == {"drop", "goto", "arm", "finally"}
  <2>1. /\ Grew(code, open, code', K) /\ Goes(code, open, code', open') /\ code' \in Seq(Instruction)
        /\ \/ NewArm(code, open, code', open')
           \/ NewFinally(code, open, code', open')
           \/ TryDone(code, open, code', open')
    BY <1>12, TryGrows
  <2>2. Grew(code, open, code', Ops)
    BY <1>2, <2>1, GrewMore
  <2>3. Len(code') \in Nat /\ Len(code) <= Len(code')
    BY <2>1 DEF Grew
  <2>4. CASE NewArm(code, open, code', open')
    <3>1. \A i \in Len(code) + 1..Len(code') : code'[i].op \in Ops \ {"finally"}
      <4>1. \A i \in Len(code) + 1..Len(code') : i = Len(code') \/ i \in Len(code) + 1..Len(code') - 1
        BY <1>3, <2>3
      <4>2. QED BY <2>4, <4>1 DEF NewArm, Ops
    <3>2. Grew(code, open, code', Ops \ {"finally"})
      BY <2>2, <3>1 DEF Grew
    <3>3. QED BY <2>1, <2>2, <2>4, <3>2
  <2>5. CASE NewFinally(code, open, code', open')
    <3>1. \A i \in Len(code) + 1..Len(code') : code'[i].op \in Ops \ {"arm"}
      <4>1. \A i \in Len(code) + 1..Len(code') : i = Len(code') \/ i \in Len(code) + 1..Len(code') - 1
        BY <1>3, <2>3
      <4>2. QED BY <2>5, <4>1 DEF NewFinally, Ops
    <3>2. Grew(code, open, code', Ops \ {"arm"})
      BY <2>2, <3>1 DEF Grew
    <3>3. QED BY <2>1, <2>2, <2>5, <3>2
  <2>6. CASE TryDone(code, open, code', open')
    <3>1. Grew(code, open, code', {"drop", "goto"})
      BY <2>1, <2>6 DEF Grew, TryDone
    <3>2. {"drop", "goto"} \subseteq Ops
      BY DEF Ops
    <3>3. Len(open) \notin DOMAIN open'
      BY <1>3, <2>6 DEF TryDone
    <3>4. QED BY <1>1, <2>1, <3>1, <3>2, <3>3
  <2>7. QED BY <2>1, <2>4, <2>5, <2>6
<1>13. QED BY <1>4, <1>5, <1>6, <1>7, <1>8, <1>9, <1>10, <1>11, <1>12 DEF EmitMore

----------------------------------------------------------------------------
(* How finally blocks lie in the code.                                     *)

\* Without break and continue a jump a block has noted leads nowhere before the block ends.
Unpatched(c, o) ==
  NoBreaks => \A k \in DOMAIN o : \A i \in o[k].exits : c[i].to = 0

\* From a try that has a finally block no jump leads past that block.
FinallyKnown(c, f) ==
  /\ c[f].v \in 1..f - 1 /\ c[c[f].v].op = "setjmp"
  /\ c[c[f].v].to \in c[f].v + 1..f
  /\ NoBreaks => \A i \in c[f].v + 1..f : c[i].op \in JumpOps => c[i].to \in c[f].v + 1..f

FinallysKnown(c) == \A f \in DOMAIN c : c[f].op = "finally" => FinallyKnown(c, f)

\* No jump leads from a try in progress to in front of it.
TryKnown(c, b) ==
  /\ NoBreaks /\ b.kind \in {"try", "arm"} =>
       \A i, j \in Nat : Jump(c, i, j) /\ i > b.of => j > b.of
  /\ b.kind = "arm" =>
       b.of \in 1..Len(c) /\ c[b.of].op = "setjmp" /\ c[b.of].to \in b.of + 1..Len(c)

Finals(c, o) ==
  FinallysKnown(c) /\ Unpatched(c, o) /\ \A k \in DOMAIN o : TryKnown(c, o[k])

\* What may be made to lead elsewhere are pending jumps and the setjmp of a try in
\* progress.
LEMMA LooseFacts ==
  ASSUME Ready, NEW i \in Loose(open[Len(open)])
  PROVE  /\ i \in 1..Len(code) /\ i >= open[Len(open)].of
         /\ code[i].op = "setjmp" => code[i].to = 0 /\ i = open[Len(open)].of
         /\ NoBreaks /\ Unpatched(code, open) => code[i].to = 0
<1> DEFINE b == open[Len(open)]
<1>1. Len(open) \in DOMAIN open /\ Geometry(code, open) /\ (NoBreaks => Near(open))
  BY DEF Ready, Emitted, Nested
<1>2. CASE i \in b.exits \cup b.next
  <2>1. i \in 1..Len(code) /\ code[i].op \in PendOps /\ i >= b.of
    BY <1>1, <1>2, NotedTypes
  <2>2. NoBreaks => i \in b.exits
    BY <1>1, <1>2 DEF Near
  <2>3. QED BY <1>1, <2>1, <2>2 DEF PendOps, Unpatched
<1>3. CASE b.kind = "try" /\ i = b.of
  <2>1. b.of \in DOMAIN code /\ code[b.of].to = 0
    BY <1>1, <1>3 DEF Geometry
  <2>2. b.of \in Nat
    BY ReadyTypes
  <2>3. QED BY <1>3, <2>1, <2>2, ReadyTypes
<1>4. QED BY <1>2, <1>3 DEF Loose

\* An instruction in front of the innermost statement leads where it led; without break
\* and continue so does every jump that led somewhere, and every setjmp that did.
LEMMA JumpsStay ==
  ASSUME Ready, NEW K, Grew(code, open, code', K), NEW i \in 1..Len(code)
  PROVE  /\ i < open[Len(open)].of => code'[i].to = code[i].to
         /\ code[i].op = "setjmp" /\ code[i].to # 0 => code'[i].to = code[i].to
         /\ NoBreaks /\ Unpatched(code, open) /\ code[i].to # 0 => code'[i].to = code[i].to
         /\ code'[i].op = code[i].op /\ code'[i].v = code[i].v
         /\ code'[i].to = code[i].to \/ code'[i].to > Len(code)
<1>1. /\ code'[i].op = code[i].op /\ code'[i].v = code[i].v
      /\ code'[i].to = code[i].to \/ (code'[i].to > Len(code) /\ i \in Loose(open[Len(open)]))
  BY DEF Grew
<1>2. open[Len(open)].of \in Nat
  BY ReadyTypes
<1>3. ASSUME i \in Loose(open[Len(open)])
      PROVE  /\ i >= open[Len(open)].of
             /\ code[i].op = "setjmp" => code[i].to = 0
             /\ NoBreaks /\ Unpatched(code, open) => code[i].to = 0
  BY <1>3, LooseFacts
<1>4. QED BY <1>1, <1>2, <1>3

\* A block around the innermost one started in front of it, and what it noted is there.
LEMMA AroundFacts ==
  ASSUME Ready, NEW m \in DOMAIN open, m # Len(open)
  PROVE  /\ open[m].of < open[Len(open)].of /\ open[m].test < open[Len(open)].of
         /\ NoBreaks => \A i \in open[m].exits : i < open[Len(open)].of
<1>1. /\ Geometry(code, open) /\ (NoBreaks => Near(open)) /\ Len(open) \in DOMAIN open
      /\ DOMAIN open = 1..Len(open) /\ Len(open) \in Nat
  BY ReadyTypes DEF Ready, Emitted, Nested
<1>2. m \in 1..Len(open) - 1
  BY <1>1
<1>3. open[m].id < open[Len(open)].of /\ open[m].test < open[Len(open)].of /\ open[m].of <= open[m].id
  BY <1>1, <1>2 DEF Geometry
<1>4. /\ open[m].id \in Nat /\ open[m].of \in Nat /\ open[m].test \in Nat
      /\ open[Len(open)].of \in Nat /\ \A i \in open[m].exits : i \in Nat
  BY NotedTypes, ReadyTypes
<1>5. NoBreaks => \A i \in open[m].exits : i <= open[m].id \/ i <= open[m].test
  BY <1>1 DEF Near
<1>6. QED BY <1>3, <1>4, <1>5

\* The noted jumps stay unpatched.
LEMMA UnpatchedKeeps ==
  ASSUME Ready, Unpatched(code, open), Grew(code, open, code', Ops), Goes(code, open, code', open')
  PROVE  Unpatched(code', open')
<1> SUFFICES ASSUME NoBreaks, NEW m \in DOMAIN open', NEW i \in open'[m].exits
             PROVE  code'[i].to = 0
  BY DEF Unpatched
<1>1. \A k \in DOMAIN open : \A x \in open[k].exits : code[x].to = 0
  BY DEF Unpatched
<1>2. CASE NewStatement(code, open, code', open', m)
  BY <1>2 DEF NewStatement
<1>3. CASE SameStatement(code, open, code', open', m)
  <2>1. m \in DOMAIN open
    BY <1>3 DEF SameStatement
  <2>2. \/ i \in open[m].exits /\ (m = Len(open) => code'[i].to = code[i].to)
        \/ i \in Len(code) + 1..Len(code') /\ code'[i].to = 0
    BY <1>3 DEF SameStatement
  <2>3. CASE i \in open[m].exits /\ m = Len(open)
    BY <1>1, <2>1, <2>2, <2>3
  <2>4. CASE i \in open[m].exits /\ m # Len(open)
    <3>1. i < open[Len(open)].of /\ i \in 1..Len(code)
      BY <2>1, <2>4, AroundFacts, NotedTypes
    <3>2. code'[i].to = code[i].to
      BY <3>1, JumpsStay
    <3>3. QED BY <1>1, <2>1, <2>4, <3>2
  <2>5. QED BY <2>2, <2>3, <2>4
<1>4. QED BY <1>2, <1>3 DEF Goes

\* Jumps of the new code that start behind a try or arm in progress.
LEMMA TryKnownKeeps ==
  ASSUME Ready, Unpatched(code, open), Grew(code, open, code', Ops), NEW m \in DOMAIN open,
         open[m].kind \in {"try", "arm"}, TryKnown(code, open[m]), NoBreaks,
         code' \in Seq(Instruction)
  PROVE  \A i, j \in Nat : Jump(code', i, j) /\ i > open[m].of => j > open[m].of
<1> SUFFICES ASSUME NEW i \in Nat, NEW j \in Nat, Jump(code', i, j), i > open[m].of
             PROVE  j > open[m].of
  OBVIOUS
<1>1. /\ Geometry(code, open) /\ Len(open) \in DOMAIN open /\ Len(code) \in Nat
      /\ open[m].of \in 0..Len(code) /\ DOMAIN code = 1..Len(code)
  BY ReadyTypes, NotedTypes DEF Ready, Emitted
<1>2. i \in 1..Len(code') /\ code'[i].op \in JumpOps /\ code'[i].to = j /\ j # 0
  BY DEF Jump
<1>3. CASE i \in 1..Len(code)
  <2>1. CASE code'[i].to = code[i].to
    <3>1. Jump(code, i, j)
      BY <1>1, <1>2, <1>3, <2>1, JumpsStay DEF Jump
    <3>2. QED BY <3>1 DEF TryKnown
  <2>2. CASE code'[i].to > Len(code)
    BY <1>1, <1>2, <2>2
  <2>3. QED BY <1>3, <2>1, <2>2, JumpsStay
<1>4. CASE i \notin 1..Len(code)
  <2>1. i \in Len(code) + 1..Len(code')
    BY <1>1, <1>2, <1>4
  <2>2. CASE j > Len(code)
    BY <1>1, <2>2
  <2>3. CASE \E k \in DOMAIN open : open[k].test # 0 /\ code'[i].to = open[k].test /\ k = Len(open)
    <3>1. open[Len(open)].test # 0 /\ j = open[Len(open)].test
      BY <1>2, <2>3
    <3>2. open[Len(open)].kind \in Loops /\ open[Len(open)].test >= open[Len(open)].of
      BY <1>1, <3>1 DEF Geometry
    <3>3. m # Len(open)
      BY <3>2 DEF Loops
    <3>4. open[m].of < open[Len(open)].of /\ open[Len(open)].of \in Nat /\ open[Len(open)].test \in Nat
      BY <3>3, AroundFacts, ReadyTypes
    <3>5. QED BY <1>1, <3>1, <3>2, <3>4
  <2>4. QED BY <1>2, <2>1, <2>2, <2>3, ContinueBreaks DEF Grew, JumpsBack
<1>5. QED BY <1>3, <1>4

\* Every block of the new code is known.
LEMMA TriesKnown ==
  ASSUME Ready, Finals(code, open), EmitMore, code' \in Seq(Instruction),
         NEW m \in DOMAIN open'
  PROVE  TryKnown(code', open'[m])
<1>1. Grew(code, open, code', Ops) /\ Goes(code, open, code', open')
  BY EmitGrows
<1>2. /\ Geometry(code, open) /\ Len(open) \in DOMAIN open /\ Len(code) \in Nat
      /\ DOMAIN code = 1..Len(code) /\ Len(code) <= Len(code') /\ Len(code') \in Nat
      /\ DOMAIN code' = 1..Len(code')
  BY <1>1, ReadyTypes DEF Ready, Emitted, Grew
<1>3. CASE NewStatement(code, open, code', open', m)
  <2>1. /\ open'[m].of = Len(code) + 1 /\ open'[m].kind # "arm"
        /\ \A i \in Len(code) + 1..Len(code') : code'[i].to = 0
    BY <1>3 DEF NewStatement
  <2>2. ASSUME NEW i \in Nat, NEW j \in Nat, Jump(code', i, j), i > Len(code) + 1
        PROVE  FALSE
    BY <1>2, <2>1, <2>2 DEF Jump
  <2>3. QED BY <2>1, <2>2 DEF TryKnown
<1>4. CASE SameStatement(code, open, code', open', m)
  <2>1. /\ m \in DOMAIN open /\ open'[m].of = open[m].of
        /\ \/ open'[m].kind = open[m].kind
           \/ m = Len(open) /\ open[m].kind = "if" /\ open'[m].kind = "else"
           \/ m = Len(open) /\ open[m].kind \in {"try", "arm"} /\ open'[m].kind \in {"arm", "finally"}
    BY <1>4 DEF SameStatement
  <2>2. /\ open[m].of \in 0..Len(code) /\ TryKnown(code, open[m]) /\ Unpatched(code, open)
    BY <2>1, NotedTypes DEF Finals
  <2>3. CASE open'[m].kind \notin {"try", "arm"}
    BY <2>3 DEF TryKnown
  <2>4. CASE open'[m].kind \in {"try", "arm"}
    <3>1. open[m].kind \in {"try", "arm"}
      BY <2>1, <2>4
    <3>2. NoBreaks => \A i, j \in Nat : Jump(code', i, j) /\ i > open[m].of => j > open[m].of
      BY <1>1, <2>1, <2>2, <3>1, TryKnownKeeps
    <3>3. ASSUME open[m].kind = "arm"
          PROVE  /\ open[m].of \in 1..Len(code') /\ code'[open[m].of].op = "setjmp"
                 /\ code'[open[m].of].to \in open[m].of + 1..Len(code')
      <4>1. /\ open[m].of \in 1..Len(code) /\ code[open[m].of].op = "setjmp"
            /\ code[open[m].of].to \in open[m].of + 1..Len(code)
        BY <2>2, <3>3 DEF TryKnown
      <4>2. code[open[m].of].to # 0
        BY <4>1
      <4>3. /\ code'[open[m].of].to = code[open[m].of].to
            /\ code'[open[m].of].op = code[open[m].of].op
        BY ONLY Ready, <1>1, <4>1, <4>2, JumpsStay
      <4>4. QED BY <1>2, <4>1, <4>3
    <3>4. ASSUME open[m].kind = "try", open'[m].kind = "arm"
          PROVE  /\ open[m].of \in 1..Len(code') /\ code'[open[m].of].op = "setjmp"
                 /\ code'[open[m].of].to \in open[m].of + 1..Len(code')
      <4>1. m = Len(open) /\ open'[m] # open[m] /\ m \in DOMAIN open'
        BY <2>1, <3>4
      <4>2. \/ NewArm(code, open, code', open')
            \/ NewFinally(code, open, code', open')
        BY <3>1, <4>1, EmitGrows
      <4>3. NewArm(code, open, code', open')
        BY <3>4, <4>1, <4>2 DEF NewFinally
      <4>4. code'[open[m].of].to = Len(code') /\ Len(code') > Len(code) + 1
        BY <3>4, <4>1, <4>3 DEF NewArm
      <4>5. open[m].of \in 1..Len(code) /\ code[open[m].of].op = "setjmp"
        BY <1>2, <2>1, <3>4 DEF Geometry
      <4>6. code'[open[m].of].op = "setjmp"
        BY <1>1, <4>5, JumpsStay
      <4>7. QED BY <1>2, <4>4, <4>5, <4>6
    <3>5. QED BY <2>1, <3>1, <3>2, <3>3, <3>4 DEF TryKnown
  <2>5. QED BY <2>3, <2>4
<1>5. QED BY <1>1, <1>3, <1>4 DEF Goes

\* What is known of a finally block stays.
LEMMA FinallyStays ==
  ASSUME Ready, Unpatched(code, open), NEW K, Grew(code, open, code', K), NEW f \in DOMAIN code,
         FinallyKnown(code, f)
  PROVE  FinallyKnown(code', f)
<1>1. f \in 1..Len(code) /\ Len(code) \in Nat
  BY ReadyTypes
<1>2. code'[f].v = code[f].v
  BY <1>1, JumpsStay
<1> DEFINE t == code[f].v
<1>3. /\ t \in 1..f - 1 /\ code[t].op = "setjmp" /\ code[t].to \in t + 1..f
      /\ NoBreaks => \A i \in t + 1..f : code[i].op \in JumpOps => code[i].to \in t + 1..f
  BY DEF FinallyKnown
<1> HIDE DEF t
<1>4. t \in 1..Len(code) /\ code[t].to # 0
  BY <1>1, <1>3
<1>5. code'[t].op = "setjmp" /\ code'[t].to = code[t].to
  BY <1>3, <1>4, JumpsStay
<1>6. ASSUME NoBreaks, NEW i \in t + 1..f, code'[i].op \in JumpOps PROVE code'[i].to \in t + 1..f
  <2>1. i \in 1..Len(code)
    BY <1>1, <1>3
  <2>2. code[i].op \in JumpOps
    BY <1>6, <2>1, JumpsStay
  <2>3. code[i].to \in t + 1..f /\ code[i].to # 0
    BY <1>1, <1>3, <1>6, <2>2
  <2>4. code'[i].to = code[i].to
    BY <1>6, <2>1, <2>3, JumpsStay
  <2>5. QED BY <2>3, <2>4
<1>7. QED BY <1>2, <1>3, <1>5, <1>6 DEF FinallyKnown, t

\* Once a try has its finally block, all that is written behind its setjmp leads somewhere.
LEMMA AllLead ==
  ASSUME Readied, NoBreaks, NewFinally(code, open, code', open'), Len(open) \in DOMAIN open,
         NEW i \in 1..Len(code'), code'[i].op \in JumpOps, i > open[Len(open)].of
  PROVE  code'[i].to # 0
<1> SUFFICES ASSUME code'[i].to = 0 PROVE FALSE
  OBVIOUS
<1> DEFINE n == Len(open)
<1>1. /\ Pending(code', open', {}) /\ Geometry(code', open') /\ Near(open')
      /\ TriesOpen(code', open') /\ code' \in Seq(Instruction)
      /\ open' \in Seq(BlockInProgress)
  BY DEF Readied, Emitted, Typed, Nested, Tries
<1>2. /\ Len(open') = n /\ n \in DOMAIN open' /\ open'[n].kind = "finally" /\ open'[n].of = open[n].of
  BY DEF NewFinally
<1>3. /\ DOMAIN open' = 1..n /\ n \in Nat /\ DOMAIN code' = 1..Len(code')
      /\ \A k \in DOMAIN open' : /\ open'[k].id \in Nat /\ open'[k].of \in Nat /\ open'[k].test \in Nat
  <2>1. DOMAIN open' = 1..n /\ n \in Nat /\ DOMAIN code' = 1..Len(code')
    BY <1>1, <1>2
  <2>2. \A k \in DOMAIN open' : open'[k] \in BlockInProgress
    BY <1>1
  <2>3. QED BY <2>1, <2>2 DEF BlockInProgress
<1>4. ASSUME NEW k \in DOMAIN open', k # n
      PROVE  open'[k].id < i /\ open'[k].test < i /\ open'[k].of < i
  <2>1. k \in 1..n - 1
    BY <1>3, <1>4
  <2>2. open'[k].id < open'[n].of /\ open'[k].test < open'[n].of /\ open'[k].of <= open'[k].id
    BY <1>1, <1>2, <2>1 DEF Geometry
  <2>3. QED BY <1>2, <1>3, <2>2
<1>5. CASE code'[i].op = "setjmp"
  <2>1. PICK k \in DOMAIN open' : open'[k].kind = "try" /\ open'[k].of = i
    BY <1>1, <1>3, <1>5 DEF TriesOpen
  <2>2. k # n
    BY <1>2, <2>1
  <2>3. QED BY <1>3, <1>4, <2>1, <2>2
<1>6. CASE code'[i].op \in PendOps
  <2>1. i \in Pend(open', {})
    BY <1>1, <1>3, <1>6 DEF Pending
  <2>2. PICK k \in DOMAIN open' : i \in open'[k].exits \cup open'[k].next
    BY <2>1 DEF Pend
  <2>3. i \in open'[k].exits
    BY <1>1, <2>2 DEF Near
  <2>4. k # n
    BY <1>1, <1>2, <2>3 DEF Pending
  <2>5. i <= open'[k].id \/ i <= open'[k].test
    BY <1>1, <2>3 DEF Near
  <2>6. QED BY <1>3, <1>4, <2>4, <2>5
<1>7. QED BY <1>5, <1>6 DEF JumpOps, PendOps

\* A try gets its finally block.
LEMMA FinallyAdded ==
  ASSUME Ready, Readied, Finals(code, open), Grew(code, open, code', Ops),
         NewFinally(code, open, code', open')
  PROVE  FinallyKnown(code', Len(code'))
<1> DEFINE b == open[Len(open)]
           n == Len(code')
           t == b.of
<1>1. /\ Geometry(code, open) /\ Len(open) \in DOMAIN open /\ Len(code) \in Nat
      /\ code' \in Seq(Instruction) /\ n \in Nat /\ Len(code) < n
      /\ Unpatched(code, open) /\ TryKnown(code, b) /\ b.kind \in {"try", "arm"}
      /\ code'[n].v = t /\ DOMAIN code = 1..Len(code) /\ DOMAIN code' = 1..n
  BY ReadyTypes DEF Ready, Readied, Emitted, Typed, Finals, NewFinally
<1>2. t \in 1..Len(code) /\ code[t].op = "setjmp" /\ code'[t].op = "setjmp"
  <2>1. t \in 1..Len(code) /\ code[t].op = "setjmp"
    BY <1>1 DEF Geometry, TryKnown
  <2>2. QED BY <2>1, JumpsStay
<1>3. code'[t].to \in t + 1..n
  <2>1. CASE b.kind = "try"
    BY <1>1, <1>2, <2>1 DEF NewFinally
  <2>2. CASE b.kind = "arm"
    <3>1. code[t].to \in t + 1..Len(code)
      BY <1>1, <2>2 DEF TryKnown
    <3>2. code'[t].to = code[t].to
      BY <1>1, <1>2, <3>1, JumpsStay
    <3>3. QED BY <1>1, <3>1, <3>2
  <2>3. QED BY <1>1, <2>1, <2>2
<1>4. ASSUME NoBreaks, NEW i \in t + 1..n, code'[i].op \in JumpOps PROVE code'[i].to \in t + 1..n
  <2>1. i \in 1..n /\ i > t
    BY <1>1, <1>2
  <2>2. code'[i].to # 0
    BY <1>1, <1>4, <2>1, AllLead
  <2>3. code'[i].to <= n /\ code'[i].to \in Nat
    <3>1. code'[i] \in Instruction
      BY <1>1, <2>1
    <3>2. QED BY <2>1, <3>1 DEF NewFinally, Instruction
  <2>4. Jump(code', i, code'[i].to)
    BY <1>1, <1>4, <2>1, <2>2 DEF Jump
  <2>5. code'[i].to > t
    BY <1>1, <1>4, <2>1, <2>3, <2>4, TryKnownKeeps
  <2>6. QED BY <1>1, <1>2, <2>3, <2>5
<1>5. QED BY <1>1, <1>2, <1>3, <1>4 DEF FinallyKnown

\* What is known of finally blocks is kept by the emission.
LEMMA FinalsKeep ==
  ASSUME Ready, Readied, Finals(code, open), EmitMore
  PROVE  Finals(code', open')
<1>1. /\ Grew(code, open, code', Ops) /\ Goes(code, open, code', open')
      /\ \/ Grew(code, open, code', Ops \ {"finally"})
         \/ NewFinally(code, open, code', open')
  BY EmitGrows
<1>2. /\ code' \in Seq(Instruction) /\ DOMAIN code' = 1..Len(code') /\ Len(code') \in Nat
      /\ Unpatched(code, open) /\ Len(code) \in Nat /\ DOMAIN code = 1..Len(code)
      /\ FinallysKnown(code) /\ Len(code) <= Len(code')
  BY <1>1, ReadyTypes DEF Readied, Emitted, Typed, Finals, Grew
<1>3. Unpatched(code', open')
  BY <1>1, <1>2, UnpatchedKeeps
<1>4. \A k \in DOMAIN open' : TryKnown(code', open'[k])
  BY <1>2, TriesKnown
<1>5. ASSUME NEW f \in DOMAIN code', code'[f].op = "finally" PROVE FinallyKnown(code', f)
  <2>1. CASE f \in DOMAIN code
    <3>1. code[f].op = "finally"
      BY <1>1, <1>2, <1>5, <2>1, JumpsStay
    <3>2. QED BY <1>1, <1>2, <2>1, <3>1, FinallyStays DEF FinallysKnown
  <2>2. CASE f \notin DOMAIN code
    <3>1. f \in Len(code) + 1..Len(code')
      BY <1>2, <2>2
    <3>2. NewFinally(code, open, code', open')
      BY <1>1, <1>5, <3>1 DEF Grew
    <3>3. f = Len(code')
      <4>1. \A i \in Len(code) + 1..Len(code') - 1 : code'[i].op \in {"drop", "goto"}
        BY <3>2 DEF NewFinally
      <4>2. QED BY <1>2, <1>5, <3>1, <4>1
    <3>4. QED BY <1>1, <3>2, <3>3, FinallyAdded
  <2>3. QED BY <2>1, <2>2
<1>6. QED BY <1>3, <1>4, <1>5 DEF Finals, FinallysKnown

\* ... and by the end of the function.
LEMMA FinalsEnd ==
  ASSUME Ready, Finals(code, open), EndFunction
  PROVE  FinallysKnown(code')
<1>1. Grew(code, open, code', {"drop", "return"}) /\ code' \in Seq(Instruction)
  BY EndFunctionGrows
<1>2. /\ DOMAIN code' = 1..Len(code') /\ Len(code') \in Nat
      /\ Unpatched(code, open) /\ Len(code) \in Nat /\ DOMAIN code = 1..Len(code)
      /\ FinallysKnown(code) /\ Len(code) <= Len(code')
  BY <1>1, ReadyTypes DEF Finals, Grew
<1>3. ASSUME NEW f \in DOMAIN code', code'[f].op = "finally" PROVE FinallyKnown(code', f)
  <2>1. f \in DOMAIN code
    BY <1>1, <1>2, <1>3 DEF Grew
  <2>2. code[f].op = "finally"
    BY <1>1, <1>2, <1>3, <2>1, JumpsStay
  <2>3. QED BY <1>1, <1>2, <2>1, <2>2, FinallyStays DEF FinallysKnown
<1>4. QED BY <1>3 DEF FinallysKnown

----------------------------------------------------------------------------
(* The finally blocks of the running program.                              *)

\* What an instruction does to the finally blocks that are owed.
Owes ==
  /\ code[pc].op = "setjmp" => owed' = IF HasFinally(pc) THEN owed \cup {pc} ELSE owed
  /\ code[pc].op = "finally" => owed' = owed \ {code[pc].v}
  /\ code[pc].op \notin {"setjmp", "finally"} => owed' = owed

\* Every instruction but setjmp and finally leaves what is owed alone.
LEMMA RunOwes ==
  ASSUME Run
  PROVE  Owes
<1>1. CASE RunNop
  BY <1>1 DEF RunNop, At, Owes
<1>2. CASE RunInit
  BY <1>2 DEF RunInit, Straight, At, Owes
<1>3. CASE RunDrop
  BY <1>3 DEF RunDrop, Straight, At, Owes
<1>4. CASE RunBranch
  BY <1>4 DEF RunBranch, At, Owes
<1>5. CASE RunGoto
  BY <1>5 DEF RunGoto, At, Owes
<1>6. CASE RunFor
  BY <1>6 DEF RunFor, At, Owes
<1>7. CASE RunTest
  BY <1>7 DEF RunTest, At, Owes
<1>8. CASE RunIncrement
  BY <1>8 DEF RunIncrement, Straight, At, Owes
<1>9. CASE RunThrow
  BY <1>9 DEF RunThrow, At, Owes
<1>10. CASE RunReturn
  BY <1>10 DEF RunReturn, At, Owes
<1>11. CASE RunCall
  BY <1>11 DEF RunCall, At, Owes
<1>12. CASE RunSetjmp
  BY <1>12 DEF RunSetjmp, Straight, At, Owes
<1>13. CASE RunArm
  BY <1>13 DEF RunArm, Straight, At, Owes
<1>14. QED
  BY <1>1, <1>2, <1>3, <1>4, <1>5, <1>6, <1>7, <1>8, <1>9, <1>10, <1>11, <1>12, <1>13 DEF Run

\* No statement leaves a try other than an error raised in its body.
StaysInside == FlatErrors /\ {"return", "break", "continue"} \cap profile.features = {}

\* Between its setjmp and its finally block a try is being executed.
Inside(t) == \A f \in DOMAIN code : code[f].op = "finally" /\ code[f].v = t => t < pc /\ pc <= f

Owing == \A t \in owed : t \in DOMAIN code /\ code[t].op = "setjmp" /\ HasFinally(t) /\ Inside(t)

\* A try that is being executed is not left but through its finally block.
LEMMA InsideSteps ==
  ASSUME Complete(code), Placed, StaysInside, Armed, FinallysKnown(code), pc > 0, Moves, Effects,
         NEW t \in DOMAIN code, code[t].op = "setjmp", Inside(t),
         NEW f \in DOMAIN code, code[f].op = "finally", code[f].v = t, pc # f
  PROVE  t < pc' /\ pc' <= f
<1>1. /\ pc \in DOMAIN code /\ pc \in Nat /\ f \in Nat /\ t \in Nat /\ DOMAIN code = 1..Len(code)
      /\ Len(code) \in Nat
  BY CompleteCode DEF Placed, Returned, Undefined
<1>2. t < pc /\ pc < f
  BY <1>1 DEF Inside
<1>3. /\ FlatErrors /\ NoBreaks /\ "return" \notin profile.features /\ ~profile.throws
  BY DEF StaysInside, NoBreaks, FlatErrors
<1>4. \A i \in t + 1..f : code[i].op \in JumpOps => code[i].to \in t + 1..f
  BY <1>3 DEF FinallysKnown, FinallyKnown
<1>5. code[t].to \in t + 1..f
  BY DEF FinallysKnown, FinallyKnown
<1>6. pc \in t + 1..f /\ pc \in 1..Len(code) - 1
  BY <1>1, <1>2
<1>7. CASE pc' = pc + 1
  BY <1>1, <1>2, <1>7
<1>8. CASE code[pc].op \in PendOps /\ pc' = code[pc].to
  BY <1>1, <1>4, <1>6, <1>8 DEF PendOps, JumpOps
<1>9. CASE code[pc].op \in {"throw", "call"}
  <2>1. /\ jmp_buf' = jmp_buf /\ jmp_buf \in DOMAIN code /\ code[jmp_buf].op = "setjmp"
        /\ jmp_buf < pc /\ pc < code[jmp_buf].to
    BY <1>3, <1>9, JumpsBehindBody
  <2>2. jmp_buf \in Nat /\ jmp_buf > 0 /\ code[jmp_buf].to \in Nat
    BY <1>1, <2>1, CompleteJumps
  <2>3. pc' = pc + 1 \/ pc' = code[jmp_buf].to
    BY <1>9, <2>1, <2>2 DEF Moves, PendOps
  <2>4. code[jmp_buf].to \in t + 1..f
    <3>1. CASE jmp_buf = t
      BY <1>5, <3>1
    <3>2. CASE jmp_buf > t
      <4>1. jmp_buf \in t + 1..f
        BY <1>1, <1>2, <2>1, <2>2, <3>2
      <4>2. QED BY <1>4, <2>1, <4>1 DEF JumpOps
    <3>3. CASE jmp_buf < t
      <4>1. TriesFlat(code) /\ profile.tries <= 1
        BY <1>3 DEF Complete, Emitted, Tries, FlatErrors
      <4>2. code[jmp_buf].to <= t
        BY <2>1, <3>3, <4>1 DEF TriesFlat
      <4>3. QED BY <1>1, <1>2, <2>1, <2>2, <4>2
    <3>4. QED BY <1>1, <2>2, <3>1, <3>2, <3>3
  <2>5. QED BY <1>1, <1>2, <2>3, <2>4
<1>10. CASE code[pc].op \in {"return", "throw_return"}
  <2>1. Featured(code, Len(code) - 1)
    BY DEF Complete
  <2>2. FALSE
    BY <1>3, <1>6, <1>10, <2>1 DEF Featured
  <2>3. QED BY <2>2
<1>11. QED BY <1>7, <1>8, <1>9, <1>10 DEF Moves

\* What is owed is owed by trys that are being executed.
LEMMA OwingSteps ==
  ASSUME Complete(code), Placed, StaysInside, Armed, FinallysKnown(code), pc > 0, Moves, Effects,
         Owes, Owing, code' = code
  PROVE  Owing'
<1> SUFFICES ASSUME NEW t \in owed'
             PROVE  /\ t \in DOMAIN code /\ code[t].op = "setjmp" /\ HasFinally(t)
                    /\ \A f \in DOMAIN code : code[f].op = "finally" /\ code[f].v = t =>
                         t < pc' /\ pc' <= f
  BY DEF Owing, HasFinally, Inside
<1>1. pc \in DOMAIN code /\ pc \in Nat
  BY CompleteCode DEF Placed, Returned, Undefined
<1>2. CASE t \in owed
  <2>1. t \in DOMAIN code /\ code[t].op = "setjmp" /\ HasFinally(t) /\ Inside(t)
    BY <1>2 DEF Owing
  <2>2. ASSUME NEW f \in DOMAIN code, code[f].op = "finally", code[f].v = t PROVE pc # f
    BY <2>2 DEF Owes
  <2>3. QED BY <2>1, <2>2, InsideSteps
<1>3. CASE t \notin owed
  <2>1. code[pc].op = "setjmp" /\ t = pc /\ HasFinally(pc)
    BY <1>3 DEF Owes
  <2>2. pc' = pc + 1
    BY <2>1 DEF Moves, PendOps
  <2>3. ASSUME NEW f \in DOMAIN code, code[f].op = "finally", code[f].v = t
        PROVE  t < pc' /\ pc' <= f
    <3>1. t \in 1..f - 1 /\ f \in Nat
      BY <2>3, CompleteCode DEF FinallysKnown, FinallyKnown
    <3>2. QED BY <1>1, <2>1, <2>2, <3>1
  <2>4. QED BY <1>1, <2>1, <2>3
<1>4. QED BY <1>2, <1>3

\* Nothing is owed when the function has returned.
LEMMA OwingFollows ==
  ASSUME Complete(code), Owing, pc = Returned
  PROVE  owed = {}
<1>1. ASSUME NEW t \in owed PROVE FALSE
  <2>1. HasFinally(t) /\ Inside(t) /\ t \in DOMAIN code
    BY DEF Owing
  <2>2. PICK f \in DOMAIN code : code[f].op = "finally" /\ code[f].v = t
    BY <2>1 DEF HasFinally
  <2>3. t < 0 /\ t \in Nat
    BY <2>1, <2>2, CompleteCode DEF Inside, Returned
  <2>4. QED BY <2>3
<1>2. QED BY <1>1

----------------------------------------------------------------------------
\* The finally blocks, in the code under construction and in the running program.
FinallyInv ==
  /\ phase = "emit" => Finals(code, open) /\ owed = {}
  /\ phase = "run" => FinallysKnown(code) /\ (StaysInside => Owing)

\* What is said of the code is said of it after the step, too.
LEMMA FinalsPrimed ==
  ASSUME Finals(code', open'), UNCHANGED profile
  PROVE  Finals(code, open)'
BY DEF Finals, FinallysKnown, FinallyKnown, Unpatched, TryKnown, NoBreaks, Jump

\* ... and so it is of the complete code.
LEMMA FinallysPrimed ==
  ASSUME NEW c, FinallysKnown(c), UNCHANGED profile, code' = c
  PROVE  FinallysKnown(code)'
BY DEF FinallysKnown, FinallyKnown, NoBreaks

\* There are no trys yet, and nothing is owed.
LEMMA InitFinally == Init => FinallyInv
<1> SUFFICES ASSUME Init PROVE FinallyInv
  OBVIOUS
<1>1. /\ phase = "emit" /\ code = <<>> /\ owed = {}
      /\ open = <<[kind |-> "func", id |-> 0, of |-> 0, saved |-> <<>>,
                   exits |-> {}, next |-> {}, test |-> 0, arm |-> 0]>>
  BY DEF Init
<1>2. /\ DOMAIN code = {} /\ DOMAIN open = {1} /\ open[1].exits = {} /\ open[1].kind = "func"
  BY <1>1
<1>3. Finals(code, open)
  BY <1>2 DEF Finals, FinallysKnown, Unpatched, TryKnown
<1>4. QED BY <1>1, <1>3 DEF FinallyInv

\* Every step keeps what is known of the finally blocks.
LEMMA NextFinally == IInv /\ FinallyInv /\ [Next]_vars => FinallyInv'
<1> SUFFICES ASSUME IInv, FinallyInv, [Next]_vars PROVE FinallyInv'
  OBVIOUS
<1>1. ASSUME Emit, UNCHANGED profile PROVE FinallyInv'
  <2>1. phase = "emit"
    BY <1>1 DEF Emit, c_emit_let, c_emit_defer, c_emit_plain_block, c_emit_if, c_emit_while,
                c_emit_for, c_emit_break, c_emit_continue, c_emit_return, c_emit_throw,
                c_emit_call, c_emit_try, Statement, EndBlock, EndIfElse, EndWhile, EndFor,
                EndTry, EndArm, EndOf, EndFunction
  <2>2. Ready /\ Featured(code, Len(code)) /\ profile \in Profile /\ Finals(code, open) /\ owed = {}
    BY <2>1 DEF IInv, Emitting, FinallyInv
  <2>3. CASE EmitMore
    <3>1. Readied /\ UNCHANGED <<phase, runVars>>
      BY <2>2, <2>3, EmitSteps
    <3>2. Finals(code', open')
      BY <2>2, <2>3, <3>1, FinalsKeep
    <3>3. Finals(code, open)'
      BY <1>1, <3>2, FinalsPrimed
    <3>4. QED BY <2>1, <2>2, <3>1, <3>3 DEF FinallyInv, runVars
  <2>4. CASE EndFunction
    <3>1. FinallysKnown(code')
      BY <2>2, <2>4, FinalsEnd
    <3>2. FinallysKnown(code)'
      BY <1>1, <3>1, FinallysPrimed
    <3>3. phase' = "run" /\ owed' = {}
      BY <2>2, <2>4 DEF EndFunction, runVars
    <3>4. Owing'
      BY <3>3 DEF Owing
    <3>5. QED BY <3>2, <3>3, <3>4 DEF FinallyInv
  <2>5. QED BY <1>1, <2>3, <2>4 DEF Emit, EmitMore
<1>2. ASSUME Run, UNCHANGED profile PROVE FinallyInv'
  <2>1. phase = "run"
    BY <1>2 DEF Run, RunNop, RunInit, RunDrop, RunBranch, RunGoto, RunFor, RunTest,
                RunIncrement, RunThrow, RunReturn, RunCall, RunSetjmp, RunArm, Straight, At
  <2>2. Running /\ FinallysKnown(code) /\ (StaysInside => Owing)
    BY <2>1 DEF IInv, FinallyInv
  <2>3. phase' = phase /\ code' = code /\ pc > 0 /\ Moves /\ Effects /\ Owes
    BY <1>2, <2>2, RunSteps, RunOwes DEF Running, Placed
  <2>4. FinallysKnown(code)'
    BY <1>2, <2>2, <2>3, FinallysPrimed
  <2>5. StaysInside' <=> StaysInside
    BY <1>2 DEF StaysInside, FlatErrors
  <2>6. ASSUME StaysInside PROVE Owing'
    <3>1. Armed /\ Complete(code) /\ Placed
      BY <2>2, <2>6 DEF Running, StaysInside
    <3>2. QED BY <2>2, <2>3, <2>6, <3>1, OwingSteps
  <2>7. QED BY <2>1, <2>3, <2>4, <2>5, <2>6 DEF FinallyInv
<1>3. CASE UNCHANGED vars
  <2>1. /\ profile' = profile /\ phase' = phase /\ code' = code /\ open' = open
        /\ pc' = pc /\ owed' = owed
    BY <1>3 DEF vars, emitVars, runVars
  <2>2. ASSUME phase = "emit" PROVE Finals(code, open)' /\ owed' = {}
    <3>1. Finals(code', open') /\ owed = {}
      BY <2>1, <2>2 DEF FinallyInv
    <3>2. QED BY <2>1, <3>1, FinalsPrimed
  <2>3. ASSUME phase = "run" PROVE FinallysKnown(code)' /\ (StaysInside => Owing')
    <3>1. FinallysKnown(code) /\ (StaysInside => Owing)
      BY <2>3 DEF FinallyInv
    <3>2. FinallysKnown(code)'
      BY <2>1, <3>1, FinallysPrimed
    <3>3. Owing => Owing'
      BY <2>1 DEF Owing, Inside, HasFinally
    <3>4. QED BY <3>1, <3>2, <3>3
  <2>4. StaysInside' <=> StaysInside
    BY <2>1 DEF StaysInside, FlatErrors
  <2>5. QED BY <2>1, <2>2, <2>3, <2>4 DEF FinallyInv
<1>4. QED BY <1>1, <1>2, <1>3 DEF Next

\* A finally block is not skipped, with or without an error, whatever the catch arms do and
\* however often the try is entered: c_emit_try leads the end of the body and of every arm
\* to it, and an error jumps no further than to the arms of its own try.
THEOREM FinallyReached == Spec => []FinallyRuns
<1>1. IInv /\ FinallyInv => FinallyRuns
  <2> SUFFICES ASSUME IInv, FinallyInv, StaysInside, pc = Returned PROVE owed = {}
    BY DEF FinallyRuns, StaysInside
  <2>1. CASE phase = "emit"
    BY <2>1 DEF FinallyInv
  <2>2. CASE phase = "run"
    BY <2>2, OwingFollows DEF FinallyInv, IInv, Running
  <2>3. QED BY <2>1, <2>2 DEF IInv
<1>2. QED BY <1>1, InitFinally, NextFinally, IInvHolds, PTL DEF Spec

----------------------------------------------------------------------------
(* How loops lie in the code.                                              *)

\* A step of the emission that neither begins nor ends a for loop.
NoLoop(c, o, d, q) ==
  /\ Grew(c, o, d, Ops \ {"inc", "test"})
  /\ \A m \in DOMAIN q : q[m].kind \in ForKinds => m \in DOMAIN o
  /\ \A m \in DOMAIN o : o[m].kind \in ForKinds =>
       m \in DOMAIN q /\ q[m].kind \in ForKinds /\ q[m].of = o[m].of
  /\ o[Len(o)].kind \in ForKinds => \A i \in 1..Len(c) : d[i] = c[i]

\* What a step of the emission does to for loops.
LEMMA EmitLoops ==
  ASSUME Ready, EmitMore
  PROVE  c_emit_for \/ EndFor \/ NoLoop(code, open, code', open')
<1>1. ASSUME NEW K, Grew(code, open, code', K), K \subseteq Ops \ {"inc", "test"}
      PROVE  Grew(code, open, code', Ops \ {"inc", "test"})
  BY <1>1 DEF Grew
<1>2. /\ Ops \ Marks \subseteq Ops \ {"inc", "test"}
      /\ {"drop", "goto", "arm", "finally"} \subseteq Ops \ {"inc", "test"}
  BY DEF Ops, Marks
<1>3. /\ Innermost = open[Len(open)] /\ Len(open) \in DOMAIN open /\ DOMAIN open = 1..Len(open)
      /\ Len(open) \in Nat /\ open \in Seq(BlockInProgress)
  BY ReadyTypes DEF Ready
<1>4. CASE c_emit_let \/ c_emit_return \/ c_emit_throw \/ c_emit_call
  <2>1. open' = open
    BY <1>4 DEF c_emit_let, c_emit_return, c_emit_throw, c_emit_call
  <2>2. QED BY <1>1, <1>2, <1>4, <2>1, StatementGrows DEF NoLoop
<1>5. CASE c_emit_break \/ c_emit_continue
  <2>1. /\ Grew(code, open, code', Ops \ {"inc", "test"}) /\ DOMAIN open' = DOMAIN open
        /\ \A i \in 1..Len(code) : code'[i] = code[i]
        /\ Goes(code, open, code', open')
    BY <1>1, <1>2, <1>5, LeaveLoopGrows
  <2>2. ASSUME NEW m \in DOMAIN open, open[m].kind \in ForKinds
        PROVE  open'[m].kind \in ForKinds /\ open'[m].of = open[m].of
    <3>1. SameStatement(code, open, code', open', m)
      BY <1>3, <2>1 DEF Goes, NewStatement
    <3>2. QED BY <2>2, <3>1 DEF SameStatement, ForKinds
  <2>3. QED BY <2>1, <2>2 DEF NoLoop
<1>6. CASE c_emit_defer \/ c_emit_plain_block \/ c_emit_if \/ c_emit_while \/ c_emit_try
  BY <1>1, <1>2, <1>6, OpenGrows DEF NoLoop
<1>7. ASSUME Grew(code, open, code', Ops \ {"inc", "test"}), Goes(code, open, code', open'),
             \A m \in DOMAIN open' : m \in DOMAIN open,
             \A m \in DOMAIN open : open[m].kind \in ForKinds => m \in DOMAIN open' /\ open'[m] = open[m],
             open[Len(open)].kind \notin ForKinds
      PROVE  NoLoop(code, open, code', open')
  BY <1>7 DEF NoLoop
<1>8. CASE EndBlock
  <2>1. open[Len(open)].kind \notin ForKinds
    BY <1>3, <1>8 DEF EndBlock, EndOf, ForKinds
  <2>2. open' = Front(open)
    BY <1>8 DEF EndBlock, CloseBlock
  <2>3. \A m \in DOMAIN open' : m \in DOMAIN open
    <3>1. DOMAIN open' = 1..Len(open) - 1
      BY <2>2, GoesClosed
    <3>2. QED BY <1>3, <3>1
  <2>4. QED BY <1>1, <1>2, <1>7, <1>8, <2>1, <2>3, EndBlockGrows
<1>9. CASE EndIfElse
  <2>1. open[Len(open)].kind \notin ForKinds
    BY <1>3, <1>9 DEF EndIfElse, EndOf, ForKinds
  <2>2. Goes(code, open, code', open') /\ Grew(code, open, code', Ops \ Marks)
    BY <1>9, EndIfElseGrows
  <2>3. \A m \in DOMAIN open' : m \in DOMAIN open
    <3>1. PICK c, ex : open' = Append(Front(open), [Innermost EXCEPT !.kind = "else", !.id = Len(c),
                                                            !.exits = ex, !.arm = 0])
      BY <1>9 DEF EndIfElse, NextBlock
    <3>2. Len(Front(open)) = Len(open) - 1 /\ Front(open) \in Seq(BlockInProgress)
      BY <1>3 DEF Front
    <3>3. QED BY <1>3, <3>1, <3>2
  <2>4. QED BY <1>1, <1>2, <1>7, <1>9, <2>1, <2>2, <2>3, EndIfElseGrows
<1>10. CASE EndWhile
  <2>1. open[Len(open)].kind \notin ForKinds
    BY <1>3, <1>10 DEF EndWhile, EndOf, ForKinds
  <2>2. open' = Front(open)
    BY <1>10 DEF EndWhile, CloseBlock
  <2>3. \A m \in DOMAIN open' : m \in DOMAIN open
    <3>1. DOMAIN open' = 1..Len(open) - 1
      BY <2>2, GoesClosed
    <3>2. QED BY <1>3, <3>1
  <2>4. QED BY <1>1, <1>2, <1>7, <1>10, <2>1, <2>3, EndWhileGrows
<1>11. CASE EndTry \/ EndArm
  <2>1. /\ Grew(code, open, code', {"drop", "goto", "arm", "finally"})
        /\ Goes(code, open, code', open')
        /\ \/ NewArm(code, open, code', open')
           \/ NewFinally(code, open, code', open')
           \/ TryDone(code, open, code', open')
    BY <1>11, TryGrows
  <2>2. open[Len(open)].kind \in {"try", "arm"}
    BY <2>1 DEF NewArm, NewFinally, TryDone
  <2>3. open[Len(open)].kind \notin ForKinds
    BY <2>2 DEF ForKinds
  <2>4. /\ \A m \in DOMAIN open' : m \in DOMAIN open
        /\ \A m \in DOMAIN open : m # Len(open) => m \in DOMAIN open' /\ open'[m] = open[m]
    <3>1. CASE NewArm(code, open, code', open')
      BY <3>1 DEF NewArm
    <3>2. CASE NewFinally(code, open, code', open')
      BY <3>2 DEF NewFinally
    <3>3. CASE TryDone(code, open, code', open')
      BY <1>3, <3>3 DEF TryDone
    <3>4. QED BY <2>1, <3>1, <3>2, <3>3
  <2>5. QED BY <1>1, <1>2, <1>7, <2>1, <2>3, <2>4
<1>12. QED BY <1>4, <1>5, <1>6, <1>8, <1>9, <1>10, <1>11 DEF EmitMore

\* Instruction n is the increment of loop h.
IncOf(c, n, h) == n \in DOMAIN c /\ c[n].op = "inc" /\ c[n].v = h

\* A for loop is entered at its head and its turns at the test; no jump leads elsewhere
\* into it.
OneWayIn(c, h, n) ==
  \A i, j \in Nat : Jump(c, i, j) => /\ h < j /\ j <= n + 1 => h < i /\ i <= n + 1
                                     /\ h + 1 < j /\ j <= n => h + 1 < i /\ i <= n

\* A complete loop has its head, its test, its increment and its jump back behind one another, and
\* no loop still open has its test in it.
LoopKnown(c, o, n) ==
  LET h == c[n].v IN
  /\ h \in 1..n - 2 /\ n < Len(c) /\ c[h].op \in ForKinds /\ c[h + 1].op = "test"
  /\ \A m \in DOMAIN c : IncOf(c, m, h) => m = n
  /\ OneWayIn(c, h, n)
  /\ \A k \in DOMAIN o : o[k].test # 0 => ~(h < o[k].test /\ o[k].test <= n + 1)

\* A test stands behind the head of its loop, which is complete or in progress.
TestKnown(c, o, i) ==
  /\ i > 1 /\ c[i].v = i - 1 /\ c[i - 1].op \in ForKinds
  /\ \/ \E n \in DOMAIN c : IncOf(c, n, i - 1)
     \/ \E k \in DOMAIN o : o[k].kind \in ForKinds /\ o[k].of = i - 1

LoopsKnown(c, o) ==
  \A i \in DOMAIN c : /\ c[i].op = "inc" => LoopKnown(c, o, i)
                      /\ c[i].op = "test" => TestKnown(c, o, i)

\* No jump leads from in front of x behind it.
Past(c, x) == \A i, j \in Nat : Jump(c, i, j) /\ j > x => i > x

\* A for loop in progress has its head and its test, and is entered through both.
ForKnown(c, b) ==
  b.kind \in ForKinds =>
    /\ b.test = b.of + 1 /\ b.of \in DOMAIN c /\ c[b.of].op \in ForKinds
    /\ b.test \in DOMAIN c /\ c[b.test].op = "test"
    /\ Past(c, b.of) /\ Past(c, b.test)
    /\ \A n \in DOMAIN c : ~IncOf(c, n, b.of)
    /\ \A i \in b.next : i > b.test

Looping(c, o) == LoopsKnown(c, o) /\ \A k \in DOMAIN o : ForKnown(c, o[k])

\* What a jump of the new code is: a jump of the old one, one led behind it, or a jump back.
LEMMA NewJumps ==
  ASSUME Ready, NEW K, Grew(code, open, code', K), code' \in Seq(Instruction),
         NEW i \in Nat, NEW j \in Nat, Jump(code', i, j)
  PROVE  \/ i \in 1..Len(code) /\ Jump(code, i, j)
         \/ i \in Loose(open[Len(open)]) /\ i \in 1..Len(code) /\ j > Len(code)
         \/ i > Len(code) /\ j > Len(code)
         \/ /\ i > Len(code)
            /\ \E k \in DOMAIN open : open[k].test # 0 /\ j = open[k].test /\ JumpsBack(open, k)
<1>1. /\ i \in 1..Len(code') /\ code'[i].op \in JumpOps /\ code'[i].to = j /\ j # 0
      /\ Len(code) \in Nat /\ DOMAIN code = 1..Len(code) /\ Len(code') \in Nat
  BY ReadyTypes DEF Jump
<1>2. CASE i \in 1..Len(code)
  <2>1. /\ code'[i].op = code[i].op
        /\ code'[i].to = code[i].to \/ (code'[i].to > Len(code) /\ i \in Loose(open[Len(open)]))
    BY <1>2 DEF Grew
  <2>2. QED BY <1>1, <1>2, <2>1 DEF Jump
<1>3. CASE i \notin 1..Len(code)
  <2>1. i \in Len(code) + 1..Len(code') /\ i > Len(code)
    BY <1>1, <1>3
  <2>2. QED BY <1>1, <2>1 DEF Grew
<1>4. QED BY <1>2, <1>3

\* A complete loop stays one.
LEMMA LoopStays ==
  ASSUME Ready, NEW K, Grew(code, open, code', K), code' \in Seq(Instruction),
         NEW n \in DOMAIN code, code[n].op = "inc", LoopKnown(code, open, n),
         \A m \in DOMAIN code' : IncOf(code', m, code[n].v) => m \in DOMAIN code,
         NEW q, \A k \in DOMAIN q : \/ q[k].test = 0
                                    \/ \E m \in DOMAIN open : q[k].test = open[m].test
                                    \/ q[k].test > Len(code) /\ q[k].test \in Nat
  PROVE  LoopKnown(code', q, n)
<1> DEFINE h == code[n].v
<1>1. /\ Len(code) \in Nat /\ DOMAIN code = 1..Len(code) /\ Len(code') \in Nat
      /\ Len(code) <= Len(code') /\ DOMAIN code' = 1..Len(code')
  BY ReadyTypes DEF Grew
<1>2. /\ h \in 1..n - 2 /\ n < Len(code) /\ code[h].op \in ForKinds /\ OneWayIn(code, h, n)
      /\ code[h + 1].op = "test"
      /\ \A m \in DOMAIN code : IncOf(code, m, h) => m = n
      /\ \A k \in DOMAIN open : open[k].test # 0 => ~(h < open[k].test /\ open[k].test <= n + 1)
  BY DEF LoopKnown
<1>3. /\ \A i \in 1..Len(code) : code'[i].op = code[i].op /\ code'[i].v = code[i].v
      /\ h \in 1..Len(code) /\ n \in 1..Len(code) /\ h + 1 \in 1..Len(code)
  BY <1>1, <1>2 DEF Grew
<1>4. code'[n].v = h /\ code'[h].op \in ForKinds /\ code'[h + 1].op = "test"
  BY <1>2, <1>3
<1> HIDE DEF h
<1>5. \A m \in DOMAIN code' : IncOf(code', m, h) => m = n
  <2> SUFFICES ASSUME NEW m \in DOMAIN code', IncOf(code', m, h) PROVE m = n
    OBVIOUS
  <2>1. m \in DOMAIN code
    BY DEF h
  <2>2. IncOf(code, m, h)
    BY <1>1, <1>3, <2>1 DEF IncOf
  <2>3. QED BY <1>2, <2>1, <2>2
<1>6. OneWayIn(code', h, n)
  <2> SUFFICES ASSUME NEW i \in Nat, NEW j \in Nat, Jump(code', i, j)
               PROVE  /\ h < j /\ j <= n + 1 => h < i /\ i <= n + 1
                      /\ h + 1 < j /\ j <= n => h + 1 < i /\ i <= n
    BY DEF OneWayIn
  <2>1. CASE i \in 1..Len(code) /\ Jump(code, i, j)
    BY <1>2, <2>1 DEF OneWayIn
  <2>2. CASE j > Len(code)
    BY <1>1, <1>2, <2>2
  <2>3. CASE \E k \in DOMAIN open : open[k].test # 0 /\ j = open[k].test
    <3>1. ~(h < j /\ j <= n + 1)
      BY <1>2, <2>3
    <3>2. QED BY <1>1, <1>2, <3>1
  <2>4. QED BY <2>1, <2>2, <2>3, NewJumps
<1>7. \A k \in DOMAIN q : q[k].test # 0 => ~(h < q[k].test /\ q[k].test <= n + 1)
  BY <1>1, <1>2
<1>8. QED BY <1>1, <1>2, <1>4, <1>5, <1>6, <1>7 DEF LoopKnown

\* The tests of the blocks after a step.
LEMMA TestsOf ==
  ASSUME Ready, Readied, Goes(code, open, code', open'), NEW k \in DOMAIN open'
  PROVE  \/ open'[k].test = 0
         \/ \E m \in DOMAIN open : open'[k].test = open[m].test
         \/ open'[k].test > Len(code) /\ open'[k].test \in Nat
<1>1. /\ Geometry(code', open') /\ open' \in Seq(BlockInProgress) /\ Len(code) \in Nat
  BY ReadyTypes DEF Readied, Emitted, Typed
<1>2. open'[k].test \in Nat /\ open'[k].of \in Nat
  <2>1. open'[k] \in BlockInProgress
    BY <1>1
  <2>2. QED BY <2>1 DEF BlockInProgress
<1>3. CASE SameStatement(code, open, code', open', k)
  BY <1>3 DEF SameStatement
<1>4. CASE NewStatement(code, open, code', open', k)
  <2>1. open'[k].of = Len(code) + 1
    BY <1>4 DEF NewStatement
  <2>2. open'[k].test # 0 => open'[k].test >= open'[k].of
    BY <1>1 DEF Geometry
  <2>3. QED BY <1>1, <1>2, <2>1, <2>2
<1>5. QED BY <1>3, <1>4 DEF Goes

\* A loop in progress stays what it is; patch says what changes in front of it.
LEMMA ForStays ==
  ASSUME Ready, NEW K, Grew(code, open, code', K), code' \in Seq(Instruction),
         NEW m \in DOMAIN open, ForKnown(code, open[m]), open[m].kind \in ForKinds,
         m = Len(open) => \A i \in 1..Len(code) : code'[i] = code[i],
         \A n \in DOMAIN code' : IncOf(code', n, open[m].of) => n \in DOMAIN code,
         NEW b, b.of = open[m].of, b.test = open[m].test,
         \A i \in b.next : i \in open[m].next \/ (i > Len(code) /\ i \in Nat)
  PROVE  ForKnown(code', b)
<1>1. /\ Len(code) \in Nat /\ DOMAIN code = 1..Len(code) /\ Len(code') \in Nat
      /\ Len(code) <= Len(code') /\ DOMAIN code' = 1..Len(code') /\ Len(open) \in DOMAIN open
      /\ open[Len(open)].of \in Nat /\ open[m].of \in Nat /\ open[m].test \in Nat
      /\ \A i \in open[m].next : i \in Nat
  BY ReadyTypes, NotedTypes DEF Grew, Ready
<1>2. /\ b.test = b.of + 1 /\ b.of \in DOMAIN code /\ code[b.of].op \in ForKinds
      /\ b.test \in DOMAIN code /\ code[b.test].op = "test"
      /\ Past(code, b.of) /\ Past(code, b.test)
      /\ \A n \in DOMAIN code : ~IncOf(code, n, b.of)
      /\ \A i \in open[m].next : i > b.test
  BY DEF ForKnown
<1>3. \A i \in 1..Len(code) : code'[i].op = code[i].op /\ code'[i].v = code[i].v
  BY DEF Grew
<1>4. ASSUME NEW x \in {b.of, b.test} PROVE Past(code', x)
  <2>1. Past(code, x) /\ x \in Nat /\ x <= Len(code)
    BY <1>1, <1>2, <1>4
  <2>2. SUFFICES ASSUME NEW i \in Nat, NEW j \in Nat, Jump(code', i, j), j > x PROVE i > x
    BY DEF Past
  <2>3. CASE Jump(code, i, j)
    BY <2>1, <2>2, <2>3 DEF Past
  <2>4. CASE i > Len(code)
    BY <1>1, <2>1, <2>4
  <2>5. CASE i \in Loose(open[Len(open)]) /\ i \in 1..Len(code)
    <3>1. CASE m = Len(open)
      <4>1. Jump(code, i, j)
        BY <1>1, <2>2, <2>5, <3>1 DEF Jump
      <4>2. QED BY <2>1, <2>2, <4>1 DEF Past
    <3>2. CASE m # Len(open)
      <4>1. x < open[Len(open)].of
        BY <1>4, <3>2, AroundFacts
      <4>2. i >= open[Len(open)].of
        BY <2>5, LooseFacts
      <4>3. QED BY <1>1, <2>1, <4>1, <4>2
    <3>3. QED BY <3>1, <3>2
  <2>6. QED BY <2>2, <2>3, <2>4, <2>5, NewJumps
<1>5. \A n \in DOMAIN code' : ~IncOf(code', n, b.of)
  <2> SUFFICES ASSUME NEW n \in DOMAIN code', IncOf(code', n, b.of) PROVE FALSE
    OBVIOUS
  <2>1. n \in DOMAIN code
    OBVIOUS
  <2>2. IncOf(code, n, b.of)
    BY <1>1, <1>3, <2>1 DEF IncOf
  <2>3. QED BY <1>2, <2>1, <2>2
<1>6. \A i \in b.next : i > b.test
  BY <1>1, <1>2
<1>7. b.of \in DOMAIN code' /\ b.test \in DOMAIN code'
  BY <1>1, <1>2
<1>8. QED BY <1>1, <1>2, <1>3, <1>4, <1>5, <1>6, <1>7 DEF ForKnown

\* A step that neither begins nor ends a for loop.
LEMMA NoLoopKeeps ==
  ASSUME Ready, Readied, Looping(code, open), Goes(code, open, code', open'),
         NoLoop(code, open, code', open')
  PROVE  Looping(code', open')
<1> DEFINE K == Ops \ {"inc", "test"}
<1>1. /\ Len(code) \in Nat /\ DOMAIN code = 1..Len(code) /\ Len(code') \in Nat
      /\ Len(code) <= Len(code') /\ DOMAIN code' = 1..Len(code') /\ code' \in Seq(Instruction)
      /\ Grew(code, open, code', K) /\ Len(open) \in DOMAIN open
  BY ReadyTypes DEF Readied, Emitted, Typed, NoLoop, Grew, Ready
<1>2. \A i \in 1..Len(code) : code'[i].op = code[i].op /\ code'[i].v = code[i].v
  BY <1>1 DEF Grew
<1>3. \A i \in DOMAIN code' : code'[i].op \in {"inc", "test"} => i \in DOMAIN code
  <2> SUFFICES ASSUME NEW i \in DOMAIN code', i \notin DOMAIN code
               PROVE  code'[i].op \notin {"inc", "test"}
    OBVIOUS
  <2>1. i \in Len(code) + 1..Len(code')
    BY <1>1
  <2>2. QED BY <1>1, <2>1 DEF Grew
<1>4. \A n \in DOMAIN code' : \A h : IncOf(code', n, h) => n \in DOMAIN code
  BY <1>3 DEF IncOf
<1>5. ASSUME NEW n \in DOMAIN code', code'[n].op = "inc" PROVE LoopKnown(code', open', n)
  <2>1. n \in DOMAIN code /\ code[n].op = "inc" /\ LoopKnown(code, open, n)
    BY <1>1, <1>2, <1>3, <1>5 DEF Looping, LoopsKnown
  <2>2. \A k \in DOMAIN open' : \/ open'[k].test = 0
                                \/ \E m \in DOMAIN open : open'[k].test = open[m].test
                                \/ open'[k].test > Len(code) /\ open'[k].test \in Nat
    BY TestsOf
  <2> HIDE DEF K
  <2>3. QED BY <1>1, <1>4, <2>1, <2>2, LoopStays
<1>6. ASSUME NEW i \in DOMAIN code', code'[i].op = "test" PROVE TestKnown(code', open', i)
  <2>1. i \in DOMAIN code /\ code[i].op = "test" /\ TestKnown(code, open, i)
    BY <1>1, <1>2, <1>3, <1>6 DEF Looping, LoopsKnown
  <2>2. /\ i > 1 /\ code[i].v = i - 1 /\ code[i - 1].op \in ForKinds
        /\ \/ \E n \in DOMAIN code : IncOf(code, n, i - 1)
           \/ \E k \in DOMAIN open : open[k].kind \in ForKinds /\ open[k].of = i - 1
    BY <2>1 DEF TestKnown
  <2>3. code'[i].v = i - 1 /\ code'[i - 1].op \in ForKinds
    <3>1. i - 1 \in 1..Len(code) /\ i \in 1..Len(code)
      BY <1>1, <2>1, <2>2
    <3>2. QED BY <1>2, <2>2, <3>1
  <2>4. ASSUME NEW n \in DOMAIN code, IncOf(code, n, i - 1)
        PROVE  n \in DOMAIN code' /\ IncOf(code', n, i - 1)
    BY <1>1, <1>2, <2>4 DEF IncOf
  <2>5. ASSUME NEW k \in DOMAIN open, open[k].kind \in ForKinds, open[k].of = i - 1
        PROVE  k \in DOMAIN open' /\ open'[k].kind \in ForKinds /\ open'[k].of = i - 1
    BY <2>5 DEF NoLoop
  <2>6. QED BY <2>2, <2>3, <2>4, <2>5 DEF TestKnown
<1>7. ASSUME NEW m \in DOMAIN open' PROVE ForKnown(code', open'[m])
  <2>1. CASE open'[m].kind \notin ForKinds
    BY <2>1 DEF ForKnown
  <2>2. CASE open'[m].kind \in ForKinds
    <3>1. m \in DOMAIN open
      BY <2>2 DEF NoLoop
    <3>2. SameStatement(code, open, code', open', m)
      <4>1. m # Len(open) + 1
        BY <3>1, ReadyTypes
      <4>2. QED BY <1>7, <4>1 DEF Goes, NewStatement
    <3>3. /\ open'[m].of = open[m].of /\ open'[m].test = open[m].test
          /\ open[m].kind \in ForKinds
          /\ \A i \in open'[m].next : i \in open[m].next \/ (i > Len(code) /\ i \in Nat)
      <4>1. open'[m] \in BlockInProgress
        BY DEF Readied, Emitted, Typed
      <4>2. \A i \in open'[m].next : i \in Nat
        BY <4>1 DEF BlockInProgress
      <4>3. QED BY <2>2, <3>2, <4>2 DEF SameStatement, ForKinds
    <3>4. m = Len(open) => \A i \in 1..Len(code) : code'[i] = code[i]
      BY <3>3 DEF NoLoop
    <3>5. ForKnown(code, open[m])
      BY <3>1 DEF Looping
    <3>6. \A n \in DOMAIN code' : IncOf(code', n, open[m].of) => n \in DOMAIN code
      BY <1>4
    <3> HIDE DEF K
    <3>7. QED BY <1>1, <3>1, <3>3, <3>4, <3>5, <3>6, ForStays
  <2>3. QED BY <2>1, <2>2
<1>8. QED BY <1>5, <1>6, <1>7 DEF Looping, LoopsKnown

\* A for loop begins.
LEMMA ForBegins ==
  ASSUME Ready, Readied, Looping(code, open), c_emit_for
  PROVE  Looping(code', open')
<1> DEFINE K == ForKinds \cup {"test"}
           n == Len(code)
           t == Len(open) + 1
<1>1. /\ Grew(code, open, code', K) /\ Goes(code, open, code', open')
      /\ Len(code') = n + 2 /\ DOMAIN open' = 1..t /\ \A m \in DOMAIN open : open'[m] = open[m]
      /\ code'[n + 1].op \in ForKinds /\ code'[n + 2].op = "test" /\ code'[n + 2].v = n + 1
      /\ \A i \in n + 1..Len(code') : code'[i].to = 0
      /\ \A i \in 1..n : code'[i] = code[i]
      /\ open'[t].kind \in ForKinds /\ open'[t].of = n + 1 /\ open'[t].test = n + 2
  BY ForGrows
<1>2. /\ n \in Nat /\ DOMAIN code = 1..n /\ code' \in Seq(Instruction) /\ DOMAIN code' = 1..n + 2
      /\ DOMAIN open = 1..Len(open) /\ Len(open) \in Nat /\ open' \in Seq(BlockInProgress)
      /\ \A m \in DOMAIN open : open[m].of \in 0..n
      /\ Targets(code)
  <2>1. /\ n \in Nat /\ DOMAIN code = 1..n /\ DOMAIN open = 1..Len(open) /\ Len(open) \in Nat
        /\ \A m \in DOMAIN open : open[m].of \in 0..n
    BY ReadyTypes, NotedTypes
  <2>2. code' \in Seq(Instruction) /\ open' \in Seq(BlockInProgress) /\ Targets(code)
    BY DEF Ready, Readied, Emitted, Typed, Nested
  <2>3. DOMAIN code' = 1..n + 2
    BY <1>1, <2>2
  <2> HIDE DEF n
  <2>4. QED BY <2>1, <2>2, <2>3
<1>3. \A i \in DOMAIN code' : i \in DOMAIN code \/ i = n + 1 \/ i = n + 2
  BY <1>2
<1>4. \A m \in DOMAIN code' : \A h : IncOf(code', m, h) => m \in DOMAIN code /\ IncOf(code, m, h)
  <2>1. "inc" \notin ForKinds
    BY DEF ForKinds
  <2>2. QED BY <1>1, <1>2, <1>3, <2>1 DEF IncOf
<1>5. ASSUME NEW i \in DOMAIN code', code'[i].op = "inc" PROVE LoopKnown(code', open', i)
  <2>1. i \in DOMAIN code /\ code[i].op = "inc"
    BY <1>4, <1>5 DEF IncOf
  <2>2. LoopKnown(code, open, i)
    BY <2>1 DEF Looping, LoopsKnown
  <2>3. \A k \in DOMAIN open' : \/ open'[k].test = 0
                                \/ \E m \in DOMAIN open : open'[k].test = open[m].test
                                \/ open'[k].test > Len(code) /\ open'[k].test \in Nat
    BY <1>1, TestsOf
  <2> HIDE DEF K, n, t
  <2>4. QED BY <1>1, <1>2, <1>4, <2>1, <2>2, <2>3, LoopStays
<1>6. ASSUME NEW i \in DOMAIN code', code'[i].op = "test" PROVE TestKnown(code', open', i)
  <2>1. CASE i \in DOMAIN code
    <3>1. TestKnown(code, open, i)
      BY <1>1, <1>2, <1>6, <2>1 DEF Looping, LoopsKnown
    <3>2. /\ i > 1 /\ code[i].v = i - 1 /\ code[i - 1].op \in ForKinds
          /\ \/ \E m \in DOMAIN code : IncOf(code, m, i - 1)
             \/ \E k \in DOMAIN open : open[k].kind \in ForKinds /\ open[k].of = i - 1
      BY <3>1 DEF TestKnown
    <3>3. i - 1 \in 1..n /\ i \in 1..n
      BY <1>2, <2>1, <3>2
    <3>4. code'[i].v = i - 1 /\ code'[i - 1].op \in ForKinds
      BY <1>1, <3>2, <3>3
    <3>5. ASSUME NEW m \in DOMAIN code, IncOf(code, m, i - 1)
          PROVE  m \in DOMAIN code' /\ IncOf(code', m, i - 1)
      BY <1>1, <1>2, <3>5 DEF IncOf
    <3>6. ASSUME NEW k \in DOMAIN open, open[k].kind \in ForKinds, open[k].of = i - 1
          PROVE  k \in DOMAIN open' /\ open'[k].kind \in ForKinds /\ open'[k].of = i - 1
      BY <1>1, <1>2, <3>6
    <3>7. QED BY <3>2, <3>4, <3>5, <3>6 DEF TestKnown
  <2>2. CASE i = n + 2
    <3>1. t \in DOMAIN open' /\ i > 1 /\ i - 1 = n + 1
      BY <1>1, <1>2, <2>2
    <3>2. QED BY <1>1, <2>2, <3>1 DEF TestKnown
  <2>3. CASE i = n + 1
    BY <1>1, <1>6, <2>3 DEF ForKinds
  <2>4. QED BY <1>3, <2>1, <2>2, <2>3
<1>7. ASSUME NEW m \in DOMAIN open' PROVE ForKnown(code', open'[m])
  <2>1. CASE m \in DOMAIN open /\ open[m].kind \in ForKinds
    <3> DEFINE b == open'[m]
    <3>1. b = open[m] /\ ForKnown(code, open[m]) /\ open[m].kind \in ForKinds
      BY <1>1, <2>1 DEF Looping
    <3>2. \A x \in DOMAIN code' : IncOf(code', x, open[m].of) => x \in DOMAIN code
      BY <1>4
    <3>3. \A i \in 1..Len(code) : code'[i] = code[i]
      BY <1>1
    <3>4. \A i \in b.next : i \in open[m].next \/ (i > Len(code) /\ i \in Nat)
      BY <3>1
    <3>5. b.of = open[m].of /\ b.test = open[m].test /\ m \in DOMAIN open
      BY <2>1, <3>1
    <3> HIDE DEF K, n, t, b
    <3>6. ForKnown(code', b)
      BY <1>1, <1>2, <3>1, <3>2, <3>3, <3>4, <3>5, ForStays
    <3>7. QED BY <3>6 DEF b
  <2>2. CASE m \in DOMAIN open /\ open[m].kind \notin ForKinds
    BY <1>1, <2>2 DEF ForKnown
  <2>3. CASE m = t
    <3>1. ASSUME NEW i \in Nat, NEW j \in Nat, Jump(code', i, j) PROVE j <= n + 1
      <4>1. i \in DOMAIN code' /\ code'[i].op \in JumpOps /\ code'[i].to = j /\ j # 0
        BY <3>1 DEF Jump
      <4>2. i \in 1..n
        BY <1>1, <1>2, <4>1
      <4>3. code[i].to <= n + 1
        BY <1>2, <4>2 DEF Targets
      <4>4. QED BY <1>1, <4>1, <4>2, <4>3
    <3>2. Past(code', n + 1) /\ Past(code', n + 2)
      BY <1>2, <3>1 DEF Past
    <3>3. \A x \in DOMAIN code' : ~IncOf(code', x, n + 1)
      <4> SUFFICES ASSUME NEW x \in DOMAIN code', IncOf(code', x, n + 1) PROVE FALSE
        OBVIOUS
      <4>1. x \in 1..n /\ IncOf(code, x, n + 1)
        BY <1>2, <1>4
      <4>2. code[x].op = "inc" /\ code[x].v = n + 1
        BY <4>1 DEF IncOf
      <4>3. LoopKnown(code, open, x)
        BY <1>2, <4>1, <4>2 DEF Looping, LoopsKnown
      <4>4. QED BY <1>2, <4>1, <4>2, <4>3 DEF LoopKnown
    <3>4. open'[t].next = {}
      <4>1. NewStatement(code, open, code', open', t)
        <5>1. ~SameStatement(code, open, code', open', t)
          <6>1. t \notin DOMAIN open
            BY <1>2
          <6>2. QED BY <6>1 DEF SameStatement
        <5>2. QED BY <1>1, <2>3, <5>1 DEF Goes
      <4>2. QED BY <4>1 DEF NewStatement
    <3>5. n + 1 \in DOMAIN code' /\ n + 2 \in DOMAIN code' /\ n + 2 = n + 1 + 1
      BY <1>2
    <3> HIDE DEF K
    <3>6. QED BY <1>1, <2>3, <3>2, <3>3, <3>4, <3>5 DEF ForKnown
  <2>4. QED BY <1>1, <1>2, <2>1, <2>2, <2>3
<1>8. QED BY <1>5, <1>6, <1>7 DEF Looping, LoopsKnown

\* The jumps of a loop that has just been completed.
LEMMA LoopEntered ==
  ASSUME Ready, ForKnown(code, open[Len(open)]), LoopDone(code, open, code'),
         code' \in Seq(Instruction), Grew(code, open, code', {"drop", "inc", "goto"}),
         NEW h, h = open[Len(open)].of
  PROVE  OneWayIn(code', h, Len(code') - 1)
<1> DEFINE b == open[Len(open)]
           n == Len(code') - 1
<1>1. /\ Len(code) \in Nat /\ DOMAIN code = 1..Len(code) /\ Len(code') \in Nat
      /\ DOMAIN code' = 1..Len(code') /\ Len(open) \in DOMAIN open /\ h \in Nat
      /\ \A i \in b.next : i \in Nat
  BY ReadyTypes, NotedTypes DEF Ready
<1>2. /\ b.kind \in ForKinds /\ Len(code') > Len(code) + 1
      /\ code'[n].op = "inc" /\ code'[n + 1].op = "goto" /\ code'[n + 1].to = b.test
      /\ \A i \in Len(code) + 1..n - 1 : code'[i].op = "drop"
      /\ \A i \in 1..Len(code) : \/ code'[i].to = code[i].to
                                 \/ i \in b.exits /\ code'[i].to = n + 2
                                 \/ i \in b.next
  <2>1. n + 1 = Len(code') /\ n - 1 = Len(code') - 2 /\ n + 2 = Len(code') + 1
    BY <1>1
  <2> HIDE DEF n
  <2>2. QED BY <2>1 DEF LoopDone, n
<1>3. /\ b.test = h + 1 /\ h \in 1..Len(code) /\ h + 1 \in 1..Len(code)
      /\ Past(code, h) /\ Past(code, h + 1) /\ \A i \in b.next : i > h + 1
  BY <1>1, <1>2 DEF ForKnown
<1> SUFFICES ASSUME NEW i \in Nat, NEW j \in Nat, Jump(code', i, j)
             PROVE  /\ h < j /\ j <= n + 1 => h < i /\ i <= n + 1
                    /\ h + 1 < j /\ j <= n => h + 1 < i /\ i <= n
  BY DEF OneWayIn
<1>4. i \in 1..Len(code') /\ code'[i].op \in JumpOps /\ code'[i].to = j /\ j # 0
  BY <1>1 DEF Jump
<1>5. CASE i \in 1..Len(code)
  <2>1. i <= n /\ i <= n + 1
    BY <1>1, <1>2, <1>5
  <2>2. CASE code'[i].to = code[i].to
    <3>1. Jump(code, i, j)
      <4>1. code'[i].op = code[i].op
        BY <1>5 DEF Grew
      <4>2. QED BY <1>1, <1>4, <1>5, <2>2, <4>1 DEF Jump
    <3>2. QED BY <1>1, <1>3, <2>1, <3>1 DEF Past
  <2>3. CASE code'[i].to = n + 2
    BY <1>1, <1>4, <2>3
  <2>4. CASE i \in b.next
    BY <1>1, <1>3, <2>1, <2>4
  <2>5. QED BY <1>2, <1>5, <2>2, <2>3, <2>4
<1>6. CASE i \in Len(code) + 1..n - 1
  BY <1>2, <1>4, <1>6 DEF JumpOps
<1>7. CASE i = n
  BY <1>2, <1>4, <1>7 DEF JumpOps
<1>8. CASE i = n + 1
  <2>1. j = h + 1
    BY <1>2, <1>3, <1>4, <1>8
  <2>2. h < n + 1
    BY <1>1, <1>2, <1>3
  <2>3. QED BY <1>1, <1>8, <2>1, <2>2
<1>9. i \in 1..Len(code) \/ i \in Len(code) + 1..n - 1 \/ i = n \/ i = n + 1
  <2>1. n \in Nat /\ n > Len(code) /\ Len(code') = n + 1
    BY <1>1, <1>2
  <2> HIDE DEF n
  <2>2. QED BY <1>1, <1>4, <2>1
<1>10. QED BY <1>5, <1>6, <1>7, <1>8, <1>9

\* A for loop ends.
LEMMA ForEnds ==
  ASSUME Ready, Readied, Looping(code, open), EndFor
  PROVE  Looping(code', open')
<1> DEFINE K == {"drop", "inc", "goto"}
           b == open[Len(open)]
           h == b.of
           n == Len(code') - 1
<1>1. /\ Grew(code, open, code', K) /\ Goes(code, open, code', open') /\ LoopDone(code, open, code')
      /\ DOMAIN open' = 1..Len(open) - 1 /\ \A m \in 1..Len(open) - 1 : open'[m] = open[m]
  BY EndForGrows
<1>2. /\ Len(code) \in Nat /\ DOMAIN code = 1..Len(code) /\ code' \in Seq(Instruction)
      /\ DOMAIN code' = 1..Len(code') /\ Len(code') \in Nat
      /\ DOMAIN open = 1..Len(open) /\ Len(open) \in Nat /\ Len(open) \in DOMAIN open
      /\ h \in Nat /\ open' \in Seq(BlockInProgress)
  <2>1. /\ Len(code) \in Nat /\ DOMAIN code = 1..Len(code)
        /\ DOMAIN open = 1..Len(open) /\ Len(open) \in Nat /\ Len(open) \in DOMAIN open /\ h \in Nat
    BY ReadyTypes DEF Ready
  <2>2. code' \in Seq(Instruction) /\ open' \in Seq(BlockInProgress)
    BY DEF Readied, Emitted, Typed
  <2>3. QED BY <2>1, <2>2
<1>3. /\ b.kind \in ForKinds /\ Len(code') > Len(code) + 1
      /\ code'[n].op = "inc" /\ code'[n].v = h
      /\ code'[n + 1].op = "goto"
      /\ \A i \in Len(code) + 1..n - 1 : code'[i].op = "drop"
  <2>1. n + 1 = Len(code') /\ n - 1 = Len(code') - 2
    BY <1>2
  <2> HIDE DEF n
  <2>2. LoopDone(code, open, code')
    BY <1>1
  <2>3. QED BY <2>1, <2>2 DEF LoopDone, n
<1>4. /\ ForKnown(code, b) /\ b.test = h + 1 /\ h \in 1..Len(code) /\ h + 1 \in 1..Len(code)
      /\ code[h].op \in ForKinds /\ code[h + 1].op = "test"
      /\ \A x \in DOMAIN code : ~IncOf(code, x, h)
  BY <1>2, <1>3 DEF Looping, ForKnown
<1>5. \A i \in 1..Len(code) : code'[i].op = code[i].op /\ code'[i].v = code[i].v
  BY <1>1 DEF Grew
<1>6. n \in 1..Len(code') /\ n > Len(code) /\ n + 1 = Len(code') /\ n \in Nat
  BY <1>2, <1>3
<1>7. \A i \in DOMAIN code' : i \notin DOMAIN code => i \in Len(code) + 1..n - 1 \/ i = n \/ i = n + 1
  BY <1>2, <1>6
<1> HIDE DEF n, b, h, K
<1>8. OneWayIn(code', h, n)
  BY <1>1, <1>2, <1>4, LoopEntered DEF n, b, h, K
<1>9. \A i \in DOMAIN code' : code'[i].op \in {"inc", "test"} => i \in DOMAIN code \/ i = n
  BY <1>3, <1>7
<1>10. ASSUME NEW x \in DOMAIN code', NEW g, IncOf(code', x, g), g # h
       PROVE  x \in DOMAIN code /\ IncOf(code, x, g)
  <2>1. x # n /\ code'[x].op = "inc" /\ code'[x].v = g
    BY <1>3, <1>10 DEF IncOf
  <2>2. x \in DOMAIN code
    BY <1>9, <2>1
  <2>3. QED BY <1>2, <1>5, <2>1, <2>2 DEF IncOf
<1>11. ASSUME NEW x \in DOMAIN code', IncOf(code', x, h) PROVE x = n
  <2>1. code'[x].op = "inc" /\ code'[x].v = h
    BY <1>11 DEF IncOf
  <2>2. CASE x \in DOMAIN code
    <3>1. IncOf(code, x, h)
      BY <1>2, <1>5, <2>1, <2>2 DEF IncOf
    <3>2. QED BY <1>4, <2>2, <3>1
  <2>3. QED BY <1>9, <2>1, <2>2
<1>12. ASSUME NEW m \in DOMAIN open'
       PROVE  /\ m \in DOMAIN open /\ open'[m] = open[m] /\ m # Len(open)
              /\ open[m].of < h /\ open[m].test < h /\ open[m].of \in Nat /\ open[m].test \in Nat
  <2>1. m \in DOMAIN open /\ open'[m] = open[m] /\ m # Len(open)
    BY <1>1, <1>2
  <2>2. QED BY <2>1, AroundFacts, NotedTypes DEF h, b
<1>13. LoopKnown(code', open', n)
  <2>1. /\ h \in 1..n - 2 /\ n < Len(code') /\ code'[h].op \in ForKinds
        /\ code'[h + 1].op = "test"
    BY <1>2, <1>4, <1>5, <1>6
  <2>2. \A k \in DOMAIN open' : ~(h < open'[k].test)
    BY <1>2, <1>12
  <2>3. QED BY <1>3, <1>8, <1>11, <2>1, <2>2 DEF LoopKnown
<1>14. ASSUME NEW i \in DOMAIN code', code'[i].op = "inc" PROVE LoopKnown(code', open', i)
  <2>1. CASE i = n
    BY <1>13, <2>1
  <2>2. CASE i # n
    <3>1. i \in DOMAIN code /\ code[i].op = "inc"
      BY <1>2, <1>5, <1>9, <1>14, <2>2
    <3>2. LoopKnown(code, open, i)
      BY <3>1 DEF Looping, LoopsKnown
    <3>3. code[i].v # h
      BY <1>4, <3>1 DEF IncOf
    <3>4. \A m \in DOMAIN code' : IncOf(code', m, code[i].v) => m \in DOMAIN code
      BY <1>10, <3>3
    <3>5. \A k \in DOMAIN open' : \/ open'[k].test = 0
                                  \/ \E m \in DOMAIN open : open'[k].test = open[m].test
                                  \/ open'[k].test > Len(code) /\ open'[k].test \in Nat
      BY <1>12
    <3>6. QED BY <1>1, <1>2, <3>1, <3>2, <3>4, <3>5, LoopStays
  <2>3. QED BY <2>1, <2>2
<1>15. ASSUME NEW i \in DOMAIN code', code'[i].op = "test" PROVE TestKnown(code', open', i)
  <2>1. i \in DOMAIN code
    BY <1>3, <1>9, <1>15
  <2>2. TestKnown(code, open, i)
    BY <1>2, <1>5, <1>15, <2>1 DEF Looping, LoopsKnown
  <2>3. /\ i > 1 /\ code[i].v = i - 1 /\ code[i - 1].op \in ForKinds
        /\ \/ \E m \in DOMAIN code : IncOf(code, m, i - 1)
           \/ \E k \in DOMAIN open : open[k].kind \in ForKinds /\ open[k].of = i - 1
    BY <2>2 DEF TestKnown
  <2>4. code'[i].v = i - 1 /\ code'[i - 1].op \in ForKinds
    <3>1. i - 1 \in 1..Len(code) /\ i \in 1..Len(code)
      BY <1>2, <2>1, <2>3
    <3>2. QED BY <1>5, <2>3, <3>1
  <2>5. ASSUME NEW m \in DOMAIN code, IncOf(code, m, i - 1)
        PROVE  m \in DOMAIN code' /\ IncOf(code', m, i - 1)
    <3>1. m \in DOMAIN code'
      BY <1>2, <1>6
    <3>2. QED BY <1>2, <1>5, <2>5, <3>1 DEF IncOf
  <2>6. ASSUME NEW k \in DOMAIN open, open[k].kind \in ForKinds, open[k].of = i - 1
        PROVE  \/ \E m \in DOMAIN code' : IncOf(code', m, i - 1)
               \/ k \in DOMAIN open' /\ open'[k].kind \in ForKinds /\ open'[k].of = i - 1
    <3>1. CASE k = Len(open)
      <4>1. h = i - 1 /\ n \in DOMAIN code'
        BY <1>2, <1>6, <2>6, <3>1 DEF h, b
      <4>2. QED BY <1>3, <4>1 DEF IncOf
    <3>2. CASE k # Len(open)
      BY <1>1, <1>2, <2>6, <3>2
    <3>3. QED BY <3>1, <3>2
  <2>7. QED BY <2>3, <2>4, <2>5, <2>6 DEF TestKnown
<1>16. ASSUME NEW m \in DOMAIN open' PROVE ForKnown(code', open'[m])
  <2> DEFINE c == open'[m]
  <2>1. CASE open[m].kind \in ForKinds
    <3>1. c = open[m] /\ ForKnown(code, open[m]) /\ m \in DOMAIN open /\ m # Len(open)
      BY <1>12 DEF Looping
    <3>2. \A x \in DOMAIN code' : IncOf(code', x, open[m].of) => x \in DOMAIN code
      <4>1. open[m].of # h
        BY <1>2, <1>12
      <4>2. QED BY <1>10, <4>1
    <3>3. \A i \in c.next : i \in open[m].next \/ (i > Len(code) /\ i \in Nat)
      BY <3>1
    <3>4. c.of = open[m].of /\ c.test = open[m].test
      BY <3>1
    <3> HIDE DEF c
    <3>5. ForKnown(code', c)
      BY <1>1, <1>2, <2>1, <3>1, <3>2, <3>3, <3>4, ForStays
    <3>6. QED BY <3>5 DEF c
  <2>2. CASE open[m].kind \notin ForKinds
    BY <1>12, <2>2 DEF ForKnown
  <2>3. QED BY <2>1, <2>2
<1>17. QED BY <1>14, <1>15, <1>16 DEF Looping, LoopsKnown

\* What is known of loops is kept by the emission.
LEMMA LoopingKeeps ==
  ASSUME Ready, Readied, Looping(code, open), EmitMore
  PROVE  Looping(code', open')
<1>1. c_emit_for \/ EndFor \/ NoLoop(code, open, code', open')
  BY EmitLoops
<1>2. Goes(code, open, code', open')
  BY EmitGrows
<1>3. QED BY <1>1, <1>2, NoLoopKeeps, ForBegins, ForEnds

\* ... and by the end of the function, when every loop is complete.
LEMMA LoopingEnds ==
  ASSUME Ready, Looping(code, open), EndFunction
  PROVE  LoopsKnown(code', <<>>)
<1> DEFINE K == {"drop", "return"}
<1>1. Grew(code, open, code', K) /\ code' \in Seq(Instruction)
  BY EndFunctionGrows
<1>2. /\ Len(code) \in Nat /\ DOMAIN code = 1..Len(code) /\ Len(code') \in Nat
      /\ Len(code) <= Len(code') /\ DOMAIN code' = 1..Len(code') /\ Len(open) \in DOMAIN open
      /\ DOMAIN open = 1..Len(open) /\ Len(open) \in Nat
      /\ open[Len(open)].kind = "func" /\ Geometry(code, open)
  BY <1>1, ReadyTypes DEF Grew, Ready, EndFunction, Emitted
<1>3. \A i \in 1..Len(code) : code'[i].op = code[i].op /\ code'[i].v = code[i].v
  BY <1>1 DEF Grew
<1>4. \A i \in DOMAIN code' : code'[i].op \in {"inc", "test"} => i \in DOMAIN code
  <2> SUFFICES ASSUME NEW i \in DOMAIN code', i \notin DOMAIN code
               PROVE  code'[i].op \notin {"inc", "test"}
    OBVIOUS
  <2>1. i \in Len(code) + 1..Len(code')
    BY <1>2
  <2>2. QED BY <1>1, <2>1 DEF Grew
<1>5. ASSUME NEW k \in DOMAIN open PROVE open[k].kind = "func"
  <2>1. Len(open) = 1
    BY <1>2 DEF Geometry
  <2>2. k = Len(open)
    BY <1>2, <2>1
  <2>3. QED BY <1>2, <2>2
<1> HIDE DEF K
<1>6. ASSUME NEW i \in DOMAIN code', code'[i].op = "inc" PROVE LoopKnown(code', <<>>, i)
  <2>1. i \in DOMAIN code /\ code[i].op = "inc" /\ LoopKnown(code, open, i)
    BY <1>2, <1>3, <1>4, <1>6 DEF Looping, LoopsKnown
  <2>2. \A m \in DOMAIN code' : IncOf(code', m, code[i].v) => m \in DOMAIN code
    BY <1>4 DEF IncOf
  <2> DEFINE q == <<>>
  <2>3. \A k \in DOMAIN q : \/ q[k].test = 0
                            \/ \E m \in DOMAIN open : q[k].test = open[m].test
                            \/ q[k].test > Len(code) /\ q[k].test \in Nat
    OBVIOUS
  <2> HIDE DEF q
  <2>4. LoopKnown(code', q, i)
    BY <1>1, <2>1, <2>2, <2>3, LoopStays
  <2>5. QED BY <2>4 DEF q
<1>7. ASSUME NEW i \in DOMAIN code', code'[i].op = "test" PROVE TestKnown(code', <<>>, i)
  <2>1. i \in DOMAIN code /\ code[i].op = "test" /\ TestKnown(code, open, i)
    BY <1>2, <1>3, <1>4, <1>7 DEF Looping, LoopsKnown
  <2>2. /\ i > 1 /\ code[i].v = i - 1 /\ code[i - 1].op \in ForKinds
        /\ \E n \in DOMAIN code : IncOf(code, n, i - 1)
    BY <1>5, <2>1 DEF TestKnown, ForKinds
  <2>3. code'[i].v = i - 1 /\ code'[i - 1].op \in ForKinds
    <3>1. i - 1 \in 1..Len(code) /\ i \in 1..Len(code)
      BY <1>2, <2>1, <2>2
    <3>2. QED BY <1>3, <2>2, <3>1
  <2>4. ASSUME NEW n \in DOMAIN code, IncOf(code, n, i - 1)
        PROVE  n \in DOMAIN code' /\ IncOf(code', n, i - 1)
    BY <1>2, <1>3, <2>4 DEF IncOf
  <2>5. QED BY <2>2, <2>3, <2>4 DEF TestKnown
<1>8. QED BY <1>6, <1>7 DEF LoopsKnown

----------------------------------------------------------------------------
(* Which jumps lead to the next turn of a loop.                            *)

\* The end of a complete loop is its increment and a jump back to its test, which nobody is
\* going to patch.  Nothing leads between the two, and in a loop over an array nothing else
\* leads to the test.
SteadyLoop(c, o, n) ==
  LET h == c[n].v IN
  /\ c[n + 1].to = h + 1
  /\ \A k \in DOMAIN o : n + 1 \notin o[k].exits \cup o[k].next
  /\ \A i \in Nat : ~Jump(c, i, n + 1)
  /\ c[h].op = "array" => \A i \in Nat : Jump(c, i, h + 1) => i = n + 1

\* A for block in progress is of the kind of its head; a jump to the test of an array loop is
\* a continue, which c_emit_continue has noted.
SteadyFor(c, b) ==
  b.kind \in ForKinds =>
    /\ c[b.of].op = b.kind
    /\ b.kind = "array" => \A i \in Nat : Jump(c, i, b.test) => i \in b.next

SteadyLoops(c, o) == \A n \in DOMAIN c : c[n].op = "inc" => SteadyLoop(c, o, n)

Steady(c, o) == SteadyLoops(c, o) /\ \A k \in DOMAIN o : SteadyFor(c, o[k])

\* What holds of a complete loop goes on to hold.
LEMMA SteadyStays ==
  ASSUME Ready, NEW K, Grew(code, open, code', K), code' \in Seq(Instruction),
         NEW n \in DOMAIN code, code[n].op = "inc", LoopKnown(code, open, n),
         SteadyLoop(code, open, n),
         NEW q, \A k \in DOMAIN q : \A i \in q[k].exits \cup q[k].next :
                  i > Len(code) \/ \E m \in DOMAIN open : i \in open[m].exits \cup open[m].next
  PROVE  SteadyLoop(code', q, n)
<1> DEFINE h == code[n].v
<1>1. /\ Len(code) \in Nat /\ DOMAIN code = 1..Len(code) /\ Len(open) \in DOMAIN open
      /\ h \in 1..n - 2 /\ n < Len(code) /\ n \in 1..Len(code) /\ n + 1 \in 1..Len(code)
      /\ h \in 1..Len(code) /\ h + 1 \in 1..Len(code)
      /\ \A k \in DOMAIN open : open[k].test # 0 => ~(h < open[k].test /\ open[k].test <= n + 1)
  <2>1. /\ Len(code) \in Nat /\ DOMAIN code = 1..Len(code) /\ Len(open) \in DOMAIN open
    BY ReadyTypes DEF Ready
  <2>2. /\ h \in 1..n - 2 /\ n < Len(code)
        /\ \A k \in DOMAIN open : open[k].test # 0 => ~(h < open[k].test /\ open[k].test <= n + 1)
    BY DEF LoopKnown
  <2> HIDE DEF h
  <2>3. QED BY <2>1, <2>2
<1>2. /\ code[n + 1].to = h + 1
      /\ \A k \in DOMAIN open : n + 1 \notin open[k].exits \cup open[k].next
      /\ \A i \in Nat : ~Jump(code, i, n + 1)
      /\ code[h].op = "array" => \A i \in Nat : Jump(code, i, h + 1) => i = n + 1
  BY DEF SteadyLoop
<1>3. \A i \in 1..Len(code) : code'[i].op = code[i].op /\ code'[i].v = code[i].v
  BY DEF Grew
<1>4. code'[n].v = h /\ code'[h].op = code[h].op
  BY <1>1, <1>3
<1> HIDE DEF h
<1>5. code'[n + 1].to = h + 1
  <2>1. \/ code'[n + 1].to = code[n + 1].to
        \/ n + 1 \in Loose(open[Len(open)])
    BY <1>1 DEF Grew
  <2>2. CASE n + 1 \in Loose(open[Len(open)])
    <3>1. open[Len(open)].kind = "try" /\ n + 1 = open[Len(open)].of
      BY <1>1, <1>2, <2>2 DEF Loose
    <3>2. code[open[Len(open)].of].to = 0
      BY <1>1, <3>1 DEF Ready, Emitted, Geometry
    <3>3. QED BY <1>1, <1>2, <3>1, <3>2
  <2>3. QED BY <1>2, <2>1, <2>2
<1>6. ASSUME NEW k \in DOMAIN q, n + 1 \in q[k].exits \cup q[k].next PROVE FALSE
  <2>1. ~(n + 1 > Len(code))
    BY <1>1
  <2>2. \E m \in DOMAIN open : n + 1 \in open[m].exits \cup open[m].next
    BY <1>6, <2>1
  <2>3. QED BY <1>2, <2>2
<1>7. ASSUME NEW i \in Nat, NEW j \in {h + 1, n + 1}, Jump(code', i, j) PROVE Jump(code, i, j)
  <2>1. j \in Nat /\ h < j /\ j <= n + 1 /\ j <= Len(code)
    BY <1>1
  <2>2. CASE j > Len(code)
    BY <1>1, <2>1, <2>2
  <2>3. CASE \E k \in DOMAIN open : open[k].test # 0 /\ j = open[k].test
    BY <1>1, <2>1, <2>3
  <2>4. QED BY <1>7, <2>1, <2>2, <2>3, NewJumps
<1>8. QED BY <1>2, <1>4, <1>5, <1>6, <1>7 DEF SteadyLoop

\* The loops noted by the blocks after a step are old or new.
LEMMA NotedAfter ==
  ASSUME Ready, Goes(code, open, code', open'), NEW k \in DOMAIN open',
         NEW i \in open'[k].exits \cup open'[k].next
  PROVE  i > Len(code) \/ \E m \in DOMAIN open : i \in open[m].exits \cup open[m].next
<1>1. CASE SameStatement(code, open, code', open', k)
  <2>1. Len(code) \in Nat
    BY ReadyTypes
  <2>2. QED BY <1>1, <2>1 DEF SameStatement
<1>2. CASE NewStatement(code, open, code', open', k)
  <2>1. Len(code) \in Nat
    BY ReadyTypes
  <2>2. QED BY <1>2, <2>1 DEF NewStatement
<1>3. QED BY <1>1, <1>2 DEF Goes

\* Different blocks in progress have different tests.
LEMMA OwnTests ==
  ASSUME Ready, NEW j \in DOMAIN open, NEW k \in DOMAIN open, open[j].test = open[k].test,
         open[j].test # 0
  PROVE  j = k
<1>1. /\ Geometry(code, open) /\ j \in Nat /\ k \in Nat /\ DOMAIN open = 1..Len(open)
      /\ Len(open) \in Nat
      /\ \A m \in DOMAIN open : open[m].of \in Nat /\ open[m].test \in Nat
  BY ReadyTypes, NotedTypes DEF Ready, Emitted
<1>2. ASSUME NEW x \in DOMAIN open, NEW y \in DOMAIN open, x < y, open[y].test # 0
      PROVE  open[x].test # open[y].test
  <2>1. x \in 1..y - 1
    BY <1>1, <1>2
  <2>2. open[x].test < open[y].of /\ open[y].test >= open[y].of
    BY <1>1, <1>2, <2>1 DEF Geometry
  <2>3. QED BY <1>1, <2>2
<1>3. QED BY <1>1, <1>2

\* c_emit_continue notes its jump if it is in an array loop.
LEMMA ContinueNoted ==
  ASSUME Ready, c_emit_continue, NEW k \in DOMAIN open, open[k].test # 0, NEW i \in DOMAIN code',
         i > Len(code), code'[i].to = open[k].test, open[k].kind = "array"
  PROVE  i \in open'[k].next
<1> DEFINE m == InnermostOf(Loops)
<1>1. m # 0
  BY DEF c_emit_continue
<1>2. m \in DOMAIN open /\ open[m].kind \in Loops
  BY <1>1, InnermostFacts, ReadyTypes
<1> HIDE DEF m
<1>3. /\ code' = Append(code, Instr("goto", 0, Block, open[m].test))
      /\ open' = IF open[m].kind = "array"
                 THEN [open EXCEPT ![m] = [open[m] EXCEPT !.next = open[m].next \cup {Here}]]
                 ELSE open
  BY DEF c_emit_continue, m
<1>4. /\ Here = Len(code) + 1 /\ Len(code) \in Nat /\ code \in Seq(Instruction) /\ Block \in Nat
      /\ open[m].test \in Nat /\ open[m] \in BlockInProgress
  BY <1>2, ReadyTypes, NotedTypes
<1>5. Instr("goto", 0, Block, open[m].test).to = open[m].test
  BY DEF Instr
<1>6. /\ i = Here /\ code'[i].to = open[m].test
  <2>1. DOMAIN code' = 1..Len(code) + 1 /\ code'[Len(code) + 1] = Instr("goto", 0, Block, open[m].test)
    BY <1>3, <1>4
  <2>2. i = Len(code) + 1
    BY <1>4, <2>1
  <2>3. QED BY <1>4, <1>5, <2>1, <2>2
<1>7. k = m
  BY <1>2, <1>6, OwnTests
<1>8. [open[m] EXCEPT !.next = open[m].next \cup {Here}].next = open[m].next \cup {Here}
  BY <1>4 DEF BlockInProgress
<1>9. QED BY <1>2, <1>3, <1>6, <1>7, <1>8

\* A for loop that goes on: only c_emit_continue adds a jump to its test.
LEMMA SteadyGoesOn ==
  ASSUME Ready, Goes(code, open, code', open'), Grew(code, open, code', Ops),
         code' \in Seq(Instruction), NEW m \in DOMAIN open, m \in DOMAIN open',
         open'[m].kind \in ForKinds, ForKnown(code, open[m]), SteadyFor(code, open[m]),
         EndWhile \/ EndFor => Len(open) \notin DOMAIN open'
  PROVE  SteadyFor(code', open'[m])
<1>1. /\ Len(code) \in Nat /\ DOMAIN code = 1..Len(code) /\ DOMAIN code' = 1..Len(code')
      /\ DOMAIN open = 1..Len(open) /\ Len(open) \in Nat
  BY ReadyTypes
<1>2. SameStatement(code, open, code', open', m)
  <2>1. m # Len(open) + 1
    BY <1>1
  <2>2. QED BY <2>1 DEF Goes, NewStatement
<1>3. /\ open'[m].of = open[m].of /\ open'[m].test = open[m].test /\ open'[m].kind = open[m].kind
      /\ open[m].next \subseteq open'[m].next
  BY <1>2 DEF SameStatement, ForKinds
<1>4. /\ open[m].of \in 1..Len(code) /\ open[m].test \in 1..Len(code)
      /\ code[open[m].of].op = open[m].kind
      /\ open[m].kind = "array" => \A i \in Nat : Jump(code, i, open[m].test) => i \in open[m].next
  BY <1>1, <1>3 DEF ForKnown, SteadyFor
<1>5. code'[open[m].of].op = code[open[m].of].op
  BY <1>4 DEF Grew
<1>6. ASSUME NEW i \in Nat, Jump(code', i, open[m].test), open[m].kind = "array"
      PROVE  i \in open'[m].next
  <2>1. CASE Jump(code, i, open[m].test)
    BY <1>3, <1>4, <1>6, <2>1
  <2>2. CASE open[m].test > Len(code)
    BY <1>1, <1>4, <2>2
  <2>3. CASE /\ i > Len(code)
             /\ \E k \in DOMAIN open : open[k].test # 0 /\ open[m].test = open[k].test
                                       /\ JumpsBack(open, k)
    <3>1. PICK k \in DOMAIN open : open[k].test # 0 /\ open[m].test = open[k].test /\ JumpsBack(open, k)
      BY <2>3
    <3>2. k = m
      BY <3>1, OwnTests
    <3>3. c_emit_continue
      BY <3>1, <3>2 DEF JumpsBack
    <3>4. i \in DOMAIN code' /\ code'[i].to = open[m].test
      BY <1>6 DEF Jump
    <3>5. QED BY <1>6, <2>3, <3>1, <3>2, <3>3, <3>4, ContinueNoted
  <2>4. open[m].test \in Nat
    BY <1>4
  <2>5. QED BY <1>6, <2>1, <2>2, <2>3, <2>4, NewJumps
<1>7. QED BY <1>3, <1>4, <1>5, <1>6 DEF SteadyFor

\* A for loop that has just been completed: its end jumps back and continue leads to its
\* increment.
LEMMA SteadyBegins ==
  ASSUME Ready, EndFor, LoopDone(code, open, code'), code' \in Seq(Instruction),
         Grew(code, open, code', {"drop", "inc", "goto"}),
         ForKnown(code, open[Len(open)]), SteadyFor(code, open[Len(open)]),
         DOMAIN open' = 1..Len(open) - 1, \A m \in 1..Len(open) - 1 : open'[m] = open[m]
  PROVE  SteadyLoop(code', open', Len(code') - 1)
<1> DEFINE b == open[Len(open)]
           h == b.of
           n == Len(code') - 1
<1>1. /\ Len(code) \in Nat /\ DOMAIN code = 1..Len(code) /\ Len(code') \in Nat
      /\ DOMAIN code' = 1..Len(code') /\ Len(open) \in DOMAIN open /\ Len(open) \in Nat
      /\ DOMAIN open = 1..Len(open) /\ h \in Nat /\ Targets(code)
  <2>1. /\ Len(code) \in Nat /\ DOMAIN code = 1..Len(code) /\ Len(open) \in DOMAIN open
        /\ Len(open) \in Nat /\ DOMAIN open = 1..Len(open) /\ h \in Nat
    BY ReadyTypes DEF Ready
  <2>2. Targets(code)
    BY DEF Ready, Emitted, Nested
  <2>3. QED BY <2>1, <2>2
<1>2. /\ b.kind \in ForKinds /\ Len(code') > Len(code) + 1
      /\ code'[n].op = "inc" /\ code'[n].v = h
      /\ code'[n + 1].op = "goto" /\ code'[n + 1].to = b.test
      /\ \A i \in Len(code) + 1..n - 1 : code'[i].op = "drop"
      /\ \A i \in 1..Len(code) : \/ code'[i].to = code[i].to
                                 \/ i \in b.exits /\ code'[i].to = n + 2
                                 \/ i \in b.next
      /\ \A i \in 1..Len(code) : i \in b.next => code'[i].to \in {n, n + 2}
  <2>1. n + 1 = Len(code') /\ n - 1 = Len(code') - 2 /\ n + 2 = Len(code') + 1
    BY <1>1
  <2> HIDE DEF n
  <2>2. QED BY <2>1 DEF LoopDone, n
<1>3. /\ b.test = h + 1 /\ h \in 1..Len(code) /\ h + 1 \in 1..Len(code)
      /\ code[h].op = b.kind
      /\ b.kind = "array" => \A i \in Nat : Jump(code, i, b.test) => i \in b.next
  BY <1>1, <1>2 DEF ForKnown, SteadyFor
<1>4. /\ n \in Nat /\ n > Len(code) /\ n + 1 = Len(code') /\ n \in 1..Len(code')
  BY <1>1, <1>2
<1>5. code'[h].op = code[h].op
  BY <1>3 DEF Grew
<1> HIDE DEF n, h, b
<1>6. ASSUME NEW k \in DOMAIN open', n + 1 \in open'[k].exits \cup open'[k].next PROVE FALSE
  <2>1. k \in DOMAIN open /\ open'[k] = open[k]
    BY <1>1
  <2>2. n + 1 \in 1..Len(code)
    BY <1>6, <2>1, NotedTypes
  <2>3. QED BY <1>1, <1>4, <2>2
<1>7. ASSUME NEW i \in Nat, NEW j \in {h + 1, n + 1}, Jump(code', i, j)
      PROVE  j = h + 1 /\ (i = n + 1 \/ (i \in 1..Len(code) /\ i \notin b.next /\ Jump(code, i, j)))
  <2>1. i \in 1..Len(code') /\ code'[i].op \in JumpOps /\ code'[i].to = j /\ j # 0
    BY <1>1, <1>7 DEF Jump
  <2>2. CASE i \in 1..Len(code)
    <3>1. i \notin b.next /\ code'[i].to = code[i].to
      <4>1. j < n \/ j = n + 1
        BY <1>1, <1>3, <1>4
      <4>2. j # n /\ j # n + 2
        BY <1>4, <4>1
      <4>3. QED BY <1>2, <2>1, <2>2, <4>2
    <3>2. Jump(code, i, j)
      <4>1. code'[i].op = code[i].op
        BY <2>2 DEF Grew
      <4>2. QED BY <1>1, <2>1, <2>2, <3>1, <4>1 DEF Jump
    <3>3. code[i].to <= Len(code) + 1
      BY <1>1, <2>2 DEF Targets
    <3>4. j # n + 1
      BY <1>1, <1>4, <2>1, <3>1, <3>3
    <3>5. QED BY <2>2, <3>1, <3>2, <3>4
  <2>3. CASE i \in Len(code) + 1..n - 1
    BY <1>2, <2>1, <2>3 DEF JumpOps
  <2>4. CASE i = n
    BY <1>2, <2>1, <2>4 DEF JumpOps
  <2>5. CASE i = n + 1
    BY <1>1, <1>2, <1>3, <1>4, <2>1, <2>5
  <2>6. i \in 1..Len(code) \/ i \in Len(code) + 1..n - 1 \/ i = n \/ i = n + 1
    BY <1>1, <1>4, <2>1
  <2>7. QED BY <2>2, <2>3, <2>4, <2>5, <2>6
<1>8. h + 1 # n + 1
  BY <1>1, <1>3, <1>4
<1>9. \A i \in Nat : ~Jump(code', i, n + 1)
  BY <1>7, <1>8
<1>10. code'[h].op = "array" => \A i \in Nat : Jump(code', i, h + 1) => i = n + 1
  BY <1>3, <1>5, <1>7
<1>11. SteadyLoop(code', open', n)
  BY <1>2, <1>3, <1>6, <1>9, <1>10 DEF SteadyLoop
<1>12. QED BY <1>11 DEF n

\* What is known of these jumps is kept by the emission.
LEMMA SteadyKeeps ==
  ASSUME Ready, Readied, Looping(code, open), Steady(code, open), EmitMore
  PROVE  Steady(code', open')
<1>1. /\ Grew(code, open, code', Ops) /\ Goes(code, open, code', open')
      /\ c_emit_for \/ EndFor \/ NoLoop(code, open, code', open')
      /\ code' \in Seq(Instruction)
  BY EmitGrows, EmitLoops DEF Readied, Emitted, Typed
<1>2. /\ Len(code) \in Nat /\ DOMAIN code = 1..Len(code) /\ Len(code') \in Nat
      /\ DOMAIN code' = 1..Len(code') /\ DOMAIN open = 1..Len(open) /\ Len(open) \in Nat
      /\ Len(open) \in DOMAIN open
  BY <1>1, ReadyTypes DEF Ready
<1>3. ASSUME NEW n \in DOMAIN code, code'[n].op = "inc" PROVE SteadyLoop(code', open', n)
  <2>1. code[n].op = "inc"
    BY <1>1, <1>2, <1>3 DEF Grew
  <2>2. LoopKnown(code, open, n) /\ SteadyLoop(code, open, n)
    BY <2>1 DEF Looping, LoopsKnown, Steady, SteadyLoops
  <2>3. \A k \in DOMAIN open' : \A i \in open'[k].exits \cup open'[k].next :
          i > Len(code) \/ \E m \in DOMAIN open : i \in open[m].exits \cup open[m].next
    BY <1>1, NotedAfter
  <2>4. QED BY <1>1, <2>1, <2>2, <2>3, SteadyStays
<1>4. EndWhile \/ EndFor => Len(open) \notin DOMAIN open'
  <2>1. ASSUME EndWhile \/ EndFor PROVE open' = Front(open)
    BY <2>1 DEF EndWhile, EndFor, CloseBlock
  <2>2. ASSUME open' = Front(open) PROVE DOMAIN open' = 1..Len(open) - 1
    BY <2>2, GoesClosed
  <2>3. Len(open) \notin 1..Len(open) - 1
    BY <1>2
  <2>4. QED BY <2>1, <2>2, <2>3
<1>5. ASSUME NEW m \in DOMAIN open', m \in DOMAIN open, open'[m].kind \in ForKinds
      PROVE  SteadyFor(code', open'[m])
  <2>1. ForKnown(code, open[m]) /\ SteadyFor(code, open[m])
    BY <1>5 DEF Looping, Steady
  <2>2. QED BY <1>1, <1>4, <1>5, <2>1, SteadyGoesOn
<1>6. CASE NoLoop(code, open, code', open')
  <2>1. ASSUME NEW n \in DOMAIN code', code'[n].op = "inc" PROVE n \in DOMAIN code
    <3>1. SUFFICES ASSUME n \notin DOMAIN code PROVE FALSE
      OBVIOUS
    <3>2. n \in Len(code) + 1..Len(code')
      BY <1>2, <3>1
    <3>3. QED BY <1>6, <2>1, <3>2 DEF NoLoop, Grew
  <2>2. SteadyLoops(code', open')
    BY <1>3, <2>1 DEF SteadyLoops
  <2>3. ASSUME NEW m \in DOMAIN open', open'[m].kind \in ForKinds PROVE m \in DOMAIN open
    BY <1>6, <2>3 DEF NoLoop
  <2>4. \A m \in DOMAIN open' : SteadyFor(code', open'[m])
    BY <1>5, <2>3 DEF SteadyFor
  <2>5. QED BY <2>2, <2>4 DEF Steady
<1>7. CASE c_emit_for
  <2> DEFINE n == Len(code)
             t == Len(open) + 1
  <2>1. /\ Grew(code, open, code', ForKinds \cup {"test"}) /\ DOMAIN open' = 1..t
        /\ \A i \in n + 1..Len(code') : code'[i].to = 0
        /\ \A i \in 1..n : code'[i] = code[i]
        /\ code'[n + 1].op = open'[t].kind
        /\ open'[t].of = n + 1 /\ open'[t].test = n + 2
    BY <1>7, ForGrows
  <2>2. ASSUME NEW x \in DOMAIN code', code'[x].op = "inc" PROVE x \in DOMAIN code
    <3>1. SUFFICES ASSUME x \notin DOMAIN code PROVE FALSE
      OBVIOUS
    <3>2. x \in Len(code) + 1..Len(code')
      BY <1>2, <3>1
    <3>3. code'[x].op \in ForKinds \cup {"test"}
      BY <2>1, <3>2 DEF Grew
    <3>4. QED BY <2>2, <3>3 DEF ForKinds
  <2>3. SteadyLoops(code', open')
    BY <1>3, <2>2 DEF SteadyLoops
  <2>4. ASSUME NEW i \in Nat PROVE ~Jump(code', i, n + 2)
    <3>1. SUFFICES ASSUME Jump(code', i, n + 2) PROVE FALSE
      OBVIOUS
    <3>2. i \in 1..Len(code') /\ code'[i].to = n + 2
      BY <1>2, <3>1 DEF Jump
    <3>3. i \in 1..n
      BY <1>2, <2>1, <3>2
    <3>4. code[i].to <= n + 1
      BY <1>2, <3>3 DEF Ready, Emitted, Nested, Targets
    <3>5. QED BY <1>2, <2>1, <3>2, <3>3, <3>4
  <2>5. SteadyFor(code', open'[t])
    BY <2>1, <2>4 DEF SteadyFor
  <2>6. ASSUME NEW m \in DOMAIN open', m # t PROVE m \in DOMAIN open
    BY <1>2, <2>1, <2>6
  <2> HIDE DEF n, t
  <2>7. \A m \in DOMAIN open' : SteadyFor(code', open'[m])
    BY <1>5, <2>5, <2>6 DEF SteadyFor
  <2>8. QED BY <2>3, <2>7 DEF Steady
<1>8. CASE EndFor
  <2> DEFINE n == Len(code') - 1
  <2>1. /\ Grew(code, open, code', {"drop", "inc", "goto"}) /\ LoopDone(code, open, code')
        /\ DOMAIN open' = 1..Len(open) - 1 /\ \A m \in 1..Len(open) - 1 : open'[m] = open[m]
    BY <1>8, EndForGrows
  <2>2. ForKnown(code, open[Len(open)]) /\ SteadyFor(code, open[Len(open)])
    BY <1>2 DEF Looping, Steady
  <2>3. SteadyLoop(code', open', n)
    BY <1>1, <1>8, <2>1, <2>2, SteadyBegins
  <2>4. ASSUME NEW x \in DOMAIN code', code'[x].op = "inc", x # n PROVE x \in DOMAIN code
    <3>1. SUFFICES ASSUME x \notin DOMAIN code PROVE FALSE
      OBVIOUS
    <3>2. x \in Len(code) + 1..Len(code') - 2 \/ x = Len(code')
      BY <1>2, <2>4, <3>1
    <3>3. code'[x].op \in {"drop", "goto"}
      BY <2>1, <3>2 DEF LoopDone
    <3>4. QED BY <2>4, <3>3
  <2> HIDE DEF n
  <2>5. SteadyLoops(code', open')
    BY <1>3, <2>3, <2>4 DEF SteadyLoops
  <2>6. \A m \in DOMAIN open' : m \in DOMAIN open
    BY <1>2, <2>1
  <2>7. \A m \in DOMAIN open' : SteadyFor(code', open'[m])
    BY <1>5, <2>6 DEF SteadyFor
  <2>8. QED BY <2>5, <2>7 DEF Steady
<1>9. QED BY <1>1, <1>6, <1>7, <1>8

\* ... and by the end of the function.
LEMMA SteadyEnds ==
  ASSUME Ready, Looping(code, open), Steady(code, open), EndFunction
  PROVE  SteadyLoops(code', <<>>)
<1> DEFINE K == {"drop", "return"}
<1>1. Grew(code, open, code', K) /\ code' \in Seq(Instruction)
  BY EndFunctionGrows
<1>2. /\ Len(code) \in Nat /\ DOMAIN code = 1..Len(code) /\ Len(code') \in Nat
      /\ DOMAIN code' = 1..Len(code')
  BY <1>1, ReadyTypes
<1>3. ASSUME NEW n \in DOMAIN code', code'[n].op = "inc" PROVE SteadyLoop(code', <<>>, n)
  <2>1. n \in DOMAIN code
    <3>1. SUFFICES ASSUME n \notin DOMAIN code PROVE FALSE
      OBVIOUS
    <3>2. n \in Len(code) + 1..Len(code')
      BY <1>2, <3>1
    <3>3. QED BY <1>1, <1>3, <3>2 DEF Grew
  <2>2. code[n].op = "inc"
    BY <1>1, <1>2, <1>3, <2>1 DEF Grew
  <2>3. LoopKnown(code, open, n) /\ SteadyLoop(code, open, n)
    BY <2>1, <2>2 DEF Looping, LoopsKnown, Steady, SteadyLoops
  <2> DEFINE q == <<>>
  <2>4. \A k \in DOMAIN q : \A i \in q[k].exits \cup q[k].next :
          i > Len(code) \/ \E m \in DOMAIN open : i \in open[m].exits \cup open[m].next
    OBVIOUS
  <2> HIDE DEF q, K
  <2>5. SteadyLoop(code', q, n)
    BY <1>1, <2>1, <2>2, <2>3, <2>4, SteadyStays
  <2>6. QED BY <2>5 DEF q
<1>4. QED BY <1>3 DEF SteadyLoops

----------------------------------------------------------------------------
(* The loops of the running program.                                       *)

\* What an instruction does to the counters and turns of the loops, and where the test of
\* one leads.
Counts ==
  /\ code[pc].op \in ForKinds =>
       /\ ctr' = [h \in DOMAIN ctr \cup {pc} |-> IF h = pc THEN 0 ELSE ctr[h]]
       /\ turns' = [h \in DOMAIN turns \cup {pc} |-> IF h = pc THEN 0 ELSE turns[h]]
  /\ code[pc].op = "inc" => ctr' = CountUp(ctr, code[pc].v)
  /\ code[pc].op \notin ForKinds \cup {"inc"} => ctr' = ctr
  /\ code[pc].op = "test" =>
       IF ctr[code[pc].v] < RangeEnd
       THEN pc' = pc + 1 /\ turns' = CountUp(turns, code[pc].v)
       ELSE pc' = code[pc].to /\ turns' = turns
  /\ code[pc].op \notin ForKinds \cup {"test"} => turns' = turns

\* Each instruction counts as described.
LEMMA RunCounts ==
  ASSUME Run
  PROVE  Counts
<1>1. CASE RunNop
  BY <1>1 DEF RunNop, At, Counts, ForKinds
<1>2. CASE RunInit
  BY <1>2 DEF RunInit, Straight, At, Counts, ForKinds
<1>3. CASE RunDrop
  BY <1>3 DEF RunDrop, Straight, At, Counts, ForKinds
<1>4. CASE RunBranch
  BY <1>4 DEF RunBranch, At, Counts, ForKinds
<1>5. CASE RunGoto
  BY <1>5 DEF RunGoto, At, Counts, ForKinds
<1>6. CASE RunFor
  BY <1>6 DEF RunFor, At, Counts, ForKinds
<1>7. CASE RunTest
  BY <1>7 DEF RunTest, At, Counts, ForKinds
<1>8. CASE RunIncrement
  BY <1>8 DEF RunIncrement, Straight, At, Counts, ForKinds
<1>9. CASE RunThrow
  BY <1>9 DEF RunThrow, At, Counts, ForKinds
<1>10. CASE RunReturn
  BY <1>10 DEF RunReturn, At, Counts, ForKinds
<1>11. CASE RunCall
  BY <1>11 DEF RunCall, At, Counts, ForKinds
<1>12. CASE RunSetjmp
  BY <1>12 DEF RunSetjmp, Straight, At, Counts, ForKinds
<1>13. CASE RunArm
  BY <1>13 DEF RunArm, Straight, At, Counts, ForKinds
<1>14. QED
  BY <1>1, <1>2, <1>3, <1>4, <1>5, <1>6, <1>7, <1>8, <1>9, <1>10, <1>11, <1>12, <1>13 DEF Run

\* Within a loop its counter is not beyond the end of the range, and within a turn it is
\* in the range.
Counted ==
  \A n \in DOMAIN code : code[n].op = "inc" =>
    LET h == code[n].v IN
    /\ h < pc /\ pc <= n + 1 => h \in DOMAIN ctr /\ ctr[h] \in Nat /\ ctr[h] <= RangeEnd
    /\ h + 1 < pc /\ pc <= n => ctr[h] < RangeEnd

\* A loop is entered from its head, and a turn of it from its test.
LEMMA LoopEntries ==
  ASSUME Complete(code), Placed, FlatErrors, Armed, LoopsKnown(code, <<>>), pc > 0, Moves, Effects,
         NEW n \in DOMAIN code, code[n].op = "inc", NEW h, h = code[n].v
  PROVE  /\ h < pc' /\ pc' <= n + 1 => (h < pc /\ pc <= n + 1) \/ pc = h
         /\ h + 1 < pc' /\ pc' <= n => (h + 1 < pc /\ pc <= n) \/ (pc = h + 1 /\ pc' = pc + 1)
<1>1. /\ pc \in DOMAIN code /\ pc \in Nat /\ n \in Nat /\ DOMAIN code = 1..Len(code)
      /\ Len(code) \in Nat
  BY CompleteCode DEF Placed, Returned, Undefined
<1>2. h \in 1..n - 2 /\ OneWayIn(code, h, n) /\ code[h + 1].op = "test"
  BY DEF LoopsKnown, LoopKnown
<1>3. CASE pc' = pc + 1
  BY <1>1, <1>2, <1>3
<1>4. CASE code[pc].op \in PendOps /\ pc' = code[pc].to
  <2>1. Jump(code, pc, pc') /\ pc' \in Nat
    BY <1>1, <1>4, CompleteJumps
  <2>2. QED BY <1>1, <1>2, <2>1 DEF OneWayIn
<1>5. CASE code[pc].op \in {"throw", "call"} /\ jmp_buf' > 0 /\ pc' = code[jmp_buf'].to
  <2>1. /\ jmp_buf' = jmp_buf /\ jmp_buf \in DOMAIN code /\ code[jmp_buf].op = "setjmp"
        /\ jmp_buf < pc /\ pc < code[jmp_buf].to
    BY <1>5, JumpsBehindBody
  <2>2. Jump(code, jmp_buf, pc') /\ pc' \in Nat /\ jmp_buf \in Nat /\ jmp_buf < pc /\ pc < pc'
    BY <1>1, <1>5, <2>1, CompleteJumps
  <2>3. /\ h < pc' /\ pc' <= n + 1 => h < jmp_buf
        /\ h + 1 < pc' /\ pc' <= n => h + 1 < jmp_buf
    BY <1>2, <2>2 DEF OneWayIn
  <2>4. QED BY <1>1, <1>2, <2>2, <2>3
<1>6. CASE pc' \in {Returned, Undefined}
  BY <1>1, <1>2, <1>6 DEF Returned, Undefined
<1>7. QED BY <1>3, <1>4, <1>5, <1>6 DEF Moves

\* The counters are right after a step.
LEMMA CountedSteps ==
  ASSUME Complete(code), Placed, FlatErrors, Armed, LoopsKnown(code, <<>>), pc > 0, Moves, Effects,
         Counts, Counted, code' = code
  PROVE  Counted'
<1> SUFFICES ASSUME NEW n \in DOMAIN code, code[n].op = "inc"
             PROVE  LET h == code[n].v IN
                    /\ h < pc' /\ pc' <= n + 1 =>
                         h \in DOMAIN ctr' /\ ctr'[h] \in Nat /\ ctr'[h] <= RangeEnd
                    /\ h + 1 < pc' /\ pc' <= n => ctr'[h] < RangeEnd
  BY DEF Counted
<1> DEFINE h == code[n].v
<1>1. /\ pc \in DOMAIN code /\ pc \in Nat /\ n \in Nat /\ DOMAIN code = 1..Len(code)
      /\ Len(code) \in Nat /\ RangeEnd \in Nat
  BY CompleteCode, CBackendAssumption DEF Placed, Returned, Undefined
<1>2. /\ h \in 1..n - 2 /\ code[h + 1].op = "test" /\ code[h].op \in ForKinds
      /\ \A m \in DOMAIN code : IncOf(code, m, h) => m = n
      /\ h + 1 \in DOMAIN code
  BY <1>1 DEF LoopsKnown, LoopKnown
<1>3. code[h + 1].v = h
  <2>1. TestKnown(code, <<>>, h + 1)
    BY <1>2 DEF LoopsKnown
  <2>2. QED BY <1>1, <1>2, <2>1 DEF TestKnown
<1>4. /\ h < pc' /\ pc' <= n + 1 => (h < pc /\ pc <= n + 1) \/ pc = h
      /\ h + 1 < pc' /\ pc' <= n => (h + 1 < pc /\ pc <= n) \/ (pc = h + 1 /\ pc' = pc + 1)
  BY LoopEntries
<1>5. /\ h < pc /\ pc <= n + 1 => h \in DOMAIN ctr /\ ctr[h] \in Nat /\ ctr[h] <= RangeEnd
      /\ h + 1 < pc /\ pc <= n => ctr[h] < RangeEnd
  BY DEF Counted
<1> HIDE DEF h
<1>6. CASE pc = h
  <2>1. ctr' = [g \in DOMAIN ctr \cup {pc} |-> IF g = pc THEN 0 ELSE ctr[g]]
    BY <1>2, <1>6 DEF Counts
  <2>2. h \in DOMAIN ctr' /\ ctr'[h] = 0
    BY <1>6, <2>1
  <2>3. ~(h + 1 < pc' /\ pc' <= n)
    BY <1>1, <1>2, <1>4, <1>6
  <2>4. QED BY <1>1, <2>2, <2>3 DEF h
<1>7. CASE pc = n
  <2>1. ctr' = [ctr EXCEPT ![h] = IF @ < MaxCtr THEN @ + 1 ELSE @] /\ pc' = n + 1
    BY <1>7 DEF Counts, CountUp, Moves, PendOps, h
  <2>2. h \in DOMAIN ctr /\ ctr[h] \in Nat /\ ctr[h] < RangeEnd
    BY <1>1, <1>2, <1>5, <1>7
  <2>3. h \in DOMAIN ctr' /\ ctr'[h] = ctr[h] + 1
    BY <1>1, <2>1, <2>2 DEF MaxCtr
  <2>4. ~(pc' <= n)
    BY <1>1, <2>1
  <2>5. QED BY <1>1, <2>2, <2>3, <2>4 DEF h
<1>8. CASE pc # h /\ pc # n
  <2>1. h \in DOMAIN ctr => h \in DOMAIN ctr' /\ ctr'[h] = ctr[h]
    <3>1. CASE code[pc].op \in ForKinds
      BY <1>8, <3>1 DEF Counts
    <3>2. CASE code[pc].op = "inc"
      <4>1. code[pc].v # h
        BY <1>1, <1>2, <1>8, <3>2 DEF IncOf
      <4>2. QED BY <3>2, <4>1 DEF Counts, CountUp
    <3>3. CASE code[pc].op \notin ForKinds \cup {"inc"}
      BY <3>3 DEF Counts
    <3>4. QED BY <3>1, <3>2, <3>3
  <2>2. ASSUME h < pc', pc' <= n + 1
        PROVE  h \in DOMAIN ctr' /\ ctr'[h] = ctr[h] /\ ctr[h] \in Nat /\ ctr[h] <= RangeEnd
    BY <1>4, <1>5, <1>8, <2>1, <2>2
  <2>3. ASSUME h + 1 < pc', pc' <= n PROVE h \in DOMAIN ctr /\ ctr[h] < RangeEnd
    <3>1. CASE h + 1 < pc /\ pc <= n
      BY <1>1, <1>2, <1>5, <3>1
    <3>2. CASE pc = h + 1 /\ pc' = pc + 1
      <4>1. h < pc /\ pc <= n + 1
        BY <1>1, <1>2, <3>2
      <4>2. code[pc].op = "test" /\ code[pc].v = h
        BY <1>2, <1>3, <3>2
      <4>3. pc' = IF ctr[h] < RangeEnd THEN pc + 1 ELSE code[pc].to
        BY <4>2 DEF Counts
      <4>4. pc' # code[pc].to
        <5>1. SUFFICES ASSUME pc' = code[pc].to PROVE FALSE
          OBVIOUS
        <5>2. Jump(code, pc, pc') /\ pc' \in Nat
          BY <1>1, <4>2, <5>1, CompleteJumps DEF PendOps
        <5>3. OneWayIn(code, h, n)
          BY DEF LoopsKnown, LoopKnown, h
        <5>4. QED BY <1>1, <1>2, <2>3, <3>2, <5>2, <5>3 DEF OneWayIn
      <4>5. QED BY <1>5, <4>1, <4>3, <4>4
    <3>3. QED BY <1>4, <2>3, <3>1, <3>2
  <2>4. QED BY <2>1, <2>2, <2>3 DEF h
<1>9. QED BY <1>6, <1>7, <1>8

\* The turns begun are those the counter tells, and within a turn one more, in every loop
\* whose test is reached from its end and its head alone.
Turned ==
  \A n \in DOMAIN code : code[n].op = "inc" =>
    LET h == code[n].v IN
    h < pc /\ pc <= n + 1 /\ ~MayRepeat(h) =>
      h \in DOMAIN turns /\ turns[h] = IF h + 1 < pc /\ pc <= n THEN ctr[h] + 1 ELSE ctr[h]

\* The only jump to the test of such a loop is the one at its end.
LEMMA OneWayBack ==
  ASSUME SteadyLoops(code, <<>>), LoopsKnown(code, <<>>), NEW n \in DOMAIN code, n \in Nat,
         code[n].op = "inc", DOMAIN code = 1..Len(code), Len(code) \in Nat,
         NEW h, h = code[n].v, ~MayRepeat(h), NEW i \in Nat, Jump(code, i, h + 1)
  PROVE  i = n + 1
<1>1. SteadyLoop(code, <<>>, n) /\ LoopKnown(code, <<>>, n)
  BY DEF SteadyLoops, LoopsKnown
<1>2. CASE code[h].op = "array"
  BY <1>1, <1>2 DEF SteadyLoop
<1>3. CASE code[h].op # "array"
  <2>1. n + 1 \in DOMAIN code /\ code[n + 1].to = h + 1
    BY <1>1 DEF SteadyLoop, LoopKnown
  <2>2. i \in DOMAIN code /\ code[i].to = h + 1
    BY DEF Jump
  <2>3. QED BY <1>3, <2>1, <2>2 DEF MayRepeat
<1>4. QED BY <1>2, <1>3

\* The end of such a loop is reached from its increment, and its test from head and end.
LEMMA TurnEntries ==
  ASSUME Complete(code), Placed, FlatErrors, Armed, LoopsKnown(code, <<>>),
         SteadyLoops(code, <<>>), pc > 0, Moves, Effects,
         NEW n \in DOMAIN code, code[n].op = "inc", NEW h, h = code[n].v, ~MayRepeat(h)
  PROVE  /\ pc' = n + 1 => pc = n
         /\ pc' = h + 1 => pc = h \/ pc = n + 1
         /\ pc' \in Int
<1>1. /\ pc \in DOMAIN code /\ pc \in Nat /\ n \in Nat /\ DOMAIN code = 1..Len(code)
      /\ Len(code) \in Nat
  BY CompleteCode DEF Placed, Returned, Undefined
<1>2. /\ h \in 1..n - 2 /\ OneWayIn(code, h, n) /\ n + 1 \in Nat /\ h + 1 \in Nat
      /\ \A i \in Nat : ~Jump(code, i, n + 1)
  <2>1. h \in 1..n - 2 /\ OneWayIn(code, h, n)
    BY DEF LoopsKnown, LoopKnown
  <2>2. \A i \in Nat : ~Jump(code, i, n + 1)
    BY DEF SteadyLoops, SteadyLoop
  <2>3. QED BY <1>1, <2>1, <2>2
<1>3. \A i \in Nat : Jump(code, i, h + 1) => i = n + 1
  BY <1>1, OneWayBack
<1>4. CASE pc' = pc + 1
  BY <1>1, <1>2, <1>4
<1>5. CASE code[pc].op \in PendOps /\ pc' = code[pc].to
  <2>1. Jump(code, pc, pc') /\ pc' \in Nat
    BY <1>1, <1>5, CompleteJumps
  <2>2. QED BY <1>1, <1>2, <1>3, <2>1
<1>6. CASE code[pc].op \in {"throw", "call"} /\ jmp_buf' > 0 /\ pc' = code[jmp_buf'].to
  <2>1. /\ jmp_buf' = jmp_buf /\ jmp_buf \in DOMAIN code /\ code[jmp_buf].op = "setjmp"
        /\ jmp_buf < pc /\ pc < code[jmp_buf].to
    BY <1>6, JumpsBehindBody
  <2>2. Jump(code, jmp_buf, pc') /\ pc' \in Nat /\ jmp_buf \in Nat /\ jmp_buf < pc /\ pc < pc'
    BY <1>1, <1>6, <2>1, CompleteJumps
  <2>3. pc' # n + 1
    BY <1>2, <2>2
  <2>4. pc' # h + 1
    BY <1>1, <1>2, <1>3, <2>2
  <2>5. QED BY <2>2, <2>3, <2>4
<1>7. CASE pc' \in {Returned, Undefined}
  BY <1>1, <1>2, <1>7 DEF Returned, Undefined
<1>8. QED BY <1>4, <1>5, <1>6, <1>7 DEF Moves

\* The turns are right after a step.
LEMMA TurnedSteps ==
  ASSUME Complete(code), Placed, FlatErrors, Armed, LoopsKnown(code, <<>>),
         SteadyLoops(code, <<>>), pc > 0, Moves, Effects, Counts, Counted, Turned, code' = code
  PROVE  Turned'
<1> SUFFICES ASSUME NEW n \in DOMAIN code, code[n].op = "inc",
                    code[n].v < pc', pc' <= n + 1, ~MayRepeat(code[n].v)
             PROVE  LET h == code[n].v IN
                    /\ h \in DOMAIN turns'
                    /\ turns'[h] = IF h + 1 < pc' /\ pc' <= n THEN ctr'[h] + 1 ELSE ctr'[h]
  BY DEF Turned, MayRepeat
<1> DEFINE h == code[n].v
<1>1. /\ pc \in DOMAIN code /\ pc \in Nat /\ n \in Nat /\ DOMAIN code = 1..Len(code)
      /\ Len(code) \in Nat /\ RangeEnd \in Nat
  BY CompleteCode, CBackendAssumption DEF Placed, Returned, Undefined
<1>2. /\ h \in 1..n - 2 /\ code[h + 1].op = "test" /\ code[h].op \in ForKinds
      /\ \A m \in DOMAIN code : IncOf(code, m, h) => m = n
      /\ h + 1 \in DOMAIN code
  BY <1>1 DEF LoopsKnown, LoopKnown
<1>3. \A i \in DOMAIN code : code[i].op = "test" => code[i].v = i - 1
  BY DEF LoopsKnown, TestKnown
<1>4. /\ h < pc' /\ pc' <= n + 1 => (h < pc /\ pc <= n + 1) \/ pc = h
      /\ h + 1 < pc' /\ pc' <= n => (h + 1 < pc /\ pc <= n) \/ (pc = h + 1 /\ pc' = pc + 1)
  BY LoopEntries
<1>5. /\ h < pc /\ pc <= n + 1 => h \in DOMAIN ctr /\ ctr[h] \in Nat /\ ctr[h] <= RangeEnd
      /\ h + 1 < pc /\ pc <= n => ctr[h] < RangeEnd
  BY DEF Counted
<1>6. h < pc /\ pc <= n + 1 =>
        h \in DOMAIN turns /\ turns[h] = IF h + 1 < pc /\ pc <= n THEN ctr[h] + 1 ELSE ctr[h]
  BY DEF Turned
<1>7. /\ pc' = n + 1 => pc = n
      /\ pc' = h + 1 => pc = h \/ pc = n + 1
      /\ pc' \in Int
  BY TurnEntries
<1>8. h < pc' /\ pc' <= n + 1
  OBVIOUS
<1> HIDE DEF h
<1>9. CASE pc = h
  <2>1. /\ ctr' = [g \in DOMAIN ctr \cup {pc} |-> IF g = pc THEN 0 ELSE ctr[g]]
        /\ turns' = [g \in DOMAIN turns \cup {pc} |-> IF g = pc THEN 0 ELSE turns[g]]
    BY <1>2, <1>9 DEF Counts
  <2>2. ctr'[h] = 0 /\ h \in DOMAIN turns' /\ turns'[h] = 0
    BY <1>9, <2>1
  <2>3. ~(h + 1 < pc' /\ pc' <= n)
    BY <1>1, <1>2, <1>4, <1>9
  <2>4. QED BY <2>2, <2>3 DEF h
<1>10. CASE pc = n
  <2>1. /\ ctr' = [ctr EXCEPT ![h] = IF @ < MaxCtr THEN @ + 1 ELSE @] /\ pc' = n + 1
        /\ turns' = turns
    BY <1>10 DEF Counts, CountUp, Moves, PendOps, ForKinds, h
  <2>2. h \in DOMAIN ctr /\ ctr[h] \in Nat /\ ctr[h] < RangeEnd
    BY <1>1, <1>2, <1>5, <1>10
  <2>3. ctr'[h] = ctr[h] + 1
    BY <1>1, <2>1, <2>2 DEF MaxCtr
  <2>4. h \in DOMAIN turns /\ turns[h] = ctr[h] + 1
    BY <1>1, <1>2, <1>6, <1>10
  <2>5. QED BY <1>1, <2>1, <2>3, <2>4 DEF h
<1>11. CASE pc = h + 1
  <2>1. code[pc].op = "test" /\ code[pc].v = h
    BY <1>1, <1>2, <1>3, <1>11
  <2>2. /\ h \in DOMAIN ctr /\ ctr[h] \in Nat /\ h \in DOMAIN turns /\ turns[h] = ctr[h]
    BY <1>1, <1>2, <1>5, <1>6, <1>11
  <2>3. ctr' = ctr
    BY <2>1 DEF Counts, ForKinds
  <2>4. pc' # h + 1 /\ pc' # n + 1 /\ h + 1 < pc' /\ pc' <= n
    BY <1>1, <1>2, <1>7, <1>8, <1>11
  <2>5. ctr[h] < RangeEnd /\ turns' = CountUp(turns, h)
    <3>1. pc' = pc + 1
      BY <1>1, <1>2, <1>4, <1>11, <2>4
    <3>2. CASE ctr[h] < RangeEnd
      BY <2>1, <3>2 DEF Counts
    <3>3. CASE ~(ctr[h] < RangeEnd)
      <4>1. pc' = code[pc].to
        BY <2>1, <3>3 DEF Counts
      <4>2. Jump(code, pc, pc') /\ pc' \in Nat
        BY <1>1, <2>1, <4>1, CompleteJumps DEF PendOps
      <4>3. OneWayIn(code, h, n)
        BY DEF LoopsKnown, LoopKnown, h
      <4>4. QED BY <1>1, <1>2, <1>11, <2>4, <4>2, <4>3 DEF OneWayIn
    <3>4. QED BY <3>2, <3>3
  <2>6. h \in DOMAIN turns' /\ turns'[h] = turns[h] + 1
    BY <1>1, <2>2, <2>5 DEF CountUp, MaxCtr
  <2>7. QED BY <2>2, <2>3, <2>4, <2>6 DEF h
<1>12. CASE pc # h /\ pc # n /\ pc # h + 1
  <2>1. h < pc /\ pc <= n + 1
    BY <1>4, <1>8, <1>12
  <2>2. ctr'[h] = ctr[h]
    <3>1. CASE code[pc].op \in ForKinds
      BY <1>5, <1>12, <2>1, <3>1 DEF Counts
    <3>2. CASE code[pc].op = "inc"
      <4>1. code[pc].v # h
        BY <1>1, <1>2, <1>12, <3>2 DEF IncOf
      <4>2. QED BY <3>2, <4>1, <1>5, <2>1 DEF Counts, CountUp
    <3>3. CASE code[pc].op \notin ForKinds \cup {"inc"}
      BY <3>3 DEF Counts
    <3>4. QED BY <3>1, <3>2, <3>3
  <2>3. h \in DOMAIN turns' /\ turns'[h] = turns[h]
    <3>1. CASE code[pc].op \in ForKinds
      BY <1>6, <1>12, <2>1, <3>1 DEF Counts
    <3>2. CASE code[pc].op = "test"
      <4>1. code[pc].v # h
        BY <1>1, <1>2, <1>3, <1>12, <3>2
      <4>2. CASE ctr[code[pc].v] < RangeEnd
        BY <1>6, <2>1, <3>2, <4>1, <4>2 DEF Counts, CountUp
      <4>3. CASE ~(ctr[code[pc].v] < RangeEnd)
        BY <1>6, <2>1, <3>2, <4>3 DEF Counts
      <4>4. QED BY <4>2, <4>3
    <3>3. CASE code[pc].op \notin ForKinds \cup {"test"}
      BY <1>6, <2>1, <3>3 DEF Counts
    <3>4. QED BY <3>1, <3>2, <3>3
  <2>4. (h + 1 < pc /\ pc <= n) <=> (h + 1 < pc' /\ pc' <= n)
    <3>1. CASE pc' = h + 1
      BY <1>1, <1>2, <1>7, <1>12, <3>1
    <3>2. CASE pc' # h + 1
      <4>1. pc' # n + 1
        BY <1>7, <1>12
      <4>2. pc' \in Int
        BY <1>7
      <4>3. h + 1 < pc' /\ pc' <= n
        BY <1>1, <1>2, <1>8, <3>2, <4>1, <4>2
      <4>4. QED BY <1>1, <1>2, <1>4, <1>12, <4>3
    <3>3. QED BY <3>1, <3>2
  <2>5. QED BY <1>6, <2>1, <2>2, <2>3, <2>4 DEF h
<1>13. QED BY <1>9, <1>10, <1>11, <1>12

\* The loops, in the code under construction and in the running program.
LoopInv ==
  /\ phase = "emit" => Looping(code, open) /\ Steady(code, open)
  /\ phase = "run" => /\ LoopsKnown(code, <<>>) /\ SteadyLoops(code, <<>>)
                      /\ FlatErrors => Counted /\ Turned

\* What is said of the loops of the code is said of them after the step, too.
LEMMA LoopingPrimed ==
  ASSUME Looping(code', open')
  PROVE  Looping(code, open)'
BY DEF Looping, LoopsKnown, LoopKnown, TestKnown, ForKnown, Past, OneWayIn, IncOf, Jump

LEMMA SteadyPrimed ==
  ASSUME Steady(code', open')
  PROVE  Steady(code, open)'
BY DEF Steady, SteadyLoops, SteadyLoop, SteadyFor, Jump

\* ... and so it is of the complete code.
LEMMA LoopsPrimed ==
  ASSUME NEW c, LoopsKnown(c, <<>>), SteadyLoops(c, <<>>), code' = c
  PROVE  LoopsKnown(code, <<>>)' /\ SteadyLoops(code, <<>>)'
<1>1. LoopsKnown(code, <<>>)'
  BY DEF LoopsKnown, LoopKnown, TestKnown, OneWayIn, IncOf, Jump
<1>2. SteadyLoops(code, <<>>)'
  BY DEF SteadyLoops, SteadyLoop, Jump
<1>3. QED BY <1>1, <1>2

\* There are no loops yet.
LEMMA InitLoops == Init => LoopInv
<1> SUFFICES ASSUME Init PROVE LoopInv
  OBVIOUS
<1>1. /\ phase = "emit" /\ code = <<>>
      /\ open = <<[kind |-> "func", id |-> 0, of |-> 0, saved |-> <<>>,
                   exits |-> {}, next |-> {}, test |-> 0, arm |-> 0]>>
  BY DEF Init
<1>2. DOMAIN code = {} /\ DOMAIN open = {1} /\ open[1].kind = "func"
  BY <1>1
<1>3. Looping(code, open)
  BY <1>2 DEF Looping, LoopsKnown, ForKnown, ForKinds
<1>4. Steady(code, open)
  BY <1>2 DEF Steady, SteadyLoops, SteadyFor, ForKinds
<1>5. QED BY <1>1, <1>3, <1>4 DEF LoopInv

\* Every step keeps what is known of the loops.
LEMMA NextLoops == IInv /\ LoopInv /\ [Next]_vars => LoopInv'
<1> SUFFICES ASSUME IInv, LoopInv, [Next]_vars PROVE LoopInv'
  OBVIOUS
<1>1. ASSUME Emit, UNCHANGED profile PROVE LoopInv'
  <2>1. phase = "emit"
    BY <1>1 DEF Emit, c_emit_let, c_emit_defer, c_emit_plain_block, c_emit_if, c_emit_while,
                c_emit_for, c_emit_break, c_emit_continue, c_emit_return, c_emit_throw,
                c_emit_call, c_emit_try, Statement, EndBlock, EndIfElse, EndWhile, EndFor,
                EndTry, EndArm, EndOf, EndFunction
  <2>2. /\ Ready /\ Featured(code, Len(code)) /\ profile \in Profile /\ Looping(code, open)
        /\ Steady(code, open) /\ pc = 1
    BY <2>1 DEF IInv, Emitting, LoopInv
  <2>3. CASE EmitMore
    <3>1. Readied /\ UNCHANGED <<phase, runVars>>
      BY <2>2, <2>3, EmitSteps
    <3>2. Looping(code, open)'
      BY <2>2, <2>3, <3>1, LoopingKeeps, LoopingPrimed
    <3>3. Steady(code, open)'
      BY <2>2, <2>3, <3>1, SteadyKeeps, SteadyPrimed
    <3>4. QED BY <2>1, <3>1, <3>2, <3>3 DEF LoopInv
  <2>4. CASE EndFunction
    <3>1. LoopsKnown(code, <<>>)' /\ SteadyLoops(code, <<>>)'
      BY <2>2, <2>4, LoopingEnds, SteadyEnds, LoopsPrimed
    <3>2. phase' = "run" /\ pc' = 1
      BY <2>2, <2>4 DEF EndFunction, runVars
    <3>3. Counted' /\ Turned'
      <4>1. ASSUME NEW n \in DOMAIN code', code'[n].op = "inc"
            PROVE  ~(code'[n].v < pc')
        BY <3>1, <3>2, <4>1 DEF LoopsKnown, LoopKnown
      <4>2. ASSUME NEW n \in DOMAIN code', code'[n].op = "inc"
            PROVE  ~(code'[n].v + 1 < pc')
        <5>1. code'[n].v \in 1..n - 2
          BY <3>1, <4>2 DEF LoopsKnown, LoopKnown
        <5>2. QED BY <3>2, <5>1
      <4>3. QED BY <4>1, <4>2 DEF Counted, Turned
    <3>4. QED BY <3>1, <3>2, <3>3 DEF LoopInv
  <2>5. QED BY <1>1, <2>3, <2>4 DEF Emit, EmitMore
<1>2. ASSUME Run, UNCHANGED profile PROVE LoopInv'
  <2>1. phase = "run"
    BY <1>2 DEF Run, RunNop, RunInit, RunDrop, RunBranch, RunGoto, RunFor, RunTest,
                RunIncrement, RunThrow, RunReturn, RunCall, RunSetjmp, RunArm, Straight, At
  <2>2. /\ Running /\ LoopsKnown(code, <<>>) /\ SteadyLoops(code, <<>>)
        /\ FlatErrors => Counted /\ Turned
    BY <2>1 DEF IInv, LoopInv
  <2>3. phase' = phase /\ code' = code /\ pc > 0 /\ Moves /\ Effects /\ Counts
    BY <1>2, <2>2, RunSteps, RunCounts DEF Running, Placed
  <2>4. LoopsKnown(code, <<>>)' /\ SteadyLoops(code, <<>>)'
    BY <2>2, <2>3, LoopsPrimed
  <2>5. FlatErrors' <=> FlatErrors
    BY <1>2 DEF FlatErrors
  <2>6. ASSUME FlatErrors PROVE Counted' /\ Turned'
    <3>1. Armed /\ Complete(code) /\ Placed
      BY <2>2, <2>6 DEF Running
    <3>2. QED BY <2>2, <2>3, <2>6, <3>1, CountedSteps, TurnedSteps
  <2>7. QED BY <2>1, <2>3, <2>4, <2>5, <2>6 DEF LoopInv
<1>3. CASE UNCHANGED vars
  <2>1. /\ profile' = profile /\ phase' = phase /\ code' = code /\ open' = open
        /\ pc' = pc /\ ctr' = ctr /\ turns' = turns
    BY <1>3 DEF vars, emitVars, runVars
  <2>2. ASSUME phase = "emit" PROVE Looping(code, open)' /\ Steady(code, open)'
    <3>1. Looping(code', open') /\ Steady(code', open')
      BY <2>1, <2>2 DEF LoopInv
    <3>2. QED BY <3>1, LoopingPrimed, SteadyPrimed
  <2>3. ASSUME phase = "run"
        PROVE  LoopsKnown(code, <<>>)' /\ SteadyLoops(code, <<>>)'
               /\ (FlatErrors => Counted' /\ Turned')
    <3>1. /\ LoopsKnown(code, <<>>) /\ SteadyLoops(code, <<>>)
          /\ FlatErrors => Counted /\ Turned
      BY <2>3 DEF LoopInv
    <3>2. LoopsKnown(code, <<>>)' /\ SteadyLoops(code, <<>>)'
      BY <2>1, <3>1, LoopsPrimed
    <3>3. Counted /\ Turned => Counted' /\ Turned'
      BY <2>1 DEF Counted, Turned, MayRepeat
    <3>4. QED BY <3>1, <3>2, <3>3
  <2>4. FlatErrors' <=> FlatErrors
    BY <2>1 DEF FlatErrors
  <2>5. QED BY <2>1, <2>2, <2>3, <2>4 DEF LoopInv
<1>4. QED BY <1>1, <1>2, <1>3 DEF Next

\* The turn a loop begins is the next one, no turn is repeated or passed over, and a loop
\* over a..b or an array that ends at its test has made them all and no turn too many:
\* c_emit_for enters the loop through its head alone, which sets the counter to 0, and a
\* turn through the test alone, the one increment is passed at the end of a turn only, and
\* unless a `continue' of a loop over a range jumps to the test nothing but the head and the
\* end of the loop leads to it.
THEOREM RangeTurned == Spec => RangeTurns
<1> DEFINE Right == LET h == code[pc].v IN
                    At({"test"}) /\ FlatErrors /\ ~MayRepeat(h) =>
                      /\ ctr[h] = turns[h]
                      /\ pc' # pc + 1 /\ code[h].op # "range_inclusive" => turns[h] = RangeEnd
<1>1. IInv /\ LoopInv /\ [Next]_vars => [Right]_vars
  <2> DEFINE h == pc - 1
  <2> SUFFICES ASSUME IInv, LoopInv, Next, At({"test"}), FlatErrors, ~MayRepeat(code[pc].v)
               PROVE  /\ ctr[code[pc].v] = turns[code[pc].v]
                      /\ pc' # pc + 1 => turns[code[pc].v] = RangeEnd
    OBVIOUS
  <2>1. Complete(code) /\ Placed /\ LoopsKnown(code, <<>>) /\ Counted /\ Turned /\ Armed
    BY DEF At, IInv, Running, LoopInv
  <2>2. /\ pc \in DOMAIN code /\ pc \in Nat /\ DOMAIN code = 1..Len(code) /\ code[pc].op = "test"
        /\ Len(code) \in Nat
    BY <2>1, CompleteCode DEF At, Placed, Returned, Undefined
  <2>3. Run
    <3>1. phase = "run"
      BY DEF At
    <3>2. ~Emit
      BY <3>1 DEF Emit, c_emit_let, c_emit_defer, c_emit_plain_block, c_emit_if, c_emit_while,
                  c_emit_for, c_emit_break, c_emit_continue, c_emit_return, c_emit_throw,
                  c_emit_call, c_emit_try, Statement, EndBlock, EndIfElse, EndWhile, EndFor,
                  EndTry, EndArm, EndOf, EndFunction
    <3>3. QED BY <3>2 DEF Next
  <2>4. ctr[code[pc].v] < RangeEnd => pc' = pc + 1
    BY <2>2, <2>3, RunCounts DEF Counts
  <2>5. TestKnown(code, <<>>, pc)
    BY <2>1, <2>2 DEF LoopsKnown
  <2>6. code[pc].v = h
    BY <2>5 DEF TestKnown
  <2>7. PICK n \in DOMAIN code : IncOf(code, n, h)
    BY <2>5 DEF TestKnown
  <2>8. code[n].op = "inc" /\ code[n].v = h
    BY <2>7 DEF IncOf
  <2>9. h \in 1..n - 2 /\ n \in Nat
    BY <2>1, <2>2, <2>8 DEF LoopsKnown, LoopKnown
  <2>10. h < pc /\ pc <= n + 1 /\ ~(h + 1 < pc)
    BY <2>2, <2>9
  <2>11. ctr[h] \in Nat /\ ctr[h] <= RangeEnd
    BY <2>1, <2>8, <2>10 DEF Counted
  <2> HIDE DEF h
  <2>12. turns[h] = ctr[h]
    BY <2>1, <2>6, <2>8, <2>10 DEF Turned
  <2>13. QED BY <2>4, <2>6, <2>11, <2>12, CBackendAssumption
<1>2. QED BY <1>1, InitLoops, NextLoops, IInvHolds, PTL DEF Spec, RangeTurns
=============================================================================
