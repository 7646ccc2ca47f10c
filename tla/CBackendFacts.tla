--------------------------- MODULE CBackendFacts ---------------------------
(***************************************************************************)
(* What the c_emit_ functions keep of the code they write, whatever the    *)
(* program (CBackend).  Every object and every try body is a region of the *)
(* code.  Emitted says of code, with the blocks and lists in progress:     *)
(* regions are entered at their start only and, without break and          *)
(* continue, left at their end only; each object has one drop to come or   *)
(* written; each jump still to be patched belongs to a block.  The lemmas  *)
(* are the steps all c_emit_ functions are made of: one more instruction,  *)
(* a jump back, the drops of a block, a patch, a block opened, closed or   *)
(* renewed.                                                                *)
(***************************************************************************)
EXTENDS CBackend, SequenceTheorems, TLAPS

\* The instructions c_emit_ functions write.
Ops == {"init", "defer", "nop", "branch", "range", "range_inclusive", "array", "test",
        "goto", "return", "throw_return", "throw", "call", "setjmp", "drop", "inc", "arm",
        "finally"}

Instruction == [op : Ops, v : Nat, s : Nat, to : Nat]

\* The blocks c_emit_block is called for.
Kinds == {"func", "block", "if", "else", "while", "range", "range_inclusive", "array",
          "try", "arm", "finally"}

BlockInProgress == [kind : Kinds, id : Nat, of : Nat, saved : Seq(Nat),
                    exits : SUBSET Nat, next : SUBSET Nat, test : Nat, arm : Nat]

\* Instruction i of c jumps to j.  Target 0 is a jump not patched yet.
JumpOps == {"branch", "goto", "test", "setjmp"}

Jump(c, i, j) == i \in DOMAIN c /\ c[i].op \in JumpOps /\ c[i].to = j /\ j # 0

\* A region of the code: the instructions behind its first up to its second bound,
\* or without end as long as that is 0.
Region == Nat \X Nat

Within(r, i) == r[1] < i /\ (r[2] = 0 \/ i <= r[2])

Closed(r) == r[2] # 0

\* A region is entered at its start only: no jump leads into it from outside, nor will
\* a jump to the test of a loop that is still open.
Enter(c, o, R) ==
  /\ \A i, j \in Nat : Jump(c, i, j) => \A r \in R : Within(r, j) => Within(r, i)
  /\ \A r \in R : Closed(r) => \A k \in DOMAIN o : o[k].test # 0 => ~Within(r, o[k].test)

\* The jumps still to be patched: those in the lists of the blocks o, and p.
Pend(o, p) == p \cup UNION {o[k].exits \cup o[k].next : k \in DOMAIN o}

\* A region is left at its end only: a jump out of it is that of a setjmp, and no jump
\* still to be patched stands in a closed region.
Leave(c, o, p, R) ==
  /\ \A i, j \in Nat : Jump(c, i, j) /\ c[i].op # "setjmp" => \A r \in R : Within(r, i) => Within(r, j)
  /\ \A r \in R : Closed(r) => \A i \in Pend(o, p) : ~Within(r, i)

\* Jumps lead no farther than behind the code.
Targets(c) == \A i \in DOMAIN c : c[i].to <= Len(c) + 1

\* d goes on behind c without further jumps.
Plain(c, d) ==
  /\ Len(c) <= Len(d)
  /\ \A i \in 1..Len(c) : d[i] = c[i]
  /\ \A i \in Len(c) + 1..Len(d) : d[i].op \in JumpOps => d[i].to = 0

\* Both ends of a jump are places of the code.
LEMMA JumpTypes ==
  ASSUME NEW c \in Seq(Instruction), Targets(c), NEW i, NEW j, Jump(c, i, j)
  PROVE  i \in 1..Len(c) /\ j \in 1..Len(c) + 1 /\ Len(c) \in Nat
<1>1. Len(c) \in Nat /\ DOMAIN c = 1..Len(c)
  OBVIOUS
<1>2. i \in 1..Len(c) /\ c[i] \in Instruction /\ c[i].to = j /\ j # 0 /\ j <= Len(c) + 1
  BY <1>1 DEF Jump, Targets
<1>3. j \in Nat
  BY <1>2 DEF Instruction
<1>4. QED BY <1>1, <1>2, <1>3

\* Code that goes on without jumps has the jumps it had.
LEMMA PlainJumps ==
  ASSUME NEW c \in Seq(Instruction), NEW d \in Seq(Instruction), Plain(c, d),
         NEW i, NEW j, Jump(d, i, j)
  PROVE  Jump(c, i, j)
<1>1. i \in 1..Len(d) /\ Len(c) \in Nat /\ Len(d) \in Nat /\ DOMAIN c = 1..Len(c)
  BY DEF Jump
<1>2. i \in 1..Len(c)
  BY <1>1 DEF Jump, Plain
<1>3. QED BY <1>1, <1>2 DEF Jump, Plain

\* Code that goes on without jumps is entered as before; a region of it may be new or
\* just have got its end.
LEMMA EnterGrow ==
  ASSUME NEW c \in Seq(Instruction), NEW d \in Seq(Instruction), Targets(c), Plain(c, d),
         NEW o, NEW R \in SUBSET Region, NEW S \in SUBSET Region,
         \A k \in DOMAIN o : o[k].test \in 0..Len(c),
         \A r \in S : \/ r \in R
                      \/ r[1] > Len(c)
                      \/ /\ <<r[1], 0>> \in R /\ r[2] >= Len(c)
                         /\ \A k \in DOMAIN o : o[k].test <= r[1],
         Enter(c, o, R)
  PROVE  Enter(d, o, S)
<1>1. ASSUME NEW i \in Nat, NEW j \in Nat, Jump(d, i, j), NEW r \in S, Within(r, j)
      PROVE  Within(r, i)
  <2>1. Jump(c, i, j) /\ i \in 1..Len(c) /\ j \in 1..Len(c) + 1 /\ Len(c) \in Nat
    BY <1>1, PlainJumps, JumpTypes
  <2>2. r[1] \in Nat /\ r[2] \in Nat
    BY DEF Region
  <2>3. CASE r \in R
    BY <1>1, <2>1, <2>3 DEF Enter
  <2>4. CASE r[1] > Len(c)
    BY <1>1, <2>1, <2>2, <2>4 DEF Within
  <2>5. CASE <<r[1], 0>> \in R /\ r[2] >= Len(c)
    <3>1. Within(<<r[1], 0>>, j)
      BY <1>1 DEF Within
    <3>2. Within(<<r[1], 0>>, i)
      BY <2>1, <2>5, <3>1 DEF Enter
    <3>3. QED BY <2>1, <2>2, <2>5, <3>2 DEF Within
  <2>6. QED BY <2>3, <2>4, <2>5
<1>2. ASSUME NEW r \in S, Closed(r), NEW k \in DOMAIN o, o[k].test # 0
      PROVE  ~Within(r, o[k].test)
  <2>1. r[1] \in Nat /\ r[2] \in Nat /\ o[k].test \in 0..Len(c) /\ Len(c) \in Nat
    BY DEF Region
  <2>2. CASE r \in R
    BY <1>2, <2>2 DEF Enter
  <2>3. CASE r[1] > Len(c)
    BY <2>1, <2>3 DEF Within
  <2>4. CASE o[k].test <= r[1]
    BY <2>1, <2>4 DEF Within
  <2>5. QED BY <2>2, <2>3, <2>4
<1>3. QED BY <1>1, <1>2 DEF Enter

\* A jump back to the test of an open loop enters no region.
LEMMA EnterBack ==
  ASSUME NEW c \in Seq(Instruction), Targets(c), NEW o, NEW R \in SUBSET Region,
         NEW k \in DOMAIN o, o[k].test \in 1..Len(c), NEW x \in Instruction, x.to = o[k].test,
         Enter(c, o, R)
  PROVE  Enter(Append(c, x), o, R)
<1> DEFINE d == Append(c, x)
<1>1. /\ Len(c) \in Nat /\ DOMAIN d = 1..Len(c) + 1 /\ DOMAIN c = 1..Len(c)
      /\ d[Len(c) + 1] = x /\ \A i \in 1..Len(c) : d[i] = c[i]
  OBVIOUS
<1> HIDE DEF d
<1>2. ASSUME NEW i \in Nat, NEW j \in Nat, Jump(d, i, j), NEW r \in R, Within(r, j)
      PROVE  Within(r, i)
  <2>1. CASE i \in 1..Len(c)
    <3>1. Jump(c, i, j)
      BY <1>1, <1>2, <2>1 DEF Jump
    <3>2. QED BY <1>2, <3>1 DEF Enter
  <2>2. CASE i \notin 1..Len(c)
    <3>1. i = Len(c) + 1
      BY <1>1, <1>2, <2>2 DEF Jump
    <3>2. j = o[k].test
      BY <1>1, <1>2, <3>1 DEF Jump
    <3>3. ~Closed(r)
      BY <1>2, <3>2 DEF Enter
    <3>4. r[1] \in Nat /\ r[2] \in Nat
      BY DEF Region
    <3>5. r[1] < o[k].test
      BY <1>2, <3>2 DEF Within
    <3>6. QED BY <1>1, <3>1, <3>3, <3>4, <3>5 DEF Within, Closed
  <2>3. QED BY <2>1, <2>2
<1>3. QED BY <1>2 DEF Enter, d

\* A jump led behind the code enters only regions that are open, and starts in them.
LEMMA EnterPatch ==
  ASSUME NEW c \in Seq(Instruction), Targets(c), NEW o, NEW R \in SUBSET Region, NEW from,
         \A r \in R : r[2] <= Len(c) /\ (~Closed(r) => \A i \in from : r[1] < i),
         Enter(c, o, R)
  PROVE  Enter(Patch(c, from, Len(c) + 1), o, R)
<1> DEFINE d == Patch(c, from, Len(c) + 1)
<1>1. /\ Len(c) \in Nat /\ DOMAIN d = 1..Len(c) /\ DOMAIN c = 1..Len(c)
      /\ \A i \in 1..Len(c) : d[i].op = c[i].op /\ d[i].to = IF i \in from THEN Len(c) + 1 ELSE c[i].to
  BY DEF Patch, Instruction
<1> HIDE DEF d
<1>2. ASSUME NEW i \in Nat, NEW j \in Nat, Jump(d, i, j), NEW r \in R, Within(r, j)
      PROVE  Within(r, i)
  <2>0. i \in 1..Len(c) /\ r[1] \in Nat /\ r[2] \in Nat
    BY <1>1, <1>2 DEF Region, Jump
  <2>1. CASE i \notin from
    <3>1. Jump(c, i, j)
      BY <1>1, <1>2, <2>1, <2>0 DEF Jump
    <3>2. QED BY <1>2, <3>1 DEF Enter
  <2>2. CASE i \in from
    <3>1. j = Len(c) + 1
      BY <1>1, <1>2, <2>2, <2>0 DEF Jump
    <3>2. r[2] = 0
      BY <1>1, <1>2, <3>1, <2>0 DEF Within
    <3>3. QED BY <2>0, <2>2, <3>2 DEF Within, Closed
  <2>3. QED BY <2>1, <2>2
<1>3. QED BY <1>2 DEF Enter, d

\* Blocks come and go without a region being entered elsewhere, if their tests are tests
\* the blocks had before or lie behind the regions.
LEMMA EnterBlocks ==
  ASSUME NEW c, NEW o, NEW q, NEW R \in SUBSET Region,
         \A k \in DOMAIN q : \/ q[k].test = 0
                             \/ \E m \in DOMAIN o : o[m].test = q[k].test
                             \/ q[k].test \in Nat /\ \A r \in R : r[2] < q[k].test,
         Enter(c, o, R)
  PROVE  Enter(c, q, R)
<1>1. ASSUME NEW r \in R, Closed(r), NEW k \in DOMAIN q, q[k].test # 0
      PROVE  ~Within(r, q[k].test)
  <2>1. CASE \E m \in DOMAIN o : o[m].test = q[k].test
    BY <1>1, <2>1 DEF Enter
  <2>2. CASE q[k].test \in Nat /\ r[2] < q[k].test
    BY <1>1, <2>2 DEF Region, Within, Closed
  <2>3. QED BY <1>1, <2>1, <2>2
<1>2. QED BY <1>1 DEF Enter

----------------------------------------------------------------------------
\* Code that goes on without jumps is left as before.
LEMMA LeaveGrow ==
  ASSUME NEW c \in Seq(Instruction), NEW d \in Seq(Instruction), Targets(c), Plain(c, d),
         NEW o, NEW p, NEW q, NEW R \in SUBSET Region, NEW S \in SUBSET Region,
         \A i \in Pend(o, q) : i \in Nat /\ (i \in Pend(o, p) \/ i > Len(c)),
         \A r \in R : r[2] <= Len(c),
         \A r \in S : \/ r \in R
                      \/ r[1] > Len(c) /\ ~Closed(r)
                      \/ /\ <<r[1], 0>> \in R /\ r[2] > Len(c)
                         /\ \A i \in Pend(o, q) : i <= r[1],
         Leave(c, o, p, R)
  PROVE  Leave(d, o, q, S)
<1>1. ASSUME NEW i \in Nat, NEW j \in Nat, Jump(d, i, j), d[i].op # "setjmp", NEW r \in S, Within(r, i)
      PROVE  Within(r, j)
  <2>1. Jump(c, i, j) /\ i \in 1..Len(c) /\ j \in 1..Len(c) + 1 /\ Len(c) \in Nat
    BY <1>1, PlainJumps, JumpTypes
  <2>a. c[i].op # "setjmp"
    BY <1>1, <2>1 DEF Plain
  <2>2. r[1] \in Nat /\ r[2] \in Nat
    BY DEF Region
  <2>3. CASE r \in R
    BY <1>1, <2>1, <2>a, <2>3 DEF Leave
  <2>4. CASE r[1] > Len(c)
    BY <1>1, <2>1, <2>2, <2>4 DEF Within
  <2>5. CASE <<r[1], 0>> \in R /\ r[2] > Len(c)
    <3>1. Within(<<r[1], 0>>, i)
      BY <1>1 DEF Within
    <3>2. Within(<<r[1], 0>>, j)
      BY <2>1, <2>a, <2>5, <3>1 DEF Leave
    <3>3. QED BY <2>1, <2>2, <2>5, <3>2 DEF Within
  <2>6. QED BY <2>3, <2>4, <2>5
<1>2. ASSUME NEW r \in S, Closed(r), NEW i \in Pend(o, q)
      PROVE  ~Within(r, i)
  <2>1. r[1] \in Nat /\ r[2] \in Nat /\ Len(c) \in Nat /\ i \in Nat
    BY DEF Region
  <2>2. CASE r \in R
    <3>1. CASE i \in Pend(o, p)
      BY <1>2, <2>2, <3>1 DEF Leave
    <3>2. CASE i > Len(c)
      <4>1. r[2] <= Len(c) /\ r[2] # 0
        BY <1>2, <2>2 DEF Closed
      <4>2. ~(i <= r[2])
        BY <2>1, <3>2, <4>1
      <4>3. QED BY <4>1, <4>2 DEF Within
    <3>3. QED BY <1>2, <3>1, <3>2
  <2>3. CASE i <= r[1]
    BY <2>1, <2>3 DEF Within
  <2>4. QED BY <1>2, <2>2, <2>3
<1>3. QED BY <1>1, <1>2 DEF Leave

\* A jump back to a test in front of which no open region starts leaves none.
LEMMA LeaveBack ==
  ASSUME NEW c \in Seq(Instruction), Targets(c), NEW o, NEW p, NEW R \in SUBSET Region,
         NEW x \in Instruction,
         \A r \in R : r[2] <= Len(c) /\ (~Closed(r) => r[1] < x.to),
         Leave(c, o, p, R)
  PROVE  Leave(Append(c, x), o, p, R)
<1> DEFINE d == Append(c, x)
<1>1. /\ Len(c) \in Nat /\ DOMAIN d = 1..Len(c) + 1 /\ DOMAIN c = 1..Len(c)
      /\ d[Len(c) + 1] = x /\ \A i \in 1..Len(c) : d[i] = c[i]
  OBVIOUS
<1> HIDE DEF d
<1>2. ASSUME NEW i \in Nat, NEW j \in Nat, Jump(d, i, j), d[i].op # "setjmp", NEW r \in R, Within(r, i)
      PROVE  Within(r, j)
  <2>1. CASE i \in 1..Len(c)
    <3>1. Jump(c, i, j)
      BY <1>1, <1>2, <2>1 DEF Jump
    <3>2. QED BY <1>1, <1>2, <2>1, <3>1 DEF Leave
  <2>2. CASE i \notin 1..Len(c)
    <3>1. i = Len(c) + 1
      BY <1>1, <1>2, <2>2 DEF Jump
    <3>2. j = x.to
      BY <1>1, <1>2, <3>1 DEF Jump
    <3>3. r[1] \in Nat /\ r[2] \in Nat
      BY DEF Region
    <3>4. ~Closed(r)
      BY <1>1, <1>2, <3>1, <3>3 DEF Within, Closed
    <3>5. QED BY <3>2, <3>4, <3>3 DEF Within, Closed
  <2>3. QED BY <2>1, <2>2
<1>3. QED BY <1>2 DEF Leave, d

\* Jumps still to be patched stand in no closed region, so they leave none.
LEMMA LeavePatch ==
  ASSUME NEW c \in Seq(Instruction), Targets(c), NEW o, NEW p, NEW R \in SUBSET Region,
         NEW from, \A i \in from : i \in Pend(o, p) \/ c[i].op = "setjmp",
         Leave(c, o, p, R)
  PROVE  Leave(Patch(c, from, Len(c) + 1), o, p, R)
<1> DEFINE d == Patch(c, from, Len(c) + 1)
<1>1. /\ Len(c) \in Nat /\ DOMAIN d = 1..Len(c) /\ DOMAIN c = 1..Len(c)
      /\ \A i \in 1..Len(c) : d[i].op = c[i].op /\ d[i].to = IF i \in from THEN Len(c) + 1 ELSE c[i].to
  BY DEF Patch, Instruction
<1> HIDE DEF d
<1>2. ASSUME NEW i \in Nat, NEW j \in Nat, Jump(d, i, j), d[i].op # "setjmp", NEW r \in R, Within(r, i)
      PROVE  Within(r, j)
  <2>0. i \in 1..Len(c) /\ r[1] \in Nat /\ r[2] \in Nat
    BY <1>1, <1>2 DEF Region, Jump
  <2>1. CASE i \notin from
    <3>1. Jump(c, i, j)
      BY <1>1, <1>2, <2>1, <2>0 DEF Jump
    <3>2. QED BY <1>1, <1>2, <2>0, <3>1 DEF Leave
  <2>2. CASE i \in from
    <3>1. j = Len(c) + 1
      BY <1>1, <1>2, <2>2, <2>0 DEF Jump
    <3>a. i \in Pend(o, p)
      BY <1>1, <1>2, <2>0, <2>2
    <3>2. r[2] = 0
      BY <1>2, <3>a DEF Leave, Closed
    <3>3. QED BY <1>1, <1>2, <2>0, <3>1, <3>2 DEF Within
  <2>3. QED BY <2>1, <2>2
<1>3. QED BY <1>2 DEF Leave, d

\* Fewer jumps to be patched leave no more regions.
LEMMA LeaveBlocks ==
  ASSUME NEW c, NEW o, NEW p, NEW s, NEW q, NEW R, Pend(s, q) \subseteq Pend(o, p),
         Leave(c, o, p, R)
  PROVE  Leave(c, s, q, R)
BY DEF Leave

----------------------------------------------------------------------------
\* The jumps c_emit_ functions patch, the setjmp of a try apart.
PendOps == {"branch", "goto", "test"}

Typed(c, o, l) ==
  c \in Seq(Instruction) /\ o \in Seq(BlockInProgress) /\ l \in Seq(Nat)

\* How the blocks in progress lie in the code: each with its test, all of it behind the
\* blocks around it; the function is the outermost; an open try has its setjmp.
Geometry(c, o) ==
  /\ \A k \in DOMAIN o :
       /\ o[k].of <= o[k].id /\ o[k].id <= Len(c) /\ o[k].test <= Len(c)
       /\ o[k].test # 0 => o[k].test >= o[k].of /\ c[o[k].test].op \in {"branch", "test"}
       /\ o[k].test # 0 <=> o[k].kind \in Loops
       /\ o[k].kind = "func" <=> k = 1
       /\ o[k].kind = "try" => /\ o[k].of \in DOMAIN c /\ c[o[k].of].op = "setjmp"
                               /\ c[o[k].of].to = 0
  /\ \A k \in DOMAIN o : \A j \in 1..k - 1 : o[j].id < o[k].of /\ o[j].test < o[k].of

\* Every jump that is not patched is in the list of a block, or in p.
Pending(c, o, p) ==
  /\ \A i \in p : i \in DOMAIN c /\ c[i].op \in PendOps /\ \A k \in DOMAIN o : i >= o[k].of
  /\ \A k \in DOMAIN o :
       /\ \A i \in o[k].exits \cup o[k].next :
            i \in DOMAIN c /\ c[i].op \in PendOps /\ i >= o[k].of
       /\ o[k].kind \in {"func", "block", "finally", "try"} => o[k].exits = {}
       /\ o[k].kind # "array" => o[k].next = {}
  /\ \A i \in DOMAIN c : c[i].op \in PendOps /\ c[i].to = 0 => i \in Pend(o, p)

NoBreaks == {"break", "continue"} \cap profile.features = {}

\* Without break and continue the jumps out of a block start at its head.
Near(o) ==
  \A k \in DOMAIN o : /\ o[k].next = {}
                      /\ \A i \in o[k].exits : i <= o[k].id \/ i <= o[k].test

\* The auto_drop_list of block k: the current one, or the one saved by the block in it.
Lst(o, l, k) == IF k = Len(o) THEN l ELSE o[k + 1].saved

\* Instruction d destroys object a.
DropOf(c, d, a) == d \in DOMAIN c /\ c[d].op = "drop" /\ c[d].v = a

\* The facts about the objects that make Objects: objects have the name of their let, ...
Inits(c) == \A i \in DOMAIN c : c[i].s < i /\ (c[i].op = "init" => c[i].v = i)

\* ... a drop destroys an object constructed before it in the same block, ...
DropsKnown(c) ==
  \A d \in DOMAIN c : c[d].op = "drop" =>
    c[d].v \in 1..d - 1 /\ c[c[d].v].op = "init" /\ c[c[d].v].s = c[d].s

\* ... no other drop destroys it, ...
DropsOnce(c) == \A a \in Nat : \A d, e \in Nat : DropOf(c, d, a) /\ DropOf(c, e, a) => d = e

\* ... the lists have the objects of their blocks, latest first, none destroyed yet, ...
Listed(c, o, l) ==
  \A k \in DOMAIN o : \A x \in 1..Len(Lst(o, l, k)) :
    /\ Lst(o, l, k)[x] \in DOMAIN c
    /\ c[Lst(o, l, k)[x]].op = "init" /\ c[Lst(o, l, k)[x]].s = o[k].id
    /\ Lst(o, l, k)[x] > o[k].id /\ Lst(o, l, k)[x] > o[k].test
    /\ \A j \in k + 1..Len(o) : Lst(o, l, k)[x] < o[j].of
    /\ \A d \in Nat : ~DropOf(c, d, Lst(o, l, k)[x])
    /\ \A y \in x + 1..Len(Lst(o, l, k)) : Lst(o, l, k)[y] < Lst(o, l, k)[x]

InList(o, l, a) == \E k \in DOMAIN o : \E x \in 1..Len(Lst(o, l, k)) : a = Lst(o, l, k)[x]

\* ... every object has its drop or is in a list, ...
Covered(c, o, l) ==
  \A a \in DOMAIN c : c[a].op = "init" => (\E d \in Nat : DropOf(c, d, a)) \/ InList(o, l, a)

\* ... a block in progress has no drops yet, ...
Sealed(c, o, z) ==
  \A d \in DOMAIN c : c[d].op = "drop" =>
    \A k \in DOMAIN o : c[d].s = o[k].id => z /\ k = Len(o)

\* ... and a drop follows the drops of the older objects of its block directly.
InOrder(c) ==
  \A d, w \in DOMAIN c :
    c[d].op = "drop" /\ c[w].op = "init" /\ w < c[d].v /\ c[w].s = c[d].s =>
      \E e \in 1..d - 1 : DropOf(c, e, w) /\ \A j \in e..d : c[j].op = "drop" /\ c[j].s = c[d].s

Objects(c, o, l, z) ==
  /\ Inits(c) /\ DropsKnown(c) /\ DropsOnce(c) /\ InOrder(c)
  /\ Listed(c, o, l) /\ Covered(c, o, l) /\ Sealed(c, o, z)

\* The regions in which an object lives, and those of try bodies.
Lifetimes(c) ==
  {r \in (DOMAIN c) \X (0..Len(c)) :
     /\ c[r[1]].op = "init"
     /\ IF r[2] = 0 THEN \A d \in Nat : ~DropOf(c, d, r[1]) ELSE DropOf(c, r[2], r[1])}

Bodies(c) ==
  {r \in (DOMAIN c) \X (0..Len(c)) :
     c[r[1]].op = "setjmp" /\ c[r[1]].to = (IF r[2] = 0 THEN 0 ELSE r[2] + 1)}

\* A jump leads to the first drop of a block or past its last, never between two.
DropsFall(c) ==
  \A i, j \in Nat : Jump(c, i, j) /\ j \in 2..Len(c) /\ c[j].op = "drop" /\ c[j - 1].op = "drop"
                    => c[j].s # c[j - 1].s

\* An error raised in a try body knows the try and stands in front of its arms.
ThrowsKnown(c) ==
  \A i \in DOMAIN c : c[i].op \in {"throw", "call"} /\ c[i].v # 0 =>
    /\ c[i].v \in 1..i - 1 /\ c[c[i].v].op = "setjmp"
    /\ c[c[i].v].to = 0 \/ i < c[c[i].v].to

\* With one try at a time no setjmp stands in the body of another.
TriesFlat(c) ==
  profile.tries <= 1 =>
    \A t, u \in DOMAIN c : c[t].op = "setjmp" /\ c[u].op = "setjmp" /\ t < u =>
      c[t].to # 0 /\ c[t].to <= u

\* A setjmp without its else belongs to a try in progress.
TriesOpen(c, o) ==
  \A t \in DOMAIN c : c[t].op = "setjmp" /\ c[t].to = 0 =>
    \E k \in DOMAIN o : o[k].kind = "try" /\ o[k].of = t

Tries(c, o) == ThrowsKnown(c) /\ TriesFlat(c) /\ TriesOpen(c, o)

\* What c_emit_block keeps of the code whatever its blocks contain: objects and try bodies
\* are entered at their start and, without break and continue, left at their end.
Nested(c, o, p) ==
  /\ Targets(c) /\ DropsFall(c)
  /\ Enter(c, o, Lifetimes(c)) /\ Enter(c, o, Bodies(c))
  /\ NoBreaks => Near(o) /\ Leave(c, o, p, Lifetimes(c))

\* p: jumps to be patched that no block has in its list yet; z: the drops of the
\* innermost block have been written.
Emitted(c, o, l, p, z) ==
  /\ Typed(c, o, l) /\ Geometry(c, o) /\ Pending(c, o, p)
  /\ Objects(c, o, l, z) /\ Tries(c, o) /\ Nested(c, o, p)

----------------------------------------------------------------------------
\* d has the instructions of c, perhaps with other targets, and more that are
\* not about objects.
SameObjects(c, d) ==
  /\ Len(c) <= Len(d)
  /\ \A i \in 1..Len(c) : d[i].op = c[i].op /\ d[i].v = c[i].v /\ d[i].s = c[i].s
  /\ \A i \in Len(c) + 1..Len(d) : d[i].op \notin {"init", "drop"} /\ d[i].s < i

\* Instructions that are not about objects destroy none.
LEMMA SameDrops ==
  ASSUME NEW c \in Seq(Instruction), NEW d \in Seq(Instruction), SameObjects(c, d)
  PROVE  \A e, a : DropOf(d, e, a) <=> DropOf(c, e, a)
<1>1. DOMAIN c = 1..Len(c) /\ DOMAIN d = 1..Len(d) /\ Len(c) \in Nat /\ Len(d) \in Nat
  OBVIOUS
<1>2. ASSUME NEW e, NEW a PROVE DropOf(d, e, a) <=> DropOf(c, e, a)
  <2>1. CASE e \in 1..Len(c)
    BY <1>1, <2>1 DEF DropOf, SameObjects
  <2>2. CASE e \notin 1..Len(c)
    BY <1>1, <2>2 DEF DropOf, SameObjects
  <2>3. QED BY <2>1, <2>2
<1>3. QED BY <1>2

\* They change none of the facts about objects.
LEMMA ObjectsKeep ==
  ASSUME NEW c \in Seq(Instruction), NEW d \in Seq(Instruction), SameObjects(c, d),
         NEW o, NEW l, NEW z, Objects(c, o, l, z)
  PROVE  Objects(d, o, l, z)
<1>1. DOMAIN c = 1..Len(c) /\ DOMAIN d = 1..Len(d) /\ Len(c) \in Nat /\ Len(d) \in Nat
  OBVIOUS
<1>2. \A e, a : DropOf(d, e, a) <=> DropOf(c, e, a)
  BY SameDrops
<1>3. \A i \in DOMAIN d : d[i].op \in {"init", "drop"} =>
         i \in DOMAIN c /\ c[i].op = d[i].op /\ c[i].v = d[i].v /\ c[i].s = d[i].s
  BY <1>1 DEF SameObjects
<1>4. \A i \in DOMAIN c : i \in DOMAIN d /\ c[i].op = d[i].op /\ c[i].v = d[i].v /\ c[i].s = d[i].s
  BY <1>1 DEF SameObjects
<1>5. Inits(d)
  <2>1. ASSUME NEW i \in DOMAIN d PROVE d[i].s < i
    <3>1. CASE i \in DOMAIN c
      BY <1>4, <3>1 DEF Objects, Inits
    <3>2. CASE i \notin DOMAIN c
      BY <1>1, <3>2 DEF SameObjects
    <3>3. QED BY <3>1, <3>2
  <2>2. QED BY <1>3, <2>1 DEF Objects, Inits
<1>6. DropsKnown(d)
  <2> SUFFICES ASSUME NEW e \in DOMAIN d, d[e].op = "drop"
               PROVE  d[e].v \in 1..e - 1 /\ d[d[e].v].op = "init" /\ d[d[e].v].s = d[e].s
    BY DEF DropsKnown
  <2>1. e \in DOMAIN c /\ c[e].op = "drop" /\ c[e].v = d[e].v /\ c[e].s = d[e].s
    BY <1>3
  <2>2. c[e].v \in 1..e - 1 /\ c[c[e].v].op = "init" /\ c[c[e].v].s = c[e].s
    BY <2>1 DEF Objects, DropsKnown
  <2>3. c[e].v \in DOMAIN c
    BY <1>1, <2>1, <2>2
  <2>4. QED BY <1>4, <2>1, <2>2, <2>3
<1>7. DropsOnce(d)
  BY <1>2 DEF Objects, DropsOnce
<1>8. InOrder(d)
  <2> SUFFICES ASSUME NEW e \in DOMAIN d, NEW w \in DOMAIN d, d[e].op = "drop",
                      d[w].op = "init", w < d[e].v, d[w].s = d[e].s
               PROVE  \E f \in 1..e - 1 : DropOf(d, f, w)
                                          /\ \A j \in f..e : d[j].op = "drop" /\ d[j].s = d[e].s
    BY DEF InOrder
  <2>1. /\ e \in DOMAIN c /\ c[e].op = "drop" /\ c[e].v = d[e].v /\ c[e].s = d[e].s
        /\ w \in DOMAIN c /\ c[w].op = "init" /\ c[w].s = d[w].s
    BY <1>3
  <2>2. PICK f \in 1..e - 1 : DropOf(c, f, w)
                              /\ \A j \in f..e : c[j].op = "drop" /\ c[j].s = c[e].s
    BY <2>1 DEF Objects, InOrder
  <2>3. \A j \in f..e : j \in DOMAIN c
    BY <1>1, <2>1
  <2>4. QED BY <1>2, <1>4, <2>1, <2>2, <2>3
<1>9. Listed(d, o, l)
  <2> SUFFICES ASSUME NEW k \in DOMAIN o, NEW x \in 1..Len(Lst(o, l, k))
               PROVE  /\ Lst(o, l, k)[x] \in DOMAIN d
                      /\ d[Lst(o, l, k)[x]].op = "init" /\ d[Lst(o, l, k)[x]].s = o[k].id
                      /\ \A e \in Nat : ~DropOf(d, e, Lst(o, l, k)[x])
    BY DEF Listed, Objects
  <2>1. /\ Lst(o, l, k)[x] \in DOMAIN c
        /\ c[Lst(o, l, k)[x]].op = "init" /\ c[Lst(o, l, k)[x]].s = o[k].id
        /\ \A e \in Nat : ~DropOf(c, e, Lst(o, l, k)[x])
    BY DEF Listed, Objects
  <2>2. QED BY <1>2, <1>4, <2>1
<1>10. Covered(d, o, l)
  <2> SUFFICES ASSUME NEW a \in DOMAIN d, d[a].op = "init"
               PROVE  (\E e \in Nat : DropOf(d, e, a)) \/ InList(o, l, a)
    BY DEF Covered
  <2>1. (\E e \in Nat : DropOf(c, e, a)) \/ InList(o, l, a)
    BY <1>3 DEF Covered, Objects
  <2>2. QED BY <1>2, <2>1
<1>11. Sealed(d, o, z)
  BY <1>3 DEF Objects, Sealed
<1>12. QED BY <1>5, <1>6, <1>7, <1>8, <1>9, <1>10, <1>11 DEF Objects

\* They let no object live longer.
LEMMA LifetimesKeep ==
  ASSUME NEW c \in Seq(Instruction), NEW d \in Seq(Instruction), SameObjects(c, d)
  PROVE  Lifetimes(d) \subseteq Lifetimes(c)
<1>1. DOMAIN c = 1..Len(c) /\ DOMAIN d = 1..Len(d) /\ Len(c) \in Nat /\ Len(d) \in Nat
  OBVIOUS
<1>2. \A e, a : DropOf(d, e, a) <=> DropOf(c, e, a)
  BY SameDrops
<1>3. \A i \in DOMAIN d : d[i].op \in {"init", "drop"} =>
         i \in DOMAIN c /\ c[i].op = d[i].op
  BY <1>1 DEF SameObjects
<1> SUFFICES ASSUME NEW r \in Lifetimes(d) PROVE r \in Lifetimes(c)
  OBVIOUS
<1>4. /\ r \in (DOMAIN d) \X (0..Len(d)) /\ d[r[1]].op = "init"
      /\ IF r[2] = 0 THEN \A e \in Nat : ~DropOf(d, e, r[1]) ELSE DropOf(d, r[2], r[1])
  BY DEF Lifetimes
<1>5. r[1] \in DOMAIN c /\ c[r[1]].op = "init"
  BY <1>3, <1>4
<1>6. IF r[2] = 0 THEN \A e \in Nat : ~DropOf(c, e, r[1]) ELSE DropOf(c, r[2], r[1])
  BY <1>2, <1>4
<1>7. r[2] \in 0..Len(c)
  <2>1. CASE r[2] = 0
    BY <1>1, <2>1
  <2>2. CASE r[2] # 0
    BY <1>1, <1>6, <2>2 DEF DropOf
  <2>3. QED BY <2>1, <2>2
<1>8. r \in (DOMAIN c) \X (0..Len(c))
  BY <1>4, <1>5, <1>7
<1>9. QED BY <1>5, <1>6, <1>8 DEF Lifetimes

\* The lifetimes and try bodies are regions of the code.
LEMMA RegionTypes ==
  ASSUME NEW c \in Seq(Instruction)
  PROVE  /\ Lifetimes(c) \in SUBSET Region /\ Bodies(c) \in SUBSET Region
         /\ \A r \in Lifetimes(c) \cup Bodies(c) : r[1] \in 1..Len(c) /\ r[2] \in 0..Len(c)
<1>1. DOMAIN c = 1..Len(c) /\ Len(c) \in Nat
  OBVIOUS
<1>2. QED BY <1>1 DEF Lifetimes, Bodies, Region

\* d has the trys of c and further instructions that are none.
SameTries(c, d) ==
  /\ Len(c) <= Len(d)
  /\ \A i \in 1..Len(c) : d[i].op = c[i].op /\ d[i].v = c[i].v
                          /\ (c[i].op = "setjmp" => d[i].to = c[i].to)
  /\ \A i \in Len(c) + 1..Len(d) :
       /\ d[i].op # "setjmp"
       /\ d[i].op \in {"throw", "call"} /\ d[i].v # 0 =>
            d[i].v \in DOMAIN c /\ c[d[i].v].op = "setjmp" /\ c[d[i].v].to = 0

\* Instructions that are no setjmp, and know an open try if any, keep the facts about trys.
LEMMA TriesKeep ==
  ASSUME NEW c \in Seq(Instruction), NEW d \in Seq(Instruction), SameTries(c, d),
         NEW o, Tries(c, o)
  PROVE  Tries(d, o)
<1>1. DOMAIN c = 1..Len(c) /\ DOMAIN d = 1..Len(d) /\ Len(c) \in Nat /\ Len(d) \in Nat
  OBVIOUS
<1>2. \A i \in DOMAIN d : d[i].op = "setjmp" => i \in DOMAIN c /\ c[i].op = "setjmp" /\ d[i].to = c[i].to
  BY <1>1 DEF SameTries
<1>3. ThrowsKnown(d)
  <2> SUFFICES ASSUME NEW i \in DOMAIN d, d[i].op \in {"throw", "call"}, d[i].v # 0
               PROVE  /\ d[i].v \in 1..i - 1 /\ d[d[i].v].op = "setjmp"
                      /\ d[d[i].v].to = 0 \/ i < d[d[i].v].to
    BY DEF ThrowsKnown
  <2>1. CASE i \in 1..Len(c)
    <3>1. c[i].op = d[i].op /\ c[i].v = d[i].v
      BY <2>1 DEF SameTries
    <3>2. /\ c[i].v \in 1..i - 1 /\ c[c[i].v].op = "setjmp"
          /\ c[c[i].v].to = 0 \/ i < c[c[i].v].to
      BY <1>1, <2>1, <3>1 DEF Tries, ThrowsKnown
    <3>3. c[i].v \in 1..Len(c)
      BY <1>1, <2>1, <3>2
    <3>4. d[c[i].v].op = "setjmp" /\ d[c[i].v].to = c[c[i].v].to
      BY <3>2, <3>3 DEF SameTries
    <3>5. QED BY <3>1, <3>2, <3>4
  <2>2. CASE i \notin 1..Len(c)
    <3>1. d[i].v \in 1..Len(c) /\ c[d[i].v].op = "setjmp" /\ c[d[i].v].to = 0
      BY <1>1, <2>2 DEF SameTries
    <3>2. d[d[i].v].op = "setjmp" /\ d[d[i].v].to = 0
      BY <3>1 DEF SameTries
    <3>3. QED BY <1>1, <2>2, <3>1, <3>2
  <2>3. QED BY <2>1, <2>2
<1>4. TriesFlat(d)
  BY <1>2 DEF Tries, TriesFlat
<1>5. TriesOpen(d, o)
  BY <1>2 DEF Tries, TriesOpen
<1>6. QED BY <1>3, <1>4, <1>5 DEF Tries

\* They add no try body.
LEMMA BodiesKeep ==
  ASSUME NEW c \in Seq(Instruction), NEW d \in Seq(Instruction), SameTries(c, d), Targets(c)
  PROVE  Bodies(d) \subseteq Bodies(c)
<1>1. DOMAIN c = 1..Len(c) /\ DOMAIN d = 1..Len(d) /\ Len(c) \in Nat /\ Len(d) \in Nat
  OBVIOUS
<1> SUFFICES ASSUME NEW r \in Bodies(d) PROVE r \in Bodies(c)
  OBVIOUS
<1>2. /\ r \in (DOMAIN d) \X (0..Len(d)) /\ d[r[1]].op = "setjmp"
      /\ d[r[1]].to = (IF r[2] = 0 THEN 0 ELSE r[2] + 1)
  BY DEF Bodies
<1>3. r[1] \in DOMAIN c /\ c[r[1]].op = "setjmp" /\ c[r[1]].to = d[r[1]].to
  BY <1>1, <1>2 DEF SameTries
<1>4. c[r[1]].to <= Len(c) + 1
  BY <1>3 DEF Targets
<1>5. r[2] \in 0..Len(c)
  BY <1>1, <1>2, <1>3, <1>4
<1>6. QED BY <1>2, <1>3, <1>5 DEF Bodies

\* A jump still to be patched is in the code.
LEMMA PendTypes ==
  ASSUME NEW c \in Seq(Instruction), NEW o, NEW p, Pending(c, o, p)
  PROVE  \A i \in Pend(o, p) : i \in 1..Len(c) /\ c[i].op \in PendOps
<1>1. DOMAIN c = 1..Len(c)
  OBVIOUS
<1>2. QED BY <1>1 DEF Pend, Pending

\* The bounds of the blocks in progress are places of the code.
LEMMA BlockTypes ==
  ASSUME NEW c \in Seq(Instruction), NEW o \in Seq(BlockInProgress), Geometry(c, o)
  PROVE  \A k \in DOMAIN o :
           /\ o[k].of \in 0..Len(c) /\ o[k].id \in 0..Len(c) /\ o[k].test \in 0..Len(c)
           /\ o[k].saved \in Seq(Nat) /\ o[k].kind \in Kinds
           /\ o[k].exits \subseteq Nat /\ o[k].next \subseteq Nat
<1>1. Len(c) \in Nat
  OBVIOUS
<1>2. SUFFICES ASSUME NEW k \in DOMAIN o
      PROVE  /\ o[k].of \in 0..Len(c) /\ o[k].id \in 0..Len(c) /\ o[k].test \in 0..Len(c)
             /\ o[k].saved \in Seq(Nat) /\ o[k].kind \in Kinds
             /\ o[k].exits \subseteq Nat /\ o[k].next \subseteq Nat
  OBVIOUS
<1>3. o[k] \in BlockInProgress
  OBVIOUS
<1>4. /\ o[k].of \in Nat /\ o[k].id \in Nat /\ o[k].test \in Nat
      /\ o[k].saved \in Seq(Nat) /\ o[k].kind \in Kinds
      /\ o[k].exits \subseteq Nat /\ o[k].next \subseteq Nat
  BY <1>3 DEF BlockInProgress
<1>5. o[k].of <= o[k].id /\ o[k].id <= Len(c) /\ o[k].test <= Len(c)
  BY DEF Geometry
<1>6. QED BY <1>1, <1>4, <1>5

\* What an instruction without a region of its own leaves alone.
LEMMA AppendKeeps ==
  ASSUME NEW c, NEW o, NEW l, NEW p, NEW z, Emitted(c, o, l, p, z), NEW x \in Instruction, NEW q,
         x.s <= Len(c), x.to <= Len(c) + 1,
         x.op \in {"throw", "call"} /\ x.v # 0 =>
           x.v \in DOMAIN c /\ c[x.v].op = "setjmp" /\ c[x.v].to = 0,
         q = IF x.op \in PendOps /\ x.to = 0 THEN p \cup {Len(c) + 1} ELSE p
  PROVE  /\ Typed(Append(c, x), o, l) /\ Geometry(Append(c, x), o) /\ Pending(Append(c, x), o, q)
         /\ Targets(Append(c, x))
         /\ x.op \notin {"init", "drop"} =>
              SameObjects(c, Append(c, x)) /\ Objects(Append(c, x), o, l, z)
         /\ x.op # "setjmp" => SameTries(c, Append(c, x)) /\ Tries(Append(c, x), o)
<1> DEFINE d == Append(c, x)
<1>1. /\ c \in Seq(Instruction) /\ o \in Seq(BlockInProgress) /\ l \in Seq(Nat)
      /\ Len(c) \in Nat /\ DOMAIN c = 1..Len(c)
  BY DEF Emitted, Typed
<1>2. /\ d \in Seq(Instruction) /\ Len(d) = Len(c) + 1 /\ DOMAIN d = 1..Len(c) + 1
      /\ d[Len(c) + 1] = x /\ \A i \in 1..Len(c) : d[i] = c[i]
  BY <1>1
<1> HIDE DEF d
<1>3. /\ Geometry(c, o) /\ Pending(c, o, p) /\ Objects(c, o, l, z) /\ Tries(c, o)
      /\ Nested(c, o, p)
  BY DEF Emitted
<1>4. /\ x.op \notin {"init", "drop"} => SameObjects(c, d)
      /\ x.op # "setjmp" => SameTries(c, d)
  <2>1. \A i \in Len(c) + 1..Len(d) : i = Len(c) + 1
    BY <1>1, <1>2
  <2>2. x.s < Len(c) + 1
    BY <1>1 DEF Instruction
  <2>3. x.op \notin {"init", "drop"} => SameObjects(c, d)
    BY <1>1, <1>2, <2>1, <2>2 DEF SameObjects
  <2>4. x.op # "setjmp" => SameTries(c, d)
    BY <1>1, <1>2, <2>1 DEF SameTries
  <2>5. QED BY <2>3, <2>4
<1>5. \A k \in DOMAIN o : /\ o[k].of \in 0..Len(c) /\ o[k].id \in 0..Len(c)
                          /\ o[k].test \in 0..Len(c)
  BY <1>1, <1>3, BlockTypes
<1>6. Geometry(d, o)
  <2>1. ASSUME NEW k \in DOMAIN o
        PROVE  /\ o[k].of <= o[k].id /\ o[k].id <= Len(d) /\ o[k].test <= Len(d)
               /\ o[k].test # 0 => o[k].test >= o[k].of /\ d[o[k].test].op \in {"branch", "test"}
               /\ o[k].kind = "try" => /\ o[k].of \in DOMAIN d /\ d[o[k].of].op = "setjmp"
                                       /\ d[o[k].of].to = 0
    <3>1. o[k].of <= o[k].id /\ o[k].id <= Len(d) /\ o[k].test <= Len(d)
      BY <1>1, <1>2, <1>3, <1>5 DEF Geometry
    <3>2. o[k].test # 0 => o[k].test \in 1..Len(c)
      BY <1>1, <1>5
    <3>3. QED BY <1>1, <1>2, <1>3, <3>1, <3>2 DEF Geometry
  <2>2. QED BY <1>3, <2>1 DEF Geometry
<1>7. Pending(d, o, q)
  <2>1. ASSUME NEW i \in q
        PROVE  i \in DOMAIN d /\ d[i].op \in PendOps /\ \A k \in DOMAIN o : i >= o[k].of
    <3>1. CASE i \in p
      BY <1>1, <1>2, <1>3, <3>1 DEF Pending
    <3>2. CASE i \notin p
      <4>1. i = Len(c) + 1 /\ x.op \in PendOps
        BY <2>1, <3>2
      <4>2. QED BY <1>1, <1>2, <1>5, <4>1
    <3>3. QED BY <3>1, <3>2
  <2>2. \A k \in DOMAIN o : \A i \in o[k].exits \cup o[k].next :
            i \in DOMAIN d /\ d[i].op \in PendOps /\ i >= o[k].of
    BY <1>1, <1>2, <1>3 DEF Pending
  <2>3. ASSUME NEW i \in DOMAIN d, d[i].op \in PendOps, d[i].to = 0
        PROVE  i \in Pend(o, q)
    <3>1. CASE i \in 1..Len(c)
      BY <1>1, <1>2, <1>3, <2>3, <3>1 DEF Pending, Pend
    <3>2. CASE i \notin 1..Len(c)
      BY <1>1, <1>2, <2>3, <3>2 DEF Pend
    <3>3. QED BY <3>1, <3>2
  <2>4. QED BY <1>3, <2>1, <2>2, <2>3 DEF Pending
<1>8. /\ x.op \notin {"init", "drop"} => Objects(d, o, l, z)
      /\ x.op # "setjmp" => Tries(d, o)
  BY <1>1, <1>2, <1>3, <1>4, ObjectsKeep, TriesKeep
<1>9. Targets(d)
  <2>1. \A i \in 1..Len(c) : c[i].to \in Nat /\ c[i].to <= Len(c) + 1
    <3>1. \A i \in 1..Len(c) : c[i] \in Instruction
      BY <1>1
    <3>2. QED BY <1>1, <1>3, <3>1 DEF Nested, Targets, Instruction
  <2>2. x.to \in Nat
    BY DEF Instruction
  <2>3. ASSUME NEW i \in 1..Len(c) + 1 PROVE d[i].to \in Nat /\ d[i].to <= Len(d) + 1
    <3>1. CASE i \in 1..Len(c)
      <4>1. d[i] = c[i]
        BY <1>2, <3>1
      <4>2. c[i].to \in Nat /\ c[i].to <= Len(c) + 1 /\ Len(c) \in Nat /\ Len(d) = Len(c) + 1
        BY <1>1, <1>2, <2>1, <3>1
      <4>3. QED BY ONLY <4>1, <4>2
    <3>2. CASE i = Len(c) + 1
      BY <1>1, <1>2, <2>2, <3>2
    <3>3. QED BY <1>1, <3>1, <3>2
  <2>4. QED BY <1>2, <2>3 DEF Targets
<1>10. QED BY <1>1, <1>2, <1>4, <1>6, <1>7, <1>8, <1>9 DEF Typed, d

\* A further instruction that opens a region at most leaves the others nested.
LEMMA AppendNested ==
  ASSUME NEW c, NEW o, NEW l, NEW p, NEW z, Emitted(c, o, l, p, z), NEW x \in Instruction, NEW q,
         x.op # "drop", x.to = 0, Targets(Append(c, x)),
         \A r \in Lifetimes(Append(c, x)) :
           r \in Lifetimes(c) \/ (r[1] = Len(c) + 1 /\ ~Closed(r)),
         \A r \in Bodies(Append(c, x)) : r \in Bodies(c) \/ r[1] = Len(c) + 1,
         \A i \in q : i \in p \/ i = Len(c) + 1
  PROVE  Nested(Append(c, x), o, q)
<1> DEFINE d == Append(c, x)
<1>1. /\ c \in Seq(Instruction) /\ o \in Seq(BlockInProgress)
      /\ Len(c) \in Nat /\ DOMAIN c = 1..Len(c)
  BY DEF Emitted, Typed
<1>2. /\ d \in Seq(Instruction) /\ Len(d) = Len(c) + 1 /\ DOMAIN d = 1..Len(c) + 1
      /\ d[Len(c) + 1] = x /\ \A i \in 1..Len(c) : d[i] = c[i]
  BY <1>1
<1>3. /\ Geometry(c, o) /\ Pending(c, o, p) /\ Nested(c, o, p)
  BY DEF Emitted
<1> HIDE DEF d
<1>4. \A k \in DOMAIN o : o[k].test \in 0..Len(c)
  BY <1>1, <1>3, BlockTypes
<1>5. Plain(c, d)
  <2>1. \A i \in Len(c) + 1..Len(d) : d[i].to = 0
    BY <1>1, <1>2
  <2>2. QED BY <1>1, <1>2, <2>1 DEF Plain
<1>6. /\ Lifetimes(c) \in SUBSET Region /\ Bodies(c) \in SUBSET Region
      /\ Lifetimes(d) \in SUBSET Region /\ Bodies(d) \in SUBSET Region
      /\ \A r \in Lifetimes(c) : r[2] \in 0..Len(c)
  BY <1>1, <1>2, RegionTypes
<1>7. Targets(c) /\ Enter(c, o, Lifetimes(c)) /\ Enter(c, o, Bodies(c))
  BY <1>3 DEF Nested
<1>8. Enter(d, o, Lifetimes(d))
  <2>1. \A r \in Lifetimes(d) : r \in Lifetimes(c) \/ r[1] > Len(c)
    BY <1>1 DEF d
  <2>2. QED BY <1>1, <1>2, <1>4, <1>5, <1>6, <1>7, <2>1, EnterGrow
<1>9. Enter(d, o, Bodies(d))
  <2>1. \A r \in Bodies(d) : r \in Bodies(c) \/ r[1] > Len(c)
    BY <1>1 DEF d
  <2>2. QED BY <1>1, <1>2, <1>4, <1>5, <1>6, <1>7, <2>1, EnterGrow
<1>10. NoBreaks => Near(o) /\ Leave(d, o, q, Lifetimes(d))
  <2> SUFFICES ASSUME NoBreaks PROVE Near(o) /\ Leave(d, o, q, Lifetimes(d))
    OBVIOUS
  <2>1. Near(o) /\ Leave(c, o, p, Lifetimes(c))
    BY <1>3 DEF Nested
  <2>2. \A i \in Pend(o, q) : i \in Nat /\ (i \in Pend(o, p) \/ i > Len(c))
    <3>1. \A i \in Pend(o, p) : i \in 1..Len(c)
      BY <1>1, <1>3, PendTypes
    <3>2. \A i \in Pend(o, q) : i \in Pend(o, p) \/ i = Len(c) + 1
      BY DEF Pend
    <3>3. QED BY <1>1, <3>1, <3>2
  <2>3. \A r \in Lifetimes(d) : r \in Lifetimes(c) \/ (r[1] > Len(c) /\ ~Closed(r))
    BY <1>1 DEF d
  <2>4. \A r \in Lifetimes(c) : r[2] <= Len(c)
    BY <1>1, <1>6
  <2>5. Leave(d, o, q, Lifetimes(d))
    BY <1>1, <1>2, <1>5, <1>6, <1>7, <2>1, <2>2, <2>3, <2>4, LeaveGrow
  <2>6. QED BY <2>1, <2>5
<1>11. DropsFall(d)
  <2> SUFFICES ASSUME NEW i \in Nat, NEW j \in Nat, Jump(d, i, j), j \in 2..Len(d),
                      d[j].op = "drop", d[j - 1].op = "drop"
               PROVE  d[j].s # d[j - 1].s
    BY DEF DropsFall
  <2>1. Jump(c, i, j)
    BY <1>1, <1>2, <1>5, PlainJumps
  <2>2. j \in 2..Len(c) /\ j - 1 \in 1..Len(c)
    BY <1>1, <1>2
  <2>3. d[j] = c[j] /\ d[j - 1] = c[j - 1]
    BY <1>2, <2>2
  <2>4. QED BY <1>3, <2>1, <2>2, <2>3 DEF Nested, DropsFall
<1>12. QED BY <1>8, <1>9, <1>10, <1>11 DEF Nested, d

\* return, throw, a call, the head of a block: an instruction that is no region.
LEMMA EmitPlain ==
  ASSUME NEW c, NEW o, NEW l, NEW p, NEW z, Emitted(c, o, l, p, z), NEW x \in Instruction, NEW q,
         x.op \notin {"init", "drop", "setjmp"}, x.s <= Len(c), x.to = 0,
         x.op \in {"throw", "call"} /\ x.v # 0 =>
           x.v \in DOMAIN c /\ c[x.v].op = "setjmp" /\ c[x.v].to = 0,
         q = IF x.op \in PendOps THEN p \cup {Len(c) + 1} ELSE p
  PROVE  Emitted(Append(c, x), o, l, q, z)
<1> DEFINE d == Append(c, x)
<1>1. c \in Seq(Instruction) /\ Len(c) \in Nat /\ d \in Seq(Instruction) /\ Targets(c)
  BY DEF Emitted, Typed, Nested
<1>2. /\ Typed(d, o, l) /\ Geometry(d, o) /\ Pending(d, o, q)
      /\ Objects(d, o, l, z) /\ Tries(d, o) /\ Targets(d)
      /\ SameObjects(c, d) /\ SameTries(c, d)
  <2>1. x.to <= Len(c) + 1
    BY <1>1
  <2>2. QED BY <2>1, AppendKeeps
<1>3. Lifetimes(d) \subseteq Lifetimes(c) /\ Bodies(d) \subseteq Bodies(c)
  BY <1>1, <1>2, LifetimesKeep, BodiesKeep
<1>4. Nested(d, o, q)
  BY <1>2, <1>3, AppendNested
<1>5. QED BY <1>2, <1>4 DEF Emitted

\* What is open belongs to a block in progress.
LEMMA OpenLifetimes ==
  ASSUME NEW c, NEW o, NEW l, NEW z, Typed(c, o, l), Objects(c, o, l, z),
         NEW r \in Lifetimes(c), ~Closed(r)
  PROVE  /\ InList(o, l, r[1])
         /\ l = <<>> => \A k \in DOMAIN o : k = Len(o) => r[1] < o[k].of
<1>1. c \in Seq(Instruction) /\ o \in Seq(BlockInProgress)
  BY DEF Typed
<1>2. r[1] \in DOMAIN c /\ c[r[1]].op = "init" /\ \A d \in Nat : ~DropOf(c, d, r[1])
  BY DEF Lifetimes, Closed
<1>3. InList(o, l, r[1])
  BY <1>2 DEF Objects, Covered
<1>4. ASSUME l = <<>>, NEW k \in DOMAIN o, k = Len(o)
      PROVE  r[1] < o[k].of
  <2>1. PICK m \in DOMAIN o : \E x \in 1..Len(Lst(o, l, m)) : r[1] = Lst(o, l, m)[x]
    BY <1>3 DEF InList
  <2>2. PICK x \in 1..Len(Lst(o, l, m)) : r[1] = Lst(o, l, m)[x]
    BY <2>1
  <2>3. m # Len(o)
    BY <1>4, <2>2 DEF Lst
  <2>4. k \in m + 1..Len(o)
    BY <1>1, <1>4, <2>3
  <2>5. QED BY <2>2, <2>4 DEF Objects, Listed
<1>5. QED BY <1>3, <1>4

\* continue, and the end of a loop: a jump back to a test.
LEMMA EmitBack ==
  ASSUME NEW c, NEW o, NEW l, NEW p, NEW z, Emitted(c, o, l, p, z), NEW x \in Instruction,
         NEW m \in DOMAIN o, o[m].test # 0, x.op = "goto", x.to = o[m].test, x.s <= Len(c),
         NoBreaks => m = Len(o) /\ l = <<>>
  PROVE  Emitted(Append(c, x), o, l, p, z)
<1> DEFINE d == Append(c, x)
<1>1. /\ c \in Seq(Instruction) /\ o \in Seq(BlockInProgress)
      /\ Len(c) \in Nat /\ DOMAIN c = 1..Len(c)
  BY DEF Emitted, Typed
<1>2. /\ d \in Seq(Instruction) /\ Len(d) = Len(c) + 1 /\ DOMAIN d = 1..Len(c) + 1
      /\ d[Len(c) + 1] = x /\ \A i \in 1..Len(c) : d[i] = c[i]
  BY <1>1
<1>3. Geometry(c, o) /\ Nested(c, o, p)
  BY DEF Emitted
<1>4. o[m].test \in 1..Len(c) /\ x.to \in 1..Len(c)
  BY <1>1, <1>3, BlockTypes
<1>5. /\ Typed(d, o, l) /\ Geometry(d, o) /\ Pending(d, o, p)
      /\ Objects(d, o, l, z) /\ Tries(d, o) /\ Targets(d)
      /\ SameObjects(c, d) /\ SameTries(c, d)
  <2>1. x.to <= Len(c) + 1
    BY <1>1, <1>4
  <2>2. p = IF x.op \in PendOps /\ x.to = 0 THEN p \cup {Len(c) + 1} ELSE p
    BY <1>4
  <2>3. QED BY <2>1, <2>2, AppendKeeps
<1> HIDE DEF d
<1>6. Lifetimes(d) \subseteq Lifetimes(c) /\ Bodies(d) \subseteq Bodies(c)
  BY <1>1, <1>2, <1>3, <1>5, LifetimesKeep, BodiesKeep DEF Nested
<1>7. /\ Lifetimes(c) \in SUBSET Region /\ Bodies(c) \in SUBSET Region
      /\ \A r \in Lifetimes(c) : r[2] \in 0..Len(c)
  BY <1>1, RegionTypes
<1>8. Enter(d, o, Lifetimes(d)) /\ Enter(d, o, Bodies(d))
  <2>1. Enter(d, o, Lifetimes(c)) /\ Enter(d, o, Bodies(c))
    BY <1>1, <1>3, <1>4, <1>7, EnterBack DEF Nested, d
  <2>2. QED BY <1>6, <2>1 DEF Enter
<1>9. NoBreaks => Near(o) /\ Leave(d, o, p, Lifetimes(d))
  <2> SUFFICES ASSUME NoBreaks PROVE Near(o) /\ Leave(d, o, p, Lifetimes(d))
    OBVIOUS
  <2>1. ASSUME NEW r \in Lifetimes(c), ~Closed(r) PROVE r[1] < x.to
    <3>1. r[1] < o[m].of
      BY <2>1, OpenLifetimes DEF Emitted
    <3>2. o[m].of <= o[m].test
      BY <1>3 DEF Geometry
    <3>3. r[1] \in Nat /\ o[m].of \in Nat /\ o[m].test \in Nat
      BY <1>1, <1>3, <1>7, BlockTypes DEF Region
    <3>4. QED BY <3>1, <3>2, <3>3
  <2>2. Leave(d, o, p, Lifetimes(c))
    <3>1. \A r \in Lifetimes(c) : r[2] <= Len(c)
      BY <1>1, <1>7
    <3>2. QED BY <1>1, <1>3, <1>7, <2>1, <3>1, LeaveBack DEF Nested, d
  <2>3. QED BY <1>3, <1>6, <2>2 DEF Nested, Leave
<1>10. DropsFall(d)
  <2> SUFFICES ASSUME NEW i \in Nat, NEW j \in Nat, Jump(d, i, j), j \in 2..Len(d),
                      d[j].op = "drop", d[j - 1].op = "drop"
               PROVE  d[j].s # d[j - 1].s
    BY DEF DropsFall
  <2>1. CASE i = Len(c) + 1
    <3>1. j = o[m].test
      BY <1>2, <2>1 DEF Jump
    <3>2. d[j].op \in {"branch", "test"}
      BY <1>2, <1>3, <1>4, <3>1 DEF Geometry
    <3>3. QED BY <3>2
  <2>2. CASE i # Len(c) + 1
    <3>1. i \in 1..Len(c)
      BY <1>1, <1>2, <2>2 DEF Jump
    <3>2. Jump(c, i, j)
      BY <1>1, <1>2, <3>1 DEF Jump
    <3>3. j \in 2..Len(c) /\ j - 1 \in 1..Len(c)
      BY <1>1, <1>2
    <3>4. d[j] = c[j] /\ d[j - 1] = c[j - 1]
      BY <1>2, <3>3
    <3>5. QED BY <1>3, <3>2, <3>3, <3>4 DEF Nested, DropsFall
  <2>3. QED BY <2>1, <2>2
<1>11. Nested(d, o, p)
  BY <1>5, <1>8, <1>9, <1>10 DEF Nested
<1>12. QED BY <1>5, <1>11 DEF Emitted, d

\* A let puts its object on the list of its block.
LEMMA InitObjects ==
  ASSUME NEW c, NEW o, NEW l, NEW p, Emitted(c, o, l, p, FALSE), NEW x \in Instruction,
         Len(o) \in DOMAIN o, x.op = "init", x.v = Len(c) + 1, x.s = o[Len(o)].id
  PROVE  /\ Objects(Append(c, x), o, <<Len(c) + 1>> \o l, FALSE)
         /\ \A r \in Lifetimes(Append(c, x)) :
              r \in Lifetimes(c) \/ (r[1] = Len(c) + 1 /\ ~Closed(r))
<1> DEFINE d == Append(c, x)
           m == <<Len(c) + 1>> \o l
           n == Len(c) + 1
<1>1. /\ c \in Seq(Instruction) /\ o \in Seq(BlockInProgress) /\ l \in Seq(Nat)
      /\ Len(c) \in Nat /\ DOMAIN c = 1..Len(c) /\ DOMAIN o = 1..Len(o) /\ Len(l) \in Nat
  BY DEF Emitted, Typed
<1>2. /\ d \in Seq(Instruction) /\ Len(d) = Len(c) + 1 /\ DOMAIN d = 1..Len(c) + 1
      /\ d[n] = x /\ \A i \in 1..Len(c) : d[i] = c[i]
  BY <1>1
<1>3. /\ Len(m) = Len(l) + 1 /\ m[1] = n /\ \A y \in 2..Len(m) : m[y] = l[y - 1] /\ y - 1 \in 1..Len(l)
  BY <1>1
<1> HIDE DEF d, m
<1>4. Geometry(c, o) /\ Objects(c, o, l, FALSE)
  BY DEF Emitted
<1>5. \A e, a : DropOf(d, e, a) <=> DropOf(c, e, a)
  <2> SUFFICES ASSUME NEW e, NEW a PROVE DropOf(d, e, a) <=> DropOf(c, e, a)
    OBVIOUS
  <2>1. CASE e \in 1..Len(c)
    BY <1>1, <1>2, <2>1 DEF DropOf
  <2>2. CASE e \notin 1..Len(c)
    BY <1>1, <1>2, <2>2 DEF DropOf
  <2>3. QED BY <2>1, <2>2
<1>6. \A e \in Nat : ~DropOf(c, e, n)
  <2> SUFFICES ASSUME NEW e \in Nat, DropOf(c, e, n) PROVE FALSE
    OBVIOUS
  <2>1. e \in 1..Len(c) /\ c[e].v \in 1..e - 1 /\ c[e].v = n
    BY <1>1, <1>4 DEF DropOf, Objects, DropsKnown
  <2>2. QED BY <1>1, <2>1
<1>7. \A i \in 1..n : i \in 1..Len(c) \/ i = n
  BY <1>1
<1>8. \A i \in DOMAIN d : d[i].op = "drop" => i \in DOMAIN c /\ d[i] = c[i]
  BY <1>1, <1>2, <1>7
<1>9. o[Len(o)].id \in 0..Len(c) /\ o[Len(o)].test \in 0..Len(c)
  BY <1>1, <1>4, BlockTypes
<1>10. Inits(d)
  <2>1. x.s < n
    BY <1>1, <1>9
  <2>2. QED BY <1>1, <1>2, <1>4, <1>7, <2>1 DEF Objects, Inits
<1>11. DropsKnown(d)
  <2> SUFFICES ASSUME NEW e \in DOMAIN d, d[e].op = "drop"
               PROVE  d[e].v \in 1..e - 1 /\ d[d[e].v].op = "init" /\ d[d[e].v].s = d[e].s
    BY DEF DropsKnown
  <2>1. e \in 1..Len(c) /\ d[e] = c[e]
    BY <1>1, <1>8
  <2>2. c[e].v \in 1..e - 1 /\ c[c[e].v].op = "init" /\ c[c[e].v].s = c[e].s
    BY <1>1, <1>4, <2>1 DEF Objects, DropsKnown
  <2>3. c[e].v \in 1..Len(c)
    BY <1>1, <2>1, <2>2
  <2>4. QED BY <1>2, <2>1, <2>2, <2>3
<1>12. DropsOnce(d)
  BY <1>4, <1>5 DEF Objects, DropsOnce
<1>13. InOrder(d)
  <2> SUFFICES ASSUME NEW e \in DOMAIN d, NEW w \in DOMAIN d, d[e].op = "drop",
                      d[w].op = "init", w < d[e].v, d[w].s = d[e].s
               PROVE  \E f \in 1..e - 1 : DropOf(d, f, w)
                                          /\ \A j \in f..e : d[j].op = "drop" /\ d[j].s = d[e].s
    BY DEF InOrder
  <2>1. e \in 1..Len(c) /\ d[e] = c[e]
    BY <1>1, <1>8
  <2>2. c[e].v \in 1..e - 1
    BY <1>1, <1>4, <2>1 DEF Objects, DropsKnown
  <2>3. w \in 1..Len(c) /\ d[w] = c[w]
    BY <1>1, <1>2, <2>1, <2>2
  <2>4. PICK f \in 1..e - 1 : DropOf(c, f, w)
                              /\ \A j \in f..e : c[j].op = "drop" /\ c[j].s = c[e].s
    BY <1>1, <1>4, <2>1, <2>3 DEF Objects, InOrder
  <2>5. \A j \in f..e : d[j] = c[j]
    BY <1>1, <1>2, <2>1
  <2>6. QED BY <1>5, <2>1, <2>4, <2>5
<1>14. Listed(d, o, m)
  <2> SUFFICES ASSUME NEW k \in DOMAIN o, NEW y \in 1..Len(Lst(o, m, k))
               PROVE  /\ Lst(o, m, k)[y] \in DOMAIN d
                      /\ d[Lst(o, m, k)[y]].op = "init" /\ d[Lst(o, m, k)[y]].s = o[k].id
                      /\ Lst(o, m, k)[y] > o[k].id /\ Lst(o, m, k)[y] > o[k].test
                      /\ \A j \in k + 1..Len(o) : Lst(o, m, k)[y] < o[j].of
                      /\ \A e \in Nat : ~DropOf(d, e, Lst(o, m, k)[y])
                      /\ \A u \in y + 1..Len(Lst(o, m, k)) : Lst(o, m, k)[u] < Lst(o, m, k)[y]
    BY DEF Listed
  <2>1. CASE k # Len(o)
    <3>1. Lst(o, m, k) = Lst(o, l, k)
      BY <2>1 DEF Lst
    <3>2. /\ Lst(o, l, k)[y] \in DOMAIN c
          /\ c[Lst(o, l, k)[y]].op = "init" /\ c[Lst(o, l, k)[y]].s = o[k].id
          /\ Lst(o, l, k)[y] > o[k].id /\ Lst(o, l, k)[y] > o[k].test
          /\ \A j \in k + 1..Len(o) : Lst(o, l, k)[y] < o[j].of
          /\ \A e \in Nat : ~DropOf(c, e, Lst(o, l, k)[y])
          /\ \A u \in y + 1..Len(Lst(o, l, k)) : Lst(o, l, k)[u] < Lst(o, l, k)[y]
      BY <1>4, <3>1 DEF Objects, Listed
    <3>3. Lst(o, l, k)[y] \in DOMAIN d /\ d[Lst(o, l, k)[y]] = c[Lst(o, l, k)[y]]
      BY <1>1, <1>2, <3>2
    <3>4. QED BY <1>5, <3>1, <3>2, <3>3
  <2>2. CASE k = Len(o)
    <3>0. Lst(o, m, k) = m /\ Lst(o, l, k) = l
      BY <2>2 DEF Lst
    <3>1. \A u \in 1..Len(l) :
             /\ l[u] \in DOMAIN c
             /\ c[l[u]].op = "init" /\ c[l[u]].s = o[k].id
             /\ l[u] > o[k].id /\ l[u] > o[k].test
             /\ \A e \in Nat : ~DropOf(c, e, l[u])
             /\ \A v \in u + 1..Len(l) : l[v] < l[u]
      BY <1>4, <3>0 DEF Objects, Listed
    <3>2. \A j \in k + 1..Len(o) : FALSE
      BY <1>1, <2>2
    <3>3. CASE y = 1
      <4>1. n > o[k].id /\ n > o[k].test
        BY <1>1, <1>9, <2>2
      <4>2. \A u \in 2..Len(m) : m[u] < n
        <5> SUFFICES ASSUME NEW u \in 2..Len(m) PROVE m[u] < n
          OBVIOUS
        <5>1. m[u] = l[u - 1] /\ u - 1 \in 1..Len(l)
          BY <1>3
        <5>2. m[u] \in 1..Len(c)
          BY <1>1, <3>1, <5>1
        <5>3. QED BY <1>1, <5>2
      <4>3. n \in DOMAIN d /\ d[n].op = "init" /\ d[n].s = o[k].id
        BY <1>1, <1>2, <2>2
      <4>4. QED BY <1>3, <1>5, <1>6, <3>0, <3>2, <3>3, <4>1, <4>2, <4>3
    <3>4. CASE y # 1
      <4>1. y \in 2..Len(m) /\ m[y] = l[y - 1] /\ y - 1 \in 1..Len(l)
        BY <1>1, <1>3, <3>0, <3>4
      <4>2. /\ l[y - 1] \in DOMAIN c
            /\ c[l[y - 1]].op = "init" /\ c[l[y - 1]].s = o[k].id
            /\ l[y - 1] > o[k].id /\ l[y - 1] > o[k].test
            /\ \A e \in Nat : ~DropOf(c, e, l[y - 1])
            /\ \A v \in (y - 1) + 1..Len(l) : l[v] < l[y - 1]
        BY <3>1, <4>1
      <4>3. m[y] \in DOMAIN d /\ d[m[y]] = c[m[y]]
        BY <1>1, <1>2, <4>1, <4>2
      <4>4. \A u \in y + 1..Len(m) : m[u] < m[y]
        <5> SUFFICES ASSUME NEW u \in y + 1..Len(m) PROVE m[u] < m[y]
          OBVIOUS
        <5>1. u \in 2..Len(m) /\ u - 1 \in (y - 1) + 1..Len(l)
          BY <1>1, <1>3, <4>1
        <5>2. m[u] = l[u - 1]
          BY <1>3, <5>1
        <5>3. QED BY <4>1, <4>2, <5>1, <5>2
      <4>5. QED BY <1>5, <3>0, <3>2, <4>1, <4>2, <4>3, <4>4
    <3>5. QED BY <3>3, <3>4
  <2>3. QED BY <2>1, <2>2
<1>15. Covered(d, o, m)
  <2> SUFFICES ASSUME NEW a \in DOMAIN d, d[a].op = "init", \A e \in Nat : ~DropOf(d, e, a)
               PROVE  InList(o, m, a)
    BY DEF Covered
  <2>1. CASE a = n
    <3>1. Lst(o, m, Len(o)) = m /\ 1 \in 1..Len(m)
      BY <1>1, <1>3 DEF Lst
    <3>2. QED BY <1>3, <2>1, <3>1 DEF InList
  <2>2. CASE a # n
    <3>1. a \in DOMAIN c /\ c[a].op = "init"
      BY <1>1, <1>2, <1>7, <2>2
    <3>2. InList(o, l, a)
      BY <1>4, <1>5, <3>1 DEF Objects, Covered
    <3>3. PICK k \in DOMAIN o : \E y \in 1..Len(Lst(o, l, k)) : a = Lst(o, l, k)[y]
      BY <3>2 DEF InList
    <3>4. PICK y \in 1..Len(Lst(o, l, k)) : a = Lst(o, l, k)[y]
      BY <3>3
    <3>5. CASE k # Len(o)
      <4>1. Lst(o, m, k) = Lst(o, l, k)
        BY <3>5 DEF Lst
      <4>2. QED BY <3>4, <4>1 DEF InList
    <3>6. CASE k = Len(o)
      <4>1. Lst(o, m, k) = m /\ Lst(o, l, k) = l
        BY <3>6 DEF Lst
      <4>2. y + 1 \in 2..Len(m) /\ y + 1 \in 1..Len(m) /\ (y + 1) - 1 = y
        BY <1>1, <1>3, <3>4, <4>1
      <4>3. m[y + 1] = l[y]
        BY <1>3, <4>2
      <4>4. QED BY <3>4, <4>1, <4>2, <4>3 DEF InList
    <3>7. QED BY <3>5, <3>6
  <2>3. QED BY <2>1, <2>2
<1>16. Sealed(d, o, FALSE)
  BY <1>4, <1>8 DEF Objects, Sealed
<1>17. Objects(d, o, m, FALSE)
  BY <1>10, <1>11, <1>12, <1>13, <1>14, <1>15, <1>16 DEF Objects
<1>18. ASSUME NEW r \in Lifetimes(d)
       PROVE  r \in Lifetimes(c) \/ (r[1] = n /\ ~Closed(r))
  <2>1. /\ r \in (1..n) \X (0..n) /\ d[r[1]].op = "init"
        /\ IF r[2] = 0 THEN \A e \in Nat : ~DropOf(d, e, r[1]) ELSE DropOf(d, r[2], r[1])
    BY <1>2 DEF Lifetimes
  <2>2. CASE r[1] = n
    <3>1. r[2] \in Nat
      BY <1>1, <2>1
    <3>2. r[2] = 0
      BY <1>5, <1>6, <2>1, <2>2, <3>1
    <3>3. QED BY <2>2, <3>2 DEF Closed
  <2>3. CASE r[1] # n
    <3>1. r[1] \in DOMAIN c /\ c[r[1]].op = "init"
      BY <1>1, <1>2, <1>7, <2>1, <2>3
    <3>2. IF r[2] = 0 THEN \A e \in Nat : ~DropOf(c, e, r[1]) ELSE DropOf(c, r[2], r[1])
      BY <1>5, <2>1
    <3>3. r[2] \in 0..Len(c)
      BY <1>1, <2>1, <3>2 DEF DropOf
    <3>4. r \in (DOMAIN c) \X (0..Len(c))
      BY <2>1, <3>1, <3>3
    <3>5. r \in Lifetimes(c)
      BY ONLY <3>1, <3>2, <3>4 DEF Lifetimes
    <3>6. QED BY <3>5
  <2>4. QED BY <2>2, <2>3
<1>19. QED BY <1>17, <1>18 DEF d, m

\* c_emit_let keeps what has been emitted in order.
LEMMA EmitInit ==
  ASSUME NEW c, NEW o, NEW l, NEW p, Emitted(c, o, l, p, FALSE), NEW x \in Instruction,
         Len(o) \in DOMAIN o, x.op = "init", x.v = Len(c) + 1, x.s = o[Len(o)].id, x.to = 0
  PROVE  Emitted(Append(c, x), o, <<Len(c) + 1>> \o l, p, FALSE)
<1> DEFINE d == Append(c, x)
<1>1. /\ c \in Seq(Instruction) /\ o \in Seq(BlockInProgress) /\ l \in Seq(Nat)
      /\ Len(c) \in Nat /\ d \in Seq(Instruction) /\ Targets(c) /\ Geometry(c, o)
  BY DEF Emitted, Typed, Nested
<1>2. x.s <= Len(c)
  BY <1>1 DEF Geometry
<1>3. /\ Typed(d, o, l) /\ Geometry(d, o) /\ Pending(d, o, p)
      /\ Tries(d, o) /\ Targets(d) /\ SameTries(c, d)
  <2>1. x.to <= Len(c) + 1
    BY <1>1
  <2>2. p = IF x.op \in PendOps /\ x.to = 0 THEN p \cup {Len(c) + 1} ELSE p
    BY DEF PendOps
  <2>3. QED BY <1>2, <2>1, <2>2, AppendKeeps
<1>4. Typed(d, o, <<Len(c) + 1>> \o l)
  BY <1>1, <1>3 DEF Typed
<1>5. Objects(d, o, <<Len(c) + 1>> \o l, FALSE)
  BY InitObjects
<1>6. \A r \in Lifetimes(d) : r \in Lifetimes(c) \/ (r[1] = Len(c) + 1 /\ ~Closed(r))
  BY InitObjects
<1>7. Bodies(d) \subseteq Bodies(c)
  BY <1>1, <1>3, BodiesKeep
<1>8. Nested(d, o, p)
  BY <1>3, <1>6, <1>7, AppendNested
<1>9. QED BY <1>3, <1>4, <1>5, <1>8 DEF Emitted

\* What Drops writes for a list.
DropCode(l, s) == [i \in DOMAIN l |-> Instr("drop", Reverse(l)[i], s, 0)]

\* Where the drop of the entry y of a list is written.
DropPlace(c, l, y) == Len(c) + Len(l) - y + 1

\* The drops written for a list, oldest object first.
LEMMA DropCodeFacts ==
  ASSUME NEW c \in Seq(Instruction), NEW l \in Seq(Nat), NEW s \in Nat
  PROVE  /\ c \o DropCode(l, s) \in Seq(Instruction)
         /\ DOMAIN (c \o DropCode(l, s)) = 1..Len(c) + Len(l)
         /\ Len(c \o DropCode(l, s)) = Len(c) + Len(l)
         /\ \A i \in 1..Len(c) : (c \o DropCode(l, s))[i] = c[i]
         /\ \A i \in Len(c) + 1..Len(c) + Len(l) :
              \E y \in 1..Len(l) :
                i = DropPlace(c, l, y) /\ (c \o DropCode(l, s))[i] = Instr("drop", l[y], s, 0)
         /\ \A y \in 1..Len(l) :
              /\ DropPlace(c, l, y) \in Len(c) + 1..Len(c) + Len(l)
              /\ (c \o DropCode(l, s))[DropPlace(c, l, y)] = Instr("drop", l[y], s, 0)
<1>1. Len(c) \in Nat /\ Len(l) \in Nat /\ DOMAIN l = 1..Len(l) /\ \A y \in 1..Len(l) : l[y] \in Nat
  OBVIOUS
<1>2. DropCode(l, s) = [i \in 1..Len(l) |-> Instr("drop", l[(Len(l) - i) + 1], s, 0)]
  <2>1. \A i \in 1..Len(l) : Reverse(l)[i] = l[(Len(l) - i) + 1]
    BY DEF Reverse
  <2>2. QED BY <1>1, <2>1 DEF DropCode
<1>3. \A i \in 1..Len(l) : (Len(l) - i) + 1 \in 1..Len(l)
  BY <1>1
<1>4. \A i \in 1..Len(l) : Instr("drop", l[(Len(l) - i) + 1], s, 0) \in Instruction
  BY <1>1, <1>3 DEF Instr, Instruction, Ops
<1>5. \A i \in 1..Len(l) : DropCode(l, s)[i] = Instr("drop", l[(Len(l) - i) + 1], s, 0)
  BY <1>2
<1>6. DropCode(l, s) \in Seq(Instruction) /\ Len(DropCode(l, s)) = Len(l)
  <2> DEFINE F(i) == Instr("drop", l[(Len(l) - i) + 1], s, 0)
  <2>1. \A i \in 1..Len(l) : F(i) \in Instruction
    BY <1>4
  <2>2. DropCode(l, s) = [i \in 1..Len(l) |-> F(i)]
    BY <1>2
  <2> HIDE DEF F
  <2>3. [i \in 1..Len(l) |-> F(i)] \in Seq(Instruction) /\ Len([i \in 1..Len(l) |-> F(i)]) = Len(l)
    BY <1>1, <2>1
  <2>4. QED BY <2>2, <2>3
<1>7. \A e \in Seq(Instruction) :
        /\ c \o e \in Seq(Instruction) /\ Len(c \o e) = Len(c) + Len(e)
        /\ DOMAIN (c \o e) = 1..Len(c) + Len(e)
        /\ \A i \in 1..Len(c) : (c \o e)[i] = c[i]
        /\ \A i \in 1..Len(e) : (c \o e)[Len(c) + i] = e[i]
  OBVIOUS
<1> DEFINE d == c \o DropCode(l, s)
<1>8. /\ d \in Seq(Instruction) /\ Len(d) = Len(c) + Len(l) /\ DOMAIN d = 1..Len(c) + Len(l)
      /\ \A i \in 1..Len(c) : d[i] = c[i]
      /\ \A i \in 1..Len(l) : d[Len(c) + i] = DropCode(l, s)[i]
  BY <1>6, <1>7
<1> HIDE DEF d
<1>9. ASSUME NEW y \in 1..Len(l)
      PROVE  /\ DropPlace(c, l, y) \in Len(c) + 1..Len(c) + Len(l)
             /\ d[DropPlace(c, l, y)] = Instr("drop", l[y], s, 0)
  <2>1. /\ DropPlace(c, l, y) = Len(c) + ((Len(l) - y) + 1) /\ (Len(l) - y) + 1 \in 1..Len(l)
        /\ (Len(l) - ((Len(l) - y) + 1)) + 1 = y
    BY <1>1 DEF DropPlace
  <2>2. d[DropPlace(c, l, y)] = DropCode(l, s)[(Len(l) - y) + 1]
    BY <1>8, <2>1
  <2>3. DropCode(l, s)[(Len(l) - y) + 1] = Instr("drop", l[y], s, 0)
    BY <1>5, <2>1
  <2>4. DropPlace(c, l, y) \in Len(c) + 1..Len(c) + Len(l)
    BY <1>1, <2>1
  <2>5. QED BY <2>2, <2>3, <2>4
<1>10. ASSUME NEW i \in Len(c) + 1..Len(c) + Len(l)
       PROVE  \E y \in 1..Len(l) : i = DropPlace(c, l, y) /\ d[i] = Instr("drop", l[y], s, 0)
  <2>1. Len(c) + Len(l) - i + 1 \in 1..Len(l) /\ i = DropPlace(c, l, Len(c) + Len(l) - i + 1)
    BY <1>1 DEF DropPlace
  <2>2. QED BY <1>9, <2>1
<1>11. QED BY <1>8, <1>9, <1>10 DEF d

\* ... whatever the places of the drops.
LEMMA DropsBehind ==
  ASSUME NEW c \in Seq(Instruction), NEW l \in Seq(Nat), NEW s \in Nat
  PROVE  /\ c \o DropCode(l, s) \in Seq(Instruction)
         /\ DOMAIN (c \o DropCode(l, s)) = 1..Len(c) + Len(l)
         /\ Len(c \o DropCode(l, s)) = Len(c) + Len(l)
         /\ \A i \in 1..Len(c) : (c \o DropCode(l, s))[i] = c[i]
         /\ \A i \in Len(c) + 1..Len(c) + Len(l) :
              \E y \in 1..Len(l) : (c \o DropCode(l, s))[i] = Instr("drop", l[y], s, 0)
BY DropCodeFacts

\* With the drops of a block every object of it has its one drop, in order.
LEMMA DropsObjects ==
  ASSUME NEW c, NEW o, NEW l, NEW p, Emitted(c, o, l, p, FALSE), Len(o) \in DOMAIN o
  PROVE  /\ Objects(c \o DropCode(l, o[Len(o)].id), o, <<>>, TRUE)
         /\ \A r \in Lifetimes(c \o DropCode(l, o[Len(o)].id)) :
              \/ r \in Lifetimes(c)
              \/ <<r[1], 0>> \in Lifetimes(c) /\ r[2] > Len(c) /\ r[1] > o[Len(o)].id
                 /\ r[1] > o[Len(o)].test
<1>a. /\ c \in Seq(Instruction) /\ o \in Seq(BlockInProgress) /\ l \in Seq(Nat)
      /\ Geometry(c, o) /\ Objects(c, o, l, FALSE)
  BY DEF Emitted, Typed
<1>b. o[Len(o)].id \in 0..Len(c)
  BY <1>a, BlockTypes
<1>c. Len(c) \in Nat /\ o[Len(o)].id \in Nat
  BY <1>a, <1>b
<1> DEFINE s == o[Len(o)].id
           d == c \o DropCode(l, s)
           n == Len(c)
           m == Len(l)
           t == Len(o)
           P(y) == DropPlace(c, l, y)
<1>1. /\ c \in Seq(Instruction) /\ o \in Seq(BlockInProgress) /\ l \in Seq(Nat)
      /\ n \in Nat /\ DOMAIN c = 1..n /\ DOMAIN o = 1..t /\ m \in Nat /\ t \in Nat
      /\ Geometry(c, o) /\ Objects(c, o, l, FALSE) /\ t \in DOMAIN o
  <2>1. n \in Nat /\ DOMAIN c = 1..n /\ m \in Nat
    BY <1>a
  <2>2. DOMAIN o = 1..t /\ t \in Nat
    BY <1>a
  <2>3. QED BY <1>a, <2>1, <2>2
<1>2. s \in 0..n
  BY <1>b
<1>3. /\ d \in Seq(Instruction) /\ Len(d) = n + m /\ DOMAIN d = 1..n + m
      /\ \A i \in 1..n : d[i] = c[i]
      /\ \A i \in n + 1..n + m :
           \E y \in 1..m : i = P(y) /\ d[i] = Instr("drop", l[y], s, 0)
      /\ \A y \in 1..m : P(y) \in n + 1..n + m /\ d[P(y)] = Instr("drop", l[y], s, 0)
  BY <1>a, <1>c, DropCodeFacts
<1>4. \A y, u \in 1..m : (y < u <=> P(u) < P(y)) /\ (P(y) = P(u) => y = u)
  BY <1>1 DEF DropPlace
<1>5. /\ Lst(o, l, t) = l
      /\ \A y \in 1..m :
           /\ l[y] \in 1..n /\ c[l[y]].op = "init" /\ c[l[y]].s = s
           /\ l[y] > s /\ l[y] > o[t].test
           /\ \A e \in Nat : ~DropOf(c, e, l[y])
           /\ \A u \in y + 1..m : l[u] < l[y]
  <2>1. Lst(o, l, t) = l
    BY DEF Lst
  <2>2. QED BY <1>1, <2>1 DEF Objects, Listed
<1>d. \A i \in n + 1..n + m : d[i].op = "drop" /\ d[i].s = s
  <2> SUFFICES ASSUME NEW i \in n + 1..n + m PROVE d[i].op = "drop" /\ d[i].s = s
    OBVIOUS
  <2>1. PICK y \in 1..m : d[i] = Instr("drop", l[y], s, 0)
    BY <1>3
  <2>2. QED BY <2>1 DEF Instr
<1>e. s = o[t].id /\ t = Len(o) /\ n = Len(c) /\ m = Len(l)
  OBVIOUS
<1> HIDE DEF d, n, m, s, t, P
<1>6. \A i \in DOMAIN d : i \in 1..n \/ i \in n + 1..n + m
  BY <1>1, <1>3
<1>7. \A e, a : DropOf(d, e, a) <=> (DropOf(c, e, a) \/ \E y \in 1..m : e = P(y) /\ a = l[y])
  <2> SUFFICES ASSUME NEW e, NEW a
               PROVE  DropOf(d, e, a) <=> (DropOf(c, e, a) \/ \E y \in 1..m : e = P(y) /\ a = l[y])
    OBVIOUS
  <2>1. CASE e \in 1..n
    <3>1. DropOf(d, e, a) <=> DropOf(c, e, a)
      BY <1>1, <1>3, <2>1 DEF DropOf
    <3>2. \A y \in 1..m : e # P(y)
      BY <1>1, <1>3, <2>1
    <3>3. QED BY <3>1, <3>2
  <2>2. CASE e \in n + 1..n + m
    <3>1. PICK y \in 1..m : e = P(y) /\ d[e] = Instr("drop", l[y], s, 0)
      BY <1>3, <2>2
    <3>2. ~DropOf(c, e, a)
      BY <1>1, <2>2 DEF DropOf
    <3>3. DropOf(d, e, a) <=> a = l[y]
      BY <1>1, <1>3, <2>2, <3>1 DEF DropOf, Instr
    <3>4. \A u \in 1..m : e = P(u) => u = y
      BY <1>4, <3>1
    <3>5. QED BY <3>1, <3>2, <3>3, <3>4
  <2>3. CASE e \notin 1..n /\ e \notin n + 1..n + m
    <3>1. ~DropOf(d, e, a)
      BY <1>6, <2>3 DEF DropOf
    <3>2. ~DropOf(c, e, a) /\ \A y \in 1..m : e # P(y)
      BY <1>1, <1>3, <2>3 DEF DropOf
    <3>3. QED BY <3>1, <3>2
  <2>4. QED BY <2>1, <2>2, <2>3
<1>8. \A k \in DOMAIN o : o[k].id = s => k = t
  <2> SUFFICES ASSUME NEW k \in DOMAIN o, k # t PROVE o[k].id # s
    OBVIOUS
  <2>1. k \in 1..t - 1
    BY <1>1
  <2>2. o[k].id < o[t].of /\ o[t].of <= o[t].id
    BY <1>1, <2>1 DEF Geometry
  <2>3. o[k].id \in Nat /\ o[t].of \in Nat /\ o[t].id \in Nat
    BY <1>1, BlockTypes
  <2>4. QED BY <1>e, <2>2, <2>3
<1>9. \A i \in DOMAIN d : d[i].op = "init" => i \in 1..n
  <2>1. \A i \in n + 1..n + m : d[i].op = "drop"
    BY <1>d
  <2>2. QED BY <1>6, <2>1
<1>10. ASSUME NEW w \in 1..n, c[w].op = "init", c[w].s = s
       PROVE  \E y \in 1..m : w = l[y]
  <2>1. \A e \in Nat : ~DropOf(c, e, w)
    <3> SUFFICES ASSUME NEW e \in Nat, DropOf(c, e, w) PROVE FALSE
      OBVIOUS
    <3>1. c[e].s = s
      BY <1>1, <1>10 DEF DropOf, Objects, DropsKnown
    <3>2. QED BY <1>1, <1>e, <3>1 DEF DropOf, Objects, Sealed
  <2>2. InList(o, l, w)
    BY <1>1, <1>10, <2>1 DEF Objects, Covered
  <2>3. PICK k \in DOMAIN o : \E x \in 1..Len(Lst(o, l, k)) : w = Lst(o, l, k)[x]
    BY <2>2 DEF InList
  <2>4. PICK x \in 1..Len(Lst(o, l, k)) : w = Lst(o, l, k)[x]
    BY <2>3
  <2>5. o[k].id = s
    BY <1>1, <1>10, <2>4 DEF Objects, Listed
  <2>6. Lst(o, l, k) = l
    BY <1>5, <1>8, <2>5
  <2>7. QED BY <1>e, <2>4, <2>6
<1>11. Inits(d)
  <2>1. ASSUME NEW i \in DOMAIN d
        PROVE  d[i].s < i /\ (d[i].op = "init" => d[i].v = i)
    <3>1. CASE i \in 1..n
      BY <1>1, <1>3, <3>1 DEF Objects, Inits
    <3>2. CASE i \in n + 1..n + m
      <4>1. d[i].op = "drop" /\ d[i].s = s
        BY <1>d, <3>2
      <4>2. s < i
        BY <1>1, <1>2, <3>2
      <4>3. QED BY <4>1, <4>2
    <3>3. QED BY <1>6, <3>1, <3>2
  <2>2. QED BY <2>1 DEF Inits
<1>12. DropsKnown(d)
  <2> SUFFICES ASSUME NEW e \in DOMAIN d, d[e].op = "drop"
               PROVE  d[e].v \in 1..e - 1 /\ d[d[e].v].op = "init" /\ d[d[e].v].s = d[e].s
    BY DEF DropsKnown
  <2>1. CASE e \in 1..n
    <3>1. d[e] = c[e]
      BY <1>3, <2>1
    <3>2. c[e].v \in 1..e - 1 /\ c[c[e].v].op = "init" /\ c[c[e].v].s = c[e].s
      BY <1>1, <2>1, <3>1 DEF Objects, DropsKnown
    <3>3. c[e].v \in 1..n
      BY <1>1, <2>1, <3>2
    <3>4. QED BY <1>3, <3>1, <3>2, <3>3
  <2>2. CASE e \in n + 1..n + m
    <3>1. PICK y \in 1..m : e = P(y) /\ d[e] = Instr("drop", l[y], s, 0)
      BY <1>3, <2>2
    <3>2. d[e].v = l[y] /\ d[e].s = s
      BY <3>1 DEF Instr
    <3>3. l[y] \in 1..n /\ c[l[y]].op = "init" /\ c[l[y]].s = s
      BY <1>5
    <3>4. l[y] \in 1..e - 1
      BY <1>1, <2>2, <3>3
    <3>5. QED BY <1>3, <3>2, <3>3, <3>4
  <2>3. QED BY <1>6, <2>1, <2>2
<1>13. DropsOnce(d)
  <2> SUFFICES ASSUME NEW a \in Nat, NEW e \in Nat, NEW f \in Nat, DropOf(d, e, a), DropOf(d, f, a)
               PROVE  e = f
    BY DEF DropsOnce
  <2>1. CASE DropOf(c, e, a) /\ DropOf(c, f, a)
    BY <1>1, <2>1 DEF Objects, DropsOnce
  <2>2. \A y \in 1..m : a = l[y] => ~DropOf(c, e, a) /\ ~DropOf(c, f, a)
    BY <1>5
  <2>3. CASE \E y \in 1..m : a = l[y]
    <3>1. PICK y \in 1..m : e = P(y) /\ a = l[y]
      BY <1>7, <2>2, <2>3
    <3>2. PICK u \in 1..m : f = P(u) /\ a = l[u]
      BY <1>7, <2>2, <2>3
    <3>3. ~(u \in y + 1..m) /\ ~(y \in u + 1..m)
      <4>1. l[y] \in Nat /\ l[u] \in Nat /\ l[y] = l[u]
        BY <1>1, <1>5, <3>1, <3>2
      <4>2. u \in y + 1..m => l[u] < l[y]
        BY <1>5
      <4>3. y \in u + 1..m => l[y] < l[u]
        BY <1>5
      <4>4. QED BY <4>1, <4>2, <4>3
    <3>4. y = u
      BY <1>1, <3>3
    <3>5. QED BY <3>1, <3>2, <3>4
  <2>4. QED BY <1>7, <2>1, <2>3
<1>14. InOrder(d)
  <2> SUFFICES ASSUME NEW e \in DOMAIN d, NEW w \in DOMAIN d, d[e].op = "drop",
                      d[w].op = "init", w < d[e].v, d[w].s = d[e].s
               PROVE  \E f \in 1..e - 1 : DropOf(d, f, w)
                                          /\ \A j \in f..e : d[j].op = "drop" /\ d[j].s = d[e].s
    BY DEF InOrder
  <2>0. w \in 1..n /\ d[w] = c[w]
    BY <1>3, <1>9
  <2>1. CASE e \in 1..n
    <3>1. d[e] = c[e]
      BY <1>3, <2>1
    <3>2. PICK f \in 1..e - 1 : DropOf(c, f, w)
                                /\ \A j \in f..e : c[j].op = "drop" /\ c[j].s = c[e].s
      BY <1>1, <2>0, <2>1, <3>1 DEF Objects, InOrder
    <3>3. f \in 1..e - 1 /\ DropOf(d, f, w)
      BY <1>7, <3>2
    <3>4. \A j \in f..e : j \in 1..n
      BY <1>1, <2>1, <3>3
    <3>5. \A j \in f..e : d[j].op = "drop" /\ d[j].s = d[e].s
      BY <1>3, <3>1, <3>2, <3>4
    <3>6. QED BY <3>3, <3>5
  <2>2. CASE e \in n + 1..n + m
    <3>1. PICK y \in 1..m : e = P(y) /\ d[e] = Instr("drop", l[y], s, 0)
      BY <1>3, <2>2
    <3>2. d[e].v = l[y] /\ d[e].s = s
      BY <3>1 DEF Instr
    <3>3. PICK u \in 1..m : w = l[u]
      BY <1>10, <2>0, <3>2
    <3>4. y < u
      <4>a. l[u] \in 1..n /\ l[y] \in 1..n
        BY <1>5
      <4>1. l[u] < l[y] /\ l[u] \in Nat /\ l[y] \in Nat
        BY <3>2, <3>3, <4>a
      <4>2. y \in u + 1..m => l[y] < l[u]
        BY <1>5
      <4>3. QED BY <1>1, <4>1, <4>2
    <3>5. P(u) < e /\ P(u) \in n + 1..n + m
      BY <1>3, <1>4, <3>1, <3>4
    <3>6. DropOf(d, P(u), w)
      BY <1>7, <3>3
    <3>7. \A j \in P(u)..e : j \in n + 1..n + m
      BY <1>1, <2>2, <3>5
    <3>8. \A j \in P(u)..e : d[j].op = "drop" /\ d[j].s = s
      BY <1>d, <3>7
    <3>9. P(u) \in 1..e - 1
      BY <1>1, <2>2, <3>5
    <3>10. QED BY <3>2, <3>6, <3>8, <3>9
  <2>3. QED BY <1>6, <2>1, <2>2
<1>15. Listed(d, o, <<>>)
  <2> SUFFICES ASSUME NEW k \in DOMAIN o, NEW y \in 1..Len(Lst(o, <<>>, k))
               PROVE  /\ Lst(o, <<>>, k)[y] \in DOMAIN d
                      /\ d[Lst(o, <<>>, k)[y]].op = "init" /\ d[Lst(o, <<>>, k)[y]].s = o[k].id
                      /\ Lst(o, <<>>, k)[y] > o[k].id /\ Lst(o, <<>>, k)[y] > o[k].test
                      /\ \A j \in k + 1..Len(o) : Lst(o, <<>>, k)[y] < o[j].of
                      /\ \A e \in Nat : ~DropOf(d, e, Lst(o, <<>>, k)[y])
                      /\ \A u \in y + 1..Len(Lst(o, <<>>, k)) :
                           Lst(o, <<>>, k)[u] < Lst(o, <<>>, k)[y]
    BY DEF Listed
  <2>1. k # t
    <3>1. Len(<<>>) = 0 /\ 1..0 = {}
      OBVIOUS
    <3>2. QED BY <1>e, <3>1 DEF Lst
  <2>2. Lst(o, <<>>, k) = Lst(o, l, k)
    BY <1>e, <2>1 DEF Lst
  <2>3. /\ Lst(o, l, k)[y] \in DOMAIN c
        /\ c[Lst(o, l, k)[y]].op = "init" /\ c[Lst(o, l, k)[y]].s = o[k].id
        /\ Lst(o, l, k)[y] > o[k].id /\ Lst(o, l, k)[y] > o[k].test
        /\ \A j \in k + 1..Len(o) : Lst(o, l, k)[y] < o[j].of
        /\ \A e \in Nat : ~DropOf(c, e, Lst(o, l, k)[y])
        /\ \A u \in y + 1..Len(Lst(o, l, k)) : Lst(o, l, k)[u] < Lst(o, l, k)[y]
    BY <1>1, <2>2 DEF Objects, Listed
  <2>4. Lst(o, l, k)[y] \in 1..n /\ d[Lst(o, l, k)[y]] = c[Lst(o, l, k)[y]]
    BY <1>1, <1>3, <2>3
  <2>5. Lst(o, l, k)[y] < s
    <3>0. t \in k + 1..Len(o)
      BY <1>1, <1>e, <2>1
    <3>1. t \in k + 1..Len(o) /\ o[t].of <= o[t].id
      BY <1>1, <3>0 DEF Geometry
    <3>2. Lst(o, l, k)[y] < o[t].of
      BY <2>3, <3>1
    <3>3. o[t].of \in Nat /\ o[t].id \in Nat
      BY <1>1, BlockTypes
    <3>4. Lst(o, l, k)[y] \in Nat
      BY <1>1, <2>4
    <3>5. QED BY <1>e, <3>1, <3>2, <3>3, <3>4
  <2>6. \A u \in 1..m : l[u] # Lst(o, l, k)[y]
    BY <1>1, <1>2, <1>5, <2>4, <2>5
  <2>7. \A e \in Nat : ~DropOf(d, e, Lst(o, l, k)[y])
    BY <1>7, <2>3, <2>6
  <2>8. Lst(o, l, k)[y] \in DOMAIN d
    BY <1>1, <1>3, <2>4
  <2>9. QED BY <2>2, <2>3, <2>4, <2>7, <2>8
<1>16. Covered(d, o, <<>>)
  <2> SUFFICES ASSUME NEW a \in DOMAIN d, d[a].op = "init", \A e \in Nat : ~DropOf(d, e, a)
               PROVE  InList(o, <<>>, a)
    BY DEF Covered
  <2>1. a \in 1..n /\ c[a].op = "init"
    BY <1>3, <1>9
  <2>2. \A e \in Nat : ~DropOf(c, e, a)
    BY <1>7
  <2>3. InList(o, l, a)
    BY <1>1, <2>1, <2>2 DEF Objects, Covered
  <2>4. PICK k \in DOMAIN o : \E y \in 1..Len(Lst(o, l, k)) : a = Lst(o, l, k)[y]
    BY <2>3 DEF InList
  <2>5. PICK y \in 1..Len(Lst(o, l, k)) : a = Lst(o, l, k)[y]
    BY <2>4
  <2>6. k # t
    <3> SUFFICES ASSUME k = t PROVE FALSE
      OBVIOUS
    <3>1. y \in 1..m /\ a = l[y]
      BY <1>e, <1>5, <2>5
    <3>2. DropOf(d, P(y), a) /\ P(y) \in Nat
      BY <1>1, <1>3, <1>7, <3>1
    <3>3. QED BY <3>2
  <2>7. Lst(o, <<>>, k) = Lst(o, l, k)
    BY <1>e, <2>6 DEF Lst
  <2>8. QED BY <2>5, <2>7 DEF InList
<1>17. Sealed(d, o, TRUE)
  <2> SUFFICES ASSUME NEW e \in DOMAIN d, d[e].op = "drop", NEW k \in DOMAIN o, d[e].s = o[k].id
               PROVE  k = Len(o)
    BY DEF Sealed
  <2>1. CASE e \in 1..n
    BY <1>1, <1>3, <2>1 DEF Objects, Sealed
  <2>2. CASE e \in n + 1..n + m
    <3>1. d[e].s = s
      BY <1>d, <2>2
    <3>2. QED BY <1>8, <1>e, <3>1
  <2>3. QED BY <1>6, <2>1, <2>2
<1>18. Objects(d, o, <<>>, TRUE)
  BY <1>11, <1>12, <1>13, <1>14, <1>15, <1>16, <1>17 DEF Objects
<1>19. ASSUME NEW r \in Lifetimes(d)
       PROVE  \/ r \in Lifetimes(c)
              \/ <<r[1], 0>> \in Lifetimes(c) /\ r[2] > n /\ r[1] > s /\ r[1] > o[t].test
  <2>1. /\ r \in (DOMAIN d) \X (0..n + m) /\ d[r[1]].op = "init"
        /\ IF r[2] = 0 THEN \A e \in Nat : ~DropOf(d, e, r[1]) ELSE DropOf(d, r[2], r[1])
    BY <1>3 DEF Lifetimes
  <2>2. r[1] \in DOMAIN c /\ c[r[1]].op = "init"
    BY <1>1, <1>3, <1>9, <2>1
  <2>3. CASE r[2] = 0
    <3>1. \A e \in Nat : ~DropOf(c, e, r[1])
      BY <1>7, <2>1, <2>3
    <3>2. r \in (DOMAIN c) \X (0..n)
      BY <1>1, <2>1, <2>2, <2>3
    <3>3. r \in Lifetimes(c)
      BY ONLY <1>e, <2>2, <2>3, <3>1, <3>2 DEF Lifetimes
    <3>4. QED BY <3>3
  <2>4. CASE DropOf(c, r[2], r[1])
    <3>1. r[2] \in 1..n
      BY <1>1, <2>4 DEF DropOf
    <3>2. r \in (DOMAIN c) \X (0..n) /\ r[2] # 0
      BY <1>1, <2>1, <2>2, <3>1
    <3>3. r \in Lifetimes(c)
      BY ONLY <1>e, <2>2, <2>4, <3>2 DEF Lifetimes
    <3>4. QED BY <3>3
  <2>5. CASE r[2] # 0 /\ ~DropOf(c, r[2], r[1])
    <3>1. PICK y \in 1..m : r[2] = P(y) /\ r[1] = l[y]
      BY <1>7, <2>1, <2>5
    <3>a. P(y) \in n + 1..n + m
      BY <1>3
    <3>b. r[2] > n
      BY <1>1, <3>1, <3>a
    <3>2. r[2] > n /\ r[1] > s /\ r[1] > o[t].test /\ \A e \in Nat : ~DropOf(c, e, r[1])
      BY <1>5, <3>1, <3>b
    <3>3. <<r[1], 0>> \in (DOMAIN c) \X (0..n)
      BY <1>1, <2>2
    <3>4. <<r[1], 0>> \in Lifetimes(c)
      BY <1>e, <2>2, <3>2, <3>3 DEF Lifetimes
    <3>5. QED BY <3>2, <3>4
  <2>6. QED BY <2>3, <2>4, <2>5
<1>20. QED BY <1>18, <1>19 DEF d, n, s, t

\* Instructions that change neither their operation nor the end of a try keep the
\* blocks in progress where they are.
LEMMA GeometryKeep ==
  ASSUME NEW c \in Seq(Instruction), NEW d \in Seq(Instruction), NEW o \in Seq(BlockInProgress),
         Geometry(c, o), Len(c) <= Len(d),
         \A i \in 1..Len(c) :
           /\ d[i].op = c[i].op
           /\ c[i].op = "setjmp" => \/ d[i].to = c[i].to
                                   \/ \A k \in DOMAIN o : o[k].kind = "try" => o[k].of # i
  PROVE  Geometry(d, o)
<1>1. DOMAIN c = 1..Len(c) /\ DOMAIN d = 1..Len(d) /\ Len(c) \in Nat /\ Len(d) \in Nat
  OBVIOUS
<1>2. \A k \in DOMAIN o : /\ o[k].of \in 0..Len(c) /\ o[k].id \in 0..Len(c)
                          /\ o[k].test \in 0..Len(c)
  BY BlockTypes
<1>3. ASSUME NEW k \in DOMAIN o
      PROVE  /\ o[k].of <= o[k].id /\ o[k].id <= Len(d) /\ o[k].test <= Len(d)
             /\ o[k].test # 0 => o[k].test >= o[k].of /\ d[o[k].test].op \in {"branch", "test"}
             /\ o[k].kind = "try" => /\ o[k].of \in DOMAIN d /\ d[o[k].of].op = "setjmp"
                                     /\ d[o[k].of].to = 0
  <2>1. o[k].of <= o[k].id /\ o[k].id <= Len(d) /\ o[k].test <= Len(d)
    BY <1>1, <1>2 DEF Geometry
  <2>2. o[k].test # 0 => o[k].test \in 1..Len(c)
    BY <1>1, <1>2
  <2>3. o[k].kind = "try" =>
          /\ o[k].of \in DOMAIN d /\ d[o[k].of].op = "setjmp" /\ d[o[k].of].to = 0
    <3> SUFFICES ASSUME o[k].kind = "try"
                 PROVE  o[k].of \in DOMAIN d /\ d[o[k].of].op = "setjmp" /\ d[o[k].of].to = 0
      OBVIOUS
    <3>1. o[k].of \in DOMAIN c /\ c[o[k].of].op = "setjmp" /\ c[o[k].of].to = 0
      BY DEF Geometry
    <3>2. o[k].of \in 1..Len(c) /\ o[k].of \in DOMAIN d
      BY <1>1, <3>1
    <3>3. QED BY <3>1, <3>2
  <2>4. QED BY <1>1, <2>1, <2>2, <2>3 DEF Geometry
<1>4. QED BY <1>3 DEF Geometry

\* Jumps to be patched stay what they are while code is written behind them.
LEMMA PendingGrow ==
  ASSUME NEW c \in Seq(Instruction), NEW d \in Seq(Instruction), NEW o, NEW p,
         Pending(c, o, p), Len(c) <= Len(d), \A i \in 1..Len(c) : d[i] = c[i],
         \A i \in Len(c) + 1..Len(d) : d[i].op \in PendOps => d[i].to # 0
  PROVE  Pending(d, o, p)
<1>1. DOMAIN c = 1..Len(c) /\ DOMAIN d = 1..Len(d) /\ Len(c) \in Nat /\ Len(d) \in Nat
  OBVIOUS
<1>2. \A i \in DOMAIN c : i \in DOMAIN d /\ d[i] = c[i]
  BY <1>1
<1>3. ASSUME NEW i \in DOMAIN d, d[i].op \in PendOps, d[i].to = 0 PROVE i \in Pend(o, p)
  <2>1. i \in DOMAIN c
    BY <1>1, <1>3
  <2>2. QED BY <1>2, <1>3, <2>1 DEF Pending
<1>4. QED BY <1>2, <1>3 DEF Pending

\* The blocks around one lie in front of it.
LEMMA BlocksBelow ==
  ASSUME NEW c \in Seq(Instruction), NEW o \in Seq(BlockInProgress), Geometry(c, o),
         Len(o) \in DOMAIN o, NEW k \in DOMAIN o, NEW a \in Nat,
         a > o[Len(o)].id, a > o[Len(o)].test
  PROVE  o[k].id < a /\ o[k].test < a
<1>1. CASE k = Len(o)
  BY <1>1, BlockTypes
<1>2. CASE k # Len(o)
  <2>1. k \in 1..Len(o) - 1
    BY <1>2
  <2>2. o[k].id < o[Len(o)].of /\ o[k].test < o[Len(o)].of /\ o[Len(o)].of <= o[Len(o)].id
    BY <2>1 DEF Geometry
  <2>3. /\ o[k].id \in Nat /\ o[k].test \in Nat /\ o[Len(o)].of \in Nat /\ o[Len(o)].id \in Nat
    BY BlockTypes
  <2>4. QED BY <2>2, <2>3
<1>3. QED BY <1>1, <1>2

\* The drops of the innermost block are written.
LEMMA EmitDrops ==
  ASSUME NEW c, NEW o, NEW l, Emitted(c, o, l, {}, FALSE), Len(o) \in DOMAIN o
  PROVE  Emitted(c \o DropCode(l, o[Len(o)].id), o, <<>>, {}, TRUE)
<1>1. /\ c \in Seq(Instruction) /\ o \in Seq(BlockInProgress) /\ l \in Seq(Nat)
      /\ Len(c) \in Nat /\ DOMAIN c = 1..Len(c) /\ Len(l) \in Nat
      /\ Geometry(c, o) /\ Pending(c, o, {}) /\ Objects(c, o, l, FALSE) /\ Tries(c, o)
      /\ Nested(c, o, {}) /\ Targets(c)
  <2>1. /\ Typed(c, o, l) /\ Geometry(c, o) /\ Pending(c, o, {}) /\ Objects(c, o, l, FALSE)
        /\ Tries(c, o) /\ Nested(c, o, {})
    BY DEF Emitted
  <2>2. c \in Seq(Instruction) /\ o \in Seq(BlockInProgress) /\ l \in Seq(Nat) /\ Targets(c)
    BY <2>1 DEF Typed, Nested
  <2>3. Len(c) \in Nat /\ DOMAIN c = 1..Len(c) /\ Len(l) \in Nat
    BY <2>2
  <2>4. QED BY <2>1, <2>2, <2>3
<1>2. o[Len(o)].id \in Nat
  BY <1>1, BlockTypes
<1> DEFINE s == o[Len(o)].id
           d == c \o DropCode(l, s)
<1>3. /\ d \in Seq(Instruction) /\ Len(d) = Len(c) + Len(l) /\ DOMAIN d = 1..Len(c) + Len(l)
      /\ \A i \in 1..Len(c) : d[i] = c[i]
      /\ \A i \in Len(c) + 1..Len(c) + Len(l) :
           \E y \in 1..Len(l) : d[i] = Instr("drop", l[y], s, 0)
  BY <1>1, <1>2, DropsBehind
<1>4. /\ Objects(d, o, <<>>, TRUE)
      /\ \A r \in Lifetimes(d) :
           \/ r \in Lifetimes(c)
           \/ <<r[1], 0>> \in Lifetimes(c) /\ r[2] > Len(c) /\ r[1] > s /\ r[1] > o[Len(o)].test
  BY DropsObjects
<1>5. s = o[Len(o)].id
  OBVIOUS
<1> HIDE DEF d, s
<1>6. \A i \in Len(c) + 1..Len(d) : d[i].op = "drop" /\ d[i].s = s /\ d[i].to = 0
  <2> SUFFICES ASSUME NEW i \in Len(c) + 1..Len(d) PROVE d[i].op = "drop" /\ d[i].s = s /\ d[i].to = 0
    OBVIOUS
  <2>1. PICK y \in 1..Len(l) : d[i] = Instr("drop", l[y], s, 0)
    BY <1>3
  <2>2. QED BY <2>1 DEF Instr
<1>7. Len(c) <= Len(d)
  BY <1>1, <1>3
<1>8. Plain(c, d) /\ SameTries(c, d)
  <2>1. SameTries(c, d)
    BY <1>3, <1>6, <1>7 DEF SameTries
  <2>2. QED BY <1>3, <1>6, <1>7, <2>1 DEF Plain
<1>9. Typed(d, o, <<>>)
  <2>1. <<>> \in Seq(Nat)
    OBVIOUS
  <2>2. QED BY <1>1, <1>3, <2>1 DEF Typed
<1>10. Geometry(d, o)
  BY <1>1, <1>3, <1>7, GeometryKeep
<1>11. Pending(d, o, {})
  <2>1. \A i \in Len(c) + 1..Len(d) : d[i].op \notin PendOps
    BY <1>6 DEF PendOps
  <2>2. QED BY <1>1, <1>3, <1>7, <2>1, PendingGrow
<1>12. Tries(d, o)
  BY <1>1, <1>3, <1>8, TriesKeep
<1>13. Targets(d)
  <2>1. ASSUME NEW i \in 1..Len(d) PROVE d[i].to <= Len(d) + 1
    <3>1. CASE i \in 1..Len(c)
      <4>1. c[i].to \in Nat /\ c[i].to <= Len(c) + 1
        <5>1. c[i] \in Instruction
          BY <1>1, <3>1
        <5>2. QED BY <1>1, <3>1, <5>1 DEF Targets, Instruction
      <4>2. QED BY <1>1, <1>3, <3>1, <4>1
    <3>2. CASE i \notin 1..Len(c)
      <4>1. i \in Len(c) + 1..Len(d)
        BY <1>1, <1>3, <3>2
      <4>2. QED BY <1>1, <1>3, <1>6, <4>1
    <3>3. QED BY <3>1, <3>2
  <2>2. DOMAIN d = 1..Len(d)
    BY <1>3
  <2>3. QED BY <2>1, <2>2 DEF Targets
<1>14. /\ Lifetimes(c) \in SUBSET Region /\ Bodies(c) \in SUBSET Region
       /\ Lifetimes(d) \in SUBSET Region /\ Bodies(d) \in SUBSET Region
       /\ \A r \in Lifetimes(c) : r[2] \in 0..Len(c)
  BY <1>1, <1>3, RegionTypes
<1>15. \A k \in DOMAIN o : o[k].test \in 0..Len(c) /\ o[k].id \in 0..Len(c)
  BY <1>1, BlockTypes
<1>16. \A r \in Lifetimes(d) : r[1] > s /\ r[1] > o[Len(o)].test =>
          \A k \in DOMAIN o : o[k].id < r[1] /\ o[k].test < r[1]
  <2> SUFFICES ASSUME NEW r \in Lifetimes(d), r[1] > s, r[1] > o[Len(o)].test, NEW k \in DOMAIN o
               PROVE  o[k].id < r[1] /\ o[k].test < r[1]
    OBVIOUS
  <2>1. r[1] \in Nat
    BY <1>14 DEF Region
  <2>2. QED BY <1>1, <1>5, <2>1, BlocksBelow
<1>17. Enter(d, o, Lifetimes(d))
  <2>1. \A r \in Lifetimes(d) :
           \/ r \in Lifetimes(c)
           \/ r[1] > Len(c)
           \/ /\ <<r[1], 0>> \in Lifetimes(c) /\ r[2] >= Len(c)
              /\ \A k \in DOMAIN o : o[k].test <= r[1]
    <3> SUFFICES ASSUME NEW r \in Lifetimes(d), r \notin Lifetimes(c)
                 PROVE  /\ <<r[1], 0>> \in Lifetimes(c) /\ r[2] >= Len(c)
                        /\ \A k \in DOMAIN o : o[k].test <= r[1]
      OBVIOUS
    <3>1. <<r[1], 0>> \in Lifetimes(c) /\ r[2] > Len(c) /\ r[1] > s /\ r[1] > o[Len(o)].test
      BY <1>4
    <3>2. \A k \in DOMAIN o : o[k].test < r[1] /\ o[k].test \in Nat
      BY <1>15, <1>16, <3>1
    <3>3. r[1] \in Nat /\ r[2] \in Nat
      BY <1>14 DEF Region
    <3>4. QED BY <1>1, <3>1, <3>2, <3>3
  <2>2. \A k \in DOMAIN o : o[k].test \in 0..Len(c)
    BY <1>15
  <2>3. Enter(c, o, Lifetimes(c))
    BY <1>1 DEF Nested
  <2>4. QED BY <1>1, <1>3, <1>8, <1>14, <2>1, <2>2, <2>3, EnterGrow
<1>18. Enter(d, o, Bodies(d))
  <2>1. Bodies(d) \subseteq Bodies(c)
    BY <1>1, <1>3, <1>8, BodiesKeep
  <2>2. \A k \in DOMAIN o : o[k].test \in 0..Len(c)
    BY <1>15
  <2>3. Enter(c, o, Bodies(c))
    BY <1>1 DEF Nested
  <2>4. QED BY <1>1, <1>3, <1>8, <1>14, <2>1, <2>2, <2>3, EnterGrow
<1>19. NoBreaks => Near(o) /\ Leave(d, o, {}, Lifetimes(d))
  <2> SUFFICES ASSUME NoBreaks PROVE Near(o) /\ Leave(d, o, {}, Lifetimes(d))
    OBVIOUS
  <2>1. Near(o) /\ Leave(c, o, {}, Lifetimes(c))
    BY <1>1 DEF Nested
  <2>2. \A i \in Pend(o, {}) : i \in 1..Len(c)
    BY <1>1, PendTypes
  <2>3. \A r \in Lifetimes(d) :
           \/ r \in Lifetimes(c)
           \/ r[1] > Len(c) /\ ~Closed(r)
           \/ /\ <<r[1], 0>> \in Lifetimes(c) /\ r[2] > Len(c)
              /\ \A i \in Pend(o, {}) : i <= r[1]
    <3> SUFFICES ASSUME NEW r \in Lifetimes(d), r \notin Lifetimes(c)
                 PROVE  /\ <<r[1], 0>> \in Lifetimes(c) /\ r[2] > Len(c)
                        /\ \A i \in Pend(o, {}) : i <= r[1]
      OBVIOUS
    <3>1. <<r[1], 0>> \in Lifetimes(c) /\ r[2] > Len(c) /\ r[1] > s /\ r[1] > o[Len(o)].test
      BY <1>4
    <3>2. \A k \in DOMAIN o : o[k].test < r[1] /\ o[k].id < r[1]
      BY <1>16, <3>1
    <3>3. r[1] \in Nat
      BY <1>14 DEF Region
    <3>4. ASSUME NEW i \in Pend(o, {}) PROVE i <= r[1]
      <4>1. PICK k \in DOMAIN o : i \in o[k].exits \cup o[k].next
        BY DEF Pend
      <4>2. i <= o[k].id \/ i <= o[k].test
        BY <2>1, <4>1 DEF Near
      <4>3. i \in Nat /\ o[k].id \in Nat /\ o[k].test \in Nat
        BY <1>15, <2>2
      <4>4. QED BY <3>2, <3>3, <4>2, <4>3
    <3>5. QED BY <3>1, <3>4
  <2>4. \A i \in Pend(o, {}) : i \in Nat /\ (i \in Pend(o, {}) \/ i > Len(c))
    BY <2>2
  <2>5. \A r \in Lifetimes(c) : r[2] <= Len(c)
    BY <1>1, <1>14
  <2>6. Leave(d, o, {}, Lifetimes(d))
    BY <1>1, <1>3, <1>8, <1>14, <2>1, <2>3, <2>4, <2>5, LeaveGrow
  <2>7. QED BY <2>1, <2>6
<1>20. DropsFall(d)
  <2> SUFFICES ASSUME NEW i \in Nat, NEW j \in Nat, Jump(d, i, j), j \in 2..Len(d),
                      d[j].op = "drop", d[j - 1].op = "drop"
               PROVE  d[j].s # d[j - 1].s
    BY DEF DropsFall
  <2>1. Jump(c, i, j) /\ j \in 1..Len(c) + 1
    BY <1>1, <1>3, <1>8, PlainJumps, JumpTypes
  <2>a. j - 1 \in 1..Len(c)
    BY <1>1, <1>3, <2>1
  <2>2. j - 1 \in 1..Len(c) /\ d[j - 1] = c[j - 1]
    BY <1>3, <2>a
  <2>3. CASE j \in 1..Len(c)
    <3>1. d[j] = c[j] /\ j \in 2..Len(c)
      BY <1>1, <1>3, <2>3
    <3>2. QED BY <1>1, <2>1, <2>2, <3>1 DEF Nested, DropsFall
  <2>4. CASE j \notin 1..Len(c)
    <3>1. j \in Len(c) + 1..Len(d)
      BY <1>1, <1>3, <2>1, <2>4
    <3>2. d[j].s = s
      BY <1>6, <3>1
    <3>3. c[j - 1].s # o[Len(o)].id
      BY <1>1, <2>2 DEF Objects, Sealed
    <3>4. QED BY <1>5, <2>2, <3>2, <3>3
  <2>5. QED BY <2>3, <2>4
<1>21. Nested(d, o, {})
  BY <1>13, <1>17, <1>18, <1>19, <1>20 DEF Nested
<1>22. Emitted(d, o, <<>>, {}, TRUE)
  BY <1>4, <1>9, <1>10, <1>11, <1>12, <1>21 DEF Emitted
<1>23. QED BY <1>22 DEF d, s

\* A block is opened.
LEMMA Push ==
  ASSUME NEW c, NEW o, NEW l, NEW p,
         Typed(c, o, l), Geometry(c, o), Pending(c, o, p), Objects(c, o, l, FALSE),
         Nested(c, o, p), Len(o) \in DOMAIN o,
         NEW b \in BlockInProgress, Tries(c, Append(o, b)),
         b.of <= b.id, b.id <= Len(c), b.test <= Len(c), b.kind # "func",
         b.test # 0 <=> b.kind \in Loops,
         b.test # 0 => b.test >= b.of /\ c[b.test].op \in {"branch", "test"},
         b.kind = "try" => b.of \in DOMAIN c /\ c[b.of].op = "setjmp" /\ c[b.of].to = 0,
         \A k \in DOMAIN o : o[k].id < b.of /\ o[k].test < b.of,
         b.exits = p, b.next = {}, \A i \in p : i >= b.of /\ (i <= b.id \/ i <= b.test),
         b.kind \in {"func", "block", "finally", "try"} => p = {},
         b.saved = l, \A y \in 1..Len(l) : l[y] < b.of,
         \A d \in DOMAIN c : c[d].op = "drop" => c[d].s # b.id,
         b.test # 0 => \A r \in Lifetimes(c) \cup Bodies(c) : r[2] < b.test
  PROVE  Emitted(c, Append(o, b), <<>>, {}, FALSE)
<1> DEFINE q == Append(o, b)
           t == Len(o)
<1>1. /\ c \in Seq(Instruction) /\ o \in Seq(BlockInProgress) /\ l \in Seq(Nat)
      /\ Len(c) \in Nat /\ DOMAIN c = 1..Len(c) /\ t \in Nat /\ DOMAIN o = 1..t
  BY DEF Typed
<1>2. /\ q \in Seq(BlockInProgress) /\ Len(q) = t + 1 /\ DOMAIN q = 1..t + 1 /\ q[t + 1] = b
      /\ \A k \in DOMAIN o : k \in DOMAIN q /\ q[k] = o[k] /\ k # t + 1
      /\ \A k \in DOMAIN q : k \in DOMAIN o \/ k = t + 1
  BY <1>1
<1>3. t = Len(o) /\ t \in DOMAIN o /\ q = Append(o, b)
  OBVIOUS
<1> HIDE DEF q, t
<1>4. Typed(c, q, <<>>)
  <2>1. <<>> \in Seq(Nat)
    OBVIOUS
  <2>2. QED BY <1>1, <1>2, <2>1 DEF Typed
<1>5. Geometry(c, q)
  <2>1. ASSUME NEW k \in DOMAIN q
        PROVE  /\ q[k].of <= q[k].id /\ q[k].id <= Len(c) /\ q[k].test <= Len(c)
               /\ q[k].test # 0 => q[k].test >= q[k].of /\ c[q[k].test].op \in {"branch", "test"}
               /\ q[k].test # 0 <=> q[k].kind \in Loops
               /\ q[k].kind = "func" <=> k = 1
               /\ q[k].kind = "try" => /\ q[k].of \in DOMAIN c /\ c[q[k].of].op = "setjmp"
                                       /\ c[q[k].of].to = 0
    <3>1. CASE k \in DOMAIN o
      BY <1>2, <3>1 DEF Geometry
    <3>2. CASE k = t + 1
      <4>1. k # 1
        BY <1>1, <1>3, <3>2
      <4>2. q[k] = b
        BY <1>2, <3>2
      <4>3. QED BY <4>1, <4>2
    <3>3. QED BY <1>2, <3>1, <3>2
  <2>2. ASSUME NEW k \in DOMAIN q, NEW j \in 1..k - 1
        PROVE  q[j].id < q[k].of /\ q[j].test < q[k].of
    <3>1. j \in DOMAIN o /\ q[j] = o[j]
      BY <1>1, <1>2
    <3>2. CASE k \in DOMAIN o
      BY <1>2, <3>1, <3>2 DEF Geometry
    <3>3. CASE k = t + 1
      BY <1>2, <3>1, <3>3
    <3>4. QED BY <1>2, <3>2, <3>3
  <2>3. QED BY <2>1, <2>2 DEF Geometry
<1>6. Pend(q, {}) = Pend(o, p)
  <2>1. ASSUME NEW i \in Pend(q, {}) PROVE i \in Pend(o, p)
    <3>1. PICK k \in DOMAIN q : i \in q[k].exits \cup q[k].next
      BY DEF Pend
    <3>2. CASE k \in DOMAIN o
      BY <1>2, <3>1, <3>2 DEF Pend
    <3>3. CASE k = t + 1
      BY <1>2, <3>1, <3>3 DEF Pend
    <3>4. QED BY <1>2, <3>2, <3>3
  <2>2. ASSUME NEW i \in Pend(o, p) PROVE i \in Pend(q, {})
    <3>1. CASE i \in p
      <4>1. i \in q[t + 1].exits /\ t + 1 \in DOMAIN q
        BY <1>1, <1>2, <3>1
      <4>2. QED BY <4>1 DEF Pend
    <3>2. CASE i \notin p
      <4>1. PICK k \in DOMAIN o : i \in o[k].exits \cup o[k].next
        BY <3>2 DEF Pend
      <4>2. k \in DOMAIN q /\ i \in q[k].exits \cup q[k].next
        BY <1>2, <4>1
      <4>3. QED BY <4>2 DEF Pend
    <3>3. QED BY <3>1, <3>2
  <2>3. QED BY <2>1, <2>2
<1>7. Pending(c, q, {})
  <2>1. ASSUME NEW k \in DOMAIN q
        PROVE  /\ \A i \in q[k].exits \cup q[k].next :
                    i \in DOMAIN c /\ c[i].op \in PendOps /\ i >= q[k].of
               /\ q[k].kind \in {"func", "block", "finally", "try"} => q[k].exits = {}
               /\ q[k].kind # "array" => q[k].next = {}
    <3>1. CASE k \in DOMAIN o
      BY <1>2, <3>1 DEF Pending
    <3>2. CASE k = t + 1
      <4>1. q[k] = b
        BY <1>2, <3>2
      <4>2. QED BY <4>1 DEF Pending
    <3>3. QED BY <1>2, <3>1, <3>2
  <2>2. \A i \in DOMAIN c : c[i].op \in PendOps /\ c[i].to = 0 => i \in Pend(q, {})
    BY <1>6 DEF Pending
  <2>3. QED BY <2>1, <2>2 DEF Pending
<1>8. /\ \A k \in DOMAIN o : Lst(q, <<>>, k) = Lst(o, l, k)
      /\ 1..Len(Lst(q, <<>>, t + 1)) = {}
  <2>1. ASSUME NEW k \in DOMAIN o PROVE Lst(q, <<>>, k) = Lst(o, l, k)
    <3>1. CASE k = t
      BY <1>1, <1>2, <1>3, <3>1 DEF Lst
    <3>2. CASE k # t
      <4>1. k + 1 \in DOMAIN o /\ k # Len(q)
        BY <1>1, <1>2, <3>2
      <4>2. QED BY <1>2, <1>3, <3>2, <4>1 DEF Lst
    <3>3. QED BY <3>1, <3>2
  <2>2. Lst(q, <<>>, t + 1) = <<>> /\ 1..Len(<<>>) = {}
    BY <1>2 DEF Lst
  <2>3. QED BY <2>1, <2>2
<1>9. Listed(c, q, <<>>)
  <2> SUFFICES ASSUME NEW k \in DOMAIN q, NEW x \in 1..Len(Lst(q, <<>>, k))
               PROVE  /\ Lst(q, <<>>, k)[x] \in DOMAIN c
                      /\ c[Lst(q, <<>>, k)[x]].op = "init" /\ c[Lst(q, <<>>, k)[x]].s = q[k].id
                      /\ Lst(q, <<>>, k)[x] > q[k].id /\ Lst(q, <<>>, k)[x] > q[k].test
                      /\ \A j \in k + 1..Len(q) : Lst(q, <<>>, k)[x] < q[j].of
                      /\ \A d \in Nat : ~DropOf(c, d, Lst(q, <<>>, k)[x])
                      /\ \A y \in x + 1..Len(Lst(q, <<>>, k)) :
                           Lst(q, <<>>, k)[y] < Lst(q, <<>>, k)[x]
    BY DEF Listed
  <2>1. k \in DOMAIN o /\ q[k] = o[k] /\ Lst(q, <<>>, k) = Lst(o, l, k)
    BY <1>2, <1>8
  <2>2. /\ Lst(o, l, k)[x] \in DOMAIN c
        /\ c[Lst(o, l, k)[x]].op = "init" /\ c[Lst(o, l, k)[x]].s = o[k].id
        /\ Lst(o, l, k)[x] > o[k].id /\ Lst(o, l, k)[x] > o[k].test
        /\ \A j \in k + 1..Len(o) : Lst(o, l, k)[x] < o[j].of
        /\ \A d \in Nat : ~DropOf(c, d, Lst(o, l, k)[x])
        /\ \A y \in x + 1..Len(Lst(o, l, k)) : Lst(o, l, k)[y] < Lst(o, l, k)[x]
    BY <2>1 DEF Objects, Listed
  <2>3. ASSUME NEW j \in k + 1..Len(q) PROVE Lst(o, l, k)[x] < q[j].of
    <3>1. CASE j \in k + 1..t
      <4>1. j \in DOMAIN o
        BY <1>1, <2>1, <3>1
      <4>2. QED BY <1>2, <1>3, <2>2, <3>1, <4>1
    <3>2. CASE j = t + 1
      <4>1. q[j] = b
        BY <1>2, <3>2
      <4>2. CASE k = t
        <5>1. Lst(o, l, k) = l
          BY <1>3, <4>2 DEF Lst
        <5>2. x \in 1..Len(l)
          BY <2>1, <5>1
        <5>3. QED BY <4>1, <5>1, <5>2
      <4>3. CASE k # t
        <5>1. t \in k + 1..Len(o)
          BY <1>1, <1>3, <2>1, <4>3
        <5>2. Lst(o, l, k)[x] < o[t].of
          BY <2>2, <5>1
        <5>3. o[t].of <= o[t].id /\ o[t].id < b.of
          BY <1>3 DEF Geometry
        <5>4. Lst(o, l, k)[x] \in Nat /\ o[t].of \in Nat /\ o[t].id \in Nat
          BY <1>1, <1>3, <2>2, BlockTypes
        <5>5. b.of \in Nat
          BY DEF BlockInProgress
        <5>6. QED BY ONLY <4>1, <5>2, <5>3, <5>4, <5>5
      <4>4. QED BY <4>2, <4>3
    <3>3. j \in k + 1..t \/ j = t + 1
      BY <1>1, <1>2, <2>1
    <3>4. QED BY <3>1, <3>2, <3>3
  <2>4. QED BY <2>1, <2>2, <2>3
<1>10. Covered(c, q, <<>>)
  <2> SUFFICES ASSUME NEW a \in DOMAIN c, c[a].op = "init", ~\E d \in Nat : DropOf(c, d, a)
               PROVE  InList(q, <<>>, a)
    BY DEF Covered
  <2>1. InList(o, l, a)
    BY DEF Objects, Covered
  <2>2. PICK k \in DOMAIN o : \E y \in 1..Len(Lst(o, l, k)) : a = Lst(o, l, k)[y]
    BY <2>1 DEF InList
  <2>3. k \in DOMAIN q /\ Lst(q, <<>>, k) = Lst(o, l, k)
    BY <1>2, <1>8
  <2>4. QED BY <2>2, <2>3 DEF InList
<1>11. Sealed(c, q, FALSE)
  <2> SUFFICES ASSUME NEW d \in DOMAIN c, c[d].op = "drop", NEW k \in DOMAIN q
               PROVE  c[d].s # q[k].id
    BY DEF Sealed
  <2>1. CASE k \in DOMAIN o
    BY <1>2, <2>1 DEF Objects, Sealed
  <2>2. CASE k = t + 1
    BY <1>2, <2>2
  <2>3. QED BY <1>2, <2>1, <2>2
<1>12. Objects(c, q, <<>>, FALSE)
  BY <1>9, <1>10, <1>11 DEF Objects
<1>13. \A k \in DOMAIN q :
          \/ q[k].test = 0
          \/ \E m \in DOMAIN o : o[m].test = q[k].test
          \/ q[k].test \in Nat /\ \A r \in Lifetimes(c) \cup Bodies(c) : r[2] < q[k].test
  <2>1. b.test \in Nat
    BY DEF BlockInProgress
  <2>2. QED BY <1>2, <2>1
<1>14. Enter(c, q, Lifetimes(c)) /\ Enter(c, q, Bodies(c))
  <2>1. Lifetimes(c) \in SUBSET Region /\ Bodies(c) \in SUBSET Region
    BY <1>1, RegionTypes
  <2>2. \A k \in DOMAIN q :
          \/ q[k].test = 0
          \/ \E m \in DOMAIN o : o[m].test = q[k].test
          \/ q[k].test \in Nat /\ \A r \in Lifetimes(c) : r[2] < q[k].test
    BY <1>13
  <2>3. \A k \in DOMAIN q :
          \/ q[k].test = 0
          \/ \E m \in DOMAIN o : o[m].test = q[k].test
          \/ q[k].test \in Nat /\ \A r \in Bodies(c) : r[2] < q[k].test
    BY <1>13
  <2>4. Enter(c, o, Lifetimes(c)) /\ Enter(c, o, Bodies(c))
    BY DEF Nested
  <2>5. Enter(c, q, Lifetimes(c))
    BY <2>1, <2>2, <2>4, EnterBlocks
  <2>6. Enter(c, q, Bodies(c))
    BY <2>1, <2>3, <2>4, EnterBlocks
  <2>7. QED BY <2>5, <2>6
<1>15. NoBreaks => Near(q) /\ Leave(c, q, {}, Lifetimes(c))
  <2> SUFFICES ASSUME NoBreaks PROVE Near(q) /\ Leave(c, q, {}, Lifetimes(c))
    OBVIOUS
  <2>1. Near(o) /\ Leave(c, o, p, Lifetimes(c))
    BY DEF Nested
  <2>2. Near(q)
    <3>1. ASSUME NEW k \in DOMAIN q
          PROVE  q[k].next = {} /\ \A i \in q[k].exits : i <= q[k].id \/ i <= q[k].test
      <4>1. CASE k \in DOMAIN o
        BY <1>2, <2>1, <4>1 DEF Near
      <4>2. CASE k = t + 1
        <5>1. q[k] = b
          BY <1>2, <4>2
        <5>2. QED BY <5>1
      <4>3. QED BY <1>2, <4>1, <4>2
    <3>2. QED BY <3>1 DEF Near
  <2>3. Leave(c, q, {}, Lifetimes(c))
    BY <1>6, <2>1, LeaveBlocks
  <2>4. QED BY <2>2, <2>3
<1>16. Nested(c, q, {})
  BY <1>14, <1>15 DEF Nested
<1>17. QED BY <1>3, <1>4, <1>5, <1>7, <1>12, <1>16 DEF Emitted

\* Patch changes the targets of the jumps it is given and nothing else.
LEMMA PatchFacts ==
  ASSUME NEW c \in Seq(Instruction), NEW from
  PROVE  /\ Patch(c, from, Len(c) + 1) \in Seq(Instruction)
         /\ Len(Patch(c, from, Len(c) + 1)) = Len(c)
         /\ \A i \in 1..Len(c) :
              /\ Patch(c, from, Len(c) + 1)[i].op = c[i].op
              /\ Patch(c, from, Len(c) + 1)[i].v = c[i].v
              /\ Patch(c, from, Len(c) + 1)[i].s = c[i].s
              /\ Patch(c, from, Len(c) + 1)[i].to = IF i \in from THEN Len(c) + 1 ELSE c[i].to
              /\ c[i].to \in Nat /\ Len(c) + 1 \in Nat
<1>1. Len(c) \in Nat /\ DOMAIN c = 1..Len(c) /\ \A i \in 1..Len(c) : c[i] \in Instruction
  OBVIOUS
<1> DEFINE F(i) == IF i \in from THEN [c[i] EXCEPT !.to = Len(c) + 1] ELSE c[i]
<1>2. ASSUME NEW i \in 1..Len(c)
      PROVE  /\ F(i) \in Instruction
             /\ F(i).op = c[i].op /\ F(i).v = c[i].v /\ F(i).s = c[i].s
             /\ F(i).to = IF i \in from THEN Len(c) + 1 ELSE c[i].to
             /\ c[i].to \in Nat /\ Len(c) + 1 \in Nat
  <2>1. c[i] \in Instruction /\ Len(c) + 1 \in Nat
    BY <1>1
  <2>2. c[i].to \in Nat
    BY <2>1 DEF Instruction
  <2>3. CASE i \in from
    <3>1. F(i) = [c[i] EXCEPT !.to = Len(c) + 1]
      BY <2>3
    <3>2. [c[i] EXCEPT !.to = Len(c) + 1] \in Instruction
      BY <2>1 DEF Instruction
    <3>3. /\ [c[i] EXCEPT !.to = Len(c) + 1].op = c[i].op
          /\ [c[i] EXCEPT !.to = Len(c) + 1].v = c[i].v
          /\ [c[i] EXCEPT !.to = Len(c) + 1].s = c[i].s
          /\ [c[i] EXCEPT !.to = Len(c) + 1].to = Len(c) + 1
      BY <2>1 DEF Instruction
    <3>4. QED BY <2>1, <2>2, <2>3, <3>1, <3>2, <3>3
  <2>4. CASE i \notin from
    BY <2>1, <2>2, <2>4
  <2>5. QED BY <2>3, <2>4
<1>3. Patch(c, from, Len(c) + 1) = [i \in 1..Len(c) |-> F(i)]
  BY <1>1 DEF Patch
<1> HIDE DEF F
<1>4. [i \in 1..Len(c) |-> F(i)] \in Seq(Instruction) /\ Len([i \in 1..Len(c) |-> F(i)]) = Len(c)
  BY <1>1, <1>2
<1>5. QED BY <1>2, <1>3, <1>4

\* The try bodies that are open are those of blocks in progress.
LEMMA OpenBodies ==
  ASSUME NEW c, NEW o, NEW l, Typed(c, o, l), Geometry(c, o), TriesOpen(c, o),
         Len(o) \in DOMAIN o, NEW r \in Bodies(c), ~Closed(r)
  PROVE  r[1] < o[Len(o)].of \/ (o[Len(o)].kind = "try" /\ r[1] = o[Len(o)].of)
<1>1. c \in Seq(Instruction) /\ o \in Seq(BlockInProgress)
  BY DEF Typed
<1>2. r[1] \in DOMAIN c /\ c[r[1]].op = "setjmp" /\ c[r[1]].to = 0
  BY DEF Bodies, Closed
<1>3. PICK k \in DOMAIN o : o[k].kind = "try" /\ o[k].of = r[1]
  BY <1>2 DEF TriesOpen
<1>4. CASE k # Len(o)
  <2>1. k \in 1..Len(o) - 1
    BY <1>1, <1>4
  <2>2. o[k].id < o[Len(o)].of /\ o[k].of <= o[k].id
    BY <2>1 DEF Geometry
  <2>3. o[k].id \in Nat /\ o[k].of \in Nat /\ o[Len(o)].of \in Nat
    BY <1>1, BlockTypes
  <2>4. QED BY <1>3, <2>2, <2>3
<1>5. QED BY <1>3, <1>4

\* Jumps of the innermost statement are made to lead behind what is written so far.
LEMMA EmitPatch ==
  ASSUME NEW c, NEW o, NEW p, NEW z, Emitted(c, o, <<>>, p, z), Len(o) \in DOMAIN o,
         o[Len(o)].kind # "try",
         NEW from, from \subseteq p \cup o[Len(o)].exits \cup o[Len(o)].next
  PROVE  Emitted(Patch(c, from, Len(c) + 1), o, <<>>, p, z)
<1> DEFINE d == Patch(c, from, Len(c) + 1)
<1>1. /\ Typed(c, o, <<>>) /\ Geometry(c, o) /\ Pending(c, o, p) /\ Objects(c, o, <<>>, z)
      /\ Tries(c, o) /\ Nested(c, o, p)
  BY DEF Emitted
<1>2. c \in Seq(Instruction) /\ o \in Seq(BlockInProgress) /\ Targets(c)
  BY <1>1 DEF Typed, Nested
<1>3. Len(c) \in Nat /\ DOMAIN c = 1..Len(c)
  BY <1>2
<1>4. /\ d \in Seq(Instruction) /\ Len(d) = Len(c)
      /\ \A i \in 1..Len(c) : d[i].op = c[i].op /\ d[i].v = c[i].v /\ d[i].s = c[i].s
      /\ \A i \in 1..Len(c) : d[i].to = IF i \in from THEN Len(c) + 1 ELSE c[i].to
  BY <1>2, PatchFacts
<1>5. DOMAIN d = 1..Len(c)
  BY <1>4
<1>6. d = Patch(c, from, Len(c) + 1)
  OBVIOUS
<1> HIDE DEF d
<1>7. \A i \in from : i \in Pend(o, p) /\ i >= o[Len(o)].of
  BY <1>1 DEF Pending, Pend
<1>8. \A i \in from : i \in 1..Len(c) /\ c[i].op \in PendOps /\ c[i].op # "setjmp"
  <2>1. \A i \in from : i \in 1..Len(c) /\ c[i].op \in PendOps
    BY <1>1, <1>2, <1>7, PendTypes
  <2>2. QED BY <2>1 DEF PendOps
<1>9. \A i \in 1..Len(c) : c[i].op = "setjmp" => d[i].to = c[i].to
  BY <1>4, <1>8
<1>10. \A i \in Len(c) + 1..Len(d) : FALSE
  BY <1>3, <1>4
<1>11. Typed(d, o, <<>>)
  BY <1>1, <1>4 DEF Typed
<1>12. Geometry(d, o)
  <2>1. Len(c) <= Len(d)
    BY <1>3, <1>4
  <2>2. QED BY <1>1, <1>2, <1>4, <1>9, <2>1, GeometryKeep
<1>13. Pending(d, o, p)
  <2>1. \A i \in DOMAIN c : i \in DOMAIN d /\ d[i].op = c[i].op
    BY <1>3, <1>4, <1>5
  <2>2. \A i \in DOMAIN d : d[i].op \in PendOps /\ d[i].to = 0 => i \in Pend(o, p)
    <3> SUFFICES ASSUME NEW i \in DOMAIN d, d[i].op \in PendOps, d[i].to = 0
                 PROVE  i \in Pend(o, p)
      OBVIOUS
    <3>1. c[i].op \in PendOps /\ c[i].to = 0
      BY <1>3, <1>4, <1>5
    <3>2. QED BY <1>1, <1>3, <1>5, <3>1 DEF Pending
  <2>3. QED BY <1>1, <2>1, <2>2 DEF Pending
<1>14. SameObjects(c, d) /\ SameTries(c, d)
  <2>1. Len(c) <= Len(d)
    BY <1>3, <1>4
  <2>2. SameObjects(c, d)
    BY <1>4, <1>10, <2>1 DEF SameObjects
  <2>3. SameTries(c, d)
    BY <1>4, <1>9, <1>10, <2>1 DEF SameTries
  <2>4. QED BY <2>2, <2>3
<1>15. Objects(d, o, <<>>, z) /\ Tries(d, o)
  BY <1>1, <1>2, <1>4, <1>14, ObjectsKeep, TriesKeep
<1>16. Lifetimes(d) \subseteq Lifetimes(c) /\ Bodies(d) \subseteq Bodies(c)
  BY <1>2, <1>4, <1>14, LifetimesKeep, BodiesKeep
<1>17. /\ Lifetimes(c) \in SUBSET Region /\ Bodies(c) \in SUBSET Region
       /\ \A r \in Lifetimes(c) \cup Bodies(c) : r[1] \in 1..Len(c) /\ r[2] \in 0..Len(c)
  BY <1>2, RegionTypes
<1>18. \A r \in Lifetimes(c) : r[2] <= Len(c) /\ (~Closed(r) => \A i \in from : r[1] < i)
  <2> SUFFICES ASSUME NEW r \in Lifetimes(c), ~Closed(r), NEW i \in from PROVE r[1] < i
    BY <1>3, <1>17
  <2>1. r[1] < o[Len(o)].of
    BY <1>1, OpenLifetimes
  <2>2. r[1] \in Nat /\ o[Len(o)].of \in Nat /\ i \in Nat
    BY <1>1, <1>2, <1>8, <1>17, BlockTypes
  <2>3. QED BY <1>7, <2>1, <2>2
<1>19. \A r \in Bodies(c) : r[2] <= Len(c) /\ (~Closed(r) => \A i \in from : r[1] < i)
  <2> SUFFICES ASSUME NEW r \in Bodies(c), ~Closed(r), NEW i \in from PROVE r[1] < i
    BY <1>3, <1>17
  <2>1. r[1] < o[Len(o)].of
    BY <1>1, OpenBodies DEF Tries
  <2>2. r[1] \in Nat /\ o[Len(o)].of \in Nat /\ i \in Nat
    BY <1>1, <1>2, <1>8, <1>17, BlockTypes
  <2>3. QED BY <1>7, <2>1, <2>2
<1>20. Enter(d, o, Lifetimes(d)) /\ Enter(d, o, Bodies(d))
  <2>1. Enter(c, o, Lifetimes(c)) /\ Enter(c, o, Bodies(c))
    BY <1>1 DEF Nested
  <2>2. Enter(d, o, Lifetimes(c))
    BY <1>2, <1>6, <1>17, <1>18, <2>1, EnterPatch
  <2>3. Enter(d, o, Bodies(c))
    BY <1>2, <1>6, <1>17, <1>19, <2>1, EnterPatch
  <2>4. QED BY <1>16, <2>2, <2>3 DEF Enter
<1>21. NoBreaks => Near(o) /\ Leave(d, o, p, Lifetimes(d))
  <2> SUFFICES ASSUME NoBreaks PROVE Near(o) /\ Leave(d, o, p, Lifetimes(d))
    OBVIOUS
  <2>1. Near(o) /\ Leave(c, o, p, Lifetimes(c))
    BY <1>1 DEF Nested
  <2>2. Leave(d, o, p, Lifetimes(c))
    BY <1>2, <1>6, <1>7, <1>17, <2>1, LeavePatch
  <2>3. QED BY <1>16, <2>1, <2>2 DEF Leave
<1>22. Targets(d)
  <2>1. \A i \in 1..Len(c) : c[i].to \in Nat /\ Len(c) + 1 \in Nat
    BY <1>2, PatchFacts
  <2>2. QED BY <1>2, <1>3, <1>4, <1>5, <2>1 DEF Targets
<1>23. DropsFall(d)
  <2> SUFFICES ASSUME NEW i \in Nat, NEW j \in Nat, Jump(d, i, j), j \in 2..Len(d),
                      d[j].op = "drop", d[j - 1].op = "drop"
               PROVE  d[j].s # d[j - 1].s
    BY DEF DropsFall
  <2>1. i \in 1..Len(c) /\ i \notin from
    BY <1>3, <1>4, <1>5 DEF Jump
  <2>2. Jump(c, i, j)
    BY <1>3, <1>4, <2>1 DEF Jump
  <2>3. j \in 2..Len(c) /\ j \in 1..Len(c) /\ j - 1 \in 1..Len(c)
    BY <1>3, <1>4
  <2>4. QED BY <1>1, <1>4, <2>2, <2>3 DEF Nested, DropsFall
<1>24. Nested(d, o, p)
  BY <1>20, <1>21, <1>22, <1>23 DEF Nested
<1>25. Emitted(d, o, <<>>, p, z)
  BY <1>11, <1>12, <1>13, <1>15, <1>24 DEF Emitted
<1>26. QED BY <1>6, <1>25

\* The innermost statement is complete.
LEMMA Pop ==
  ASSUME NEW c, NEW o, NEW z, Emitted(c, o, <<>>, {}, z), Len(o) \in DOMAIN o,
         o[Len(o)].kind # "try",
         \A i \in o[Len(o)].exits \cup o[Len(o)].next : c[i].to # 0
  PROVE  Emitted(c, Front(o), o[Len(o)].saved, {}, FALSE)
<1> DEFINE q == Front(o)
           t == Len(o)
           m == o[t].saved
<1>1. /\ Typed(c, o, <<>>) /\ Geometry(c, o) /\ Pending(c, o, {}) /\ Objects(c, o, <<>>, z)
      /\ Tries(c, o) /\ Nested(c, o, {})
  BY DEF Emitted
<1>2. c \in Seq(Instruction) /\ o \in Seq(BlockInProgress) /\ Targets(c)
  BY <1>1 DEF Typed, Nested
<1>3. Len(c) \in Nat /\ DOMAIN c = 1..Len(c) /\ DOMAIN o = 1..t /\ t \in Nat \ {0}
  BY <1>2
<1>4. /\ q \in Seq(BlockInProgress) /\ Len(q) = t - 1
      /\ \A k \in 1..t - 1 : q[k] = o[k]
  BY <1>2, <1>3 DEF Front
<1>5. DOMAIN q = 1..t - 1
  BY <1>4
<1>6. t = Len(o) /\ t \in DOMAIN o /\ q = Front(o) /\ m = o[t].saved
  OBVIOUS
<1> HIDE DEF q, t, m
<1>7. \A k \in DOMAIN q : k \in DOMAIN o /\ k # t /\ q[k] = o[k]
  BY <1>3, <1>4, <1>5
<1>8. \A k \in DOMAIN o : k \in DOMAIN q \/ k = t
  BY <1>3, <1>5
<1>9. Typed(c, q, m)
  BY <1>1, <1>2, <1>4, <1>6, BlockTypes DEF Typed
<1>10. Geometry(c, q)
  <2>1. ASSUME NEW k \in DOMAIN q, NEW j \in 1..k - 1
        PROVE  q[j].id < q[k].of /\ q[j].test < q[k].of
    <3>1. j \in DOMAIN q /\ q[j] = o[j] /\ q[k] = o[k] /\ k \in DOMAIN o
      BY <1>3, <1>4, <1>5
    <3>2. QED BY <1>1, <3>1 DEF Geometry
  <2>2. QED BY <1>1, <1>7, <2>1 DEF Geometry
<1>11. Pend(q, {}) \subseteq Pend(o, {})
  BY <1>7 DEF Pend
<1>12. Pending(c, q, {})
  <2>1. ASSUME NEW i \in DOMAIN c, c[i].op \in PendOps, c[i].to = 0 PROVE i \in Pend(q, {})
    <3>1. PICK k \in DOMAIN o : i \in o[k].exits \cup o[k].next
      BY <1>1, <2>1 DEF Pending, Pend
    <3>2. k # t
      BY <1>6, <2>1, <3>1
    <3>3. k \in DOMAIN q /\ i \in q[k].exits \cup q[k].next
      BY <1>7, <1>8, <3>1, <3>2
    <3>4. QED BY <3>3 DEF Pend
  <2>2. QED BY <1>1, <1>7, <2>1 DEF Pending
<1>13. \A k \in DOMAIN q : Lst(q, m, k) = Lst(o, <<>>, k)
  <2> SUFFICES ASSUME NEW k \in DOMAIN q PROVE Lst(q, m, k) = Lst(o, <<>>, k)
    OBVIOUS
  <2>1. k # Len(o) /\ Lst(o, <<>>, k) = o[k + 1].saved
    BY <1>6, <1>7 DEF Lst
  <2>2. CASE k = t - 1
    <3>1. k = Len(q) /\ k + 1 = t
      BY <1>3, <1>4, <2>2
    <3>2. QED BY <1>6, <2>1, <3>1 DEF Lst
  <2>3. CASE k # t - 1
    <3>1. k # Len(q) /\ k + 1 \in 1..t - 1
      BY <1>3, <1>4, <1>5, <2>3
    <3>2. QED BY <1>4, <2>1, <3>1 DEF Lst
  <2>4. QED BY <2>2, <2>3
<1>14. Listed(c, q, m)
  <2> SUFFICES ASSUME NEW k \in DOMAIN q, NEW x \in 1..Len(Lst(q, m, k))
               PROVE  /\ Lst(q, m, k)[x] \in DOMAIN c
                      /\ c[Lst(q, m, k)[x]].op = "init" /\ c[Lst(q, m, k)[x]].s = q[k].id
                      /\ Lst(q, m, k)[x] > q[k].id /\ Lst(q, m, k)[x] > q[k].test
                      /\ \A j \in k + 1..Len(q) : Lst(q, m, k)[x] < q[j].of
                      /\ \A d \in Nat : ~DropOf(c, d, Lst(q, m, k)[x])
                      /\ \A y \in x + 1..Len(Lst(q, m, k)) : Lst(q, m, k)[y] < Lst(q, m, k)[x]
    BY DEF Listed
  <2>1. k \in DOMAIN o /\ q[k] = o[k] /\ Lst(q, m, k) = Lst(o, <<>>, k)
    BY <1>7, <1>13
  <2>2. /\ Lst(o, <<>>, k)[x] \in DOMAIN c
        /\ c[Lst(o, <<>>, k)[x]].op = "init" /\ c[Lst(o, <<>>, k)[x]].s = o[k].id
        /\ Lst(o, <<>>, k)[x] > o[k].id /\ Lst(o, <<>>, k)[x] > o[k].test
        /\ \A j \in k + 1..Len(o) : Lst(o, <<>>, k)[x] < o[j].of
        /\ \A d \in Nat : ~DropOf(c, d, Lst(o, <<>>, k)[x])
        /\ \A y \in x + 1..Len(Lst(o, <<>>, k)) : Lst(o, <<>>, k)[y] < Lst(o, <<>>, k)[x]
    BY <1>1, <2>1 DEF Objects, Listed
  <2>3. \A j \in k + 1..Len(q) : j \in k + 1..Len(o) /\ j \in 1..t - 1
    BY <1>3, <1>4, <1>5, <1>6
  <2>4. \A j \in k + 1..Len(q) : Lst(o, <<>>, k)[x] < q[j].of
    BY <1>4, <2>2, <2>3
  <2>5. QED BY <2>1, <2>2, <2>4
<1>15. Covered(c, q, m)
  <2> SUFFICES ASSUME NEW a \in DOMAIN c, c[a].op = "init", ~\E d \in Nat : DropOf(c, d, a)
               PROVE  InList(q, m, a)
    BY DEF Covered
  <2>1. InList(o, <<>>, a)
    BY <1>1 DEF Objects, Covered
  <2>2. PICK k \in DOMAIN o : \E y \in 1..Len(Lst(o, <<>>, k)) : a = Lst(o, <<>>, k)[y]
    BY <2>1 DEF InList
  <2>3. k # t
    <3>1. 1..Len(<<>>) = {}
      OBVIOUS
    <3>2. QED BY <1>6, <2>2, <3>1 DEF Lst
  <2>4. k \in DOMAIN q /\ Lst(q, m, k) = Lst(o, <<>>, k)
    BY <1>8, <1>13, <2>3
  <2>5. QED BY <2>2, <2>4 DEF InList
<1>16. Sealed(c, q, FALSE)
  <2> SUFFICES ASSUME NEW d \in DOMAIN c, c[d].op = "drop", NEW k \in DOMAIN q, c[d].s = q[k].id
               PROVE  FALSE
    BY DEF Sealed
  <2>1. k = Len(o)
    BY <1>1, <1>7 DEF Objects, Sealed
  <2>2. QED BY <1>6, <1>7, <2>1
<1>17. Objects(c, q, m, FALSE)
  BY <1>1, <1>14, <1>15, <1>16 DEF Objects
<1>18. Tries(c, q)
  <2>1. ASSUME NEW u \in DOMAIN c, c[u].op = "setjmp", c[u].to = 0
        PROVE  \E k \in DOMAIN q : q[k].kind = "try" /\ q[k].of = u
    <3>1. PICK k \in DOMAIN o : o[k].kind = "try" /\ o[k].of = u
      BY <1>1, <2>1 DEF Tries, TriesOpen
    <3>2. k # t
      BY <1>6, <3>1
    <3>3. QED BY <1>7, <1>8, <3>1, <3>2
  <2>2. QED BY <1>1, <2>1 DEF Tries, TriesOpen
<1>19. Enter(c, q, Lifetimes(c)) /\ Enter(c, q, Bodies(c))
  BY <1>1, <1>7 DEF Nested, Enter
<1>20. NoBreaks => Near(q) /\ Leave(c, q, {}, Lifetimes(c))
  <2> SUFFICES ASSUME NoBreaks PROVE Near(q) /\ Leave(c, q, {}, Lifetimes(c))
    OBVIOUS
  <2>1. Near(o) /\ Leave(c, o, {}, Lifetimes(c))
    BY <1>1 DEF Nested
  <2>2. Near(q)
    BY <1>7, <2>1 DEF Near
  <2>3. Leave(c, q, {}, Lifetimes(c))
    BY <1>11, <2>1, LeaveBlocks
  <2>4. QED BY <2>2, <2>3
<1>21. Nested(c, q, {})
  BY <1>1, <1>19, <1>20 DEF Nested
<1>22. Emitted(c, q, m, {}, FALSE)
  BY <1>9, <1>10, <1>12, <1>17, <1>18, <1>21 DEF Emitted
<1>23. QED BY <1>6, <1>22

\* A jump is kept in the list of a loop (break, continue).
LEMMA Register ==
  ASSUME NEW c, NEW o, NEW l, NEW p, Emitted(c, o, l, p, FALSE), ~NoBreaks,
         NEW m \in DOMAIN o, o[m].kind \in Loops,
         NEW ex, NEW nx, o[m].exits \subseteq ex, o[m].next \subseteq nx, p \subseteq ex \cup nx,
         \A i \in (ex \cup nx) \ (o[m].exits \cup o[m].next) :
           i \in DOMAIN c /\ c[i].op \in PendOps /\ i >= o[m].of,
         o[m].kind # "array" => nx = {}
  PROVE  Emitted(c, [o EXCEPT ![m] = [o[m] EXCEPT !.exits = ex, !.next = nx]], l, {}, FALSE)
<1> DEFINE b == [o[m] EXCEPT !.exits = ex, !.next = nx]
           q == [o EXCEPT ![m] = b]
<1>1. /\ Typed(c, o, l) /\ Geometry(c, o) /\ Pending(c, o, p) /\ Objects(c, o, l, FALSE)
      /\ Tries(c, o) /\ Nested(c, o, p)
  BY DEF Emitted
<1>2. c \in Seq(Instruction) /\ o \in Seq(BlockInProgress) /\ Targets(c)
  BY <1>1 DEF Typed, Nested
<1>3. Len(c) \in Nat /\ DOMAIN c = 1..Len(c) /\ o[m] \in BlockInProgress
  BY <1>2
<1>4. ex \subseteq Nat /\ nx \subseteq Nat
  BY <1>3 DEF BlockInProgress
<1>5. /\ b \in BlockInProgress /\ b.kind = o[m].kind /\ b.id = o[m].id /\ b.of = o[m].of
      /\ b.saved = o[m].saved /\ b.exits = ex /\ b.next = nx /\ b.test = o[m].test
  BY <1>3, <1>4 DEF BlockInProgress
<1> HIDE DEF b
<1>6. /\ q \in Seq(BlockInProgress) /\ Len(q) = Len(o) /\ DOMAIN q = DOMAIN o
      /\ \A k \in DOMAIN o : q[k] = IF k = m THEN b ELSE o[k]
  BY <1>2, <1>5
<1> HIDE DEF q
<1>7. \A k \in DOMAIN q :
        /\ q[k].kind = o[k].kind /\ q[k].id = o[k].id /\ q[k].of = o[k].of
        /\ q[k].saved = o[k].saved /\ q[k].test = o[k].test
        /\ o[k].exits \subseteq q[k].exits /\ o[k].next \subseteq q[k].next
        /\ k # m => q[k].exits = o[k].exits /\ q[k].next = o[k].next
  BY <1>5, <1>6
<1>8. Typed(c, q, l)
  BY <1>1, <1>6 DEF Typed
<1>9. Geometry(c, q)
  <2>1. \A k \in DOMAIN q : \A j \in 1..k - 1 : q[j].id < q[k].of /\ q[j].test < q[k].of
    <3> SUFFICES ASSUME NEW k \in DOMAIN q, NEW j \in 1..k - 1
                 PROVE  q[j].id < q[k].of /\ q[j].test < q[k].of
      OBVIOUS
    <3>1. j \in DOMAIN q
      BY <1>6
    <3>2. QED BY <1>1, <1>6, <1>7, <3>1 DEF Geometry
  <2>2. QED BY <1>1, <1>6, <1>7, <2>1 DEF Geometry
<1>10. Pend(o, p) \subseteq Pend(q, {})
  <2> SUFFICES ASSUME NEW i \in Pend(o, p) PROVE i \in Pend(q, {})
    OBVIOUS
  <2>1. CASE i \in p
    BY <1>5, <1>6, <2>1 DEF Pend
  <2>2. CASE i \notin p
    <3>1. PICK k \in DOMAIN o : i \in o[k].exits \cup o[k].next
      BY <2>2 DEF Pend
    <3>2. k \in DOMAIN q /\ i \in q[k].exits \cup q[k].next
      BY <1>6, <1>7, <3>1
    <3>3. QED BY <3>2 DEF Pend
  <2>3. QED BY <2>1, <2>2
<1>11. Pending(c, q, {})
  <2>1. ASSUME NEW k \in DOMAIN q
        PROVE  /\ \A i \in q[k].exits \cup q[k].next :
                    i \in DOMAIN c /\ c[i].op \in PendOps /\ i >= q[k].of
               /\ q[k].kind \in {"func", "block", "finally", "try"} => q[k].exits = {}
               /\ q[k].kind # "array" => q[k].next = {}
    <3>1. CASE k = m
      <4>1. q[k] = b
        BY <1>6, <3>1
      <4>2. \A i \in ex \cup nx : i \in DOMAIN c /\ c[i].op \in PendOps /\ i >= o[m].of
        BY <1>1 DEF Pending
      <4>3. QED BY <1>5, <4>1, <4>2 DEF Loops
    <3>2. CASE k # m
      <4>1. q[k] = o[k] /\ k \in DOMAIN o
        BY <1>6, <3>2
      <4>2. QED BY <1>1, <4>1 DEF Pending
    <3>3. QED BY <3>1, <3>2
  <2>2. \A i \in DOMAIN c : c[i].op \in PendOps /\ c[i].to = 0 => i \in Pend(q, {})
    BY <1>1, <1>10 DEF Pending
  <2>3. QED BY <2>1, <2>2 DEF Pending
<1>12. \A k \in DOMAIN o : Lst(q, l, k) = Lst(o, l, k)
  <2> SUFFICES ASSUME NEW k \in DOMAIN o PROVE Lst(q, l, k) = Lst(o, l, k)
    OBVIOUS
  <2>1. k # Len(o) => k + 1 \in DOMAIN o
    BY <1>2
  <2>2. QED BY <1>6, <1>7, <2>1 DEF Lst
<1>13. Objects(c, q, l, FALSE)
  <2>1. Listed(c, q, l)
    <3> SUFFICES ASSUME NEW k \in DOMAIN q, NEW x \in 1..Len(Lst(q, l, k))
                 PROVE  /\ Lst(q, l, k)[x] \in DOMAIN c
                        /\ c[Lst(q, l, k)[x]].op = "init" /\ c[Lst(q, l, k)[x]].s = q[k].id
                        /\ Lst(q, l, k)[x] > q[k].id /\ Lst(q, l, k)[x] > q[k].test
                        /\ \A j \in k + 1..Len(q) : Lst(q, l, k)[x] < q[j].of
                        /\ \A d \in Nat : ~DropOf(c, d, Lst(q, l, k)[x])
                        /\ \A y \in x + 1..Len(Lst(q, l, k)) : Lst(q, l, k)[y] < Lst(q, l, k)[x]
      BY DEF Listed
    <3>1. k \in DOMAIN o /\ Lst(q, l, k) = Lst(o, l, k) /\ q[k].id = o[k].id /\ q[k].test = o[k].test
      BY <1>6, <1>7, <1>12
    <3>2. /\ Lst(o, l, k)[x] \in DOMAIN c
          /\ c[Lst(o, l, k)[x]].op = "init" /\ c[Lst(o, l, k)[x]].s = o[k].id
          /\ Lst(o, l, k)[x] > o[k].id /\ Lst(o, l, k)[x] > o[k].test
          /\ \A j \in k + 1..Len(o) : Lst(o, l, k)[x] < o[j].of
          /\ \A d \in Nat : ~DropOf(c, d, Lst(o, l, k)[x])
          /\ \A y \in x + 1..Len(Lst(o, l, k)) : Lst(o, l, k)[y] < Lst(o, l, k)[x]
      BY <1>1, <3>1 DEF Objects, Listed
    <3>3. \A j \in k + 1..Len(q) : j \in DOMAIN q
      BY <1>2, <1>6, <3>1
    <3>4. QED BY <1>6, <1>7, <3>1, <3>2, <3>3
  <2>2. Covered(c, q, l)
    <3>1. \A a : InList(o, l, a) => InList(q, l, a)
      BY <1>6, <1>12 DEF InList
    <3>2. QED BY <1>1, <3>1 DEF Objects, Covered
  <2>3. Sealed(c, q, FALSE)
    BY <1>1, <1>6, <1>7 DEF Objects, Sealed
  <2>4. QED BY <1>1, <2>1, <2>2, <2>3 DEF Objects
<1>14. Tries(c, q)
  <2>1. TriesOpen(c, q)
    BY <1>1, <1>6, <1>7 DEF Tries, TriesOpen
  <2>2. QED BY <1>1, <2>1 DEF Tries
<1>15. Nested(c, q, {})
  <2>1. Enter(c, q, Lifetimes(c)) /\ Enter(c, q, Bodies(c))
    BY <1>1, <1>6, <1>7 DEF Nested, Enter
  <2>2. QED BY <1>1, <2>1 DEF Nested
<1>16. Emitted(c, q, l, {}, FALSE)
  BY <1>8, <1>9, <1>11, <1>13, <1>14, <1>15 DEF Emitted
<1>17. QED BY <1>16 DEF q, b

\* The innermost statement goes on with another block.
Renewed(o, kind, id, exits, arm) ==
  Append(Front(o), [o[Len(o)] EXCEPT !.kind = kind, !.id = id, !.exits = exits, !.arm = arm])

\* A block is what its fields are.
LEMMA SameBlock ==
  ASSUME NEW x \in BlockInProgress, NEW y \in BlockInProgress,
         x.kind = y.kind, x.id = y.id, x.of = y.of, x.saved = y.saved, x.exits = y.exits,
         x.next = y.next, x.test = y.test, x.arm = y.arm
  PROVE  x = y
<1>1. \A z \in BlockInProgress :
        z = [kind |-> z.kind, id |-> z.id, of |-> z.of, saved |-> z.saved,
             exits |-> z.exits, next |-> z.next, test |-> z.test, arm |-> z.arm]
  BY DEF BlockInProgress
<1>2. x = [kind |-> y.kind, id |-> y.id, of |-> y.of, saved |-> y.saved,
           exits |-> y.exits, next |-> y.next, test |-> y.test, arm |-> y.arm]
  BY <1>1, Zenon
<1>3. QED BY <1>1, <1>2, Zenon

\* The front of a sequence and one more element is that sequence.
LEMMA FrontAppend ==
  ASSUME NEW S, NEW s \in Seq(S), NEW e \in S
  PROVE  Front(Append(s, e)) = s
<1> DEFINE f == SubSeq(Append(s, e), 1, Len(s))
<1>1. /\ Append(s, e) \in Seq(S) /\ Len(Append(s, e)) = Len(s) + 1 /\ Len(s) \in Nat
      /\ \A i \in 1..Len(s) : Append(s, e)[i] = s[i]
  OBVIOUS
<1>2. f \in Seq(S) /\ Len(f) = Len(s) /\ \A i \in 1..Len(s) : f[i] = s[i]
  BY <1>1, SubSeqProperties
<1> HIDE DEF f
<1>3. f = s
  BY <1>2, SeqEqual
<1>4. QED BY <1>1, <1>3 DEF Front, f

\* The next block of a statement keeps its place, its saved list and its test.
LEMMA RenewedFacts ==
  ASSUME NEW o \in Seq(BlockInProgress), Len(o) \in DOMAIN o,
         NEW kind \in Kinds, NEW id \in Nat, NEW exits \in SUBSET Nat, NEW arm \in Nat
  PROVE  /\ Renewed(o, kind, id, exits, arm) \in Seq(BlockInProgress)
         /\ Len(Renewed(o, kind, id, exits, arm)) = Len(o)
         /\ DOMAIN Renewed(o, kind, id, exits, arm) = DOMAIN o
         /\ \A k \in DOMAIN o : k # Len(o) => Renewed(o, kind, id, exits, arm)[k] = o[k]
         /\ Renewed(o, kind, id, exits, arm)[Len(o)].kind = kind
         /\ Renewed(o, kind, id, exits, arm)[Len(o)].id = id
         /\ Renewed(o, kind, id, exits, arm)[Len(o)].of = o[Len(o)].of
         /\ Renewed(o, kind, id, exits, arm)[Len(o)].saved = o[Len(o)].saved
         /\ Renewed(o, kind, id, exits, arm)[Len(o)].exits = exits
         /\ Renewed(o, kind, id, exits, arm)[Len(o)].next = o[Len(o)].next
         /\ Renewed(o, kind, id, exits, arm)[Len(o)].test = o[Len(o)].test
         /\ Renewed(o, kind, id, exits, arm)[Len(o)].arm = arm
         /\ Front(Renewed(o, kind, id, exits, arm)) = Front(o)
<1> DEFINE x == o[Len(o)]
           b == [x EXCEPT !.kind = kind, !.id = id, !.exits = exits, !.arm = arm]
           f == Front(o)
<1>1. x \in BlockInProgress /\ Len(o) \in Nat \ {0} /\ DOMAIN o = 1..Len(o)
  OBVIOUS
<1>2. f \in Seq(BlockInProgress) /\ Len(f) = Len(o) - 1 /\ \A k \in 1..Len(o) - 1 : f[k] = o[k]
  BY <1>1 DEF Front
<1>a. Renewed(o, kind, id, exits, arm) = Append(f, b)
  BY DEF Renewed
<1> HIDE DEF x, f
<1>3. /\ b \in BlockInProgress
      /\ b.kind = kind /\ b.id = id /\ b.of = x.of /\ b.saved = x.saved
      /\ b.exits = exits /\ b.next = x.next /\ b.test = x.test /\ b.arm = arm
  BY <1>1 DEF BlockInProgress
<1> HIDE DEF b
<1>b. b \in BlockInProgress /\ Len(o) \in Nat \ {0}
  BY <1>1, <1>3
<1>4. Append(f, b) \in Seq(BlockInProgress) /\ Len(Append(f, b)) = Len(o)
  BY <1>b, <1>2
<1>5. DOMAIN Append(f, b) = 1..Len(o)
  BY <1>4
<1>c. Append(f, b)[Len(f) + 1] = b
  BY <1>b, <1>2
<1>d. Append(f, b)[Len(o)] = b
  BY <1>b, <1>2, <1>c
<1>6. \A k \in 1..Len(o) - 1 : Append(f, b)[k] = o[k]
  BY <1>b, <1>2
<1>7. \A k \in DOMAIN o : k # Len(o) => k \in 1..Len(o) - 1
  BY <1>1
<1>8. Front(Append(f, b)) = f
  BY <1>2, <1>3, FrontAppend
<1>e. x = o[Len(o)] /\ f = Front(o)
  BY DEF x, f
<1> DEFINE r == Renewed(o, kind, id, exits, arm)
<1>f. r = Append(f, b)
  BY <1>a
<1> HIDE DEF r
<1>g. /\ r \in Seq(BlockInProgress) /\ Len(r) = Len(o) /\ DOMAIN r = 1..Len(o) /\ r[Len(o)] = b
      /\ \A k \in 1..Len(o) - 1 : r[k] = o[k]
      /\ Front(r) = f
  BY <1>f, <1>d, <1>4, <1>5, <1>6, <1>8, Zenon
<1>h. DOMAIN r = DOMAIN o /\ \A k \in DOMAIN o : k # Len(o) => r[k] = o[k]
  BY <1>g, <1>1, <1>7, Zenon
<1>i. /\ r[Len(o)].kind = kind /\ r[Len(o)].id = id /\ r[Len(o)].of = o[Len(o)].of
      /\ r[Len(o)].saved = o[Len(o)].saved /\ r[Len(o)].exits = exits
      /\ r[Len(o)].next = o[Len(o)].next /\ r[Len(o)].test = o[Len(o)].test
      /\ r[Len(o)].arm = arm
  BY <1>g, <1>e, <1>3, Zenon
<1>j. Front(r) = Front(o)
  BY <1>g, <1>e, Zenon
<1>9. QED BY <1>g, <1>h, <1>i, <1>j, Zenon DEF r

\* The last of several blocks of a statement is the one that counts.
LEMMA RenewedTwice ==
  ASSUME NEW o \in Seq(BlockInProgress), Len(o) \in DOMAIN o,
         NEW kind \in Kinds, NEW id \in Nat, NEW exits \in SUBSET Nat, NEW arm \in Nat,
         NEW kind2 \in Kinds, NEW id2 \in Nat, NEW exits2 \in SUBSET Nat, NEW arm2 \in Nat
  PROVE  Renewed(Renewed(o, kind, id, exits, arm), kind2, id2, exits2, arm2)
           = Renewed(o, kind2, id2, exits2, arm2)
<1> DEFINE q == Renewed(o, kind, id, exits, arm)
           r == Renewed(q, kind2, id2, exits2, arm2)
           u == Renewed(o, kind2, id2, exits2, arm2)
<1>1. /\ q \in Seq(BlockInProgress) /\ Len(q) = Len(o) /\ DOMAIN q = DOMAIN o
      /\ \A k \in DOMAIN o : k # Len(o) => q[k] = o[k]
      /\ q[Len(o)].of = o[Len(o)].of /\ q[Len(o)].saved = o[Len(o)].saved
      /\ q[Len(o)].next = o[Len(o)].next /\ q[Len(o)].test = o[Len(o)].test
  BY RenewedFacts
<1> HIDE DEF q
<1>2. Len(q) \in DOMAIN q
  BY <1>1
<1>3. /\ r \in Seq(BlockInProgress) /\ Len(r) = Len(q) /\ DOMAIN r = DOMAIN q
      /\ \A k \in DOMAIN q : k # Len(q) => r[k] = q[k]
      /\ r[Len(q)].kind = kind2 /\ r[Len(q)].id = id2 /\ r[Len(q)].exits = exits2
      /\ r[Len(q)].arm = arm2 /\ r[Len(q)].of = q[Len(q)].of /\ r[Len(q)].saved = q[Len(q)].saved
      /\ r[Len(q)].next = q[Len(q)].next /\ r[Len(q)].test = q[Len(q)].test
  BY <1>1, <1>2, RenewedFacts
<1>4. /\ u \in Seq(BlockInProgress) /\ Len(u) = Len(o) /\ DOMAIN u = DOMAIN o
      /\ \A k \in DOMAIN o : k # Len(o) => u[k] = o[k]
      /\ u[Len(o)].kind = kind2 /\ u[Len(o)].id = id2 /\ u[Len(o)].exits = exits2
      /\ u[Len(o)].arm = arm2 /\ u[Len(o)].of = o[Len(o)].of /\ u[Len(o)].saved = o[Len(o)].saved
      /\ u[Len(o)].next = o[Len(o)].next /\ u[Len(o)].test = o[Len(o)].test
  BY RenewedFacts
<1> HIDE DEF r, u
<1>5. r[Len(o)] \in BlockInProgress /\ u[Len(o)] \in BlockInProgress
  BY <1>1, <1>3, <1>4
<1>6. r[Len(o)] = u[Len(o)]
  BY <1>1, <1>3, <1>4, <1>5, SameBlock
<1>7. \A k \in 1..Len(o) : r[k] = u[k]
  BY <1>1, <1>3, <1>4, <1>6
<1>8. r = u
  BY <1>1, <1>3, <1>4, <1>7, SeqEqual
<1>9. QED BY <1>8 DEF q, r, u

\* else, a catch arm, finally: the statement goes on with a block that starts here.
LEMMA Renew ==
  ASSUME NEW c, NEW o, NEW p, NEW z,
         Typed(c, o, <<>>), Geometry(c, o), Pending(c, o, p), Objects(c, o, <<>>, z),
         Nested(c, o, p), Len(o) \in DOMAIN o, o[Len(o)].kind \notin Loops \cup {"func"},
         NEW kind \in {"else", "arm", "finally"}, NEW exits, NEW arm \in Nat,
         exits \subseteq p \cup o[Len(o)].exits, kind = "finally" => exits = {},
         \A i \in (p \cup o[Len(o)].exits) \ exits : c[i].to # 0
  PROVE  /\ Typed(c, Renewed(o, kind, Len(c), exits, arm), <<>>)
         /\ Geometry(c, Renewed(o, kind, Len(c), exits, arm))
         /\ Pending(c, Renewed(o, kind, Len(c), exits, arm), {})
         /\ Objects(c, Renewed(o, kind, Len(c), exits, arm), <<>>, FALSE)
         /\ Nested(c, Renewed(o, kind, Len(c), exits, arm), {})
<1> DEFINE q == Renewed(o, kind, Len(c), exits, arm)
           t == Len(o)
<1>1. c \in Seq(Instruction) /\ o \in Seq(BlockInProgress)
  BY DEF Typed
<1>2. Len(c) \in Nat /\ DOMAIN c = 1..Len(c) /\ DOMAIN o = 1..t /\ t \in Nat
  BY <1>1
<1>3. t = Len(o) /\ t \in DOMAIN o /\ o[t].kind \notin Loops \cup {"func"}
  OBVIOUS
<1>4. \A i \in p \cup o[t].exits : i \in 1..Len(c) /\ c[i].op \in PendOps /\ i >= o[t].of
  BY <1>2 DEF Pending
<1>5. kind \in Kinds /\ exits \in SUBSET Nat
  BY <1>2, <1>4 DEF Kinds
<1>6. /\ q \in Seq(BlockInProgress) /\ Len(q) = t /\ DOMAIN q = DOMAIN o
      /\ \A k \in DOMAIN o : k # t => q[k] = o[k]
      /\ q[t].kind = kind /\ q[t].id = Len(c) /\ q[t].of = o[t].of /\ q[t].saved = o[t].saved
      /\ q[t].exits = exits /\ q[t].next = o[t].next /\ q[t].test = o[t].test
  BY <1>1, <1>2, <1>5, RenewedFacts
<1> HIDE DEF q, t
<1>7. o[t].test = 0 /\ o[t].next = {}
  BY <1>3 DEF Geometry, Pending, Loops
<1>8. /\ o[t].of \in 0..Len(c) /\ o[t].id \in 0..Len(c)
      /\ \A k \in DOMAIN o : o[k].test \in 0..Len(c)
  BY <1>1, <1>3, BlockTypes
<1>9. Typed(c, q, <<>>)
  BY <1>6 DEF Typed
<1>10. Geometry(c, q)
  <2>1. ASSUME NEW k \in DOMAIN q
        PROVE  /\ q[k].of <= q[k].id /\ q[k].id <= Len(c) /\ q[k].test <= Len(c)
               /\ q[k].test # 0 => q[k].test >= q[k].of /\ c[q[k].test].op \in {"branch", "test"}
               /\ q[k].test # 0 <=> q[k].kind \in Loops
               /\ q[k].kind = "func" <=> k = 1
               /\ q[k].kind = "try" => /\ q[k].of \in DOMAIN c /\ c[q[k].of].op = "setjmp"
                                       /\ c[q[k].of].to = 0
    <3>1. CASE k # t
      <4>1. q[k] = o[k] /\ k \in DOMAIN o
        BY <1>6, <3>1
      <4>2. QED BY <4>1 DEF Geometry
    <3>2. CASE k = t
      <4>1. k # 1
        BY <1>3, <3>2 DEF Geometry
      <4>2. QED BY <1>2, <1>6, <1>7, <1>8, <3>2, <4>1 DEF Loops
    <3>3. QED BY <3>1, <3>2
  <2>2. ASSUME NEW k \in DOMAIN q, NEW j \in 1..k - 1
        PROVE  q[j].id < q[k].of /\ q[j].test < q[k].of
    <3>1. j \in DOMAIN o /\ j # t /\ k \in DOMAIN o
      BY <1>2, <1>6
    <3>2. q[j] = o[j] /\ q[k].of = o[k].of
      BY <1>6, <3>1
    <3>3. QED BY <3>1, <3>2 DEF Geometry
  <2>3. QED BY <2>1, <2>2 DEF Geometry
<1>11. Pend(q, {}) \subseteq Pend(o, p)
  <2> SUFFICES ASSUME NEW i \in Pend(q, {}) PROVE i \in Pend(o, p)
    OBVIOUS
  <2>1. PICK k \in DOMAIN q : i \in q[k].exits \cup q[k].next
    BY DEF Pend
  <2>2. CASE k = t
    <3>1. i \in p \cup o[t].exits
      BY <1>3, <1>6, <1>7, <2>1, <2>2
    <3>2. QED BY <1>3, <3>1 DEF Pend
  <2>3. CASE k # t
    BY <1>6, <2>1, <2>3 DEF Pend
  <2>4. QED BY <2>2, <2>3
<1>12. Pending(c, q, {})
  <2>1. ASSUME NEW k \in DOMAIN q
        PROVE  /\ \A i \in q[k].exits \cup q[k].next :
                    i \in DOMAIN c /\ c[i].op \in PendOps /\ i >= q[k].of
               /\ q[k].kind \in {"func", "block", "finally", "try"} => q[k].exits = {}
               /\ q[k].kind # "array" => q[k].next = {}
    <3>1. CASE k # t
      <4>1. q[k] = o[k] /\ k \in DOMAIN o
        BY <1>6, <3>1
      <4>2. QED BY <4>1 DEF Pending
    <3>2. CASE k = t
      <4>1. \A i \in exits : i \in DOMAIN c /\ c[i].op \in PendOps /\ i >= o[t].of
        BY <1>2, <1>3, <1>4
      <4>2. QED BY <1>6, <1>7, <3>2, <4>1
    <3>3. QED BY <3>1, <3>2
  <2>2. ASSUME NEW i \in DOMAIN c, c[i].op \in PendOps, c[i].to = 0 PROVE i \in Pend(q, {})
    <3>1. i \in Pend(o, p)
      BY <2>2 DEF Pending
    <3>2. CASE i \in p \cup o[t].exits
      <4>1. i \in q[t].exits /\ t \in DOMAIN q
        BY <1>3, <1>6, <2>2, <3>2
      <4>2. QED BY <4>1 DEF Pend
    <3>3. CASE i \notin p \cup o[t].exits
      <4>1. PICK k \in DOMAIN o : i \in o[k].exits \cup o[k].next
        BY <3>1, <3>3 DEF Pend
      <4>2. k # t
        BY <1>7, <3>3, <4>1
      <4>3. k \in DOMAIN q /\ i \in q[k].exits \cup q[k].next
        BY <1>6, <4>1, <4>2
      <4>4. QED BY <4>3 DEF Pend
    <3>4. QED BY <3>2, <3>3
  <2>3. QED BY <2>1, <2>2 DEF Pending
<1>13. \A k \in DOMAIN o : Lst(q, <<>>, k) = Lst(o, <<>>, k)
  <2> SUFFICES ASSUME NEW k \in DOMAIN o PROVE Lst(q, <<>>, k) = Lst(o, <<>>, k)
    OBVIOUS
  <2>1. k # t => k + 1 \in DOMAIN o
    BY <1>2
  <2>2. QED BY <1>3, <1>6, <2>1 DEF Lst
<1>14. Listed(c, q, <<>>)
  <2> SUFFICES ASSUME NEW k \in DOMAIN q, NEW x \in 1..Len(Lst(q, <<>>, k))
               PROVE  /\ Lst(q, <<>>, k)[x] \in DOMAIN c
                      /\ c[Lst(q, <<>>, k)[x]].op = "init" /\ c[Lst(q, <<>>, k)[x]].s = q[k].id
                      /\ Lst(q, <<>>, k)[x] > q[k].id /\ Lst(q, <<>>, k)[x] > q[k].test
                      /\ \A j \in k + 1..Len(q) : Lst(q, <<>>, k)[x] < q[j].of
                      /\ \A d \in Nat : ~DropOf(c, d, Lst(q, <<>>, k)[x])
                      /\ \A y \in x + 1..Len(Lst(q, <<>>, k)) :
                           Lst(q, <<>>, k)[y] < Lst(q, <<>>, k)[x]
    BY DEF Listed
  <2>1. k # t
    <3>1. 1..Len(<<>>) = {}
      OBVIOUS
    <3>2. QED BY <1>6, <3>1 DEF Lst
  <2>2. k \in DOMAIN o /\ q[k] = o[k] /\ Lst(q, <<>>, k) = Lst(o, <<>>, k)
    BY <1>6, <1>13, <2>1
  <2>3. /\ Lst(o, <<>>, k)[x] \in DOMAIN c
        /\ c[Lst(o, <<>>, k)[x]].op = "init" /\ c[Lst(o, <<>>, k)[x]].s = o[k].id
        /\ Lst(o, <<>>, k)[x] > o[k].id /\ Lst(o, <<>>, k)[x] > o[k].test
        /\ \A j \in k + 1..Len(o) : Lst(o, <<>>, k)[x] < o[j].of
        /\ \A d \in Nat : ~DropOf(c, d, Lst(o, <<>>, k)[x])
        /\ \A y \in x + 1..Len(Lst(o, <<>>, k)) : Lst(o, <<>>, k)[y] < Lst(o, <<>>, k)[x]
    BY <2>2 DEF Objects, Listed
  <2>4. \A j \in k + 1..Len(q) : j \in k + 1..Len(o) /\ q[j].of = o[j].of
    <3> SUFFICES ASSUME NEW j \in k + 1..Len(q) PROVE j \in k + 1..Len(o) /\ q[j].of = o[j].of
      OBVIOUS
    <3>1. j \in k + 1..Len(o) /\ j \in DOMAIN o
      BY <1>2, <1>3, <1>6, <2>2
    <3>2. QED BY <1>6, <3>1
  <2>5. QED BY <2>2, <2>3, <2>4
<1>15. Covered(c, q, <<>>)
  <2>1. \A a : InList(o, <<>>, a) => InList(q, <<>>, a)
    BY <1>6, <1>13 DEF InList
  <2>2. QED BY <2>1 DEF Objects, Covered
<1>16. Sealed(c, q, FALSE)
  <2> SUFFICES ASSUME NEW d \in DOMAIN c, c[d].op = "drop", NEW k \in DOMAIN q, c[d].s = q[k].id
               PROVE  FALSE
    BY DEF Sealed
  <2>1. CASE k = t
    <3>1. c[d] \in Instruction /\ c[d].s < d
      BY <1>1 DEF Objects, Inits
    <3>2. c[d].s \in Nat
      BY <3>1 DEF Instruction
    <3>3. QED BY <1>2, <1>6, <2>1, <3>1, <3>2
  <2>2. CASE k # t
    BY <1>3, <1>6, <2>2 DEF Objects, Sealed
  <2>3. QED BY <2>1, <2>2
<1>17. Objects(c, q, <<>>, FALSE)
  BY <1>14, <1>15, <1>16 DEF Objects
<1>18. \A k \in DOMAIN q : k \in DOMAIN o /\ q[k].test = o[k].test
  BY <1>6
<1>19. Enter(c, q, Lifetimes(c)) /\ Enter(c, q, Bodies(c))
  BY <1>18 DEF Nested, Enter
<1>20. NoBreaks => Near(q) /\ Leave(c, q, {}, Lifetimes(c))
  <2> SUFFICES ASSUME NoBreaks PROVE Near(q) /\ Leave(c, q, {}, Lifetimes(c))
    OBVIOUS
  <2>1. Near(o) /\ Leave(c, o, p, Lifetimes(c))
    BY DEF Nested
  <2>2. Near(q)
    <3> SUFFICES ASSUME NEW k \in DOMAIN q
                 PROVE  q[k].next = {} /\ \A i \in q[k].exits : i <= q[k].id \/ i <= q[k].test
      BY DEF Near
    <3>1. CASE k = t
      <4>1. \A i \in exits : i <= Len(c)
        BY <1>2, <1>3, <1>4
      <4>2. QED BY <1>6, <1>7, <3>1, <4>1
    <3>2. CASE k # t
      BY <1>6, <2>1, <3>2 DEF Near
    <3>3. QED BY <3>1, <3>2
  <2>3. Leave(c, q, {}, Lifetimes(c))
    BY <1>11, <2>1, LeaveBlocks
  <2>4. QED BY <2>2, <2>3
<1>21. Nested(c, q, {})
  BY <1>19, <1>20 DEF Nested
<1>22. QED BY <1>9, <1>10, <1>12, <1>17, <1>21 DEF q

\* The body of the innermost try is complete: an error now leads behind it.
LEMMA CloseTry ==
  ASSUME NEW c, NEW o, NEW p, NEW z, Emitted(c, o, <<>>, p, z), Len(o) \in DOMAIN o,
         o[Len(o)].kind = "try"
  PROVE  Emitted(Patch(c, {o[Len(o)].of}, Len(c) + 1), Renewed(o, "arm", Len(c), p, 0),
                 <<>>, {}, FALSE)
<1> DEFINE t    == Len(o)
           of   == o[t].of
           from == {of}
           d    == Patch(c, from, Len(c) + 1)
           q    == Renewed(o, "arm", Len(c), p, 0)
<1>1. /\ Typed(c, o, <<>>) /\ Geometry(c, o) /\ Pending(c, o, p) /\ Objects(c, o, <<>>, z)
      /\ Tries(c, o) /\ Nested(c, o, p)
  BY DEF Emitted
<1>2. c \in Seq(Instruction) /\ o \in Seq(BlockInProgress) /\ Targets(c)
  BY <1>1 DEF Typed, Nested
<1>3. Len(c) \in Nat /\ DOMAIN c = 1..Len(c) /\ DOMAIN o = 1..t /\ t \in Nat
  BY <1>2
<1>4. o[t].exits = {}
  BY <1>1 DEF Pending
<1>5. Typed(c, q, <<>>) /\ Geometry(c, q) /\ Pending(c, q, {}) /\ Objects(c, q, <<>>, FALSE)
      /\ Nested(c, q, {})
  <2>1. o[t].kind \notin Loops \cup {"func"}
    BY DEF Loops
  <2>2. "arm" \in {"else", "arm", "finally"} /\ 0 \in Nat /\ p \subseteq p \cup o[t].exits
    OBVIOUS
  <2>3. \A i \in (p \cup o[t].exits) \ p : c[i].to # 0
    BY <1>4
  <2>4. QED BY <1>1, <2>1, <2>2, <2>3, Renew
<1>6. p \in SUBSET Nat
  BY <1>1, <1>3 DEF Pending
<1>7. /\ q \in Seq(BlockInProgress) /\ Len(q) = t /\ DOMAIN q = DOMAIN o
      /\ \A k \in DOMAIN o : k # t => q[k] = o[k]
      /\ q[t].kind = "arm" /\ q[t].of = of /\ q[t].test = o[t].test
  <2>1. "arm" \in Kinds /\ 0 \in Nat
    BY DEF Kinds
  <2>2. QED BY <1>2, <1>3, <1>6, <2>1, RenewedFacts
<1>8. /\ d \in Seq(Instruction) /\ Len(d) = Len(c)
      /\ \A i \in 1..Len(c) : d[i].op = c[i].op /\ d[i].v = c[i].v /\ d[i].s = c[i].s
      /\ \A i \in 1..Len(c) : d[i].to = IF i \in from THEN Len(c) + 1 ELSE c[i].to
  BY <1>2, PatchFacts
<1>9. DOMAIN d = 1..Len(c)
  BY <1>8
<1>10. of \in 1..Len(c) /\ c[of].op = "setjmp" /\ c[of].to = 0
  BY <1>1, <1>3 DEF Geometry
<1>11. o[t].test = 0 /\ t \in DOMAIN o
  BY <1>1 DEF Geometry, Loops
<1>12. d = Patch(c, from, Len(c) + 1) /\ from = {of}
  OBVIOUS
<1>13. \A k \in DOMAIN o : k # t => o[k].of < of /\ o[k].test < of
  <2> SUFFICES ASSUME NEW k \in DOMAIN o, k # t PROVE o[k].of < of /\ o[k].test < of
    OBVIOUS
  <2>1. k \in 1..t - 1
    BY <1>3
  <2>2. o[k].id < of /\ o[k].test < of /\ o[k].of <= o[k].id
    BY <1>1, <1>11, <2>1 DEF Geometry
  <2>3. o[k].id \in Nat /\ o[k].of \in Nat
    BY <1>1, <1>2, BlockTypes
  <2>4. QED BY <1>10, <2>2, <2>3
<1>14. Emitted(d, q, <<>>, {}, FALSE) => Emitted(Patch(c, {o[Len(o)].of}, Len(c) + 1),
                                                 Renewed(o, "arm", Len(c), p, 0), <<>>, {}, FALSE)
  OBVIOUS
<1>15. \A k \in DOMAIN q : o[k].kind = "try" /\ k # t => q[k].kind = "try" /\ q[k].of = o[k].of
  BY <1>7
<1>16. \A k \in DOMAIN q : q[k].kind = "try" => q[k].of # of
  <2> SUFFICES ASSUME NEW k \in DOMAIN q, q[k].kind = "try" PROVE q[k].of # of
    OBVIOUS
  <2>1. k # t /\ k \in DOMAIN o
    BY <1>7
  <2>2. o[k].of \in Nat
    BY <1>1, <1>2, <2>1, BlockTypes
  <2>3. QED BY <1>7, <1>10, <1>13, <2>1, <2>2
<1>17. \A k \in DOMAIN q : q[k].test < of
  BY <1>7, <1>10, <1>11, <1>13
<1> HIDE DEF d, q, from, of, t
<1>18. Len(c) <= Len(d) /\ \A i \in Len(c) + 1..Len(d) : FALSE
  BY <1>3, <1>8
<1>19. Typed(d, q, <<>>)
  BY <1>5, <1>8 DEF Typed
<1>20. Geometry(d, q)
  <2>1. \A i \in 1..Len(c) :
          /\ d[i].op = c[i].op
          /\ c[i].op = "setjmp" => \/ d[i].to = c[i].to
                                   \/ \A k \in DOMAIN q : q[k].kind = "try" => q[k].of # i
    BY <1>8, <1>12, <1>16
  <2>2. QED BY <1>2, <1>5, <1>7, <1>8, <1>18, <2>1, GeometryKeep
<1>21. Pending(d, q, {})
  <2>1. \A i \in DOMAIN c : i \in DOMAIN d /\ d[i].op = c[i].op
    BY <1>3, <1>8, <1>9
  <2>2. \A i \in DOMAIN d : d[i].op \in PendOps /\ d[i].to = 0 => i \in Pend(q, {})
    <3> SUFFICES ASSUME NEW i \in DOMAIN d, d[i].op \in PendOps, d[i].to = 0
                 PROVE  i \in Pend(q, {})
      OBVIOUS
    <3>1. i \in 1..Len(c) /\ i # of
      BY <1>8, <1>9, <1>10 DEF PendOps
    <3>2. c[i].op \in PendOps /\ c[i].to = 0
      BY <1>8, <1>12, <3>1
    <3>3. QED BY <1>3, <1>5, <3>1, <3>2 DEF Pending
  <2>3. QED BY <1>5, <2>1, <2>2 DEF Pending
<1>22. SameObjects(c, d)
  BY <1>8, <1>18 DEF SameObjects
<1>23. Objects(d, q, <<>>, FALSE) /\ Lifetimes(d) \subseteq Lifetimes(c)
  BY <1>2, <1>5, <1>8, <1>22, ObjectsKeep, LifetimesKeep
<1>24. \A i \in 1..Len(c) : c[i].to \in Nat /\ Len(c) + 1 \in Nat
  BY <1>2, PatchFacts
<1>25. ThrowsKnown(d)
  <2> SUFFICES ASSUME NEW i \in DOMAIN d, d[i].op \in {"throw", "call"}, d[i].v # 0
               PROVE  /\ d[i].v \in 1..i - 1 /\ d[d[i].v].op = "setjmp"
                      /\ d[d[i].v].to = 0 \/ i < d[d[i].v].to
    BY DEF ThrowsKnown
  <2>1. i \in 1..Len(c) /\ c[i].op = d[i].op /\ c[i].v = d[i].v
    BY <1>8, <1>9
  <2>2. /\ c[i].v \in 1..i - 1 /\ c[c[i].v].op = "setjmp"
        /\ c[c[i].v].to = 0 \/ i < c[c[i].v].to
    BY <1>1, <1>3, <2>1 DEF Tries, ThrowsKnown
  <2>3. c[i].v \in 1..Len(c)
    BY <2>1, <2>2, <1>3
  <2>4. d[c[i].v].op = "setjmp"
    BY <1>8, <2>2, <2>3
  <2>5. CASE c[i].v = of
    <3>1. d[of].to = Len(c) + 1
      BY <1>8, <1>10, <1>12
    <3>2. i < d[of].to
      BY <1>3, <2>1, <3>1
    <3>3. QED BY <2>1, <2>2, <2>4, <2>5, <3>2
  <2>6. CASE c[i].v # of
    BY <1>8, <1>12, <2>1, <2>2, <2>3, <2>4, <2>6
  <2>7. QED BY <2>5, <2>6
<1>26. TriesFlat(d)
  <2> SUFFICES ASSUME profile.tries <= 1, NEW a \in DOMAIN d, NEW u \in DOMAIN d,
                      d[a].op = "setjmp", d[u].op = "setjmp", a < u
               PROVE  d[a].to # 0 /\ d[a].to <= u
    BY DEF TriesFlat
  <2>1. a \in DOMAIN c /\ u \in DOMAIN c /\ c[a].op = "setjmp" /\ c[u].op = "setjmp"
    BY <1>3, <1>8, <1>9
  <2>2. c[a].to # 0 /\ c[a].to <= u
    BY <1>1, <2>1 DEF Tries, TriesFlat
  <2>3. a # of
    BY <1>10, <2>2
  <2>4. QED BY <1>3, <1>8, <1>12, <2>1, <2>2, <2>3
<1>27. TriesOpen(d, q)
  <2> SUFFICES ASSUME NEW a \in DOMAIN d, d[a].op = "setjmp", d[a].to = 0
               PROVE  \E k \in DOMAIN q : q[k].kind = "try" /\ q[k].of = a
    BY DEF TriesOpen
  <2>a. a \in 1..Len(c)
    BY <1>9
  <2>b. d[a].to = IF a \in from THEN Len(c) + 1 ELSE c[a].to
    BY <1>8, <2>a
  <2>c. Len(c) + 1 # 0
    BY <1>3
  <2>1. a \in 1..Len(c) /\ a # of
    BY <1>12, <2>a, <2>b, <2>c
  <2>2. a \in DOMAIN c /\ c[a].op = "setjmp" /\ c[a].to = 0
    BY <1>3, <1>8, <1>12, <2>1
  <2>3. PICK k \in DOMAIN o : o[k].kind = "try" /\ o[k].of = a
    BY <1>1, <2>2 DEF Tries, TriesOpen
  <2>4. k # t
    BY <2>1, <2>3 DEF of
  <2>5. QED BY <1>7, <1>15, <2>3, <2>4
<1>28. /\ Lifetimes(c) \in SUBSET Region /\ Bodies(c) \in SUBSET Region /\ Bodies(d) \in SUBSET Region
       /\ \A r \in Lifetimes(c) \cup Bodies(c) : r[1] \in 1..Len(c) /\ r[2] \in 0..Len(c)
       /\ \A r \in Bodies(d) : r[1] \in 1..Len(c) /\ r[2] \in 0..Len(c)
  BY <1>2, <1>8, RegionTypes
<1>29. \A r \in Lifetimes(c) : r[2] <= Len(c) /\ (~Closed(r) => \A i \in from : r[1] < i)
  <2> SUFFICES ASSUME NEW r \in Lifetimes(c), ~Closed(r), NEW i \in from PROVE r[1] < i
    BY <1>3, <1>28
  <2>1. r[1] < of
    BY <1>1, <1>11, OpenLifetimes DEF of, t
  <2>2. QED BY <1>12, <2>1
<1>30. \A r \in Bodies(d) : r[2] <= Len(c) /\ (~Closed(r) => \A i \in from : r[1] < i)
  <2> SUFFICES ASSUME NEW r \in Bodies(d), ~Closed(r), NEW i \in from PROVE r[1] < i
    BY <1>3, <1>28
  <2>1. Len(q) \in DOMAIN q /\ q[Len(q)].of = of /\ q[Len(q)].kind # "try"
    BY <1>7, <1>11
  <2>2. r[1] < of
    BY <1>19, <1>20, <1>27, <2>1, OpenBodies
  <2>3. QED BY <1>12, <2>2
<1>31. \A r \in Bodies(d) : \/ r \in Bodies(c)
                            \/ /\ <<r[1], 0>> \in Bodies(c) /\ r[2] >= Len(c)
                               /\ \A k \in DOMAIN q : q[k].test <= r[1]
  <2> SUFFICES ASSUME NEW r \in Bodies(d)
               PROVE  \/ r \in Bodies(c)
                      \/ /\ <<r[1], 0>> \in Bodies(c) /\ r[2] >= Len(c)
                         /\ \A k \in DOMAIN q : q[k].test <= r[1]
    OBVIOUS
  <2>1. /\ r \in (DOMAIN d) \X (0..Len(d)) /\ d[r[1]].op = "setjmp"
        /\ d[r[1]].to = (IF r[2] = 0 THEN 0 ELSE r[2] + 1)
    BY DEF Bodies
  <2>2. r[1] \in DOMAIN c /\ c[r[1]].op = "setjmp"
    BY <1>3, <1>8, <1>9, <2>1
  <2>3. CASE r[1] # of
    <3>1. c[r[1]].to = d[r[1]].to
      BY <1>3, <1>8, <1>12, <2>2, <2>3
    <3>2. r \in (DOMAIN c) \X (0..Len(c))
      BY <1>3, <1>8, <1>9, <2>1
    <3>3. QED BY <2>1, <2>2, <3>1, <3>2 DEF Bodies
  <2>4. CASE r[1] = of
    <3>1. d[of].to = Len(c) + 1
      BY <1>8, <1>10, <1>12
    <3>2. r[2] = Len(c)
      BY <1>3, <1>28, <2>1, <2>4, <3>1
    <3>3. <<of, 0>> \in (DOMAIN c) \X (0..Len(c))
      BY <1>3, <1>10
    <3>4. <<of, 0>> \in Bodies(c)
      BY <1>10, <3>3 DEF Bodies
    <3>5. \A k \in DOMAIN q : q[k].test <= of
      <4>1. \A k \in DOMAIN q : q[k].test \in Nat
        BY <1>5, <1>2, <1>7, BlockTypes
      <4>2. QED BY <1>10, <1>17, <4>1
    <3>6. QED BY <1>3, <2>4, <3>2, <3>4, <3>5
  <2>5. QED BY <2>3, <2>4
<1>32. \A k \in DOMAIN q : q[k].test \in 0..Len(c)
  BY <1>5, <1>2, <1>7, BlockTypes
<1>33. Enter(d, q, Lifetimes(d)) /\ Enter(d, q, Bodies(d))
  <2>1. Enter(c, q, Lifetimes(c)) /\ Enter(c, q, Bodies(c))
    BY <1>5 DEF Nested
  <2>2. Enter(d, q, Lifetimes(c))
    BY <1>2, <1>12, <1>28, <1>29, <2>1, EnterPatch
  <2>3. Plain(c, c)
    BY <1>3 DEF Plain
  <2>4. Enter(c, q, Bodies(d))
    <3>1. \A r \in Bodies(d) : \/ r \in Bodies(c)
                               \/ r[1] > Len(c)
                               \/ /\ <<r[1], 0>> \in Bodies(c) /\ r[2] >= Len(c)
                                  /\ \A k \in DOMAIN q : q[k].test <= r[1]
      BY <1>31
    <3>2. QED BY <1>2, <1>28, <1>32, <2>1, <2>3, <3>1, EnterGrow
  <2>5. Enter(d, q, Bodies(d))
    BY <1>2, <1>12, <1>28, <1>30, <2>4, EnterPatch
  <2>6. QED BY <1>23, <2>2, <2>5 DEF Enter
<1>34. NoBreaks => Near(q) /\ Leave(d, q, {}, Lifetimes(d))
  <2> SUFFICES ASSUME NoBreaks PROVE Near(q) /\ Leave(d, q, {}, Lifetimes(d))
    OBVIOUS
  <2>1. Near(q) /\ Leave(c, q, {}, Lifetimes(c))
    BY <1>5 DEF Nested
  <2>2. Leave(d, q, {}, Lifetimes(c))
    <3>1. \A i \in from : i \in Pend(q, {}) \/ c[i].op = "setjmp"
      BY <1>10, <1>12
    <3>2. QED BY <1>2, <1>12, <1>28, <2>1, <3>1, LeavePatch
  <2>3. QED BY <1>23, <2>1, <2>2 DEF Leave
<1>35. Targets(d)
  BY <1>2, <1>3, <1>8, <1>9, <1>24 DEF Targets
<1>36. DropsFall(d)
  <2> SUFFICES ASSUME NEW i \in Nat, NEW j \in Nat, Jump(d, i, j), j \in 2..Len(d),
                      d[j].op = "drop", d[j - 1].op = "drop"
               PROVE  d[j].s # d[j - 1].s
    BY DEF DropsFall
  <2>1. i \in 1..Len(c) /\ i \notin from
    BY <1>3, <1>8, <1>9 DEF Jump
  <2>2. Jump(c, i, j)
    BY <1>3, <1>8, <2>1 DEF Jump
  <2>3. j \in 2..Len(c) /\ j \in 1..Len(c) /\ j - 1 \in 1..Len(c)
    BY <1>3, <1>8
  <2>4. QED BY <1>1, <1>8, <2>2, <2>3 DEF Nested, DropsFall
<1>37. Nested(d, q, {})
  BY <1>33, <1>34, <1>35, <1>36 DEF Nested
<1>38. Emitted(d, q, <<>>, {}, FALSE)
  BY <1>19, <1>20, <1>21, <1>23, <1>25, <1>26, <1>27, <1>37 DEF Emitted, Tries
<1>39. QED BY <1>14, <1>38

\* The next block of a statement other than a try body opens and closes no try.
LEMMA RenewTries ==
  ASSUME NEW c, NEW o \in Seq(BlockInProgress), Len(o) \in DOMAIN o, o[Len(o)].kind # "try",
         NEW kind \in Kinds, NEW id \in Nat, NEW exits \in SUBSET Nat, NEW arm \in Nat, Tries(c, o)
  PROVE  Tries(c, Renewed(o, kind, id, exits, arm))
<1> DEFINE q == Renewed(o, kind, id, exits, arm)
<1>1. DOMAIN q = DOMAIN o /\ \A k \in DOMAIN o : k # Len(o) => q[k] = o[k]
  BY RenewedFacts
<1> HIDE DEF q
<1>2. TriesOpen(c, q)
  <2> SUFFICES ASSUME NEW a \in DOMAIN c, c[a].op = "setjmp", c[a].to = 0
               PROVE  \E k \in DOMAIN q : q[k].kind = "try" /\ q[k].of = a
    BY DEF TriesOpen
  <2>1. PICK k \in DOMAIN o : o[k].kind = "try" /\ o[k].of = a
    BY DEF Tries, TriesOpen
  <2>2. QED BY <1>1, <2>1
<1>3. QED BY <1>2 DEF Tries, q

\* So does what has been emitted, jumps and trys included.
LEMMA EmitRenew ==
  ASSUME NEW c, NEW o, NEW p, NEW z, Emitted(c, o, <<>>, p, z), Len(o) \in DOMAIN o,
         o[Len(o)].kind \notin Loops \cup {"func", "try"},
         NEW kind \in {"else", "arm", "finally"}, NEW exits, NEW arm \in Nat,
         exits \subseteq p \cup o[Len(o)].exits, kind = "finally" => exits = {},
         \A i \in (p \cup o[Len(o)].exits) \ exits : c[i].to # 0
  PROVE  Emitted(c, Renewed(o, kind, Len(c), exits, arm), <<>>, {}, FALSE)
<1>1. /\ Typed(c, o, <<>>) /\ Geometry(c, o) /\ Pending(c, o, p) /\ Objects(c, o, <<>>, z)
      /\ Tries(c, o) /\ Nested(c, o, p)
  BY DEF Emitted
<1>2. o[Len(o)].kind \notin Loops \cup {"func"} /\ o[Len(o)].kind # "try"
  OBVIOUS
<1>3. /\ Typed(c, Renewed(o, kind, Len(c), exits, arm), <<>>)
      /\ Geometry(c, Renewed(o, kind, Len(c), exits, arm))
      /\ Pending(c, Renewed(o, kind, Len(c), exits, arm), {})
      /\ Objects(c, Renewed(o, kind, Len(c), exits, arm), <<>>, FALSE)
      /\ Nested(c, Renewed(o, kind, Len(c), exits, arm), {})
  BY <1>1, <1>2, Renew
<1>4. Tries(c, Renewed(o, kind, Len(c), exits, arm))
  <2>1. c \in Seq(Instruction) /\ o \in Seq(BlockInProgress) /\ Len(c) \in Nat
    BY <1>1 DEF Typed
  <2>2. DOMAIN c \subseteq Nat
    BY <2>1
  <2>3. exits \in SUBSET Nat
    BY <1>1, <2>2 DEF Pending
  <2>4. kind \in Kinds
    BY DEF Kinds
  <2>5. QED BY <1>1, <1>2, <2>1, <2>3, <2>4, RenewTries
<1>5. QED BY <1>3, <1>4 DEF Emitted

\* What Instr makes.
LEMMA InstrFacts ==
  ASSUME NEW op \in Ops, NEW v \in Nat, NEW s \in Nat, NEW to \in Nat
  PROVE  /\ Instr(op, v, s, to) \in Instruction
         /\ Instr(op, v, s, to).op = op /\ Instr(op, v, s, to).v = v
         /\ Instr(op, v, s, to).s = s /\ Instr(op, v, s, to).to = to
BY DEF Instr, Instruction

\* What an instruction more makes of the code.
LEMMA AppendFacts ==
  ASSUME NEW c \in Seq(Instruction), NEW x \in Instruction
  PROVE  /\ Append(c, x) \in Seq(Instruction) /\ Len(Append(c, x)) = Len(c) + 1 /\ Len(c) \in Nat
         /\ DOMAIN Append(c, x) = 1..Len(c) + 1 /\ DOMAIN c = 1..Len(c)
         /\ Append(c, x)[Len(c) + 1] = x /\ \A i \in 1..Len(c) : Append(c, x)[i] = c[i]
OBVIOUS

\* Behind the body or an arm of a try: another arm, the finally block, or the end.
LEMMA BehindTry ==
  ASSUME NEW c, NEW o, NEW z, Emitted(c, o, <<>>, {}, z), Len(o) \in DOMAIN o,
         o[Len(o)].kind = "arm", NEW v \in Nat, NEW s \in Nat, s <= Len(c), NEW arm \in Nat
  PROVE  /\ Emitted(Append(c, Instr("arm", v, s, 0)),
                    Renewed(o, "arm", Len(Append(c, Instr("arm", v, s, 0))), o[Len(o)].exits, arm),
                    <<>>, {}, FALSE)
         /\ Emitted(Append(Patch(c, o[Len(o)].exits, Len(c) + 1), Instr("finally", v, s, 0)),
                    Renewed(o, "finally",
                            Len(Append(Patch(c, o[Len(o)].exits, Len(c) + 1), Instr("finally", v, s, 0))),
                            {}, 0),
                    <<>>, {}, FALSE)
         /\ Emitted(Patch(c, o[Len(o)].exits, Len(c) + 1), Front(o), o[Len(o)].saved, {}, FALSE)
<1> DEFINE t == Len(o)
           d == Patch(c, o[t].exits, Len(c) + 1)
           x == Instr("arm", v, s, 0)
           y == Instr("finally", v, s, 0)
<1>1. /\ c \in Seq(Instruction) /\ o \in Seq(BlockInProgress) /\ Pending(c, o, {}) /\ Geometry(c, o)
  BY DEF Emitted, Typed
<1>2. /\ x \in Instruction /\ x.op = "arm" /\ x.s = s /\ x.to = 0
      /\ y \in Instruction /\ y.op = "finally" /\ y.s = s /\ y.to = 0
  <2>1. "arm" \in Ops /\ "finally" \in Ops /\ 0 \in Nat /\ v \in Nat /\ s \in Nat
    BY DEF Ops
  <2>2. QED BY ONLY <2>1, InstrFacts
<1>3. o[t].kind # "try" /\ o[t].kind \notin Loops \cup {"func", "try"}
  BY DEF Loops
<1>4. o[t].exits \subseteq 1..Len(c) /\ o[t].next = {}
  BY <1>1 DEF Pending
<1>5. /\ d \in Seq(Instruction) /\ Len(d) = Len(c)
      /\ \A i \in o[t].exits : d[i].to = Len(c) + 1
  BY <1>1, <1>4, PatchFacts
<1>6. Emitted(d, o, <<>>, {}, z)
  BY <1>3, EmitPatch
<1>7. Len(c) \in Nat
  BY <1>1
<1> HIDE DEF d, x, y
<1>8. Emitted(Append(c, x), o, <<>>, {}, z)
  <2>1. {} = IF x.op \in PendOps THEN {} \cup {Len(c) + 1} ELSE {}
    BY <1>2 DEF PendOps
  <2>2. QED BY <1>2, <2>1, EmitPlain
<1>9. Emitted(Append(c, x), Renewed(o, "arm", Len(Append(c, x)), o[t].exits, arm), <<>>, {}, FALSE)
  <2>1. /\ "arm" \in {"else", "arm", "finally"} /\ o[t].exits \subseteq {} \cup o[t].exits
        /\ \A i \in ({} \cup o[t].exits) \ o[t].exits : Append(c, x)[i].to # 0
    OBVIOUS
  <2>2. QED BY <1>3, <1>8, <2>1, EmitRenew
<1>10. Emitted(Append(d, y), o, <<>>, {}, z)
  <2>1. {} = IF y.op \in PendOps THEN {} \cup {Len(c) + 1} ELSE {}
    BY <1>2 DEF PendOps
  <2>2. QED BY <1>2, <1>5, <1>6, <2>1, EmitPlain
<1>11. Emitted(Append(d, y), Renewed(o, "finally", Len(Append(d, y)), {}, 0), <<>>, {}, FALSE)
  <2>1. /\ "finally" \in {"else", "arm", "finally"} /\ {} \subseteq {} \cup o[t].exits /\ 0 \in Nat
    OBVIOUS
  <2>2. \A i \in ({} \cup o[t].exits) \ {} : Append(d, y)[i].to # 0
    <3> SUFFICES ASSUME NEW i \in o[t].exits PROVE Append(d, y)[i].to # 0
      OBVIOUS
    <3>1. Append(d, y)[i] = d[i]
      BY <1>2, <1>4, <1>5
    <3>2. QED BY <1>5, <1>7, <3>1
  <2>3. QED BY <1>3, <1>10, <2>1, <2>2, EmitRenew
<1>12. Emitted(d, Front(o), o[t].saved, {}, FALSE)
  <2>1. \A i \in o[t].exits \cup o[t].next : d[i].to # 0
    BY <1>4, <1>5, <1>7
  <2>2. QED BY <1>3, <1>6, <2>1, Pop
<1>13. QED BY <1>9, <1>11, <1>12 DEF d, x, y

\* A statement with a block of its own begins: d is c with its first instructions.
LEMMA EmitOpen ==
  ASSUME NEW c, NEW o, NEW l, Emitted(c, o, l, {}, FALSE), Len(o) \in DOMAIN o,
         NEW d, NEW p, Typed(d, o, l), Geometry(d, o), Pending(d, o, p), Objects(d, o, l, FALSE),
         Nested(d, o, p), Len(c) < Len(d), \A i \in 1..Len(c) : d[i] = c[i],
         \A i \in Len(c) + 1..Len(d) : d[i].op \notin {"init", "drop"},
         NEW b \in BlockInProgress, Tries(d, Append(o, b)),
         b.id = Len(c) + 1, b.of = Len(c) + 1, b.saved = l, b.exits = p, b.next = {},
         b.kind # "func", b.test # 0 <=> b.kind \in Loops,
         b.test # 0 => b.test \in Len(c) + 1..Len(d) /\ d[b.test].op \in {"branch", "test"}
                       /\ \A i \in Len(c) + 1..Len(d) : d[i].op # "setjmp",
         b.kind = "try" => d[Len(c) + 1].op = "setjmp" /\ d[Len(c) + 1].to = 0,
         \A i \in p : i = Len(c) + 1 \/ i = b.test,
         b.kind \in {"func", "block", "finally", "try"} => p = {}
  PROVE  Emitted(d, Append(o, b), <<>>, {}, FALSE)
<1>1. /\ Typed(c, o, l) /\ Geometry(c, o) /\ Objects(c, o, l, FALSE) /\ Nested(c, o, {})
  BY DEF Emitted
<1>2. /\ c \in Seq(Instruction) /\ d \in Seq(Instruction) /\ o \in Seq(BlockInProgress)
      /\ l \in Seq(Nat)
  BY <1>1 DEF Typed
<1>3. /\ Len(c) \in Nat /\ Len(d) \in Nat /\ DOMAIN c = 1..Len(c) /\ DOMAIN d = 1..Len(d)
      /\ Len(o) \in Nat /\ DOMAIN o = 1..Len(o) /\ Len(l) \in Nat
  BY <1>2
<1> DEFINE h == Len(c) + 1
<1>4. h \in Nat /\ h = Len(c) + 1 /\ h <= Len(d) /\ h \in DOMAIN d /\ b.of = h /\ b.id = h
  BY <1>3
<1>5. b.test \in Nat
  BY DEF BlockInProgress
<1> HIDE DEF h
<1>6. b.of <= b.id /\ b.id <= Len(d)
  BY <1>3, <1>4
<1>7. b.test <= Len(d) /\ (b.test # 0 => b.test >= b.of /\ d[b.test].op \in {"branch", "test"})
  BY <1>3, <1>4, <1>5
<1>8. b.kind = "try" => b.of \in DOMAIN d /\ d[b.of].op = "setjmp" /\ d[b.of].to = 0
  BY <1>4
<1>9. \A k \in DOMAIN o : o[k].id < b.of /\ o[k].test < b.of
  <2>1. \A k \in DOMAIN o : o[k].id \in 0..Len(c) /\ o[k].test \in 0..Len(c)
    BY <1>1, <1>2, BlockTypes
  <2>2. QED BY <1>3, <1>4, <2>1
<1>10. \A i \in p : i >= b.of /\ (i <= b.id \/ i <= b.test)
  <2> SUFFICES ASSUME NEW i \in p PROVE i >= b.of /\ (i <= b.id \/ i <= b.test)
    OBVIOUS
  <2>1. i = h \/ i = b.test
    BY <1>4
  <2>2. i \in 1..Len(d)
    BY <1>3 DEF Pending
  <2>3. QED BY <1>4, <1>5, <1>7, <2>1, <2>2
<1>11. \A y \in 1..Len(l) : l[y] < b.of
  <2> SUFFICES ASSUME NEW y \in 1..Len(l) PROVE l[y] < b.of
    OBVIOUS
  <2>1. Lst(o, l, Len(o)) = l
    BY DEF Lst
  <2>2. l[y] \in DOMAIN c
    BY <1>1, <2>1 DEF Objects, Listed
  <2>3. QED BY <1>3, <1>4, <2>2
<1>12. \A i \in DOMAIN d : d[i].op = "drop" => i \in DOMAIN c /\ c[i].op = "drop" /\ d[i] = c[i]
  BY <1>3
<1>13. \A i \in DOMAIN d : d[i].op = "drop" => d[i].s # b.id
  <2> SUFFICES ASSUME NEW i \in DOMAIN d, d[i].op = "drop" PROVE d[i].s # b.id
    OBVIOUS
  <2>1. i \in DOMAIN c /\ d[i] = c[i]
    BY <1>12
  <2>2. c[i].s < i
    BY <1>1, <2>1 DEF Objects, Inits
  <2>3. c[i] \in Instruction
    BY <1>2, <2>1
  <2>4. c[i].s \in Nat
    BY <2>3 DEF Instruction
  <2>5. QED BY <1>3, <1>4, <2>1, <2>2, <2>4
<1>14. b.test # 0 => \A r \in Lifetimes(d) \cup Bodies(d) : r[2] < b.test
  <2> SUFFICES ASSUME b.test # 0, NEW r \in Lifetimes(d) \cup Bodies(d) PROVE r[2] < b.test
    OBVIOUS
  <2>1. b.test >= h
    BY <1>4, <1>7
  <2>2. r[1] \in 1..Len(d) /\ r[2] \in 0..Len(d)
    BY <1>2, RegionTypes
  <2>3. CASE r[2] = 0
    BY <1>3, <1>4, <1>5, <2>1, <2>3
  <2>4. CASE r[2] # 0 /\ r \in Lifetimes(d)
    <3>1. r[2] \in DOMAIN d /\ d[r[2]].op = "drop"
      BY <2>4 DEF Lifetimes, DropOf
    <3>2. r[2] \in DOMAIN c
      BY <1>12, <3>1
    <3>3. QED BY <1>3, <1>4, <1>5, <2>1, <3>2
  <2>5. CASE r[2] # 0 /\ r \in Bodies(d)
    <3>1. r[1] \in DOMAIN d /\ d[r[1]].op = "setjmp" /\ d[r[1]].to = r[2] + 1
      BY <2>5 DEF Bodies
    <3>2. r[1] \in DOMAIN c /\ d[r[1]] = c[r[1]]
      BY <1>3, <3>1
    <3>3. c[r[1]].to <= Len(c) + 1
      BY <1>1, <3>2 DEF Nested, Targets
    <3>4. QED BY <1>3, <1>4, <1>5, <2>1, <2>2, <3>1, <3>2, <3>3
  <2>6. QED BY <2>3, <2>4, <2>5
<1>15. QED BY <1>6, <1>7, <1>8, <1>9, <1>10, <1>11, <1>13, <1>14, Push

\* A further block leaves the trys open that are.
LEMMA OpenTries ==
  ASSUME NEW c, NEW o \in Seq(BlockInProgress), NEW b \in BlockInProgress, Tries(c, o)
  PROVE  Tries(c, Append(o, b))
<1> DEFINE q == Append(o, b)
<1>1. \A k \in DOMAIN o : k \in DOMAIN q /\ q[k] = o[k]
  OBVIOUS
<1> HIDE DEF q
<1>2. TriesOpen(c, q)
  <2> SUFFICES ASSUME NEW a \in DOMAIN c, c[a].op = "setjmp", c[a].to = 0
               PROVE  \E k \in DOMAIN q : q[k].kind = "try" /\ q[k].of = a
    BY DEF TriesOpen
  <2>1. PICK k \in DOMAIN o : o[k].kind = "try" /\ o[k].of = a
    BY DEF Tries, TriesOpen
  <2>2. QED BY <1>1, <2>1
<1>3. QED BY <1>2 DEF Tries, q

\* Any statement with a block of its own but a try begins.
LEMMA EmitHead ==
  ASSUME NEW c, NEW o, NEW l, Emitted(c, o, l, {}, FALSE), Len(o) \in DOMAIN o,
         NEW d, NEW p, Emitted(d, o, l, p, FALSE),
         Len(c) < Len(d), \A i \in 1..Len(c) : d[i] = c[i],
         \A i \in Len(c) + 1..Len(d) : d[i].op \notin {"init", "drop", "setjmp"},
         NEW kind \in Kinds \ {"func", "try"}, NEW test \in Nat,
         test # 0 <=> kind \in Loops,
         test # 0 => test \in Len(c) + 1..Len(d) /\ d[test].op \in {"branch", "test"},
         \A i \in p : i = Len(c) + 1 \/ i = test,
         kind \in {"block", "finally"} => p = {}
  PROVE  Emitted(d, Append(o, [kind |-> kind, id |-> Len(c) + 1, of |-> Len(c) + 1, saved |-> l,
                               exits |-> p, next |-> {}, test |-> test, arm |-> 0]),
                 <<>>, {}, FALSE)
<1> DEFINE b == [kind |-> kind, id |-> Len(c) + 1, of |-> Len(c) + 1, saved |-> l,
                 exits |-> p, next |-> {}, test |-> test, arm |-> 0]
<1>1. /\ Typed(d, o, l) /\ Geometry(d, o) /\ Pending(d, o, p) /\ Objects(d, o, l, FALSE)
      /\ Nested(d, o, p) /\ Tries(d, o)
  BY DEF Emitted
<1>2. c \in Seq(Instruction) /\ d \in Seq(Instruction) /\ o \in Seq(BlockInProgress) /\ l \in Seq(Nat)
  BY DEF Emitted, Typed
<1>3. Len(c) + 1 \in Nat /\ DOMAIN d \subseteq Nat
  BY <1>2
<1>4. p \in SUBSET Nat
  BY <1>1, <1>3 DEF Pending
<1>5. b \in BlockInProgress
  BY <1>2, <1>3, <1>4 DEF BlockInProgress
<1>6. /\ b.id = Len(c) + 1 /\ b.of = Len(c) + 1 /\ b.saved = l /\ b.exits = p /\ b.next = {}
      /\ b.kind = kind /\ b.test = test
  OBVIOUS
<1> HIDE DEF b
<1>7. Tries(d, Append(o, b))
  BY <1>1, <1>2, <1>5, OpenTries
<1>8. Emitted(d, Append(o, b), <<>>, {}, FALSE)
  <2>1. b.kind # "func" /\ b.kind # "try" /\ (b.test # 0 <=> b.kind \in Loops)
    BY <1>6
  <2>2. b.test # 0 => b.test \in Len(c) + 1..Len(d) /\ d[b.test].op \in {"branch", "test"}
                      /\ \A i \in Len(c) + 1..Len(d) : d[i].op # "setjmp"
    BY <1>6
  <2>3. \A i \in p : i = Len(c) + 1 \/ i = b.test
    BY <1>6
  <2>4. b.kind \in {"func", "block", "finally", "try"} => p = {}
    BY <1>6, <2>1
  <2>5. \A i \in Len(c) + 1..Len(d) : d[i].op \notin {"init", "drop"}
    OBVIOUS
  <2>6. QED BY <1>1, <1>5, <1>6, <1>7, <2>1, <2>2, <2>3, <2>4, <2>5, EmitOpen
<1>9. QED BY <1>8 DEF b

\* A try begins.
LEMMA EmitSetjmp ==
  ASSUME NEW c, NEW o, NEW l, Emitted(c, o, l, {}, FALSE), Len(o) \in DOMAIN o,
         profile.tries <= 1 => \A k \in DOMAIN o : o[k].kind # "try",
         NEW x \in Instruction, x.op = "setjmp", x.v = Len(c) + 1, x.s <= Len(c), x.to = 0
  PROVE  Emitted(Append(c, x),
                 Append(o, [kind |-> "try", id |-> Len(c) + 1, of |-> Len(c) + 1, saved |-> l,
                            exits |-> {}, next |-> {}, test |-> 0, arm |-> 0]),
                 <<>>, {}, FALSE)
<1> DEFINE d == Append(c, x)
           b == [kind |-> "try", id |-> Len(c) + 1, of |-> Len(c) + 1, saved |-> l,
                 exits |-> {}, next |-> {}, test |-> 0, arm |-> 0]
<1>1. /\ c \in Seq(Instruction) /\ o \in Seq(BlockInProgress) /\ l \in Seq(Nat)
      /\ Objects(c, o, l, FALSE) /\ Tries(c, o) /\ Targets(c)
  BY DEF Emitted, Typed, Nested
<1>2. /\ d \in Seq(Instruction) /\ Len(d) = Len(c) + 1 /\ Len(c) \in Nat
      /\ DOMAIN d = 1..Len(c) + 1 /\ DOMAIN c = 1..Len(c)
      /\ d[Len(c) + 1] = x /\ \A i \in 1..Len(c) : d[i] = c[i]
  BY <1>1, AppendFacts
<1>3. {} = IF x.op \in PendOps /\ x.to = 0 THEN {} \cup {Len(c) + 1} ELSE {}
  BY DEF PendOps
<1>4. /\ Typed(d, o, l) /\ Geometry(d, o) /\ Pending(d, o, {}) /\ Targets(d)
      /\ SameObjects(c, d) /\ Objects(d, o, l, FALSE)
  <2>1. x.to <= Len(c) + 1 /\ x.op \notin {"throw", "call"} /\ x.op \notin {"init", "drop"}
    BY <1>2
  <2>2. QED BY <1>3, <2>1, AppendKeeps
<1>5. /\ b \in BlockInProgress /\ b.id = Len(c) + 1 /\ b.of = Len(c) + 1 /\ b.saved = l
      /\ b.exits = {} /\ b.next = {} /\ b.test = 0 /\ b.kind = "try"
  BY <1>1, <1>2 DEF BlockInProgress, Kinds
<1> HIDE DEF d, b
<1>6. Nested(d, o, {})
  <2>1. \A r \in Lifetimes(d) : r \in Lifetimes(c)
    BY <1>1, <1>2, <1>4, LifetimesKeep
  <2>2. \A r \in Bodies(d) : r \in Bodies(c) \/ r[1] = Len(c) + 1
    <3> SUFFICES ASSUME NEW r \in Bodies(d), r[1] # Len(c) + 1 PROVE r \in Bodies(c)
      OBVIOUS
    <3>1. /\ r \in (DOMAIN d) \X (0..Len(d)) /\ d[r[1]].op = "setjmp"
          /\ d[r[1]].to = (IF r[2] = 0 THEN 0 ELSE r[2] + 1)
      BY DEF Bodies
    <3>2. r[1] \in DOMAIN c /\ c[r[1]] = d[r[1]]
      BY <1>2, <3>1
    <3>3. c[r[1]].to <= Len(c) + 1
      BY <1>1, <3>2 DEF Targets
    <3>4. r[2] \in 0..Len(c)
      BY <1>2, <3>1, <3>2, <3>3
    <3>5. QED BY <3>1, <3>2, <3>4 DEF Bodies
  <2>3. x.op # "drop" /\ \A i \in {} : i \in {} \/ i = Len(c) + 1
    OBVIOUS
  <2>4. QED BY <1>4, <2>1, <2>2, <2>3, AppendNested DEF d
<1> DEFINE q == Append(o, b)
<1>7. /\ \A k \in DOMAIN o : k \in DOMAIN q /\ q[k] = o[k]
      /\ Len(o) + 1 \in DOMAIN q /\ q[Len(o) + 1] = b
  BY <1>1, <1>5
<1> HIDE DEF q
<1>8. ThrowsKnown(d)
  <2> SUFFICES ASSUME NEW i \in DOMAIN d, d[i].op \in {"throw", "call"}, d[i].v # 0
               PROVE  /\ d[i].v \in 1..i - 1 /\ d[d[i].v].op = "setjmp"
                      /\ d[d[i].v].to = 0 \/ i < d[d[i].v].to
    BY DEF ThrowsKnown
  <2>1. i \in 1..Len(c)
    BY <1>2
  <2>2. d[i] = c[i]
    BY <1>2, <2>1
  <2>3. /\ c[i].v \in 1..i - 1 /\ c[c[i].v].op = "setjmp"
        /\ c[c[i].v].to = 0 \/ i < c[c[i].v].to
    BY <1>1, <1>2, <2>1, <2>2 DEF Tries, ThrowsKnown
  <2>4. c[i].v \in 1..Len(c)
    BY <1>2, <2>1, <2>3
  <2>5. d[c[i].v] = c[c[i].v]
    BY <1>2, <2>4
  <2>6. QED BY <2>2, <2>3, <2>5
<1>9. TriesFlat(d)
  <2> SUFFICES ASSUME profile.tries <= 1, NEW a \in DOMAIN d, NEW u \in DOMAIN d,
                      d[a].op = "setjmp", d[u].op = "setjmp", a < u
               PROVE  d[a].to # 0 /\ d[a].to <= u
    BY DEF TriesFlat
  <2>1. a \in DOMAIN c /\ d[a] = c[a]
    BY <1>2
  <2>2. CASE u \in DOMAIN c
    <3>1. d[u] = c[u]
      BY <1>2, <2>2
    <3>2. QED BY <1>1, <2>1, <2>2, <3>1 DEF Tries, TriesFlat
  <2>3. CASE u \notin DOMAIN c
    <3>1. u = Len(c) + 1
      BY <1>2, <2>3
    <3>2. c[a].to # 0
      BY <1>1, <2>1 DEF Tries, TriesOpen
    <3>3. c[a].to <= Len(c) + 1
      BY <1>1, <2>1 DEF Targets
    <3>4. QED BY <2>1, <3>1, <3>2, <3>3
  <2>4. QED BY <2>2, <2>3
<1>10. TriesOpen(d, q)
  <2> SUFFICES ASSUME NEW a \in DOMAIN d, d[a].op = "setjmp", d[a].to = 0
               PROVE  \E k \in DOMAIN q : q[k].kind = "try" /\ q[k].of = a
    BY DEF TriesOpen
  <2>1. CASE a \in DOMAIN c
    <3>1. d[a] = c[a]
      BY <1>2, <2>1
    <3>2. PICK k \in DOMAIN o : o[k].kind = "try" /\ o[k].of = a
      BY <1>1, <2>1, <3>1 DEF Tries, TriesOpen
    <3>3. QED BY <1>7, <3>2
  <2>2. CASE a \notin DOMAIN c
    <3>1. a = Len(c) + 1
      BY <1>2, <2>2
    <3>2. QED BY <1>5, <1>7, <3>1
  <2>3. QED BY <2>1, <2>2
<1>11. Tries(d, q)
  BY <1>8, <1>9, <1>10 DEF Tries
<1>12. Emitted(d, q, <<>>, {}, FALSE)
  <2>1. /\ Len(c) < Len(d) /\ \A i \in 1..Len(c) : d[i] = c[i]
        /\ \A i \in Len(c) + 1..Len(d) : d[i].op \notin {"init", "drop"}
    BY <1>2
  <2>2. /\ b.kind # "func" /\ (b.test # 0 <=> b.kind \in Loops) /\ b.test = 0
        /\ d[Len(c) + 1].op = "setjmp" /\ d[Len(c) + 1].to = 0
    BY <1>2, <1>5 DEF Loops
  <2>3. \A i \in {} : i = Len(c) + 1 \/ i = b.test
    OBVIOUS
  <2>4. QED BY <1>4, <1>5, <1>6, <1>11, <2>1, <2>2, <2>3, EmitOpen DEF q
<1>13. QED BY <1>12 DEF d, b, q
=============================================================================
