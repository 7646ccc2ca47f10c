------------------------------ MODULE CBackend ------------------------------
(***************************************************************************)
(* Scope cleanup, loops and exceptions of the C backend                    *)
(* (src/c_transpiler/c_stmt.c, c_error.c and the call part of c_expr.c).   *)
(*                                                                         *)
(* A behaviour has two phases.  In the first the body of one Aether        *)
(* function is chosen statement by statement and each c_emit_ function     *)
(* appends what it writes to the C file; the C text is kept as the flat    *)
(* code a C compiler makes of it, with jumps for braces.  In the second    *)
(* the code runs.  So a run of TLC covers every program a profile allows   *)
(* and every path through it.                                              *)
(***************************************************************************)
EXTENDS Integers, FiniteSets, SequencesExt, TLC

\* "throw" and "call" are those written inside a try body, "throw_outside" and
\* "call_outside" the others; "call_try": the function called has a try itself.
AllFeatures ==
  {"let", "defer", "block", "if", "while", "range", "range_inclusive", "array",
   "break", "continue", "return", "throw", "throw_outside",
   "call", "call_outside", "call_try", "try"}

\* What programs are made of: the statements, whether the function is declared
\* `throws', and bounds on the number of statements, the nesting of blocks, the
\* nesting of try bodies and the catch arms of a try.
Profile == [features : SUBSET AllFeatures, throws : BOOLEAN, stmts : Nat,
            depth : Nat, tries : Nat, arms : Nat]

CONSTANTS
  Profiles,    \* the profiles explored
  RangeEnd     \* the end of the range of a for loop, which starts at 0

ASSUME CBackendAssumption == Profiles \subseteq Profile /\ RangeEnd \in Nat

VARIABLES
  profile,         \* what the program is made of
  phase,           \* "emit" or "run"
  stmts,           \* number of statements emitted
  code,            \* the instructions emitted
  open,            \* the c_emit_block calls in progress, innermost last
  auto_drop_list,  \* cg->auto_drop_list, most recent entry first
  pc,              \* the next instruction, or Returned, Undefined
  jmp_buf,         \* __aether_jmp_buf: who filled it
  live,            \* history: objects constructed and not yet destroyed
  ctr,             \* the __i of each for loop that was entered
  turns,           \* history: the turns begun by each for loop that was entered
  arms,            \* history: catch arms entered since the last longjmp
  owed             \* history: trys entered whose finally block was not

emitVars == <<stmts, code, open, auto_drop_list>>
runVars  == <<pc, jmp_buf, live, ctr, turns, arms, owed>>
vars     == <<profile, phase, emitVars, runVars>>

\* Values of pc besides the instructions: longjmp with a buffer that holds no
\* live frame is undefined behaviour, and nothing more is said of it.
Returned  == 0
Undefined == -1

\* Values of jmp_buf besides the setjmp instructions of this function.
Unset  == 0    \* still the zeroes of the C file's global
Dead   == -1   \* filled by a function that has returned since
Caller == -2   \* filled by a try of a function up the stack

Loops == {"while", "range", "range_inclusive", "array"}

\* An instruction: what it does, the object, loop or try it is about, the block
\* it was emitted in, and where it jumps to.
Instr(op, v, s, to) == [op |-> op, v |-> v, s |-> s, to |-> to]

Here == Len(code) + 1

Innermost == Last(open)
Block     == Innermost.id

\* The innermost block of one of the kinds, as an index of open; 0 if none.
InnermostOf(kinds) == SelectLastInSeq(open, LAMBDA b : b.kind \in kinds)

InnermostTry ==
  IF InnermostOf({"try"}) = 0 THEN 0 ELSE open[InnermostOf({"try"})].of

Init ==
  /\ profile \in Profiles
  /\ phase = "emit" /\ stmts = 0 /\ code = <<>>
  /\ open = <<[kind |-> "func", id |-> 0, of |-> 0, saved |-> <<>>,
               exits |-> {}, next |-> {}, test |-> 0, arm |-> 0]>>
  /\ auto_drop_list = <<>>
  /\ pc = 1 /\ jmp_buf \in {Unset, Caller} /\ live = {} /\ ctr = <<>>
  /\ turns = <<>> /\ arms = 0 /\ owed = {}

----------------------------------------------------------------------------
(* Emission: what the statements of the source become.                     *)

Statement(feature) ==
  /\ phase = "emit" /\ feature \in profile.features /\ stmts < profile.stmts
  /\ stmts' = stmts + 1
  /\ UNCHANGED <<phase, runVars>>

\* Mutant: the block goes on with the list of the block around it.
OpenBlock_SharesList(blk) ==
  /\ Len(open) <= profile.depth
  /\ open' = Append(open, blk)
  /\ UNCHANGED auto_drop_list

\* c_emit_block: a block starts with an empty auto_drop_list of its own.
OpenBlock(blk) ==
  /\ Len(open) <= profile.depth
  /\ open' = Append(open, blk)
  /\ auto_drop_list' = <<>>

\* The first block of the statement emitted Here.  Its later blocks (else, catch,
\* finally) get ids of their own and the same `of'.  exits are the jumps to behind the
\* statement, next the jumps of `continue', test the test of a loop.
NewBlock(kind, exits, test) ==
  [kind |-> kind, id |-> Here, of |-> Here, saved |-> auto_drop_list,
   exits |-> exits, next |-> {}, test |-> test, arm |-> 0]

\* c_emit_let of a class, owned or rc variable.
c_emit_let ==
  /\ Statement("let")
  /\ code' = Append(code, Instr("init", Here, Block, 0))
  /\ auto_drop_list' = <<Here>> \o auto_drop_list
  /\ UNCHANGED open

\* The deferred block is written where the defer statement stands.
c_emit_defer ==
  /\ Statement("defer")
  /\ code' = Append(code, Instr("defer", Here, Block, 0))
  /\ OpenBlock(NewBlock("block", {}, 0))

\* A block, unsafe or region statement.
c_emit_plain_block ==
  /\ Statement("block")
  /\ code' = Append(code, Instr("nop", 0, Block, 0))
  /\ OpenBlock(NewBlock("block", {}, 0))

\* if, and match, which is written as an if/else chain.
c_emit_if ==
  /\ Statement("if")
  /\ code' = Append(code, Instr("branch", 0, Block, 0))
  /\ OpenBlock(NewBlock("if", {Here}, 0))

c_emit_while ==
  /\ Statement("while")
  /\ code' = Append(code, Instr("branch", 0, Block, 0))
  /\ OpenBlock(NewBlock("while", {Here}, Here))

\* Both kinds of range become while (__i < __range_end), an array a C for loop.
c_emit_for ==
  \E kind \in {"range", "range_inclusive", "array"} :
    /\ Statement(kind)
    /\ code' = code \o <<Instr(kind, Here, Block, 0), Instr("test", Here, Block, 0)>>
    /\ OpenBlock(NewBlock(kind, {Here + 1}, Here + 1))

\* `break' and `continue' jump without cleaning up.  In a C for loop continue
\* goes to the increment, in a while loop to the test.
c_emit_break ==
  LET loop == InnermostOf(Loops) IN
  /\ loop # 0 /\ Statement("break")
  /\ code' = Append(code, Instr("goto", 0, Block, 0))
  /\ open' = [open EXCEPT ![loop].exits = @ \cup {Here}]
  /\ UNCHANGED auto_drop_list

c_emit_continue ==
  LET loop == InnermostOf(Loops) IN
  /\ loop # 0 /\ Statement("continue")
  /\ code' = Append(code, Instr("goto", 0, Block, open[loop].test))
  /\ open' = IF open[loop].kind = "array"
             THEN [open EXCEPT ![loop].next = @ \cup {Here}]
             ELSE open
  /\ UNCHANGED auto_drop_list

c_emit_return ==
  /\ Statement("return")
  /\ code' = Append(code, Instr("return", 0, Block, 0))
  /\ UNCHANGED <<open, auto_drop_list>>

\* In a throws function the error struct is returned, elsewhere longjmp.
c_emit_throw ==
  /\ Statement(IF InnermostTry = 0 THEN "throw_outside" ELSE "throw")
  /\ code' = Append(code, Instr(IF profile.throws THEN "throw_return" ELSE "throw",
                                InnermostTry, Block, 0))
  /\ UNCHANGED <<open, auto_drop_list>>

\* A call of a throws function, followed by the test of its error flag.
c_emit_call ==
  /\ Statement(IF InnermostTry = 0 THEN "call_outside" ELSE "call")
  /\ code' = Append(code, Instr("call", InnermostTry, Block, 0))
  /\ UNCHANGED <<open, auto_drop_list>>

c_emit_try ==
  /\ Cardinality({k \in DOMAIN open : open[k].kind = "try"}) < profile.tries
  /\ Statement("try")
  /\ code' = Append(code, Instr("setjmp", Here, Block, 0))
  /\ OpenBlock(NewBlock("try", {}, 0))

----------------------------------------------------------------------------
(* Emission: the end of a block, and what its statement adds behind it.    *)

\* The list is reversed before its drops are written: oldest first.
Drops ==
  [i \in DOMAIN auto_drop_list |-> Instr("drop", Reverse(auto_drop_list)[i], Block, 0)]

Body == code \o Drops

\* The jumps of the set `from' are made to lead to instruction `to'.
Patch(c, from, to) ==
  [i \in DOMAIN c |-> IF i \in from THEN [c[i] EXCEPT !.to = to] ELSE c[i]]

\* Mutant: the list of the enclosing block is not put back.
CloseBlock_LosesSaved(c, exits) ==
  /\ code' = Patch(c, exits, Len(c) + 1)
  /\ open' = Front(open)
  /\ auto_drop_list' = <<>>

\* The statement of the block is complete: the jumps out of it lead behind c, and
\* the enclosing block goes on with its own auto_drop_list.
CloseBlock(c, exits) ==
  /\ code' = Patch(c, exits, Len(c) + 1)
  /\ open' = Front(open)
  /\ auto_drop_list' = Innermost.saved

\* The statement goes on with another block, written behind c.
NextBlock(c, kind, exits, arm) ==
  /\ code' = c
  /\ open' = Append(Front(open), [Innermost EXCEPT !.kind = kind, !.id = Len(c),
                                                   !.exits = exits, !.arm = arm])
  /\ auto_drop_list' = <<>>

EndOf(kinds) ==
  /\ phase = "emit" /\ Innermost.kind \in kinds
  /\ UNCHANGED <<phase, stmts, runVars>>

EndBlock ==
  EndOf({"block", "if", "else", "finally"}) /\ CloseBlock(Body, Innermost.exits)

\* else, elif and the second arm of a match.
EndIfElse ==
  LET c == Append(Body, Instr("goto", 0, Block, 0)) IN
  /\ EndOf({"if"})
  /\ NextBlock(Patch(c, Innermost.exits, Len(c) + 1), "else", {Len(c)}, 0)

EndWhile ==
  /\ EndOf({"while"})
  /\ CloseBlock(Append(Body, Instr("goto", 0, Block, Innermost.test)), Innermost.exits)

EndFor ==
  LET again == <<Instr("inc", Innermost.of, Block, 0), Instr("goto", 0, Block, Innermost.test)>> IN
  /\ EndOf({"range", "range_inclusive", "array"})
  /\ CloseBlock(Patch(Body, Innermost.next, Len(Body) + 1) \o again, Innermost.exits)

\* The catch arms are written one behind the other, without a test.
CatchArm(c, exits) ==
  /\ Innermost.arm < profile.arms
  /\ NextBlock(Append(c, Instr("arm", Innermost.of, Block, 0)), "arm", exits, Innermost.arm + 1)

\* Mutant: the end of the try body leads behind the finally block.
Finally_Skipped(c, exits) ==
  NextBlock(Append(c, Instr("finally", Innermost.of, Block, 0)), "finally", exits, 0)

\* The finally block is where the end of the try body and the last arm lead.
Finally(c, exits) ==
  NextBlock(Append(Patch(c, exits, Len(c) + 1), Instr("finally", Innermost.of, Block, 0)),
            "finally", {}, 0)

\* Behind the try body or an arm: another arm, the finally block, or the end.
AfterTry(c, exits) ==
  \/ CatchArm(c, exits)
  \/ Finally(c, exits)
  \/ CloseBlock(c, exits)

\* The else of the setjmp test starts behind the try body.
EndTry ==
  LET c == Append(Body, Instr("goto", 0, Block, 0)) IN
  /\ EndOf({"try"})
  /\ AfterTry(Patch(c, {Innermost.of}, Len(c) + 1), {Len(c)})

EndArm == EndOf({"arm"}) /\ AfterTry(Body, Innermost.exits)

\* The body of the function is complete; the compiled program calls it.
EndFunction ==
  /\ phase = "emit" /\ Innermost.kind = "func"
  /\ phase' = "run"
  /\ code' = Append(Body, Instr("return", 0, 0, 0))
  /\ auto_drop_list' = Innermost.saved
  /\ UNCHANGED <<stmts, open, runVars>>

Emit ==
  \/ c_emit_let \/ c_emit_defer \/ c_emit_plain_block \/ c_emit_if \/ c_emit_while
  \/ c_emit_for \/ c_emit_break \/ c_emit_continue \/ c_emit_return
  \/ c_emit_throw \/ c_emit_call \/ c_emit_try
  \/ EndBlock \/ EndIfElse \/ EndWhile \/ EndFor \/ EndTry \/ EndArm \/ EndFunction

----------------------------------------------------------------------------
(* The compiled program.                                                   *)

At(ops) == phase = "run" /\ pc > 0 /\ code[pc].op \in ops

\* An instruction that goes on with the next one.
Straight(op) ==
  /\ At({op})
  /\ pc' = pc + 1
  /\ UNCHANGED <<phase, emitVars>>

RunNop ==
  /\ At({"nop", "defer", "finally"})
  /\ pc' = pc + 1
  /\ owed' = IF code[pc].op = "finally" THEN owed \ {code[pc].v} ELSE owed
  /\ UNCHANGED <<phase, emitVars, jmp_buf, live, ctr, turns, arms>>

RunInit ==
  Straight("init") /\ live' = live \cup {code[pc].v} /\ UNCHANGED <<jmp_buf, ctr, turns, arms, owed>>

RunDrop ==
  Straight("drop") /\ live' = live \ {code[pc].v} /\ UNCHANGED <<jmp_buf, ctr, turns, arms, owed>>

\* The condition of an if or while may have either value.
RunBranch ==
  /\ At({"branch"})
  /\ pc' \in {pc + 1, code[pc].to}
  /\ UNCHANGED <<phase, emitVars, jmp_buf, live, ctr, turns, arms, owed>>

RunGoto ==
  /\ At({"goto"})
  /\ pc' = code[pc].to
  /\ UNCHANGED <<phase, emitVars, jmp_buf, live, ctr, turns, arms, owed>>

RunFor ==
  LET reset(f) == [h \in DOMAIN f \cup {pc} |-> IF h = pc THEN 0 ELSE f[h]] IN
  /\ At({"range", "range_inclusive", "array"})
  /\ pc' = pc + 1
  /\ ctr' = reset(ctr) /\ turns' = reset(turns)
  /\ UNCHANGED <<phase, emitVars, jmp_buf, live, arms, owed>>

\* A count beyond the end of its range is as good as one just beyond it.
MaxCtr == RangeEnd + 1

CountUp(f, h) == [f EXCEPT ![h] = IF @ < MaxCtr THEN @ + 1 ELSE @]

\* Mutant: the test of a loop over a range lets its end through.
RunTest_Inclusive ==
  LET h == code[pc].v IN
  /\ At({"test"})
  /\ IF ctr[h] <= RangeEnd THEN pc' = pc + 1 /\ turns' = CountUp(turns, h)
                           ELSE pc' = code[pc].to /\ UNCHANGED turns
  /\ UNCHANGED <<phase, emitVars, jmp_buf, live, ctr, arms, owed>>

RunTest ==
  LET h == code[pc].v IN
  /\ At({"test"})
  /\ IF ctr[h] < RangeEnd THEN pc' = pc + 1 /\ turns' = CountUp(turns, h)
                          ELSE pc' = code[pc].to /\ UNCHANGED turns
  /\ UNCHANGED <<phase, emitVars, jmp_buf, live, ctr, arms, owed>>

RunIncrement ==
  Straight("inc") /\ ctr' = CountUp(ctr, code[pc].v) /\ UNCHANGED <<jmp_buf, live, turns, arms, owed>>

\* A longjmp to the buffer: to the else of the try of this function that filled
\* it, out to a function up the stack, or undefined.
longjmp(buf) ==
  /\ pc' = CASE buf > 0 -> code[buf].to
             [] buf = Caller -> Returned
             [] OTHER -> Undefined
  /\ arms' = 0

RunThrow ==
  /\ At({"throw"}) /\ longjmp(jmp_buf)
  /\ UNCHANGED <<phase, emitVars, jmp_buf, live, ctr, turns, owed>>

RunReturn ==
  /\ At({"return", "throw_return"})
  /\ pc' = Returned
  /\ UNCHANGED <<phase, emitVars, jmp_buf, live, ctr, turns, arms, owed>>

\* The callee returns a value or an error; a try of its own has filled the buffer.
RunCall ==
  /\ At({"call"})
  /\ jmp_buf' \in {jmp_buf} \cup (IF "call_try" \in profile.features THEN {Dead} ELSE {})
  /\ \/ pc' = pc + 1 /\ UNCHANGED arms
     \/ longjmp(jmp_buf')
  /\ UNCHANGED <<phase, emitVars, live, ctr, turns, owed>>

HasFinally(t) == \E i \in DOMAIN code : code[i].op = "finally" /\ code[i].v = t

\* Mutant: only the first try of a program fills the buffer.
RunSetjmp_Once ==
  /\ Straight("setjmp")
  /\ jmp_buf' = IF jmp_buf > 0 THEN jmp_buf ELSE pc
  /\ owed' = IF HasFinally(pc) THEN owed \cup {pc} ELSE owed
  /\ UNCHANGED <<live, ctr, turns, arms>>

RunSetjmp ==
  /\ Straight("setjmp")
  /\ jmp_buf' = pc
  /\ owed' = IF HasFinally(pc) THEN owed \cup {pc} ELSE owed
  /\ UNCHANGED <<live, ctr, turns, arms>>

RunArm == Straight("arm") /\ arms' = arms + 1 /\ UNCHANGED <<jmp_buf, live, ctr, turns, owed>>

Run ==
  \/ RunNop \/ RunInit \/ RunDrop \/ RunBranch \/ RunGoto \/ RunFor \/ RunTest
  \/ RunIncrement \/ RunThrow \/ RunReturn \/ RunCall \/ RunSetjmp \/ RunArm

Next == (Emit \/ Run) /\ UNCHANGED profile

Spec == Init /\ [][Next]_vars

----------------------------------------------------------------------------
(* Properties.                                                             *)

\* At most one try is active, and every error is raised while it is.
FlatErrors ==
  /\ profile.tries <= 1 /\ ~profile.throws
  /\ {"call_try", "throw_outside", "call_outside"} \cap profile.features = {}

\* Statements that leave a block before its end.
EarlyExits == {"break", "continue", "return", "throw", "throw_outside", "call",
               "call_outside"}

\* c_emit_let and c_emit_block agree: no object is destroyed twice or before it is
\* constructed, on any path, jumps and caught errors included; without early exits none is
\* constructed again while it is alive.  (An error raised behind a try jumps back to its
\* arms, and what they lead to destroys objects a second time: hence the condition.)
DropsMatchInits ==
  FlatErrors \/ "try" \notin profile.features =>
    /\ At({"drop"}) => code[pc].v \in live
    /\ At({"init"}) /\ profile.features \cap EarlyExits = {} => code[pc].v \notin live

\* The comment at c_stmt.c:447 `Reverse the list to get LIFO order (most recently declared
\* first)' and SPECIFICATION.md:590: what is destroyed is the youngest object of its block.
\* The list has its most recent entry first already, and reversed it is oldest first.
DropsLIFO ==
  At({"drop"}) => \A w \in live : code[w].s = code[code[pc].v].s => w <= code[pc].v

\* A program without early exits leaves nothing behind: c_emit_block saves and restores
\* auto_drop_list so that each drop is written once, in the block of its let.
CleanWithoutEarlyExit == profile.features \cap EarlyExits = {} => (pc = Returned => live = {})

\* SPECIFICATION.md:1134 `emits cleanup at scope exit': no object is alive when the function
\* returns.  Only the end of a block has drops, a `return' within it has none.
CleanAtReturn == At({"return"}) => live = {}

\* An error raised inside a try body is handled by the catch arms of that try:
\* throw and the error test of a call jump to the buffer it filled, and never
\* leave the function.
CaughtByInnermost ==
  /\ At({"throw", "call"}) /\ code[pc].v # 0 => jmp_buf = code[pc].v
  /\ At({"throw_return"}) => code[pc].v = 0

\* So it is as long as no try body holds another try, none of the functions called
\* has one, and the function is not declared throws: in loops, in branches and
\* behind earlier trys too.
CaughtWhenFlat == FlatErrors => CaughtByInnermost

\* SPECIFICATION.md:1685 `Nested Try/Catch': an error raised in the outer body behind an inner
\* try reaches the outer arms.  The inner try has filled the one buffer, and nobody puts the
\* outer try back.
CaughtWhenNested ==
  /\ ~profile.throws /\ {"call_try", "throw_outside", "call_outside"} \cap profile.features = {}
  => CaughtByInnermost

\* SPECIFICATION.md:1623-1626 `[for each catch arm: ... if match: ... execute handler, if no
\* match: check next arm]': an error is handled by one arm.  The arms are blocks one behind the
\* other, and every one of them is executed.
OneArm == At({"arm"}) => arms = 0

\* A loop over a range with a `continue': besides the jump behind the increment another one
\* leads to its test.
MayRepeat(h) ==
  code[h].op # "array" /\ \E i, j \in DOMAIN code : i # j /\ code[i].to = h + 1 /\ code[j].to = h + 1

\* The turn a loop begins is the next one, no turn is repeated or passed over, and a loop
\* over a..b or an array that ends at its test has made them all and no turn too many:
\* also with break, with continue in a loop over an array, and with caught errors.
RangeTurns ==
  [][ LET h == code[pc].v IN
      At({"test"}) /\ FlatErrors /\ ~MayRepeat(h) =>
        /\ ctr[h] = turns[h]
        /\ pc' # pc + 1 /\ code[h].op # "range_inclusive" => turns[h] = RangeEnd ]_vars

\* SPECIFICATION.md:1031 `continue skips to the next iteration of the innermost loop': the
\* turn begun behind a `continue' is the next one.  Over a range it is the same one again.
ContinueGoesOn ==
  At({"test"}) /\ FlatErrors => ctr[code[pc].v] = turns[code[pc].v]

\* SPECIFICATION.md:213 `a..=b creates an inclusive range [a..b]': a loop over it makes one
\* turn more than one over a..b.  c_emit_for writes the same test for both.
InclusiveTurns ==
  profile.features \cap EarlyExits = {} /\ pc = Returned =>
    \A h \in DOMAIN turns : code[h].op = "range_inclusive" => turns[h] = RangeEnd + 1

\* A finally block is not skipped, with or without an error and whatever the catch
\* arms do: when the function has returned, the finally block of every try that was
\* entered has been too, unless a jump out of the try or the function avoids it.
FinallyRuns ==
  /\ FlatErrors /\ {"return", "break", "continue"} \cap profile.features = {}
  /\ pc = Returned
  => owed = {}

=============================================================================
