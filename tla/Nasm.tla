-------------------------------- MODULE Nasm --------------------------------
(***************************************************************************)
(* The machine that runs what module Codegen generates, together with the  *)
(* fault handler of src/segfault_helper.c.  A frame holds the words between *)
(* rbp and rsp, slot 1 first; words and registers are W bits wide.          *)
(* Addresses of words on the stack are numbers above the range of a value:  *)
(* every number below is an address that is not mapped.                     *)
(***************************************************************************)
EXTENDS Codegen

CONSTANTS
  Programs,   \* a sequence of programs, each a sequence of functions
  Targets,    \* subset of {"macho64", "elf64-host", "elf64-host-abi", "elf64"}
  W,          \* a word holds 0 .. 2^W - 1
  MaxWords,   \* the words of a frame the machine has room for
  MaxTrace    \* the events that are recorded

\* "elf64-host-abi" is elf64-host with the helper object compiled so that its
\* functions use the registers a callee may use.
Host(t) == t \in {"macho64", "elf64-host", "elf64-host-abi"}

ASSUME NasmAssumption == W \in Nat \ {0} /\ MaxWords \in Nat \ {0} /\ MaxTrace \in Nat

VARIABLES
  prog,     \* the program that is run
  target,
  code,     \* the code generated for it, function by function
  frames,   \* the call stack: function, next instruction, words
  regs,
  trace,    \* what was printed and what was dropped
  jmp,      \* gActiveJmpBuf and what aether_setJmpBuf saved in it
  status    \* running, or how the process ended

vars == <<prog, target, code, frames, regs, trace, jmp, status>>

Registers == {"rax", "rcx", "rdx", "rdi", "rsi", "r8", "r9", "r15"}

\* What is read from memory or a register nothing was written to.
Junk == 0 - 1

NamedFunction(p, f) == {k \in DOMAIN Programs[p] : Programs[p][k].name = f}

----------------------------------------------------------------------------
(* Words and memory.                                                       *)

Size == 2 ^ W

Signed(v) == IF v >= Size \div 2 /\ v < Size THEN v - Size ELSE v

Truth(b) == IF b THEN 1 ELSE 0

\* What an instruction makes of rax and rcx.
Alu(op, a, c) ==
  CASE op \in {"+", "+="} -> (a + c) % Size
    [] op \in {"-", "-="} -> (a - c) % Size
    [] op \in {"*", "*="} -> (a * c) % Size
    [] op \in {"/", "/="} -> a \div c
    [] op = "%"           -> a % c
    [] op = "=="          -> Truth(a = c)
    [] op = "<"           -> Truth(Signed(a) < Signed(c))
    [] op = "&&"          -> Truth(a # 0 /\ c # 0)
    [] op = "||"          -> Truth(a # 0 \/ c # 0)

\* mul leaves its upper half in rdx and div its remainder.
AluRdx(op, a, c, rdx) ==
  CASE op \in {"*", "*="}      -> (a * c) \div Size
    [] op \in {"/", "/=", "%"} -> a % c
    [] OTHER                   -> rdx

Alu1(op, a) ==
  CASE op = "-"  -> (0 - a) % Size
    [] op = "!"  -> Truth(a = 0)
    [] op = "++" -> (a + 1) % Size
    [] op = "--" -> (a - 1) % Size

FrameRoom == MaxWords + 1

Address(frame, word) == Size + frame * FrameRoom + word

FrameOf(a) == (a - Size) \div FrameRoom

WordOf(a) == (a - Size) % FrameRoom

\* Going up by n words is going back n pushes.
Mapped(a, n) == a >= Size /\ FrameOf(a) <= Len(frames) /\ WordOf(a) - n \in DOMAIN frames[FrameOf(a)].stack

Word(a, n) == frames[FrameOf(a)].stack[WordOf(a) - n]

----------------------------------------------------------------------------
(* Execution.                                                              *)

Top == frames[Len(frames)]

Inst == code[Top.fn][Top.i]

Op == Inst[1]

Stack == Top.stack

Rsp == Address(Len(frames), Len(Stack))

LabelAt(l) == CHOOSE k \in DOMAIN code[Top.fn] : code[Top.fn][k] = <<"label", l>>

Init ==
  /\ prog \in DOMAIN Programs
  /\ target \in Targets
  /\ code = codegen_functions(Programs[prog], Host(target), <<>>, 0)
  /\ frames = <<[fn |-> Len(Programs[prog]), i |-> 1, stack |-> <<>>]>>
  /\ regs = [r \in Registers |-> Junk]
  /\ trace = <<>>
  /\ jmp = [active |-> FALSE]
  /\ status = "running"

\* aether_setJmpBuf has returned: its own frame, which lies right above the
\* words in use when it was called, is overwritten by whatever is pushed next.
Overwrites(depth) == jmp.active /\ Len(frames) = jmp.frame /\ depth > jmp.depth

\* The next instruction is i, the words of the frame are st, the registers rg.
Continue(i, st, rg) ==
  /\ Len(st) <= MaxWords
  /\ frames' = [frames EXCEPT ![Len(frames)].i = i, ![Len(frames)].stack = st]
  /\ regs' = rg
  /\ jmp' = IF Overwrites(Len(st)) THEN [jmp EXCEPT !.intact = FALSE] ELSE jmp
  /\ UNCHANGED <<prog, target, code, status>>

Set(r, v) == /\ Continue(Top.i + 1, Stack, [regs EXCEPT ![r] = v])
             /\ UNCHANGED trace

Words(st) == /\ Continue(Top.i + 1, st, regs)
             /\ UNCHANGED trace

Jump(taken, l) == /\ Continue(IF taken THEN LabelAt(l) ELSE Top.i + 1, Stack, regs)
                  /\ UNCHANGED trace

Stop(how) == /\ status' = how
             /\ UNCHANGED <<prog, target, code, frames, regs, trace, jmp>>

Junks(n) == [k \in 1..n |-> Junk]

Drop(n) == SubSeq(Stack, 1, Len(Stack) - n)

\* A variable without a slot may lie outside the words in use.
Stored(off, v) == IF off \in DOMAIN Stack THEN [Stack EXCEPT ![off] = v] ELSE Stack

Running == status = "running"

Comment == Running /\ Op \in {"label", "mark"} /\ Words(Stack)

Move ==
  /\ Running
  /\ \/ Op = "imm" /\ Set(Inst[2], Inst[3])
     \/ Op = "mov" /\ Set(Inst[2], regs[Inst[3]])
     \/ Op = "load" /\ Set("rax", IF Inst[2] \in DOMAIN Stack THEN Stack[Inst[2]] ELSE Junk)
     \/ Op = "store" /\ Words(Stored(Inst[2], regs[Inst[3]]))
     \/ Op = "zero" /\ Words(Stored(Inst[2], 0))

PushPop ==
  /\ Running
  /\ \/ Op = "push" /\ Words(Append(Stack, regs[Inst[2]]))
     \/ Op = "pop" /\ Continue(Top.i + 1, Drop(1), [regs EXCEPT ![Inst[2]] = Last(Stack)]) /\ UNCHANGED trace
     \/ Op = "peek" /\ Set("rax", Last(Stack))
     \/ Op = "sub rsp" /\ Words(Stack \o Junks(Inst[2]))
     \/ Op = "add rsp" /\ Words(Drop(Inst[2]))

\* The generated code divides without looking at the divisor.
DivideByZero == Op = "alu" /\ Inst[2] \in {"/", "/=", "%"} /\ regs["rcx"] = 0

Compute ==
  /\ Running
  /\ ~DivideByZero
  /\ \/ /\ Op = "alu"
        /\ LET a == regs["rax"]
               c == regs["rcx"]
           IN Continue(Top.i + 1, Stack,
                       [regs EXCEPT !["rax"] = Alu(Inst[2], a, c), !["rdx"] = AluRdx(Inst[2], a, c, @)])
        /\ UNCHANGED trace
     \/ Op = "alu1" /\ Set("rax", Alu1(Inst[2], regs["rax"]))
     \/ Op = "inc" /\ Set("rcx", (regs["rcx"] + 1) % Size)

Branch ==
  /\ Running
  /\ \/ Op = "jmp" /\ Jump(TRUE, Inst[2])
     \/ Op = "jz" /\ Jump(regs["rax"] = 0, Inst[2])
     \/ Op = "jnz" /\ Jump(regs["rax"] # 0, Inst[2])
     \/ Op = "jz tag" /\ Jump(regs["rcx"] % 256 = 0, Inst[2])
     \/ Op = "jl rcx" /\ Jump(Signed(regs["rax"]) < Signed(regs["rcx"]), Inst[2])
     \/ Op = "jge rcx" /\ Jump(Signed(regs["rax"]) >= Signed(regs["rcx"]), Inst[2])
     \/ Op = "jg rcx" /\ Jump(Signed(regs["rax"]) > Signed(regs["rcx"]), Inst[2])
     \/ Op = "jnz rdx" /\ Jump(regs["rdx"] # 0, Inst[2])
     \/ Op = "je" /\ Jump(regs["rax"] = Inst[2], Inst[3])
     \/ Op = "jne" /\ Jump(regs["rax"] # Inst[2], Inst[3])
     \/ Op = "jge" /\ Jump(Signed(regs["rcx"]) >= Signed(regs["rax"]), Inst[2])
     \/ Op = "jge top" /\ Jump(Signed(regs["rcx"]) >= Signed(Last(Stack)), Inst[2])

\* The array a loop goes through waits below its length.
ArrayAt == Stack[Len(Stack) - 1]

\* An array literal lies on the stack: its length, then its elements.
Arrays ==
  /\ Running
  /\ \/ Op = "count" /\ Words([Stack EXCEPT ![Len(Stack)] = Inst[2]])
     \/ Op = "elem" /\ Words([Stack EXCEPT ![Len(Stack) - Inst[2]] = regs["rax"]])
     \/ Op = "array" /\ Set("rax", Rsp)
     \/ Op = "length" /\ Mapped(regs["rax"], 0) /\ Set("rcx", Word(regs["rax"], 0))
     \/ Op = "element" /\ Mapped(ArrayAt, 1 + regs["rcx"]) /\ Set("rax", Word(ArrayAt, 1 + regs["rcx"]))
     \/ Op = "deref" /\ Mapped(regs["rax"], 0) /\ Set("rax", Word(regs["rax"], 0))
     \/ Op = "index" /\ Mapped(regs["rax"], regs["rcx"]) /\ Set("rax", Word(regs["rax"], regs["rcx"]))

\* A callee may be overwriting what aether_setJmpBuf left below the stack.
Call ==
  /\ Running
  /\ Op = "call"
  /\ \E k \in NamedFunction(prog, Inst[2]) :
       frames' = Append([frames EXCEPT ![Len(frames)].i = @ + 1], [fn |-> k, i |-> 1, stack |-> <<>>])
  /\ jmp' = IF jmp.active THEN [jmp EXCEPT !.intact = FALSE] ELSE jmp
  /\ UNCHANGED <<prog, target, code, regs, trace, status>>

\* A function outside the program, or the system call of print: the registers a
\* callee may use are lost.
Outside(event) ==
  /\ frames' = [frames EXCEPT ![Len(frames)].i = @ + 1]
  /\ trace' = IF Len(trace) < MaxTrace THEN Append(trace, event) ELSE trace
  /\ \E rdx \in {0, 1} : regs' = [regs EXCEPT !["rax"] = 0, !["rcx"] = Junk, !["rdx"] = rdx]
  /\ jmp' = IF jmp.active /\ Op # "print" THEN [jmp EXCEPT !.intact = FALSE] ELSE jmp
  /\ UNCHANGED <<prog, target, code, status>>

External ==
  /\ Running
  /\ \/ Op = "print" /\ Outside(<<"print", Inst[2]>>)
     \/ Op = "call" /\ NamedFunction(prog, Inst[2]) = {} /\ Outside(<<Inst[2], regs["rdi"]>>)
     \/ Op = "drop" /\ Outside(<<"drop", Inst[3]>>)

Ret ==
  /\ Running
  /\ Op = "ret"
  /\ IF Len(frames) = 1 THEN status' = "returned" /\ UNCHANGED frames
     ELSE frames' = Front(frames) /\ UNCHANGED status
  /\ UNCHANGED <<prog, target, code, regs, trace, jmp>>

\* rsp taken from a callee's frame lies beyond the words of this one.
Region ==
  /\ Running
  /\ \/ Op = "save rsp" /\ Set("r15", Rsp)
     \/ /\ Op = "restore rsp"
        /\ LET n == WordOf(regs["r15"])
               d == n - Len(Stack)
           IN Words(CASE FrameOf(regs["r15"]) # Len(frames) -> Stack \o Junks(2)
                      [] d > 0 -> Stack \o Junks(d)
                      [] OTHER -> SubSeq(Stack, 1, n))

\* A failed condition ends the process with the system call of macOS; another
\* system refuses that number and the function goes on.
Check ==
  /\ Running
  /\ Op = "check"
  /\ IF regs["rax"] = 0 /\ target = "macho64" THEN Stop("failed")
     ELSE IF regs["rax"] = 0
          THEN Continue(Top.i + 1, Stack, [regs EXCEPT !["rax"] = Junk, !["rcx"] = Junk, !["rdi"] = 1])
                 /\ UNCHANGED trace
          ELSE Words(Stack)

----------------------------------------------------------------------------
(* src/segfault_helper.c                                                   *)

\* gActiveJmpBuf points to the one buffer of the program, which now holds the
\* state inside aether_setJmpBuf.
aether_setJmpBuf ==
  /\ Running
  /\ Op = "setJmpBuf"
  /\ jmp' = [active |-> TRUE, frame |-> Len(frames), fn |-> Top.fn, i |-> Top.i + 1,
             depth |-> Len(Stack), intact |-> TRUE]
  /\ frames' = [frames EXCEPT ![Len(frames)].i = @ + 1]
  /\ regs' = [regs EXCEPT !["rax"] = 0, !["rdx"] = Junk, !["rcx"] = Junk, !["rdi"] = Junk]
  /\ UNCHANGED <<prog, target, code, trace, status>>

\* The function stores a null pointer.  Compiled as the Makefile says, without
\* optimisation, that is one store of a constant; the generated code, which
\* tests rdx and saves rax behind the call, relies on it.
aether_clearJmpBuf ==
  /\ Running
  /\ Op = "clearJmpBuf"
  /\ jmp' = [active |-> FALSE]
  /\ frames' = [frames EXCEPT ![Len(frames)].i = @ + 1]
  /\ IF target = "elf64-host-abi"
     THEN \E rdx \in {0, Junk} :
            regs' = [regs EXCEPT !["rax"] = Junk, !["rcx"] = Junk, !["rdx"] = rdx, !["rdi"] = Junk]
     ELSE UNCHANGED regs
  /\ UNCHANGED <<prog, target, code, trace, status>>

Faults ==
  \/ Op \in {"deref", "length"} /\ ~Mapped(regs["rax"], 0)
  \/ Op = "index" /\ ~Mapped(regs["rax"], regs["rcx"])
  \/ Op = "element" /\ ~Mapped(ArrayAt, 1 + regs["rcx"])

\* Mutant: the buffer stays active once it was used.
AfterJump_Active == jmp

\* aether_setJmpBuf returns for the second time.
AfterJump == [active |-> FALSE]

\* siglongjmp into aether_setJmpBuf, which returns 1 once more, or the end of
\* the process.  Where the frame of aether_setJmpBuf is no longer what it was
\* the outcome is undefined.  Without a host nothing catches the fault.
segfaultHandler ==
  /\ Running
  /\ Faults
  /\ IF ~jmp.active THEN Stop("fault")
     ELSE IF ~(jmp.intact /\ jmp.frame = Len(frames)) THEN Stop("undefined")
     ELSE /\ frames' = [frames EXCEPT ![jmp.frame].i = jmp.i,
                                      ![jmp.frame].stack = SubSeq(@, 1, jmp.depth)]
          /\ regs' = [regs EXCEPT !["rax"] = 1, !["rdx"] = Junk, !["rcx"] = Junk]
          /\ jmp' = AfterJump
          /\ UNCHANGED <<prog, target, code, trace, status>>

\* SIGFPE and a full stack are not handled.
Killed ==
  /\ Running
  /\ DivideByZero \/ (Op \in {"push", "sub rsp"} /\ Len(Stack) + (IF Op = "push" THEN 1 ELSE Inst[2]) > MaxWords)
  /\ Stop("killed")

Ended == ~Running /\ UNCHANGED vars

Next ==
  \/ Comment \/ Move \/ PushPop \/ Compute \/ Branch \/ Arrays
  \/ Call \/ External \/ Ret \/ Region \/ Check
  \/ aether_setJmpBuf \/ aether_clearJmpBuf \/ segfaultHandler \/ Killed
  \/ Ended

Spec == Init /\ [][Next]_vars /\ WF_vars(Next)

============================================================================
