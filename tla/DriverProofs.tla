---------------------------- MODULE DriverProofs ----------------------------
(***************************************************************************)
(* Compilers that write no common path do not disturb each other, however  *)
(* many run (Driver).                                                      *)
(***************************************************************************)
EXTENDS Driver, SequenceTheorems, FiniteSetTheorems, TLAPS

Fields ==
  {"pc", "job", "prog", "decls", "i", "imported", "stage", "held", "ran", "code"}

Before == {"read", "imports", "analyse", "open_c", "generate"}

Tool == {"tool", "tool_write"}

ForC == {"open_c", "generate", "tool", "tool_write", "compiled"}

ForAsm == {"open_asm", "assemble", "asm_write", "asm_done", "asm_failed"}

\* The commands of c_compile are counted, and belong to the targets that have them.
Typed(p) ==
  /\ DOMAIN ps[p] = Fields /\ Job(p) \in Jobs
  /\ ps[p].pc \in ForC => Job(p).target # "asm"
  /\ ps[p].pc \in ForAsm => Job(p).target = "asm"
  /\ ps[p].pc \in Before => ps[p].stage = 1
  /\ ps[p].pc \in Tool => ps[p].stage \in 1..Len(Stages(Job(p)))
  /\ At(p, "compiled") => ps[p].stage = Len(Stages(Job(p))) + 1

TypeOK == DOMAIN ps = Procs /\ \A p \in Procs : Typed(p)

\* The file at path was made from the program of p.
Own(p, path) == Exists(path) /\ files[path].prog = ps[p].prog

Clean(p) ==
  /\ ~Exists(IF Job(p).target = "asm" THEN asm_path(Job(p)) ELSE c_path(Job(p)))
  /\ \A x \in Temps(Job(p)) : ~Exists(x)

\* What the files of p hold while nobody else writes to them.
Progress(p) ==
  /\ ps[p].pc \in Tool \cup {"compiled"} =>
       \A k \in 1..ps[p].stage - 1 : Own(p, Stages(Job(p))[k].to)
  /\ ps[p].pc \in Tool => Own(p, c_path(Job(p)))
  /\ ps[p].pc \in {"assemble", "asm_write"} => Own(p, asm_path(Job(p)))
  /\ ps[p].pc \in {"tool_write", "asm_write"} => ps[p].held = {ps[p].prog}
  /\ At(p, "asm_done") => Own(p, Output(Job(p)))
  /\ (At(p, "built") \/ Succeeded(p)) /\ ~Job(p).stop =>
       /\ Clean(p)
       /\ Output(Job(p)) \notin Temps(Job(p)) =>
            /\ Own(p, Output(Job(p)))
            /\ At(p, "exit") /\ Job(p).run => ps[p].ran.prog = ps[p].prog

IInv == TypeOK /\ \A p \in Procs : Alone(p) => Progress(p)

----------------------------------------------------------------------------
(* Paths and commands.                                                     *)

LEMMA AppendDiffers ==
  ASSUME NEW S, NEW s \in Seq(S), NEW x
  PROVE  /\ Append(s, x) # s
         /\ \A a, b, c : c # x => Append(s, x) # <<a, b, c>>
<1>1. /\ DOMAIN s = 1..Len(s) /\ Len(s) \in Nat /\ DOMAIN Append(s, x) = 1..Len(s) + 1
      /\ Append(s, x)[Len(s) + 1] = x
  OBVIOUS
<1>2. Append(s, x) # s
  <2>1. Len(s) + 1 \notin DOMAIN s /\ Len(s) + 1 \in DOMAIN Append(s, x)
    BY <1>1
  <2>2. QED BY <2>1
<1>3. ASSUME NEW a, NEW b, NEW c, c # x, Append(s, x) = <<a, b, c>>
      PROVE  FALSE
  <2>1. DOMAIN <<a, b, c>> = 1..3 /\ <<a, b, c>>[3] = c
    OBVIOUS
  <2>2. Len(s) + 1 = 3
    BY <1>1, <1>3, <2>1
  <2>3. QED BY <1>1, <1>3, <2>1, <2>2
<1>4. QED BY <1>2, <1>3

\* The generated file is neither the output nor an object.
LEMMA PathFacts ==
  ASSUME NEW j \in Jobs
  PROVE  /\ c_path(j) # Output(j) /\ asm_path(j) # Output(j)
         /\ \A a, b : c_path(j) # <<a, b, "o">>
<1>1. \E S : Output(j) \in Seq(S)
  <2>1. CASE j.output # NoOutput
    BY <2>1, JobAssumption DEF Output
  <2>2. CASE j.output = NoOutput
    <3>1. ASSUME NEW a, NEW b PROVE <<a, b>> \in Seq({a, b})
      OBVIOUS
    <3>2. ASSUME NEW a, NEW b, NEW c PROVE <<a, b, c>> \in Seq({a, b, c})
      OBVIOUS
    <3>3. Output(j) = DefaultOutput(j)
      BY <2>2 DEF Output
    <3>4. \/ \E a, b : DefaultOutput(j) = <<a, b>>
          \/ \E a, b, c : DefaultOutput(j) = <<a, b, c>>
      BY DEF DefaultOutput
    <3>5. CASE \E a, b : DefaultOutput(j) = <<a, b>>
      <4>1. PICK a, b : DefaultOutput(j) = <<a, b>>
        BY <3>5
      <4>2. Output(j) \in Seq({a, b})
        BY <3>1, <3>3, <4>1
      <4>3. QED BY <4>2
    <3>6. CASE \E a, b, c : DefaultOutput(j) = <<a, b, c>>
      <4>1. PICK a, b, c : DefaultOutput(j) = <<a, b, c>>
        BY <3>6
      <4>2. Output(j) \in Seq({a, b, c})
        BY <3>2, <3>3, <4>1
      <4>3. QED BY <4>2
    <3>7. QED BY <3>4, <3>5, <3>6
  <2>3. QED BY <2>1, <2>2
<1>2. PICK S : Output(j) \in Seq(S)
  BY <1>1
<1>3. QED BY <1>2, AppendDiffers DEF c_path, asm_path

\* A command of c_compile reads the generated file or what an earlier command
\* made; the last one writes the output.
LEMMA StageFacts ==
  ASSUME NEW j \in Jobs, j.target # "asm"
  PROVE  /\ Len(Stages(j)) \in Nat /\ Len(Stages(j)) >= 1
         /\ \A k \in 1..Len(Stages(j)) :
              /\ Stages(j)[k].to # c_path(j)
              /\ Stages(j)[k].in # {}
              /\ \A x \in Stages(j)[k].in :
                   x = c_path(j) \/ \E l \in 1..k - 1 : x = Stages(j)[l].to
         /\ Stages(j)[Len(Stages(j))].to = Output(j)
         /\ c_path(j) \notin Temps(j)
<1>1. /\ c_path(j) # Output(j) /\ c_path(j) # <<"/tmp", "aether_boot", "o">>
      /\ c_path(j) # <<"/tmp", "aether_univ_x86_64", "o">>
      /\ c_path(j) # <<"/tmp", "aether_univ_arm64", "o">>
      /\ c_path(j) # <<"/tmp", "aether_univ_all", "o">>
  BY PathFacts
<1>2. j.target \in {"host", "boot", "universal", "universal_all", "lib"}
  BY JobAssumption DEF Targets
<1> DEFINE c == c_path(j)
           out == Output(j)
           boot == <<"/tmp", "aether_boot", "o">>
           x86 == <<"/tmp", "aether_univ_x86_64", "o">>
           arm == <<"/tmp", "aether_univ_arm64", "o">>
           all == <<"/tmp", "aether_univ_all", "o">>
           Cmd(in, to, form) == [in |-> in, to |-> to, form |-> form]
<1>3. CASE j.target \in {"host", "lib"}
  <2>1. \E form : Stages(j) = <<Cmd({c}, out, form)>>
    BY <1>3 DEF Stages
  <2>2. Temps(j) = {}
    BY <1>3 DEF Temps
  <2> HIDE DEF c, out
  <2>3. QED BY <1>1, <2>1, <2>2 DEF c, out
<1>4. CASE j.target \in {"boot", "universal_all"}
  <2>1. \E o \in {boot, all} : Stages(j) = <<Cmd({c}, o, "obj"), Cmd({o}, out, "bin")>>
    BY <1>4 DEF Stages
  <2>2. PICK o \in {boot, all} : Stages(j) = <<Cmd({c}, o, "obj"), Cmd({o}, out, "bin")>>
    BY <2>1
  <2>3. o # c /\ out # c
    BY <1>1
  <2>4. Temps(j) \subseteq {o}
    BY <2>2 DEF Temps
  <2> HIDE DEF c, out, boot, all
  <2>5. QED BY <2>2, <2>3, <2>4 DEF c, out
<1>5. CASE j.target = "universal"
  <2>1. Stages(j) = <<Cmd({c}, x86, "obj"), Cmd({c}, arm, "obj"), Cmd({x86, arm}, out, "bin")>>
    BY <1>5 DEF Stages
  <2>2. x86 # c /\ arm # c /\ out # c
    BY <1>1
  <2>3. Temps(j) \subseteq {x86, arm}
    BY <2>1 DEF Temps
  <2> HIDE DEF c, out, x86, arm
  <2>4. QED BY <2>1, <2>2, <2>3 DEF c, out
<1>6. QED BY <1>2, <1>3, <1>4, <1>5

\* What the commands write on the way is either removed or the object of a boot image.
LEMMA OnTheWay ==
  ASSUME NEW j \in Jobs, j.target # "asm", j.target # "boot"
  PROVE  Intermediates(j) = {c_path(j)} \cup Temps(j)
<1>1. CASE j.target \in {"universal", "universal_all"}
  BY <1>1 DEF Intermediates, Temps
<1>2. CASE j.target \notin {"universal", "universal_all"}
  <2>1. j.target \in {"host", "lib"}
    BY <1>2, JobAssumption DEF Targets
  <2>2. Len(Stages(j)) = 1
    BY <2>1 DEF Stages
  <2>3. QED BY <1>2, <2>2 DEF Intermediates, Temps
<1>3. QED BY <1>1, <1>2

----------------------------------------------------------------------------
(* Steps.                                                                  *)

\* A step of p changes the state of p and the files p may write.
Frame(p) ==
  /\ DOMAIN ps' = Procs /\ ps'[p].job = ps[p].job
  /\ \A q \in Procs \ {p} : ps'[q] = ps[q]
  /\ \A x : x \notin Touches(Job(p)) => (x \in DOMAIN files' <=> x \in DOMAIN files)
  /\ \A x \in DOMAIN files : x \notin Touches(Job(p)) => files'[x] = files[x]

Good(p) == Frame(p) /\ Typed(p)' /\ (Progress(p) => Progress(p)')

LEMMA GotoFacts ==
  ASSUME TypeOK, NEW p \in Procs, NEW pc, Goto(p, pc)
  PROVE  /\ DOMAIN ps' = Procs /\ DOMAIN ps'[p] = Fields
         /\ \A q \in Procs \ {p} : ps'[q] = ps[q]
         /\ ps'[p].pc = pc /\ ps'[p].job = ps[p].job /\ ps'[p].prog = ps[p].prog
         /\ ps'[p].stage = ps[p].stage /\ ps'[p].held = ps[p].held
BY DEF TypeOK, Typed, Goto, Fields

LEMMA ExitFacts ==
  ASSUME TypeOK, NEW p \in Procs, NEW code, Exit(p, code)
  PROVE  /\ DOMAIN ps' = Procs /\ DOMAIN ps'[p] = Fields
         /\ \A q \in Procs \ {p} : ps'[q] = ps[q]
         /\ ps'[p].pc = "exit" /\ ps'[p].code = code /\ ps'[p].job = ps[p].job
         /\ ps'[p].prog = ps[p].prog
BY DEF TypeOK, Typed, Exit, Fields

LEMMA WriteFacts ==
  ASSUME NEW path, NEW c, Write(path, c)
  PROVE  /\ path \in DOMAIN files' /\ files'[path] = c
         /\ \A x : x # path => (x \in DOMAIN files' <=> x \in DOMAIN files)
         /\ \A x \in DOMAIN files : x # path => files'[x] = files[x]
BY DEF Write

LEMMA UnlinkFacts ==
  ASSUME NEW S, Unlink(S)
  PROVE  /\ \A x \in S : x \notin DOMAIN files'
         /\ \A x : x \notin S => (x \in DOMAIN files' <=> x \in DOMAIN files)
         /\ \A x \in DOMAIN files : x \notin S => files'[x] = files[x]
BY DEF Unlink

LEMMA TouchesFacts ==
  ASSUME NEW j \in Jobs
  PROVE  /\ Output(j) \in Touches(j)
         /\ j.target = "asm" => asm_path(j) \in Touches(j)
         /\ j.target # "asm" =>
              /\ c_path(j) \in Touches(j)
              /\ \A k \in 1..Len(Stages(j)) : Stages(j)[k].to \in Touches(j)
         /\ Temps(j) \subseteq Touches(j)
<1>1. CASE j.target = "asm"
  BY <1>1 DEF Touches, Temps
<1>2. CASE j.target # "asm"
  <2>1. Len(Stages(j)) \in Nat
    BY <1>2, StageFacts
  <2>2. Temps(j) \subseteq {Stages(j)[k].to : k \in 1..Len(Stages(j))}
    <3>1. SUFFICES ASSUME NEW x \in Temps(j)
                   PROVE  \E k \in 1..Len(Stages(j)) : x = Stages(j)[k].to
      OBVIOUS
    <3>2. PICK k \in 1..Len(Stages(j)) - 1 : x = Stages(j)[k].to
      BY <3>1 DEF Temps
    <3>3. k \in 1..Len(Stages(j))
      BY <2>1
    <3>4. QED BY <3>2, <3>3
  <2>3. QED BY <1>2, <2>2 DEF Touches
<1>3. QED BY <1>1, <1>2

LEMMA GiveUp ==
  ASSUME TypeOK, NEW p \in Procs, Exit(p, 1),
         \A x : x \notin Touches(Job(p)) => (x \in DOMAIN files' <=> x \in DOMAIN files),
         \A x \in DOMAIN files : x \notin Touches(Job(p)) => files'[x] = files[x]
  PROVE  Good(p)
<1>1. /\ DOMAIN ps' = Procs /\ DOMAIN ps'[p] = Fields
      /\ \A q \in Procs \ {p} : ps'[q] = ps[q]
      /\ ps'[p].pc = "exit" /\ ps'[p].code = 1 /\ ps'[p].job = ps[p].job
  BY ExitFacts
<1>2. Frame(p)
  BY <1>1 DEF Frame
<1>3. Typed(p)'
  BY <1>1 DEF TypeOK, Typed, Job, At, ForC, ForAsm, Before, Tool
<1>4. Progress(p)'
  BY <1>1 DEF Progress, Succeeded, At, Job, Tool
<1>5. QED BY <1>2, <1>3, <1>4 DEF Good

\* Nothing is known of the files of a process at these places.
LEMMA MoveOn ==
  ASSUME TypeOK, NEW p \in Procs,
         NEW pc \in {"imports", "analyse", "open_c", "open_asm", "asm_failed", "killed"},
         Goto(p, pc), UNCHANGED files,
         pc \in Before => ps[p].stage = 1,
         pc \in ForC => Job(p).target # "asm",
         pc \in ForAsm => Job(p).target = "asm"
  PROVE  Good(p)
<1>1. /\ DOMAIN ps' = Procs /\ DOMAIN ps'[p] = Fields
      /\ \A q \in Procs \ {p} : ps'[q] = ps[q]
      /\ ps'[p].pc = pc /\ ps'[p].stage = ps[p].stage /\ ps'[p].job = ps[p].job
  BY GotoFacts
<1>2. Frame(p)
  BY <1>1 DEF Frame
<1>3. Typed(p)'
  BY <1>1 DEF TypeOK, Typed, Job, At, ForC, ForAsm, Before, Tool
<1>4. Progress(p)'
  BY <1>1 DEF Progress, Succeeded, At, Job, Tool
<1>5. QED BY <1>2, <1>3, <1>4 DEF Good

LEMMA ReadInputGood ==
  ASSUME TypeOK, NEW p \in Procs, ReadInput(p)
  PROVE  Good(p)
<1>1. CASE Exit(p, 1)
  BY <1>1, GiveUp DEF ReadInput
<1>2. CASE ~Exit(p, 1)
  <2>1. /\ DOMAIN ps' = Procs /\ DOMAIN ps'[p] = Fields
        /\ \A q \in Procs \ {p} : ps'[q] = ps[q]
        /\ ps'[p].pc = "imports" /\ ps'[p].stage = ps[p].stage /\ ps'[p].job = ps[p].job
    BY <1>2 DEF TypeOK, Typed, Fields, ReadInput
  <2>2. Frame(p)
    BY <2>1 DEF Frame, ReadInput
  <2>3. Typed(p)'
    BY <2>1 DEF TypeOK, Typed, Job, At, ForC, ForAsm, Before, Tool, ReadInput
  <2>4. Progress(p)'
    BY <2>1 DEF Progress, Succeeded, At, Job, Tool
  <2>5. QED BY <2>2, <2>3, <2>4 DEF Good
<1>3. QED BY <1>1, <1>2

LEMMA ResolveImportGood ==
  ASSUME TypeOK, NEW p \in Procs, ResolveImport(p)
  PROVE  Good(p)
<1>1. CASE Exit(p, 1)
  BY <1>1, GiveUp DEF ResolveImport
<1>2. CASE ~Exit(p, 1)
  <2>1. /\ DOMAIN ps' = Procs /\ DOMAIN ps'[p] = Fields
        /\ \A q \in Procs \ {p} : ps'[q] = ps[q]
        /\ ps'[p].pc = "imports" /\ ps'[p].stage = ps[p].stage /\ ps'[p].job = ps[p].job
    <3> DEFINE t(S) == [ps[p] EXCEPT !.imported = S]
    <3>1. \/ ps' = [ps EXCEPT ![p] = PassOver(ps[p])]
          \/ \E S, new : ps' = [ps EXCEPT ![p] = Merge(t(S), new)]
      BY <1>2, Zenon DEF ResolveImport
    <3>2. /\ DOMAIN ps[p] = Fields /\ DOMAIN ps = Procs /\ ps[p].pc = "imports"
      BY DEF TypeOK, Typed, ResolveImport, At
    <3>3. CASE ps' = [ps EXCEPT ![p] = PassOver(ps[p])]
      BY <3>2, <3>3 DEF Fields, PassOver
    <3>4. CASE \E S, new : ps' = [ps EXCEPT ![p] = Merge(t(S), new)]
      <4>1. PICK S, new : ps' = [ps EXCEPT ![p] = Merge(t(S), new)]
        BY <3>4
      <4>2. QED BY <3>2, <4>1 DEF Fields, Merge
    <3>5. QED BY <3>1, <3>3, <3>4
  <2>2. Frame(p)
    BY <2>1 DEF Frame, ResolveImport
  <2>3. Typed(p)'
    BY <2>1 DEF TypeOK, Typed, Job, At, ForC, ForAsm, Before, Tool, ResolveImport
  <2>4. Progress(p)'
    BY <2>1 DEF Progress, Succeeded, At, Job, Tool
  <2>5. QED BY <2>2, <2>3, <2>4 DEF Good
<1>3. QED BY <1>1, <1>2

LEMMA FrontGood ==
  ASSUME TypeOK, NEW p \in Procs, ImportsDone(p) \/ Analyse(p)
  PROVE  Good(p)
<1>1. CASE ImportsDone(p)
  BY <1>1, MoveOn DEF ImportsDone, TypeOK, Typed, At, Before, ForC, ForAsm
<1>2. CASE Analyse(p)
  <2>1. CASE Exit(p, 1)
    BY <1>2, <2>1, GiveUp DEF Analyse
  <2>2. CASE Goto(p, "open_asm") /\ Job(p).target = "asm"
    BY <1>2, <2>2, MoveOn DEF Analyse, TypeOK, Typed, At, Before, ForC, ForAsm
  <2>3. CASE Goto(p, "open_c") /\ Job(p).target # "asm"
    BY <1>2, <2>3, MoveOn DEF Analyse, TypeOK, Typed, At, Before, ForC, ForAsm
  <2>4. QED BY <1>2, <2>1, <2>2, <2>3 DEF Analyse
<1>3. QED BY <1>1, <1>2

LEMMA OpenCGood ==
  ASSUME TypeOK, NEW p \in Procs, OpenC(p)
  PROVE  Good(p)
<1>1. CASE Exit(p, 1) /\ UNCHANGED files
  BY <1>1, GiveUp
<1>2. CASE Goto(p, "generate") /\ Write(c_path(Job(p)), Empty)
  <2>1. /\ DOMAIN ps' = Procs /\ DOMAIN ps'[p] = Fields
        /\ \A q \in Procs \ {p} : ps'[q] = ps[q]
        /\ ps'[p].pc = "generate" /\ ps'[p].stage = ps[p].stage /\ ps'[p].job = ps[p].job
    BY <1>2, GotoFacts
  <2>2. Job(p) \in Jobs /\ Job(p).target # "asm" /\ ps[p].stage = 1
    BY DEF TypeOK, Typed, OpenC, At, ForC, Before
  <2>3. Frame(p)
    BY <1>2, <2>1, <2>2, TouchesFacts, WriteFacts DEF Frame
  <2>4. Typed(p)'
    BY <2>1, <2>2 DEF Typed, Job, At, ForC, ForAsm, Before, Tool
  <2>5. Progress(p)'
    BY <2>1 DEF Progress, Succeeded, At, Job, Tool
  <2>6. QED BY <2>3, <2>4, <2>5 DEF Good
<1>3. QED BY <1>1, <1>2 DEF OpenC

LEMMA GenerateGood ==
  ASSUME TypeOK, NEW p \in Procs, Generate(p)
  PROVE  Good(p)
<1>1. CASE Exit(p, 1) /\ UNCHANGED files
  BY <1>1, GiveUp
<1>2. CASE ~(Exit(p, 1) /\ UNCHANGED files)
  <2>0. /\ Write(c_path(Job(p)), Made("c", ps[p].prog))
        /\ Goto(p, IF Job(p).stop THEN "built" ELSE "tool")
    BY <1>2 DEF Generate
  <2>1. /\ DOMAIN ps' = Procs /\ DOMAIN ps'[p] = Fields
        /\ \A q \in Procs \ {p} : ps'[q] = ps[q]
        /\ ps'[p].pc = IF Job(p).stop THEN "built" ELSE "tool"
        /\ ps'[p].stage = ps[p].stage /\ ps'[p].job = ps[p].job /\ ps'[p].prog = ps[p].prog
    BY <2>0, GotoFacts
  <2>2. Job(p) \in Jobs /\ Job(p).target # "asm" /\ ps[p].stage = 1
    BY DEF TypeOK, Typed, Generate, At, ForC, Before
  <2>3. Frame(p)
    BY <2>0, <2>1, <2>2, TouchesFacts, WriteFacts DEF Frame
  <2>4. Typed(p)'
    BY <2>1, <2>2, StageFacts DEF Typed, Job, At, ForC, ForAsm, Before, Tool
  <2>5. Progress(p)'
    <3>1. c_path(Job(p)) \in DOMAIN files' /\ files'[c_path(Job(p))].prog = ps[p].prog
      BY <2>0, WriteFacts DEF Made
    <3>2. QED BY <2>1, <2>2, <3>1 DEF Progress, Succeeded, At, Job, Tool, Own, Exists
  <2>6. QED BY <2>3, <2>4, <2>5 DEF Good
<1>3. QED BY <1>1, <1>2

LEMMA ToolReadGood ==
  ASSUME TypeOK, NEW p \in Procs, ToolRead(p)
  PROVE  Good(p)
<1> DEFINE st == Stages(Job(p))[ps[p].stage]
<1>1. CASE Exit(p, 1)
  BY <1>1, GiveUp DEF ToolRead
<1>2. CASE ~Exit(p, 1)
  <2>0. /\ ps' = [ps EXCEPT ![p].pc = "tool_write", ![p].held = {files[x].prog : x \in st.in}]
        /\ files' = files /\ ps[p].pc = "tool"
    BY <1>2 DEF ToolRead, At
  <2>1. /\ DOMAIN ps' = Procs /\ DOMAIN ps'[p] = Fields
        /\ \A q \in Procs \ {p} : ps'[q] = ps[q]
        /\ ps'[p].pc = "tool_write" /\ ps'[p].held = {files[x].prog : x \in st.in}
        /\ ps'[p].stage = ps[p].stage /\ ps'[p].job = ps[p].job /\ ps'[p].prog = ps[p].prog
    BY <2>0 DEF TypeOK, Typed, Fields
  <2>2. Job(p) \in Jobs /\ Job(p).target # "asm" /\ ps[p].stage \in 1..Len(Stages(Job(p)))
    BY <2>0 DEF TypeOK, Typed, ForC, Tool
  <2>3. Frame(p)
    BY <2>0, <2>1 DEF Frame
  <2>4. Typed(p)'
    BY <2>1, <2>2 DEF Typed, Job, At, ForC, ForAsm, Before, Tool
  <2>5. ASSUME Progress(p) PROVE Progress(p)'
    <3>1. /\ \A k \in 1..ps[p].stage - 1 : Own(p, Stages(Job(p))[k].to)
          /\ Own(p, c_path(Job(p)))
      BY <2>0, <2>5 DEF Progress, Tool
    <3>2. st.in # {} /\ \A x \in st.in : Own(p, x)
      BY <2>2, <3>1, StageFacts
    <3>3. {files[x].prog : x \in st.in} = {ps[p].prog}
      BY <3>2 DEF Own
    <3>4. QED BY <2>0, <2>1, <3>1, <3>3 DEF Progress, Succeeded, At, Job, Tool, Own, Exists
  <2>6. QED BY <2>3, <2>4, <2>5 DEF Good
<1>3. QED BY <1>1, <1>2

LEMMA ToolWriteGood ==
  ASSUME TypeOK, NEW p \in Procs, ToolWrite(p)
  PROVE  Good(p)
<1> DEFINE st == Stages(Job(p))[ps[p].stage]
           n == Len(Stages(Job(p)))
<1>1. /\ Job(p) \in Jobs /\ Job(p).target # "asm" /\ ps[p].stage \in 1..n /\ ps[p].pc = "tool_write"
  BY DEF TypeOK, Typed, ForC, Tool, ToolWrite, At
<1>2. st.to \in Touches(Job(p)) /\ n \in Nat
  BY <1>1, TouchesFacts, StageFacts
<1>3. CASE Exit(p, 1) /\ Unlink({st.to})
  BY <1>2, <1>3, GiveUp, UnlinkFacts
<1>4. CASE /\ \E prog : /\ Write(st.to, Made(st.form, prog))
                        /\ ps[p].held = {ps[p].prog} => prog = ps[p].prog
           /\ ps' = [ps EXCEPT ![p].pc = IF ps[p].stage = n THEN "compiled" ELSE "tool",
                               ![p].stage = @ + 1]
  <2>1. /\ DOMAIN ps' = Procs /\ DOMAIN ps'[p] = Fields
        /\ \A q \in Procs \ {p} : ps'[q] = ps[q]
        /\ ps'[p].pc = IF ps[p].stage = n THEN "compiled" ELSE "tool"
        /\ ps'[p].stage = ps[p].stage + 1
        /\ ps'[p].job = ps[p].job /\ ps'[p].prog = ps[p].prog
    BY <1>4 DEF TypeOK, Typed, Fields
  <2>2. PICK prog : /\ Write(st.to, Made(st.form, prog))
                    /\ ps[p].held = {ps[p].prog} => prog = ps[p].prog
    BY <1>4
  <2>3. /\ st.to \in DOMAIN files' /\ files'[st.to].prog = prog
        /\ \A x : x # st.to => (x \in DOMAIN files' <=> x \in DOMAIN files)
        /\ \A x \in DOMAIN files : x # st.to => files'[x] = files[x]
    BY <2>2, WriteFacts DEF Made
  <2>4. Frame(p)
    BY <1>2, <2>1, <2>3 DEF Frame
  <2>5. Typed(p)'
    BY <1>1, <1>2, <2>1 DEF Typed, Job, At, ForC, ForAsm, Before, Tool
  <2>6. ASSUME Progress(p) PROVE Progress(p)'
    <3> DEFINE Now(x) == x \in DOMAIN files' /\ files'[x].prog = ps'[p].prog
    <3>1. /\ \A k \in 1..ps[p].stage - 1 : Own(p, Stages(Job(p))[k].to)
          /\ Own(p, c_path(Job(p))) /\ prog = ps[p].prog
      BY <1>1, <2>2, <2>6 DEF Progress, Tool
    <3>2. st.to # c_path(Job(p))
      BY <1>1, StageFacts
    <3>3. ASSUME NEW x, Own(p, x) PROVE Now(x)
      <4>1. x \in DOMAIN files /\ files[x].prog = ps[p].prog
        BY <3>3 DEF Own, Exists
      <4>2. CASE x = st.to
        BY <2>1, <2>3, <3>1, <4>2
      <4>3. CASE x # st.to
        BY <2>1, <2>3, <4>1, <4>3
      <4>4. QED BY <4>2, <4>3
    <3>4. Now(st.to)
      BY <2>1, <2>3, <3>1
    <3> HIDE DEF Now
    <3>5. ASSUME NEW k \in 1..ps'[p].stage - 1 PROVE Now(Stages(Job(p))[k].to)
      <4>1. CASE k = ps[p].stage
        BY <3>4, <4>1
      <4>2. CASE k # ps[p].stage
        <5>1. k \in 1..ps[p].stage - 1
          BY <1>1, <1>2, <2>1, <4>2
        <5>2. QED BY <3>1, <3>3, <5>1
      <4>3. QED BY <4>1, <4>2
    <3>6. Job(p)' = Job(p)
      BY <2>1 DEF Job
    <3>7. Now(c_path(Job(p)))
      BY <3>1, <3>3
    <3>8. QED BY <2>1, <3>5, <3>6, <3>7 DEF Progress, Succeeded, At, Tool, Now, Own, Exists
  <2>7. QED BY <2>4, <2>5, <2>6 DEF Good
<1>5. QED
  <2>1. \A a : Cardinality({a}) = 1 /\ (CHOOSE x \in {a} : TRUE) = a
    BY FS_Singleton
  <2>2. QED BY <1>3, <1>4, <2>1 DEF ToolWrite, ToolFailed

LEMMA CompiledGood ==
  ASSUME TypeOK, NEW p \in Procs, Compiled(p)
  PROVE  Good(p)
<1> DEFINE n == Len(Stages(Job(p)))
           gone == {c_path(Job(p))} \cup Temps(Job(p))
<1>1. /\ Job(p) \in Jobs /\ Job(p).target # "asm" /\ ps[p].stage = n + 1 /\ ps[p].pc = "compiled"
  BY DEF TypeOK, Typed, ForC, Compiled, At
<1>2. /\ DOMAIN ps' = Procs /\ DOMAIN ps'[p] = Fields
      /\ \A q \in Procs \ {p} : ps'[q] = ps[q]
      /\ ps'[p].pc = "built" /\ ps'[p].job = ps[p].job /\ ps'[p].prog = ps[p].prog
  BY GotoFacts DEF Compiled
<1>3. /\ \A x \in gone : x \notin DOMAIN files'
      /\ \A x : x \notin gone => (x \in DOMAIN files' <=> x \in DOMAIN files)
      /\ \A x \in DOMAIN files : x \notin gone => files'[x] = files[x]
  BY UnlinkFacts DEF Compiled
<1>4. gone \subseteq Touches(Job(p))
  BY <1>1, TouchesFacts
<1>5. Frame(p)
  BY <1>2, <1>3, <1>4 DEF Frame
<1>6. Typed(p)'
  BY <1>1, <1>2 DEF Typed, Job, At, ForC, ForAsm, Before, Tool
<1>7. ASSUME Progress(p) PROVE Progress(p)'
  <2>1. \A k \in 1..n : Own(p, Stages(Job(p))[k].to)
    BY <1>1, <1>7, StageFacts DEF Progress
  <2>2. Own(p, Output(Job(p)))
    BY <1>1, <2>1, StageFacts
  <2>3. Output(Job(p)) # c_path(Job(p))
    BY <1>1, PathFacts
  <2>4. Job(p)' = Job(p)
    BY <1>2 DEF Job
  <2>5. Output(Job(p)) \notin Temps(Job(p)) => Own(p, Output(Job(p)))'
    <3>1. Output(Job(p)) \in DOMAIN files /\ files[Output(Job(p))].prog = ps[p].prog
      BY <2>2 DEF Own, Exists
    <3>2. QED BY <1>2, <1>3, <2>3, <2>4, <3>1 DEF Own, Exists
  <2>6. Clean(p)'
    BY <1>1, <1>3, <2>4 DEF Clean, Exists
  <2>7. QED BY <1>2, <2>4, <2>5, <2>6 DEF Progress, Succeeded, At, Tool
<1>8. QED BY <1>5, <1>6, <1>7 DEF Good

LEMMA BuiltGood ==
  ASSUME TypeOK, NEW p \in Procs, Built(p)
  PROVE  Good(p)
<1> DEFINE out == Output(Job(p))
           run == Job(p).run
<1>1. /\ DOMAIN ps' = Procs /\ DOMAIN ps'[p] = Fields
      /\ \A q \in Procs \ {p} : ps'[q] = ps[q]
      /\ ps'[p].pc = "exit" /\ ps'[p].job = ps[p].job /\ ps'[p].prog = ps[p].prog
      /\ run => ps'[p].ran = IF Exists(out) THEN files[out] ELSE Empty
  BY DEF TypeOK, Typed, Fields, Built, Exit, RunPath, Job
<1>2. files' = files /\ ps[p].pc = "built"
  BY DEF Built, At
<1>3. Frame(p)
  BY <1>1, <1>2 DEF Frame
<1>4. Typed(p)'
  BY <1>1 DEF TypeOK, Typed, Job, At, ForC, ForAsm, Before, Tool
<1>5. ASSUME Progress(p) PROVE Progress(p)'
  <2>1. Job(p)' = Job(p)
    BY <1>1 DEF Job
  <2>2. ~Job(p).stop => Clean(p) /\ (out \notin Temps(Job(p)) => Own(p, out))
    BY <1>2, <1>5 DEF Progress, At
  <2>3. Clean(p) => Clean(p)'
    BY <1>2, <2>1 DEF Clean, Exists
  <2>4. Own(p, out) => Own(p, out)' /\ (run => ps'[p].ran.prog = ps[p].prog)
    BY <1>1, <1>2, <2>1 DEF Own, Exists
  <2>5. QED BY <1>1, <2>1, <2>2, <2>3, <2>4 DEF Progress, Succeeded, At, Tool
<1>6. QED BY <1>3, <1>4, <1>5 DEF Good

LEMMA OpenAsmGood ==
  ASSUME TypeOK, NEW p \in Procs, OpenAsm(p)
  PROVE  Good(p)
<1>1. CASE Exit(p, 1) /\ UNCHANGED files
  BY <1>1, GiveUp
<1>2. CASE Goto(p, "assemble") /\ Write(asm_path(Job(p)), Made("asm", ps[p].prog))
  <2>1. /\ DOMAIN ps' = Procs /\ DOMAIN ps'[p] = Fields
        /\ \A q \in Procs \ {p} : ps'[q] = ps[q]
        /\ ps'[p].pc = "assemble" /\ ps'[p].job = ps[p].job /\ ps'[p].prog = ps[p].prog
    BY <1>2, GotoFacts
  <2>2. Job(p) \in Jobs /\ Job(p).target = "asm"
    BY DEF TypeOK, Typed, OpenAsm, At, ForAsm
  <2>3. Frame(p)
    BY <1>2, <2>1, <2>2, TouchesFacts, WriteFacts DEF Frame
  <2>4. Typed(p)'
    BY <2>1, <2>2 DEF Typed, Job, At, ForC, ForAsm, Before, Tool
  <2>5. Progress(p)'
    <3>1. asm_path(Job(p)) \in DOMAIN files' /\ files'[asm_path(Job(p))].prog = ps[p].prog
      BY <1>2, WriteFacts DEF Made
    <3>2. QED BY <2>1, <3>1 DEF Progress, Succeeded, At, Job, Tool, Own, Exists
  <2>6. QED BY <2>3, <2>4, <2>5 DEF Good
<1>3. QED BY <1>1, <1>2 DEF OpenAsm

LEMMA AssembleReadGood ==
  ASSUME TypeOK, NEW p \in Procs, AssembleRead(p)
  PROVE  Good(p)
<1> DEFINE asm == asm_path(Job(p))
<1>1. CASE Goto(p, "asm_failed")
  BY <1>1, MoveOn DEF AssembleRead, TypeOK, Typed, At, Before, ForC, ForAsm
<1>2. CASE ~Goto(p, "asm_failed")
  <2>1. /\ ps' = [ps EXCEPT ![p].pc = "asm_write", ![p].held = {files[asm].prog}]
        /\ files' = files /\ ps[p].pc = "assemble"
    BY <1>2 DEF AssembleRead, At
  <2>2. /\ DOMAIN ps' = Procs /\ DOMAIN ps'[p] = Fields
        /\ \A q \in Procs \ {p} : ps'[q] = ps[q]
        /\ ps'[p].pc = "asm_write" /\ ps'[p].held = {files[asm].prog}
        /\ ps'[p].job = ps[p].job /\ ps'[p].prog = ps[p].prog
    BY <2>1 DEF TypeOK, Typed, Fields
  <2>3. Frame(p)
    BY <2>1, <2>2 DEF Frame
  <2>4. Typed(p)'
    BY <2>1, <2>2 DEF TypeOK, Typed, Job, At, ForC, ForAsm, Before, Tool
  <2>5. ASSUME Progress(p) PROVE Progress(p)'
    <3>1. Own(p, asm)
      BY <2>1, <2>5 DEF Progress
    <3>2. QED BY <2>1, <2>2, <3>1 DEF Progress, Succeeded, At, Job, Tool, Own, Exists
  <2>6. QED BY <2>3, <2>4, <2>5 DEF Good
<1>3. QED BY <1>1, <1>2

LEMMA AssembleWriteGood ==
  ASSUME TypeOK, NEW p \in Procs, AssembleWrite(p)
  PROVE  Good(p)
<1> DEFINE out == Output(Job(p))
<1>1. CASE Goto(p, "asm_failed") /\ UNCHANGED files
  BY <1>1, MoveOn DEF AssembleWrite, TypeOK, Typed, At, Before, ForC, ForAsm
<1>2. CASE /\ \E prog \in ps[p].held : Write(out, Made("bin", prog))
           /\ Goto(p, "asm_done")
  <2>1. PICK prog \in ps[p].held : Write(out, Made("bin", prog))
    BY <1>2
  <2>2. /\ DOMAIN ps' = Procs /\ DOMAIN ps'[p] = Fields
        /\ \A q \in Procs \ {p} : ps'[q] = ps[q]
        /\ ps'[p].pc = "asm_done" /\ ps'[p].job = ps[p].job /\ ps'[p].prog = ps[p].prog
    BY <1>2, GotoFacts
  <2>3. ps[p].pc = "asm_write" /\ Job(p) \in Jobs /\ Job(p).target = "asm"
    BY DEF TypeOK, Typed, AssembleWrite, At, ForAsm
  <2>4. Frame(p)
    BY <2>1, <2>2, <2>3, TouchesFacts, WriteFacts DEF Frame
  <2>5. Typed(p)'
    BY <2>2, <2>3 DEF Typed, Job, At, ForC, ForAsm, Before, Tool
  <2>6. ASSUME Progress(p) PROVE Progress(p)'
    <3>1. prog = ps[p].prog
      BY <2>1, <2>3, <2>6 DEF Progress
    <3>2. out \in DOMAIN files' /\ files'[out].prog = prog
      BY <2>1, WriteFacts DEF Made
    <3>3. QED BY <2>2, <3>1, <3>2 DEF Progress, Succeeded, At, Job, Tool, Own, Exists
  <2>7. QED BY <2>4, <2>5, <2>6 DEF Good
<1>3. QED BY <1>1, <1>2 DEF AssembleWrite

LEMMA AssembledGood ==
  ASSUME TypeOK, NEW p \in Procs, Assembled(p)
  PROVE  Good(p)
<1> DEFINE asm == asm_path(Job(p))
           out == Output(Job(p))
<1>1. Job(p) \in Jobs /\ Job(p).target = "asm"
  BY DEF TypeOK, Typed, Assembled, ForAsm
<1>2. /\ asm \notin DOMAIN files'
      /\ \A x : x # asm => (x \in DOMAIN files' <=> x \in DOMAIN files)
      /\ \A x \in DOMAIN files : x # asm => files'[x] = files[x]
  BY UnlinkFacts DEF Assembled
<1>3. asm \in Touches(Job(p)) /\ out # asm /\ Temps(Job(p)) = {}
  BY <1>1, TouchesFacts, PathFacts DEF Temps
<1>4. CASE Exit(p, 1)
  BY <1>2, <1>3, <1>4, GiveUp
<1>5. CASE At(p, "asm_done") /\ Goto(p, "built")
  <2>1. /\ DOMAIN ps' = Procs /\ DOMAIN ps'[p] = Fields
        /\ \A q \in Procs \ {p} : ps'[q] = ps[q]
        /\ ps'[p].pc = "built" /\ ps'[p].job = ps[p].job /\ ps'[p].prog = ps[p].prog
    BY <1>5, GotoFacts
  <2>2. Frame(p)
    BY <1>2, <1>3, <2>1 DEF Frame
  <2>3. Typed(p)'
    BY <1>1, <2>1 DEF Typed, Job, At, ForC, ForAsm, Before, Tool
  <2>4. ASSUME Progress(p) PROVE Progress(p)'
    <3>1. out \in DOMAIN files /\ files[out].prog = ps[p].prog
      BY <1>5, <2>4 DEF Progress, Own, Exists
    <3>2. Job(p)' = Job(p)
      BY <2>1 DEF Job
    <3>3. Own(p, out)'
      BY <1>2, <1>3, <2>1, <3>1, <3>2 DEF Own, Exists
    <3>4. Clean(p)'
      BY <1>1, <1>2, <1>3, <3>2 DEF Clean, Exists
    <3>5. QED BY <2>1, <3>2, <3>3, <3>4 DEF Progress, Succeeded, At, Tool
  <2>5. QED BY <2>2, <2>3, <2>4 DEF Good
<1>6. QED BY <1>4, <1>5 DEF Assembled

LEMMA KillGood ==
  ASSUME TypeOK, NEW p \in Procs, Kill(p)
  PROVE  Good(p)
BY MoveOn DEF Kill, Before, ForC, ForAsm

LEMMA StepGood ==
  ASSUME TypeOK, NEW p \in Procs, Step(p) \/ Kill(p)
  PROVE  Good(p)
BY ReadInputGood, ResolveImportGood, FrontGood, OpenCGood, GenerateGood, ToolReadGood,
   ToolWriteGood, CompiledGood, BuiltGood, OpenAsmGood, AssembleReadGood, AssembleWriteGood, AssembledGood,
   KillGood DEF Step

----------------------------------------------------------------------------
(* The others.                                                             *)

\* What p relies on lies where only p writes.
LEMMA OtherStep ==
  ASSUME TypeOK, NEW p \in Procs, NEW q \in Procs, p # q, Frame(q), Alone(p), Progress(p)
  PROVE  Progress(p)'
<1> DEFINE j == Job(p)
           Same(x) == /\ x \in DOMAIN files' <=> x \in DOMAIN files
                      /\ x \in DOMAIN files => files'[x] = files[x]
<1>1. ps'[p] = ps[p] /\ j \in Jobs
  BY DEF Frame, TypeOK, Typed
<1>2. ASSUME NEW x \in Touches(j) PROVE Same(x)
  <2>1. x \notin Touches(Job(q))
    BY DEF Alone
  <2>2. QED BY <2>1 DEF Frame
<1>3. Job(p)' = j
  BY <1>1 DEF Job
<1> HIDE DEF Same
<1>4. Same(Output(j)) /\ (j.target = "asm" => Same(asm_path(j)))
  BY <1>1, <1>2, TouchesFacts
<1>5. j.target # "asm" =>
        /\ Same(c_path(j))
        /\ \A k \in 1..Len(Stages(j)) : Same(Stages(j)[k].to)
  BY <1>1, <1>2, TouchesFacts
<1>6. \A x \in Temps(j) : Same(x)
  BY <1>1, <1>2, TouchesFacts
<1>7. ASSUME NEW x, Same(x), Own(p, x) PROVE x \in DOMAIN files' /\ files'[x].prog = ps'[p].prog
  BY <1>1, <1>7 DEF Same, Own, Exists
<1>8. ASSUME NEW x, Same(x), ~Exists(x) PROVE x \notin DOMAIN files'
  BY <1>8 DEF Same, Exists
<1>9. ps[p].pc \in Tool \cup {"compiled"} =>
        \A k \in 1..ps[p].stage - 1 : Own(p, Stages(j)[k].to)'
  <2>1. SUFFICES ASSUME ps[p].pc \in Tool \cup {"compiled"}, NEW k \in 1..ps[p].stage - 1
                 PROVE  Own(p, Stages(j)[k].to)'
    OBVIOUS
  <2>2. j.target # "asm" /\ ps[p].stage \in 1..Len(Stages(j)) + 1
    BY <2>1 DEF TypeOK, Typed, ForC, Tool, At
  <2>3. k \in 1..Len(Stages(j))
    BY <1>1, <2>1, <2>2, StageFacts
  <2>4. Own(p, Stages(j)[k].to) /\ Same(Stages(j)[k].to)
    BY <1>5, <2>1, <2>2, <2>3 DEF Progress
  <2>5. QED BY <1>3, <1>7, <2>4 DEF Own, Exists
<1>10. ps[p].pc \in Tool => Own(p, c_path(j))'
  BY <1>3, <1>5, <1>7 DEF Progress, TypeOK, Typed, ForC, Tool, Own, Exists
<1>11. ps[p].pc \in {"assemble", "asm_write"} => Own(p, asm_path(j))'
  BY <1>3, <1>4, <1>7 DEF Progress, TypeOK, Typed, ForAsm, Own, Exists
<1>12. At(p, "asm_done") => Own(p, Output(j))'
  BY <1>3, <1>4, <1>7 DEF Progress, Own, Exists
<1>13. Clean(p) => Clean(p)'
  BY <1>1, <1>3, <1>4, <1>5, <1>6, <1>8 DEF Clean, Exists
<1>14. Own(p, Output(j)) => Own(p, Output(j))'
  BY <1>3, <1>4, <1>7 DEF Own, Exists
<1>15. (At(p, "built") \/ Succeeded(p)) /\ ~j.stop =>
          /\ Clean(p)'
          /\ Output(j) \notin Temps(j) =>
               /\ Own(p, Output(j))'
               /\ At(p, "exit") /\ j.run => ps[p].ran.prog = ps[p].prog
  BY <1>13, <1>14 DEF Progress
<1>16. /\ Succeeded(p)' = Succeeded(p) /\ \A pc : At(p, pc)' = At(p, pc)
  BY <1>1 DEF Succeeded, At
<1>17. ps[p].pc \in {"tool_write", "asm_write"} => ps[p].held = {ps[p].prog}
  BY DEF Progress
<1>18. QED
  BY <1>1, <1>3, <1>9, <1>10, <1>11, <1>12, <1>15, <1>16, <1>17 DEF Progress

LEMMA StepPreserves ==
  ASSUME IInv, [Next]_vars
  PROVE  IInv'
<1>1. CASE UNCHANGED vars
  BY <1>1 DEF vars, IInv, TypeOK, Typed, Job, At, Alone, Progress, Own, Exists, Clean, Succeeded
<1>2. ASSUME NEW p \in Procs, Step(p) \/ Kill(p) PROVE IInv'
  <2>1. Frame(p) /\ Typed(p)' /\ (Progress(p) => Progress(p)')
    BY <1>2, StepGood DEF IInv, Good
  <2>2. TypeOK'
    <3>1. DOMAIN ps' = Procs
      BY <2>1 DEF Frame
    <3>2. ASSUME NEW q \in Procs PROVE Typed(q)'
      <4>1. CASE q = p
        BY <2>1, <4>1
      <4>2. CASE q # p
        <5>1. ps'[q] = ps[q] /\ Typed(q)
          BY <2>1, <4>2 DEF Frame, IInv, TypeOK
        <5>2. QED BY <5>1 DEF Typed, Job, At
      <4>3. QED BY <4>1, <4>2
    <3>3. QED BY <3>1, <3>2 DEF TypeOK
  <2>3. ASSUME NEW q \in Procs, Alone(q)' PROVE Progress(q)'
    <3>1. \A r \in Procs : Job(r)' = Job(r)
      BY <2>1 DEF Frame, Job
    <3>2. Alone(q)
      BY <2>3, <3>1 DEF Alone
    <3>3. CASE q = p
      BY <2>1, <3>2, <3>3 DEF IInv
    <3>4. CASE q # p
      BY <2>1, <3>2, <3>4, OtherStep DEF IInv
    <3>5. QED BY <3>3, <3>4
  <2>4. QED BY <2>2, <2>3 DEF IInv
<1>3. QED BY <1>1, <1>2 DEF Next

LEMMA InitInvariant ==
  ASSUME Init
  PROVE  IInv
<1>1. PICK j \in [Procs -> Jobs] : ps = [p \in Procs |-> Start(j[p])]
  BY DEF Init
<1>2. ASSUME NEW p \in Procs PROVE Typed(p) /\ Progress(p)
  <2>1. ps[p] = Start(j[p]) /\ j[p] \in Jobs
    BY <1>1
  <2>2. /\ DOMAIN ps[p] = Fields /\ ps[p].job = j[p] /\ ps[p].pc = "read" /\ ps[p].stage = 1
    BY <2>1 DEF Start, Fields
  <2>3. QED
    BY <2>1, <2>2 DEF Typed, Progress, Job, At, ForC, ForAsm, Before, Tool, Succeeded
<1>3. QED BY <1>1, <1>2 DEF IInv, TypeOK

\* What every reachable state satisfies: a process that writes no path another
\* one writes owns the files it goes on to read (c_compile, main).
THEOREM DriverInvariant == Spec => []IInv
<1>1. Init => IInv
  BY InitInvariant
<1>2. IInv /\ [Next]_vars => IInv'
  BY StepPreserves
<1>3. QED BY <1>1, <1>2, PTL DEF Spec

\* A compiler that reports success has left a binary of its own program at the
\* path of -o, however many others run and whichever of them are killed, if no
\* one else writes there or to the intermediate files (main, c_compile).
THEOREM DriverOwnBinary == Spec => []OwnBinary
<1>1. IInv => OwnBinary
  BY DEF IInv, OwnBinary, Progress, Succeeded, Own
<1>2. QED BY <1>1, DriverInvariant, PTL

\* A successful build that shares no path has removed the generated file, the
\* listing and the objects of a universal binary; the one file of its own that
\* may stay is the object of a boot image (main, c_compile).
THEOREM DriverNoLeftovers == Spec => []NoLeftovers
<1>1. ASSUME IInv, NEW p \in Procs, Succeeded(p), Alone(p), ~Job(p).stop,
             NEW x \in Intermediates(Job(p)), Exists(x)
      PROVE  Job(p).target = "boot" /\ x # c_path(Job(p))
  <2>1. Clean(p) /\ Job(p) \in Jobs
    BY <1>1 DEF IInv, Progress, TypeOK, Typed
  <2>2. Job(p).target # "asm"
    BY <1>1, <2>1 DEF Intermediates, Clean
  <2>3. x # c_path(Job(p)) /\ x \notin Temps(Job(p))
    BY <1>1, <2>1, <2>2 DEF Clean
  <2>4. QED BY <1>1, <2>1, <2>2, <2>3, OnTheWay
<1>2. IInv => NoLeftovers
  BY <1>1 DEF NoLeftovers
<1>3. QED BY <1>2, DriverInvariant, PTL

=============================================================================
