------------------------------- MODULE Driver -------------------------------
(***************************************************************************)
(* main of src/aether.c with c_compile and the part of codegen_assemble    *)
(* that it reaches: compilers running side by side on one file system.     *)
(* A path is a tuple <<directory, base name, extensions ...>>; a file has  *)
(* a form and the program it was made from.  The tools that main starts    *)
(* with system() are external: each reads its inputs, then writes its      *)
(* output, and may fail.  A process may be killed between any two steps.   *)
(***************************************************************************)
EXTENDS Integers, FiniteSets, SequencesExt

CONSTANTS
  Procs,       \* running compilers
  Jobs,        \* command lines: [input, output, target, stop, run]
  SourceText,  \* the declarations of each program
  Broken,      \* programs with syntax errors
  Disk         \* the files present at the start

Targets == {"host", "boot", "universal", "universal_all", "lib", "asm"}

NoOutput == <<>>   \* no -o on the command line

ASSUME JobAssumption ==
  \A j \in Jobs : /\ j.target \in Targets /\ j.stop \in BOOLEAN /\ j.run \in BOOLEAN
                  /\ j.output \in Seq(STRING)

VARIABLES
  files,   \* contents by path; a path outside the domain does not exist
  ps       \* the state of each process

vars == <<files, ps>>

Empty == [form |-> "empty", prog |-> "none"]

Made(form, prog) == [form |-> form, prog |-> prog]

Exists(path) == path \in DOMAIN files

Write(path, c) == files' = [x \in DOMAIN files \cup {path} |-> IF x = path THEN c ELSE files[x]]

Unlink(S) == files' = [x \in DOMAIN files \ S |-> files[x]]

\* The name main picks when there is no -o: only the base name of the input
\* enters it, and that only if the input ends in .ae.
DefaultOutput(j) ==
  LET named == Len(j.input) > 2 /\ Last(j.input) = "ae" IN
  CASE j.target = "host" -> <<"/tmp/kernel", IF named THEN j.input[2] ELSE "aether.out">>
    [] j.target = "lib"  -> <<"cwd", IF named THEN j.input[2] ELSE "lib", "aelib">>
    [] OTHER             -> <<"cwd", "a.out">>

Output(j) == IF j.output = NoOutput THEN DefaultOutput(j) ELSE j.output

c_path(j) == Append(Output(j), "c")

asm_path(j) == Append(Output(j), "asm")

\* c_compile: the commands of each target, what they read and write.
Stages(j) ==
  LET c == c_path(j)
      out == Output(j)
      boot == <<"/tmp", "aether_boot", "o">>
      x86 == <<"/tmp", "aether_univ_x86_64", "o">>
      arm == <<"/tmp", "aether_univ_arm64", "o">>
      all == <<"/tmp", "aether_univ_all", "o">>
      Cmd(in, to, form) == [in |-> in, to |-> to, form |-> form]
  IN CASE j.target = "host" -> <<Cmd({c}, out, "bin")>>
       [] j.target = "boot" -> <<Cmd({c}, boot, "obj"), Cmd({boot}, out, "bin")>>
       [] j.target = "universal" ->
            <<Cmd({c}, x86, "obj"), Cmd({c}, arm, "obj"), Cmd({x86, arm}, out, "bin")>>
       [] j.target = "universal_all" -> <<Cmd({c}, all, "obj"), Cmd({all}, out, "bin")>>
       [] j.target = "lib"  -> <<Cmd({c}, out, "obj")>>
       [] OTHER -> <<>>

\* What the last command of a universal build removes.
Temps(j) ==
  IF j.target \in {"universal", "universal_all"}
  THEN {Stages(j)[k].to : k \in 1..Len(Stages(j)) - 1} ELSE {}

----------------------------------------------------------------------------
Start(j) ==
  [pc |-> "read", job |-> j, prog |-> "none", decls |-> <<>>, i |-> 1,
   imported |-> {}, stage |-> 1, held |-> {}, ran |-> Empty, code |-> -1]

Init ==
  /\ files = Disk
  /\ \E j \in [Procs -> Jobs] : ps = [p \in Procs |-> Start(j[p])]

Job(p) == ps[p].job

At(p, pc) == ps[p].pc = pc

Goto(p, pc) == ps' = [ps EXCEPT ![p].pc = pc]

Exit(p, code) == ps' = [ps EXCEPT ![p].pc = "exit", ![p].code = code]

Decls(c) == IF c.form = "src" THEN SourceText[c.prog] ELSE <<>>

IsImport(d) == d.kind = "import"

NotImport(d) == d.kind # "import"

ReadInput(p) ==
  /\ At(p, "read")
  /\ LET in == Job(p).input IN
     IF ~Exists(in) \/ files[in].prog \in Broken
     THEN Exit(p, 1)
     ELSE ps' = [ps EXCEPT ![p].pc = "imports", ![p].prog = files[in].prog,
                           ![p].decls = Decls(files[in])]
  /\ UNCHANGED files

\* import_path: what an import spells, beside the input.
Spelled(dir, d) == IF d.ext = "" THEN <<dir, d.name>> ELSE <<dir, d.name, d.ext>>

\* The files an import may name, in the order they are tried.
Candidates(dir, d) ==
  IF d.ext # "" THEN <<Spelled(dir, d)>>
  ELSE <<<<dir, d.name, "ae">>, <<dir, d.name, "aelib">>,
         <<"cwd", d.name, "ae">>, <<"cwd", d.name, "aelib">>>>

IsLibrary(path) == Last(path) = "aelib"

\* The declarations the file c at path adds: those of a source file without its
\* own imports, or externs for the symbols in the metadata of a library.  A
\* file that has no metadata header adds none.
Imported(path, c) ==
  IF ~IsLibrary(path) THEN SelectSeq(Decls(c), NotImport)
  ELSE IF c.form # "aelib" THEN <<>>
  ELSE LET pub == SelectSeq(SourceText[c.prog], LAMBDA d : d.kind = "func" /\ d.pub) IN
       [k \in 1..Len(pub) |-> [pub[k] EXCEPT !.kind = "extern"]]

\* Mutant: the index moves on although the import node was removed.
Merge_Skips(s, new) == [s EXCEPT !.decls = RemoveAt(@, s.i) \o new, !.i = @ + 1]

\* The declarations go to the end, the import node is removed, and the index
\* stays where it is (i-- before the i++ of the loop).
Merge(s, new) == [s EXCEPT !.decls = RemoveAt(@, s.i) \o new]

\* Mutant: `continue' in a loop that does not count by itself.
PassOver_Stays(s) == s

\* Any other declaration, and an import that was merged before, is passed over.
PassOver(s) == [s EXCEPT !.i = @ + 1]

\* One turn of the loop that resolves imports.  imported_paths takes what the
\* import spells and, if it leads to a library, the path of the library.
ResolveImport(p) ==
  /\ At(p, "imports") /\ ps[p].i <= Len(ps[p].decls)
  /\ LET s == ps[p]
         d == s.decls[s.i]
         import_path == Spelled(s.job.input[1], d)
         found == SelectSeq(Candidates(s.job.input[1], d), Exists)
         resolved == found[1]
     IN IF d.kind # "import" \/ import_path \in s.imported
        THEN ps' = [ps EXCEPT ![p] = PassOver(s)]
        ELSE IF found = <<>> \/ files[resolved].prog \in Broken
        THEN Exit(p, 1)
        ELSE LET also == IF IsLibrary(resolved) THEN {resolved} ELSE {}
                 t == [s EXCEPT !.imported = @ \cup {import_path} \cup also]
             IN ps' = [ps EXCEPT ![p] = Merge(t, Imported(resolved, files[resolved]))]
  /\ UNCHANGED files

ImportsDone(p) ==
  /\ At(p, "imports") /\ ps[p].i > Len(ps[p].decls)
  /\ Goto(p, "analyse")
  /\ UNCHANGED files

\* Phases 3 and 3.5; the errors semantic analysis finds are not modelled here.
Analyse(p) ==
  /\ At(p, "analyse")
  /\ \/ Exit(p, 1)
     \/ Goto(p, IF Job(p).target = "asm" THEN "open_asm" ELSE "open_c")
  /\ UNCHANGED files

OpenC(p) ==
  /\ At(p, "open_c")
  /\ \/ Exit(p, 1) /\ UNCHANGED files
     \/ Goto(p, "generate") /\ Write(c_path(Job(p)), Empty)

\* c_generate fills the file; with -S the compiler is not run.
Generate(p) ==
  /\ At(p, "generate")
  /\ \/ Exit(p, 1) /\ UNCHANGED files
     \/ /\ Write(c_path(Job(p)), Made("c", ps[p].prog))
        /\ Goto(p, IF Job(p).stop THEN "built" ELSE "tool")

\* external: a command of c_compile opens what it reads ...
ToolRead(p) ==
  /\ At(p, "tool")
  /\ LET st == Stages(Job(p))[ps[p].stage] IN
     IF \E x \in st.in : ~Exists(x) \/ files[x].form = "empty"
     THEN Exit(p, 1)
     ELSE ps' = [ps EXCEPT ![p].pc = "tool_write", ![p].held = {files[x].prog : x \in st.in}]
  /\ UNCHANGED files

\* Mutant: the exit status of the command is not looked at.
ToolFailed_Ignored(p) == Goto(p, "compiled")

\* c_compile reports a command that fails; main gives up.
ToolFailed(p) == Exit(p, 1)

\* external: ... and writes its output, or fails.
ToolWrite(p) ==
  /\ At(p, "tool_write")
  /\ LET st == Stages(Job(p))[ps[p].stage]
         prog == IF Cardinality(ps[p].held) = 1 THEN CHOOSE x \in ps[p].held : TRUE ELSE "mixed"
         last == ps[p].stage = Len(Stages(Job(p)))
     IN \/ /\ Write(st.to, Made(st.form, prog))
           /\ ps' = [ps EXCEPT ![p].pc = IF last THEN "compiled" ELSE "tool", ![p].stage = @ + 1]
        \/ ToolFailed(p) /\ Unlink({st.to})

\* Mutant: the intermediate file is kept.
Compiled_KeepsC(p) ==
  /\ At(p, "compiled")
  /\ Unlink(Temps(Job(p)))
  /\ Goto(p, "built")

\* The generated C file is removed once it has been compiled.
Compiled(p) ==
  /\ At(p, "compiled")
  /\ Unlink({c_path(Job(p))} \cup Temps(Job(p)))
  /\ Goto(p, "built")

\* The program `run' starts.
RunPath(j) == Output(j)

Built(p) ==
  /\ At(p, "built")
  /\ IF ~Job(p).run THEN Exit(p, 0)
     ELSE LET out == RunPath(Job(p)) IN
          ps' = [ps EXCEPT ![p].pc = "exit", ![p].code = 0,
                           ![p].ran = IF Exists(out) THEN files[out] ELSE Empty]
  /\ UNCHANGED files

\* The listing targets: the NASM text goes to a file, codegen_assemble reads
\* it back, translates it and writes the output; main removes the file.
OpenAsm(p) ==
  /\ At(p, "open_asm")
  /\ \/ Exit(p, 1) /\ UNCHANGED files
     \/ Goto(p, "assemble") /\ Write(asm_path(Job(p)), Made("asm", ps[p].prog))

AssembleRead(p) ==
  /\ At(p, "assemble")
  /\ \/ Goto(p, "asm_failed")
     \/ /\ Exists(asm_path(Job(p)))
        /\ ps' = [ps EXCEPT ![p].pc = "asm_write", ![p].held = {files[asm_path(Job(p))].prog}]
  /\ UNCHANGED files

AssembleWrite(p) ==
  /\ At(p, "asm_write")
  /\ \/ Goto(p, "asm_failed") /\ UNCHANGED files
     \/ /\ \E prog \in ps[p].held : Write(Output(Job(p)), Made("bin", prog))
        /\ Goto(p, "asm_done")

Assembled(p) ==
  /\ ps[p].pc \in {"asm_done", "asm_failed"}
  /\ Unlink({asm_path(Job(p))})
  /\ IF At(p, "asm_done") THEN Goto(p, "built") ELSE Exit(p, 1)

\* A signal ends the process; what it wrote stays.
Kill(p) ==
  /\ ps[p].pc \notin {"exit", "killed"}
  /\ Goto(p, "killed")
  /\ UNCHANGED files

Step(p) ==
  \/ ReadInput(p) \/ ResolveImport(p) \/ ImportsDone(p) \/ Analyse(p)
  \/ OpenC(p) \/ Generate(p) \/ ToolRead(p) \/ ToolWrite(p) \/ Compiled(p) \/ Built(p)
  \/ OpenAsm(p) \/ AssembleRead(p) \/ AssembleWrite(p) \/ Assembled(p)

Next == \E p \in Procs : Step(p) \/ Kill(p)

\* The operating system runs every process that can run.
Spec == Init /\ [][Next]_vars /\ \A p \in Procs : WF_vars(Step(p))

----------------------------------------------------------------------------
(* Properties.                                                             *)

\* The paths a job writes to.
Touches(j) ==
  IF j.target = "asm" THEN {Output(j), asm_path(j)}
  ELSE {Output(j), c_path(j)} \cup {Stages(j)[k].to : k \in 1..Len(Stages(j))}

\* Nobody else writes where p writes.
Alone(p) ==
  \A q \in Procs \ {p} : Touches(Job(q)) \cap Touches(Job(p)) = {}

Succeeded(p) == At(p, "exit") /\ ps[p].code = 0

\* Compiler processes do not disturb each other: one that reports success and
\* writes no path that another one writes has left a binary of its own program,
\* whatever the others did meanwhile and whichever of them were killed, and
\* `aether run' has run that one (-S apart).  The conditions are needed: base
\* names, /tmp/aether_boot.o and the /tmp/aether_univ files are shared by jobs
\* whose outputs differ, and a universal build that is told to write to one of
\* the objects it removes succeeds without a binary.
OwnBinary ==
  \A p \in Procs :
    Succeeded(p) /\ Alone(p) /\ ~Job(p).stop /\ Output(Job(p)) \notin Temps(Job(p)) =>
      /\ Exists(Output(Job(p)))
      /\ files[Output(Job(p))].prog = ps[p].prog
      /\ Job(p).run => ps[p].ran.prog = ps[p].prog

\* What a job writes on the way to its output.
Intermediates(j) ==
  IF j.target = "asm" THEN {asm_path(j)}
  ELSE {c_path(j)} \cup {Stages(j)[k].to : k \in 1..Len(Stages(j)) - 1}

\* A compiler that reports success has removed every file it wrote on the way,
\* with one exception: of a boot image the object /tmp/aether_boot.o may stay,
\* which c_compile never removes.
NoLeftovers ==
  \A p \in Procs : Succeeded(p) /\ Alone(p) /\ ~Job(p).stop =>
    \A x \in Intermediates(Job(p)) :
      Exists(x) => Job(p).target = "boot" /\ x # c_path(Job(p))

\* When imports are resolved the program is its own declarations, followed by
\* what each of its imports adds, once and in order, whatever the others wrote
\* meanwhile.  An import adds nothing if an earlier one is spelled alike or led
\* to the library that it names with its extension; it does add its file again
\* if only the files agree, not the spellings (`import "pre.aelib"' before
\* `import "pre"').
ImportsMerged ==
  \A p \in Procs : At(p, "analyse") =>
    LET dir == Job(p).input[1]
        own == Decls(Disk[Job(p).input])
        named == SelectSeq(own, IsImport)
        File(k) == SelectSeq(Candidates(dir, named[k]), LAMBDA x : x \in DOMAIN Disk)[1]
        Merged(k) == \E l \in 1..k - 1 :
          \/ Spelled(dir, named[l]) = Spelled(dir, named[k])
          \/ IsLibrary(File(l)) /\ File(l) = Spelled(dir, named[k])
        Adds(k) == IF Merged(k) THEN <<>> ELSE Imported(File(k), Disk[File(k)])
    IN SelectSeq(ps[p].decls, NotImport) =
         SelectSeq(own, NotImport) \o FlattenSeq([k \in 1..Len(named) |-> Adds(k)])

\* Every process ends: no import cycle and no missing file keeps it running.
Finishes == \A p \in Procs : <>(ps[p].pc \in {"exit", "killed"})

============================================================================
