------------------------------ MODULE Generics ------------------------------
(***************************************************************************)
(* semantic_analyze of src/semantic.c on top-level declarations: the pass  *)
(* that runs #run blocks, the pass that declares names and the pass that   *)
(* visits bodies.  All three walk a list that grows: emit() appends the    *)
(* declarations it parses, and every call of a generic function appends a  *)
(* copy of the function with concrete types.                               *)
(***************************************************************************)
EXTENDS Integers, FiniteSets, SequencesExt

CONSTANTS
  Programs,     \* lists of declarations
  Builtins,     \* names semantic_analyze declares itself
  StackDepth,   \* calls of monomorphize_type the stack has room for
  MaxDecls      \* bound on the length of the list

VARIABLES
  source,   \* the declarations of the file
  decls,    \* the declarations now
  pc,       \* "run", "block", "declare", "visit", "calls", "done" or "crashed"
  i,        \* index of the loop over the declarations
  j,        \* the next call in the body of declaration i
  scope,    \* names declared in the global scope
  errors,   \* the calls whose function has been reported as undefined: <<declaration, call>>
  resolved  \* <<declaration, call>> |-> the instance the call is redirected to

vars == <<source, decls, pc, i, j, scope, errors, resolved>>

\* A type: a primitive or a name, or a constructor applied to types.
Type(c, n, of) == [c |-> c, n |-> n, of |-> of]

I64 == Type("prim", "i64", <<>>)

\* Declarations.  A function has type parameters, parameter types and the
\* calls of its body; types in the body occur in the arguments of calls.
Func(name, tps, params, calls) ==
  [kind |-> "func", name |-> name, tps |-> tps, params |-> params, calls |-> calls,
   emits |-> <<>>, freed |-> FALSE, origin |-> 0]

\* A #run block calls functions and emits declarations.
Run(calls, emits) == [Func("", <<>>, <<>>, calls) EXCEPT !.kind = "run", !.emits = emits]

\* The copy of an emitted declaration other than a function has no contents.
Blank == [Func("", <<>>, <<>>, <<>>) EXCEPT !.kind = "blank"]

IsGeneric(d) == d.kind = "func" /\ d.tps # <<>>

----------------------------------------------------------------------------
(* Instances.                                                              *)

Overflow == Type("overflow", "", <<>>)

\* References, pointers, arrays, slices, optionals, tuples and functions.
HasParts(t) == t.c \notin {"prim", "named"}

\* A name that is a type parameter stands for its concrete type, which is
\* itself substituted: a concrete type that contains the parameter it stands
\* for is substituted over and over, until the stack is used up.
RECURSIVE monomorphize_type(_, _, _, _)
monomorphize_type(tps, cts, t, depth) ==
  LET Sub(u) == monomorphize_type(tps, cts, u, depth - 1)
      bound == {k \in DOMAIN tps : t.c = "named" /\ tps[k] = t.n /\ k <= Len(cts)}
      of == [k \in DOMAIN t.of |-> Sub(t.of[k])]
  IN CASE depth = 0     -> Overflow
       [] bound # {}    -> Sub(cts[Min(bound)])
       [] HasParts(t)   -> IF Overflow \in ToSet(of) THEN Overflow ELSE [t EXCEPT !.of = of]
       [] OTHER         -> t

\* Mutant: the argument behind the one in question.
InferType_Next(call, k) ==
  IF k + 1 <= Len(call.args) /\ call.args[k + 1].k = "typed" THEN call.args[k + 1].t ELSE I64

\* The concrete type of type parameter k: the type of argument k, whatever
\* the type of parameter k is; i64 where nothing is known.
InferType(call, k) ==
  IF k <= Len(call.args) /\ call.args[k].k = "typed" THEN call.args[k].t ELSE I64

concrete_types(g, call) == [k \in DOMAIN g.tps |-> InferType(call, k)]

\* The copy of an argument.
monomorphize_expr(tps, cts, a) ==
  [a EXCEPT !.t = monomorphize_type(tps, cts, @, StackDepth)]

\* The copy of a body: its calls, with the types of their arguments.
monomorphize_node(tps, cts, calls) ==
  [c \in DOMAIN calls |-> [calls[c] EXCEPT !.args = [k \in DOMAIN @ |-> monomorphize_expr(tps, cts, @[k])]]]

\* The copy of a generic function with its signature and body.
monomorphize_func(g, cts, index) ==
  LET Sub(t) == monomorphize_type(g.tps, cts, t, StackDepth)
  IN [g EXCEPT !.tps = <<>>, !.origin = index, !.freed = FALSE,
               !.params = [k \in DOMAIN @ |-> Sub(@[k])],
               !.calls = monomorphize_node(g.tps, cts, @)]

\* The types that occur in a declaration.
TypesOf(d) ==
  ToSet(d.params) \cup UNION {{d.calls[c].args[k].t : k \in DOMAIN d.calls[c].args} : c \in DOMAIN d.calls}

----------------------------------------------------------------------------
Init ==
  /\ source \in Programs /\ decls = source
  /\ pc = "run" /\ i = 1 /\ j = 1
  /\ scope = Builtins /\ errors = {} /\ resolved = <<>>

EmittedNames(d) == {d.emits[e].name : e \in {e \in DOMAIN d.emits : d.emits[e].kind = "func"}}

\* Mutant: emitted functions are not declared before the first pass.
DeclaredBy_Later(d) == {}

\* The names the emit() calls of a block declare.
DeclaredBy(d) == EmittedNames(d)

\* The nodes emit() appends: a function keeps pointing into the arena of the
\* parser that made it, which is destroyed; nothing is copied of the others.
EmittedDecls(d) ==
  [e \in DOMAIN d.emits |->
     IF d.emits[e].kind = "func" THEN [d.emits[e] EXCEPT !.freed = TRUE] ELSE Blank]

\* Pre-pass: one declaration of the list, which grows meanwhile.
RunBlock ==
  /\ pc = "run" /\ i <= Len(decls)
  /\ IF decls[i].kind = "run" THEN pc' = "block" /\ j' = 1 /\ UNCHANGED i
                              ELSE i' = i + 1 /\ UNCHANGED <<pc, j>>
  /\ UNCHANGED <<source, decls, scope, errors, resolved>>

\* The statements of a block have been visited, which VisitCall does; its emit()
\* calls are done.
RunEmits ==
  /\ pc = "block" /\ j > Len(decls[i].calls)
  /\ decls' = decls \o EmittedDecls(decls[i])
  /\ scope' = scope \cup DeclaredBy(decls[i])
  /\ pc' = "run" /\ i' = i + 1
  /\ UNCHANGED <<source, j, errors, resolved>>

RunBlocksDone ==
  /\ pc = "run" /\ i > Len(decls)
  /\ pc' = "declare" /\ i' = 1
  /\ UNCHANGED <<source, decls, j, scope, errors, resolved>>

\* First pass; a declaration without contents has no name to read.
DeclareNames ==
  /\ pc = "declare"
  /\ IF \E k \in DOMAIN decls : decls[k].kind = "blank"
     THEN pc' = "crashed" /\ UNCHANGED scope
     ELSE /\ pc' = "visit"
          /\ scope' = scope \cup {decls[k].name : k \in {k \in DOMAIN decls : decls[k].kind = "func"}}
  /\ UNCHANGED <<source, decls, i, j, errors, resolved>>

\* Second pass: the body of declaration i.  The body of an emitted function
\* is in freed memory: reading it may fail.
VisitBody ==
  /\ pc = "visit" /\ i <= Len(decls)
  /\ \/ pc' = "calls" /\ j' = 1
     \/ decls[i].freed /\ pc' = "crashed" /\ UNCHANGED j
  /\ UNCHANGED <<source, decls, i, scope, errors, resolved>>

\* Mutant: every call makes a copy.
NeedsInstance_Always(d) == d.kind = "func"

\* Only generic functions are copied.
NeedsInstance(d) == IsGeneric(d)

\* The declaration a name is resolved to, the one declared last: functions are
\* declared when they are emitted, all in a row, and each again when it is visited.
Lookup(name) ==
  LET all == {k \in DOMAIN decls : decls[k].name = name /\ decls[k].kind = "func" /\ decls[k].origin = 0}
      visited == {k \in all : k <= i}
  IN IF pc = "calls" /\ visited # {} THEN Max(visited)
     ELSE IF pc = "block" THEN Max({k \in all : decls[k].freed}) ELSE Max(all)

Instantiates(call) ==
  IF call.f \in scope \ Builtins THEN NeedsInstance(decls[Lookup(call.f)]) ELSE FALSE

\* A call in the body of declaration i, or in the #run block i.  Copying an
\* emitted function reads freed memory, which may fail.
VisitCall ==
  /\ pc \in {"block", "calls"} /\ j <= Len(decls[i].calls)
  /\ LET call == decls[i].calls[j] IN
     \/ /\ call.f \notin scope
        /\ errors' = errors \cup {<<i, j>>}
        /\ UNCHANGED <<decls, pc, resolved>>
     \/ /\ call.f \in scope /\ ~Instantiates(call)
        /\ UNCHANGED <<decls, pc, resolved, errors>>
     \/ /\ Instantiates(call) /\ decls[Lookup(call.f)].freed
        /\ pc' = "crashed"
        /\ UNCHANGED <<decls, resolved, errors>>
     \/ /\ Instantiates(call) /\ Len(decls) < MaxDecls
        /\ \E g \in {Lookup(call.f)} : \E cts \in {concrete_types(decls[g], call)} :
           LET mono == monomorphize_func(decls[g], cts, g) IN
              IF Overflow \in TypesOf(mono)
              THEN pc' = "crashed" /\ UNCHANGED <<decls, resolved>>
              ELSE /\ decls' = Append(decls, mono)
                   /\ resolved' = [x \in DOMAIN resolved \cup {<<i, j>>} |->
                                     IF x = <<i, j>> THEN Len(decls') ELSE resolved[x]]
                   /\ UNCHANGED pc
        /\ UNCHANGED errors
  /\ j' = j + 1
  /\ UNCHANGED <<source, i, scope>>

BodyDone ==
  /\ pc = "calls" /\ j > Len(decls[i].calls)
  /\ pc' = "visit" /\ i' = i + 1
  /\ UNCHANGED <<source, decls, j, scope, errors, resolved>>

Analysed ==
  /\ pc = "visit" /\ i > Len(decls)
  /\ pc' = "done"
  /\ UNCHANGED <<source, decls, i, j, scope, errors, resolved>>

Next ==
  \/ RunBlock \/ RunEmits \/ RunBlocksDone \/ DeclareNames \/ VisitBody \/ VisitCall \/ BodyDone \/ Analysed

Spec == Init /\ [][Next]_vars /\ WF_vars(Next)

----------------------------------------------------------------------------
(* Properties.                                                             *)

RECURSIVE Mentions(_)
Mentions(t) == (IF t.c = "named" THEN {t.n} ELSE {}) \cup UNION {Mentions(t.of[k]) : k \in DOMAIN t.of}

\* No concrete type of the call mentions a parameter of the function called.
NoCapture(g, call) ==
  \A k \in DOMAIN g.tps : Mentions(InferType(call, k)) \cap ToSet(g.tps) = {}

\* Parameter k has type parameter k for its type.
Aligned(g) ==
  /\ Len(g.params) >= Len(g.tps)
  /\ \A k \in DOMAIN g.tps : g.params[k] = Type("named", g.tps[k], <<>>)

\* A redirected call fits its instance: each argument whose type is known has
\* the type of the parameter it is passed for, in the bodies of copies too.
\* This needs functions whose type parameters stand in the order of their
\* parameters, and calls whose types do not mention the callee's parameters.
InstanceFitsCall ==
  \A x \in DOMAIN resolved :
    LET call == decls[x[1]].calls[x[2]]
        mono == decls[resolved[x]]
        g == decls[mono.origin]
    IN (Aligned(g) /\ NoCapture(g, call)) =>
         \A k \in DOMAIN g.tps :
           (k <= Len(call.args) /\ call.args[k].k = "typed") => mono.params[k] = call.args[k].t

SourceCalls == UNION {{<<d, c>> : c \in DOMAIN source[d].calls} : d \in DOMAIN source}

Callee(x) == source[x[1]].calls[x[2]].f

\* The names of the functions of a program, emitted ones included.
AllNames == Builtins \cup {source[d].name : d \in DOMAIN source}
                     \cup UNION {EmittedNames(source[d]) : d \in DOMAIN source}

\* A call in a #run block, of a function that no earlier block emits.
Early(x) ==
  /\ source[x[1]].kind = "run"
  /\ Callee(x) \notin Builtins \cup UNION {EmittedNames(source[e]) : e \in 1..x[1] - 1}

\* A call of a function that is defined nowhere is reported, and no other one is,
\* functions of later declarations and functions that are emitted included; in a
\* #run block this holds of what earlier blocks emit.
CallsReported ==
  pc = "done" => \A x \in SourceCalls :
    /\ Callee(x) \notin AllNames => x \in errors
    /\ Callee(x) \in AllNames /\ ~Early(x) => x \notin errors

\* SPECIFICATION.md:1736 `Code inside #run { } executes at compile time', with an
\* example that calls a function.  A #run block could call the functions of its file;
\* they are reported as undefined.
RunCallsKnown ==
  pc = "done" => \A x \in SourceCalls :
    (\E d \in DOMAIN source : source[d].kind = "func" /\ source[d].name = Callee(x)) => x \notin errors

\* SPECIFICATION.md:1742 `emit("const TABLE_SIZE = {result}")': what a block emits can
\* be declared and visited.  The name of a constant is read through NULL.
EmitsInjected == pc # "crashed"

\* Functions called by f, and by those, and so on.
RECURSIVE Reach(_)
Reach(F) ==
  LET more == F \cup UNION {{source[d].calls[c].f : c \in DOMAIN source[d].calls} :
                              d \in {d \in DOMAIN source : source[d].name \in F}}
  IN IF more = F THEN F ELSE Reach(more)

\* Nothing is emitted; no generic function reaches itself, and none calls
\* another one that names its type parameters the same.
Plain ==
  /\ \A d \in DOMAIN source : source[d].emits = <<>>
  /\ \A d \in DOMAIN source : IsGeneric(source[d]) =>
       LET below == Reach({source[d].calls[c].f : c \in DOMAIN source[d].calls}) IN
       /\ source[d].name \notin below
       /\ \A e \in DOMAIN source : (source[e].name \in below /\ IsGeneric(source[e])) =>
            ToSet(source[e].tps) \cap ToSet(source[d].tps) = {}

\* The analysis of a plain program comes to an end although it appends to the
\* list it walks: the copies of copies run out.
Terminates == Plain => <>(pc = "done")

============================================================================
