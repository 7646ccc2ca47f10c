------------------------------ MODULE Semantic ------------------------------
(***************************************************************************)
(* Name resolution and constant evaluation of src/semantic.c.  A behaviour *)
(* is one call of semantic_analyze.  The top-level declarations are chosen *)
(* first; the bodies of functions are chosen while semantic_visit_node     *)
(* walks them, one action per kind of node, so that a run covers every     *)
(* tree within the bounds.  Beside the chain of scopes of the code goes    *)
(* the chain SPECIFICATION.md prescribes (section 5.2), as a history.      *)
(*                                                                         *)
(* An expression is the one name it uses, or a literal; several names are  *)
(* several statements.  Instantiation of generics, emit() and the check    *)
(* for a final return are left out.                                        *)
(***************************************************************************)
EXTENDS Integers, Sequences

CONSTANTS
  Names,       \* the identifiers of the program
  Literals,    \* constant values
  Programs,    \* the sequences of top-level declarations explored
  MaxStmts,    \* bound on the statements of all bodies together
  MaxScopes    \* bound on the length of the chain of scopes

Values == Names \cup Literals

\* #run blocks hold one let; a class has one field and one method.
Decl ==
  [kind : {"func"}, name : Names, param : Names]
    \cup [kind : {"let", "const", "run"}, name : Names, value : Values]
    \cup [kind : {"class"}, name : Names, field : Names, method : Names]

TopNames(p) == {p[i].name : i \in {j \in DOMAIN p : p[j].kind # "run"}}

ASSUME SemanticAssumption ==
  /\ Names \cap Literals = {}
  /\ Programs \subseteq Seq(Decl) /\ <<>> \notin Programs
  /\ \A p \in Programs : \A i, j \in DOMAIN p :    \* no name is declared twice
       p[i].kind # "run" /\ p[j].kind # "run" /\ p[i].name = p[j].name => i = j
  /\ MaxStmts \in Nat /\ MaxScopes \in Nat

VARIABLES
  program,      \* the top-level declarations; const values are replaced by literals
  pass,         \* "run", "declare", "visit"
  at,           \* the top-level declaration the pass is at
  scopes,       \* from global_scope to current_scope: the newest declaration of each name
  eval,         \* the const declaration const_eval_expr is at, 0 when it does not run
  error_count,  \* sa->error_count, counted up to 1
  use,          \* the last name resolved: what it became and what it should
  lexical,      \* history: the scopes according to the specification
  misplaced,    \* history: names the code has declared in another scope than it says
  fresh,        \* the number of declarations met
  stmts,        \* the number of statements visited
  source        \* history: the program before constants were replaced

vars == <<program, pass, at, scopes, eval, error_count, use, lexical, misplaced, fresh,
          stmts, source>>

\* A declaration is a number: its place for a top-level one, otherwise above.
None == 0

Empty == [n \in Names |-> None]

NoUse == [name |-> "", to |-> None, ref |-> None, early |-> FALSE]

Fields == {program[i].field : i \in {j \in DOMAIN program : program[j].kind = "class"}}

----------------------------------------------------------------------------
(* Scopes.                                                                 *)

\* Mutant: a new symbol goes behind the ones the scope already has.
scope_declare_Behind(chain, n, d) ==
  IF chain[Len(chain)][n] # None THEN chain ELSE [chain EXCEPT ![Len(chain)][n] = d]

\* The new symbol comes first in the list of the current scope.
scope_declare(chain, n, d) == [chain EXCEPT ![Len(chain)][n] = d]

\* The scopes of the chain that know the name.
Knowing(chain, n) == {i \in DOMAIN chain : chain[i][n] # None}

scope_lookup(chain, n) ==
  IF Knowing(chain, n) = {} THEN None
  ELSE LET i == CHOOSE i \in Knowing(chain, n) : \A j \in Knowing(chain, n) : j <= i
       IN  chain[i][n]

scope_enter(chain) == Append(chain, Empty)

scope_exit(chain) == SubSeq(chain, 1, Len(chain) - 1)

\* A scope that starts with a declaration, for the specification's chain.
Bind(n, d) == [Empty EXCEPT ![n] = d]

\* Shadowing in the innermost scope, for the specification's chain.
Rebind(chain, n, d) == [chain EXCEPT ![Len(chain)][n] = d]

\* What the specification says a name means.
Meaning(chain, n) ==
  LET knows == {i \in DOMAIN chain : chain[i][n] # None} IN
  IF knows = {} THEN None
  ELSE chain[CHOOSE i \in knows : \A j \in knows : j <= i][n]

\* semantic_visit_expr on a name, in the code's scopes and the specification's.
semantic_visit_expr(v, chain, lchain) ==
  IF v \in Literals THEN UNCHANGED <<use, error_count>>
  ELSE LET d == scope_lookup(chain, v) IN
       /\ use' = [name |-> v, to |-> d, ref |-> Meaning(lchain, v), early |-> pass = "run"]
       /\ error_count' = IF d = None THEN 1 ELSE error_count

Global == [n \in Names |->
             IF n \in TopNames(program)
             THEN CHOOSE i \in DOMAIN program : program[i].kind # "run" /\ program[i].name = n
             ELSE None]

Init ==
  /\ program \in Programs /\ source = program
  /\ pass = "run" /\ at = 1
  /\ scopes = <<Empty>> /\ lexical = <<Global>>
  /\ eval = 0 /\ error_count = 0 /\ use = NoUse
  /\ misplaced = {} /\ fresh = Len(program) /\ stmts = 0

----------------------------------------------------------------------------
(* The three passes of semantic_analyze over the top-level declarations.   *)

AtDecl(p, kinds) ==
  /\ pass = p /\ at <= Len(program) /\ Len(scopes) = 1 /\ eval = 0
  /\ program[at].kind \in kinds

\* Go on with the next declaration, or with the next pass.
NextDecl ==
  IF at < Len(program) \/ pass = "visit"
  THEN at' = at + 1 /\ UNCHANGED pass
  ELSE at' = 1 /\ pass' = IF pass = "run" THEN "declare" ELSE "visit"

\* The let of a #run block, visited in front of all declarations and again in
\* their order, both times in the global scope.
VisitRun ==
  \E p \in {"run", "visit"} :
    /\ AtDecl(p, {"run"})
    /\ semantic_visit_expr(program[at].value, scopes, lexical)
    /\ scopes' = scope_declare(scopes, program[at].name, fresh + 1)
    /\ misplaced' = misplaced \cup {program[at].name}
    /\ fresh' = fresh + 1
    /\ NextDecl
    /\ UNCHANGED <<program, eval, lexical, stmts, source>>

\* The first pass of NODE_PROGRAM declares every top-level name.
DeclareTop ==
  /\ AtDecl("declare", {"func", "const", "class", "let"})
  /\ scopes' = scope_declare(scopes, program[at].name, at)
  /\ NextDecl
  /\ UNCHANGED <<program, eval, error_count, use, lexical, misplaced, fresh, stmts, source>>

\* The declarations the first two passes have nothing to do with.
SkipDecl ==
  /\ \/ AtDecl("run", {"func", "const", "class", "let"})
     \/ AtDecl("declare", {"run"})
  /\ NextDecl
  /\ UNCHANGED <<program, scopes, eval, error_count, use, lexical, misplaced, fresh, stmts,
                 source>>

VisitGlobalLet ==
  /\ AtDecl("visit", {"let"})
  /\ semantic_visit_expr(program[at].value, scopes, lexical)
  /\ scopes' = scope_declare(scopes, program[at].name, at)
  /\ NextDecl
  /\ UNCHANGED <<program, eval, lexical, misplaced, fresh, stmts, source>>

\* The function is declared again, its parameter in a scope of its own, and its
\* body in a third.
VisitFunc ==
  /\ AtDecl("visit", {"func"})
  /\ LET outer == scope_declare(scopes, program[at].name, at) IN
     scopes' = scope_enter(scope_declare(scope_enter(outer), program[at].param, fresh + 1))
  /\ lexical' = Append(Append(lexical, Bind(program[at].param, fresh + 1)), Empty)
  /\ fresh' = fresh + 1
  /\ UNCHANGED <<program, pass, at, eval, error_count, use, misplaced, stmts, source>>

\* A method is visited like a function: its name is declared in the global scope,
\* and the fields of its class nowhere.
VisitClass ==
  /\ AtDecl("visit", {"class"})
  /\ LET outer == scope_declare(scope_declare(scopes, program[at].name, at),
                                program[at].method, fresh + 1) IN
     scopes' = scope_enter(scope_enter(outer))
  /\ lexical' = Append(Append(lexical, Bind(program[at].field, fresh + 2)), Empty)
  /\ misplaced' = misplaced \cup {program[at].method, program[at].field}
  /\ fresh' = fresh + 2
  /\ UNCHANGED <<program, pass, at, eval, error_count, use, stmts, source>>

VisitConst ==
  /\ AtDecl("visit", {"const"})
  /\ eval' = at
  /\ UNCHANGED <<program, pass, at, scopes, error_count, use, lexical, misplaced, fresh,
                 stmts, source>>

\* Mutant: the value is put where it was found.
const_eval_expr_InPlace ==
  LET v == program[eval].value
      d == IF v \in Names THEN scope_lookup(scopes, v) ELSE None
      followed == d \in DOMAIN program /\ program[d].kind = "const"
  IN
  /\ eval # 0
  /\ \/ /\ v \in Names /\ followed
        /\ eval' = d
        /\ UNCHANGED <<program, pass, at, scopes>>
     \/ /\ ~(v \in Names /\ followed)
        /\ program' = IF v \in Literals THEN [program EXCEPT ![eval].value = v] ELSE program
        /\ eval' = 0
        /\ scopes' = scope_declare(scopes, program[at].name, at)
        /\ NextDecl
  /\ UNCHANGED <<error_count, use, lexical, misplaced, fresh, stmts, source>>

\* Mutant: a name that is no constant is looked at again.
const_eval_expr_Waits ==
  LET v == program[eval].value
      d == IF v \in Names THEN scope_lookup(scopes, v) ELSE None
      followed == d \in DOMAIN program /\ program[d].kind = "const"
  IN
  /\ eval # 0
  /\ \/ /\ v \in Names /\ followed
        /\ eval' = d
        /\ UNCHANGED <<program, pass, at, scopes>>
     \/ /\ v \in Literals
        /\ program' = [program EXCEPT ![at].value = v]
        /\ eval' = 0
        /\ scopes' = scope_declare(scopes, program[at].name, at)
        /\ NextDecl
  /\ UNCHANGED <<error_count, use, lexical, misplaced, fresh, stmts, source>>

\* A name that is a const declaration is followed, and the value put in its place;
\* any other name ends the evaluation without one.
const_eval_expr ==
  LET v == program[eval].value
      d == IF v \in Names THEN scope_lookup(scopes, v) ELSE None
      followed == d \in DOMAIN program /\ program[d].kind = "const"
  IN
  /\ eval # 0
  /\ \/ /\ v \in Names /\ followed
        /\ eval' = d
        /\ UNCHANGED <<program, pass, at, scopes>>
     \/ /\ ~(v \in Names /\ followed)
        /\ program' = IF v \in Literals THEN [program EXCEPT ![at].value = v] ELSE program
        /\ eval' = 0
        /\ scopes' = scope_declare(scopes, program[at].name, at)
        /\ NextDecl
  /\ UNCHANGED <<error_count, use, lexical, misplaced, fresh, stmts, source>>

----------------------------------------------------------------------------
(* Statements of a body.                                                   *)

InBody ==
  /\ Len(scopes) > 2 /\ stmts < MaxStmts
  /\ stmts' = stmts + 1
  /\ UNCHANGED <<program, pass, at, eval, source>>

CanEnter == Len(scopes) < MaxScopes

\* return, throw, expression statements, and the parts of larger expressions.
VisitUse ==
  \E v \in Names :
    /\ InBody
    /\ semantic_visit_expr(v, scopes, lexical)
    /\ UNCHANGED <<scopes, lexical, misplaced, fresh>>

\* The value is visited before the name is declared.
VisitLet ==
  \E n \in Names, v \in Values :
    /\ InBody
    /\ semantic_visit_expr(v, scopes, lexical)
    /\ scopes' = scope_declare(scopes, n, fresh + 1)
    /\ lexical' = Rebind(lexical, n, fresh + 1)
    /\ fresh' = fresh + 1
    /\ UNCHANGED misplaced

\* if, elif and while with their condition; else, try and finally with a literal.
VisitBlock ==
  \E v \in Values :
    /\ InBody /\ CanEnter
    /\ semantic_visit_expr(v, scopes, lexical)
    /\ scopes' = scope_enter(scopes)
    /\ lexical' = Append(lexical, Empty)
    /\ UNCHANGED <<misplaced, fresh>>

\* Mutant: the variable is never declared.
BindForBody_Undeclared(n) ==
  /\ scopes' = scope_enter(scopes)
  /\ lexical' = Append(lexical, Bind(n, fresh + 1))
  /\ misplaced' = misplaced \cup {n}
  /\ fresh' = fresh + 1

\* A variable for the body of the next block, declared in the scope around it.
BindForBody(n) ==
  /\ scopes' = scope_enter(scope_declare(scopes, n, fresh + 1))
  /\ lexical' = Append(lexical, Bind(n, fresh + 1))
  /\ misplaced' = misplaced \cup {n}
  /\ fresh' = fresh + 1

\* The iterable is visited after the loop variable is declared.
VisitFor ==
  \E n \in Names, v \in Values :
    /\ InBody /\ CanEnter
    /\ semantic_visit_expr(v, scope_declare(scopes, n, fresh + 1), lexical)
    /\ BindForBody(n)

\* if let; with a literal for the value, a catch arm.
VisitIfLetOrCatch ==
  \E n \in Names, v \in Values :
    /\ InBody /\ CanEnter
    /\ semantic_visit_expr(v, scopes, lexical)
    /\ BindForBody(n)

VisitLambda ==
  \E n, v \in Names :
    /\ InBody
    /\ semantic_visit_expr(v, scope_declare(scope_enter(scopes), n, fresh + 1),
                           Append(lexical, Bind(n, fresh + 1)))
    /\ fresh' = fresh + 1
    /\ UNCHANGED <<scopes, lexical, misplaced>>

EndBlock ==
  /\ Len(scopes) > 3
  /\ scopes' = scope_exit(scopes) /\ lexical' = scope_exit(lexical)
  /\ UNCHANGED <<program, pass, at, eval, error_count, use, misplaced, fresh, stmts, source>>

\* The body of a function and its parameters.
EndFunc ==
  /\ Len(scopes) = 3
  /\ scopes' = scope_exit(scope_exit(scopes)) /\ lexical' = scope_exit(scope_exit(lexical))
  /\ NextDecl
  /\ UNCHANGED <<program, eval, error_count, use, misplaced, fresh, stmts, source>>

TopLevel ==
  \/ VisitRun \/ DeclareTop \/ SkipDecl \/ VisitGlobalLet \/ VisitFunc \/ VisitClass
  \/ VisitConst \/ const_eval_expr

Body ==
  \/ VisitUse \/ VisitLet \/ VisitBlock \/ VisitFor \/ VisitIfLetOrCatch \/ VisitLambda
  \/ EndBlock \/ EndFunc

Next == TopLevel \/ Body

\* semantic_analyze is one thread of C code that runs until it returns; whether a
\* body has another statement is up to the tree, which is finite.
Spec == Init /\ [][Next]_vars /\ WF_vars(TopLevel \/ EndBlock \/ EndFunc)

----------------------------------------------------------------------------
(* Properties.                                                             *)

Done == pass = "visit" /\ at > Len(program)

\* The state has its types, and the chain of scopes is the global one alone
\* between two top-level declarations and at the end.
TypeOK ==
  /\ program \in Seq(Decl) /\ pass \in {"run", "declare", "visit"}
  /\ at \in 1..Len(program) + 1 /\ eval \in 0..Len(program)
  /\ error_count \in {0, 1} /\ stmts \in 0..MaxStmts /\ fresh \in Nat
  /\ scopes \in Seq([Names -> Nat]) /\ lexical \in Seq([Names -> Nat])
  /\ Len(scopes) = Len(lexical) /\ Len(scopes) >= 1
  /\ (pass # "visit" \/ eval # 0 \/ at > Len(program)) => Len(scopes) = 1
  /\ misplaced \subseteq Names

\* Every name means what the specification says, in every statement:
\* "The loop variable is scoped to the loop body" (SPECIFICATION.md), and outer
\* blocks do not see the variables of inner ones.
ResolvesLexically == use.to = use.ref

\* Outside #run blocks that holds for every name that was not declared as a loop,
\* pattern or catch variable, method, field or #run variable anywhere: shadowing,
\* leaving of scopes, two-pass declaration and lambdas keep the chain right.
LexicalElsewhere == ~use.early /\ use.name \notin misplaced => ResolvesLexically

\* No name that the specification makes visible is reported as undefined, whatever
\* was declared in the wrong scope; fields without `self' are the exception.
NoFalseErrors ==
  ~use.early /\ use.name \notin Fields /\ use.ref # None => use.to # None

ConstNamed(v) == {i \in DOMAIN source : source[i].kind = "const" /\ source[i].name = v}

\* The name of a const stands for the value it is declared with.
Defined == [v \in Values |-> IF ConstNamed(v) = {} THEN v
                             ELSE source[CHOOSE i \in ConstNamed(v) : TRUE].value]

\* The literal or name a value leads to, through at most k const declarations.
Follow[k \in Nat] == IF k = 0 THEN [v \in Values |-> v]
                     ELSE [v \in Values |-> Defined[Follow[k - 1][v]]]

Leads(v) == Follow[Len(source)][v]

\* A constant that was visited is the literal its definition leads to, in whatever
\* order the constants are declared, and is left alone if it leads to none.
ConstsAgree ==
  misplaced \cap TopNames(source) = {} =>
    \A i \in DOMAIN source :
      source[i].kind = "const" /\ pass = "visit" /\ i < at =>
        program[i].value = IF Leads(source[i].value) \in Literals
                           THEN Leads(source[i].value) ELSE source[i].value

Cyclic == \E i \in DOMAIN source : ConstNamed(Leads(source[i].name)) # {}

\* semantic_analyze returns, unless const_eval_expr meets constants that are defined
\* by each other; then it never ends.
AnalysisEnds == <>(Done \/ (eval # 0 /\ Cyclic))

----------------------------------------------------------------------------
(* The inductive strengthening of LexicalElsewhere and NoFalseErrors.      *)

Distinct ==
  \A i, j \in DOMAIN program :
    program[i].kind # "run" /\ program[j].kind # "run" /\ program[i].name = program[j].name
      => i = j

\* const_eval_expr runs only on behalf of a const declaration, and on one.
EvalOK ==
  eval # 0 =>
    /\ pass = "visit" /\ at \in DOMAIN program /\ program[at].kind = "const"
    /\ eval \in DOMAIN program /\ program[eval].kind = "const"

\* The specification's global scope holds the top-level declarations.
GlobalScope ==
  /\ \A j \in DOMAIN program : program[j].kind # "run" => lexical[1][program[j].name] = j
  /\ \A n \in Names : lexical[1][n] # None =>
       \E j \in DOMAIN program : program[j].kind # "run" /\ program[j].name = n

\* The first two passes fill the global scope and nothing else.
FirstPasses ==
  /\ pass = "run" => \A n \in Names \ misplaced : scopes[1][n] = None
  /\ pass = "declare" =>
       /\ \A n \in Names \ misplaced : scopes[1][n] \in {None, lexical[1][n]}
       /\ \A j \in 1..at - 1 : program[j].kind # "run" => scopes[1][program[j].name] = j

\* In the last pass the two chains agree but for the misplaced names,
Agree ==
  pass = "visit" =>
    \A i \in DOMAIN scopes : \A n \in Names \ misplaced : scopes[i][n] = lexical[i][n]

\* and what the specification makes visible in a scope is in it or further out.
Seen ==
  pass = "visit" =>
    \A i \in DOMAIN scopes : \A n \in Names \ Fields :
      lexical[i][n] # None => \E j \in 1..i : scopes[j][n] # None

IInv ==
  /\ TypeOK /\ Distinct /\ EvalOK /\ GlobalScope /\ FirstPasses /\ Agree /\ Seen
  /\ LexicalElsewhere /\ NoFalseErrors

=============================================================================
