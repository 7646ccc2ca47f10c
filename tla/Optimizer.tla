----------------------------- MODULE Optimizer -----------------------------
(***************************************************************************)
(* src/optimizer.c: constant folding, then dead code elimination, then     *)
(* passes that give the tree back as it was.  A node has a type, a value   *)
(* (an operator, a name, a number) and children in source order.           *)
(*                                                                         *)
(* The symbol table of dead code elimination keeps pointers to name        *)
(* buffers on the stack.  The entries made for the top-level functions     *)
(* share one buffer, which holds the last function's name while bodies are *)
(* collected; the buffers of all other entries, and of every entry during  *)
(* the removal, are dead storage, and a lookup may find any of them.       *)
(***************************************************************************)
EXTENDS Integers, FiniteSets, SequencesExt

CONSTANTS
  Programs,      \* the programs given to optimize()
  MAX_SYMBOLS,   \* room in the symbol table
  W              \* width of an integer in bits

ASSUME OptimizerAssumption == MAX_SYMBOLS \in Nat /\ W \in Nat \ {0}

VARIABLES
  orig,     \* the program as parsed
  prog,     \* the program as it is now
  pc,       \* "fold", "top", "bodies", "remove", "done" or "crashed"
  work,     \* what the collecting pass has still to visit
  st,       \* symbol table: sequence of [top, used]
  last      \* the name in the buffer that the top-level entries share

vars == <<orig, prog, pc, work, st, last>>

Node(t, v, kids) == [t |-> t, v |-> v, kids |-> kids]

Null == Node("null", "", <<>>)

----------------------------------------------------------------------------
(* Constants.                                                              *)

Mod == 2 ^ W

Literals == {"int", "bool", "str"}

Foldable == {"+", "-", "*", "/", "%", "==", "!=", "<", ">", "<=", ">=", "&&", "||",
             "&", "|", "^", "<<", ">>"}

RECURSIVE is_constant_expr(_)
is_constant_expr(n) ==
  \/ n.t \in Literals
  \/ /\ (n.t = "un" /\ n.v \in {"neg", "!", "~"}) \/ (n.t = "bin" /\ n.v \in Foldable)
     /\ \A i \in DOMAIN n.kids : is_constant_expr(n.kids[i])

Bit(x, k) == (x \div 2 ^ k) % 2

\* Combines the bits of two numbers.
Bits(x, y, Op(_, _)) ==
  LET f[k \in 0..W] == IF k = W THEN 0 ELSE Op(Bit(x, k), Bit(y, k)) * 2 ^ k + f[k + 1] IN f[0]

Truth(b) == IF b THEN 1 ELSE 0

\* Mutant: `!' complements every bit.
EvalUnary_BitNot(op, x) ==
  CASE op = "neg" -> (Mod - x) % Mod
    [] OTHER      -> Mod - 1 - x

EvalUnary(op, x) ==
  CASE op = "neg" -> (Mod - x) % Mod
    [] op = "!"   -> Truth(x = 0)
    [] op = "~"   -> Mod - 1 - x

\* No value: the expression is not evaluated at compile time.
None == -1

\* Unsigned arithmetic, modulo 2^W.
EvalBinary(op, x, y) ==
  CASE op = "+"  -> (x + y) % Mod
    [] op = "-"  -> (x - y + Mod) % Mod
    [] op = "*"  -> (x * y) % Mod
    [] op = "/"  -> IF y = 0 THEN None ELSE x \div y
    [] op = "%"  -> IF y = 0 THEN None ELSE x % y
    [] op = "==" -> Truth(x = y)
    [] op = "!=" -> Truth(x # y)
    [] op = "<"  -> Truth(x < y)
    [] op = ">"  -> Truth(x > y)
    [] op = "<=" -> Truth(x <= y)
    [] op = ">=" -> Truth(x >= y)
    [] op = "&&" -> Truth(x # 0 /\ y # 0)
    [] op = "||" -> Truth(x # 0 \/ y # 0)
    [] op = "&"  -> Bits(x, y, LAMBDA a, b : a * b)
    [] op = "|"  -> Bits(x, y, LAMBDA a, b : a + b - a * b)
    [] op = "^"  -> Bits(x, y, LAMBDA a, b : (a + b) % 2)
    [] op = "<<" -> (x * 2 ^ (y % W)) % Mod
    [] op = ">>" -> x \div 2 ^ (y % W)

RECURSIVE eval_constant_int(_)
eval_constant_int(n) ==
  LET x == eval_constant_int(n.kids[1])
      y == eval_constant_int(n.kids[2])
  IN CASE n.t \in {"int", "bool"} -> n.v
       [] n.t = "un"  -> IF x = None THEN None ELSE EvalUnary(n.v, x)
       [] n.t = "bin" -> IF x = None \/ y = None THEN None ELSE EvalBinary(n.v, x, y)
       [] OTHER       -> None

----------------------------------------------------------------------------
(* Folding.                                                                *)

\* The nodes whose children are folded, all but the finally block of a try.
\* An expression statement is not among them, nor are the arms of a match.
Folds == {"program", "block", "func", "let", "if", "while", "for", "return", "call",
          "index", "field", "match", "try", "throw", "defer", "region", "lambda", "array",
          "bin", "un"}

\* A literal in place of a constant expression that can be evaluated.
AsLiteral(n) ==
  IF \A i \in DOMAIN n.kids : is_constant_expr(n.kids[i])
  THEN LET v == eval_constant_int(n) IN IF v = None THEN n ELSE Node("int", v, <<>>)
  ELSE n

\* Of the binary operators only && and || are folded: the others may be
\* overloaded.
fold_binary_op(n) == IF n.v \in {"&&", "||"} THEN AsLiteral(n) ELSE n

fold_unary_op(n) == AsLiteral(n)

\* A condition that is the literal true or false leaves one branch; without
\* an else block (a null child) it leaves nothing.
fold_if_node(n) ==
  CASE n.kids[1].t # "bool" -> n
    [] n.kids[1].v = 1      -> n.kids[2]
    [] OTHER                -> n.kids[3]

RECURSIVE fold_node(_)
fold_node(n) ==
  LET m == [n EXCEPT !.kids = [i \in DOMAIN n.kids |->
              IF n.t = "try" /\ i = Len(n.kids) THEN n.kids[i] ELSE fold_node(n.kids[i])]]
  IN CASE n.t \notin Folds -> n
       [] n.t = "bin"      -> fold_binary_op(m)
       [] n.t = "un"       -> fold_unary_op(m)
       [] n.t = "if"       -> fold_if_node(m)
       [] OTHER            -> m

----------------------------------------------------------------------------
(* Dead code elimination.                                                  *)

IsEntry(n) == n.v.name = "main" \/ n.v.exported

\* Collecting also takes a test function for an entry point.
IsEntryOrTest(n) == IsEntry(n) \/ n.v.test


\* The nodes dce_collect walks into.
Collects == (Folds \ {"program", "func"}) \cup {"expr_stmt"}

\* What dce_collect does below a node, in order: a definition for every let,
\* a use for every identifier.
RECURSIVE dce_collect(_)
dce_collect(n) ==
  LET below == FlattenSeq([i \in DOMAIN n.kids |-> dce_collect(n.kids[i])]) IN
  CASE n.t = "ident" -> <<[k |-> "use", name |-> n.v]>>
    [] n.t = "let"   -> <<[k |-> "def", name |-> n.v]>> \o below
    [] n.t \in Collects -> below
    [] OTHER -> <<>>

add_symbol(tab, top) ==
  IF Len(tab) >= MAX_SYMBOLS THEN tab ELSE Append(tab, [top |-> top, used |-> FALSE])

\* The entries a lookup may find while bodies are collected (0: none).  The
\* shared buffer is compared first; any other entry reads dead storage.
find_symbol(name) ==
  LET tops == {i \in DOMAIN st : st[i].top} IN
  IF tops # {} /\ name = last THEN {1} ELSE {0} \cup (DOMAIN st \ tops)


\* The initialisers that keep an unused variable alive.
HasSideEffects(n) == n.kids # <<>> /\ n.kids[1].t \in {"call", "asm", "bin"}

\* The declarations that go when a lookup finds an unused entry.
MayGo(n) ==
  \/ n.t = "func" /\ ~IsEntry(n)
  \/ n.t = "let" /\ ~HasSideEffects(n)

\* All choices of one element from each set of a sequence of sets.
Selections(sets) == {c \in [DOMAIN sets -> UNION Range(sets)] : \A i \in DOMAIN sets : c[i] \in sets[i]}

\* The trees dce_remove_dead may return.  dead: some entry is unused, so that
\* a lookup in dead storage may say that a declaration is.
RECURSIVE dce_remove_dead(_, _)
dce_remove_dead(n, dead) ==
  LET sub == [i \in DOMAIN n.kids |-> dce_remove_dead(n.kids[i], dead)]
      kept == [i \in DOMAIN n.kids |->
                {<<m>> : m \in sub[i]} \cup (IF dead /\ MayGo(n.kids[i]) THEN {<<>>} ELSE {})]
  IN CASE n.t \in {"program", "block"} ->
            {[n EXCEPT !.kids = FlattenSeq(c)] : c \in Selections(kept)}
       [] n.t \in {"func", "if", "while", "for", "expr_stmt"} ->
            {[n EXCEPT !.kids = c] : c \in Selections(sub)}
       [] OTHER -> {n}

\* dce_remove_dead reads the type of every item of a list it walks.
RECURSIVE NullItem(_)
NullItem(n) ==
  \/ n.t \in {"program", "block"} /\ \E i \in DOMAIN n.kids : n.kids[i] = Null
  \/ /\ n.t \in {"program", "block", "func", "if", "while", "for", "expr_stmt"}
     /\ \E i \in DOMAIN n.kids : NullItem(n.kids[i])

----------------------------------------------------------------------------
Init ==
  /\ orig \in Programs /\ prog = orig
  /\ pc = "fold" /\ work = <<>> /\ st = <<>> /\ last = ""

opt_constant_fold ==
  /\ pc = "fold"
  /\ prog' = fold_node(prog)
  /\ pc' = "top"
  /\ work' = SelectSeq(prog'.kids, LAMBDA d : d.t = "func")
  /\ UNCHANGED <<orig, st, last>>

\* First pass: the top-level functions, through one buffer for their names.
CollectTop ==
  /\ pc = "top" /\ work # <<>>
  /\ last' = Head(work).v.name
  /\ st' = IF IsEntryOrTest(Head(work)) THEN st ELSE add_symbol(st, TRUE)
  /\ work' = Tail(work)
  /\ UNCHANGED <<orig, prog, pc>>

\* Second pass: the bodies of the functions, one after the other.
CollectBodies ==
  /\ pc = "top" /\ work = <<>>
  /\ pc' = "bodies"
  /\ LET funcs == SelectSeq(prog.kids, LAMBDA d : d.t = "func") IN
     work' = FlattenSeq([i \in DOMAIN funcs |-> dce_collect(funcs[i].kids[1])])
  /\ UNCHANGED <<orig, prog, st, last>>

CollectDef ==
  /\ pc = "bodies" /\ work # <<>> /\ Head(work).k = "def"
  /\ st' = add_symbol(st, FALSE)
  /\ work' = Tail(work)
  /\ UNCHANGED <<orig, prog, pc, last>>

dce_collect_ident ==
  /\ pc = "bodies" /\ work # <<>> /\ Head(work).k = "use"
  /\ \E i \in find_symbol(Head(work).name) :
       st' = IF i = 0 THEN st ELSE [st EXCEPT ![i].used = TRUE]
  /\ work' = Tail(work)
  /\ UNCHANGED <<orig, prog, pc, last>>

RemoveDead ==
  /\ pc = "bodies" /\ work = <<>>
  /\ \E m \in dce_remove_dead(prog, \E i \in DOMAIN st : ~st[i].used) :
       IF NullItem(m) THEN pc' = "crashed" /\ UNCHANGED prog
       ELSE pc' = "inline" /\ prog' = m
  /\ UNCHANGED <<orig, work, st, last>>

\* opt_inline walks the tree and the passes behind it do not even do that.
opt_inline ==
  /\ pc = "inline" /\ pc' = "done"
  /\ UNCHANGED <<orig, prog, work, st, last>>

Next ==
  \/ opt_constant_fold \/ CollectTop \/ CollectBodies \/ CollectDef \/ dce_collect_ident
  \/ RemoveDead \/ opt_inline

Spec == Init /\ [][Next]_vars /\ WF_vars(Next)

----------------------------------------------------------------------------
(* Reference: what an expression means at run time, in signed arithmetic.  *)

Signed(x) == IF x >= Mod \div 2 THEN x - Mod ELSE x

Unsigned(x) == x % Mod

Abs(x) == IF x < 0 THEN -x ELSE x

\* C division rounds towards zero.
Quotient(x, y) ==
  LET q == Abs(x) \div Abs(y) IN IF (x < 0) # (y < 0) THEN -q ELSE q

SignSensitive == {"/", "%", "<", ">", "<=", ">=", ">>"}

RECURSIVE Value(_)
Value(n) ==
  LET x == Value(n.kids[1])
      y == Value(n.kids[2])
      sx == Signed(x)
      sy == Signed(y)
  IN CASE n.t \in {"int", "bool"} -> n.v
       [] n.t = "un"  -> IF x = None THEN None ELSE
            Unsigned(CASE n.v = "neg" -> -sx [] n.v = "!" -> Truth(x = 0) [] n.v = "~" -> -sx - 1)
       [] n.t = "bin" /\ n.v = "&&" -> IF x \in {0, None} THEN x ELSE IF y = None THEN y ELSE Truth(y # 0)
       [] n.t = "bin" /\ n.v = "||" -> IF x = 0 THEN IF y = None THEN y ELSE Truth(y # 0)
                                       ELSE IF x = None THEN x ELSE 1
       [] n.t = "bin" /\ n.v \in SignSensitive ->
            IF x = None \/ y = None \/ (n.v \in {"/", "%"} /\ y = 0) THEN None ELSE
            Unsigned(CASE n.v = "/" -> Quotient(sx, sy) [] n.v = "%" -> sx - sy * Quotient(sx, sy)
                       [] n.v = "<" -> Truth(sx < sy) [] n.v = ">" -> Truth(sx > sy)
                       [] n.v = "<=" -> Truth(sx <= sy) [] n.v = ">=" -> Truth(sx >= sy)
                       [] n.v = ">>" -> sx \div 2 ^ (y % W))
       [] n.t = "bin" -> IF x = None \/ y = None THEN None ELSE EvalBinary(n.v, x, y)
       [] OTHER -> None

\* Some operator whose result depends on the sign has a negative operand.
RECURSIVE SignMatters(_)
SignMatters(n) ==
  \/ \E i \in DOMAIN n.kids : SignMatters(n.kids[i])
  \/ /\ n.t = "bin" /\ n.v \in SignSensitive
     /\ \E i \in DOMAIN n.kids : Signed(Value(n.kids[i])) < 0

\* The calls a statement makes, in order, with the places where control
\* branches; a constant condition is decided.  Variables whose initialiser is
\* of one of the kinds in `but' are left out.
RECURSIVE Effects(_, _)
Effects(n, but) ==
  LET below == FlattenSeq([i \in DOMAIN n.kids |-> Effects(n.kids[i], but)]) IN
  CASE n.t = "call" -> Append(below, n.kids[1].v)
    [] n.t = "let" /\ n.kids # <<>> /\ n.kids[1].t \in but -> <<>>
    [] n.t = "if" -> IF n.kids[1].t = "bool"
                     THEN Effects(n.kids[IF n.kids[1].v = 1 THEN 2 ELSE 3], but)
                     ELSE <<"if">> \o FlattenSeq([i \in 1..3 |-> Append(Effects(n.kids[i], but), ";")])
    [] n.t = "while" -> <<"while">> \o Append(below, "end")
    [] OTHER -> below

\* The nodes of a tree.
RECURSIVE Nodes(_)
Nodes(n) == {n} \cup UNION {Nodes(n.kids[i]) : i \in DOMAIN n.kids}

----------------------------------------------------------------------------
(* Properties.                                                             *)

Funcs(p) == SelectSeq(p.kids, LAMBDA d : d.t = "func")

Lets(p) == SelectSeq(Funcs(p)[1].kids[1].kids, LAMBDA d : d.t = "let" /\ d.kids # <<>>)

\* Folding keeps the value of every initialiser of a constant expression, for
\* the whole range of integers, overflow, short circuits and division by zero
\* included, unless an operator whose result depends on the sign is applied to
\* a negative number (eval_constant_int computes without a sign).
FoldSound ==
  pc = "top" => \A i \in DOMAIN Lets(prog) :
    LET before == Lets(orig)[i].kids[1]
        after  == Lets(prog)[i].kids[1]
    IN SignMatters(before) \/ Value(after) = Value(before)

\* Each function that is left makes the calls it made before, in the same order
\* and under the same conditions, in variables of the kinds in `but' aside.
SameCalls(but) ==
  pc = "done" => \A i \in DOMAIN Funcs(prog) :
    \E k \in DOMAIN Funcs(orig) :
      /\ Funcs(orig)[k].v = Funcs(prog)[i].v
      /\ Effects(Funcs(orig)[k], but) = Effects(Funcs(prog)[i], but)


\* The comment at src/optimizer.c:687 `Check if the initializer has side effects
\* (function calls, asm)': a variable whose initialiser calls a function is kept.
\* Not so where EffectsKept excepts it.
CallsKept == SameCalls({})

\* Every function that is called from what is left is left, too.
NoneMissing ==
  LET names(p) == {f.v.name : f \in Range(Funcs(p))} IN
  \A n \in Nodes(prog) : n.t = "ident" /\ n.v \in names(orig) => n.v \in names(prog)

\* There is one function that is no entry point, it is the last one, and there
\* are no variables: the one entry of the table can be found by its name.
Findable ==
  /\ {i \in DOMAIN Funcs(orig) : ~IsEntryOrTest(Funcs(orig)[i])} = {Len(Funcs(orig))}
  /\ \A n \in Nodes(orig) : n.t # "let"


\* SPECIFICATION.md:2251 `Removal pass: only removes functions that are neither
\* entry points nor referenced'.  A dangling name in the table breaks it.
ReferencedKept == pc = "done" => NoneMissing

\* The optimizer gives back a program: an unreachable branch is eliminated.
Returns == pc # "crashed"

============================================================================
