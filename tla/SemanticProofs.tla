--------------------------- MODULE SemanticProofs ---------------------------
(***************************************************************************)
(* Name resolution keeps to the specification's scopes and constants get   *)
(* their values, for programs of any size.  The facts about chains come    *)
(* first: what scope_declare, scope_enter and scope_exit do to a chain,    *)
(* and what two chains must have in common for a lookup to give the same.  *)
(***************************************************************************)
EXTENDS Semantic, SequenceTheorems, FiniteSetTheorems, WellFoundedInduction, TLAPS

Frame == [Names -> Nat]

Chain(c) == c \in Seq(Frame) /\ Len(c) >= 1

\* An empty scope knows no name.
LEMMA EmptyFacts == Empty \in Frame /\ \A m \in Names : Empty[m] = None
BY DEF Empty, Frame, None

\* A scope that starts with a declaration knows that one name.
LEMMA BindFacts ==
  ASSUME NEW n \in Names, NEW d \in Nat
  PROVE  /\ Bind(n, d) \in Frame
         /\ \A m \in Names : Bind(n, d)[m] = IF m = n THEN d ELSE None
BY EmptyFacts DEF Bind, Frame

\* scope_declare and Rebind change one name of the innermost scope.
LEMMA DeclareFacts ==
  ASSUME NEW c, Chain(c), NEW n \in Names, NEW d \in Nat
  PROVE  /\ Rebind(c, n, d) = scope_declare(c, n, d)
         /\ Chain(scope_declare(c, n, d)) /\ Len(scope_declare(c, n, d)) = Len(c)
         /\ \A i \in 1..Len(c) : \A m \in Names :
              scope_declare(c, n, d)[i][m] = IF i = Len(c) /\ m = n THEN d ELSE c[i][m]
<1>1. Rebind(c, n, d) = scope_declare(c, n, d)
  BY DEF Rebind, scope_declare
<1>2. /\ Len(c) \in Nat /\ DOMAIN c = 1..Len(c) /\ \A i \in 1..Len(c) : c[i] \in Frame
  BY DEF Chain
<1>3. scope_declare(c, n, d) = [c EXCEPT ![Len(c)] = [@ EXCEPT ![n] = d]]
  BY DEF scope_declare
<1>4. [c[Len(c)] EXCEPT ![n] = d] \in Frame
  BY <1>2 DEF Chain, Frame
<1>5. \A m \in Names : [c[Len(c)] EXCEPT ![n] = d][m] = IF m = n THEN d ELSE c[Len(c)][m]
  BY <1>2 DEF Chain, Frame
<1>6. scope_declare(c, n, d) \in Seq(Frame) /\ Len(scope_declare(c, n, d)) = Len(c)
  BY <1>2, <1>3, <1>4 DEF Chain
<1>7. QED BY <1>1, <1>2, <1>3, <1>5, <1>6 DEF Chain

\* A scope more leaves the others as they are.
LEMMA AppendFacts ==
  ASSUME NEW c, Chain(c), NEW f \in Frame
  PROVE  /\ Chain(Append(c, f)) /\ Len(Append(c, f)) = Len(c) + 1
         /\ \A i \in 1..Len(c) : Append(c, f)[i] = c[i]
         /\ Append(c, f)[Len(c) + 1] = f
BY DEF Chain

\* A new scope replaced is another new scope.
LEMMA AppendReplaced ==
  ASSUME NEW c, Chain(c), NEW f \in Frame, NEW g \in Frame
  PROVE  [Append(c, f) EXCEPT ![Len(c) + 1] = g] = Append(c, g)
<1> DEFINE a == Append(c, f)
           b == Append(c, g)
           e == [a EXCEPT ![Len(c) + 1] = g]
<1>1. /\ a \in Seq(Frame) /\ Len(a) = Len(c) + 1 /\ Len(c) + 1 \in 1..Len(a)
      /\ \A i \in 1..Len(c) : a[i] = c[i]
  BY AppendFacts DEF Chain
<1>2. /\ b \in Seq(Frame) /\ Len(b) = Len(c) + 1 /\ b[Len(c) + 1] = g
      /\ \A i \in 1..Len(c) : b[i] = c[i]
  BY AppendFacts DEF Chain
<1> HIDE DEF a, b
<1>3. /\ e \in Seq(Frame) /\ Len(e) = Len(a)
      /\ \A i \in 1..Len(a) : e[i] = IF i = Len(c) + 1 THEN g ELSE a[i]
  BY <1>1, ExceptSeq
<1> HIDE DEF e
<1>4. \A i \in 1..Len(e) : e[i] = b[i]
  BY <1>1, <1>2, <1>3
<1>5. e = b
  BY <1>1, <1>2, <1>3, <1>4, SeqEqual
<1>6. QED BY <1>5 DEF a, b, e

\* scope_exit takes the innermost scope away.
LEMMA ExitFacts ==
  ASSUME NEW c, Chain(c), Len(c) > 1
  PROVE  /\ Chain(scope_exit(c)) /\ Len(scope_exit(c)) = Len(c) - 1
         /\ \A i \in 1..Len(c) - 1 : scope_exit(c)[i] = c[i]
BY DEF Chain, scope_exit

\* A non-empty set of scopes has an innermost one.
LEMMA MaxExists ==
  ASSUME NEW n \in Nat, NEW S, S \subseteq 1..n, S # {}
  PROVE  \E i \in S : \A j \in S : j <= i
<1> DEFINE R == OpToRel(<, Nat)
           T == {n - i : i \in S}
<1>1. IsWellFoundedOn(R, Nat)
  BY NatLessThanWellFounded
<1>2. T \subseteq Nat
  OBVIOUS
<1>3. T # {}
  <2>1. PICK i \in S : TRUE
    OBVIOUS
  <2>2. n - i \in T
    BY <2>1
  <2>3. QED BY <2>2
<1>4. \A x, y \in Nat : x < y => <<x, y>> \in R
  BY DEF OpToRel
<1> HIDE DEF R, T
<1>5. PICK t \in T : \A u \in T : ~(<<u, t>> \in R)
  BY <1>1, <1>2, <1>3, WFMin
<1>6. PICK i \in S : t = n - i
  BY <1>5 DEF T
<1>7. \A j \in S : j <= i
  <2> SUFFICES ASSUME NEW j \in S PROVE j <= i
    OBVIOUS
  <2>1. n - j \in T
    BY DEF T
  <2>2. ~(n - j < t)
    BY <1>2, <1>4, <1>5, <2>1
  <2>3. QED BY <1>6, <2>2
<1>8. QED BY <1>6, <1>7

\* A name on which two chains agree means the same in both.
LEMMA LookupAgrees ==
  ASSUME NEW c, NEW l, Chain(c), Chain(l), Len(c) = Len(l), NEW n \in Names,
         \A i \in 1..Len(c) : c[i][n] = l[i][n]
  PROVE  scope_lookup(c, n) = Meaning(l, n)
<1>1. DOMAIN c = 1..Len(c) /\ DOMAIN l = 1..Len(c)
  BY DEF Chain
<1>2. Knowing(c, n) = {i \in DOMAIN l : l[i][n] # None}
  BY <1>1 DEF Knowing
<1> DEFINE K == Knowing(c, n)
<1>3. CASE K = {}
  BY <1>2, <1>3 DEF scope_lookup, Meaning
<1>4. CASE K # {}
  <2> DEFINE top == CHOOSE i \in K : \A j \in K : j <= i
  <2>1. scope_lookup(c, n) = c[top][n] /\ Meaning(l, n) = l[top][n]
    BY <1>2, <1>4 DEF scope_lookup, Meaning
  <2>2. \E i \in K : \A j \in K : j <= i
    <3>1. K \subseteq 1..Len(c) /\ Len(c) \in Nat
      BY <1>1 DEF Knowing, Chain
    <3>2. QED BY <1>4, <3>1, MaxExists
  <2>3. top \in K
    BY <2>2
  <2>4. QED BY <1>1, <2>1, <2>3 DEF Knowing
<1>5. QED BY <1>3, <1>4

\* A name that one chain knows, and the other knows as far out, is found.
LEMMA LookupFinds ==
  ASSUME NEW c, NEW l, Chain(c), Chain(l), Len(c) = Len(l), NEW n \in Names,
         \A i \in 1..Len(c) : l[i][n] # None => \E j \in 1..i : c[j][n] # None,
         Meaning(l, n) # None
  PROVE  scope_lookup(c, n) # None
<1>1. DOMAIN c = 1..Len(c) /\ DOMAIN l = 1..Len(c) /\ Len(c) \in Nat
  BY DEF Chain
<1>2. PICK i \in 1..Len(c) : l[i][n] # None
  BY <1>1 DEF Meaning
<1>3. PICK j \in 1..i : c[j][n] # None
  BY <1>2
<1> DEFINE K == Knowing(c, n)
<1>4. K # {} /\ K \subseteq 1..Len(c)
  BY <1>1, <1>2, <1>3 DEF Knowing
<1> DEFINE top == CHOOSE x \in K : \A y \in K : y <= x
<1>5. \E x \in K : \A y \in K : y <= x
  BY <1>1, <1>4, MaxExists
<1>6. top \in K
  BY <1>5
<1>7. scope_lookup(c, n) = c[top][n]
  BY <1>4 DEF scope_lookup
<1>8. QED BY <1>6, <1>7 DEF Knowing

----------------------------------------------------------------------------
(* How the two chains correspond: they agree on the names that are not in  *)
(* mis, and the code's chain knows all that the specification's does,      *)
(* except fields.                                                          *)

Rel(c, l, mis, fs) ==
  /\ Chain(c) /\ Chain(l) /\ Len(c) = Len(l)
  /\ \A i \in 1..Len(c) : \A n \in Names \ mis : c[i][n] = l[i][n]
  /\ \A i \in 1..Len(c) : \A n \in Names \ fs :
       l[i][n] # None => \E j \in 1..i : c[j][n] # None

\* Both chains get a new innermost scope; the code's may stay without the field.
LEMMA RelPush ==
  ASSUME NEW c, NEW l, NEW mis, NEW fs, Rel(c, l, mis, fs), NEW f \in Frame, NEW g \in Frame,
         \A n \in Names \ mis : f[n] = g[n],
         \A n \in Names \ fs : g[n] # None => f[n] # None \/ c[Len(c)][n] # None
  PROVE  Rel(Append(c, f), Append(l, g), mis, fs)
<1> DEFINE d == Append(c, f)
           m == Append(l, g)
<1>1. Chain(c) /\ Chain(l) /\ Len(c) = Len(l) /\ Len(c) \in Nat /\ Len(c) >= 1
  BY DEF Rel, Chain
<1>2. /\ Chain(d) /\ Len(d) = Len(c) + 1 /\ d[Len(c) + 1] = f
      /\ \A i \in 1..Len(c) : d[i] = c[i]
  BY <1>1, AppendFacts
<1>3. /\ Chain(m) /\ Len(m) = Len(c) + 1 /\ m[Len(c) + 1] = g
      /\ \A i \in 1..Len(c) : m[i] = l[i]
  BY <1>1, AppendFacts
<1> HIDE DEF d, m
<1>4. \A i \in 1..Len(d) : \A n \in Names \ mis : d[i][n] = m[i][n]
  <2> SUFFICES ASSUME NEW i \in 1..Len(d), NEW n \in Names \ mis
               PROVE  d[i][n] = m[i][n]
    OBVIOUS
  <2>1. CASE i = Len(c) + 1
    BY <2>1, <1>2, <1>3
  <2>2. CASE i \in 1..Len(c)
    BY <2>2, <1>2, <1>3 DEF Rel
  <2>3. QED BY <2>1, <2>2, <1>1, <1>2
<1>5. \A i \in 1..Len(d) : \A n \in Names \ fs :
        m[i][n] # None => \E j \in 1..i : d[j][n] # None
  <2> SUFFICES ASSUME NEW i \in 1..Len(d), NEW n \in Names \ fs, m[i][n] # None
               PROVE  \E j \in 1..i : d[j][n] # None
    OBVIOUS
  <2>1. CASE i = Len(c) + 1
    <3>1. f[n] # None \/ c[Len(c)][n] # None
      BY <2>1, <1>3
    <3>2. d[Len(c) + 1][n] # None \/ d[Len(c)][n] # None
      BY <3>1, <1>1, <1>2
    <3>3. QED BY <2>1, <3>2, <1>1
  <2>2. CASE i \in 1..Len(c)
    <3>1. l[i][n] # None
      BY <2>2, <1>3
    <3>2. PICK j \in 1..i : c[j][n] # None
      BY <2>2, <3>1 DEF Rel
    <3>3. d[j] = c[j]
      BY <2>2, <3>2, <1>2
    <3>4. QED BY <3>2, <3>3
  <2>3. QED BY <2>1, <2>2, <1>1, <1>2
<1>6. QED BY <1>2, <1>3, <1>4, <1>5 DEF Rel, d, m

\* The code declares a name in its innermost scope, the specification does
\* nothing: the name is misplaced, or the specification has it there already.
LEMMA RelDeclare ==
  ASSUME NEW c, NEW l, NEW mis, NEW fs, Rel(c, l, mis, fs), NEW n \in Names,
         NEW d \in Nat \ {None}, NEW mis2, mis \subseteq mis2,
         n \in mis2 \/ l[Len(l)][n] = d
  PROVE  Rel(scope_declare(c, n, d), l, mis2, fs)
<1> DEFINE e == scope_declare(c, n, d)
<1>1. Chain(c) /\ Chain(l) /\ Len(c) = Len(l) /\ Len(c) \in Nat /\ Len(c) >= 1
  BY DEF Rel, Chain
<1>2. /\ Chain(e) /\ Len(e) = Len(c)
      /\ \A i \in 1..Len(c) : \A m \in Names :
           e[i][m] = IF i = Len(c) /\ m = n THEN d ELSE c[i][m]
  BY <1>1, DeclareFacts DEF None
<1> HIDE DEF e
<1>3. \A i \in 1..Len(e) : \A m \in Names \ mis2 : e[i][m] = l[i][m]
  BY <1>1, <1>2 DEF Rel
<1>4. \A i \in 1..Len(e) : \A m \in Names \ fs :
        l[i][m] # None => \E j \in 1..i : e[j][m] # None
  <2> SUFFICES ASSUME NEW i \in 1..Len(e), NEW m \in Names \ fs, l[i][m] # None
               PROVE  \E j \in 1..i : e[j][m] # None
    OBVIOUS
  <2>1. PICK j \in 1..i : c[j][m] # None
    BY <1>2 DEF Rel
  <2>2. e[j][m] # None
    BY <1>1, <1>2, <2>1
  <2>3. QED BY <2>1, <2>2
<1>5. QED BY <1>1, <1>2, <1>3, <1>4 DEF Rel, e

\* Both chains declare a name in their innermost scope.
LEMMA RelDeclareBoth ==
  ASSUME NEW c, NEW l, NEW mis, NEW fs, Rel(c, l, mis, fs), NEW n \in Names,
         NEW d \in Nat \ {None}
  PROVE  Rel(scope_declare(c, n, d), Rebind(l, n, d), mis, fs)
<1> DEFINE e == scope_declare(c, n, d)
           k == Rebind(l, n, d)
<1>1. Chain(c) /\ Chain(l) /\ Len(c) = Len(l) /\ Len(c) \in Nat /\ Len(c) >= 1
  BY DEF Rel, Chain
<1>2. /\ Chain(e) /\ Len(e) = Len(c)
      /\ \A i \in 1..Len(c) : \A m \in Names :
           e[i][m] = IF i = Len(c) /\ m = n THEN d ELSE c[i][m]
  BY <1>1, DeclareFacts DEF None
<1>3. /\ Chain(k) /\ Len(k) = Len(c)
      /\ \A i \in 1..Len(c) : \A m \in Names :
           k[i][m] = IF i = Len(c) /\ m = n THEN d ELSE l[i][m]
  BY <1>1, DeclareFacts DEF None
<1> HIDE DEF e, k
<1>4. \A i \in 1..Len(e) : \A m \in Names \ mis : e[i][m] = k[i][m]
  BY <1>1, <1>2, <1>3 DEF Rel
<1>5. \A i \in 1..Len(e) : \A m \in Names \ fs :
        k[i][m] # None => \E j \in 1..i : e[j][m] # None
  <2> SUFFICES ASSUME NEW i \in 1..Len(e), NEW m \in Names \ fs, k[i][m] # None
               PROVE  \E j \in 1..i : e[j][m] # None
    OBVIOUS
  <2>1. CASE i = Len(c) /\ m = n
    BY <1>1, <1>2, <2>1
  <2>2. CASE ~(i = Len(c) /\ m = n)
    <3>1. l[i][m] # None
      BY <1>2, <1>3, <2>2
    <3>2. PICK j \in 1..i : c[j][m] # None
      BY <1>2, <3>1 DEF Rel
    <3>3. e[j][m] # None
      BY <1>1, <1>2, <3>2
    <3>4. QED BY <3>2, <3>3
  <2>3. QED BY <2>1, <2>2
<1>6. QED BY <1>2, <1>3, <1>4, <1>5 DEF Rel, e, k

\* Both chains leave their innermost scope.
LEMMA RelPop ==
  ASSUME NEW c, NEW l, NEW mis, NEW fs, Rel(c, l, mis, fs), Len(c) > 1
  PROVE  Rel(scope_exit(c), scope_exit(l), mis, fs)
<1> DEFINE e == scope_exit(c)
           k == scope_exit(l)
<1>1. Chain(c) /\ Chain(l) /\ Len(c) = Len(l) /\ Len(c) \in Nat
  BY DEF Rel, Chain
<1>2. Chain(e) /\ Len(e) = Len(c) - 1 /\ \A i \in 1..Len(c) - 1 : e[i] = c[i]
  BY <1>1, ExitFacts
<1>3. Chain(k) /\ Len(k) = Len(c) - 1 /\ \A i \in 1..Len(c) - 1 : k[i] = l[i]
  BY <1>1, ExitFacts
<1> HIDE DEF e, k
<1>4. \A i \in 1..Len(e) : \A m \in Names \ mis : e[i][m] = k[i][m]
  BY <1>1, <1>2, <1>3 DEF Rel
<1>5. \A i \in 1..Len(e) : \A m \in Names \ fs :
        k[i][m] # None => \E j \in 1..i : e[j][m] # None
  BY <1>1, <1>2, <1>3 DEF Rel
<1>6. QED BY <1>2, <1>3, <1>4, <1>5 DEF Rel, e, k

\* A record of a use that satisfies both properties.
UseOK(u, mis, fs) ==
  /\ ~u.early /\ u.name \notin mis => u.to = u.ref
  /\ ~u.early /\ u.name \notin fs /\ u.ref # None => u.to # None

\* semantic_visit_expr on corresponding chains.
LEMMA VisitFacts ==
  ASSUME NEW c, NEW l, NEW mis, NEW fs, Rel(c, l, mis, fs), NEW v \in Values,
         semantic_visit_expr(v, c, l), UseOK(use, mis, fs), error_count \in {0, 1}
  PROVE  UseOK(use', mis, fs) /\ error_count' \in {0, 1}
<1>1. CASE v \in Literals
  BY <1>1 DEF semantic_visit_expr, UseOK
<1>2. CASE v \notin Literals
  <2>1. v \in Names
    BY <1>2 DEF Values
  <2>2. /\ use' = [name |-> v, to |-> scope_lookup(c, v), ref |-> Meaning(l, v),
                   early |-> pass = "run"]
        /\ error_count' \in {0, 1}
    BY <1>2 DEF semantic_visit_expr
  <2>3. v \notin mis => scope_lookup(c, v) = Meaning(l, v)
    BY <2>1, LookupAgrees DEF Rel
  <2>4. v \notin fs /\ Meaning(l, v) # None => scope_lookup(c, v) # None
    BY <2>1, LookupFinds DEF Rel
  <2>5. QED BY <2>2, <2>3, <2>4 DEF UseOK
<1>3. QED BY <1>1, <1>2

\* Both chains get a scope that starts with the same declaration.
LEMMA RelPushBind ==
  ASSUME NEW c, NEW l, NEW mis, NEW fs, Rel(c, l, mis, fs), NEW n \in Names,
         NEW d \in Nat \ {None}
  PROVE  Rel(scope_declare(scope_enter(c), n, d), Append(l, Bind(n, d)), mis, fs)
<1> DEFINE e == scope_enter(c)
<1>1. Chain(c) /\ Len(c) \in Nat
  BY DEF Rel, Chain
<1>2. Chain(e) /\ Len(e) = Len(c) + 1 /\ e[Len(c) + 1] = Empty /\ e = Append(c, Empty)
  BY <1>1, EmptyFacts, AppendFacts DEF scope_enter
<1>3. Bind(n, d) \in Frame
  BY BindFacts DEF None
<1>4. scope_declare(e, n, d) = [e EXCEPT ![Len(c) + 1] = Bind(n, d)]
  BY <1>2 DEF scope_declare, Bind
<1>5. [Append(c, Empty) EXCEPT ![Len(c) + 1] = Bind(n, d)] = Append(c, Bind(n, d))
  BY <1>1, <1>3, EmptyFacts, AppendReplaced
<1>6. Rel(Append(c, Bind(n, d)), Append(l, Bind(n, d)), mis, fs)
  BY <1>3, RelPush
<1>7. QED BY <1>2, <1>4, <1>5, <1>6

\* Both chains get an empty scope.
LEMMA RelEnter ==
  ASSUME NEW c, NEW l, NEW mis, NEW fs, Rel(c, l, mis, fs)
  PROVE  Rel(scope_enter(c), Append(l, Empty), mis, fs)
BY EmptyFacts, RelPush DEF scope_enter

\* BindForBody: the code declares the variable outside the new scope.
LEMMA RelBindForBody ==
  ASSUME NEW c, NEW l, NEW mis, NEW fs, Rel(c, l, mis, fs), NEW n \in Names,
         NEW d \in Nat \ {None}
  PROVE  Rel(scope_enter(scope_declare(c, n, d)), Append(l, Bind(n, d)), mis \cup {n}, fs)
<1> DEFINE e == scope_declare(c, n, d)
           mis2 == mis \cup {n}
<1>1. Rel(e, l, mis2, fs)
  BY RelDeclare
<1>2. Chain(c) /\ Len(c) \in Nat /\ Len(c) >= 1
  BY DEF Rel, Chain
<1>3. Len(e) = Len(c) /\ e[Len(c)][n] = d
  BY <1>2, DeclareFacts DEF None
<1>4. Bind(n, d) \in Frame /\ \A m \in Names : Bind(n, d)[m] = IF m = n THEN d ELSE None
  BY BindFacts DEF None
<1>5. \A m \in Names \ mis2 : Empty[m] = Bind(n, d)[m]
  BY <1>4, EmptyFacts
<1>6. \A m \in Names \ fs : Bind(n, d)[m] # None => e[Len(e)][m] # None
  BY <1>3, <1>4
<1> HIDE DEF e, mis2
<1>7. Rel(Append(e, Empty), Append(l, Bind(n, d)), mis2, fs)
  BY <1>1, <1>4, <1>5, <1>6, EmptyFacts, RelPush
<1>8. QED BY <1>7 DEF scope_enter, e, mis2

\* The outermost scope is not touched when one is added or an inner one changed.
LEMMA OutermostKept ==
  ASSUME NEW l, Chain(l), NEW n \in Names, NEW d \in Nat
  PROVE  /\ \A f \in Frame : Append(l, f)[1] = l[1]
         /\ Len(l) > 1 => Rebind(l, n, d)[1] = l[1] /\ scope_exit(l)[1] = l[1]
<1>1. Len(l) \in Nat /\ Len(l) >= 1
  BY DEF Chain
<1>2. \A f \in Frame : Append(l, f)[1] = l[1]
  BY <1>1, AppendFacts
<1>3. Len(l) > 1 => scope_exit(l)[1] = l[1]
  BY <1>1, ExitFacts
<1>4. Len(l) > 1 => Rebind(l, n, d)[1] = l[1]
  BY <1>1 DEF Rebind, Chain
<1>5. QED BY <1>2, <1>3, <1>4

----------------------------------------------------------------------------
(* The invariant.                                                          *)

\* The invariant in terms of Rel and UseOK.
LEMMA IInvRel ==
  ASSUME IInv
  PROVE  /\ pass = "visit" => Rel(scopes, lexical, misplaced, Fields)
         /\ UseOK(use, misplaced, Fields)
         /\ Chain(scopes) /\ Chain(lexical) /\ Len(scopes) = Len(lexical)
<1>1. Chain(scopes) /\ Chain(lexical) /\ Len(scopes) = Len(lexical)
  BY DEF IInv, TypeOK, Chain, Frame
<1>2. DOMAIN scopes = 1..Len(scopes)
  BY <1>1 DEF Chain
<1>3. pass = "visit" => Rel(scopes, lexical, misplaced, Fields)
  BY <1>1, <1>2 DEF IInv, Agree, Seen, Rel
<1>4. UseOK(use, misplaced, Fields)
  BY DEF IInv, LexicalElsewhere, ResolvesLexically, NoFalseErrors, UseOK
<1>5. QED BY <1>1, <1>3, <1>4

\* What was a good record of a use stays one when more names are misplaced.
LEMMA UseMonotone ==
  ASSUME NEW u, NEW mis, NEW mis2, NEW fs, UseOK(u, mis, fs), mis \subseteq mis2
  PROVE  UseOK(u, mis2, fs)
BY DEF UseOK

\* The conjuncts about chains and uses, after a step into the last pass.
LEMMA VisitRest ==
  ASSUME pass' = "visit", Rel(scopes, lexical, misplaced, Fields)',
         UseOK(use, misplaced, Fields)'
  PROVE  FirstPasses' /\ Agree' /\ Seen' /\ LexicalElsewhere' /\ NoFalseErrors'
<1>1. DOMAIN scopes' = 1..Len(scopes')
  BY DEF Rel, Chain
<1>2. FirstPasses'
  BY DEF FirstPasses
<1>3. Agree' /\ Seen'
  BY <1>1 DEF Agree, Seen, Rel
<1>4. LexicalElsewhere' /\ NoFalseErrors'
  BY DEF LexicalElsewhere, ResolvesLexically, NoFalseErrors, UseOK
<1>5. QED BY <1>2, <1>3, <1>4

\* A step of the last pass that leaves the declarations and the outermost scope of
\* the specification alone.
LEMMA VisitStep ==
  ASSUME IInv, pass = "visit", pass' = "visit", UNCHANGED program,
         at' \in 1..Len(program) + 1, eval' = 0, at' > Len(program) => Len(scopes') = 1,
         Rel(scopes', lexical', misplaced', Fields), UseOK(use', misplaced', Fields),
         lexical'[1] = lexical[1], error_count' \in {0, 1}, stmts' \in 0..MaxStmts,
         fresh' \in Nat, misplaced' \subseteq Names
  PROVE  IInv'
<1>1. Fields' = Fields
  BY DEF Fields
<1>2. FirstPasses' /\ Agree' /\ Seen' /\ LexicalElsewhere' /\ NoFalseErrors'
  BY <1>1, VisitRest
<1>3. TypeOK'
  BY DEF IInv, TypeOK, Rel, Chain, Frame
<1>4. Distinct' /\ EvalOK'
  BY DEF IInv, Distinct, EvalOK
<1>5. GlobalScope'
  BY DEF IInv, GlobalScope
<1>6. QED BY <1>2, <1>3, <1>4, <1>5 DEF IInv

\* The kinds of declarations.
LEMMA DeclFacts ==
  ASSUME NEW x \in Decl
  PROVE  /\ x.kind \in {"func", "let", "const", "run", "class"} /\ x.name \in Names
         /\ x.kind = "func" => x.param \in Names
         /\ x.kind \in {"let", "const", "run"} => x.value \in Values
         /\ x.kind = "class" => x.field \in Names /\ x.method \in Names
BY DEF Decl

\* The declaration a pass is at.
LEMMA AtFacts ==
  ASSUME TypeOK, NEW p, NEW kinds, AtDecl(p, kinds)
  PROVE  /\ at \in DOMAIN program /\ at \in Nat \ {None} /\ program[at] \in Decl
         /\ program[at].kind \in kinds
         /\ pass = p /\ Len(scopes) = 1 /\ Len(lexical) = 1 /\ eval = 0
BY DEF TypeOK, AtDecl, None

\* In the last pass the next declaration is one of the last pass.
LEMMA NextVisit ==
  ASSUME TypeOK, pass = "visit", at \in DOMAIN program, NextDecl
  PROVE  pass' = "visit" /\ at' \in 1..Len(program) + 1
BY DEF TypeOK, NextDecl

\* The let of a #run block, in the last pass.
LEMMA RunVisitPreserves ==
  ASSUME IInv, VisitRun, pass = "visit"
  PROVE  IInv'
<1>1. /\ AtDecl("visit", {"run"})
      /\ semantic_visit_expr(program[at].value, scopes, lexical)
      /\ scopes' = scope_declare(scopes, program[at].name, fresh + 1)
      /\ misplaced' = misplaced \cup {program[at].name}
      /\ fresh' = fresh + 1 /\ NextDecl /\ UNCHANGED <<program, eval, lexical, stmts, source>>
  BY DEF VisitRun, AtDecl
<1>2. TypeOK
  BY DEF IInv
<1>3. at \in DOMAIN program /\ program[at].kind = "run" /\ program[at] \in Decl
      /\ Len(scopes) = 1 /\ eval = 0
  BY <1>1, <1>2, AtFacts
<1>4. program[at].name \in Names /\ program[at].value \in Values
  BY <1>3, DeclFacts
<1>5. fresh \in Nat /\ fresh + 1 \in Nat \ {None} /\ error_count \in {0, 1}
  BY <1>2 DEF TypeOK, None
<1>6. /\ Rel(scopes, lexical, misplaced, Fields) /\ UseOK(use, misplaced, Fields)
      /\ Chain(scopes)
  BY IInvRel
<1>7. UseOK(use', misplaced, Fields) /\ error_count' \in {0, 1}
  BY <1>1, <1>4, <1>5, <1>6, VisitFacts
<1>8. UseOK(use', misplaced', Fields)
  BY <1>1, <1>7, UseMonotone
<1>9. Rel(scopes', lexical', misplaced', Fields) /\ Len(scopes') = 1
  BY <1>1, <1>3, <1>4, <1>5, <1>6, RelDeclare, DeclareFacts
<1>10. pass' = "visit" /\ at' \in 1..Len(program) + 1
  BY <1>1, <1>2, <1>3, NextVisit
<1>11. stmts' \in 0..MaxStmts /\ misplaced' \subseteq Names /\ fresh' \in Nat
  BY <1>1, <1>2, <1>4, <1>5 DEF TypeOK
<1>12. QED BY <1>1, <1>3, <1>7, <1>8, <1>9, <1>10, <1>11, VisitStep

\* What TypeOK says of numbers and names.
LEMMA TypeFacts ==
  ASSUME IInv
  PROVE  /\ TypeOK /\ fresh \in Nat /\ fresh + 1 \in Nat \ {None} /\ fresh + 2 \in Nat \ {None}
         /\ error_count \in {0, 1} /\ stmts \in 0..MaxStmts /\ misplaced \subseteq Names
BY DEF IInv, TypeOK, None

\* A top-level name is already in the specification's global scope.
LEMMA GlobalKnows ==
  ASSUME IInv, at \in DOMAIN program, program[at].kind # "run"
  PROVE  lexical[1][program[at].name] = at
BY DEF IInv, GlobalScope

\* A global let.
LEMMA GlobalLetPreserves ==
  ASSUME IInv, VisitGlobalLet
  PROVE  IInv'
<1>1. /\ AtDecl("visit", {"let"})
      /\ semantic_visit_expr(program[at].value, scopes, lexical)
      /\ scopes' = scope_declare(scopes, program[at].name, at)
      /\ NextDecl /\ UNCHANGED <<program, eval, lexical, misplaced, fresh, stmts, source>>
  BY DEF VisitGlobalLet
<1>2. /\ at \in DOMAIN program /\ program[at].kind = "let" /\ program[at] \in Decl
      /\ Len(scopes) = 1 /\ Len(lexical) = 1 /\ eval = 0 /\ pass = "visit"
      /\ at \in Nat \ {None}
  BY <1>1, TypeFacts, AtFacts
<1>3. program[at].name \in Names /\ program[at].value \in Values
  BY <1>2, DeclFacts
<1>4. /\ Rel(scopes, lexical, misplaced, Fields) /\ UseOK(use, misplaced, Fields)
      /\ Chain(scopes)
  BY <1>2, IInvRel
<1>5. UseOK(use', misplaced, Fields) /\ error_count' \in {0, 1}
  BY <1>1, <1>3, <1>4, TypeFacts, VisitFacts
<1>6. lexical[Len(lexical)][program[at].name] = at
  BY <1>2, GlobalKnows
<1>7. Rel(scopes', lexical', misplaced', Fields)
  BY <1>1, <1>2, <1>3, <1>4, <1>6, RelDeclare
<1>8. Len(scopes') = 1
  BY <1>1, <1>2, <1>3, <1>4, DeclareFacts
<1>9. pass' = "visit" /\ at' \in 1..Len(program) + 1
  BY <1>1, <1>2, TypeFacts, NextVisit
<1>10. QED BY <1>1, <1>2, <1>5, <1>7, <1>8, <1>9, TypeFacts, VisitStep

\* A function opens the scopes of its parameter and its body, in both chains.
LEMMA FuncPreserves ==
  ASSUME IInv, VisitFunc
  PROVE  IInv'
<1> DEFINE outer == scope_declare(scopes, program[at].name, at)
           inner == scope_declare(scope_enter(outer), program[at].param, fresh + 1)
           params == Append(lexical, Bind(program[at].param, fresh + 1))
<1>1. /\ AtDecl("visit", {"func"})
      /\ scopes' = scope_enter(inner) /\ lexical' = Append(params, Empty)
      /\ fresh' = fresh + 1
      /\ UNCHANGED <<program, pass, at, eval, error_count, use, misplaced, stmts, source>>
  BY DEF VisitFunc
<1>2. /\ at \in DOMAIN program /\ program[at].kind = "func" /\ program[at] \in Decl
      /\ Len(lexical) = 1 /\ eval = 0 /\ pass = "visit" /\ at \in Nat \ {None}
  BY <1>1, TypeFacts, AtFacts
<1>3. program[at].name \in Names /\ program[at].param \in Names
  BY <1>2, DeclFacts
<1>4. /\ Rel(scopes, lexical, misplaced, Fields) /\ UseOK(use, misplaced, Fields)
      /\ Chain(lexical)
  BY <1>2, IInvRel
<1>5. lexical[Len(lexical)][program[at].name] = at
  BY <1>2, GlobalKnows
<1>6. Rel(outer, lexical, misplaced, Fields)
  BY <1>2, <1>3, <1>4, <1>5, RelDeclare
<1> HIDE DEF outer
<1>7. Rel(inner, params, misplaced, Fields)
  BY <1>3, <1>6, TypeFacts, RelPushBind
<1> HIDE DEF inner
<1>8. Rel(scopes', lexical', misplaced', Fields)
  BY <1>1, <1>7, RelEnter
<1>9. lexical'[1] = lexical[1]
  <2>1. Bind(program[at].param, fresh + 1) \in Frame
    BY <1>3, TypeFacts, BindFacts
  <2>2. Chain(params) /\ params[1] = lexical[1]
    BY <1>3, <1>4, <2>1, AppendFacts, OutermostKept, TypeFacts
  <2> HIDE DEF params
  <2>3. QED BY <1>1, <1>3, <2>2, EmptyFacts, OutermostKept, TypeFacts
<1>10. at \in 1..Len(program) + 1 /\ ~(at > Len(program))
  BY <1>2, TypeFacts DEF TypeOK
<1>11. QED BY <1>1, <1>2, <1>4, <1>8, <1>9, <1>10, TypeFacts, VisitStep

\* A class misplaces its method and its field.
LEMMA ClassPreserves ==
  ASSUME IInv, VisitClass
  PROVE  IInv'
<1> DEFINE named == scope_declare(scopes, program[at].name, at)
           outer == scope_declare(named, program[at].method, fresh + 1)
           mis   == misplaced \cup {program[at].method, program[at].field}
           g     == Bind(program[at].field, fresh + 2)
           self  == Append(lexical, g)
<1>1. /\ AtDecl("visit", {"class"})
      /\ scopes' = scope_enter(scope_enter(outer)) /\ lexical' = Append(self, Empty)
      /\ misplaced' = mis /\ fresh' = fresh + 2
      /\ UNCHANGED <<program, pass, at, eval, error_count, use, stmts, source>>
  BY DEF VisitClass
<1>2. /\ at \in DOMAIN program /\ program[at].kind = "class" /\ program[at] \in Decl
      /\ Len(lexical) = 1 /\ eval = 0 /\ pass = "visit" /\ at \in Nat \ {None}
  BY <1>1, TypeFacts, AtFacts
<1>3. /\ program[at].name \in Names /\ program[at].method \in Names
      /\ program[at].field \in Names /\ program[at].field \in Fields
  BY <1>2, DeclFacts DEF Fields
<1>4. /\ Rel(scopes, lexical, misplaced, Fields) /\ UseOK(use, misplaced, Fields)
      /\ Chain(lexical)
  BY <1>2, IInvRel
<1>5. lexical[Len(lexical)][program[at].name] = at
  BY <1>2, GlobalKnows
<1>6. Rel(named, lexical, misplaced, Fields)
  BY <1>2, <1>3, <1>4, <1>5, RelDeclare
<1> HIDE DEF named
<1>7. Rel(outer, lexical, mis, Fields)
  BY <1>3, <1>6, TypeFacts, RelDeclare
<1> HIDE DEF outer
<1>8. g \in Frame /\ \A m \in Names : g[m] = IF m = program[at].field THEN fresh + 2 ELSE None
  BY <1>3, TypeFacts, BindFacts
<1>9. Rel(scope_enter(outer), self, mis, Fields)
  <2>1. \A m \in Names \ mis : Empty[m] = g[m]
    BY <1>3, <1>8, EmptyFacts
  <2>2. \A m \in Names \ Fields : g[m] = None
    BY <1>3, <1>8
  <2> HIDE DEF g, mis
  <2>3. QED BY <1>7, <1>8, <2>1, <2>2, EmptyFacts, RelPush DEF scope_enter
<1> HIDE DEF g
<1>10. Rel(scopes', lexical', misplaced', Fields)
  BY <1>1, <1>9, RelEnter
<1>11. lexical'[1] = lexical[1]
  <2>1. Chain(self) /\ self[1] = lexical[1]
    BY <1>3, <1>4, <1>8, AppendFacts, OutermostKept, TypeFacts
  <2> HIDE DEF self
  <2>2. QED BY <1>1, <1>3, <2>1, EmptyFacts, OutermostKept, TypeFacts
<1>12. at \in 1..Len(program) + 1 /\ ~(at > Len(program))
  BY <1>2, TypeFacts DEF TypeOK
<1>13. UseOK(use', misplaced', Fields) /\ misplaced' \subseteq Names
  BY <1>1, <1>3, <1>4, UseMonotone, TypeFacts
<1>14. QED BY <1>1, <1>2, <1>10, <1>11, <1>12, <1>13, TypeFacts, VisitStep

\* An evaluation begins.
LEMMA ConstPreserves ==
  ASSUME IInv, VisitConst
  PROVE  IInv'
<1>1. /\ AtDecl("visit", {"const"}) /\ eval' = at
      /\ UNCHANGED <<program, pass, at, scopes, error_count, use, lexical, misplaced, fresh,
                     stmts, source>>
  BY DEF VisitConst
<1>2. /\ at \in DOMAIN program /\ program[at].kind = "const" /\ pass = "visit"
      /\ Len(scopes) = 1
  BY <1>1, TypeFacts, AtFacts
<1>3. TypeOK'
  BY <1>1, <1>2, TypeFacts DEF TypeOK
<1>4. EvalOK'
  BY <1>1, <1>2 DEF EvalOK
<1>5. Distinct' /\ GlobalScope' /\ FirstPasses' /\ Agree' /\ Seen'
  BY <1>1 DEF IInv, Distinct, GlobalScope, FirstPasses, Agree, Seen, Fields
<1>6. LexicalElsewhere' /\ NoFalseErrors'
  BY <1>1 DEF IInv, LexicalElsewhere, ResolvesLexically, NoFalseErrors, Fields
<1>7. QED BY <1>3, <1>4, <1>5, <1>6 DEF IInv

\* Replacing the value of a constant leaves kinds, names and fields as they are.
LEMMA ValueReplaced ==
  ASSUME program \in Seq(Decl), NEW i \in DOMAIN program, program[i].kind = "const",
         NEW v \in Literals, program' = [program EXCEPT ![i].value = v]
  PROVE  /\ program' \in Seq(Decl) /\ Len(program') = Len(program)
         /\ DOMAIN program' = DOMAIN program
         /\ \A j \in DOMAIN program : /\ program'[j].kind = program[j].kind
                                      /\ program'[j].name = program[j].name
                                      /\ j # i => program'[j] = program[j]
         /\ Fields' = Fields
<1> DEFINE new == [program[i] EXCEPT !.value = v]
<1>1. program[i] \in Decl /\ i \in 1..Len(program)
  OBVIOUS
<1>2. program[i] \in [kind : {"let", "const", "run"}, name : Names, value : Values]
  BY <1>1 DEF Decl
<1>3. new \in [kind : {"let", "const", "run"}, name : Names, value : Values]
  BY <1>2 DEF Values
<1>4. new.kind = program[i].kind /\ new.name = program[i].name
  BY <1>2
<1>5. new \in Decl
  BY <1>3 DEF Decl
<1>6. program' = [program EXCEPT ![i] = new]
  OBVIOUS
<1> HIDE DEF new
<1>7. /\ program' \in Seq(Decl) /\ Len(program') = Len(program)
      /\ \A j \in 1..Len(program) : program'[j] = IF j = i THEN new ELSE program[j]
  BY <1>1, <1>5, <1>6, ExceptSeq
<1>8. DOMAIN program' = DOMAIN program /\ DOMAIN program = 1..Len(program)
  BY <1>7
<1>9. \A j \in DOMAIN program : /\ program'[j].kind = program[j].kind
                                /\ program'[j].name = program[j].name
                                /\ j # i => program'[j] = program[j]
  BY <1>4, <1>7, <1>8
<1>10. Fields' = Fields
  <2> DEFINE C == {j \in DOMAIN program : program[j].kind = "class"}
  <2>1. C = {j \in DOMAIN program' : program'[j].kind = "class"}
    BY <1>8, <1>9
  <2>2. \A j \in C : program'[j] = program[j]
    BY <1>9
  <2>3. QED BY <2>1, <2>2 DEF Fields
<1>11. QED BY <1>7, <1>8, <1>9, <1>10

\* A const declaration is followed to another one.
LEMMA FollowPreserves ==
  ASSUME IInv, eval # 0, NEW d \in DOMAIN program, program[d].kind = "const", eval' = d,
         UNCHANGED <<program, pass, at, scopes, error_count, use, lexical, misplaced, fresh,
                     stmts, source>>
  PROVE  IInv'
<1>1. TypeOK'
  BY TypeFacts DEF TypeOK
<1>2. EvalOK'
  BY DEF IInv, EvalOK
<1>3. Distinct' /\ GlobalScope' /\ FirstPasses' /\ Agree' /\ Seen'
  BY DEF IInv, Distinct, GlobalScope, FirstPasses, Agree, Seen, Fields
<1>4. LexicalElsewhere' /\ NoFalseErrors'
  BY DEF IInv, LexicalElsewhere, ResolvesLexically, NoFalseErrors, Fields
<1>5. QED BY <1>1, <1>2, <1>3, <1>4 DEF IInv

\* The evaluation ends, with a value or without.
LEMMA EvalEnds ==
  ASSUME IInv, eval # 0, eval' = 0, scopes' = scope_declare(scopes, program[at].name, at),
         \/ UNCHANGED program
         \/ \E v \in Literals : program' = [program EXCEPT ![at].value = v],
         NextDecl, UNCHANGED <<error_count, use, lexical, misplaced, fresh, stmts, source>>
  PROVE  IInv'
<1>1. /\ at \in DOMAIN program /\ program[at].kind = "const" /\ program[at] \in Decl
      /\ Len(scopes) = 1 /\ Len(lexical) = 1 /\ pass = "visit" /\ at \in Nat \ {None}
      /\ program \in Seq(Decl)
  BY TypeFacts DEF IInv, EvalOK, TypeOK, None
<1>2. program[at].name \in Names
  BY <1>1, DeclFacts
<1>3. /\ program' \in Seq(Decl) /\ Len(program') = Len(program)
      /\ DOMAIN program' = DOMAIN program
      /\ \A j \in DOMAIN program : /\ program'[j].kind = program[j].kind
                                   /\ program'[j].name = program[j].name
      /\ Fields' = Fields
  <2>1. CASE UNCHANGED program
    BY <1>1, <2>1 DEF Fields
  <2>2. CASE \E v \in Literals : program' = [program EXCEPT ![at].value = v]
    BY <1>1, <2>2, ValueReplaced
  <2>3. QED BY <2>1, <2>2
<1>4. /\ Rel(scopes, lexical, misplaced, Fields) /\ UseOK(use, misplaced, Fields)
      /\ Chain(scopes)
  BY <1>1, IInvRel
<1>5. lexical[Len(lexical)][program[at].name] = at
  BY <1>1, GlobalKnows
<1>6. Rel(scopes', lexical, misplaced, Fields)
  BY <1>1, <1>2, <1>4, <1>5, RelDeclare
<1>7. Len(scopes') = 1
  BY <1>1, <1>2, <1>4, DeclareFacts
<1>8. pass' = "visit" /\ at' \in 1..Len(program) + 1
  BY <1>1, TypeFacts, NextVisit
<1>9. FirstPasses' /\ Agree' /\ Seen' /\ LexicalElsewhere' /\ NoFalseErrors'
  BY <1>3, <1>4, <1>6, <1>8, VisitRest
<1>10. TypeOK'
  BY <1>3, <1>6, <1>7, <1>8, TypeFacts DEF TypeOK, Rel, Chain, Frame
<1>11. Distinct' /\ EvalOK'
  BY <1>3 DEF IInv, Distinct, EvalOK
<1>12. GlobalScope'
  BY <1>3 DEF IInv, GlobalScope
<1>13. QED BY <1>9, <1>10, <1>11, <1>12 DEF IInv

\* A step of const_eval_expr.
LEMMA EvalPreserves ==
  ASSUME IInv, const_eval_expr
  PROVE  IInv'
<1> DEFINE v == program[eval].value
           d == IF v \in Names THEN scope_lookup(scopes, v) ELSE None
           followed == d \in DOMAIN program /\ program[d].kind = "const"
<1>1. eval # 0 /\ UNCHANGED <<error_count, use, lexical, misplaced, fresh, stmts, source>>
  BY DEF const_eval_expr
<1>2. CASE /\ v \in Names /\ followed /\ eval' = d
           /\ UNCHANGED <<program, pass, at, scopes>>
  BY <1>1, <1>2, FollowPreserves
<1>3. CASE /\ program' = IF v \in Literals THEN [program EXCEPT ![at].value = v] ELSE program
           /\ eval' = 0 /\ scopes' = scope_declare(scopes, program[at].name, at) /\ NextDecl
  <2>1. \/ UNCHANGED program
        \/ \E w \in Literals : program' = [program EXCEPT ![at].value = w]
    BY <1>3
  <2>2. QED BY <1>1, <1>3, <2>1, EvalEnds
<1>4. QED BY <1>2, <1>3 DEF const_eval_expr

\* What holds in the body of a function, and what every statement keeps.
LEMMA BodyFacts ==
  ASSUME IInv, Len(scopes) > 2
  PROVE  /\ pass = "visit" /\ eval = 0 /\ at \in 1..Len(program) + 1 /\ at <= Len(program)
         /\ at \in DOMAIN program
         /\ Rel(scopes, lexical, misplaced, Fields) /\ UseOK(use, misplaced, Fields)
         /\ Chain(scopes) /\ Chain(lexical) /\ Len(lexical) = Len(scopes)
<1>1. Len(scopes) # 1
  <2>1. Len(scopes) \in Nat
    BY DEF IInv, TypeOK
  <2>2. \A k \in Nat : k > 2 => k # 1
    OBVIOUS
  <2>3. QED BY <2>1, <2>2
<1>2. /\ pass = "visit" /\ eval = 0 /\ at \in 1..Len(program) + 1 /\ ~(at > Len(program))
      /\ program \in Seq(Decl)
  BY <1>1 DEF IInv, TypeOK
<1>3. at <= Len(program) /\ at \in DOMAIN program
  BY <1>2
<1>4. QED BY <1>2, <1>3, IInvRel

\* VisitStep for a statement.
LEMMA BodyStep ==
  ASSUME IInv, Len(scopes) > 2, UNCHANGED <<program, pass, at, eval>>,
         Rel(scopes', lexical', misplaced', Fields), UseOK(use', misplaced', Fields),
         lexical'[1] = lexical[1], error_count' \in {0, 1}, stmts' \in 0..MaxStmts,
         fresh' \in Nat, misplaced' \subseteq Names
  PROVE  IInv'
<1>1. /\ pass' = "visit" /\ eval' = 0 /\ at' \in 1..Len(program) + 1
      /\ ~(at' > Len(program))
  BY BodyFacts, TypeFacts DEF TypeOK
<1>2. QED BY <1>1, BodyFacts, VisitStep

\* Statements are in a body and leave the declarations alone.
LEMMA InBodyFacts ==
  ASSUME IInv, InBody
  PROVE  Len(scopes) > 2 /\ stmts' \in 0..MaxStmts /\ UNCHANGED <<program, pass, at, eval>>
BY TypeFacts, SemanticAssumption DEF InBody

\* A statement that uses a name.
LEMMA UsePreserves ==
  ASSUME IInv, VisitUse
  PROVE  IInv'
<1>1. PICK v \in Names : /\ InBody /\ semantic_visit_expr(v, scopes, lexical)
                         /\ UNCHANGED <<scopes, lexical, misplaced, fresh>>
  BY DEF VisitUse
<1>2. UseOK(use', misplaced, Fields) /\ error_count' \in {0, 1}
  BY <1>1, InBodyFacts, BodyFacts, TypeFacts, VisitFacts DEF Values
<1>3. QED BY <1>1, <1>2, InBodyFacts, BodyFacts, TypeFacts, BodyStep

\* A let in a body.
LEMMA LetPreserves ==
  ASSUME IInv, VisitLet
  PROVE  IInv'
<1>1. PICK n \in Names, v \in Values :
        /\ InBody /\ semantic_visit_expr(v, scopes, lexical)
        /\ scopes' = scope_declare(scopes, n, fresh + 1)
        /\ lexical' = Rebind(lexical, n, fresh + 1)
        /\ fresh' = fresh + 1 /\ UNCHANGED misplaced
  BY DEF VisitLet
<1>2. UseOK(use', misplaced, Fields) /\ error_count' \in {0, 1}
  BY <1>1, InBodyFacts, BodyFacts, TypeFacts, VisitFacts
<1>3. Rel(scopes', lexical', misplaced', Fields)
  BY <1>1, InBodyFacts, BodyFacts, TypeFacts, RelDeclareBoth
<1>4. lexical'[1] = lexical[1]
  <2>1. Len(scopes) > 2 /\ Len(lexical) = Len(scopes) /\ Chain(lexical)
    BY <1>1, InBodyFacts, BodyFacts
  <2>2. Len(lexical) > 1
    BY <2>1 DEF Chain
  <2>3. QED BY <1>1, <2>1, <2>2, TypeFacts, OutermostKept
<1>5. QED BY <1>1, <1>2, <1>3, <1>4, InBodyFacts, TypeFacts, BodyStep

\* A block with a scope of its own.
LEMMA BlockPreserves ==
  ASSUME IInv, VisitBlock
  PROVE  IInv'
<1>1. PICK v \in Values :
        /\ InBody /\ semantic_visit_expr(v, scopes, lexical)
        /\ scopes' = scope_enter(scopes) /\ lexical' = Append(lexical, Empty)
        /\ UNCHANGED <<misplaced, fresh>>
  BY DEF VisitBlock
<1>2. UseOK(use', misplaced, Fields) /\ error_count' \in {0, 1}
  BY <1>1, InBodyFacts, BodyFacts, TypeFacts, VisitFacts
<1>3. Rel(scopes', lexical', misplaced', Fields)
  BY <1>1, InBodyFacts, BodyFacts, RelEnter
<1>4. lexical'[1] = lexical[1]
  BY <1>1, InBodyFacts, BodyFacts, EmptyFacts, AppendFacts DEF Chain
<1>5. QED BY <1>1, <1>2, <1>3, <1>4, InBodyFacts, TypeFacts, BodyStep

\* The effect of BindForBody, with a use that is good for the new misplaced names.
LEMMA BindForBodyPreserves ==
  ASSUME IInv, NEW n \in Names, InBody, BindForBody(n),
         UseOK(use', misplaced', Fields), error_count' \in {0, 1}
  PROVE  IInv'
<1>1. /\ scopes' = scope_enter(scope_declare(scopes, n, fresh + 1))
      /\ lexical' = Append(lexical, Bind(n, fresh + 1))
      /\ misplaced' = misplaced \cup {n} /\ fresh' = fresh + 1
  BY DEF BindForBody
<1>2. Rel(scopes', lexical', misplaced', Fields)
  BY <1>1, InBodyFacts, BodyFacts, TypeFacts, RelBindForBody
<1>3. Bind(n, fresh + 1) \in Frame
  BY TypeFacts, BindFacts
<1>4. lexical'[1] = lexical[1]
  BY <1>1, <1>3, InBodyFacts, BodyFacts, AppendFacts DEF Chain
<1>5. QED BY <1>1, <1>2, <1>4, InBodyFacts, TypeFacts, BodyStep

\* A for, whose iterable is visited behind its variable.
LEMMA ForPreserves ==
  ASSUME IInv, VisitFor
  PROVE  IInv'
<1>1. PICK n \in Names, v \in Values :
        /\ InBody /\ semantic_visit_expr(v, scope_declare(scopes, n, fresh + 1), lexical)
        /\ BindForBody(n)
  BY DEF VisitFor
<1> DEFINE c == scope_declare(scopes, n, fresh + 1)
           mis == misplaced \cup {n}
<1>2. Rel(c, lexical, mis, Fields)
  BY <1>1, InBodyFacts, BodyFacts, TypeFacts, RelDeclare
<1>3. UseOK(use, mis, Fields)
  BY <1>1, InBodyFacts, BodyFacts, UseMonotone
<1>4. semantic_visit_expr(v, c, lexical) /\ misplaced' = mis
  BY <1>1 DEF BindForBody
<1> HIDE DEF c, mis
<1>5. UseOK(use', mis, Fields) /\ error_count' \in {0, 1}
  BY <1>2, <1>3, <1>4, TypeFacts, VisitFacts
<1>6. QED BY <1>1, <1>4, <1>5, BindForBodyPreserves

\* if let and catch.
LEMMA IfLetPreserves ==
  ASSUME IInv, VisitIfLetOrCatch
  PROVE  IInv'
<1>1. PICK n \in Names, v \in Values :
        InBody /\ semantic_visit_expr(v, scopes, lexical) /\ BindForBody(n)
  BY DEF VisitIfLetOrCatch
<1>2. UseOK(use', misplaced, Fields) /\ error_count' \in {0, 1}
  BY <1>1, InBodyFacts, BodyFacts, TypeFacts, VisitFacts
<1>3. UseOK(use', misplaced', Fields)
  BY <1>1, <1>2, UseMonotone DEF BindForBody
<1>4. QED BY <1>1, <1>2, <1>3, BindForBodyPreserves

\* A lambda leaves no scope behind.
LEMMA LambdaPreserves ==
  ASSUME IInv, VisitLambda
  PROVE  IInv'
<1>1. PICK n \in Names, v \in Names :
        /\ InBody
        /\ semantic_visit_expr(v, scope_declare(scope_enter(scopes), n, fresh + 1),
                               Append(lexical, Bind(n, fresh + 1)))
        /\ fresh' = fresh + 1 /\ UNCHANGED <<scopes, lexical, misplaced>>
  BY DEF VisitLambda
<1> DEFINE c == scope_declare(scope_enter(scopes), n, fresh + 1)
           l == Append(lexical, Bind(n, fresh + 1))
<1>2. Rel(c, l, misplaced, Fields)
  BY <1>1, InBodyFacts, BodyFacts, TypeFacts, RelPushBind
<1>3. semantic_visit_expr(v, c, l)
  BY <1>1
<1> HIDE DEF c, l
<1>4. UseOK(use', misplaced, Fields) /\ error_count' \in {0, 1}
  BY <1>1, <1>2, <1>3, InBodyFacts, BodyFacts, TypeFacts, VisitFacts DEF Values
<1>5. QED BY <1>1, <1>4, InBodyFacts, BodyFacts, TypeFacts, BodyStep

\* The end of a block.
LEMMA EndBlockPreserves ==
  ASSUME IInv, EndBlock
  PROVE  IInv'
<1>1. /\ Len(scopes) > 3 /\ scopes' = scope_exit(scopes) /\ lexical' = scope_exit(lexical)
      /\ UNCHANGED <<program, pass, at, eval, error_count, use, misplaced, fresh, stmts, source>>
  BY DEF EndBlock
<1>2. Chain(scopes) /\ Chain(lexical) /\ Len(lexical) = Len(scopes)
  BY IInvRel
<1>3. Len(scopes) > 2 /\ Len(lexical) > 1 /\ Len(scopes) > 1 /\ 1 \in 1..Len(lexical) - 1
  BY <1>1, <1>2 DEF Chain
<1>4. Rel(scopes', lexical', misplaced', Fields)
  BY <1>1, <1>3, BodyFacts, RelPop
<1>5. lexical'[1] = lexical[1]
  BY <1>1, <1>2, <1>3, ExitFacts
<1>6. QED BY <1>1, <1>3, <1>4, <1>5, BodyFacts, TypeFacts, BodyStep

\* The end of a function closes both of its scopes.
LEMMA EndFuncPreserves ==
  ASSUME IInv, EndFunc
  PROVE  IInv'
<1>1. /\ Len(scopes) = 3 /\ scopes' = scope_exit(scope_exit(scopes))
      /\ lexical' = scope_exit(scope_exit(lexical)) /\ NextDecl
      /\ UNCHANGED <<program, eval, error_count, use, misplaced, fresh, stmts, source>>
  BY DEF EndFunc
<1>2. Len(scopes) > 2 /\ Len(scopes) > 1 /\ Len(lexical) = 3 /\ Chain(scopes) /\ Chain(lexical)
  BY <1>1, IInvRel
<1> DEFINE c == scope_exit(scopes)
           l == scope_exit(lexical)
<1>3. Rel(c, l, misplaced, Fields)
  BY <1>2, BodyFacts, RelPop
<1>4. /\ Chain(c) /\ Len(c) = 2 /\ Chain(l) /\ Len(l) = 2 /\ l[1] = lexical[1]
  <2>1. Len(lexical) > 1 /\ 1 \in 1..Len(lexical) - 1
    BY <1>2
  <2>2. Chain(c) /\ Len(c) = Len(scopes) - 1
    BY <1>2, ExitFacts
  <2>3. Chain(l) /\ Len(l) = Len(lexical) - 1 /\ l[1] = lexical[1]
    BY <1>2, <2>1, ExitFacts
  <2>4. QED BY <1>1, <1>2, <2>2, <2>3
<1> HIDE DEF c, l
<1>5. 1 \in 1..Len(l) - 1 /\ Len(c) > 1 /\ Len(l) > 1
  BY <1>4
<1>6. Rel(scope_exit(c), scope_exit(l), misplaced, Fields)
  BY <1>3, <1>5, RelPop
<1>7. Len(scope_exit(c)) = Len(c) - 1 /\ scope_exit(l)[1] = l[1]
  BY <1>4, <1>5, ExitFacts
<1>8. /\ Rel(scopes', lexical', misplaced', Fields) /\ Len(scopes') = 1
      /\ lexical'[1] = lexical[1]
  BY <1>1, <1>4, <1>6, <1>7 DEF c, l
<1>9. pass' = "visit" /\ at' \in 1..Len(program) + 1
  BY <1>1, <1>2, BodyFacts, TypeFacts, NextVisit
<1>10. QED BY <1>1, <1>2, <1>8, <1>9, BodyFacts, TypeFacts, VisitStep

----------------------------------------------------------------------------
(* The first two passes.                                                   *)

\* What a step of these passes leaves to show, when it leaves the declarations and
\* the specification's scopes alone.
LEMMA EarlyStep ==
  ASSUME IInv, at \in DOMAIN program, Len(scopes) = 1, eval = 0, pass # "visit", NextDecl,
         Chain(scopes'), Len(scopes') = 1, fresh' \in Nat, error_count' \in {0, 1},
         misplaced' \subseteq Names, UseOK(use', misplaced', Fields),
         UNCHANGED <<program, eval, lexical, stmts, source>>, FirstPasses',
         pass' = "visit" => Rel(scopes', lexical, misplaced', Fields)
  PROVE  IInv'
<1>1. at' \in 1..Len(program) + 1 /\ pass' \in {"run", "declare", "visit"}
  BY TypeFacts DEF TypeOK, NextDecl
<1>2. TypeOK'
  BY <1>1, TypeFacts DEF TypeOK, Chain, Frame
<1>3. Distinct' /\ EvalOK' /\ GlobalScope'
  BY DEF IInv, Distinct, EvalOK, GlobalScope
<1>4. Fields' = Fields
  BY DEF Fields
<1>5. DOMAIN scopes' = 1..Len(scopes')
  BY DEF Chain
<1>6. Agree' /\ Seen'
  BY <1>4, <1>5 DEF Agree, Seen, Rel
<1>7. LexicalElsewhere' /\ NoFalseErrors'
  BY <1>4 DEF LexicalElsewhere, ResolvesLexically, NoFalseErrors, UseOK
<1>8. QED BY <1>2, <1>3, <1>6, <1>7 DEF IInv

\* A step of the first pass, which leaves the names alone that are not misplaced.
LEMMA RunPass ==
  ASSUME IInv, at \in DOMAIN program, pass = "run", NextDecl, UNCHANGED program,
         \A n \in Names \ misplaced' : scopes'[1][n] = None
  PROVE  FirstPasses' /\ pass' # "visit"
<1>1. pass' = "run" \/ (pass' = "declare" /\ at' = 1)
  BY DEF NextDecl
<1>2. 1..0 = {}
  OBVIOUS
<1>3. QED BY <1>1, <1>2 DEF FirstPasses

\* The let of a #run block, in front of all declarations.
LEMMA RunEarlyPreserves ==
  ASSUME IInv, VisitRun, pass = "run"
  PROVE  IInv'
<1>1. /\ AtDecl("run", {"run"})
      /\ semantic_visit_expr(program[at].value, scopes, lexical)
      /\ scopes' = scope_declare(scopes, program[at].name, fresh + 1)
      /\ misplaced' = misplaced \cup {program[at].name}
      /\ fresh' = fresh + 1 /\ NextDecl /\ UNCHANGED <<program, eval, lexical, stmts, source>>
  BY DEF VisitRun, AtDecl
<1>2. /\ at \in DOMAIN program /\ program[at] \in Decl /\ Len(scopes) = 1 /\ eval = 0
  BY <1>1, TypeFacts, AtFacts
<1>3. program[at].name \in Names
  BY <1>2, DeclFacts
<1>4. Chain(scopes) /\ UseOK(use, misplaced, Fields)
  BY IInvRel
<1>5. /\ Chain(scopes') /\ Len(scopes') = 1
      /\ \A m \in Names : m # program[at].name => scopes'[1][m] = scopes[1][m]
  BY <1>1, <1>2, <1>3, <1>4, TypeFacts, DeclareFacts
<1>6. \A n \in Names \ misplaced' : scopes'[1][n] = None
  BY <1>1, <1>5 DEF IInv, FirstPasses
<1>7. FirstPasses' /\ pass' # "visit"
  BY <1>1, <1>2, <1>6, RunPass
<1>8. UseOK(use', misplaced', Fields) /\ error_count' \in {0, 1}
  <2>1. CASE program[at].value \in Literals
    BY <1>1, <1>4, <2>1, TypeFacts, UseMonotone DEF semantic_visit_expr
  <2>2. CASE program[at].value \notin Literals
    <3>1. error_count' \in {0, 1}
      BY <1>1, <2>2, TypeFacts DEF semantic_visit_expr
    <3>2. use' = [name |-> program[at].value, to |-> scope_lookup(scopes, program[at].value),
                  ref |-> Meaning(lexical, program[at].value), early |-> TRUE]
      BY <1>1, <2>2 DEF semantic_visit_expr
    <3>3. use'.early
      BY <3>2
    <3>4. QED BY <3>1, <3>3 DEF UseOK
  <2>3. QED BY <2>1, <2>2
<1>9. fresh' \in Nat /\ misplaced' \subseteq Names
  BY <1>1, <1>3, TypeFacts
<1>10. QED BY <1>1, <1>2, <1>5, <1>7, <1>8, <1>9, EarlyStep

\* A step of the second pass, which declares what it is at, or need not.
LEMMA DeclarePass ==
  ASSUME IInv, at \in DOMAIN program, pass = "declare", NextDecl, Len(scopes) = 1,
         Chain(scopes'), Len(scopes') = 1, UNCHANGED <<program, lexical, misplaced>>,
         \A n \in Names \ misplaced : scopes'[1][n] \in {None, lexical[1][n]},
         \A j \in 1..at : program[j].kind # "run" => scopes'[1][program[j].name] = j
  PROVE  FirstPasses' /\ (pass' = "visit" => Rel(scopes', lexical, misplaced', Fields))
<1>1. at \in Nat /\ DOMAIN program = 1..Len(program) /\ Len(program) \in Nat
  BY TypeFacts DEF TypeOK
<1>2. CASE at < Len(program)
  <2>1. pass' = "declare" /\ at' - 1 = at
    BY <1>1, <1>2 DEF NextDecl
  <2>2. QED BY <2>1 DEF FirstPasses
<1>3. CASE ~(at < Len(program))
  <2>1. pass' = "visit" /\ at = Len(program)
    BY <1>1, <1>3 DEF NextDecl
  <2>2. \A j \in DOMAIN program : program[j].kind # "run" => scopes'[1][program[j].name] = j
    BY <1>1, <2>1
  <2>3. \A n \in Names : lexical[1][n] # None =>
          \E j \in DOMAIN program : /\ program[j].kind # "run" /\ program[j].name = n
                                    /\ lexical[1][n] = j /\ scopes'[1][n] = j
    BY <2>2 DEF IInv, GlobalScope
  <2>4. \A n \in Names \ misplaced : scopes'[1][n] = lexical[1][n]
    BY <2>3
  <2>5. \A n \in Names : lexical[1][n] # None => scopes'[1][n] # None
    BY <2>3
  <2>6. Chain(lexical) /\ Len(lexical) = 1
    BY IInvRel
  <2>7. Rel(scopes', lexical, misplaced', Fields)
    BY <2>4, <2>5, <2>6 DEF Rel
  <2>8. QED BY <2>1, <2>7 DEF FirstPasses
<1>4. QED BY <1>2, <1>3

\* The second pass declares a top-level name.
LEMMA DeclareTopPreserves ==
  ASSUME IInv, DeclareTop
  PROVE  IInv'
<1>1. /\ AtDecl("declare", {"func", "const", "class", "let"})
      /\ scopes' = scope_declare(scopes, program[at].name, at) /\ NextDecl
      /\ UNCHANGED <<program, eval, error_count, use, lexical, misplaced, fresh, stmts, source>>
  BY DEF DeclareTop
<1>2. /\ at \in DOMAIN program /\ program[at] \in Decl /\ Len(scopes) = 1 /\ eval = 0
      /\ pass = "declare" /\ program[at].kind # "run" /\ at \in Nat \ {None}
  BY <1>1, TypeFacts, AtFacts
<1>3. program[at].name \in Names
  BY <1>2, DeclFacts
<1>4. Chain(scopes) /\ UseOK(use, misplaced, Fields)
  BY IInvRel
<1>5. /\ Chain(scopes') /\ Len(scopes') = 1
      /\ \A m \in Names : scopes'[1][m] = IF m = program[at].name THEN at ELSE scopes[1][m]
  BY <1>1, <1>2, <1>3, <1>4, DeclareFacts
<1>6. \A n \in Names \ misplaced : scopes'[1][n] \in {None, lexical[1][n]}
  BY <1>2, <1>5, GlobalKnows DEF IInv, FirstPasses
<1>7. \A j \in 1..at : program[j].kind # "run" => scopes'[1][program[j].name] = j
  <2> SUFFICES ASSUME NEW j \in 1..at, program[j].kind # "run"
               PROVE  scopes'[1][program[j].name] = j
    OBVIOUS
  <2>1. j \in DOMAIN program /\ program[j] \in Decl
    BY <1>2, TypeFacts DEF TypeOK
  <2>2. program[j].name \in Names
    BY <2>1, DeclFacts
  <2>3. CASE j = at
    BY <1>3, <1>5, <2>3
  <2>4. CASE j # at
    <3>1. j \in 1..at - 1
      BY <1>2, <2>4
    <3>2. program[j].name # program[at].name
      BY <1>2, <2>1, <2>4 DEF IInv, Distinct
    <3>3. scopes[1][program[j].name] = j
      BY <1>2, <3>1 DEF IInv, FirstPasses
    <3>4. QED BY <1>5, <2>2, <3>2, <3>3
  <2>5. QED BY <2>3, <2>4
<1>8. FirstPasses' /\ (pass' = "visit" => Rel(scopes', lexical, misplaced', Fields))
  BY <1>1, <1>2, <1>5, <1>6, <1>7, DeclarePass
<1>9. UseOK(use', misplaced', Fields) /\ pass # "visit"
  BY <1>1, <1>2, <1>4
<1>10. QED BY <1>1, <1>2, <1>5, <1>8, <1>9, TypeFacts, EarlyStep

\* A declaration a pass has nothing to do with.
LEMMA SkipPreserves ==
  ASSUME IInv, SkipDecl
  PROVE  IInv'
<1>1. /\ NextDecl
      /\ UNCHANGED <<program, scopes, eval, error_count, use, lexical, misplaced, fresh, stmts,
                     source>>
  BY DEF SkipDecl
<1>2. Chain(scopes) /\ UseOK(use, misplaced, Fields)
  BY IInvRel
<1>3. CASE AtDecl("run", {"func", "const", "class", "let"})
  <2>1. at \in DOMAIN program /\ Len(scopes) = 1 /\ eval = 0 /\ pass = "run"
    BY <1>3, TypeFacts, AtFacts
  <2>2. \A n \in Names \ misplaced' : scopes'[1][n] = None
    BY <1>1, <2>1 DEF IInv, FirstPasses
  <2>3. FirstPasses' /\ pass' # "visit"
    BY <1>1, <2>1, <2>2, RunPass
  <2>4. QED BY <1>1, <1>2, <2>1, <2>3, TypeFacts, EarlyStep
<1>4. CASE AtDecl("declare", {"run"})
  <2>1. /\ at \in DOMAIN program /\ Len(scopes) = 1 /\ eval = 0 /\ pass = "declare"
        /\ program[at].kind = "run" /\ at \in Nat
    BY <1>4, TypeFacts, AtFacts
  <2>2. \A n \in Names \ misplaced : scopes'[1][n] \in {None, lexical[1][n]}
    BY <1>1, <2>1 DEF IInv, FirstPasses
  <2>3. \A j \in 1..at : j = at \/ j \in 1..at - 1
    BY <2>1
  <2>4. \A j \in 1..at : program[j].kind # "run" => scopes'[1][program[j].name] = j
    BY <1>1, <2>1, <2>3 DEF IInv, FirstPasses
  <2>5. FirstPasses' /\ (pass' = "visit" => Rel(scopes', lexical, misplaced', Fields))
    BY <1>1, <1>2, <2>1, <2>2, <2>4, DeclarePass
  <2>6. QED BY <1>1, <1>2, <2>1, <2>5, TypeFacts, EarlyStep
<1>5. QED BY <1>3, <1>4 DEF SkipDecl

----------------------------------------------------------------------------
(* The theorems.                                                           *)

\* IInv holds of every program at the start,
LEMMA InitIInv ==
  ASSUME Init
  PROVE  IInv
<1>1. /\ program \in Programs /\ pass = "run" /\ at = 1 /\ scopes = <<Empty>>
      /\ lexical = <<Global>> /\ eval = 0 /\ error_count = 0 /\ use = NoUse
      /\ misplaced = {} /\ fresh = Len(program) /\ stmts = 0
  BY DEF Init
<1>2. program \in Seq(Decl) /\ Distinct
  BY <1>1, SemanticAssumption DEF Distinct
<1>3. \A j \in DOMAIN program : program[j].kind # "run" =>
        program[j].name \in Names /\ Global[program[j].name] = j
  <2> SUFFICES ASSUME NEW j \in DOMAIN program, program[j].kind # "run"
               PROVE  program[j].name \in Names /\ Global[program[j].name] = j
    OBVIOUS
  <2> DEFINE n == program[j].name
             P(i) == program[i].kind # "run" /\ program[i].name = n
  <2>1. n \in Names
    BY <1>2, DeclFacts
  <2>2. n \in TopNames(program)
    BY DEF TopNames
  <2>3. Global[n] = CHOOSE i \in DOMAIN program : P(i)
    BY <2>1, <2>2 DEF Global
  <2>4. \A i \in DOMAIN program : P(i) => i = j
    BY <1>2 DEF Distinct
  <2>5. (CHOOSE i \in DOMAIN program : P(i)) = j
    BY <2>4
  <2>6. QED BY <2>1, <2>3, <2>5
<1>4. \A n \in Names : Global[n] # None =>
        \E j \in DOMAIN program : program[j].kind # "run" /\ program[j].name = n
  BY DEF Global, TopNames
<1>5. Global \in Frame
  <2>1. \A n \in Names : Global[n] \in Nat
    <3> SUFFICES ASSUME NEW n \in Names PROVE Global[n] \in Nat
      OBVIOUS
    <3>1. CASE Global[n] = None
      BY <3>1 DEF None
    <3>2. CASE Global[n] # None
      <4>1. PICK j \in DOMAIN program : program[j].kind # "run" /\ program[j].name = n
        BY <1>4, <3>2
      <4>2. Global[n] = j
        BY <1>3, <4>1
      <4>3. QED BY <1>2, <4>2
    <3>3. QED BY <3>1, <3>2
  <2>2. QED BY <2>1 DEF Global, Frame
<1> HIDE DEF Global
<1>6. /\ Len(scopes) = 1 /\ scopes[1] = Empty /\ scopes \in Seq(Frame)
      /\ Len(lexical) = 1 /\ lexical[1] = Global /\ lexical \in Seq(Frame)
  BY <1>1, <1>5, EmptyFacts
<1>7. TypeOK
  BY <1>1, <1>2, <1>6, SemanticAssumption DEF TypeOK, Frame
<1>8. EvalOK /\ Agree /\ Seen
  BY <1>1 DEF EvalOK, Agree, Seen
<1>9. GlobalScope
  BY <1>3, <1>4, <1>6 DEF GlobalScope
<1>10. FirstPasses
  BY <1>1, <1>6, EmptyFacts DEF FirstPasses
<1>11. LexicalElsewhere /\ NoFalseErrors
  BY <1>1 DEF NoUse, LexicalElsewhere, ResolvesLexically, NoFalseErrors
<1>12. QED BY <1>2, <1>7, <1>8, <1>9, <1>10, <1>11 DEF IInv

\* is kept where nothing happens,
LEMMA StutterPreserves ==
  ASSUME IInv, UNCHANGED vars
  PROVE  IInv'
<1>1. TypeOK' /\ Distinct' /\ EvalOK'
  BY DEF IInv, vars, TypeOK, Distinct, EvalOK
<1>2. GlobalScope' /\ FirstPasses' /\ Agree' /\ Seen'
  BY DEF IInv, vars, GlobalScope, FirstPasses, Agree, Seen, Fields
<1>3. LexicalElsewhere' /\ NoFalseErrors'
  BY DEF IInv, vars, LexicalElsewhere, ResolvesLexically, NoFalseErrors, Fields
<1>4. QED BY <1>1, <1>2, <1>3 DEF IInv

\* and by every step.
LEMMA StepPreserves ==
  ASSUME IInv, [Next]_vars
  PROVE  IInv'
<1>1. CASE VisitRun
  <2>1. pass = "run" \/ pass = "visit"
    BY <1>1 DEF VisitRun, AtDecl
  <2>2. QED BY <1>1, <2>1, RunEarlyPreserves, RunVisitPreserves
<1>2. CASE DeclareTop
  BY <1>2, DeclareTopPreserves
<1>3. CASE SkipDecl
  BY <1>3, SkipPreserves
<1>4. CASE VisitGlobalLet
  BY <1>4, GlobalLetPreserves
<1>5. CASE VisitFunc
  BY <1>5, FuncPreserves
<1>6. CASE VisitClass
  BY <1>6, ClassPreserves
<1>7. CASE VisitConst
  BY <1>7, ConstPreserves
<1>8. CASE const_eval_expr
  BY <1>8, EvalPreserves
<1>9. CASE VisitUse
  BY <1>9, UsePreserves
<1>10. CASE VisitLet
  BY <1>10, LetPreserves
<1>11. CASE VisitBlock
  BY <1>11, BlockPreserves
<1>12. CASE VisitFor
  BY <1>12, ForPreserves
<1>13. CASE VisitIfLetOrCatch
  BY <1>13, IfLetPreserves
<1>14. CASE VisitLambda
  BY <1>14, LambdaPreserves
<1>15. CASE EndBlock
  BY <1>15, EndBlockPreserves
<1>16. CASE EndFunc
  BY <1>16, EndFuncPreserves
<1>17. CASE UNCHANGED vars
  BY <1>17, StutterPreserves
<1>18. QED BY <1>1, <1>2, <1>3, <1>4, <1>5, <1>6, <1>7, <1>8, <1>9, <1>10, <1>11, <1>12,
              <1>13, <1>14, <1>15, <1>16, <1>17 DEF Next, TopLevel, Body

\* IInv holds throughout semantic_analyze, for programs of any size.
THEOREM SemanticInvariant == Spec => []IInv
<1>1. Init => IInv
  BY InitIInv
<1>2. IInv /\ [Next]_vars => IInv'
  BY StepPreserves
<1>3. QED BY <1>1, <1>2, PTL DEF Spec

\* The state keeps its types, and semantic_visit_node is back in the global scope
\* whenever it goes on to another top-level declaration.
THEOREM SemanticTypeOK == Spec => []TypeOK
<1>1. IInv => TypeOK
  BY DEF IInv
<1>2. QED BY <1>1, SemanticInvariant, PTL

\* Names that are never misplaced resolve to what the specification says, in every
\* statement of every program.
THEOREM SemanticLexical == Spec => []LexicalElsewhere
<1>1. IInv => LexicalElsewhere
  BY DEF IInv
<1>2. QED BY <1>1, SemanticInvariant, PTL

\* No visible name but a field is reported as undefined.
THEOREM SemanticNoFalseErrors == Spec => []NoFalseErrors
<1>1. IInv => NoFalseErrors
  BY DEF IInv
<1>2. QED BY <1>1, SemanticInvariant, PTL

----------------------------------------------------------------------------
(* Induction, and functions applied again and again.                       *)

\* A set that holds 0 and the successor of each of its numbers holds every natural number.
LEMMA NatInd ==
  ASSUME NEW S, 0 \in S, \A k \in Nat : k \in S => k + 1 \in S
  PROVE  \A k \in Nat : k \in S
<1> DEFINE R == OpToRel(<, Nat)
           T == {k \in Nat : k \notin S}
<1>1. IsWellFoundedOn(R, Nat)
  BY NatLessThanWellFounded
<1>2. \A x, y \in Nat : x < y => <<x, y>> \in R
  BY DEF OpToRel
<1>3. T \subseteq Nat /\ \A k \in Nat : k \in S \/ k \in T
  OBVIOUS
<1>4. \A k \in T : k # 0 /\ k - 1 \in Nat /\ (k - 1 \in S => k \in S) /\ k \notin S
  <2> SUFFICES ASSUME NEW k \in T PROVE k # 0 /\ k - 1 \in Nat /\ (k - 1 \in S => k \in S) /\ k \notin S
    OBVIOUS
  <2>1. k \in Nat /\ k \notin S
    OBVIOUS
  <2>2. k # 0
    BY <2>1
  <2>3. k - 1 \in Nat /\ (k - 1) + 1 = k
    BY <2>1, <2>2
  <2>4. QED BY <2>1, <2>2, <2>3
<1> HIDE DEF R, T
<1>5. ASSUME T # {} PROVE FALSE
  <2>1. PICK t \in T : \A u \in T : ~(<<u, t>> \in R)
    BY <1>1, <1>3, <1>5, WFMin
  <2>2. t - 1 \in T
    BY <1>3, <1>4
  <2>3. t - 1 < t
    BY <1>3
  <2>4. QED BY <1>2, <1>3, <2>1, <2>2, <2>3
<1>6. QED BY <1>3, <1>5

\* A function of a set into itself can be iterated.
LEMMA Iterates ==
  ASSUME NEW V, NEW nx \in [V -> V]
  PROVE  \E f : f = [k \in Nat |-> IF k = 0 THEN [v \in V |-> v] ELSE [v \in V |-> nx[f[k - 1][v]]]]
<1> DEFINE F == [V -> V]
           id == [v \in V |-> v]
           After(h) == [v \in V |-> nx[h[v]]]
           Up(n, g) == /\ g \in [0..n -> F] /\ g[0] = id
                       /\ \A k \in 1..n : g[k] = After(g[k - 1])
           S == {n \in Nat : \E g : Up(n, g)}
<1>1. id \in F /\ \A h \in F : After(h) \in F
  OBVIOUS
<1> HIDE DEF F, id, After
<1>2. \A n \in Nat : n \in S
  <2>1. 0 \in S
    <3>1. Up(0, [k \in 0..0 |-> id])
      BY <1>1
    <3>2. QED BY <3>1
  <2>2. ASSUME NEW n \in Nat, n \in S PROVE n + 1 \in S
    <3>1. PICK g : Up(n, g)
      BY <2>2
    <3> DEFINE h == [k \in 0..n + 1 |-> IF k = n + 1 THEN After(g[n]) ELSE g[k]]
    <3>2. h \in [0..n + 1 -> F] /\ h[0] = id
      BY <1>1, <3>1
    <3>3. ASSUME NEW k \in 1..n + 1 PROVE h[k] = After(h[k - 1])
      <4>1. CASE k = n + 1
        BY <4>1
      <4>2. CASE k \in 1..n
        BY <3>1, <4>2
      <4>3. QED BY <4>1, <4>2
    <3>4. Up(n + 1, h)
      BY <3>2, <3>3
    <3>5. n + 1 \in Nat
      OBVIOUS
    <3> HIDE DEF Up, h
    <3>6. QED BY <3>4, <3>5
  <2> HIDE DEF S
  <2>3. QED BY <2>1, <2>2, NatInd
<1>3. ASSUME NEW n \in Nat, NEW m \in Nat, NEW g, NEW h, Up(n, g), Up(m, h), n <= m
      PROVE  \A k \in 0..n : g[k] = h[k]
  <2> DEFINE T == {k \in Nat : k <= n => g[k] = h[k]}
  <2>1. 0 \in T
    BY <1>3
  <2>2. ASSUME NEW k \in Nat, k \in T PROVE k + 1 \in T
    <3>1. CASE k + 1 <= n
      <4>1. k + 1 \in 1..n /\ k + 1 \in 1..m /\ (k + 1) - 1 = k /\ g[k] = h[k]
        BY <1>3, <2>2, <3>1
      <4>2. g[k + 1] = After(g[k]) /\ h[k + 1] = After(h[k])
        BY <1>3, <4>1
      <4>3. QED BY <4>1, <4>2
    <3>2. QED BY <3>1
  <2> HIDE DEF T
  <2>3. \A k \in Nat : k \in T
    BY <2>1, <2>2, NatInd
  <2>4. QED BY <2>3 DEF T
<1> DEFINE U(n) == CHOOSE g : Up(n, g)
           f == [k \in Nat |-> U(k)[k]]
<1>4. \A n \in Nat : Up(n, U(n))
  <2> SUFFICES ASSUME NEW n \in Nat PROVE Up(n, U(n))
    OBVIOUS
  <2>1. \E g : Up(n, g)
    BY <1>2
  <2> HIDE DEF Up
  <2>2. QED BY <2>1
<1> HIDE DEF U
<1>5. f[0] = id
  BY <1>4
<1>6. ASSUME NEW k \in Nat, k # 0 PROVE f[k] = After(f[k - 1])
  <2>1. k - 1 \in Nat /\ k - 1 <= k /\ k - 1 \in 0..k - 1 /\ k \in 1..k
    BY <1>6
  <2>2. Up(k, U(k)) /\ Up(k - 1, U(k - 1))
    BY <1>4, <2>1
  <2>3. U(k)[k] = After(U(k)[k - 1])
    BY <2>1, <2>2
  <2>4. U(k - 1)[k - 1] = U(k)[k - 1]
    <3> HIDE DEF Up
    <3>1. QED BY <1>3, <2>1, <2>2
  <2>5. QED BY <2>1, <2>3, <2>4
<1>7. f = [k \in Nat |-> IF k = 0 THEN id ELSE After(f[k - 1])]
  <2>1. \A k \in Nat : f[k] = IF k = 0 THEN id ELSE After(f[k - 1])
    BY <1>5, <1>6
  <2> DEFINE e == [k \in Nat |-> IF k = 0 THEN id ELSE After(f[k - 1])]
  <2>2. DOMAIN e = Nat /\ DOMAIN f = Nat /\ \A k \in Nat : e[k] = f[k]
    BY <2>1
  <2>3. QED BY <2>2
<1>8. QED BY <1>7 DEF id, After

\* Follow iterates Defined.
LEMMA FollowFacts ==
  ASSUME Defined \in [Values -> Values]
  PROVE  /\ \A v \in Values : Follow[0][v] = v
         /\ \A k \in Nat : /\ Follow[k] \in [Values -> Values]
                           /\ \A v \in Values : Follow[k + 1][v] = Defined[Follow[k][v]]
<1> DEFINE Eqn(f) == f = [k \in Nat |-> IF k = 0 THEN [v \in Values |-> v]
                                       ELSE [v \in Values |-> Defined[f[k - 1][v]]]]
<1>1. \E f : Eqn(f)
  BY Iterates
<1>2. Follow = CHOOSE f : Eqn(f)
  BY DEF Follow
<1> HIDE DEF Eqn
<1>3. Eqn(Follow)
  BY <1>1, <1>2
<1>4. /\ Follow[0] = [v \in Values |-> v]
      /\ \A k \in Nat : Follow[k + 1] = [v \in Values |-> Defined[Follow[k][v]]]
  <2>1. Follow[0] = [v \in Values |-> v]
    BY <1>3 DEF Eqn
  <2>2. ASSUME NEW k \in Nat PROVE Follow[k + 1] = [v \in Values |-> Defined[Follow[k][v]]]
    <3>1. k + 1 \in Nat /\ k + 1 # 0 /\ (k + 1) - 1 = k
      OBVIOUS
    <3>2. QED BY <1>3, <3>1 DEF Eqn
  <2>3. QED BY <2>1, <2>2
<1> DEFINE S == {k \in Nat : Follow[k] \in [Values -> Values]}
<1>5. 0 \in S
  BY <1>4
<1>6. ASSUME NEW k \in Nat, k \in S PROVE k + 1 \in S
  <2>1. \A v \in Values : Follow[k][v] \in Values
    BY <1>6
  <2>2. \A v \in Values : Defined[Follow[k][v]] \in Values
    BY <2>1
  <2>3. [v \in Values |-> Defined[Follow[k][v]]] \in [Values -> Values]
    BY <2>2
  <2>4. Follow[k + 1] = [v \in Values |-> Defined[Follow[k][v]]]
    BY <1>4, Zenon
  <2>5. Follow[k + 1] \in [Values -> Values]
    BY <2>3, <2>4, Zenon
  <2>6. QED BY <2>5
<1>7. \A k \in Nat : k \in S
  <2> HIDE DEF S
  <2>1. QED BY <1>5, <1>6, NatInd
<1>8. \A k \in Nat : Follow[k] \in [Values -> Values]
  BY <1>7
<1>9. \A k \in Nat : \A v \in Values : Follow[k + 1][v] = Defined[Follow[k][v]]
  <2> SUFFICES ASSUME NEW k \in Nat, NEW v \in Values PROVE Follow[k + 1][v] = Defined[Follow[k][v]]
    OBVIOUS
  <2>1. Follow[k + 1] = [w \in Values |-> Defined[Follow[k][w]]]
    BY <1>4
  <2>2. QED BY <2>1
<1>10. QED BY <1>4, <1>8, <1>9

----------------------------------------------------------------------------
(* The values of constants.                                                *)

\* The declarations of the program as it was, and those of the program as it is.
SameDecls ==
  /\ source \in Programs /\ Len(source) = Len(program) /\ DOMAIN source = DOMAIN program
  /\ \A i \in DOMAIN source : source[i].kind = program[i].kind /\ source[i].name = program[i].name

\* Each const stands for itself.
LEMMA ConstFacts ==
  ASSUME source \in Programs
  PROVE  /\ source \in Seq(Decl) /\ Len(source) \in Nat /\ DOMAIN source = 1..Len(source)
         /\ \A i \in DOMAIN source : source[i].kind = "const" =>
              /\ source[i].value \in Values /\ source[i].name \in Names
              /\ ConstNamed(source[i].name) = {i}
         /\ \A v \in Literals : ConstNamed(v) = {}
         /\ Defined \in [Values -> Values]
         /\ \A v \in Values : ConstNamed(v) = {} => Defined[v] = v
         /\ \A i \in DOMAIN source : source[i].kind = "const" =>
              Defined[source[i].name] = source[i].value
<1>1. source \in Seq(Decl) /\ Len(source) \in Nat /\ DOMAIN source = 1..Len(source)
  BY SemanticAssumption
<1>2. \A i \in DOMAIN source : source[i].kind = "const" =>
        source[i].value \in Values /\ source[i].name \in Names
  <2> SUFFICES ASSUME NEW i \in DOMAIN source, source[i].kind = "const"
               PROVE  source[i].value \in Values /\ source[i].name \in Names
    OBVIOUS
  <2>1. source[i] \in Decl
    BY <1>1
  <2>2. QED BY <2>1, DeclFacts
<1>3. \A i \in DOMAIN source : source[i].kind = "const" => ConstNamed(source[i].name) = {i}
  BY SemanticAssumption DEF ConstNamed
<1>4. \A v \in Literals : ConstNamed(v) = {}
  BY <1>2, SemanticAssumption DEF ConstNamed
<1>5. \A v \in Values : ConstNamed(v) # {} =>
        LET i == CHOOSE i \in ConstNamed(v) : TRUE
        IN  i \in DOMAIN source /\ source[i].kind = "const" /\ source[i].name = v
  <2> SUFFICES ASSUME NEW v \in Values, ConstNamed(v) # {}
               PROVE  (CHOOSE i \in ConstNamed(v) : TRUE) \in ConstNamed(v)
    BY DEF ConstNamed
  <2>1. \E i \in ConstNamed(v) : TRUE
    OBVIOUS
  <2>2. QED BY <2>1
<1>6. \A v \in Values : Defined[v] = IF ConstNamed(v) = {} THEN v
                                     ELSE source[CHOOSE i \in ConstNamed(v) : TRUE].value
  BY DEF Defined
<1>7. Defined \in [Values -> Values]
  <2>1. \A v \in Values : (IF ConstNamed(v) = {} THEN v
                           ELSE source[CHOOSE i \in ConstNamed(v) : TRUE].value) \in Values
    BY <1>2, <1>5
  <2>2. QED BY <2>1 DEF Defined
<1>8. \A i \in DOMAIN source : source[i].kind = "const" => Defined[source[i].name] = source[i].value
  <2> SUFFICES ASSUME NEW i \in DOMAIN source, source[i].kind = "const"
               PROVE  Defined[source[i].name] = source[i].value
    OBVIOUS
  <2> DEFINE n == source[i].name
  <2>1. n \in Values /\ ConstNamed(n) = {i}
    BY <1>2, <1>3 DEF Values
  <2>2. (CHOOSE j \in ConstNamed(n) : TRUE) = i
    BY <2>1
  <2>3. QED BY <1>6, <2>1, <2>2
<1>9. QED BY <1>1, <1>2, <1>3, <1>4, <1>6, <1>7, <1>8

\* One does not get further than to a value that is no const.
LEMMA FollowStays ==
  ASSUME source \in Programs, NEW v \in Values, NEW k \in Nat, ConstNamed(Follow[k][v]) = {}
  PROVE  \A j \in Nat : Follow[k + j][v] = Follow[k][v]
<1> DEFINE S == {j \in Nat : Follow[k + j][v] = Follow[k][v]}
<1>1. \A i \in Nat : Follow[i][v] \in Values /\ Follow[i + 1][v] = Defined[Follow[i][v]]
  BY ConstFacts, FollowFacts
<1>2. 0 \in S
  OBVIOUS
<1>3. ASSUME NEW j \in Nat, j \in S PROVE j + 1 \in S
  <2>1. k + j \in Nat /\ (k + j) + 1 = k + (j + 1)
    OBVIOUS
  <2>2. Follow[k + (j + 1)][v] = Defined[Follow[k][v]]
    BY <1>1, <1>3, <2>1
  <2>3. Defined[Follow[k][v]] = Follow[k][v]
    BY <1>1, ConstFacts
  <2>4. QED BY <2>2, <2>3
<1> HIDE DEF S
<1>4. \A j \in Nat : j \in S
  BY <1>2, <1>3, NatInd
<1>5. QED BY <1>4 DEF S

\* To follow j times and then k times is to follow k + j times.
LEMMA FollowSum ==
  ASSUME source \in Programs, NEW v \in Values, NEW j \in Nat
  PROVE  \A k \in Nat : Follow[k + j][v] = Follow[k][Follow[j][v]]
<1> DEFINE S == {k \in Nat : Follow[k + j][v] = Follow[k][Follow[j][v]]}
           w == Follow[j][v]
<1>1. \A i \in Nat : \A u \in Values :
        Follow[i][u] \in Values /\ Follow[i + 1][u] = Defined[Follow[i][u]]
  BY ConstFacts, FollowFacts
<1>2. w \in Values
  BY <1>1
<1>3. 0 \in S
  BY <1>2, ConstFacts, FollowFacts
<1>4. ASSUME NEW k \in Nat, k \in S PROVE k + 1 \in S
  <2>1. k + j \in Nat /\ (k + j) + 1 = (k + 1) + j /\ Follow[k + j][v] = Follow[k][w]
    BY <1>4
  <2>2. Follow[(k + 1) + j][v] = Defined[Follow[k][w]]
    BY <1>1, <2>1
  <2>3. Follow[k + 1][w] = Defined[Follow[k][w]]
    BY <1>1, <1>2
  <2>4. QED BY <2>2, <2>3
<1> HIDE DEF S
<1>5. \A k \in Nat : k \in S
  BY <1>3, <1>4, NatInd
<1>6. QED BY <1>5 DEF S

\* If one gets to a value that is no const at all, then in as many steps as the program has
\* declarations: otherwise some const comes twice, and then for ever.
LEMMA LeadsToEnd ==
  ASSUME source \in Programs, NEW v \in Values, NEW m \in Nat, ConstNamed(Follow[m][v]) = {}
  PROVE  Leads(v) = Follow[m][v]
<1> DEFINE N == Len(source)
           Name(k) == Follow[k][v]
<1>1. N \in Nat /\ DOMAIN source = 1..N
  BY ConstFacts
<1>2. \A k \in Nat : Name(k) \in Values /\ Name(k + 1) = Defined[Name(k)]
  BY ConstFacts, FollowFacts
<1>3. \A k, j \in Nat : ConstNamed(Name(k)) = {} /\ k <= j => Name(j) = Name(k)
  <2> SUFFICES ASSUME NEW k \in Nat, NEW j \in Nat, ConstNamed(Name(k)) = {}, k <= j
               PROVE  Name(j) = Name(k)
    OBVIOUS
  <2>1. j - k \in Nat /\ k + (j - k) = j
    OBVIOUS
  <2>2. Name(k + (j - k)) = Name(k)
    BY <2>1, FollowStays
  <2>3. QED BY <2>1, <2>2
<1>4. CASE \E k \in 0..N : ConstNamed(Name(k)) = {}
  <2>1. PICK k \in 0..N : ConstNamed(Name(k)) = {}
    BY <1>4
  <2>2. k \in Nat /\ k <= N
    BY <1>1, <2>1
  <2>3. Name(N) = Name(k)
    BY <1>1, <1>3, <2>1, <2>2
  <2>4. Name(m) = Name(k)
    <3>1. k <= m \/ m <= k
      BY <2>2
    <3>2. QED BY <1>3, <2>1, <2>2, <3>1
  <2>5. QED BY <2>3, <2>4 DEF Leads
<1>5. CASE \A k \in 0..N : ConstNamed(Name(k)) # {}
  <2> DEFINE decl(k) == CHOOSE i \in ConstNamed(Name(k)) : TRUE
             f == [k \in 0..N |-> decl(k)]
  <2>1. \A k \in 0..N : decl(k) \in ConstNamed(Name(k))
    <3> SUFFICES ASSUME NEW k \in 0..N PROVE decl(k) \in ConstNamed(Name(k))
      OBVIOUS
    <3>1. \E i \in ConstNamed(Name(k)) : TRUE
      BY <1>5
    <3>2. QED BY <3>1
  <2> HIDE DEF decl
  <2>2. \A k \in 0..N : decl(k) \in 1..N /\ source[decl(k)].name = Name(k)
    BY <1>1, <2>1 DEF ConstNamed
  <2>3. f \in [0..N -> 1..N]
    BY <2>2
  <2>4. /\ IsFiniteSet(0..N) /\ IsFiniteSet(1..N)
        /\ Cardinality(1..N) < Cardinality(0..N)
    <3>1. 0 \in Int /\ 1 \in Int /\ N \in Int
      BY <1>1
    <3> HIDE DEF N
    <3>2. /\ Cardinality(0..N) = IF 0 > N THEN 0 ELSE N - 0 + 1
          /\ Cardinality(1..N) = IF 1 > N THEN 0 ELSE N - 1 + 1
      BY <3>1, FS_Interval
    <3>3. Cardinality(0..N) = N + 1 /\ Cardinality(1..N) = N
      BY <1>1, <3>2
    <3>4. IsFiniteSet(0..N) /\ IsFiniteSet(1..N)
      BY <3>1, FS_Interval
    <3>5. QED BY <1>1, <3>2, <3>3, <3>4
  <2>5. \E x, y \in 0..N : x # y /\ f[x] = f[y]
    <3> HIDE DEF f
    <3>1. QED BY <2>3, <2>4, FS_PigeonHole
  <2>6. PICK a \in 0..N, b \in 0..N : a < b /\ Name(a) = Name(b)
    <3>1. PICK x \in 0..N, y \in 0..N : x # y /\ f[x] = f[y]
      BY <2>5
    <3>2. Name(x) = Name(y)
      BY <2>2, <3>1
    <3>3. x < y \/ y < x
      BY <1>1, <3>1
    <3>4. QED BY <3>2, <3>3
  <2> DEFINE S == {k \in Nat : \E j \in 0..b - 1 : Name(k) = Name(j)}
  <2>7. a \in Nat /\ b \in Nat /\ a \in 0..b - 1 /\ 0 \in 0..b - 1 /\ b <= N
    BY <1>1, <2>6
  <2>8. 0 \in S
    BY <2>7
  <2>9. ASSUME NEW k \in Nat, k \in S PROVE k + 1 \in S
    <3>1. PICK j \in 0..b - 1 : Name(k) = Name(j)
      BY <2>9
    <3>a. j \in Nat
      BY <2>7, <3>1
    <3>2. Name(k + 1) = Name(j + 1)
      BY <1>2, <3>1, <3>a
    <3>3. j + 1 \in 0..b - 1 \/ j + 1 = b
      BY <2>7, <3>1
    <3>4. \E i \in 0..b - 1 : Name(k + 1) = Name(i)
      BY <2>6, <2>7, <3>a, <3>2, <3>3
    <3>5. k + 1 \in Nat
      OBVIOUS
    <3> HIDE DEF Name
    <3>6. QED BY <3>4, <3>5
  <2>10. m \in S
    <3> HIDE DEF S
    <3>1. QED BY <2>8, <2>9, NatInd
  <2>11. PICK j \in 0..b - 1 : Name(m) = Name(j)
    BY <2>10
  <2>12. j \in 0..N
    BY <1>1, <2>7
  <2>13. ConstNamed(Name(j)) # {}
    BY <1>5, <2>12
  <2>14. QED BY <2>11, <2>13
<1>6. QED BY <1>4, <1>5

\* What a constant should be replaced by.
Value(v) == IF Leads(v) \in Literals THEN Leads(v) ELSE v

\* ... as long as the program does not change.
LEMMA SourceKept ==
  ASSUME UNCHANGED source
  PROVE  Follow' = Follow
BY DEF Follow, Defined, ConstNamed

NoneMisplaced == misplaced \cap TopNames(source) = {}

\* Numbers of declarations in the global scope are those of top-level declarations of that name.
Known ==
  \A n \in Names : scopes[1][n] \in DOMAIN program =>
    program[scopes[1][n]].kind # "run" /\ program[scopes[1][n]].name = n

\* The constants visited have their values, the others what they were declared with.
Valued ==
  \A i \in DOMAIN source : source[i].kind = "const" =>
    program[i].value = IF pass = "visit" /\ i < at THEN Value(source[i].value) ELSE source[i].value

\* const_eval_expr is at a constant that the one it runs for leads to.
Followed == eval # 0 => \E m \in Nat : Follow[m][source[at].value] = source[eval].value

\* More scopes than the global one are open in functions and classes only.
InFunction ==
  Len(scopes) > 1 => at \in DOMAIN program /\ program[at].kind \in {"func", "class"}

ConstInv ==
  /\ SameDecls /\ Known /\ InFunction /\ fresh >= Len(program)
  /\ NoneMisplaced => Valued /\ Followed

\* What a step does to the global scope.
GlobalStep ==
  \A n \in Names :
    \/ scopes'[1][n] = scopes[1][n]
    \/ scopes'[1][n] > Len(program)
    \/ at \in DOMAIN program /\ program[at].kind # "run" /\ program[at].name = n /\ scopes'[1][n] = at

\* A step that declares in the global scope what it is at keeps it Known.
LEMMA KnownStep ==
  ASSUME TypeOK, Known, GlobalStep, Len(program') = Len(program), DOMAIN program' = DOMAIN program,
         \A i \in DOMAIN program : program'[i].kind = program[i].kind /\ program'[i].name = program[i].name
  PROVE  Known'
<1>1. DOMAIN program = 1..Len(program) /\ Len(program) \in Nat
  BY DEF TypeOK
<1> SUFFICES ASSUME NEW n \in Names, scopes'[1][n] \in DOMAIN program
             PROVE  program[scopes'[1][n]].kind # "run" /\ program[scopes'[1][n]].name = n
  BY DEF Known
<1>2. ~(scopes'[1][n] > Len(program))
  BY <1>1
<1>3. QED BY <1>2 DEF Known, GlobalStep

\* A declaration in the global scope, of the one the pass is at or of a new number.
LEMMA DeclareGlobal ==
  ASSUME IInv, Len(scopes) = 1, NEW n \in Names, NEW d \in Nat,
         \/ d > Len(program)
         \/ at \in DOMAIN program /\ program[at].kind # "run" /\ program[at].name = n /\ d = at
  PROVE  /\ Chain(scope_declare(scopes, n, d)) /\ Len(scope_declare(scopes, n, d)) = 1
         /\ \A m \in Names :
              \/ scope_declare(scopes, n, d)[1][m] = scopes[1][m]
              \/ scope_declare(scopes, n, d)[1][m] > Len(program)
              \/ /\ at \in DOMAIN program /\ program[at].kind # "run" /\ program[at].name = m
                 /\ scope_declare(scopes, n, d)[1][m] = at
<1>1. Chain(scopes)
  BY IInvRel
<1>2. QED BY <1>1, DeclareFacts

\* The same const declarations as before are behind.
SamePassed ==
  \A i \in DOMAIN program : program[i].kind = "const" =>
    (pass' = "visit" /\ i < at' <=> pass = "visit" /\ i < at)

\* Every step but an evaluation leaves the program and its const declarations alone.
Leaves ==
  /\ UNCHANGED <<program, source>> /\ misplaced \subseteq misplaced' /\ fresh' >= fresh
  /\ eval = 0 /\ SamePassed
  /\ eval' = 0 \/ (eval' = at' /\ at' = at)
  /\ Len(scopes') > 1 => at' = at /\ at \in DOMAIN program /\ program[at].kind \in {"func", "class"}

\* A step that leaves the program alone keeps what is known of the constants.
LEMMA LeavesPreserves ==
  ASSUME IInv, IInv', ConstInv, Leaves, GlobalStep
  PROVE  ConstInv'
<1>1. TypeOK /\ fresh \in Nat /\ fresh' \in Nat /\ Len(program) \in Nat
  <2>1. TypeOK /\ TypeOK'
    BY DEF IInv
  <2>2. fresh \in Nat /\ fresh' \in Nat /\ Len(program) \in Nat
    BY <2>1 DEF TypeOK
  <2>3. QED BY <2>1, <2>2
<1>2. SameDecls' /\ fresh' >= Len(program')
  BY <1>1 DEF ConstInv, SameDecls, Leaves
<1>3. Known'
  BY <1>1, KnownStep DEF ConstInv, Leaves
<1>a. InFunction'
  BY DEF InFunction, Leaves
<1>4. NoneMisplaced' => NoneMisplaced
  BY DEF NoneMisplaced, Leaves, TopNames
<1>5. Follow' = Follow
  BY SourceKept DEF Leaves
<1>6. Valued => Valued'
  <2> SUFFICES ASSUME Valued, NEW i \in DOMAIN source, source[i].kind = "const"
               PROVE  program[i].value = IF pass' = "visit" /\ i < at' THEN Value(source[i].value)'
                                         ELSE source[i].value
    BY DEF Valued, Leaves
  <2>1. Value(source[i].value)' = Value(source[i].value)
    BY <1>5 DEF Value, Leads, Leaves
  <2>2. pass' = "visit" /\ i < at' <=> pass = "visit" /\ i < at
    BY DEF Leaves, SamePassed, ConstInv, SameDecls
  <2>3. QED BY <2>1, <2>2 DEF Valued
<1>7. Followed'
  <2> SUFFICES ASSUME eval' # 0 PROVE \E m \in Nat : Follow[m][source[at'].value] = source[eval'].value
    BY <1>5 DEF Followed, Leaves
  <2>1. eval' = at' /\ at' = at
    BY DEF Leaves
  <2>2. Follow[0][source[at].value] = source[at].value
    <3>1. at \in DOMAIN source /\ source[at].kind = "const"
      BY <2>1 DEF IInv, EvalOK, ConstInv, SameDecls, Leaves
    <3>2. QED BY <3>1, ConstFacts, FollowFacts DEF ConstInv, SameDecls
  <2>3. QED BY <2>1, <2>2
<1>8. QED BY <1>2, <1>3, <1>a, <1>4, <1>6, <1>7 DEF ConstInv

\* Going on with the next declaration does not pass a const declaration, unless it is at one.
LEMMA PassesNoConst ==
  ASSUME TypeOK, at \in DOMAIN program, NextDecl, NEW i \in DOMAIN program,
         pass = "visit" => i # at
  PROVE  pass' = "visit" /\ i < at' <=> pass = "visit" /\ i < at
<1>1. i \in Nat /\ at \in Nat /\ i >= 1
  BY DEF TypeOK
<1>2. CASE pass = "visit"
  BY <1>1, <1>2 DEF NextDecl
<1>3. CASE pass # "visit"
  BY <1>1, <1>3 DEF NextDecl
<1>4. QED BY <1>2, <1>3

\* The let of a #run block gets a new number.
LEMMA RunKeepsConsts ==
  ASSUME IInv, IInv', ConstInv, VisitRun
  PROVE  ConstInv'
<1>1. PICK p \in {"run", "visit"} :
        /\ AtDecl(p, {"run"})
        /\ scopes' = scope_declare(scopes, program[at].name, fresh + 1)
        /\ misplaced' = misplaced \cup {program[at].name}
        /\ fresh' = fresh + 1 /\ NextDecl /\ UNCHANGED <<program, eval, source>>
  BY DEF VisitRun
<1>2. /\ at \in DOMAIN program /\ program[at].kind = "run" /\ program[at] \in Decl
      /\ Len(scopes) = 1 /\ eval = 0
  BY <1>1, TypeFacts, AtFacts
<1>3. program[at].name \in Names /\ fresh \in Nat /\ Len(program) \in Nat /\ fresh >= Len(program)
  BY <1>2, DeclFacts, TypeFacts DEF ConstInv, TypeOK
<1>4. GlobalStep /\ Len(scopes') = 1
  <2>1. fresh + 1 \in Nat /\ fresh + 1 > Len(program)
    BY <1>3
  <2>2. QED BY <1>1, <1>2, <1>3, <2>1, DeclareGlobal DEF GlobalStep
<1>5. Leaves
  <2>1. SamePassed
    BY <1>1, <1>2, TypeFacts, PassesNoConst DEF SamePassed
  <2>2. fresh' >= fresh /\ eval' = 0
    BY <1>1, <1>2, <1>3
  <2>a. ~(Len(scopes') > 1)
    BY <1>4
  <2>3. QED BY <1>1, <1>2, <2>1, <2>2, <2>a DEF Leaves
<1>6. QED BY <1>4, <1>5, LeavesPreserves

\* A declaration of a top-level name, by the pass that is at it.
LEMMA TopKeepsConsts ==
  ASSUME IInv, IInv', ConstInv, DeclareTop \/ VisitGlobalLet
  PROVE  ConstInv'
<1>1. /\ AtDecl("declare", {"func", "const", "class", "let"}) \/ AtDecl("visit", {"let"})
      /\ scopes' = scope_declare(scopes, program[at].name, at)
      /\ NextDecl /\ UNCHANGED <<program, eval, misplaced, fresh, source>>
  BY DEF DeclareTop, VisitGlobalLet
<1>2. /\ at \in DOMAIN program /\ at \in Nat /\ program[at] \in Decl
      /\ Len(scopes) = 1 /\ eval = 0 /\ program[at].kind # "run"
      /\ pass = "visit" => program[at].kind = "let"
  BY <1>1, TypeFacts, AtFacts
<1>3. program[at].name \in Names /\ fresh \in Nat
  BY <1>2, DeclFacts, TypeFacts
<1>4. GlobalStep /\ Len(scopes') = 1
  BY <1>1, <1>2, <1>3, DeclareGlobal DEF GlobalStep
<1>5. Leaves
  <2>1. SamePassed
    BY <1>1, <1>2, TypeFacts, PassesNoConst DEF SamePassed
  <2>2. fresh' >= fresh /\ eval' = 0
    BY <1>1, <1>2, <1>3
  <2>a. ~(Len(scopes') > 1)
    BY <1>4
  <2>3. QED BY <1>1, <1>2, <2>1, <2>2, <2>a DEF Leaves
<1>6. QED BY <1>4, <1>5, LeavesPreserves

\* Nothing is declared.
LEMMA SkipKeepsConsts ==
  ASSUME IInv, IInv', ConstInv, SkipDecl
  PROVE  ConstInv'
<1>1. /\ AtDecl("run", {"func", "const", "class", "let"}) \/ AtDecl("declare", {"run"})
      /\ NextDecl /\ UNCHANGED <<program, scopes, eval, misplaced, fresh, source>>
  BY DEF SkipDecl
<1>2. at \in DOMAIN program /\ Len(scopes) = 1 /\ eval = 0 /\ pass # "visit" /\ fresh \in Nat
  BY <1>1, TypeFacts, AtFacts
<1>3. GlobalStep
  BY <1>1 DEF GlobalStep
<1>4. Leaves
  <2>1. SamePassed
    BY <1>1, <1>2, TypeFacts, PassesNoConst DEF SamePassed
  <2>2. fresh' >= fresh /\ eval' = 0
    BY <1>1, <1>2
  <2>a. ~(Len(scopes') > 1)
    BY <1>1, <1>2
  <2>3. QED BY <1>1, <1>2, <2>1, <2>2, <2>a DEF Leaves
<1>5. QED BY <1>3, <1>4, LeavesPreserves

\* A function is declared under its own name; its parameter is not in the global scope.
LEMMA FuncKeepsConsts ==
  ASSUME IInv, IInv', ConstInv, VisitFunc
  PROVE  ConstInv'
<1> DEFINE outer == scope_declare(scopes, program[at].name, at)
           inner == scope_declare(scope_enter(outer), program[at].param, fresh + 1)
<1>1. /\ AtDecl("visit", {"func"}) /\ scopes' = scope_enter(inner) /\ fresh' = fresh + 1
      /\ UNCHANGED <<program, pass, at, eval, misplaced, source>>
  BY DEF VisitFunc
<1>2. /\ at \in DOMAIN program /\ at \in Nat /\ program[at] \in Decl
      /\ Len(scopes) = 1 /\ eval = 0 /\ program[at].kind = "func"
  BY <1>1, TypeFacts, AtFacts
<1>3. program[at].name \in Names /\ program[at].param \in Names /\ fresh \in Nat /\ fresh + 1 \in Nat
  BY <1>2, DeclFacts, TypeFacts
<1>4. /\ Chain(outer) /\ Len(outer) = 1
      /\ \A m \in Names : \/ outer[1][m] = scopes[1][m]
                          \/ outer[1][m] > Len(program)
                          \/ /\ at \in DOMAIN program /\ program[at].kind # "run"
                             /\ program[at].name = m /\ outer[1][m] = at
  BY <1>2, <1>3, DeclareGlobal
<1> HIDE DEF outer
<1>5. Chain(scope_enter(outer)) /\ Len(scope_enter(outer)) = 2 /\ scope_enter(outer)[1] = outer[1]
  <2>1. Chain(Append(outer, Empty)) /\ Len(Append(outer, Empty)) = Len(outer) + 1
    BY <1>4, EmptyFacts, AppendFacts
  <2>2. Append(outer, Empty)[1] = outer[1]
    BY <1>3, <1>4, EmptyFacts, OutermostKept
  <2>3. QED BY <1>4, <2>1, <2>2 DEF scope_enter
<1>6. Chain(inner) /\ inner[1] = outer[1]
  <2>1. Chain(inner)
    BY <1>3, <1>5, DeclareFacts
  <2>2. Rebind(scope_enter(outer), program[at].param, fresh + 1) = inner
    BY <1>3, <1>5, DeclareFacts
  <2>3. Len(scope_enter(outer)) > 1
    BY <1>5
  <2> HIDE DEF inner
  <2>4. QED BY <1>3, <1>5, <2>1, <2>2, <2>3, OutermostKept
<1> HIDE DEF inner
<1>7. scopes'[1] = outer[1]
  BY <1>1, <1>3, <1>6, EmptyFacts, OutermostKept DEF scope_enter
<1>8. GlobalStep
  BY <1>4, <1>7 DEF GlobalStep
<1>9. Leaves
  BY <1>1, <1>2, <1>3 DEF Leaves, SamePassed
<1>10. QED BY <1>8, <1>9, LeavesPreserves

\* So is a class, and its method gets a new number.
LEMMA ClassKeepsConsts ==
  ASSUME IInv, IInv', ConstInv, VisitClass
  PROVE  ConstInv'
<1> DEFINE named == scope_declare(scopes, program[at].name, at)
           outer == scope_declare(named, program[at].method, fresh + 1)
<1>1. /\ AtDecl("visit", {"class"}) /\ scopes' = scope_enter(scope_enter(outer)) /\ fresh' = fresh + 2
      /\ misplaced \subseteq misplaced' /\ UNCHANGED <<program, pass, at, eval, source>>
  BY DEF VisitClass
<1>2. /\ at \in DOMAIN program /\ at \in Nat /\ program[at] \in Decl
      /\ Len(scopes) = 1 /\ eval = 0 /\ program[at].kind = "class"
  BY <1>1, TypeFacts, AtFacts
<1>3. /\ program[at].name \in Names /\ program[at].method \in Names /\ fresh \in Nat
      /\ fresh + 1 \in Nat /\ fresh + 1 > Len(program)
  <2>1. Len(program) \in Nat /\ fresh >= Len(program) /\ fresh \in Nat
    BY TypeFacts DEF ConstInv, TypeOK
  <2>2. QED BY <1>2, <2>1, DeclFacts
<1>4. /\ Chain(named) /\ Len(named) = 1
      /\ \A m \in Names : \/ named[1][m] = scopes[1][m]
                          \/ named[1][m] > Len(program)
                          \/ /\ at \in DOMAIN program /\ program[at].kind # "run"
                             /\ program[at].name = m /\ named[1][m] = at
  BY <1>2, <1>3, DeclareGlobal
<1> HIDE DEF named
<1>5. /\ Chain(outer)
      /\ \A m \in Names : outer[1][m] = named[1][m] \/ outer[1][m] > Len(program)
  BY <1>3, <1>4, DeclareFacts
<1> HIDE DEF outer
<1>6. Chain(scope_enter(outer)) /\ scope_enter(outer)[1] = outer[1]
  BY <1>3, <1>5, EmptyFacts, AppendFacts, OutermostKept DEF scope_enter
<1>7. scope_enter(scope_enter(outer))[1] = outer[1]
  <2> DEFINE e == scope_enter(outer)
  <2>1. Append(e, Empty)[1] = e[1]
    <3> HIDE DEF e
    <3>1. Chain(e)
      BY <1>6 DEF e
    <3>2. QED BY <1>3, <3>1, EmptyFacts, OutermostKept
  <2>2. QED BY <1>6, <2>1 DEF scope_enter
<1>8. GlobalStep
  <2>1. \A m \in Names : scopes'[1][m] = named[1][m] \/ scopes'[1][m] > Len(program)
    BY <1>1, <1>5, <1>7
  <2>2. QED BY <1>4, <2>1 DEF GlobalStep
<1>9. Leaves
  BY <1>1, <1>2, <1>3 DEF Leaves, SamePassed
<1>10. QED BY <1>8, <1>9, LeavesPreserves

\* const_eval_expr starts with the constant it runs for.
LEMMA ConstBegins ==
  ASSUME IInv, IInv', ConstInv, VisitConst
  PROVE  ConstInv'
<1>1. /\ AtDecl("visit", {"const"}) /\ eval' = at
      /\ UNCHANGED <<program, pass, at, scopes, misplaced, fresh, source>>
  BY DEF VisitConst
<1>2. Len(scopes) = 1 /\ ~(1 > 1) /\ eval = 0 /\ fresh \in Nat
  BY <1>1, TypeFacts, AtFacts
<1>3. GlobalStep
  BY <1>1 DEF GlobalStep
<1>4. Leaves
  BY <1>1, <1>2 DEF Leaves, SamePassed
<1>5. QED BY <1>3, <1>4, LeavesPreserves

\* The statements of a body leave the global scope alone.
LEMMA BodyKeepsConsts ==
  ASSUME IInv, IInv', ConstInv,
         \/ VisitUse \/ VisitLet \/ VisitBlock \/ VisitFor \/ VisitIfLetOrCatch \/ VisitLambda
         \/ EndBlock \/ EndFunc
  PROVE  ConstInv'
<1> DEFINE Kept == scopes'[1] = scopes[1]
<1>1. Chain(scopes) /\ fresh \in Nat /\ fresh + 1 \in Nat /\ TypeOK
  BY IInvRel, TypeFacts
<1>0. ASSUME Len(scopes) > 1 PROVE at \in DOMAIN program /\ program[at].kind \in {"func", "class"}
  BY <1>0 DEF ConstInv, InFunction
<1>3. ASSUME InBody PROVE Len(scopes) > 1
  <2>1. Len(scopes) > 2 /\ Len(scopes) \in Nat
    BY <1>1, <1>3, InBodyFacts DEF Chain
  <2>2. QED BY <2>1
<1>2. ASSUME InBody, fresh' \in {fresh, fresh + 1}, misplaced \subseteq misplaced', Kept PROVE ConstInv'
  <2>1. eval = 0 /\ UNCHANGED <<program, pass, at, eval, source>>
    BY <1>2, InBodyFacts, BodyFacts DEF InBody
  <2>2. SamePassed
    BY <2>1 DEF SamePassed
  <2>3. fresh' >= fresh
    BY <1>1, <1>2
  <2>4. Leaves
    BY <1>0, <1>2, <1>3, <2>1, <2>2, <2>3 DEF Leaves
  <2>5. GlobalStep
    BY <1>2 DEF GlobalStep
  <2>6. QED BY <2>4, <2>5, LeavesPreserves
<1>4. ASSUME InBody, NEW n \in Names
      PROVE  /\ scope_declare(scopes, n, fresh + 1)[1] = scopes[1]
             /\ Chain(scope_declare(scopes, n, fresh + 1))
  <2>1. Rebind(scopes, n, fresh + 1) = scope_declare(scopes, n, fresh + 1)
    BY <1>1, DeclareFacts
  <2>2. Rebind(scopes, n, fresh + 1)[1] = scopes[1]
    BY <1>1, <1>3, <1>4, OutermostKept
  <2>3. Chain(scope_declare(scopes, n, fresh + 1))
    BY <1>1, DeclareFacts
  <2>4. QED BY <2>1, <2>2, <2>3
<1>5. ASSUME NEW c, Chain(c) PROVE scope_enter(c)[1] = c[1]
  BY <1>5, EmptyFacts, AppendFacts DEF scope_enter, Chain
<1>6. CASE VisitUse \/ VisitLambda
  <2>1. InBody /\ fresh' \in {fresh, fresh + 1} /\ misplaced' = misplaced /\ Kept
    BY <1>6 DEF VisitUse, VisitLambda
  <2>2. QED BY <1>2, <2>1
<1>7. CASE VisitLet
  <2>1. PICK n \in Names : /\ InBody /\ scopes' = scope_declare(scopes, n, fresh + 1)
                           /\ fresh' = fresh + 1 /\ UNCHANGED misplaced
    BY <1>7 DEF VisitLet
  <2>2. QED BY <1>2, <1>4, <2>1
<1>8. CASE VisitBlock
  <2>1. InBody /\ scopes' = scope_enter(scopes) /\ UNCHANGED <<misplaced, fresh>>
    BY <1>8 DEF VisitBlock
  <2>2. QED BY <1>1, <1>2, <1>5, <2>1
<1>9. CASE VisitFor \/ VisitIfLetOrCatch
  <2>1. PICK n \in Names : InBody /\ BindForBody(n)
    BY <1>9 DEF VisitFor, VisitIfLetOrCatch
  <2>2. /\ scopes' = scope_enter(scope_declare(scopes, n, fresh + 1))
        /\ misplaced' = misplaced \cup {n} /\ fresh' = fresh + 1
    BY <2>1 DEF BindForBody
  <2> DEFINE c == scope_declare(scopes, n, fresh + 1)
  <2>3. Chain(c) /\ c[1] = scopes[1]
    BY <1>4, <2>1
  <2> HIDE DEF c
  <2>4. scope_enter(c)[1] = scopes[1]
    BY <1>5, <2>3
  <2>5. Kept
    BY <2>2, <2>4 DEF c
  <2>6. QED BY <1>2, <2>1, <2>2, <2>5
<1>10. CASE EndBlock
  <2>1. /\ Len(scopes) > 3 /\ scopes' = scope_exit(scopes)
        /\ UNCHANGED <<program, pass, at, eval, misplaced, fresh, source>>
    BY <1>10 DEF EndBlock
  <2>2. Len(scopes) > 2 /\ Len(scopes) > 1 /\ 1 \in 1..Len(scopes) - 1
    BY <1>1, <2>1 DEF Chain
  <2>3. Kept
    BY <1>1, <2>1, <2>2, ExitFacts
  <2>4. eval = 0
    BY <2>2, BodyFacts
  <2>5. GlobalStep
    BY <2>3 DEF GlobalStep
  <2>6. Leaves
    BY <1>0, <1>1, <2>1, <2>2, <2>4 DEF Leaves, SamePassed
  <2>7. QED BY <2>5, <2>6, LeavesPreserves
<1>11. CASE EndFunc
  <2>1. /\ Len(scopes) = 3 /\ scopes' = scope_exit(scope_exit(scopes)) /\ NextDecl
        /\ UNCHANGED <<program, eval, misplaced, fresh, source>>
    BY <1>11 DEF EndFunc
  <2> DEFINE c == scope_exit(scopes)
  <2>2. Len(scopes) > 2 /\ Len(scopes) > 1 /\ 1 \in 1..Len(scopes) - 1 /\ 1 \in 1..2 - 1
    BY <2>1
  <2>3. Chain(c) /\ Len(c) = 2 /\ c[1] = scopes[1]
    <3>1. Chain(c) /\ Len(c) = Len(scopes) - 1 /\ c[1] = scopes[1]
      BY <1>1, <2>2, ExitFacts
    <3>2. QED BY <2>1, <3>1
  <2> HIDE DEF c
  <2>4. scope_exit(c)[1] = c[1] /\ Len(scope_exit(c)) = 1
    <3>1. Len(c) > 1 /\ 1 \in 1..Len(c) - 1
      BY <2>3
    <3>2. scope_exit(c)[1] = c[1] /\ Len(scope_exit(c)) = Len(c) - 1
      BY <2>3, <3>1, ExitFacts
    <3>3. QED BY <2>3, <3>2
  <2>5. GlobalStep
    BY <2>1, <2>3, <2>4 DEF GlobalStep, c
  <2>6. eval = 0 /\ at \in DOMAIN program /\ pass = "visit"
    BY <2>2, BodyFacts
  <2>7. program[at].kind # "const"
    BY <1>0, <2>2
  <2>8. SamePassed
    BY <1>1, <2>1, <2>6, <2>7, PassesNoConst DEF SamePassed
  <2>9. ~(Len(scopes') > 1) /\ fresh' >= fresh
    BY <1>1, <2>1, <2>4 DEF c
  <2>10. Leaves
    BY <2>1, <2>6, <2>8, <2>9 DEF Leaves
  <2>11. QED BY <2>5, <2>10, LeavesPreserves
<1>12. QED BY <1>6, <1>7, <1>8, <1>9, <1>10, <1>11

\* What const_eval_expr looks up in the global scope, when nothing hides a top-level name.
LEMMA ConstLookup ==
  ASSUME IInv, ConstInv, NoneMisplaced, eval # 0, NEW v \in Names
  PROVE  LET d == scope_lookup(scopes, v) IN
         /\ d \in DOMAIN program /\ program[d].kind = "const" => ConstNamed(v) = {d}
         /\ ~(d \in DOMAIN program /\ program[d].kind = "const") => ConstNamed(v) = {}
<1> DEFINE d == scope_lookup(scopes, v)
<1>1. /\ pass = "visit" /\ Len(scopes) = 1 /\ DOMAIN scopes = {1} /\ DOMAIN program = 1..Len(program)
      /\ None \notin DOMAIN program
  <2>1. pass = "visit" /\ Len(scopes) = 1 /\ program \in Seq(Decl) /\ Chain(scopes)
    BY IInvRel DEF IInv, EvalOK, TypeOK
  <2>2. QED BY <2>1 DEF Chain, None
<1>2. d = scopes[1][v]
  <2>1. CASE scopes[1][v] = None
    <3>1. Knowing(scopes, v) = {}
      BY <1>1, <2>1 DEF Knowing
    <3>2. QED BY <2>1, <3>1 DEF scope_lookup
  <2>2. CASE scopes[1][v] # None
    <3>1. Knowing(scopes, v) = {1}
      BY <1>1, <2>2 DEF Knowing
    <3>2. \A j \in {1} : j <= 1
      OBVIOUS
    <3>3. (CHOOSE i \in {1} : \A j \in {1} : j <= i) = 1
      BY <3>2
    <3>4. QED BY <3>1, <3>3 DEF scope_lookup
  <2>3. QED BY <2>1, <2>2
<1>3. SameDecls /\ Known /\ source \in Programs
  BY DEF ConstInv, SameDecls
<1>4. ASSUME d \in DOMAIN program, program[d].kind = "const" PROVE ConstNamed(v) = {d}
  <2>1. program[d].name = v
    BY <1>2, <1>3, <1>4 DEF Known
  <2>2. d \in DOMAIN source /\ source[d].kind = "const" /\ source[d].name = v
    BY <1>3, <1>4, <2>1 DEF SameDecls
  <2>3. QED BY <1>3, <2>2, ConstFacts
<1>5. ASSUME ConstNamed(v) # {} PROVE d \in DOMAIN program /\ program[d].kind = "const"
  <2>1. PICK j \in DOMAIN source : source[j].kind = "const" /\ source[j].name = v
    BY <1>5 DEF ConstNamed
  <2>2. v \notin misplaced
    BY <2>1 DEF NoneMisplaced, TopNames
  <2>3. j \in DOMAIN program /\ program[j].kind = "const" /\ program[j].name = v
    BY <1>3, <2>1 DEF SameDecls
  <2>4. lexical[1][v] = j
    BY <2>3 DEF IInv, GlobalScope
  <2>5. scopes[1][v] = lexical[1][v]
    BY <1>1, <2>2 DEF IInv, Agree
  <2>6. QED BY <1>2, <2>3, <2>4, <2>5
<1> HIDE DEF d
<1>6. /\ d \in DOMAIN program /\ program[d].kind = "const" => ConstNamed(v) = {d}
      /\ ~(d \in DOMAIN program /\ program[d].kind = "const") => ConstNamed(v) = {}
  BY <1>4, <1>5
<1>7. QED BY <1>6 DEF d

\* Where a constant leads to does not depend on whether the one it is defined by has been
\* replaced by its value.
LEMMA ValueFound ==
  ASSUME IInv, ConstInv, NoneMisplaced, eval # 0
  PROVE  LET v == program[eval].value
             t == source[at].value
         IN /\ v \in Values
            /\ v \notin Literals => v = source[eval].value
            /\ v \in Literals => Leads(t) = v
            /\ v \notin Literals /\ ConstNamed(v) = {} => Leads(t) = v
<1> DEFINE v == program[eval].value
           t == source[at].value
           s == source[eval].value
<1>1. source \in Programs /\ Valued /\ Followed
  BY DEF ConstInv, SameDecls
<1>2. /\ eval \in DOMAIN source /\ source[eval].kind = "const"
      /\ at \in DOMAIN source /\ source[at].kind = "const"
  BY DEF ConstInv, SameDecls, IInv, EvalOK
<1>3. s \in Values /\ t \in Values
  BY <1>1, <1>2, ConstFacts
<1>4. v = s \/ (v = Leads(s) /\ Leads(s) \in Literals)
  BY <1>1, <1>2 DEF Valued, Value
<1>5. v \in Values /\ (v \notin Literals => v = s)
  BY <1>3, <1>4 DEF Values
<1>6. PICK m \in Nat : Follow[m][t] = s
  BY <1>1 DEF Followed
<1>7. ASSUME ConstNamed(s) = {} PROVE Leads(t) = s
  BY <1>1, <1>3, <1>6, <1>7, LeadsToEnd
<1>8. ASSUME v \in Literals PROVE Leads(t) = v
  <2>1. ConstNamed(v) = {}
    BY <1>1, <1>8, ConstFacts
  <2>2. CASE v = s
    BY <1>7, <2>1, <2>2
  <2>3. CASE v = Leads(s)
    <3>1. Len(source) \in Nat /\ Len(source) + m \in Nat
      BY <1>1, ConstFacts
    <3>a. Follow[Len(source) + m][t] = Follow[Len(source)][s]
      <4>1. \A k \in Nat : Follow[k + m][t] = Follow[k][Follow[m][t]]
        BY <1>1, <1>3, FollowSum
      <4>2. QED BY <1>6, <3>1, <4>1
    <3>2. Follow[Len(source) + m][t] = v
      BY <2>3, <3>a DEF Leads
    <3>3. QED BY <1>1, <1>3, <2>1, <3>1, <3>2, LeadsToEnd
  <2>4. QED BY <1>4, <2>2, <2>3
<1>9. ASSUME v \notin Literals, ConstNamed(v) = {} PROVE Leads(t) = v
  BY <1>5, <1>7, <1>9
<1>10. QED BY <1>5, <1>8, <1>9

\* const_eval_expr goes on to the next constant, or ends with the value of the one it runs for.
LEMMA EvalKeepsConsts ==
  ASSUME IInv, IInv', ConstInv, const_eval_expr
  PROVE  ConstInv'
<1> DEFINE v == program[eval].value
           d == IF v \in Names THEN scope_lookup(scopes, v) ELSE None
           followed == d \in DOMAIN program /\ program[d].kind = "const"
           t == source[at].value
<1>1. eval # 0 /\ UNCHANGED <<misplaced, fresh, source>>
  BY DEF const_eval_expr
<1>2. Follow' = Follow /\ (NoneMisplaced' => NoneMisplaced)
  BY <1>1, SourceKept DEF NoneMisplaced, TopNames
<1>3. SameDecls /\ Known /\ InFunction /\ fresh >= Len(program) /\ (NoneMisplaced => Valued /\ Followed)
  BY DEF ConstInv
<1>4. /\ at \in DOMAIN source /\ source[at].kind = "const" /\ pass = "visit"
      /\ at \in DOMAIN program /\ program[at].kind = "const" /\ Len(scopes) = 1
      /\ program \in Seq(Decl) /\ at \in Nat /\ program[at] \in Decl
      /\ eval \in DOMAIN source /\ source[eval].kind = "const"
  <2>1. TypeOK /\ EvalOK /\ SameDecls
    BY <1>3 DEF IInv
  <2>2. /\ pass = "visit" /\ at \in DOMAIN program /\ program[at].kind = "const"
        /\ eval \in DOMAIN program /\ program[eval].kind = "const"
    BY <1>1, <2>1 DEF EvalOK
  <2>3. Len(scopes) = 1 /\ program \in Seq(Decl) /\ at \in Nat
    BY <1>1, <2>1 DEF TypeOK
  <2>4. program[at] \in Decl
    BY <2>2, <2>3
  <2>5. QED BY <2>1, <2>2, <2>3, <2>4 DEF SameDecls
<1>a. source \in Programs
  BY <1>3 DEF SameDecls
<1>5. CASE v \in Names /\ followed /\ eval' = d /\ UNCHANGED <<program, pass, at, scopes>>
  <2>1. SameDecls' /\ Known' /\ InFunction' /\ fresh' >= Len(program')
    BY <1>1, <1>3, <1>5 DEF SameDecls, Known, InFunction
  <2>2. Valued => Valued'
    BY <1>1, <1>2, <1>5 DEF Valued, Value, Leads
  <2>3. ASSUME NoneMisplaced PROVE \E m \in Nat : Follow[m][t] = source[d].value
    <3>1. PICK m \in Nat : Follow[m][t] = source[eval].value
      BY <1>1, <1>3, <2>3 DEF Followed
    <3>2. v \notin Literals
      BY <1>5, SemanticAssumption
    <3>3. v = source[eval].value
      BY <1>1, <2>3, <3>2, ValueFound
    <3>4. ConstNamed(v) = {d}
      BY <1>1, <1>5, <2>3, ConstLookup
    <3>5. d \in DOMAIN source /\ source[d].kind = "const" /\ source[d].name = v
      BY <3>4 DEF ConstNamed
    <3>6. Defined[v] = source[d].value
      BY <1>a, <3>5, ConstFacts
    <3>7. t \in Values
      BY <1>4, <1>a, ConstFacts
    <3>8. Follow[m + 1][t] = Defined[Follow[m][t]]
      BY <1>a, <3>7, ConstFacts, FollowFacts
    <3>9. m + 1 \in Nat /\ Follow[m + 1][t] = source[d].value
      BY <3>1, <3>3, <3>6, <3>8
    <3>10. QED BY <3>9
  <2>4. NoneMisplaced => Followed'
    <3> SUFFICES ASSUME NoneMisplaced PROVE \E m \in Nat : Follow[m][source[at].value] = source[eval'].value
      BY <1>1, <1>2, <1>5 DEF Followed
    <3> HIDE DEF d
    <3>1. QED BY <1>5, <2>3
  <2>5. QED BY <1>2, <1>3, <2>1, <2>2, <2>4 DEF ConstInv
<1>6. CASE /\ ~(v \in Names /\ followed)
           /\ program' = IF v \in Literals THEN [program EXCEPT ![at].value = v] ELSE program
           /\ eval' = 0 /\ scopes' = scope_declare(scopes, program[at].name, at) /\ NextDecl
  <2>1. /\ Len(program') = Len(program) /\ DOMAIN program' = DOMAIN program
        /\ \A j \in DOMAIN program : /\ program'[j].kind = program[j].kind
                                     /\ program'[j].name = program[j].name
                                     /\ j # at => program'[j] = program[j]
    <3>1. CASE v \in Literals
      BY <1>4, <1>6, <3>1, ValueReplaced
    <3>2. CASE v \notin Literals
      BY <1>6, <3>2
    <3>3. QED BY <3>1, <3>2
  <2>2. program'[at].value = IF v \in Literals THEN v ELSE program[at].value
    <3>1. CASE v \in Literals
      <4>1. program'[at] = [program[at] EXCEPT !.value = v]
        BY <1>4, <1>6, <3>1
      <4>2. program[at] \in [kind : {"let", "const", "run"}, name : Names, value : Values]
        BY <1>4 DEF Decl
      <4>3. QED BY <3>1, <4>1, <4>2
    <3>2. CASE v \notin Literals
      BY <1>6, <3>2
    <3>3. QED BY <3>1, <3>2
  <2>3. pass' = "visit" /\ at' = at + 1
    BY <1>4, <1>6 DEF NextDecl
  <2>4. program[at].name \in Names
    BY <1>4, DeclFacts
  <2>5. GlobalStep /\ Len(scopes') = 1
    BY <1>4, <1>6, <2>4, DeclareGlobal DEF GlobalStep
  <2>6. Known'
    BY <1>3, <2>1, <2>5, TypeFacts, KnownStep
  <2>7. SameDecls' /\ fresh' >= Len(program')
    BY <1>1, <1>3, <2>1 DEF SameDecls
  <2>8. InFunction' /\ Followed'
    BY <1>6, <2>5 DEF InFunction, Followed
  <2>9. ASSUME NoneMisplaced PROVE program'[at].value = Value(t)
    <3>1. CASE v \in Literals
      BY <1>1, <2>2, <2>9, <3>1, ValueFound DEF Value
    <3>2. CASE v \notin Literals
      <4>1. v \in Names
        BY <1>1, <2>9, <3>2, ValueFound DEF Values
      <4>2. ConstNamed(v) = {}
        BY <1>1, <1>6, <2>9, <4>1, ConstLookup
      <4>3. Leads(t) = v
        BY <1>1, <2>9, <3>2, <4>2, ValueFound
      <4>4. program[at].value = t
        <5>1. ~(at < at)
          BY <1>4
        <5>2. QED BY <1>3, <1>4, <2>9, <5>1 DEF Valued
      <4>5. QED BY <2>2, <3>2, <4>3, <4>4 DEF Value
    <3>3. QED BY <3>1, <3>2
  <2>10. NoneMisplaced => Valued'
    <3> SUFFICES ASSUME NoneMisplaced, NEW i \in DOMAIN source, source[i].kind = "const"
                 PROVE  program'[i].value = IF i < at' THEN Value(source[i].value) ELSE source[i].value
      BY <1>1, <1>2, <2>3 DEF Valued, Value, Leads
    <3>1. i \in DOMAIN program /\ i \in Nat
      BY <1>3, <1>4 DEF SameDecls
    <3>2. CASE i = at
      BY <1>4, <2>3, <2>9, <3>2
    <3>3. CASE i # at
      <4>1. program'[i].value = program[i].value
        BY <2>1, <3>1, <3>3
      <4>2. i < at' <=> i < at
        BY <1>4, <2>3, <3>1, <3>3
      <4>3. QED BY <1>3, <1>4, <4>1, <4>2 DEF Valued
    <3>4. QED BY <3>2, <3>3
  <2>11. QED BY <1>2, <2>6, <2>7, <2>8, <2>10 DEF ConstInv
<1>7. QED BY <1>5, <1>6 DEF const_eval_expr

\* No constant has been visited yet.
LEMMA InitConsts ==
  ASSUME Init
  PROVE  ConstInv
<1>1. /\ program \in Programs /\ source = program /\ pass = "run" /\ scopes = <<Empty>>
      /\ eval = 0 /\ fresh = Len(program)
  BY DEF Init
<1>2. program \in Seq(Decl) /\ Len(program) \in Nat /\ DOMAIN program = 1..Len(program)
  BY <1>1, SemanticAssumption
<1>3. Known
  BY <1>1, <1>2, EmptyFacts DEF Known, None
<1>4. InFunction
  BY <1>1 DEF InFunction
<1>5. SameDecls /\ fresh >= Len(program)
  BY <1>1, <1>2 DEF SameDecls
<1>6. Valued /\ Followed
  BY <1>1 DEF Valued, Followed
<1>7. QED BY <1>3, <1>4, <1>5, <1>6 DEF ConstInv

\* Every step keeps what is known of the constants.
LEMMA NextConsts ==
  ASSUME IInv, IInv', ConstInv, [Next]_vars
  PROVE  ConstInv'
<1>1. CASE TopLevel
  BY <1>1, RunKeepsConsts, TopKeepsConsts, SkipKeepsConsts, FuncKeepsConsts, ClassKeepsConsts,
     ConstBegins, EvalKeepsConsts DEF TopLevel
<1>2. CASE Body
  BY <1>2, BodyKeepsConsts DEF Body
<1>3. CASE UNCHANGED vars
  <2>1. Follow' = Follow
    BY <1>3, SourceKept DEF vars
  <2>2. SameDecls' /\ Known' /\ InFunction' /\ fresh' >= Len(program')
    BY <1>3 DEF vars, ConstInv, SameDecls, Known, InFunction
  <2>3. (NoneMisplaced' => NoneMisplaced) /\ (Followed => Followed')
    BY <1>3, <2>1 DEF vars, NoneMisplaced, TopNames, Followed
  <2>4. Valued => Valued'
    BY <1>3, <2>1 DEF vars, Valued, Value, Leads
  <2>5. QED BY <2>2, <2>3, <2>4 DEF ConstInv
<1>4. QED BY <1>1, <1>2, <1>3 DEF Next

\* A constant that was visited has the literal its definition leads to, in whatever order the
\* constants of the program are declared.
THEOREM SemanticConsts == Spec => []ConstsAgree
<1>1. Init => ConstInv
  BY InitConsts
<1>2. IInv /\ IInv' /\ ConstInv /\ [Next]_vars => ConstInv'
  BY NextConsts
<1>3. ConstInv => ConstsAgree
  BY DEF ConstInv, ConstsAgree, NoneMisplaced, Valued, Value
<1>4. QED BY <1>1, <1>2, <1>3, SemanticInvariant, PTL DEF Spec

=============================================================================
