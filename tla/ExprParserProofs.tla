-------------------------- MODULE ExprParserProofs --------------------------
(***************************************************************************)
(* Precedence climbing binds every operand at least as tightly as its      *)
(* operator, in expressions of any length (ExprParser).  As long as no     *)
(* error was reported and no newline read, each pending call of            *)
(* parse_expr_prec, parse_prefix and parse_infix suits the one that called *)
(* it (Suits), and what a call returned fits its caller (Fits): it binds   *)
(* at least as tightly as was asked for.  The left operand the loop of     *)
(* parse_expr_prec holds is never looser than the operator behind it       *)
(* (Tight), so parse_infix may take it.  All this is said in the levels of *)
(* token_precedence (Strength, Grips); where they leave the order of the   *)
(* specification, RangeInside has the exception (InOrder).                 *)
(***************************************************************************)
EXTENDS ExprParser, SequenceTheorems, WellFoundedInduction, TLAPS

\* A set that holds 0 and with k also k + 1 holds every natural number.
LEMMA NatInd ==
  ASSUME NEW S, 0 \in S, \A k \in Nat : k \in S => k + 1 \in S
  PROVE  \A k \in Nat : k \in S
<1> DEFINE R == OpToRel(<, Nat)
           T == {k \in Nat : k \notin S}
<1>1. IsWellFoundedOn(R, Nat)
  BY NatLessThanWellFounded
<1>2. \A x, y \in Nat : x < y => <<x, y>> \in R
  BY DEF OpToRel
<1>3. T \subseteq Nat /\ \A k \in Nat : k \in S \/ k \in T
  OBVIOUS
<1>4. \A k \in T : k # 0 /\ k - 1 \in Nat /\ (k - 1 \in S => k \in S) /\ k \notin S
  <2> SUFFICES ASSUME NEW k \in T PROVE k # 0 /\ k - 1 \in Nat /\ (k - 1 \in S => k \in S) /\ k \notin S
    OBVIOUS
  <2>1. k \in Nat /\ k \notin S
    OBVIOUS
  <2>2. k # 0
    BY <2>1
  <2>3. k - 1 \in Nat /\ (k - 1) + 1 = k
    BY <2>1, <2>2
  <2>4. QED BY <2>1, <2>2, <2>3
<1> HIDE DEF R, T
<1>5. ASSUME T # {} PROVE FALSE
  <2>1. PICK t \in T : \A u \in T : ~(<<u, t>> \in R)
    BY <1>1, <1>3, <1>5, WFMin
  <2>2. t - 1 \in T
    BY <1>3, <1>4
  <2>3. t - 1 < t
    BY <1>3
  <2>4. QED BY <1>2, <1>3, <2>1, <2>2, <2>3
<1>6. QED BY <1>3, <1>5

\* The levels of t and what is below it.
DownTo(t, f) == f = [n \in Nat |-> IF n = 0 THEN {t} ELSE WithChildren(f[n - 1])]

\* The levels of Nodes are defined for every node.
LEMMA DownExists == \A t : \E f : DownTo(t, f)
<1> SUFFICES ASSUME NEW t PROVE \E f : DownTo(t, f)
  OBVIOUS
<1> DEFINE Up(n, g) == /\ DOMAIN g = 0..n /\ g[0] = {t}
                       /\ \A k \in 1..n : g[k] = WithChildren(g[k - 1])
           S == {n \in Nat : \E g : Up(n, g)}
<1>2. \A n \in Nat : n \in S
  <2>1. 0 \in S
    <3>1. Up(0, [k \in 0..0 |-> {t}])
      OBVIOUS
    <3>2. QED BY <3>1
  <2>2. ASSUME NEW n \in Nat, n \in S PROVE n + 1 \in S
    <3>1. PICK g : Up(n, g)
      BY <2>2
    <3> DEFINE h == [k \in 0..n + 1 |-> IF k = n + 1 THEN WithChildren(g[n]) ELSE g[k]]
    <3>2. DOMAIN h = 0..n + 1 /\ h[0] = {t}
      BY <3>1
    <3>3. ASSUME NEW k \in 1..n + 1 PROVE h[k] = WithChildren(h[k - 1])
      <4>1. CASE k = n + 1
        BY <4>1
      <4>2. CASE k \in 1..n
        BY <3>1, <4>2
      <4>3. QED BY <4>1, <4>2
    <3>4. Up(n + 1, h)
      BY <3>2, <3>3
    <3>5. n + 1 \in Nat
      OBVIOUS
    <3> HIDE DEF Up, h
    <3>6. QED BY <3>4, <3>5
  <2> HIDE DEF S
  <2>3. QED BY <2>1, <2>2, NatInd
<1>3. ASSUME NEW n \in Nat, NEW m \in Nat, NEW g, NEW h, Up(n, g), Up(m, h), n <= m
      PROVE  \A k \in 0..n : g[k] = h[k]
  <2> DEFINE T == {k \in Nat : k <= n => g[k] = h[k]}
  <2>1. 0 \in T
    BY <1>3
  <2>2. ASSUME NEW k \in Nat, k \in T PROVE k + 1 \in T
    <3>1. CASE k + 1 <= n
      <4>1. k + 1 \in 1..n /\ k + 1 \in 1..m /\ (k + 1) - 1 = k /\ g[k] = h[k]
        BY <1>3, <2>2, <3>1
      <4>2. g[k + 1] = WithChildren(g[k]) /\ h[k + 1] = WithChildren(h[k])
        BY <1>3, <4>1
      <4>3. QED BY <4>1, <4>2
    <3>2. QED BY <3>1
  <2> HIDE DEF T
  <2>3. \A k \in Nat : k \in T
    BY <2>1, <2>2, NatInd
  <2>4. QED BY <2>3 DEF T
<1> DEFINE U(n) == CHOOSE g : Up(n, g)
           f == [k \in Nat |-> U(k)[k]]
<1>4. \A n \in Nat : Up(n, U(n))
  <2> SUFFICES ASSUME NEW n \in Nat PROVE Up(n, U(n))
    OBVIOUS
  <2>1. \E g : Up(n, g)
    BY <1>2
  <2> HIDE DEF Up
  <2>2. QED BY <2>1
<1> HIDE DEF U
<1>5. f[0] = {t}
  BY <1>4
<1>6. ASSUME NEW k \in Nat, k # 0 PROVE f[k] = WithChildren(f[k - 1])
  <2>1. k - 1 \in Nat /\ k - 1 <= k /\ k - 1 \in 0..k - 1 /\ k \in 1..k
    BY <1>6
  <2>2. Up(k, U(k)) /\ Up(k - 1, U(k - 1))
    BY <1>4, <2>1
  <2>3. U(k)[k] = WithChildren(U(k)[k - 1])
    BY <2>1, <2>2
  <2>4. U(k - 1)[k - 1] = U(k)[k - 1]
    <3> HIDE DEF Up
    <3>1. QED BY <1>3, <2>1, <2>2
  <2>5. QED BY <2>1, <2>3, <2>4
<1>7. DownTo(t, f)
  <2>1. \A k \in Nat : f[k] = IF k = 0 THEN {t} ELSE WithChildren(f[k - 1])
    BY <1>5, <1>6
  <2> DEFINE e == [k \in Nat |-> IF k = 0 THEN {t} ELSE WithChildren(f[k - 1])]
  <2>2. DOMAIN e = Nat /\ DOMAIN f = Nat /\ \A k \in Nat : e[k] = f[k]
    BY <2>1
  <2>3. f = e
    BY <2>2
  <2>4. QED BY <2>3 DEF DownTo
<1>8. QED BY <1>7

\* A node below t is t or below one of its children.
LEMMA NodesOf ==
  ASSUME NEW t
  PROVE  \A u \in Nodes(t) : u = t \/ \E c \in Range(Children(t)) : u \in Nodes(c)
<1> DEFINE U(c) == CHOOSE f : DownTo(c, f)
<1>1. \A c : DownTo(c, U(c))
  BY DownExists
<1>2. \A c : Nodes(c) = U(c)[MaxTokens]
  BY DEF Nodes, DownTo
<1> HIDE DEF U
<1>3. \A c : U(c)[0] = {c}
  BY <1>1 DEF DownTo
<1>4. \A c : \A n \in Nat : U(c)[n + 1] = WithChildren(U(c)[n])
  <2> SUFFICES ASSUME NEW c, NEW n \in Nat PROVE U(c)[n + 1] = WithChildren(U(c)[n])
    OBVIOUS
  <2>1. n + 1 \in Nat /\ n + 1 # 0 /\ (n + 1) - 1 = n
    OBVIOUS
  <2>2. QED BY <1>1, <2>1 DEF DownTo
<1>5. \A c : \A n \in Nat : \A v \in U(c)[n] :
        v \in U(c)[n + 1] /\ \A w \in Range(Children(v)) : w \in U(c)[n + 1]
  <2>1. \A D, v, w : v \in D => v \in WithChildren(D) /\ (w \in Range(Children(v)) => w \in WithChildren(D))
    BY DEF WithChildren
  <2>2. QED BY ONLY <1>4, <2>1
<1> DEFINE T == {n \in Nat : /\ \A c \in Range(Children(t)) : c \in U(c)[n]
                             /\ \A u \in U(t)[n] : u = t \/ \E c \in Range(Children(t)) : u \in U(c)[n]}
<1>6. 0 \in T
  BY <1>3
<1>7. ASSUME NEW n \in Nat, n \in T PROVE n + 1 \in T
  <2>1. n + 1 \in Nat
    OBVIOUS
  <2>2. \A c \in Range(Children(t)) : c \in U(c)[n + 1]
    BY <1>5, <1>7
  <2>3. ASSUME NEW u \in U(t)[n + 1]
        PROVE  u = t \/ \E c \in Range(Children(t)) : u \in U(c)[n + 1]
    <3>1. u \in U(t)[n] \/ \E v \in U(t)[n] : u \in Range(Children(v))
      BY <1>4, <2>3 DEF WithChildren
    <3>2. CASE u \in U(t)[n]
      BY <1>5, <1>7, <3>2
    <3>3. ASSUME NEW v \in U(t)[n], u \in Range(Children(v))
          PROVE  u = t \/ \E c \in Range(Children(t)) : u \in U(c)[n + 1]
      <4>1. v = t \/ \E c \in Range(Children(t)) : v \in U(c)[n]
        BY <1>7
      <4>2. CASE v = t
        BY <2>2, <3>3, <4>2
      <4>3. CASE \E c \in Range(Children(t)) : v \in U(c)[n]
        BY <1>5, <3>3, <4>3
      <4>4. QED BY <4>1, <4>2, <4>3
    <3>4. QED BY <3>1, <3>2, <3>3
  <2>4. QED BY <2>1, <2>2, <2>3
<1>8. MaxTokens \in T
  <2> HIDE DEF T
  <2>1. MaxTokens \in Nat
    BY ExprAssumption
  <2>2. QED BY <1>6, <1>7, <2>1, NatInd
<1>9. QED BY <1>2, <1>8

\* Binds, Climbs and the test of the operands with the levels of parser.h.
Strength(t) ==
  CASE t.k = "binary"  -> token_precedence(t.op)
    [] t.k = "ternary" -> PREC_TERNARY
    [] t.k = "unary"   -> PREC_UNARY
    [] OTHER           -> PREC_CALL

Primary(t) == Strength(t) = PREC_CALL \/ IncDec(t)

Grips(t) ==
  /\ t.k = "binary" => /\ Strength(t.l) >= Strength(t)
                       /\ t.r # Null => Strength(t.r) >= Strength(t)
  /\ t.k = "unary" /\ t.e # Null => Strength(t.e) >= PREC_UNARY
  /\ t.k = "ternary" => /\ Strength(t.c) > PREC_TERNARY
                        /\ t.m # Null => Strength(t.m) >= PREC_TERNARY
  /\ t.k = "access" => Primary(t.f)
  /\ t.k = "postfix" => Strength(t.e) >= PREC_UNARY

\* Below t no operator has an operand of a looser level.
Sound(t) == t # NoVal /\ \A u \in Nodes(t) : Grips(u)

\* A node is sound when it climbs and its children are sound.
LEMMA SoundNode ==
  ASSUME NEW t, t # NoVal, Grips(t), \A c \in Range(Children(t)) : Sound(c)
  PROVE  Sound(t)
BY NodesOf DEF Sound

\* The elements of s are.
SoundSeq(s) == (\E S : s \in Seq(S)) /\ \A i \in DOMAIN s : Sound(s[i])

\* Lists of sound nodes: empty, of one node, with one more.
LEMMA SoundSeqs ==
  /\ SoundSeq(<<>>)
  /\ \A v : Sound(v) => SoundSeq(<<v>>)
  /\ \A s, v : SoundSeq(s) /\ Sound(v) => SoundSeq(Append(s, v))
  /\ \A s : SoundSeq(s) => \A c \in Range(s) : Sound(c)
  /\ \A s, v : SoundSeq(s) /\ Sound(v) => /\ \A c \in Range(<<v>> \o s) : Sound(c)
                                          /\ \A c \in Range(s \o <<v>>) : Sound(c)
<1> HIDE DEF Sound
<1>1. SoundSeq(<<>>)
  BY DEF SoundSeq
<1>2. ASSUME NEW v, Sound(v) PROVE SoundSeq(<<v>>)
  <2>1. <<v>> \in Seq({v}) /\ DOMAIN <<v>> = {1} /\ <<v>>[1] = v
    OBVIOUS
  <2>2. QED BY <1>2, <2>1 DEF SoundSeq
<1>3. ASSUME NEW s, NEW v, SoundSeq(s), Sound(v)
      PROVE  /\ SoundSeq(Append(s, v))
             /\ \A c \in Range(<<v>> \o s) : Sound(c)
             /\ \A c \in Range(s \o <<v>>) : Sound(c)
  <2>1. PICK S : s \in Seq(S)
    BY <1>3 DEF SoundSeq
  <2>2. s \in Seq(S \cup {v}) /\ <<v>> \in Seq(S \cup {v})
    BY <2>1
  <2>3. Append(s, v) \in Seq(S \cup {v}) /\ <<v>> \o s \in Seq(S \cup {v}) /\ s \o <<v>> \in Seq(S \cup {v})
    BY <2>2
  <2>4. \A i \in DOMAIN Append(s, v) : Append(s, v)[i] = v \/ (i \in DOMAIN s /\ Append(s, v)[i] = s[i])
    BY <2>2
  <2>5. \A i \in DOMAIN (<<v>> \o s) :
           (<<v>> \o s)[i] = v \/ (i - 1 \in DOMAIN s /\ (<<v>> \o s)[i] = s[i - 1])
    BY <2>2
  <2>6. \A i \in DOMAIN (s \o <<v>>) :
           (s \o <<v>>)[i] = v \/ (i \in DOMAIN s /\ (s \o <<v>>)[i] = s[i])
    BY <2>2
  <2>7. SoundSeq(Append(s, v))
    BY <1>3, <2>3, <2>4 DEF SoundSeq
  <2>8. \A i \in DOMAIN (<<v>> \o s) : Sound((<<v>> \o s)[i])
    BY <1>3, <2>5 DEF SoundSeq
  <2>9. \A i \in DOMAIN (s \o <<v>>) : Sound((s \o <<v>>)[i])
    BY <1>3, <2>6 DEF SoundSeq
  <2>10. QED BY <2>7, <2>8, <2>9 DEF Range
<1>4. ASSUME NEW s, SoundSeq(s) PROVE \A c \in Range(s) : Sound(c)
  BY <1>4 DEF SoundSeq, Range
<1>5. QED BY <1>1, <1>2, <1>3, <1>4
----------------------------------------------------------------------------
(* Trees.                                                                  *)

\* The two orders differ only where a range stands in a shift or in a bitwise operator.
LEMMA LevelOrder ==
  \A a, b : token_precedence(a) >= token_precedence(b) =>
    Level(a) >= Level(b) \/ (a = "DOT_DOT" /\ b \in {"PIPE", "CARET", "AMPERSAND", "LT_LT"})
<1>1. \A a : Level(a) = IF a = "DOT_DOT" THEN 6 ELSE token_precedence(a)
  BY DEF Level, token_precedence, PREC_MIN, PREC_ASSIGNMENT, PREC_TERNARY, PREC_CALL
<1>2. \A a : /\ token_precedence(a) \in 0..15 /\ token_precedence("DOT_DOT") = 11
             /\ token_precedence(a) \in 7..10 => a \in {"PIPE", "CARET", "AMPERSAND", "LT_LT"}
  BY DEF token_precedence, PREC_MIN, PREC_ASSIGNMENT, PREC_TERNARY, PREC_CALL
<1>3. \A a : token_precedence(a) = 11 => a = "DOT_DOT"
  BY DEF token_precedence, PREC_MIN, PREC_ASSIGNMENT, PREC_TERNARY, PREC_CALL
<1>4. SUFFICES ASSUME NEW a, NEW b, token_precedence(a) >= token_precedence(b)
               PROVE  Level(a) >= Level(b) \/ (a = "DOT_DOT" /\ b \in {"PIPE", "CARET", "AMPERSAND", "LT_LT"})
  OBVIOUS
<1>5. CASE a = "DOT_DOT" /\ b # "DOT_DOT"
  <2>1. token_precedence(b) \in 0..10 /\ Level(b) = token_precedence(b) /\ Level(a) = 6
    BY <1>1, <1>2, <1>3, <1>4, <1>5
  <2>2. CASE token_precedence(b) \in 7..10
    BY <1>2, <1>5, <2>2
  <2>3. CASE token_precedence(b) \notin 7..10
    BY <2>1, <2>3
  <2>4. QED BY <2>2, <2>3
<1>6. CASE a # "DOT_DOT" \/ b = "DOT_DOT"
  BY <1>1, <1>2, <1>4, <1>6
<1>7. QED BY <1>5, <1>6

\* What grips, climbs.
LEMMA InOrder ==
  ASSUME NEW t, Grips(t)
  PROVE  Climbs(t)
<1>1. \A a : /\ token_precedence(a) <= 14 => Level(a) <= 14
             /\ token_precedence(a) >= 14 => Level(a) >= 14
             /\ token_precedence(a) >= 2 => Level(a) >= 2
             /\ token_precedence(a) > 2 => Level(a) > 2
             /\ token_precedence(a) >= 15 => Level(a) = 15
             /\ token_precedence(a) <= 2 => Level(a) <= 2
             /\ token_precedence(a) \in 0..15 /\ Level(a) \in 0..15
  BY DEF Level, token_precedence, PREC_MIN, PREC_ASSIGNMENT, PREC_TERNARY, PREC_CALL
<1>2. ASSUME NEW u
      PROVE  /\ Strength(u) >= 14 => Binds(u) >= 14
             /\ Strength(u) >= 2 => Binds(u) >= 2
             /\ Strength(u) > 2 => Binds(u) > 2
             /\ Strength(u) = 15 => Binds(u) = 15
             /\ \A op : Strength(u) >= token_precedence(op) => Binds(u) >= Level(op) \/ RangeInside(op, u)
  <2>1. Level("QUESTION") = 2
    BY DEF Level
  <2>2. CASE u.k = "binary"
    <3>1. Strength(u) = token_precedence(u.op) /\ Binds(u) = Level(u.op)
      BY <2>2 DEF Strength, Binds
    <3>2. QED BY <1>1, <2>2, <3>1, LevelOrder DEF RangeInside
  <2>3. CASE u.k = "ternary"
    <3>1. Strength(u) = 2 /\ Binds(u) = 2
      BY <2>1, <2>3 DEF Strength, Binds, PREC_TERNARY
    <3>2. QED BY <1>1, <3>1
  <2>4. CASE u.k = "unary"
    <3>1. Strength(u) = 14 /\ Binds(u) = 14
      BY <2>4 DEF Strength, Binds, PREC_UNARY
    <3>2. QED BY <1>1, <3>1
  <2>5. CASE u.k \notin {"binary", "ternary", "unary"}
    <3>1. Strength(u) = 15 /\ Binds(u) = 15
      BY <2>5 DEF Strength, Binds, PREC_CALL
    <3>2. QED BY <1>1, <3>1
  <2>6. QED BY <2>2, <2>3, <2>4, <2>5
<1>3. Level("QUESTION") = 2
  BY DEF Level
<1>4. CASE t.k = "binary"
  <2>1. Strength(t) = token_precedence(t.op)
    BY <1>4 DEF Strength
  <2>2. \A u \in {t.l, t.r} \ {Null} : Strength(u) >= token_precedence(t.op) \/ u = t.l
    BY <1>4, <2>1 DEF Grips
  <2>3. Strength(t.l) >= token_precedence(t.op)
    BY <1>4, <2>1 DEF Grips
  <2>4. QED BY <1>2, <1>4, <2>2, <2>3 DEF Climbs
<1>5. CASE t.k = "ternary"
  BY <1>2, <1>3, <1>5 DEF Climbs, Grips, PREC_TERNARY
<1>6. CASE t.k \in {"unary", "postfix"}
  BY <1>2, <1>6 DEF Climbs, Grips, PREC_UNARY
<1>7. CASE t.k = "access"
  BY <1>2, <1>7 DEF Climbs, Grips, Primary, PREC_CALL
<1>8. CASE t.k \notin {"binary", "unary", "ternary", "access", "postfix"}
  BY <1>8 DEF Climbs
<1>9. QED BY <1>4, <1>5, <1>6, <1>7, <1>8

\* What token_precedence returns: operators bind below PREC_UNARY, the rest not at all.
LEMMA Precedences ==
  /\ \A kind : token_precedence(kind) \in 0..15
  /\ \A kind \in StopKinds : token_precedence(kind) = 0
  /\ \A kind \in BinaryOps \cup {"QUESTION"} : token_precedence(kind) \in 1..13
  /\ token_precedence("QUESTION") = 2
BY DEF token_precedence, StopKinds, BinaryOps, PREC_MIN, PREC_ASSIGNMENT, PREC_TERNARY, PREC_UNARY, PREC_CALL

\* The levels there are.
LEMMA StrengthRange == \A t : Strength(t) \in 0..15
BY Precedences DEF Strength, PREC_TERNARY, PREC_UNARY, PREC_CALL

\* A missing operand is sound.
LEMMA SoundNull == Sound(Null)
<1>1. Children(Null) = <<>> /\ Grips(Null) /\ Null # NoVal
  BY DEF Children, Grips, Null, NoVal
<1>2. Range(<<>>) = {}
  BY DEF Range
<1>3. QED BY <1>1, <1>2, SoundNode

\* A token of its own is sound and primary.
LEMMA SoundLeaf == \A at : Sound(Leaf(at)) /\ Leaf(at) # Null /\ Strength(Leaf(at)) = 15
<1> SUFFICES ASSUME NEW at PROVE Sound(Leaf(at)) /\ Leaf(at) # Null /\ Strength(Leaf(at)) = 15
  OBVIOUS
<1>1. Leaf(at).k = "leaf"
  BY DEF Leaf
<1>2. Children(Leaf(at)) = <<>> /\ Grips(Leaf(at))
  BY <1>1 DEF Children, Grips
<1>3. Leaf(at) # NoVal /\ Leaf(at) # Null
  BY <1>1 DEF Null, NoVal
<1>4. Range(<<>>) = {}
  BY DEF Range
<1>5. Sound(Leaf(at))
  BY <1>2, <1>3, <1>4, SoundNode
<1>6. QED BY <1>1, <1>3, <1>5 DEF Strength, PREC_CALL

\* Nodes with one operand: unary, postfix and parenthesised ones.
LEMMA SoundOne ==
  ASSUME NEW e, Sound(e)
  PROVE  /\ Strength(e) >= PREC_UNARY =>
              \A at : Sound(Postfix(at, e)) /\ Postfix(at, e) # Null /\ Strength(Postfix(at, e)) = 15
         /\ Sound(Paren(e)) /\ Paren(e) # Null /\ Strength(Paren(e)) = 15
         /\ \A op, at : (e # Null => Strength(e) >= PREC_UNARY) =>
              /\ Sound(Unary(op, at, e)) /\ Unary(op, at, e) # Null /\ Strength(Unary(op, at, e)) = 14
              /\ op = "PLUS_PLUS" => IncDec(Unary(op, at, e))
<1> HIDE DEF Sound
<1>1. \A c \in Range(<<e>>) : Sound(c)
  BY SoundSeqs
<1>2. ASSUME NEW at, Strength(e) >= PREC_UNARY
      PROVE  Sound(Postfix(at, e)) /\ Postfix(at, e) # Null /\ Strength(Postfix(at, e)) = 15
  <2>1. Postfix(at, e).k = "postfix" /\ Postfix(at, e).e = e
    BY DEF Postfix
  <2>2. Children(Postfix(at, e)) = <<e>> /\ Grips(Postfix(at, e))
    BY <1>2, <2>1 DEF Children, Grips
  <2>3. Postfix(at, e) # NoVal /\ Postfix(at, e) # Null
    BY <2>1 DEF Null, NoVal
  <2>4. Sound(Postfix(at, e))
    BY <1>1, <2>2, <2>3, SoundNode
  <2>5. QED BY <2>1, <2>3, <2>4 DEF Strength, PREC_CALL
<1>3. Sound(Paren(e)) /\ Paren(e) # Null /\ Strength(Paren(e)) = 15
  <2>1. Paren(e).k = "paren" /\ Paren(e).e = e
    BY DEF Paren
  <2>2. Children(Paren(e)) = <<e>> /\ Grips(Paren(e))
    BY <2>1 DEF Children, Grips
  <2>3. Paren(e) # NoVal /\ Paren(e) # Null
    BY <2>1 DEF Null, NoVal
  <2>4. Sound(Paren(e))
    BY <1>1, <2>2, <2>3, SoundNode
  <2>5. QED BY <2>1, <2>3, <2>4 DEF Strength, PREC_CALL
<1>4. ASSUME NEW op, NEW at, e # Null => Strength(e) >= PREC_UNARY
      PROVE  /\ Sound(Unary(op, at, e)) /\ Unary(op, at, e) # Null /\ Strength(Unary(op, at, e)) = 14
             /\ op = "PLUS_PLUS" => IncDec(Unary(op, at, e))
  <2>1. Unary(op, at, e).k = "unary" /\ Unary(op, at, e).e = e /\ Unary(op, at, e).op = op
    BY DEF Unary
  <2>2. Children(Unary(op, at, e)) = <<e>> /\ Grips(Unary(op, at, e))
    BY <1>4, <2>1 DEF Children, Grips
  <2>3. Unary(op, at, e) # NoVal /\ Unary(op, at, e) # Null
    BY <2>1 DEF Null, NoVal
  <2>4. Sound(Unary(op, at, e))
    BY <1>1, <2>2, <2>3, SoundNode
  <2>5. QED BY <2>1, <2>3, <2>4 DEF Strength, PREC_UNARY, IncDec
<1>5. QED BY <1>2, <1>3, <1>4

\* A binary node is sound when neither operand is looser than its operator.
LEMMA SoundBinary ==
  ASSUME NEW op, NEW at, NEW l, NEW r, Sound(l), Sound(r),
         Strength(l) >= token_precedence(op), r # Null => Strength(r) >= token_precedence(op)
  PROVE  /\ Sound(Binary(op, at, l, r)) /\ Binary(op, at, l, r) # Null
         /\ Strength(Binary(op, at, l, r)) = token_precedence(op)
<1> HIDE DEF Sound
<1> DEFINE t == Binary(op, at, l, r)
<1>1. t.k = "binary" /\ t.l = l /\ t.r = r /\ t.op = op
  BY DEF Binary
<1> HIDE DEF t
<1>2. Children(t) = <<l, r>> /\ Strength(t) = token_precedence(op)
  BY <1>1 DEF Children, Strength
<1>3. Grips(t)
  BY <1>1, <1>2 DEF Grips
<1>4. t # NoVal /\ t # Null
  BY <1>1 DEF Null, NoVal
<1>5. \A c \in Range(<<l, r>>) : Sound(c)
  BY DEF Range
<1>6. Sound(t)
  BY <1>2, <1>3, <1>4, <1>5, SoundNode
<1>7. QED BY <1>2, <1>4, <1>6 DEF t

\* A ternary node binds at PREC_TERNARY.
LEMMA SoundTernary ==
  ASSUME NEW at, NEW c, NEW m, NEW r, Sound(c), Sound(m), Sound(r),
         Strength(c) > PREC_TERNARY, m # Null => Strength(m) >= PREC_TERNARY
  PROVE  Sound(Ternary(at, c, m, r)) /\ Ternary(at, c, m, r) # Null /\ Strength(Ternary(at, c, m, r)) = 2
<1> HIDE DEF Sound
<1> DEFINE t == Ternary(at, c, m, r)
<1>1. t.k = "ternary" /\ t.c = c /\ t.m = m /\ t.r = r
  BY DEF Ternary
<1> HIDE DEF t
<1>2. Children(t) = <<c, m, r>> /\ Strength(t) = 2 /\ Grips(t)
  BY <1>1 DEF Children, Strength, Grips, PREC_TERNARY
<1>4. t # NoVal /\ t # Null
  BY <1>1 DEF Null, NoVal
<1>5. \A x \in Range(<<c, m, r>>) : Sound(x)
  BY DEF Range
<1>6. Sound(t)
  BY <1>2, <1>4, <1>5, SoundNode
<1>7. QED BY <1>2, <1>4, <1>6 DEF t

\* Arrays, calls, indices, fields and lambdas are primary, whatever their arguments.
LEMMA SoundList ==
  ASSUME NEW at, NEW args, SoundSeq(args)
  PROVE  /\ Sound(Array(at, args)) /\ Array(at, args) # Null /\ Strength(Array(at, args)) = 15
         /\ \A f : Sound(f) /\ Primary(f) =>
              /\ Sound(Access(at, f, args)) /\ Access(at, f, args) # Null
              /\ Strength(Access(at, f, args)) = 15
         /\ \A e : Sound(e) => /\ Sound(Lambda(at, args, e)) /\ Lambda(at, args, e) # Null
                               /\ Strength(Lambda(at, args, e)) = 15
<1> HIDE DEF Sound, SoundSeq
<1>1. Sound(Array(at, args)) /\ Array(at, args) # Null /\ Strength(Array(at, args)) = 15
  <2> DEFINE t == Array(at, args)
  <2>1. t.k = "array" /\ t.args = args
    BY DEF Array
  <2> HIDE DEF t
  <2>2. Children(t) = args /\ Strength(t) = 15 /\ Grips(t)
    BY <2>1 DEF Children, Strength, Grips, PREC_CALL
  <2>3. t # NoVal /\ t # Null
    BY <2>1 DEF Null, NoVal
  <2>4. Sound(t)
    BY <2>2, <2>3, SoundNode, SoundSeqs
  <2>5. QED BY <2>2, <2>3, <2>4 DEF t
<1>2. ASSUME NEW f, Sound(f), Primary(f)
      PROVE  /\ Sound(Access(at, f, args)) /\ Access(at, f, args) # Null
             /\ Strength(Access(at, f, args)) = 15
  <2> DEFINE t == Access(at, f, args)
  <2>1. t.k = "access" /\ t.args = args /\ t.f = f
    BY DEF Access
  <2> HIDE DEF t
  <2>2. Children(t) = <<f>> \o args /\ Strength(t) = 15 /\ Grips(t)
    BY <1>2, <2>1 DEF Children, Strength, Grips, PREC_CALL
  <2>3. t # NoVal /\ t # Null
    BY <2>1 DEF Null, NoVal
  <2>4. Sound(t)
    BY <1>2, <2>2, <2>3, SoundNode, SoundSeqs
  <2>5. QED BY <2>2, <2>3, <2>4 DEF t
<1>3. ASSUME NEW e, Sound(e)
      PROVE  /\ Sound(Lambda(at, args, e)) /\ Lambda(at, args, e) # Null
             /\ Strength(Lambda(at, args, e)) = 15
  <2> DEFINE t == Lambda(at, args, e)
  <2>1. t.k = "lambda" /\ t.ps = args /\ t.e = e
    BY DEF Lambda
  <2> HIDE DEF t
  <2>2. Children(t) = args \o <<e>> /\ Strength(t) = 15 /\ Grips(t)
    BY <2>1 DEF Children, Strength, Grips, PREC_CALL
  <2>3. t # NoVal /\ t # Null
    BY <2>1 DEF Null, NoVal
  <2>4. Sound(t)
    BY <1>3, <2>2, <2>3, SoundNode, SoundSeqs
  <2>5. QED BY <2>2, <2>3, <2>4 DEF t
<1>4. QED BY <1>1, <1>2, <1>3

----------------------------------------------------------------------------
(* Calls.                                                                  *)

\* The places of parse_expr_prec, parse_prefix and parse_infix.
ExprAt == {"start", "postfix", "postfixes", "infix"}

PrefixAt == {"prefix", "unary", "paren", "elements", "element", "params", "param", "lambda"}

InfixAt == {"args", "arg", "index", "slice", "field", "binary", "middle", "else"}

\* f waits for the operand of a prefix operator or for a prefix.
WantsPrefix(f) == f.at = "postfix" \/ (f.at = "unary" /\ f.op = "PLUS_PLUS")

\* f waits for an expression.
WantsExpr(f) ==
  \/ f.at \in {"paren", "element", "lambda", "binary", "middle", "else", "arg", "index", "slice"}
  \/ f.at = "unary" /\ f.op # "PLUS_PLUS"

\* The precedence f asks of it.
Asked(f) ==
  CASE f.at = "unary"  -> PREC_UNARY
    [] f.at = "binary" -> token_precedence(f.op)
    [] f.at = "middle" -> PREC_TERNARY
    [] f.at = "else"   -> PREC_TERNARY - 1
    [] OTHER           -> PREC_MIN

\* The next operator does not take v as its left operand, or may.
Tight(v, kind) == Primary(v) \/ token_precedence(kind) < Strength(v)

\* Where a frame holds the left operand of what comes next.
LoopAt == {"postfixes", "infix"}

\* What a call holds: sound operands, each as tight as its place takes them.
FrameOK(f) ==
  /\ DOMAIN f = {"at", "left", "min", "had", "op", "pl", "mid", "args"}
  /\ f.min \in 0..14
  /\ Sound(f.left) /\ Sound(f.mid) /\ SoundSeq(f.args)
  /\ f.at = "postfixes" => f.left # Null /\ Strength(f.left) >= PREC_UNARY
  /\ f.at = "infix" => f.left # Null /\ Strength(f.left) >= f.min
  /\ f.at = "binary" => Strength(f.left) >= token_precedence(f.op) /\ token_precedence(f.op) \in 1..13
  /\ f.at \in {"middle", "else"} => Strength(f.left) > PREC_TERNARY
  /\ f.at = "else" /\ f.mid # Null => Strength(f.mid) >= PREC_TERNARY
  /\ f.at \in {"args", "arg", "index", "slice", "field"} => Primary(f.left)

\* g may be what f called.
Suits(f, g) ==
  /\ WantsPrefix(f) => g.at \in PrefixAt
  /\ WantsExpr(f) => g.at \in ExprAt /\ g.min = Asked(f)
  /\ f.at = "infix" => /\ g.at \in InfixAt
                       /\ g.at = "binary" => token_precedence(g.op) >= f.min
                       /\ g.at \in {"middle", "else"} => PREC_TERNARY >= f.min

\* f may be given v when the next token is of this kind.
Fits(f, v, kind) ==
  /\ WantsPrefix(f) => v # Null /\ Strength(v) >= PREC_UNARY /\ Tight(v, kind)
  /\ WantsExpr(f) => /\ v = Null => kind = "EOF"
                     /\ v # Null => Strength(v) >= Asked(f)
                     /\ token_precedence(kind) < Asked(f) \/ token_precedence(kind) = 0
  /\ f.at = "infix" => v # Null /\ Strength(v) >= f.min /\ Tight(v, kind)

\* The pending calls suit each other.
StackOK ==
  /\ \E S : stack \in Seq(S)
  /\ \A i \in DOMAIN stack : FrameOK(stack[i])
  /\ \A i \in DOMAIN stack : i + 1 \in DOMAIN stack => Suits(stack[i], stack[i + 1])

\* What was returned fits; where nothing was, the loop's left operand is tight.
ValOK ==
  /\ val # NoVal => Sound(val) /\ (stack # <<>> => Fits(Top, val, current))
  /\ val = NoVal => stack # <<>> /\ (Top.at \in LoopAt => Tight(Top.left, current))

\* No error so far and all on one line.
Clean == errors = 0 /\ "NEWLINE" \notin Range(toks)

\* The inductive invariant.
IInv ==
  /\ alphabet \in Alphabets /\ errors \in {0, 1}
  /\ toks \in Seq(AllKinds \cup {"EOF"}) /\ toks # <<>>
  /\ Clean => StackOK /\ ValOK

\* The stack without its top, and with more on it.
LEMMA StackFacts ==
  ASSUME NEW S, NEW s \in Seq(S), s # <<>>
  PROVE  LET b == SubSeq(s, 1, Len(s) - 1) IN
         /\ Len(s) \in Nat /\ Len(s) >= 1 /\ DOMAIN s = 1..Len(s)
         /\ b \in Seq(S) /\ Len(b) = Len(s) - 1
         /\ DOMAIN b = 1..Len(s) - 1 /\ \A i \in DOMAIN b : b[i] = s[i]
<1>1. Len(s) \in Nat /\ Len(s) >= 1 /\ DOMAIN s = 1..Len(s)
  BY EmptySeq, LenProperties
<1>2. QED BY <1>1, SubSeqProperties

\* What f called returns v.
LEMMA Returns ==
  ASSUME StackOK, stack # <<>>, NEW v, Return(v), Sound(v),
         \A f : FrameOK(f) /\ Suits(f, Top) => Fits(f, v, current')
  PROVE  StackOK' /\ ValOK'
<1> HIDE DEF FrameOK, Suits, Fits, Sound
<1>1. PICK S : stack \in Seq(S)
  BY DEF StackOK
<1>2. /\ Len(stack) \in Nat /\ Len(stack) >= 1 /\ DOMAIN stack = 1..Len(stack)
      /\ Below \in Seq(S) /\ Len(Below) = Len(stack) - 1
      /\ DOMAIN Below = 1..Len(stack) - 1 /\ \A i \in DOMAIN Below : Below[i] = stack[i]
  BY <1>1, StackFacts DEF Below
<1>3. stack' = Below /\ val' = v
  BY DEF Return
<1>4. StackOK'
  <2>1. \A i \in DOMAIN Below : FrameOK(Below[i])
    BY <1>2 DEF StackOK
  <2>2. \A i \in DOMAIN Below : i + 1 \in DOMAIN Below => Suits(Below[i], Below[i + 1])
    BY <1>2 DEF StackOK
  <2>3. QED BY <1>2, <1>3, <2>1, <2>2 DEF StackOK
<1>5. v # NoVal
  BY DEF Sound
<1>6. ASSUME stack' # <<>> PROVE Fits(Top', v, current')
  <2>1. Len(stack) - 1 \in DOMAIN Below
    <3>1. Len(stack) - 1 # 0
      BY <1>2, <1>3, <1>6, EmptySeq
    <3>2. QED BY <1>2, <3>1
  <2>2. /\ Len(stack) - 1 \in DOMAIN stack /\ (Len(stack) - 1) + 1 \in DOMAIN stack
        /\ (Len(stack) - 1) + 1 = Len(stack)
    BY <1>2, <2>1
  <2>3. FrameOK(stack[Len(stack) - 1]) /\ Suits(stack[Len(stack) - 1], stack[Len(stack)])
    BY <2>2 DEF StackOK
  <2>4. Top' = stack[Len(stack) - 1]
    BY <1>2, <1>3, <2>1 DEF Top
  <2>5. QED BY <2>3, <2>4 DEF Top
<1>7. QED BY <1>3, <1>4, <1>5, <1>6 DEF ValOK

\* What f called goes on at g, or calls h.
LEMMA Replaced ==
  ASSUME StackOK, stack # <<>>, NEW g, FrameOK(g), \A f : FrameOK(f) /\ Suits(f, Top) => Suits(f, g)
  PROVE  /\ Resume(g) /\ (g.at \in LoopAt => Tight(g.left, current')) => StackOK' /\ ValOK'
         /\ \A h : Call(g, h) /\ FrameOK(h) /\ Suits(g, h) /\ h.at \notin LoopAt => StackOK' /\ ValOK'
<1> HIDE DEF FrameOK, Suits, Fits, Sound, Tight
<1>1. PICK S : stack \in Seq(S)
  BY DEF StackOK
<1>2. /\ Len(stack) \in Nat /\ Len(stack) >= 1 /\ DOMAIN stack = 1..Len(stack)
      /\ Below \in Seq(S) /\ Len(Below) = Len(stack) - 1
      /\ DOMAIN Below = 1..Len(stack) - 1 /\ \A i \in DOMAIN Below : Below[i] = stack[i]
  BY <1>1, StackFacts DEF Below
<1>3. \A i \in 1..Len(stack) - 1 : FrameOK(stack[i])
  BY <1>2 DEF StackOK
<1>4. \A i \in 1..Len(stack) - 1 : i + 1 \in 1..Len(stack) - 1 => Suits(stack[i], stack[i + 1])
  <2> SUFFICES ASSUME NEW i \in 1..Len(stack) - 1, i + 1 \in 1..Len(stack) - 1
               PROVE  Suits(stack[i], stack[i + 1])
    OBVIOUS
  <2>1. i \in DOMAIN stack /\ i + 1 \in DOMAIN stack
    BY <1>2
  <2>2. QED BY <2>1 DEF StackOK
<1>5. \A i \in 1..Len(stack) - 1 : i + 1 = Len(stack) => Suits(stack[i], g)
  <2> SUFFICES ASSUME NEW i \in 1..Len(stack) - 1, i + 1 = Len(stack) PROVE Suits(stack[i], g)
    OBVIOUS
  <2>1. i \in DOMAIN stack /\ i + 1 \in DOMAIN stack
    BY <1>2
  <2>2. Suits(stack[i], Top) /\ FrameOK(stack[i])
    BY <2>1 DEF StackOK, Top
  <2>3. QED BY <2>2
<1>6. ASSUME Resume(g), g.at \in LoopAt => Tight(g.left, current') PROVE StackOK' /\ ValOK'
  <2> DEFINE s == Append(Below, g)
  <2>1. stack' = s /\ val' = NoVal
    BY <1>6 DEF Resume
  <2>2. /\ s \in Seq(S \cup {g}) /\ Len(s) = Len(stack) /\ DOMAIN s = 1..Len(stack) /\ s[Len(stack)] = g
        /\ \A i \in 1..Len(stack) - 1 : s[i] = stack[i]
    <3>1. Below \in Seq(S \cup {g}) /\ g \in S \cup {g}
      BY <1>2
    <3>2. /\ s \in Seq(S \cup {g}) /\ Len(s) = Len(Below) + 1 /\ s[Len(Below) + 1] = g
          /\ \A i \in 1..Len(Below) : s[i] = Below[i]
      BY <3>1, AppendProperties
    <3>3. Len(Below) + 1 = Len(stack) /\ 1..Len(Below) = DOMAIN Below
      BY <1>2
    <3>4. DOMAIN s = 1..Len(s)
      BY <3>2, LenProperties
    <3> HIDE DEF s
    <3>5. QED BY <1>2, <3>2, <3>3, <3>4
  <2> HIDE DEF s
  <2>3. \A i \in DOMAIN s : FrameOK(s[i])
    BY <1>2, <1>3, <2>2
  <2>4. \A i \in DOMAIN s : i + 1 \in DOMAIN s => Suits(s[i], s[i + 1])
    <3> SUFFICES ASSUME NEW i \in DOMAIN s, i + 1 \in DOMAIN s PROVE Suits(s[i], s[i + 1])
      OBVIOUS
    <3>1. i \in 1..Len(stack) - 1 /\ s[i] = stack[i]
      BY <1>2, <2>2
    <3>2. CASE i + 1 = Len(stack)
      BY <1>5, <2>2, <3>1, <3>2
    <3>3. CASE i + 1 # Len(stack)
      <4>1. i + 1 \in 1..Len(stack) - 1
        BY <1>2, <3>1, <3>3
      <4>2. QED BY <1>4, <2>2, <3>1, <4>1
    <3>4. QED BY <3>2, <3>3
  <2>5. Top' = g /\ stack' # <<>>
    BY <1>2, <2>1, <2>2, EmptySeq DEF Top
  <2>6. QED BY <1>6, <2>1, <2>2, <2>3, <2>4, <2>5 DEF StackOK, ValOK
<1>7. ASSUME NEW h, Call(g, h), FrameOK(h), Suits(g, h), h.at \notin LoopAt PROVE StackOK' /\ ValOK'
  <2> DEFINE s == Below \o <<g, h>>
  <2>1. stack' = s /\ val' = NoVal
    BY <1>7 DEF Call
  <2>2. /\ s \in Seq(S \cup {g, h}) /\ Len(s) = Len(stack) + 1 /\ DOMAIN s = 1..Len(stack) + 1
        /\ s[Len(stack)] = g /\ s[Len(stack) + 1] = h
        /\ \A i \in 1..Len(stack) - 1 : s[i] = stack[i]
    <3>1. Below \in Seq(S \cup {g, h}) /\ <<g, h>> \in Seq(S \cup {g, h})
      BY <1>2
    <3>2. Len(<<g, h>>) = 2 /\ <<g, h>>[1] = g /\ <<g, h>>[2] = h
      OBVIOUS
    <3>3. /\ s \in Seq(S \cup {g, h}) /\ Len(s) = Len(Below) + 2
          /\ \A i \in 1..Len(s) : s[i] = IF i <= Len(Below) THEN Below[i] ELSE <<g, h>>[i - Len(Below)]
      BY <3>1, <3>2, ConcatProperties
    <3>4. Len(Below) + 1 = Len(stack) /\ 1..Len(Below) = DOMAIN Below /\ Len(Below) \in Nat
      BY <1>2
    <3>5. DOMAIN s = 1..Len(s)
      BY <3>3, LenProperties
    <3> HIDE DEF s
    <3>6. s[Len(stack)] = g /\ s[Len(stack) + 1] = h
      <4>1. Len(stack) \in 1..Len(s) /\ Len(stack) + 1 \in 1..Len(s)
        BY <1>2, <3>3, <3>4
      <4>2. s[Len(stack)] = <<g, h>>[1] /\ s[Len(stack) + 1] = <<g, h>>[2]
        BY <1>2, <3>3, <3>4, <4>1
      <4>3. QED BY <3>2, <4>2
    <3>7. \A i \in 1..Len(stack) - 1 : s[i] = stack[i]
      <4> SUFFICES ASSUME NEW i \in 1..Len(stack) - 1 PROVE s[i] = stack[i]
        OBVIOUS
      <4>1. i \in 1..Len(s) /\ i <= Len(Below) /\ i \in DOMAIN Below
        BY <1>2, <3>3, <3>4
      <4>2. QED BY <1>2, <3>3, <4>1
    <3>8. Len(s) = Len(stack) + 1
      BY <1>2, <3>3
    <3>9. QED BY <3>3, <3>5, <3>6, <3>7, <3>8
  <2> HIDE DEF s
  <2>3. \A i \in DOMAIN s : FrameOK(s[i])
    <3>1. \A i \in DOMAIN s : i \in 1..Len(stack) - 1 \/ i = Len(stack) \/ i = Len(stack) + 1
      BY <1>2, <2>2
    <3>2. QED BY <1>3, <1>7, <2>2, <3>1
  <2>4. \A i \in DOMAIN s : i + 1 \in DOMAIN s => Suits(s[i], s[i + 1])
    <3> SUFFICES ASSUME NEW i \in DOMAIN s, i + 1 \in DOMAIN s PROVE Suits(s[i], s[i + 1])
      OBVIOUS
    <3>1. i \in Nat /\ (i \in 1..Len(stack) - 1 \/ i = Len(stack))
      BY <1>2, <2>2
    <3>2. CASE i = Len(stack)
      BY <1>7, <2>2, <3>2
    <3>3. CASE i \in 1..Len(stack) - 1 /\ i + 1 = Len(stack)
      BY <1>5, <2>2, <3>3
    <3>4. CASE i \in 1..Len(stack) - 1 /\ i + 1 # Len(stack)
      <4>1. i + 1 \in 1..Len(stack) - 1
        BY <1>2, <3>4
      <4>2. s[i] = stack[i] /\ s[i + 1] = stack[i + 1]
        BY <2>2, <3>4, <4>1
      <4>3. QED BY <1>4, <3>4, <4>1, <4>2
    <3>5. QED BY <3>1, <3>2, <3>3, <3>4
  <2>5. Top' = h /\ stack' # <<>>
    BY <1>2, <2>1, <2>2, EmptySeq DEF Top
  <2>6. QED BY <1>7, <2>1, <2>2, <2>3, <2>4, <2>5 DEF StackOK, ValOK
<1>8. QED BY <1>6, <1>7

\* The loop of parse_expr_prec calls parse_infix, which waits or calls h.
LEMMA Pushed ==
  ASSUME StackOK, stack # <<>>, NEW at, NEW op, NEW calls, Infix(at, op, calls),
         LET g == [Frame(at, Top.left) EXCEPT !.op = op, !.pl = place] IN
         /\ FrameOK(g) /\ Suits(Top, g) /\ g.at \notin LoopAt
         /\ \/ calls = <<>>
            \/ \E h : calls = <<h>> /\ FrameOK(h) /\ Suits(g, h) /\ h.at \notin LoopAt
  PROVE  StackOK' /\ ValOK'
<1> HIDE DEF FrameOK, Suits, Fits, Sound, Tight
<1> DEFINE g == [Frame(at, Top.left) EXCEPT !.op = op, !.pl = place]
           n == Len(stack)
<1>1. PICK S : stack \in Seq(S)
  BY DEF StackOK
<1>2. n \in Nat /\ n >= 1 /\ DOMAIN stack = 1..n
  BY <1>1, StackFacts
<1>3. FrameOK(g) /\ Suits(stack[n], g) /\ g.at \notin LoopAt
  BY DEF Top
<1>4. stack' = stack \o <<g>> \o calls /\ val' = NoVal
  BY DEF Infix
<1>5. calls = <<>> \/ \E h : calls = <<h>> /\ FrameOK(h) /\ Suits(g, h) /\ h.at \notin LoopAt
  OBVIOUS
<1> HIDE DEF g
<1>6. \A i \in 1..n : FrameOK(stack[i])
  BY <1>2 DEF StackOK
<1>7. \A i \in 1..n : i + 1 \in 1..n => Suits(stack[i], stack[i + 1])
  BY <1>2 DEF StackOK
<1>8. CASE calls = <<>>
  <2> DEFINE s == stack \o <<g>>
  <2>1. s \in Seq(S \cup {g}) /\ Len(s) = n + 1 /\ DOMAIN s = 1..n + 1 /\ s[n + 1] = g
        /\ \A i \in 1..n : s[i] = stack[i]
    BY <1>1, <1>2
  <2>2. stack' = s
    BY <1>4, <1>8, <2>1, ConcatProperties
  <2> HIDE DEF s
  <2>3. \A i \in DOMAIN s : FrameOK(s[i])
    <3>1. \A i \in DOMAIN s : i \in 1..n \/ i = n + 1
      BY <1>2, <2>1
    <3>2. QED BY <1>3, <1>6, <2>1, <3>1
  <2>4. \A i \in DOMAIN s : i + 1 \in DOMAIN s => Suits(s[i], s[i + 1])
    <3> SUFFICES ASSUME NEW i \in DOMAIN s, i + 1 \in DOMAIN s PROVE Suits(s[i], s[i + 1])
      OBVIOUS
    <3>1. i \in 1..n
      BY <1>2, <2>1
    <3>2. CASE i = n
      BY <1>3, <2>1, <3>1, <3>2
    <3>3. CASE i # n
      <4>1. i + 1 \in 1..n
        BY <1>2, <3>1, <3>3
      <4>2. QED BY <1>7, <2>1, <3>1, <4>1
    <3>4. QED BY <3>2, <3>3
  <2>5. Top' = g /\ stack' # <<>>
    BY <1>2, <2>1, <2>2, EmptySeq DEF Top
  <2>6. QED BY <1>3, <1>4, <2>1, <2>2, <2>3, <2>4, <2>5 DEF StackOK, ValOK
<1>9. ASSUME NEW h, calls = <<h>>, FrameOK(h), Suits(g, h), h.at \notin LoopAt PROVE StackOK' /\ ValOK'
  <2> DEFINE s == stack \o <<g>> \o <<h>>
  <2>1. s \in Seq(S \cup {g, h}) /\ Len(s) = n + 2 /\ DOMAIN s = 1..n + 2 /\ s[n + 1] = g /\ s[n + 2] = h
        /\ \A i \in 1..n : s[i] = stack[i]
    BY <1>1, <1>2
  <2>2. stack' = s
    BY <1>4, <1>9
  <2> HIDE DEF s
  <2>3. \A i \in DOMAIN s : FrameOK(s[i])
    <3>1. \A i \in DOMAIN s : i \in 1..n \/ i = n + 1 \/ i = n + 2
      BY <1>2, <2>1
    <3>2. QED BY <1>3, <1>6, <1>9, <2>1, <3>1
  <2>4. \A i \in DOMAIN s : i + 1 \in DOMAIN s => Suits(s[i], s[i + 1])
    <3> SUFFICES ASSUME NEW i \in DOMAIN s, i + 1 \in DOMAIN s PROVE Suits(s[i], s[i + 1])
      OBVIOUS
    <3>1. i \in Nat /\ (i \in 1..n \/ i = n + 1)
      BY <1>2, <2>1
    <3>2. CASE i = n
      BY <1>3, <2>1, <3>1, <3>2
    <3>3. CASE i \in 1..n /\ i # n
      <4>1. i + 1 \in 1..n
        BY <1>2, <3>1, <3>3
      <4>2. QED BY <1>7, <2>1, <3>3, <4>1
    <3>4. CASE i = n + 1
      <4>1. s[i] = g /\ s[i + 1] = h
        BY <1>2, <2>1, <3>4
      <4>2. QED BY <1>9, <4>1
    <3>5. QED BY <3>1, <3>2, <3>3, <3>4
  <2>5. Top' = h /\ stack' # <<>>
    BY <1>2, <2>1, <2>2, EmptySeq DEF Top
  <2>6. QED BY <1>4, <1>9, <2>1, <2>2, <2>3, <2>4, <2>5 DEF StackOK, ValOK
<1>10. QED BY <1>5, <1>8, <1>9

----------------------------------------------------------------------------
(* Steps.                                                                  *)

\* What a step that reports no error finds.
Ready == StackOK /\ ValOK /\ toks \in Seq(AllKinds \cup {"EOF"}) /\ toks # <<>> /\ "NEWLINE" \notin Range(toks)

\* A prefix is returned.
LEMMA PrefixFits ==
  ASSUME NEW g, g.at \in PrefixAt, NEW v, v # Null, Strength(v) >= PREC_UNARY, NEW kind, Tight(v, kind)
  PROVE  \A f : Suits(f, g) => Fits(f, v, kind)
BY DEF PrefixAt, ExprAt, InfixAt, Suits, Fits

\* An expression is returned.
LEMMA ExprFits ==
  ASSUME NEW g, g.at \in ExprAt, NEW v, NEW kind, v = Null => kind = "EOF", v # Null => Strength(v) >= g.min,
         token_precedence(kind) < g.min \/ token_precedence(kind) = 0
  PROVE  \A f : Suits(f, g) => Fits(f, v, kind)
BY DEF PrefixAt, ExprAt, InfixAt, Suits, Fits

\* What parse_infix made is returned.
LEMMA InfixFits ==
  ASSUME NEW g, g.at \in InfixAt, NEW v, v # Null, NEW kind, Tight(v, kind),
         \/ Strength(v) = 15
         \/ g.at = "binary" /\ Strength(v) = token_precedence(g.op)
         \/ g.at = "else" /\ Strength(v) = PREC_TERNARY
  PROVE  \A f : FrameOK(f) /\ Suits(f, g) => Fits(f, v, kind)
<1> SUFFICES ASSUME NEW f, FrameOK(f), Suits(f, g) PROVE Fits(f, v, kind)
  OBVIOUS
<1>1. ~WantsPrefix(f) /\ ~WantsExpr(f)
  BY DEF PrefixAt, ExprAt, InfixAt, Suits
<1>2. ASSUME f.at = "infix" PROVE Strength(v) >= f.min
  <2>1. f.min \in 0..14
    BY DEF FrameOK
  <2>2. /\ g.at = "binary" => token_precedence(g.op) >= f.min
        /\ g.at \in {"middle", "else"} => PREC_TERNARY >= f.min
    BY <1>2 DEF Suits
  <2>3. QED BY <2>1, <2>2
<1>3. QED BY <1>1, <1>2 DEF Fits

\* The frame on top, and what it may be given.
LEMMA TopFacts ==
  ASSUME Ready, stack # <<>>
  PROVE  FrameOK(Top) /\ (val # NoVal => Sound(val) /\ Fits(Top, val, current))
         /\ (val = NoVal /\ Top.at \in LoopAt => Tight(Top.left, current))
<1> HIDE DEF FrameOK, Fits, Sound, Tight
<1>1. PICK S : stack \in Seq(S)
  BY DEF Ready, StackOK
<1>2. Len(stack) \in DOMAIN stack
  BY <1>1, StackFacts
<1>3. QED BY <1>2 DEF Ready, StackOK, ValOK, Top

\* There is no newline.
LEMMA CurrentFacts == Ready => current \in AllKinds \cup {"EOF"} /\ current # "NEWLINE"
<1> SUFFICES ASSUME Ready PROVE current \in AllKinds \cup {"EOF"} /\ current # "NEWLINE"
  OBVIOUS
<1>1. Len(toks) \in DOMAIN toks
  BY EmptySeq, LenProperties DEF Ready
<1>2. current \in Range(toks) /\ current \in AllKinds \cup {"EOF"}
  BY <1>1, ElementOfSeq, LenProperties DEF Ready, current, Range
<1>3. QED BY <1>2 DEF Ready

\* parse_expr_prec calls parse_prefix, or returns nothing at the end of the text.
LEMMA StartStep ==
  ASSUME Ready, ExprStart
  PROVE  StackOK' /\ ValOK'
<1> HIDE DEF Sound, SoundSeq
<1>1. stack # <<>> /\ Top.at = "start" /\ val = NoVal
  BY DEF ExprStart, Running
<1>2. FrameOK(Top)
  BY <1>1, TopFacts
<1>3. CASE current = "EOF"
  <2>1. Return(Null) /\ current' = current
    BY <1>3 DEF ExprStart, Stay, current
  <2>2. token_precedence(current') = 0
    BY <1>3, <2>1, Precedences DEF StopKinds
  <2>3. \A f : Suits(f, Top) => Fits(f, Null, current')
    <3>1. Top.at \in ExprAt
      BY <1>1 DEF ExprAt
    <3>2. current' = "EOF"
      BY <1>3, <2>1
    <3> HIDE DEF Suits, Fits
    <3>3. QED BY <2>2, <3>1, <3>2, ExprFits
  <2>4. QED BY <1>1, <2>1, <2>3, SoundNull, Returns DEF Ready
<1>4. CASE current # "EOF"
  <2> DEFINE g == [Top EXCEPT !.at = "postfix"]
             h == parse_prefix
  <2>1. Call(g, h)
    BY <1>4 DEF ExprStart
  <2>2. FrameOK(g) /\ g.at = "postfix" /\ g.min = Top.min
    BY <1>2 DEF FrameOK
  <2>3. FrameOK(h) /\ h.at = "prefix"
    BY SoundNull, SoundSeqs DEF FrameOK, parse_prefix, Frame
  <2> HIDE DEF g, h
  <2>4. \A f : Suits(f, Top) => Suits(f, g)
    BY <1>1, <2>2 DEF Suits, ExprAt, PrefixAt, InfixAt
  <2>5. Suits(g, h)
    BY <2>2, <2>3 DEF Suits, WantsPrefix, WantsExpr, PrefixAt
  <2>6. g.at \notin LoopAt /\ h.at \notin LoopAt
    BY <2>2, <2>3 DEF LoopAt
  <2>7. QED BY <1>1, <2>1, <2>2, <2>3, <2>4, <2>5, <2>6, Replaced DEF Ready
<1>5. QED BY <1>3, <1>4

\* Prefixes that are complete.
LEMMA PrefixReturns ==
  ASSUME Ready, stack # <<>>, Top.at \in PrefixAt, NEW v, Return(v), Sound(v), v # Null,
         Strength(v) = 15 \/ (Strength(v) = 14 /\ Tight(v, current'))
  PROVE  StackOK' /\ ValOK'
<1> HIDE DEF Sound
<1>1. Strength(v) >= PREC_UNARY /\ Tight(v, current')
  BY DEF Tight, Primary, PREC_UNARY, PREC_CALL
<1>2. \A f : Suits(f, Top) => Fits(f, v, current')
  BY <1>1, PrefixFits
<1>3. QED BY <1>2, Returns DEF Ready

\* A prefix goes on at g, also prefix, or calls from there.
LEMMA PrefixGoesOn ==
  ASSUME Ready, stack # <<>>, Top.at \in PrefixAt, NEW g, FrameOK(g), g.at \in PrefixAt
  PROVE  /\ Resume(g) => StackOK' /\ ValOK'
         /\ \A h : Call(g, h) /\ FrameOK(h) /\ Suits(g, h) /\ h.at \notin LoopAt => StackOK' /\ ValOK'
<1> HIDE DEF FrameOK
<1>1. \A f : Suits(f, Top) => Suits(f, g)
  BY DEF Suits, ExprAt, PrefixAt, InfixAt
<1>2. g.at \notin LoopAt
  BY DEF PrefixAt, LoopAt
<1>3. QED BY <1>1, <1>2, Replaced DEF Ready

\* parse_expr_prec is called by one that waits for an expression.
LEMMA ExprCalled ==
  ASSUME NEW min \in 0..14
  PROVE  LET h == parse_expr_prec(min) IN
         /\ FrameOK(h) /\ h.at \notin LoopAt
         /\ \A g : WantsExpr(g) /\ Asked(g) = min => Suits(g, h)
<1> HIDE DEF Sound, SoundSeq
<1> DEFINE h == parse_expr_prec(min)
<1>1. FrameOK(h) /\ h.at = "start" /\ h.min = min
  BY SoundNull, SoundSeqs DEF FrameOK, parse_expr_prec, Frame
<1> HIDE DEF h
<1>3. h.at \notin LoopAt
  BY <1>1 DEF LoopAt
<1>2. ASSUME NEW g, WantsExpr(g), Asked(g) = min PROVE Suits(g, h)
  BY <1>1, <1>2 DEF Suits, WantsPrefix, WantsExpr, ExprAt
<1>4. QED BY <1>1, <1>2, <1>3 DEF h

\* What a step keeps.
Goal == StackOK' /\ ValOK'

\* parse_prefix looks at its token.
LEMMA PrefixSteps ==
  ASSUME Ready, PrefixLeaf \/ PrefixParen \/ PrefixUnary \/ PrefixArray \/ PrefixLambda \/ PrefixError,
         errors' = 0
  PROVE  Goal
<1> HIDE DEF Sound, SoundSeq, FrameOK, Suits
<1>1. stack # <<>> /\ Top.at = "prefix" /\ Top.at \in PrefixAt /\ val = NoVal
  BY DEF PrefixLeaf, PrefixParen, PrefixUnary, PrefixArray, PrefixLambda, PrefixError, Running, PrefixAt
<1>2. CASE PrefixLeaf
  <2>1. Return(Leaf(place))
    BY <1>2 DEF PrefixLeaf
  <2>2. Sound(Leaf(place)) /\ Leaf(place) # Null /\ Strength(Leaf(place)) = 15
    BY SoundLeaf
  <2>3. QED BY <1>1, <2>1, <2>2, PrefixReturns DEF Goal
<1>3. CASE PrefixParen
  <2> DEFINE g == Frame("paren", Null)
             h == parse_expr_prec(0)
  <2>1. Call(g, h)
    BY <1>3 DEF PrefixParen, parse_expr, PREC_MIN
  <2>2. FrameOK(g) /\ g.at = "paren"
    BY SoundNull, SoundSeqs DEF FrameOK, Frame
  <2> HIDE DEF g
  <2>3. g.at \in PrefixAt /\ WantsExpr(g) /\ Asked(g) = 0
    BY <2>2 DEF PrefixAt, WantsExpr, Asked, PREC_MIN
  <2>4. FrameOK(h) /\ h.at \notin LoopAt /\ Suits(g, h)
    BY <2>3, ExprCalled
  <2> HIDE DEF h
  <2>5. QED BY <1>1, <2>1, <2>2, <2>3, <2>4, PrefixGoesOn DEF Goal
<1>4. CASE PrefixUnary
  <2> DEFINE g == [Frame("unary", Null) EXCEPT !.op = current, !.pl = place]
  <2>1. FrameOK(g) /\ g.at = "unary" /\ g.op = current
    BY SoundNull, SoundSeqs DEF FrameOK, Frame
  <2>2. CASE current = "PLUS_PLUS"
    <3> DEFINE h == parse_prefix
    <3>1. Call(g, h)
      BY <1>4, <2>2 DEF PrefixUnary
    <3>2. FrameOK(h) /\ h.at = "prefix"
      BY SoundNull, SoundSeqs DEF FrameOK, Frame, parse_prefix
    <3> HIDE DEF g, h
    <3>3. g.at \in PrefixAt /\ Suits(g, h) /\ h.at \notin LoopAt
      BY <2>1, <2>2, <3>2 DEF PrefixAt, Suits, WantsPrefix, WantsExpr, LoopAt
    <3>4. QED BY <1>1, <2>1, <3>1, <3>2, <3>3, PrefixGoesOn DEF Goal
  <2>3. CASE current # "PLUS_PLUS"
    <3> DEFINE h == parse_expr_prec(PREC_UNARY)
    <3>1. Call(g, h)
      BY <1>4, <2>3 DEF PrefixUnary
    <3> HIDE DEF g
    <3>2. g.at \in PrefixAt /\ WantsExpr(g) /\ Asked(g) = PREC_UNARY
      BY <2>1, <2>3 DEF PrefixAt, WantsExpr, Asked
    <3>3. PREC_UNARY \in 0..14
      BY DEF PREC_UNARY
    <3>4. FrameOK(h) /\ h.at \notin LoopAt /\ Suits(g, h)
      BY <3>2, <3>3, ExprCalled
    <3> HIDE DEF h
    <3>5. QED BY <1>1, <2>1, <3>1, <3>2, <3>4, PrefixGoesOn DEF Goal
  <2>4. QED BY <2>2, <2>3
<1>5. CASE PrefixArray
  <2> DEFINE g == [Frame("elements", Null) EXCEPT !.pl = place]
  <2>1. Resume(g)
    BY <1>5 DEF PrefixArray
  <2>2. FrameOK(g) /\ g.at = "elements"
    BY SoundNull, SoundSeqs DEF FrameOK, Frame
  <2> HIDE DEF g
  <2>3. g.at \in PrefixAt
    BY <2>2 DEF PrefixAt
  <2>4. QED BY <1>1, <2>1, <2>2, <2>3, PrefixGoesOn DEF Goal
<1>6. CASE PrefixLambda
  <2> DEFINE g == [Frame("params", Null) EXCEPT !.pl = place]
  <2>1. Resume(g)
    BY <1>6 DEF PrefixLambda
  <2>2. FrameOK(g) /\ g.at = "params"
    BY SoundNull, SoundSeqs DEF FrameOK, Frame
  <2> HIDE DEF g
  <2>3. g.at \in PrefixAt
    BY <2>2 DEF PrefixAt
  <2>4. QED BY <1>1, <2>1, <2>2, <2>3, PrefixGoesOn DEF Goal
<1>7. CASE PrefixError
  BY <1>7 DEF PrefixError, parser_error
<1>8. QED BY <1>2, <1>3, <1>4, <1>5, <1>6, <1>7

\* The operand of a prefix operator, a parenthesised expression, array elements.
LEMMA OperandSteps ==
  ASSUME Ready, UnaryOperand \/ ParenEnd \/ ArrayElements \/ ArrayElement, errors' = 0
  PROVE  Goal
<1> HIDE DEF Sound, SoundSeq, FrameOK, Suits, Fits
<1>1. /\ stack # <<>> /\ Top.at \in PrefixAt
      /\ Top.at \in {"unary", "paren", "elements", "element"}
  BY DEF UnaryOperand, ParenEnd, ArrayElements, ArrayElement, Running, Returned, PrefixAt
<1>2. FrameOK(Top) /\ (val # NoVal => Sound(val) /\ Fits(Top, val, current))
  BY <1>1, TopFacts
<1>3. CASE UnaryOperand
  <2>1. Top.at = "unary" /\ val # NoVal /\ Sound(val) /\ Fits(Top, val, current)
    BY <1>2, <1>3 DEF UnaryOperand, Returned
  <2>2. val # Null => Strength(val) >= PREC_UNARY
    BY <2>1 DEF Fits, WantsPrefix, WantsExpr, Asked
  <2>3. ~(Top.op = "PLUS_PLUS" /\ val = Null)
    BY <2>1 DEF Fits, WantsPrefix
  <2> DEFINE v == Unary(Top.op, Top.pl, val)
  <2>4. Return(v)
    BY <1>3, <2>3 DEF UnaryOperand
  <2>5. Sound(v) /\ v # Null /\ Strength(v) = 14 /\ (Top.op = "PLUS_PLUS" => IncDec(v))
    BY <2>1, <2>2, SoundOne
  <2> HIDE DEF v
  <2>6. current' = current /\ token_precedence(current) \in 0..15
    BY <1>3, Precedences DEF UnaryOperand, Stay, current
  <2>7. Top.op # "PLUS_PLUS" => token_precedence(current) < 14
    BY <2>1, <2>6 DEF Fits, WantsExpr, Asked, PREC_UNARY
  <2>8. Tight(v, current')
    BY <2>5, <2>6, <2>7 DEF Tight, Primary
  <2>9. QED BY <1>1, <2>4, <2>5, <2>8, PrefixReturns DEF Goal
<1>4. CASE ParenEnd
  <2>1. Top.at = "paren" /\ val # NoVal /\ Sound(val) /\ Fits(Top, val, current)
    BY <1>2, <1>4 DEF ParenEnd, Returned
  <2>2. current = "RPAREN"
    BY <1>4 DEF ParenEnd, parser_expect, parser_error
  <2>3. val # Null
    BY <2>1, <2>2 DEF Fits, WantsExpr
  <2>4. Return(Paren(val))
    BY <1>4, <2>3 DEF ParenEnd
  <2>5. Sound(Paren(val)) /\ Paren(val) # Null /\ Strength(Paren(val)) = 15
    BY <2>1, SoundOne
  <2>6. QED BY <1>1, <2>4, <2>5, PrefixReturns DEF Goal
<1>5. ASSUME NEW args, SoundSeq(args), Return(Array(Top.pl, args)) PROVE Goal
  <2> DEFINE v == Array(Top.pl, args)
  <2>1. Sound(v) /\ v # Null /\ Strength(v) = 15
    BY <1>5, SoundList
  <2> HIDE DEF v
  <2>2. Return(v)
    BY <1>5 DEF v
  <2>3. QED BY <1>1, <2>1, <2>2, PrefixReturns DEF Goal
<1>6. CASE ArrayElements
  <2>1. SoundSeq(Top.args)
    BY <1>2 DEF FrameOK
  <2>2. CASE Return(Array(Top.pl, Top.args))
    BY <1>5, <2>1, <2>2
  <2> DEFINE g == [Top EXCEPT !.at = "element"]
             h == parse_expr_prec(0)
  <2>3. CASE Call(g, h)
    <3>1. FrameOK(g) /\ g.at = "element"
      BY <1>2 DEF FrameOK
    <3> HIDE DEF g
    <3>2. g.at \in PrefixAt /\ WantsExpr(g) /\ Asked(g) = 0
      BY <3>1 DEF PrefixAt, WantsExpr, Asked, PREC_MIN
    <3>3. FrameOK(h) /\ h.at \notin LoopAt /\ Suits(g, h)
      BY <3>2, ExprCalled
    <3> HIDE DEF h
    <3>4. QED BY <1>1, <2>3, <3>1, <3>2, <3>3, PrefixGoesOn DEF Goal
  <2>4. QED BY <1>6, <2>2, <2>3 DEF ArrayElements, parse_expr, PREC_MIN
<1>7. CASE ArrayElement
  <2> DEFINE args == Append(Top.args, val)
  <2>1. SoundSeq(args)
    BY <1>2, <1>7, SoundSeqs DEF FrameOK, ArrayElement, Returned
  <2>2. CASE Return(Array(Top.pl, args))
    <3> HIDE DEF args
    <3>1. QED BY <1>5, <2>1, <2>2
  <2> DEFINE g == [Top EXCEPT !.at = "elements", !.args = args]
  <2>3. CASE Resume(g)
    <3> HIDE DEF args
    <3>1. FrameOK(g) /\ g.at = "elements"
      BY <1>2, <2>1 DEF FrameOK
    <3> HIDE DEF g
    <3>2. g.at \in PrefixAt
      BY <3>1 DEF PrefixAt
    <3>3. QED BY <1>1, <2>3, <3>1, <3>2, PrefixGoesOn DEF Goal
  <2>4. QED BY <1>7, <2>2, <2>3 DEF ArrayElement
<1>8. QED BY <1>3, <1>4, <1>6, <1>7

\* The parameters and the body of a lambda.
LEMMA LambdaSteps ==
  ASSUME Ready, LambdaParam \/ LambdaComma \/ LambdaBody \/ LambdaEnd, errors' = 0
  PROVE  Goal
<1> HIDE DEF Sound, SoundSeq, FrameOK, Suits, Fits
<1>1. /\ stack # <<>> /\ Top.at \in PrefixAt /\ Top.at \in {"params", "param", "lambda"}
  BY DEF LambdaParam, LambdaComma, LambdaBody, LambdaEnd, Running, Returned, PrefixAt
<1>2. FrameOK(Top) /\ (val # NoVal => Sound(val) /\ Fits(Top, val, current))
  BY <1>1, TopFacts
<1>3. CASE LambdaParam
  <2> DEFINE args == IF current = "IDENT" THEN Append(Top.args, Leaf(place)) ELSE Top.args
             g == [Top EXCEPT !.at = "param", !.args = args]
  <2>1. SoundSeq(args)
    BY <1>2, SoundLeaf, SoundSeqs DEF FrameOK
  <2>2. Resume(g)
    BY <1>2, <1>3 DEF LambdaParam, FrameOK
  <2> HIDE DEF args
  <2>3. FrameOK(g) /\ g.at = "param"
    BY <1>2, <2>1 DEF FrameOK
  <2> HIDE DEF g
  <2>4. g.at \in PrefixAt
    BY <2>3 DEF PrefixAt
  <2>5. QED BY <1>1, <2>2, <2>3, <2>4, PrefixGoesOn DEF Goal
<1>4. CASE LambdaComma
  <2> DEFINE g == [Top EXCEPT !.at = "params"]
  <2>1. Resume(g)
    BY <1>4 DEF LambdaComma
  <2>2. FrameOK(g) /\ g.at = "params"
    BY <1>2 DEF FrameOK
  <2> HIDE DEF g
  <2>3. g.at \in PrefixAt
    BY <2>2 DEF PrefixAt
  <2>4. QED BY <1>1, <2>1, <2>2, <2>3, PrefixGoesOn DEF Goal
<1>5. CASE LambdaBody
  <2> DEFINE g == [Top EXCEPT !.at = "lambda"]
             h == parse_expr_prec(0)
  <2>1. Call(g, h)
    BY <1>5 DEF LambdaBody, parse_expr, PREC_MIN
  <2>2. FrameOK(g) /\ g.at = "lambda"
    BY <1>2 DEF FrameOK
  <2> HIDE DEF g
  <2>3. g.at \in PrefixAt /\ WantsExpr(g) /\ Asked(g) = 0
    BY <2>2 DEF PrefixAt, WantsExpr, Asked, PREC_MIN
  <2>4. FrameOK(h) /\ h.at \notin LoopAt /\ Suits(g, h)
    BY <2>3, ExprCalled
  <2> HIDE DEF h
  <2>5. QED BY <1>1, <2>1, <2>2, <2>3, <2>4, PrefixGoesOn DEF Goal
<1>6. CASE LambdaEnd
  <2> DEFINE v == Lambda(Top.pl, Top.args, val)
  <2>1. Return(v) /\ Sound(val)
    BY <1>2, <1>6 DEF LambdaEnd, Returned
  <2>2. SoundSeq(Top.args)
    BY <1>2 DEF FrameOK
  <2>3. Sound(v) /\ v # Null /\ Strength(v) = 15
    <3>1. \A e : Sound(e) => /\ Sound(Lambda(Top.pl, Top.args, e)) /\ Lambda(Top.pl, Top.args, e) # Null
                             /\ Strength(Lambda(Top.pl, Top.args, e)) = 15
      BY <2>2, SoundList
    <3>2. QED BY <2>1, <3>1
  <2> HIDE DEF v
  <2>4. QED BY <1>1, <2>1, <2>3, PrefixReturns DEF Goal
<1>7. QED BY <1>3, <1>4, <1>5, <1>6

\* The loop of parse_expr_prec goes on.
LEMMA LoopGoesOn ==
  ASSUME Ready, stack # <<>>, Top.at \in ExprAt, NEW g, FrameOK(g), g.at \in ExprAt, g.min = Top.min,
         Resume(g), g.at \in LoopAt => Tight(g.left, current')
  PROVE  Goal
<1> HIDE DEF FrameOK, Tight
<1>1. \A f : Suits(f, Top) => Suits(f, g)
  BY DEF Suits, ExprAt, PrefixAt, InfixAt
<1>2. QED BY <1>1, Replaced DEF Ready, Goal

\* The loop of parse_expr_prec: ++ and --, newlines, the test against min, the next left operand.
LEMMA LoopSteps ==
  ASSUME Ready, PostfixStart \/ PostfixIncrement \/ SkipNewline \/ InfixEnd \/ InfixResult, errors' = 0
  PROVE  Goal
<1> HIDE DEF Sound, SoundSeq, FrameOK, Suits, Fits
<1>1. stack # <<>> /\ Top.at \in ExprAt
  BY DEF PostfixStart, PostfixIncrement, SkipNewline, InfixEnd, InfixResult, Running, Returned, ExprAt
<1>2. /\ FrameOK(Top) /\ (val # NoVal => Sound(val) /\ Fits(Top, val, current))
      /\ Top.min \in 0..14
  BY <1>1, TopFacts DEF FrameOK
<1>3. CASE PostfixStart
  <2>1. Top.at = "postfix" /\ val # NoVal /\ Sound(val) /\ Fits(Top, val, current)
    BY <1>2, <1>3 DEF PostfixStart, Returned
  <2>2. val # Null /\ Strength(val) >= PREC_UNARY /\ Tight(val, current)
    BY <2>1 DEF Fits, WantsPrefix
  <2> DEFINE g == [Top EXCEPT !.at = "postfixes", !.left = val]
  <2>3. Resume(g) /\ current' = current
    BY <1>3, <2>2 DEF PostfixStart, Stay, current
  <2>4. FrameOK(g) /\ g.at = "postfixes" /\ g.min = Top.min /\ g.left = val
    BY <1>2, <2>1, <2>2 DEF FrameOK
  <2> HIDE DEF g
  <2>5. g.at \in ExprAt /\ Tight(g.left, current')
    BY <2>2, <2>3, <2>4 DEF ExprAt
  <2>6. QED BY <1>1, <2>3, <2>4, <2>5, LoopGoesOn
<1>4. CASE PostfixIncrement
  <2>1. Top.at = "postfixes" /\ Sound(Top.left) /\ Top.left # Null /\ Strength(Top.left) >= PREC_UNARY
    BY <1>2, <1>4 DEF PostfixIncrement, Running, FrameOK
  <2>5. Tight(Top.left, current)
    <3>1. val = NoVal /\ Top.at \in LoopAt
      BY <1>4, <2>1 DEF PostfixIncrement, Running, LoopAt
    <3>2. QED BY <1>1, <3>1, TopFacts
  <2> DEFINE g == [Top EXCEPT !.left = Postfix(place, @)]
             h == [Top EXCEPT !.at = "infix"]
  <2>2. ASSUME Resume(g) PROVE Goal
    <3>1. /\ Sound(Postfix(place, Top.left)) /\ Postfix(place, Top.left) # Null
          /\ Strength(Postfix(place, Top.left)) = 15
      BY <2>1, SoundOne
    <3>2. /\ FrameOK(g) /\ g.at = "postfixes" /\ g.min = Top.min
          /\ g.left = Postfix(place, Top.left)
      BY <1>2, <2>1, <3>1 DEF FrameOK, PREC_UNARY
    <3> HIDE DEF g
    <3>3. g.at \in ExprAt /\ Tight(g.left, current')
      BY <3>1, <3>2 DEF ExprAt, Tight, Primary, PREC_CALL
    <3>4. QED BY <1>1, <2>2, <3>2, <3>3, LoopGoesOn
  <2>3. ASSUME Resume(h), Stay PROVE Goal
    <3>1. Strength(Top.left) >= Top.min
      BY <1>2, <2>1, StrengthRange DEF PREC_UNARY
    <3>2. FrameOK(h) /\ h.at = "infix" /\ h.min = Top.min /\ h.left = Top.left
      BY <1>2, <2>1, <3>1 DEF FrameOK
    <3> HIDE DEF h
    <3>3. h.at \in ExprAt /\ Tight(h.left, current')
      BY <2>3, <2>5, <3>2 DEF ExprAt, Stay, current
    <3>4. QED BY <1>1, <2>3, <3>2, <3>3, LoopGoesOn
  <2>6. QED BY <1>4, <2>2, <2>3 DEF PostfixIncrement
<1>5. CASE SkipNewline
  BY <1>5, CurrentFacts DEF SkipNewline
<1>6. CASE InfixEnd
  <2>1. /\ Top.at = "infix" /\ Return(Top.left) /\ current' = current /\ InfixStops
        /\ Sound(Top.left) /\ Top.left # Null /\ Strength(Top.left) >= Top.min
    BY <1>2, <1>6 DEF InfixEnd, Running, Stay, FrameOK, current
  <2>2. token_precedence(current') < Top.min \/ token_precedence(current') = 0
    BY <2>1, Precedences DEF InfixStops, PREC_MIN
  <2> DEFINE v == Top.left
             g == Top
  <2>3. Top.at \in ExprAt /\ Top.left # Null /\ Strength(Top.left) >= Top.min
    BY <2>1 DEF ExprAt
  <2>4. \A f : Suits(f, Top) => Fits(f, Top.left, current')
    BY ONLY <2>2, <2>3, ExprFits
  <2>5. QED BY <1>1, <2>1, <2>4, Returns DEF Ready, Goal
<1>7. CASE InfixResult
  <2>1. Top.at = "infix" /\ val # NoVal /\ Sound(val) /\ Fits(Top, val, current)
    BY <1>2, <1>7 DEF InfixResult, Returned
  <2>2. val # Null /\ Strength(val) >= Top.min /\ Tight(val, current)
    BY <2>1 DEF Fits
  <2> DEFINE g == [Top EXCEPT !.left = val, !.had = TRUE]
  <2>3. Resume(g) /\ current' = current
    BY <1>7, <2>2 DEF InfixResult, Stay, current
  <2>4. FrameOK(g) /\ g.at = "infix" /\ g.min = Top.min /\ g.left = val
    BY <1>2, <2>1, <2>2 DEF FrameOK
  <2> HIDE DEF g
  <2>5. g.at \in ExprAt /\ Tight(g.left, current')
    BY <2>2, <2>3, <2>4 DEF ExprAt
  <2>6. QED BY <1>1, <2>3, <2>4, <2>5, LoopGoesOn
<1>8. QED BY <1>3, <1>4, <1>5, <1>6, <1>7

\* parse_infix takes the left operand: it is not looser than the operator.
LEMMA AtInfixFacts ==
  ASSUME Ready, NEW kinds, AtInfix(kinds)
  PROVE  /\ stack # <<>> /\ Top.at = "infix" /\ current \in kinds /\ FrameOK(Top) /\ Sound(Top.left)
         /\ Top.min \in 0..14 /\ Tight(Top.left, current) /\ token_precedence(current) >= Top.min
         /\ token_precedence(current) <= 13 => Strength(Top.left) > token_precedence(current)
<1> HIDE DEF Sound
<1>1. stack # <<>> /\ Top.at = "infix" /\ current \in kinds /\ val = NoVal /\ ~InfixStops
  BY DEF AtInfix, Running
<1>2. FrameOK(Top) /\ Tight(Top.left, current)
  BY <1>1, TopFacts DEF LoopAt
<1>3. Sound(Top.left) /\ Top.min \in 0..14
  BY <1>2 DEF FrameOK
<1>4. token_precedence(current) \in 0..15 /\ Strength(Top.left) \in 0..15
  BY Precedences, StrengthRange
<1>5. token_precedence(current) >= Top.min
  BY <1>1, <1>3, <1>4 DEF InfixStops
<1>6. token_precedence(current) <= 13 => Strength(Top.left) > token_precedence(current)
  <2>1. Primary(Top.left) => Strength(Top.left) >= 14
    BY DEF Primary, IncDec, Strength, PREC_CALL, PREC_UNARY
  <2>2. QED BY <1>2, <1>4, <2>1 DEF Tight
<1>7. QED BY <1>1, <1>2, <1>3, <1>5, <1>6

\* What is called, indexed or selected from is primary.
LEMMA OpenerFacts ==
  ASSUME Ready, NEW kinds, AtInfix(kinds), kinds \subseteq {"LPAREN", "LBRACKET", "DOT"}
  PROVE  stack # <<>> /\ Top.at = "infix" /\ Sound(Top.left) /\ Primary(Top.left)
<1> HIDE DEF Sound
<1>1. /\ stack # <<>> /\ Top.at = "infix" /\ current \in kinds /\ Sound(Top.left)
      /\ Tight(Top.left, current)
  BY AtInfixFacts
<1>2. token_precedence(current) = 15
  BY <1>1 DEF token_precedence, PREC_CALL
<1>3. Strength(Top.left) \in 0..15
  BY StrengthRange
<1>4. QED BY <1>1, <1>2, <1>3 DEF Tight

\* parse_infix for what binds like a call.
LEMMA Opened ==
  ASSUME Ready, stack # <<>>, Top.at = "infix", Sound(Top.left), Primary(Top.left),
         NEW at \in {"args", "index", "field"}, NEW op, NEW calls, Infix(at, op, calls),
         \/ calls = <<>>
         \/ at = "index" /\ calls = <<parse_expr>>
  PROVE  Goal
<1> HIDE DEF Sound, FrameOK
<1> DEFINE g == [Frame(at, Top.left) EXCEPT !.op = op, !.pl = place]
           h == parse_expr_prec(0)
<1>1. FrameOK(g) /\ g.at = at
  <2>1. at \notin {"postfixes", "infix", "binary", "middle", "else"}
    OBVIOUS
  <2> HIDE DEF Sound, SoundSeq, Primary
  <2>2. QED BY <2>1, SoundNull, SoundSeqs DEF FrameOK, Frame
<1>2. Suits(Top, g) /\ g.at \notin LoopAt
  <2> HIDE DEF g
  <2>1. QED BY <1>1 DEF Suits, WantsPrefix, WantsExpr, InfixAt, LoopAt
<1>3. FrameOK(h) /\ h.at \notin LoopAt /\ (at = "index" => Suits(g, h))
  <2> HIDE DEF g
  <2>1. at = "index" => WantsExpr(g) /\ Asked(g) = 0
    BY <1>1 DEF WantsExpr, Asked, PREC_MIN
  <2>2. QED BY <2>1, ExprCalled
<1>4. calls = <<>> \/ (calls = <<h>> /\ Suits(g, h))
  BY <1>3 DEF parse_expr, PREC_MIN
<1> HIDE DEF h
<1>5. QED BY <1>1, <1>2, <1>3, <1>4, Pushed DEF Ready, Goal

\* parse_infix for an operator with a right operand.
LEMMA Operator ==
  ASSUME Ready, stack # <<>>, Top.at = "infix", Sound(Top.left),
         NEW op, token_precedence(op) \in 1..13, token_precedence(op) >= Top.min,
         Strength(Top.left) > token_precedence(op),
         NEW at, at = "binary" \/ (at = "middle" /\ op = "QUESTION"),
         Infix(at, op, <<parse_expr_prec(token_precedence(op))>>)
  PROVE  Goal
<1> HIDE DEF Sound, FrameOK
<1> DEFINE g == [Frame(at, Top.left) EXCEPT !.op = op, !.pl = place]
           h == parse_expr_prec(token_precedence(op))
<1>1. FrameOK(g) /\ g.at = at /\ g.op = op
  <2>1. at \notin {"postfixes", "infix", "else", "args", "arg", "index", "slice", "field"}
    OBVIOUS
  <2>2. Strength(Top.left) \in 0..15 /\ token_precedence("QUESTION") = PREC_TERNARY
    BY Precedences, StrengthRange DEF PREC_TERNARY
  <2> HIDE DEF Sound, SoundSeq
  <2>3. QED BY <2>1, <2>2, SoundNull, SoundSeqs DEF FrameOK, Frame
<1>2. Suits(Top, g) /\ g.at \notin LoopAt
  <2> HIDE DEF g
  <2>1. token_precedence("QUESTION") = PREC_TERNARY
    BY Precedences DEF PREC_TERNARY
  <2>2. QED BY <1>1, <2>1 DEF Suits, WantsPrefix, WantsExpr, InfixAt, LoopAt
<1>3. FrameOK(h) /\ h.at \notin LoopAt /\ Suits(g, h)
  <2> HIDE DEF g
  <2>1. WantsExpr(g) /\ Asked(g) = token_precedence(op)
    BY <1>1, Precedences DEF WantsExpr, Asked, PREC_TERNARY
  <2>2. token_precedence(op) \in 0..14
    OBVIOUS
  <2>3. QED BY <2>1, <2>2, ExprCalled
<1> HIDE DEF h
<1>4. Infix(at, op, <<h>>)
  BY DEF h
<1>5. QED BY <1>1, <1>2, <1>3, <1>4, Pushed DEF Ready, Goal

\* parse_infix looks at its token.
LEMMA InfixSteps ==
  ASSUME Ready, errors' = 0,
         InfixCall \/ InfixIndex \/ InfixField \/ InfixPipe \/ InfixQuestion \/ InfixBinary
  PROVE  Goal
<1> HIDE DEF Sound, FrameOK, Suits, Fits
<1>1. CASE InfixCall
  <2>1. AtInfix({"LPAREN"}) /\ Infix("args", "CALL", <<>>)
    BY <1>1 DEF InfixCall
  <2>2. QED BY <2>1, OpenerFacts, Opened
<1>2. CASE InfixIndex
  <2>1. AtInfix({"LBRACKET"}) /\ Infix("index", "INDEX", <<parse_expr>>)
    BY <1>2 DEF InfixIndex
  <2>2. QED BY <2>1, OpenerFacts, Opened
<1>3. CASE InfixField
  <2>1. AtInfix({"DOT"}) /\ Infix("field", "FIELD", <<>>)
    BY <1>3 DEF InfixField
  <2>2. QED BY <2>1, OpenerFacts, Opened
<1>4. CASE InfixPipe
  <2> DEFINE g == [Top EXCEPT !.had = TRUE]
  <2>1. AtInfix({"PIPE"}) /\ Resume(g) /\ current' = current
    BY <1>4 DEF InfixPipe, Stay, current
  <2>2. stack # <<>> /\ Top.at = "infix" /\ FrameOK(Top) /\ Tight(Top.left, current)
    BY <2>1, AtInfixFacts
  <2>3. FrameOK(g) /\ g.at = "infix" /\ g.min = Top.min /\ g.left = Top.left
    BY <2>2 DEF FrameOK
  <2> HIDE DEF g
  <2>4. g.at \in ExprAt /\ Top.at \in ExprAt /\ Tight(g.left, current')
    BY <2>1, <2>2, <2>3 DEF ExprAt
  <2>5. QED BY <2>1, <2>2, <2>3, <2>4, LoopGoesOn
<1>5. CASE InfixQuestion
  <2> DEFINE at == IF toks'[Len(toks')] = "STRING" THEN "binary" ELSE "middle"
  <2>1. AtInfix({"QUESTION"}) /\ Infix(at, "QUESTION", <<parse_expr_prec(token_precedence("QUESTION"))>>)
    BY <1>5, Precedences DEF InfixQuestion, PREC_TERNARY
  <2>2. at = "binary" \/ at = "middle"
    OBVIOUS
  <2> HIDE DEF at
  <2>3. /\ stack # <<>> /\ Top.at = "infix" /\ current = "QUESTION" /\ Sound(Top.left)
        /\ token_precedence(current) >= Top.min
        /\ token_precedence(current) <= 13 => Strength(Top.left) > token_precedence(current)
    BY <2>1, AtInfixFacts
  <2>4. token_precedence("QUESTION") \in 1..13
    BY Precedences
  <2>5. token_precedence("QUESTION") >= Top.min /\ Strength(Top.left) > token_precedence("QUESTION")
    BY <2>3, <2>4
  <2>6. QED BY <2>1, <2>2, <2>3, <2>4, <2>5, Operator
<1>6. CASE InfixBinary
  <2>1. AtInfix(BinaryOps) /\ Infix("binary", current, <<parse_expr_prec(token_precedence(current))>>)
    BY <1>6 DEF InfixBinary
  <2>2. /\ stack # <<>> /\ Top.at = "infix" /\ current \in BinaryOps /\ Sound(Top.left)
        /\ token_precedence(current) >= Top.min
        /\ token_precedence(current) <= 13 => Strength(Top.left) > token_precedence(current)
    BY <2>1, AtInfixFacts
  <2>3. token_precedence(current) \in 1..13
    BY <2>2, Precedences
  <2>4. Strength(Top.left) > token_precedence(current)
    BY <2>2, <2>3
  <2>5. QED BY <2>1, <2>2, <2>3, <2>4, Operator
<1>7. QED BY <1>1, <1>2, <1>3, <1>4, <1>5, <1>6

\* parse_infix returns.
LEMMA InfixReturns ==
  ASSUME Ready, stack # <<>>, Top.at \in InfixAt, NEW v, Return(v), Sound(v), v # Null, Tight(v, current'),
         \/ Strength(v) = 15
         \/ Top.at = "binary" /\ Strength(v) = token_precedence(Top.op)
         \/ Top.at = "else" /\ Strength(v) = PREC_TERNARY
  PROVE  Goal
<1> HIDE DEF Sound, FrameOK, Suits, Fits, Tight
<1>1. \A f : FrameOK(f) /\ Suits(f, Top) => Fits(f, v, current')
  BY InfixFits
<1>2. QED BY <1>1, Returns DEF Ready, Goal

\* It returns a call, an index, a slice or a field.
LEMMA AccessReturns ==
  ASSUME Ready, stack # <<>>, Top.at \in InfixAt, NEW args, SoundSeq(args),
         Top.at \in {"args", "arg", "index", "slice", "field"}, Return(Access(Top.pl, Top.left, args))
  PROVE  Goal
<1> HIDE DEF Sound, SoundSeq, FrameOK
<1> DEFINE v == Access(Top.pl, Top.left, args)
<1>1. Sound(Top.left) /\ Primary(Top.left)
  BY TopFacts DEF FrameOK
<1>2. \A f : Sound(f) /\ Primary(f) =>
                         /\ Sound(Access(Top.pl, f, args)) /\ Access(Top.pl, f, args) # Null
                         /\ Strength(Access(Top.pl, f, args)) = 15
  BY SoundList
<1>3. Sound(v) /\ v # Null /\ Strength(v) = 15
  BY <1>1, <1>2
<1> HIDE DEF v
<1>4. Return(v)
  BY DEF v
<1>5. Tight(v, current')
  BY <1>3 DEF Tight, Primary, PREC_CALL
<1>6. QED BY <1>3, <1>4, <1>5, InfixReturns

\* It goes on at a place that is not restricted more.
LEMMA InfixGoesOn ==
  ASSUME Ready, stack # <<>>, Top.at \in InfixAt, NEW g, FrameOK(g), g.at \in InfixAt, g.at # "binary",
         g.at = "else" => Top.at = "middle", g.at # "middle"
  PROVE  /\ Resume(g) => Goal
         /\ \A h : Call(g, h) /\ FrameOK(h) /\ Suits(g, h) /\ h.at \notin LoopAt => Goal
<1> HIDE DEF FrameOK
<1>1. \A f : Suits(f, Top) => Suits(f, g)
  BY DEF Suits, ExprAt, PrefixAt, InfixAt
<1>2. g.at \notin LoopAt
  BY DEF InfixAt, LoopAt
<1>3. QED BY <1>1, <1>2, Replaced DEF Ready, Goal

\* The right operand of a binary operator, the two branches of ?:.
LEMMA OperatorEnds ==
  ASSUME Ready, errors' = 0, BinaryRight \/ TernaryMiddle \/ TernaryElse
  PROVE  Goal
<1> HIDE DEF Sound, SoundSeq, FrameOK, Suits, Fits
<1>1. /\ stack # <<>> /\ Top.at \in InfixAt /\ val # NoVal
  BY DEF BinaryRight, TernaryMiddle, TernaryElse, Returned, InfixAt
<1>2. FrameOK(Top) /\ Sound(val) /\ Fits(Top, val, current)
  BY <1>1, TopFacts
<1>3. CASE BinaryRight
  <2>1. Top.at = "binary" /\ current' = current
    BY <1>3 DEF BinaryRight, Returned, Stay, current
  <2>2. /\ Sound(Top.left) /\ Strength(Top.left) >= token_precedence(Top.op)
        /\ token_precedence(Top.op) \in 1..13
    BY <1>2, <2>1 DEF FrameOK
  <2>3. /\ val # Null => Strength(val) >= token_precedence(Top.op)
        /\ token_precedence(current) < token_precedence(Top.op)
    BY <1>2, <2>1, <2>2 DEF Fits, WantsExpr, Asked
  <2> DEFINE v == Binary(Top.op, Top.pl, Top.left, val)
  <2>4. Sound(v) /\ v # Null /\ Strength(v) = token_precedence(Top.op)
    BY <1>2, <2>2, <2>3, SoundBinary
  <2>5. Return(v)
    BY <1>3 DEF BinaryRight
  <2> HIDE DEF v
  <2>6. Tight(v, current')
    BY <2>1, <2>3, <2>4 DEF Tight
  <2>7. QED BY <1>1, <2>1, <2>4, <2>5, <2>6, InfixReturns
<1>4. CASE TernaryMiddle
  <2> DEFINE g == [Top EXCEPT !.at = "else", !.mid = val]
             h == parse_expr_prec(1)
  <2>1. Top.at = "middle"
    BY <1>4 DEF TernaryMiddle, Returned
  <2>2. Call(g, h)
    BY <1>4 DEF TernaryMiddle, PREC_TERNARY
  <2>3. FrameOK(g) /\ g.at = "else"
    <3>1. val # Null => Strength(val) >= PREC_TERNARY
      BY <1>2, <2>1 DEF Fits, WantsExpr, Asked
    <3>2. QED BY <1>2, <2>1, <3>1 DEF FrameOK
  <2> HIDE DEF g
  <2>4. g.at \in InfixAt /\ WantsExpr(g) /\ Asked(g) = 1
    BY <2>3 DEF InfixAt, WantsExpr, Asked, PREC_TERNARY
  <2>5. FrameOK(h) /\ h.at \notin LoopAt /\ Suits(g, h)
    BY <2>4, ExprCalled
  <2> HIDE DEF h
  <2>6. QED BY <1>1, <2>1, <2>2, <2>3, <2>4, <2>5, InfixGoesOn
<1>5. CASE TernaryElse
  <2>1. Top.at = "else" /\ current' = current
    BY <1>5 DEF TernaryElse, Returned, Stay, current
  <2>2. /\ Sound(Top.left) /\ Sound(Top.mid) /\ Strength(Top.left) > PREC_TERNARY
        /\ Top.mid # Null => Strength(Top.mid) >= PREC_TERNARY
    BY <1>2, <2>1 DEF FrameOK
  <2>3. token_precedence(current) < 1
    BY <1>2, <2>1, Precedences DEF Fits, WantsExpr, Asked, PREC_TERNARY
  <2> DEFINE v == Ternary(Top.pl, Top.left, Top.mid, val)
  <2>4. Sound(v) /\ v # Null /\ Strength(v) = 2
    BY <1>2, <2>2, SoundTernary
  <2>5. Return(v)
    BY <1>5 DEF TernaryElse
  <2> HIDE DEF v
  <2>6. Tight(v, current')
    BY <2>1, <2>3, <2>4, Precedences DEF Tight
  <2>7. Strength(v) = PREC_TERNARY
    BY <2>4 DEF PREC_TERNARY
  <2>8. QED BY <1>1, <2>1, <2>4, <2>5, <2>6, <2>7, InfixReturns
<1>6. QED BY <1>3, <1>4, <1>5

\* Arguments, indices, slices and fields.
LEMMA AccessSteps ==
  ASSUME Ready, errors' = 0, CallArguments \/ CallArgument \/ IndexEnd \/ SliceEnd \/ FieldName
  PROVE  Goal
<1> HIDE DEF Sound, SoundSeq, FrameOK, Suits, Fits
<1>1. /\ stack # <<>> /\ Top.at \in InfixAt /\ Top.at \in {"args", "arg", "index", "slice", "field"}
  BY DEF CallArguments, CallArgument, IndexEnd, SliceEnd, FieldName, Running, Returned, InfixAt
<1>2. FrameOK(Top) /\ (val # NoVal => Sound(val)) /\ SoundSeq(Top.args)
  BY <1>1, TopFacts DEF FrameOK
<1>3. CASE CallArguments
  <2>1. current # "NEWLINE"
    BY CurrentFacts
  <2>2. CASE Return(Access(Top.pl, Top.left, Top.args))
    BY <1>1, <1>2, <2>2, AccessReturns
  <2> DEFINE args == Append(Top.args, Null)
             g == [Top EXCEPT !.args = args]
  <2>3. CASE Resume([Top EXCEPT !.args = Append(@, Null)])
    <3>1. SoundSeq(args)
      BY <1>2, SoundNull, SoundSeqs
    <3>2. Resume(g) /\ Top.at = "args"
      BY <1>2, <1>3, <2>3 DEF FrameOK, CallArguments, Running
    <3> HIDE DEF args
    <3>3. FrameOK(g) /\ g.at = "args"
      BY <1>2, <3>1, <3>2 DEF FrameOK
    <3> HIDE DEF g
    <3>4. g.at \in InfixAt
      BY <3>3 DEF InfixAt
    <3>5. QED BY <1>1, <3>2, <3>3, <3>4, InfixGoesOn
  <2> DEFINE k == [Top EXCEPT !.at = "arg"]
             h == parse_expr_prec(0)
  <2>4. CASE Call(k, h)
    <3>1. FrameOK(k) /\ k.at = "arg"
      BY <1>1, <1>2 DEF FrameOK
    <3> HIDE DEF k
    <3>2. k.at \in InfixAt /\ WantsExpr(k) /\ Asked(k) = 0
      BY <3>1 DEF InfixAt, WantsExpr, Asked, PREC_MIN
    <3>3. FrameOK(h) /\ h.at \notin LoopAt /\ Suits(k, h)
      BY <3>2, ExprCalled
    <3> HIDE DEF h
    <3>4. QED BY <1>1, <2>4, <3>1, <3>2, <3>3, InfixGoesOn
  <2>5. QED BY <1>3, <2>1, <2>2, <2>3, <2>4 DEF CallArguments, parse_expr, PREC_MIN
<1>4. CASE CallArgument
  <2> DEFINE args == Append(Top.args, val)
             g == [Top EXCEPT !.at = "args", !.args = args]
  <2>1. SoundSeq(args)
    BY <1>2, <1>4, SoundSeqs DEF CallArgument, Returned
  <2>2. CASE Return(Access(Top.pl, Top.left, args))
    <3> HIDE DEF args
    <3>1. QED BY <1>1, <2>1, <2>2, AccessReturns
  <2>3. CASE Resume(g)
    <3> HIDE DEF args
    <3>1. FrameOK(g) /\ g.at = "args"
      BY <1>1, <1>2, <2>1 DEF FrameOK
    <3> HIDE DEF g
    <3>2. g.at \in InfixAt
      BY <3>1 DEF InfixAt
    <3>3. QED BY <1>1, <2>3, <3>1, <3>2, InfixGoesOn
  <2>4. QED BY <1>4, <2>2, <2>3 DEF CallArgument
<1>5. CASE IndexEnd
  <2> DEFINE args == <<val>>
             g == [Top EXCEPT !.at = "slice", !.args = args]
             h == parse_expr_prec(0)
  <2>1. SoundSeq(args)
    BY <1>2, <1>5, SoundSeqs DEF IndexEnd, Returned
  <2>2. CASE Return(Access(Top.pl, Top.left, args))
    <3> HIDE DEF args
    <3>1. QED BY <1>1, <2>1, <2>2, AccessReturns
  <2>3. CASE Call(g, h)
    <3> HIDE DEF args
    <3>1. FrameOK(g) /\ g.at = "slice"
      BY <1>1, <1>2, <2>1 DEF FrameOK
    <3> HIDE DEF g
    <3>2. g.at \in InfixAt /\ WantsExpr(g) /\ Asked(g) = 0
      BY <3>1 DEF InfixAt, WantsExpr, Asked, PREC_MIN
    <3>3. FrameOK(h) /\ h.at \notin LoopAt /\ Suits(g, h)
      BY <3>2, ExprCalled
    <3> HIDE DEF h
    <3>4. QED BY <1>1, <2>3, <3>1, <3>2, <3>3, InfixGoesOn
  <2>4. QED BY <1>5, <2>2, <2>3 DEF IndexEnd, parse_expr, PREC_MIN
<1>6. CASE SliceEnd
  <2> DEFINE args == Append(Top.args, val)
  <2>1. SoundSeq(args)
    BY <1>2, <1>6, SoundSeqs DEF SliceEnd, Returned
  <2>2. Return(Access(Top.pl, Top.left, args))
    BY <1>6 DEF SliceEnd
  <2> HIDE DEF args
  <2>3. QED BY <1>1, <2>1, <2>2, AccessReturns
<1>7. CASE FieldName
  <2> DEFINE args == <<Leaf(place)>>
  <2>1. SoundSeq(args)
    BY SoundLeaf, SoundSeqs
  <2>2. Return(Access(Top.pl, Top.left, args))
    BY <1>7 DEF FieldName, parser_error
  <2> HIDE DEF args
  <2>3. QED BY <1>1, <2>1, <2>2, AccessReturns
<1>8. QED BY <1>3, <1>4, <1>5, <1>6, <1>7

----------------------------------------------------------------------------
\* What the parser reads is a growing text.
LEMMA TextGrows ==
  ASSUME alphabet \in Alphabets, errors \in {0, 1}, toks \in Seq(AllKinds \cup {"EOF"}), toks # <<>>, Next
  PROVE  /\ alphabet' \in Alphabets /\ errors' \in {0, 1} /\ (errors' = 0 => errors = 0)
         /\ toks' \in Seq(AllKinds \cup {"EOF"}) /\ toks' # <<>> /\ Range(toks) \subseteq Range(toks')
<1>1. Stay \/ parser_advance
  BY DEF Next, parse, Prefix, parse_infix, ExprStart, PrefixLeaf, PrefixParen, PrefixUnary, PrefixArray,
         PrefixLambda, PrefixError, UnaryOperand, ParenEnd, ArrayElements, ArrayElement, LambdaParam, LambdaComma,
         LambdaBody, LambdaEnd, PostfixStart, PostfixIncrement, SkipNewline, InfixEnd, InfixResult, InfixCall,
         InfixIndex, InfixField, InfixPipe, InfixQuestion, InfixBinary, BinaryRight, TernaryMiddle, TernaryElse,
         CallArguments, CallArgument, IndexEnd, SliceEnd, FieldName, parser_expect
<1>2. errors' = errors \/ errors' = 1
  BY DEF Next, parse, Prefix, parse_infix, ExprStart, PrefixLeaf, PrefixParen, PrefixUnary, PrefixArray,
         PrefixLambda, PrefixError, UnaryOperand, ParenEnd, ArrayElements, ArrayElement, LambdaParam, LambdaComma,
         LambdaBody, LambdaEnd, PostfixStart, PostfixIncrement, SkipNewline, InfixEnd, InfixResult, InfixCall,
         InfixIndex, InfixField, InfixPipe, InfixQuestion, InfixBinary, BinaryRight, TernaryMiddle, TernaryElse,
         CallArguments, CallArgument, IndexEnd, SliceEnd, FieldName, parser_expect, parser_error
<1>3. alphabet' = alphabet
  BY DEF Next
<1>4. alphabet \subseteq AllKinds
  BY ExprAssumption
<1>5. toks' = toks \/ \E kind \in AllKinds \cup {"EOF"} : toks' = Append(toks, kind)
  BY <1>1, <1>4 DEF Stay, parser_advance, Upcoming
<1>6. ASSUME NEW kind \in AllKinds \cup {"EOF"}, toks' = Append(toks, kind)
      PROVE  /\ toks' \in Seq(AllKinds \cup {"EOF"}) /\ toks' # <<>> /\ Range(toks) \subseteq Range(toks')
  <2>1. /\ Append(toks, kind) \in Seq(AllKinds \cup {"EOF"}) /\ Append(toks, kind) # <<>>
        /\ Len(Append(toks, kind)) = Len(toks) + 1
        /\ \A i \in 1..Len(toks) : Append(toks, kind)[i] = toks[i]
    BY AppendProperties
  <2>2. /\ DOMAIN toks = 1..Len(toks) /\ Len(toks) \in Nat
        /\ DOMAIN Append(toks, kind) = 1..Len(toks) + 1
    BY <2>1, LenProperties
  <2>3. \A i \in DOMAIN toks : i \in DOMAIN Append(toks, kind) /\ Append(toks, kind)[i] = toks[i]
    BY <2>1, <2>2
  <2>4. QED BY <1>6, <2>1, <2>3 DEF Range
<1>7. QED BY <1>2, <1>3, <1>5, <1>6

\* parse_expr calls parse_expr_prec on an empty stack.
LEMMA InitInv == Init => IInv
<1> SUFFICES ASSUME Init PROVE IInv
  OBVIOUS
<1> HIDE DEF Sound, SoundSeq
<1>1. alphabet \in Alphabets /\ errors \in {0, 1}
  BY DEF Init
<1>2. toks \in Seq(AllKinds \cup {"EOF"}) /\ toks # <<>>
  <2>1. PICK kind \in alphabet \cup {"EOF"} : toks = <<kind>>
    BY DEF Init
  <2>2. kind \in AllKinds \cup {"EOF"}
    BY <1>1, ExprAssumption
  <2>3. QED BY <2>1, <2>2
<1> DEFINE h == parse_expr_prec(0)
<1>3. stack = <<h>> /\ val = NoVal
  BY DEF Init, parse_expr, PREC_MIN
<1>4. FrameOK(h) /\ h.at \notin LoopAt
  BY ExprCalled
<1> HIDE DEF h
<1>5. stack \in Seq({h}) /\ DOMAIN stack = {1} /\ stack[1] = h /\ Len(stack) = 1 /\ stack # <<>>
  BY <1>3
<1>6. StackOK
  BY <1>4, <1>5 DEF StackOK
<1>7. ValOK
  BY <1>3, <1>4, <1>5 DEF ValOK, Top
<1>8. QED BY <1>1, <1>2, <1>6, <1>7 DEF IInv

\* Every step of the parser keeps the calls and what they return in order.
LEMMA StepInv == IInv /\ [Next]_vars => IInv'
<1> SUFFICES ASSUME IInv, [Next]_vars PROVE IInv'
  OBVIOUS
<1>1. CASE Next
  <2>1. /\ alphabet' \in Alphabets /\ errors' \in {0, 1} /\ (errors' = 0 => errors = 0)
        /\ toks' \in Seq(AllKinds \cup {"EOF"}) /\ toks' # <<>> /\ Range(toks) \subseteq Range(toks')
    BY <1>1, TextGrows DEF IInv
  <2>2. ASSUME Clean' PROVE Goal
    <3>1. Ready /\ errors' = 0
      BY <2>1, <2>2 DEF IInv, Clean, Ready
    <3>2. parse
      BY <1>1 DEF Next
    <3>3. CASE ExprStart
      BY <3>1, <3>3, StartStep DEF Goal
    <3>4. CASE Prefix
      BY <3>1, <3>4, PrefixSteps, OperandSteps, LambdaSteps DEF Prefix
    <3>5. CASE PostfixStart \/ PostfixIncrement \/ SkipNewline \/ InfixEnd \/ InfixResult
      BY <3>1, <3>5, LoopSteps
    <3>6. CASE parse_infix
      BY <3>1, <3>6, InfixSteps, OperatorEnds, AccessSteps DEF parse_infix
    <3>7. QED BY <3>2, <3>3, <3>4, <3>5, <3>6 DEF parse
  <2>3. QED BY <2>1, <2>2 DEF IInv, Goal
<1>2. CASE UNCHANGED vars
  <2>1. Clean' = Clean /\ StackOK' = StackOK /\ ValOK' = ValOK
    BY <1>2 DEF vars, Clean, StackOK, ValOK, Top, current
  <2>2. QED BY <1>2, <2>1 DEF IInv, vars
<1>3. QED BY <1>1, <1>2

\* Whatever parse_expr is given, on one line and without an error, the pending calls
\* ask for the precedence their callers passed, and what each returns is at least as tight.
THEOREM ExprInvariant == Spec => []IInv
<1>1. QED BY InitInv, StepInv, PTL DEF Spec

\* On one line parse_expr_prec and parse_infix give no operator an operand of a looser
\* level, however long the expression: PrecedenceClimbs for every text.
THEOREM ExprClimbs == Spec => []PrecedenceClimbs
<1>1. IInv => PrecedenceClimbs
  <2> SUFFICES ASSUME IInv, Parsed, "NEWLINE" \notin Range(toks), NEW t \in Nodes(val)
               PROVE  Climbs(t)
    BY DEF PrecedenceClimbs
  <2>1. Clean /\ stack = <<>> /\ (val = NoVal => stack # <<>>)
    BY DEF IInv, Clean, ValOK, Parsed, Done
  <2>2. Sound(val)
    BY <2>1 DEF IInv, ValOK
  <2>3. QED BY <2>2, InOrder DEF Sound
<1>2. QED BY <1>1, ExprInvariant, PTL
=============================================================================
