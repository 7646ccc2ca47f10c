--------------------------- MODULE TokenizerProofs ---------------------------
(***************************************************************************)
(* From characters to the tokens the parser gets.  The scan of any source, *)
(* over any set of keywords (Tokenizer), stays inside the buffer, and the  *)
(* lines and the lengths of the tokens agree with the text.  The lexer on  *)
(* top of it (Lexer) implements the token cursor for every input: its      *)
(* tokenizer is one token ahead of `current' when `next' is filled, and    *)
(* level with it otherwise.                                                *)
(***************************************************************************)
EXTENDS Tokenizer, Lexer, FiniteSetTheorems, SequenceTheorems, WellFoundedInduction, TLAPS

\* Spellings that a shorter operator must not be the start of.
Longer == TwoChar \cup {<<".", ".", "=">>}

\* The place before which every token ends: an open string or comment starts there.
Floor == IF mode \in {"string", "block"} THEN t.start ELSE t.pos

\* What was true of a token when it was returned.
Sound(tok) ==
  /\ TokenOK(tok) /\ tok.end <= Floor
  /\ tok.type \in {"IDENT", "KW"} => At(tok.end) \notin IdentContinue
  /\ tok.type = "OP" =>
       /\ tok.start < tok.end /\ tok.end <= End
       /\ \A m \in tok.end + 1..End : Text(tok.start, m) \notin Longer

TokensSound == \A k \in 1..Len(toks) : Sound(toks[k])

\* No character is in two tokens.
InOrder ==
  \A k \in 1..Len(toks) - 1 : toks[k + 1].type # "EOF" => toks[k].end <= toks[k + 1].start

\* Which scans end behind the NUL.
Behind ==
  t.pos > End => \E k \in 1..Len(toks) : toks[k].type \in {"CHAR", "UNICODE"} /\ toks[k].end = t.pos

\* The scan, with what it says of a comment that is open: each of its levels
\* has taken two characters.
Place ==
  /\ src \in Seq(Char) /\ toks \in Seq({toks[k] : k \in DOMAIN toks})
  /\ t.pos \in 1..End + 1 /\ t.start \in 1..t.pos
  /\ mode \in {"code", "string", "block", "end"}
  /\ mode \in {"string", "block"} => t.pos <= End
  /\ depth \in Nat /\ depth < t.pos /\ (depth > 0) = (mode = "block")

IInv == Place /\ TokensSound /\ InOrder /\ Behind /\ LineAgrees

----------------------------------------------------------------------------
(* Characters and runs of them.                                            *)

LEMMA MinFacts ==
  ASSUME NEW S \in SUBSET Nat, S # {}
  PROVE  Min(S) \in S /\ \A y \in S : Min(S) <= y
<1>1. PICK x \in S : \A y \in S : ~(<<y, x>> \in OpToRel(<, Nat))
  BY WFMin, NatLessThanWellFounded
<1>2. ASSUME NEW y \in S PROVE x <= y
  <2>1. ~(y < x)
    BY <1>1 DEF OpToRel
  <2>2. QED BY <2>1
<1>3. QED BY <1>2 DEF Min

LEMMA AtFacts ==
  ASSUME src \in Seq(Char)
  PROVE  /\ Len(src) \in Nat /\ End = Len(src) + 1 /\ "end" \notin Char
         /\ \A i \in 1..Len(src) : At(i) = src[i] /\ At(i) \in Char
         /\ \A i : At(i) # "end" => i \in 1..Len(src)
         /\ At(End) = "end"
<1>1. Len(src) \in Nat /\ DOMAIN src = 1..Len(src) /\ \A i \in 1..Len(src) : src[i] \in Char
  OBVIOUS
<1>2. "end" \notin Char
  BY DEF Char, Blank, IdentContinue, IdentStart, Digit, OpStart, Single, NonAscii
<1>3. QED BY <1>1, <1>2 DEF At, End

\* The first place from i on that has a property which the end of the source has.
LEMMA RunEndFacts ==
  ASSUME src \in Seq(Char), NEW i \in 1..End, NEW S, "end" \notin S
  PROVE  /\ RunEnd(i, S) \in i..End /\ At(RunEnd(i, S)) \notin S
         /\ \A j \in i..RunEnd(i, S) - 1 : At(j) \in S
<1> DEFINE Stops == {j \in i..End : At(j) \notin S}
<1>1. Stops \in SUBSET Nat /\ End \in Stops
  BY AtFacts
<1>2. Min(Stops) \in Stops /\ \A y \in Stops : Min(Stops) <= y
  BY <1>1, MinFacts
<1>3. RunEnd(i, S) = Min(Stops)
  BY DEF RunEnd
<1> DEFINE n == Min(Stops)
<1>4. n \in i..End /\ At(n) \notin S
  BY <1>2
<1>5. ASSUME NEW j \in i..n - 1 PROVE At(j) \in S
  <2>1. j \in i..End /\ ~(n <= j)
    BY <1>4, AtFacts
  <2>2. j \notin Stops
    BY <1>2, <2>1
  <2>3. QED BY <2>1, <2>2
<1>6. QED BY <1>3, <1>4, <1>5

LEMMA MinOf ==
  ASSUME NEW a \in Nat, NEW b \in Nat
  PROVE  Min({a, b}) = IF a <= b THEN a ELSE b
BY MinFacts

LEMMA NewlinesFacts ==
  ASSUME NEW from \in Nat, NEW to \in Nat
  PROVE  /\ Newlines(from, to) \in Nat
         /\ (\A i \in from..to - 1 : At(i) # "\n") => Newlines(from, to) = 0
<1>1. IsFiniteSet({i \in from..to - 1 : At(i) = "\n"})
  <2>1. IsFiniteSet(from..to - 1)
    BY FS_Interval
  <2>2. {i \in from..to - 1 : At(i) = "\n"} \in SUBSET (from..to - 1)
    OBVIOUS
  <2>3. QED BY <2>1, <2>2, FS_Subset
<1>2. (\A i \in from..to - 1 : At(i) # "\n") => {i \in from..to - 1 : At(i) = "\n"} = {}
  OBVIOUS
<1>3. QED BY <1>1, <1>2, FS_CardinalityType, FS_EmptySet DEF Newlines

LEMMA OfItems ==
  ASSUME NEW S, NEW s \in Seq(S)
  PROVE  s \in Seq({s[k] : k \in DOMAIN s})
<1> DEFINE R == {s[k] : k \in DOMAIN s}
<1>1. \A k \in 1..Len(s) : s[k] \in R
  OBVIOUS
<1> HIDE DEF R
<1>2. Len(s) \in Nat /\ s \in [1..Len(s) -> R]
  BY <1>1
<1>3. s \in Seq(R)
  BY <1>2
<1>4. QED BY <1>3 DEF R

----------------------------------------------------------------------------
(* Lines.                                                                  *)

\* No token reaches beyond the place of the scan.
LEMMA AheadNotStepped ==
  ASSUME Place, TokensSound, NEW i \in Int, i >= t.pos
  PROVE  ~SteppedOver(i)
BY DEF SteppedOver, TokensSound, Sound, TokenOK, Place

\* A scan that counts the newlines it passes keeps the count.
LEMMA LineMoves ==
  ASSUME Place, TokensSound, LineAgrees, src' = src, NEW to \in t.pos..End + 1,
         t'.pos = to, t'.line = t.line + Newlines(t.pos, to),
         \A i \in 1..to - 1 : SteppedOver(i)' <=> SteppedOver(i)
  PROVE  LineAgrees'
<1> DEFINE Old == {i \in 1..t.pos - 1 : At(i) = "\n" /\ ~SteppedOver(i)}
           New == {i \in t.pos..to - 1 : At(i) = "\n"}
           All == {i \in 1..to - 1 : At(i) = "\n" /\ ~SteppedOver(i)}
<1>1. t.pos \in Nat /\ t.pos >= 1 /\ to \in Nat /\ t.pos <= to
  BY AtFacts DEF Place
<1>2. All = Old \cup New /\ Old \cap New = {}
  BY <1>1, AheadNotStepped
<1>3. IsFiniteSet(Old) /\ IsFiniteSet(New)
  <2>1. IsFiniteSet(1..t.pos - 1) /\ IsFiniteSet(t.pos..to - 1)
    <3>1. t.pos - 1 \in Int /\ to - 1 \in Int /\ t.pos \in Int /\ 1 \in Int
      BY <1>1
    <3>2. QED BY ONLY <3>1, FS_Interval
  <2>2. Old \in SUBSET (1..t.pos - 1) /\ New \in SUBSET (t.pos..to - 1)
    OBVIOUS
  <2> HIDE DEF Old, New
  <2>3. QED BY <2>1, <2>2, FS_Subset
<1>4. Cardinality(All) = Cardinality(Old) + Cardinality(New)
  <2> HIDE DEF All, Old, New
  <2>1. Cardinality(Old \cap New) = 0
    BY <1>2, FS_EmptySet
  <2>2. /\ Cardinality(Old \cup New) = Cardinality(Old) + Cardinality(New) - Cardinality(Old \cap New)
        /\ Cardinality(Old) \in Nat /\ Cardinality(New) \in Nat
    BY <1>3, FS_Union, FS_CardinalityType
  <2>3. QED BY <1>2, <2>1, <2>2
<1>5. \A i : At(i)' = At(i)
  BY DEF At
<1>6. {i \in 1..t'.pos - 1 : At(i)' = "\n" /\ ~SteppedOver(i)'} = All
  BY <1>5
<1>7. Cardinality(Old) \in Nat /\ Cardinality(New) \in Nat
  BY <1>3, FS_CardinalityType
<1>8. t.line = 1 + Cardinality(Old) /\ t'.line = t.line + Cardinality(New)
  BY DEF LineAgrees, Newlines
<1>9. t'.line = 1 + Cardinality(All)
  <2> HIDE DEF All, Old, New
  <2>1. QED BY <1>4, <1>7, <1>8
<1>10. QED BY <1>6, <1>9 DEF LineAgrees

\* A scan that steps over newlines loses those of its token.
LEMMA LineStays ==
  ASSUME Place, TokensSound, LineAgrees, src' = src, NEW to \in t.pos..End + 1,
         t'.pos = to, t'.line = t.line,
         \A i \in 1..t.pos - 1 : SteppedOver(i)' <=> SteppedOver(i),
         \A i \in t.pos..to - 1 : SteppedOver(i)'
  PROVE  LineAgrees'
<1>1. t.pos \in Nat /\ t.pos >= 1 /\ to \in Nat /\ t.pos <= to
  BY AtFacts DEF Place
<1>2. \A i : At(i)' = At(i)
  BY DEF At
<1>3. {i \in 1..t'.pos - 1 : At(i)' = "\n" /\ ~SteppedOver(i)'}
        = {i \in 1..t.pos - 1 : At(i) = "\n" /\ ~SteppedOver(i)}
  BY <1>1, <1>2
<1>4. QED BY <1>3 DEF LineAgrees

LEMMA LineType ==
  ASSUME Place, LineAgrees
  PROVE  t.line \in 1..End
<1> DEFINE Counted == {i \in 1..t.pos - 1 : At(i) = "\n" /\ ~SteppedOver(i)}
<1>1. Len(src) \in Nat /\ End = Len(src) + 1 /\ t.line = 1 + Cardinality(Counted)
  BY AtFacts DEF Place, LineAgrees
<1>2. Counted \in SUBSET (1..Len(src))
  BY AtFacts DEF Place
<1>3. IsFiniteSet(1..Len(src)) /\ Cardinality(1..Len(src)) = Len(src)
  <2>1. 1 \in Int /\ Len(src) \in Int /\ Len(src) >= 0
    BY <1>1
  <2>2. /\ IsFiniteSet(1..Len(src))
        /\ Cardinality(1..Len(src)) = IF 1 > Len(src) THEN 0 ELSE Len(src) - 1 + 1
    BY ONLY <2>1, FS_Interval
  <2>3. QED BY <2>1, <2>2
<1> HIDE DEF Counted
<1>4. Cardinality(Counted) \in Nat /\ Cardinality(Counted) <= Len(src)
  BY <1>2, <1>3, FS_Subset, FS_CardinalityType
<1>5. QED BY <1>1, <1>4

----------------------------------------------------------------------------
(* Steps.                                                                  *)

\* The scan moves on and returns nothing.
LEMMA Skips ==
  ASSUME IInv, src' = src, toks' = toks,
         NEW to \in t.pos..End, t'.pos = to, t'.line = t.line + Newlines(t.pos, to),
         Floor' \in Nat, Floor <= Floor'
  PROVE  TokensSound' /\ InOrder' /\ Behind' /\ LineAgrees'
<1>1. \A i : SteppedOver(i)' <=> SteppedOver(i)
  BY DEF SteppedOver
<1>2. LineAgrees'
  <2>1. to \in t.pos..End + 1
    BY AtFacts DEF IInv, Place
  <2>2. QED BY <1>1, <2>1, LineMoves DEF IInv
<1>3. \A i : At(i)' = At(i) /\ \A m : Text(i, m)' = Text(i, m) /\ End' = End
  BY DEF At, Text, End
<1>4. /\ t.pos \in Nat /\ to \in Nat /\ t.pos <= to /\ to <= End /\ End \in Nat /\ Floor \in Nat
      /\ t.line \in Nat /\ t'.line \in Nat /\ t.line <= t'.line
  <2>1. t.pos \in Nat /\ to \in Nat /\ t.pos <= to /\ to <= End /\ End \in Nat /\ Floor \in Nat
    BY AtFacts DEF IInv, Place, Floor
  <2>2. Newlines(t.pos, to) \in Nat
    BY <2>1, NewlinesFacts
  <2>3. t.line \in 1..End
    BY LineType DEF IInv
  <2>4. QED BY <2>1, <2>2, <2>3
<1>5. ASSUME NEW k \in 1..Len(toks)' PROVE Sound(toks[k])'
  <2>1. Sound(toks[k]) /\ toks'[k] = toks[k]
    BY <1>5 DEF IInv, TokensSound
  <2>2. QED BY <1>3, <1>4, <2>1 DEF Sound, TokenOK
<1>6. InOrder' /\ Behind'
  BY <1>3, <1>4 DEF IInv, InOrder, Behind
<1>7. QED BY <1>2, <1>5, <1>6 DEF TokensSound

\* A place in a text is one of a longer text.
LEMMA Wider ==
  ASSUME NEW a \in Nat, NEW b \in Nat, a <= b, NEW x \in 1..a
  PROVE  x \in 1..b
OBVIOUS

\* The scan moves on and returns the token from `from' to `to'.
LEMMA Appends ==
  ASSUME IInv, src' = src, NEW type \in TokenType, NEW from \in 1..t.pos, NEW to \in t.pos..End + 1, NEW line,
         make_token(type, from, to, line),
         IF type \in {"CHAR", "UNICODE"} THEN line = t.line /\ from = t.pos
                                         ELSE line = t.line + Newlines(t.pos, to),
         type \in {"IDENT", "KW"} => At(to) \notin IdentContinue,
         type = "OP" => /\ from < to /\ to <= End
                        /\ \A m \in to + 1..End : Text(from, m) \notin Longer,
         mode' \in {"code", "end"},
         type # "EOF" => from = Floor,
         type \notin {"CHAR", "UNICODE"} => to = t.pos \/ to <= End
  PROVE  /\ TokensSound' /\ InOrder' /\ Behind' /\ LineAgrees'
         /\ toks' \in Seq({toks'[k] : k \in DOMAIN toks'})
<1> DEFINE tok == [type |-> type, start |-> from, end |-> to, line |-> line, text |-> Text(from, to)]
           n == Len(toks)
<1>1. t.pos \in Nat /\ t.pos >= 1 /\ to \in Nat /\ t.pos <= to /\ from \in Nat
  BY AtFacts DEF IInv, Place
<1>2. /\ n \in Nat /\ Len(toks') = n + 1 /\ toks'[n + 1] = tok
      /\ \A k \in 1..n : toks'[k] = toks[k]
      /\ t'.pos = to /\ t'.line = line
      /\ toks' \in Seq({toks'[k] : k \in DOMAIN toks'})
  <2> DEFINE S == {toks[k] : k \in DOMAIN toks} \cup {tok}
  <2>1. toks \in Seq(S) /\ tok \in S
    BY SeqMonotonic DEF IInv, Place
  <2>2. toks' = Append(toks, tok) /\ t' = [start |-> from, pos |-> to, line |-> line]
    BY DEF make_token
  <2> HIDE DEF S, tok
  <2>3. /\ n \in Nat /\ Len(toks') = n + 1 /\ toks'[n + 1] = tok
        /\ \A k \in 1..n : toks'[k] = toks[k]
        /\ DOMAIN toks' = 1..n + 1
    BY <2>1, <2>2
  <2>4. toks' \in Seq({toks'[k] : k \in DOMAIN toks'})
    <3>1. toks' \in Seq(S)
      BY <2>1, <2>2
    <3>2. QED BY <3>1, OfItems
  <2>5. QED BY <2>2, <2>3, <2>4
<1>3. \A i : At(i)' = At(i) /\ \A m : Text(i, m)' = Text(i, m) /\ End' = End
  BY DEF At, Text, End
<1>8. /\ t.line \in Nat /\ t.line >= 1 /\ line \in Nat /\ t.line <= line
      /\ End \in Nat /\ Floor \in Nat /\ Floor <= t.pos /\ Floor' = to
  <2>1. End \in Nat /\ Floor \in Nat /\ Floor <= t.pos
    BY AtFacts DEF IInv, Place, Floor
  <2>2. Newlines(t.pos, to) \in Nat
    BY <1>1, NewlinesFacts
  <2>3. t.line \in 1..End
    BY LineType DEF IInv
  <2>4. line = t.line \/ line = t.line + Newlines(t.pos, to)
    OBVIOUS
  <2>5. Floor' = to
    BY <1>2 DEF Floor
  <2>6. QED BY <2>1, <2>2, <2>3, <2>4, <2>5
<1>4. ASSUME NEW k \in 1..n + 1 PROVE Sound(toks[k])'
  <2>1. CASE k = n + 1
    <3>1. /\ tok.type = type /\ tok.start = from /\ tok.end = to /\ tok.line = line
          /\ tok.text = Text(from, to)
      OBVIOUS
    <3> HIDE DEF tok
    <3>2. TokenOK(toks[k])'
      <4>1. toks'[k] = tok
        BY <1>2, <2>1
      <4>2. /\ tok.start \in 1..tok.end /\ tok.end \in 1..t'.pos /\ tok.line \in 1..t'.line
            /\ tok.type \in TokenType /\ tok.text = Text(tok.start, tok.end)
        BY <1>1, <1>2, <1>8, <3>1
      <4>3. QED BY <4>1, <4>2 DEF TokenOK, Text
    <3>3. QED BY <1>1, <1>2, <1>3, <1>8, <2>1, <3>1, <3>2 DEF Sound
  <2>2. CASE k # n + 1
    <3>1. Sound(toks[k]) /\ toks'[k] = toks[k]
      BY <1>2, <1>4, <2>2 DEF IInv, TokensSound
    <3>2. TokenOK(toks[k])'
      <4>1. TokenOK(toks[k])
        BY <3>1 DEF Sound
      <4>2. PICK r : r = toks[k]
        OBVIOUS
      <4>3. /\ r.type \in TokenType /\ r.start \in 1..r.end /\ r.end \in 1..t.pos
            /\ r.line \in 1..t.line /\ r.text = Text(r.start, r.end)
        BY <4>1, <4>2 DEF TokenOK
      <4>4. r.end \in 1..t'.pos /\ r.line \in 1..t'.line
        <5>1. t'.pos = to /\ t'.line = line
          BY <1>2
        <5>2. r.end \in 1..to
          BY <1>1, <4>3, Wider
        <5>3. r.line \in 1..line
          BY <1>8, <4>3, Wider
        <5>4. QED BY <5>1, <5>2, <5>3
      <4>5. toks'[k] = r
        BY <3>1, <4>2
      <4>6. QED BY <4>3, <4>4, <4>5 DEF TokenOK, Text
    <3>3. toks'[k].end <= Floor'
      BY <1>1, <1>8, <3>1 DEF Sound, TokenOK
    <3>4. QED BY <1>3, <3>1, <3>2, <3>3 DEF Sound
  <2>3. QED BY <2>1, <2>2
<1>9. InOrder'
  <2> HIDE DEF n, tok
  <2>0. Len(toks') - 1 = n
    BY <1>2
  <2>1. SUFFICES ASSUME NEW k \in 1..n, toks'[k + 1].type # "EOF"
                 PROVE  toks'[k].end <= toks'[k + 1].start
    BY <2>0, Zenon DEF InOrder
  <2> USE DEF n, tok
  <2>2. CASE k = n
    <3>1. Sound(toks[n]) /\ toks'[n] = toks[n]
      BY <1>2, <2>2 DEF IInv, TokensSound
    <3>2. tok.type = type /\ tok.start = from
      OBVIOUS
    <3> HIDE DEF tok
    <3>3. QED BY <1>2, <1>8, <2>1, <2>2, <3>1, <3>2 DEF Sound
  <2>3. CASE k # n
    <3>1. k \in 1..n - 1 /\ k + 1 \in 1..n
      BY <1>2, <2>3
    <3>2. QED BY <1>2, <2>1, <3>1 DEF IInv, InOrder
  <2>4. QED BY <2>2, <2>3
<1>10. Behind'
  <2>1. SUFFICES ASSUME to > End
                 PROVE  \E k \in 1..n + 1 : toks'[k].type \in {"CHAR", "UNICODE"} /\ toks'[k].end = to
    BY <1>2, <1>3 DEF Behind
  <2>2. CASE type \in {"CHAR", "UNICODE"}
    <3>1. tok.type = type /\ tok.end = to /\ n + 1 \in 1..n + 1
      BY <1>2
    <3> HIDE DEF tok
    <3>2. QED BY <1>2, <2>2, <3>1
  <2>3. CASE type \notin {"CHAR", "UNICODE"}
    <3>1. to = t.pos
      BY <1>1, <1>8, <2>1, <2>3
    <3>2. PICK k \in 1..n : toks[k].type \in {"CHAR", "UNICODE"} /\ toks[k].end = to
      BY <2>1, <3>1 DEF IInv, Behind
    <3>3. k \in 1..n + 1 /\ toks'[k] = toks[k]
      BY <1>2
    <3>4. QED BY <3>2, <3>3
  <2>4. QED BY <2>2, <2>3
<1>5. ASSUME NEW i
      PROVE  SteppedOver(i)' <=> SteppedOver(i) \/ (type \in {"CHAR", "UNICODE"} /\ i \in from..to - 1)
  <2>1. SteppedOver(i)' <=> \E k \in 1..n + 1 : /\ toks'[k].type \in {"CHAR", "UNICODE"}
                                                /\ i \in toks'[k].start..toks'[k].end - 1
    BY <1>2 DEF SteppedOver
  <2>2. n + 1 \in 1..n + 1 /\ \A k \in 1..n : k \in 1..n + 1
    BY <1>2
  <2>3. \A k \in 1..n + 1 : k = n + 1 \/ k \in 1..n
    BY <1>2
  <2>4. tok.type = type /\ tok.start = from /\ tok.end = to
    OBVIOUS
  <2> HIDE DEF tok
  <2>5. QED BY <1>2, <2>1, <2>2, <2>3, <2>4 DEF SteppedOver
<1>6. LineAgrees'
  <2>1. CASE type \in {"CHAR", "UNICODE"}
    BY <1>1, <1>2, <1>5, <2>1, LineStays DEF IInv
  <2>2. CASE type \notin {"CHAR", "UNICODE"}
    BY <1>2, <1>5, <2>2, LineMoves DEF IInv
  <2>3. QED BY <2>1, <2>2
<1>7. QED BY <1>2, <1>4, <1>6, <1>9, <1>10 DEF TokensSound

\* A branch that returns the token from here to `to'.
LEMMA Returns ==
  ASSUME IInv, mode = "code", NEW type \in TokenType \ {"EOF"}, NEW to \in t.pos..End + 1,
         Return(type, to),
         type \notin {"CHAR", "UNICODE"} => to <= End,
         type \notin {"CHAR", "UNICODE"} => \A i \in t.pos..to - 1 : At(i) # "\n",
         type \in {"IDENT", "KW"} => At(to) \notin IdentContinue,
         type = "OP" => /\ t.pos < to /\ to <= End
                        /\ \A m \in to + 1..End : Text(t.pos, m) \notin Longer
  PROVE  IInv'
<1>1. t.pos \in Nat /\ t.pos >= 1 /\ to \in Nat /\ End \in Nat
  BY AtFacts DEF IInv, Place
<1>2. src' = src /\ mode' = mode /\ depth' = depth /\ make_token(type, t.pos, to, t.line)
  BY DEF Return
<1>3. type \notin {"CHAR", "UNICODE"} => t.line = t.line + Newlines(t.pos, to)
  <2>1. t.line \in Nat
    BY <1>1, LineType DEF IInv
  <2>2. ASSUME type \notin {"CHAR", "UNICODE"} PROVE Newlines(t.pos, to) = 0
    BY <1>1, <2>2, NewlinesFacts
  <2>3. QED BY <2>1, <2>2
<1>4. /\ TokensSound' /\ InOrder' /\ Behind' /\ LineAgrees'
      /\ toks' \in Seq({toks'[k] : k \in DOMAIN toks'})
  <2>1. t.pos \in 1..t.pos /\ t.pos = Floor
    BY <1>1 DEF Floor
  <2>2. QED BY <1>2, <1>3, <2>1, Appends
<1>5. t'.pos = to /\ t'.start = t.pos /\ End' = End
  BY <1>2 DEF make_token, End
<1>6. Place'
  BY <1>1, <1>2, <1>4, <1>5 DEF Place, IInv
<1>7. QED BY <1>4, <1>6 DEF IInv

----------------------------------------------------------------------------
(* Branches.                                                               *)

LEMMA HereFacts ==
  ASSUME IInv, NEW S, Here(S), "end" \notin S
  PROVE  /\ mode = "code" /\ At(t.pos) \in S /\ t.pos \in 1..Len(src)
         /\ Len(src) \in Nat /\ End = Len(src) + 1
BY AtFacts DEF IInv, Place, Here

LEMMA AheadFacts ==
  ASSUME t.pos \in Nat, NEW a, NEW b
  PROVE  /\ Ahead(<<a, b>>) <=> At(t.pos) = a /\ At(t.pos + 1) = b
         /\ \A c : Ahead(<<a, b, c>>) <=> At(t.pos) = a /\ At(t.pos + 1) = b /\ At(t.pos + 2) = c
<1>1. t.pos + 1 - 1 = t.pos /\ t.pos + 2 - 1 = t.pos + 1 /\ t.pos + 3 - 1 = t.pos + 2
  OBVIOUS
<1>2. Ahead(<<a, b>>) <=> At(t.pos + 1 - 1) = a /\ At(t.pos + 2 - 1) = b
  <2>1. Len(<<a, b>>) = 2 /\ <<a, b>>[1] = a /\ <<a, b>>[2] = b /\ 1..2 = {1, 2}
    OBVIOUS
  <2>2. Ahead(<<a, b>>) <=> \A k \in {1, 2} : At(t.pos + k - 1) = <<a, b>>[k]
    BY <2>1 DEF Ahead
  <2>3. QED BY <2>1, <2>2
<1>3. ASSUME NEW c
      PROVE  Ahead(<<a, b, c>>) <=>
               At(t.pos + 1 - 1) = a /\ At(t.pos + 2 - 1) = b /\ At(t.pos + 3 - 1) = c
  <2>1. /\ Len(<<a, b, c>>) = 3 /\ <<a, b, c>>[1] = a /\ <<a, b, c>>[2] = b /\ <<a, b, c>>[3] = c
        /\ 1..3 = {1, 2, 3}
    OBVIOUS
  <2>2. Ahead(<<a, b, c>>) <=> \A k \in {1, 2, 3} : At(t.pos + k - 1) = <<a, b, c>>[k]
    BY <2>1 DEF Ahead
  <2>3. QED BY <2>1, <2>2
<1>4. QED BY <1>1, <1>2, <1>3

LEMMA TextFacts ==
  ASSUME src \in Seq(Char), NEW i \in 1..Len(src), NEW m \in i + 1..End
  PROVE  /\ Text(i, m) = SubSeq(src, i, m - 1) /\ Len(Text(i, m)) = m - i
         /\ Text(i, m)[1] = At(i)
         /\ m >= i + 2 => Text(i, m)[2] = At(i + 1)
         /\ m >= i + 3 => Text(i, m)[3] = At(i + 2)
<1>1. Len(src) \in Nat /\ End = Len(src) + 1 /\ m \in Nat /\ i \in Nat /\ m - 1 \in i..Len(src)
  BY AtFacts
<1>2. Min({m - 1, Len(src)}) = m - 1
  BY <1>1, MinOf
<1>3. Text(i, m) = SubSeq(src, i, m - 1)
  BY <1>2 DEF Text
<1>4. \A k \in i..m - 1 : src[k] \in Char /\ At(k) = src[k]
  BY <1>1, AtFacts
<1>5. /\ Len(SubSeq(src, i, m - 1)) = IF i <= m - 1 THEN (m - 1) - i + 1 ELSE 0
      /\ \A k \in 1..(m - 1) - i + 1 : SubSeq(src, i, m - 1)[k] = src[i + k - 1]
  BY <1>1, <1>4, SubSeqProperties
<1>6. Text(i, m)[1] = At(i)
  <2>1. Text(i, m)[1] = src[i]
    BY <1>1, <1>3, <1>5
  <2>2. i \in i..m - 1
    BY <1>1
  <2>3. QED BY <1>4, <2>1, <2>2
<1>7. ASSUME m >= i + 2 PROVE Text(i, m)[2] = At(i + 1)
  <2>1. Text(i, m)[2] = src[i + 1]
    BY <1>1, <1>3, <1>5, <1>7
  <2>2. i + 1 \in i..m - 1
    BY <1>1, <1>7
  <2>3. QED BY <1>4, <2>1, <2>2
<1>8. ASSUME m >= i + 3 PROVE Text(i, m)[3] = At(i + 2)
  <2>1. Text(i, m)[3] = src[i + 2]
    BY <1>1, <1>3, <1>5, <1>8
  <2>2. i + 2 \in i..m - 1
    BY <1>1, <1>8
  <2>3. QED BY <1>4, <2>1, <2>2
<1>9. Len(Text(i, m)) = m - i
  BY <1>1, <1>3, <1>5
<1>10. QED BY <1>3, <1>6, <1>7, <1>8, <1>9

LEMMA LongerFacts ==
  ASSUME NEW w \in Longer
  PROVE  /\ (Len(w) = 2 /\ w \in TwoChar) \/ (Len(w) = 3 /\ w = <<".", ".", "=">>)
         /\ w[1] \in {"=", "<", "-", "*", ":", "."} /\ w[2] \in {"=", "<", ">", "-", "*", ":", "."}
<1>1. CASE w = <<".", ".", "=">>
  BY <1>1
<1>2. CASE w \in TwoChar
  <2>1. \E a \in {"=", "<", "-", "*", ":", "."}, b \in {"=", "<", ">", "-", "*", ":", "."} : w = <<a, b>>
    BY <1>2 DEF TwoChar
  <2>2. PICK a \in {"=", "<", "-", "*", ":", "."}, b \in {"=", "<", ">", "-", "*", ":", "."} : w = <<a, b>>
    BY <2>1
  <2>3. Len(w) = 2 /\ w[1] = a /\ w[2] = b
    BY <2>2
  <2>4. QED BY <1>2, <2>2, <2>3
<1>3. QED BY <1>1, <1>2 DEF Longer

\* A branch for one character that is no newline.
LEMMA OneChar ==
  ASSUME IInv, NEW S, Here(S), "end" \notin S, "\n" \notin S,
         NEW type \in {"BACKSLASH", "OP", "HASH", "ERROR"}, Return(type, t.pos + 1),
         type = "OP" => \A m \in t.pos + 2..End : Text(t.pos, m) \notin Longer
  PROVE  IInv'
<1>1. mode = "code" /\ At(t.pos) \in S /\ t.pos \in 1..Len(src) /\ Len(src) \in Nat /\ End = Len(src) + 1
  BY HereFacts
<1>2. t.pos + 1 \in t.pos..End + 1 /\ t.pos < t.pos + 1 /\ t.pos + 1 <= End
  BY <1>1
<1>3. \A i \in t.pos..(t.pos + 1) - 1 : At(i) # "\n"
  BY <1>1
<1>4. \A m \in (t.pos + 1) + 1..End : m \in t.pos + 2..End
  BY <1>1
<1>5. type \in TokenType \ {"EOF"}
  BY DEF TokenType
<1>6. QED BY <1>1, <1>2, <1>3, <1>4, <1>5, Returns

LEMMA PunctuationSteps ==
  ASSUME IInv, Backslash \/ Hash \/ Slash \/ SingleChar \/ Unexpected
  PROVE  IInv'
<1>1. ASSUME NEW S, Here(S), S \in {{"/"}, Single}, NEW m \in t.pos + 2..End
      PROVE  Text(t.pos, m) \notin Longer
  <2>1. At(t.pos) \in S /\ t.pos \in 1..Len(src) /\ Len(src) \in Nat /\ End = Len(src) + 1
    BY <1>1, HereFacts DEF Single
  <2>2. Text(t.pos, m)[1] = At(t.pos)
    <3>1. m \in t.pos + 1..End /\ src \in Seq(Char)
      BY <2>1 DEF IInv, Place
    <3>2. QED BY <2>1, <3>1, TextFacts
  <2>3. Text(t.pos, m)[1] \in S
    BY <2>1, <2>2
  <2>4. QED BY <1>1, <2>3, LongerFacts DEF Single
<1>2. CASE Backslash
  BY <1>2, OneChar DEF Backslash
<1>3. CASE Hash
  BY <1>3, OneChar DEF Hash
<1>4. CASE Slash
  BY <1>1, <1>4, OneChar DEF Slash
<1>5. CASE SingleChar
  <2>1. "end" \notin Single /\ "\n" \notin Single
    BY DEF Single
  <2>2. QED BY <1>1, <1>5, <2>1, OneChar DEF SingleChar
<1>6. CASE Unexpected
  BY <1>6, OneChar DEF Unexpected
<1>7. QED BY <1>2, <1>3, <1>4, <1>5, <1>6

LEMMA OperatorStep ==
  ASSUME IInv, Operator
  PROVE  IInv'
<1> DEFINE p == t.pos
<1>1. Here(OpStart) /\ "end" \notin OpStart /\ "\n" \notin OpStart
  BY DEF Operator, OpStart
<1>2. mode = "code" /\ At(p) \in OpStart /\ p \in 1..Len(src) /\ Len(src) \in Nat /\ End = Len(src) + 1
  BY <1>1, HereFacts
<1>3. src \in Seq(Char)
  BY DEF IInv, Place
<1>6. Ahead(<<".", ".", "=">>) <=> At(p) = "." /\ At(p + 1) = "." /\ At(p + 2) = "="
  <2>1. t.pos \in Nat
    BY <1>2
  <2>2. QED BY <2>1, AheadFacts, Zenon
<1>4. CASE p + 1 = End
  BY <1>1, <1>4, OneChar DEF Operator
<1>5. CASE p + 1 # End
  <2>0. p + 1 \in 1..Len(src) /\ p + 2 \in p + 1..End
    BY <1>2, <1>5
  <2>1. Len(Text(p, p + 2)) = 2 /\ Text(p, p + 2)[2] = At(p + 1)
    <3>1. (p + 2) - p = 2 /\ p + 2 >= p + 2
      BY <1>2
    <3>2. QED BY <1>2, <1>3, <2>0, <3>1, TextFacts
  <2>2. ASSUME NEW m \in p + 2..End, Text(p, m) \in Longer
        PROVE  \/ m = p + 2 /\ Text(p, p + 2) \in TwoChar
               \/ m = p + 3 /\ Ahead(<<".", ".", "=">>)
    <3>0. m \in p + 1..End
      BY <1>2, <2>2
    <3>1. /\ Len(Text(p, m)) = m - p /\ Text(p, m)[1] = At(p)
          /\ m >= p + 2 => Text(p, m)[2] = At(p + 1)
          /\ m >= p + 3 => Text(p, m)[3] = At(p + 2)
      BY <1>2, <1>3, <3>0, TextFacts
    <3>2. CASE Len(Text(p, m)) = 2 /\ Text(p, m) \in TwoChar
      <4>1. m = p + 2
        <5>1. m - p = 2
          BY <3>1, <3>2
        <5>2. m \in Nat /\ p \in Nat
          BY <1>2, <3>0
        <5>3. QED BY <5>1, <5>2
      <4>2. QED BY <3>2, <4>1
    <3>3. CASE Len(Text(p, m)) = 3 /\ Text(p, m) = <<".", ".", "=">>
      <4>1. m = p + 3
        BY <1>2, <2>2, <3>1, <3>3
      <4>2. Text(p, m)[1] = "." /\ Text(p, m)[2] = "." /\ Text(p, m)[3] = "="
        BY <3>3
      <4>3. At(p) = "." /\ At(p + 1) = "." /\ At(p + 2) = "="
        BY <1>2, <3>1, <4>1, <4>2
      <4>4. Ahead(<<".", ".", "=">>)
        BY <1>6, <4>3, Zenon
      <4>5. QED BY <4>1, <4>4
    <3>4. QED BY <2>2, <3>2, <3>3, LongerFacts
  <2>3. CASE Ahead(<<".", ".", "=">>)
    <3>1. At(p) = "." /\ At(p + 1) = "." /\ At(p + 2) = "="
      BY <1>6, <2>3, Zenon
    <3>2. p + 2 \in 1..Len(src)
      BY <1>3, <3>1, AtFacts
    <3>3. p + 3 \in p..End + 1 /\ p < p + 3 /\ p + 3 <= End
      BY <1>2, <3>2
    <3>4. \A i \in p..(p + 3) - 1 : At(i) # "\n"
      BY <1>2, <3>1
    <3>5. ASSUME NEW m \in (p + 3) + 1..End PROVE Text(p, m) \notin Longer
      BY <1>2, <2>2
    <3>6. Return("OP", p + 3)
      BY <1>5, <2>3 DEF Operator
    <3>7. QED BY <1>2, <3>3, <3>4, <3>5, <3>6, Returns DEF TokenType
  <2>4. CASE ~Ahead(<<".", ".", "=">>) /\ Text(p, p + 2) \in TwoChar
    <3>1. At(p + 1) # "\n" /\ At(p) # "\n"
      BY <1>1, <1>2, <2>1, <2>4, LongerFacts DEF Longer
    <3>2. p + 2 \in p..End + 1 /\ p < p + 2 /\ p + 2 <= End
      BY <1>2, <2>0
    <3>3. \A i \in p..(p + 2) - 1 : At(i) # "\n"
      BY <1>2, <3>1
    <3>4. ASSUME NEW m \in (p + 2) + 1..End PROVE Text(p, m) \notin Longer
      BY <1>2, <2>2, <2>4
    <3>5. Return("OP", p + 2)
      BY <1>5, <2>4 DEF Operator
    <3>6. QED BY <1>2, <3>2, <3>3, <3>4, <3>5, Returns DEF TokenType
  <2>5. CASE ~Ahead(<<".", ".", "=">>) /\ Text(p, p + 2) \notin TwoChar
    <3>1. Return("OP", p + 1)
      BY <1>5, <2>5 DEF Operator
    <3>2. \A m \in p + 2..End : Text(p, m) \notin Longer
      BY <2>2, <2>5
    <3>3. QED BY <1>1, <3>1, <3>2, OneChar
  <2>6. QED BY <2>3, <2>4, <2>5
<1>7. QED BY <1>4, <1>5

\* No newline stands between two places.
Plain(from, to) == \A j \in from..to - 1 : At(j) # "\n"

LEMMA PlainJoin ==
  ASSUME NEW a \in Nat, NEW b \in Nat, NEW c \in Nat, a <= b, b <= c, Plain(a, b), Plain(b, c)
  PROVE  Plain(a, c)
<1>1. ASSUME NEW j \in a..c - 1 PROVE At(j) # "\n"
  <2>1. j \in a..b - 1 \/ j \in b..c - 1
    OBVIOUS
  <2>2. QED BY <2>1 DEF Plain
<1>2. QED BY <1>1 DEF Plain

LEMMA PlainOne ==
  ASSUME NEW a \in Nat, At(a) # "\n"
  PROVE  Plain(a, a) /\ Plain(a, a + 1)
BY DEF Plain

LEMMA PlainRun ==
  ASSUME src \in Seq(Char), NEW i \in Nat, i >= 1, i <= End, NEW S, "end" \notin S, "\n" \notin S,
         NEW to, to = RunEnd(i, S)
  PROVE  to \in Nat /\ i <= to /\ to <= End /\ Plain(i, to)
<1>1. End \in Nat /\ i \in 1..End
  BY AtFacts
<1>2. to \in i..End /\ \A j \in i..to - 1 : At(j) \in S
  BY <1>1, RunEndFacts
<1>3. QED BY <1>1, <1>2 DEF Plain

LEMMA WordSteps ==
  ASSUME IInv, OpName \/ scan_ident_or_keyword
  PROVE  IInv'
<1> DEFINE p == t.pos
<1>1. src \in Seq(Char)
  BY DEF IInv, Place
<1>2. p \in 1..End + 1 /\ End \in Nat
  BY AtFacts DEF IInv, Place
<1>3. CASE OpName
  <2> DEFINE Stops == {j \in p + 3..End : At(j) \in OpNameEnds}
             to == Min(Stops)
  <2>1. At(p) = "o" /\ At(p + 1) = "p" /\ At(p + 2) = "_"
    <3>1. t.pos \in Nat
      BY <1>2
    <3>2. Ahead(<<"o", "p", "_">>) <=> At(p) = "o" /\ At(p + 1) = "p" /\ At(p + 2) = "_"
      BY <3>1, AheadFacts, Zenon
    <3>3. QED BY <1>3, <3>2 DEF OpName, IsOpName
  <2>2. p + 3 <= End /\ At(End) = "end"
    <3>1. p + 2 \in 1..Len(src)
      BY <1>1, <2>1, AtFacts
    <3>2. QED BY <1>1, <1>2, <3>1, AtFacts
  <2>3. Stops \in SUBSET Nat /\ End \in Stops
    <3>1. End \in p + 3..End /\ "end" \in OpNameEnds
      BY <1>2, <2>2 DEF OpNameEnds
    <3>2. QED BY <1>2, <2>2, <3>1
  <2>4. to \in Stops /\ \A y \in Stops : to <= y
    BY <2>3, MinFacts
  <2>5. to \in p + 3..End /\ At(to) \in OpNameEnds
    BY <2>4
  <2>6. ASSUME NEW i \in p..to - 1 PROVE At(i) # "\n"
    <3>1. CASE i \in p + 3..End
      <4>1. ~(to <= i)
        BY <1>2, <2>5, <2>6
      <4>2. i \notin Stops
        BY <2>4, <4>1
      <4>3. QED BY <3>1, <4>2 DEF OpNameEnds
    <3>2. CASE i \in {p, p + 1, p + 2}
      BY <2>1, <3>2
    <3>3. QED BY <1>2, <2>5, <2>6, <3>1, <3>2
  <2>7. At(to) \notin IdentContinue
    BY <2>5 DEF OpNameEnds, IdentContinue, IdentStart, Digit, Blank
  <2>8. to \in p..End + 1 /\ to <= End
    BY <1>2, <2>5
  <2>9. mode = "code" /\ Return("IDENT", to)
    BY <1>3 DEF OpName
  <2> HIDE DEF to
  <2>10. QED BY <2>6, <2>7, <2>8, <2>9, Returns DEF TokenType
<1>4. CASE scan_ident_or_keyword
  <2> DEFINE to == RunEnd(p, IdentContinue)
             type == IF Text(p, to) \in Keywords THEN "KW" ELSE "IDENT"
  <2>1. Here(IdentStart) /\ "end" \notin IdentStart /\ "end" \notin IdentContinue /\ "\n" \notin IdentContinue
    BY <1>4 DEF scan_ident_or_keyword, IdentStart, IdentContinue, Digit
  <2>2. mode = "code" /\ p \in 1..Len(src) /\ Len(src) \in Nat /\ End = Len(src) + 1
    BY <2>1, HereFacts
  <2>3. p \in 1..End
    BY <2>2
  <2>4. to \in p..End /\ At(to) \notin IdentContinue /\ \A j \in p..to - 1 : At(j) \in IdentContinue
    BY <1>1, <2>1, <2>3, RunEndFacts
  <2>5. \A i \in p..to - 1 : At(i) # "\n"
    BY <2>1, <2>4
  <2>6. Return(type, to) /\ type \in {"IDENT", "KW"}
    BY <1>4 DEF scan_ident_or_keyword
  <2>7. to \in p..End + 1 /\ to <= End
    BY <2>2, <2>4
  <2> HIDE DEF to, type
  <2>8. QED BY <2>2, <2>4, <2>5, <2>6, <2>7, Returns DEF TokenType
<1>5. QED BY <1>3, <1>4

LEMMA NumberStep ==
  ASSUME IInv, scan_number
  PROVE  IInv'
<1> DEFINE p == t.pos
           digits == Digit \cup {"_"}
           hex == HexChar \cup {"_"}
<1>1. src \in Seq(Char)
  BY DEF IInv, Place
<1>2. Here(Digit) /\ "end" \notin digits /\ "\n" \notin digits /\ "end" \notin hex /\ "\n" \notin hex
  BY DEF scan_number, Digit, HexChar
<1>3. mode = "code" /\ p \in Nat /\ p >= 1 /\ p <= End /\ End \in Nat
  BY <1>2, HereFacts DEF Digit
<1>4. ASSUME NEW i \in Nat, i >= 1, At(i) # "end" PROVE i + 1 <= End
  BY <1>1, <1>4, AtFacts
<1>5. ASSUME NEW to \in Nat, p <= to, to <= End, Plain(p, to), NEW type \in {"INT", "FLOAT"},
             Return(type, to)
      PROVE  IInv'
  <2>1. to \in p..End + 1
    BY <1>3, <1>5
  <2>2. \A i \in p..to - 1 : At(i) # "\n"
    BY <1>5 DEF Plain
  <2>3. QED BY <1>3, <1>5, <2>1, <2>2, Returns DEF TokenType
<1> HIDE DEF digits, hex
<1>6. CASE Ahead(<<"0", "x">>)
  <2>1. PICK to : to = RunEnd(p + 2, hex)
    OBVIOUS
  <2>2. At(p) = "0" /\ At(p + 1) = "x"
    <3>1. t.pos \in Nat
      BY <1>3
    <3>2. Ahead(<<"0", "x">>) <=> At(p) = "0" /\ At(p + 1) = "x"
      BY <3>1, AheadFacts, Zenon
    <3>3. QED BY <1>6, <3>2
  <2>3. p + 1 \in Nat /\ p + 2 \in Nat /\ p + 2 >= 1 /\ p + 2 = (p + 1) + 1
    BY <1>3
  <2>4. p + 2 <= End
    BY <1>3, <1>4, <2>2, <2>3
  <2>5. to \in Nat /\ p + 2 <= to /\ to <= End /\ Plain(p + 2, to)
    BY <1>1, <1>2, <2>1, <2>3, <2>4, PlainRun
  <2>6. Plain(p, p + 1) /\ Plain(p + 1, p + 2)
    BY <1>3, <2>2, <2>3, PlainOne
  <2>7. Plain(p, p + 2)
    BY <1>3, <2>3, <2>6, PlainJoin
  <2>8. Plain(p, to) /\ p <= to
    BY <1>3, <2>3, <2>5, <2>7, PlainJoin
  <2>9. Return("INT", to)
    BY <1>6, <2>1 DEF scan_number, hex
  <2>10. QED BY <1>5, <2>5, <2>8, <2>9
<1>7. CASE ~Ahead(<<"0", "x">>)
  <2>1. PICK whole : whole = RunEnd(p, digits)
    OBVIOUS
  <2>2. PICK frac : frac = IF At(whole) = "." /\ At(whole + 1) \in Digit
                           THEN RunEnd(whole + 1, digits) ELSE whole
    OBVIOUS
  <2>3. PICK sign : sign = IF At(frac + 1) = "-" THEN 2 ELSE 1
    OBVIOUS
  <2>4. PICK exp : exp = IF At(frac) = "e" THEN RunEnd(frac + sign, digits) ELSE frac
    OBVIOUS
  <2>5. whole \in Nat /\ p <= whole /\ whole <= End /\ Plain(p, whole)
    BY <1>1, <1>2, <1>3, <2>1, PlainRun
  <2>6. frac \in Nat /\ whole <= frac /\ frac <= End /\ Plain(whole, frac)
    <3>1. CASE At(whole) = "." /\ At(whole + 1) \in Digit
      <4>1. whole + 1 <= End /\ whole + 1 >= 1 /\ whole + 1 \in Nat
        BY <1>3, <1>4, <2>5, <3>1
      <4>2. frac = RunEnd(whole + 1, digits)
        BY <2>2, <3>1
      <4>3. frac \in Nat /\ whole + 1 <= frac /\ frac <= End /\ Plain(whole + 1, frac)
        BY <1>1, <1>2, <4>1, <4>2, PlainRun
      <4>4. Plain(whole, whole + 1)
        BY <2>5, <3>1, PlainOne
      <4>5. QED BY <2>5, <4>1, <4>3, <4>4, PlainJoin
    <3>2. CASE ~(At(whole) = "." /\ At(whole + 1) \in Digit)
      BY <2>2, <2>5, <3>2 DEF Plain
    <3>3. QED BY <3>1, <3>2
  <2>7. exp \in Nat /\ frac <= exp /\ exp <= End /\ Plain(frac, exp)
    <3>1. CASE At(frac) = "e"
      <4>1. frac + 1 <= End /\ frac + 1 >= 1 /\ frac + 1 \in Nat
        BY <1>3, <1>4, <2>5, <2>6, <3>1
      <4>2. Plain(frac, frac + 1)
        BY <2>6, <3>1, PlainOne
      <4>3. frac + sign \in Nat /\ frac + sign <= End /\ frac <= frac + sign /\ frac + sign >= 1
            /\ Plain(frac, frac + sign)
        <5>1. CASE At(frac + 1) = "-"
          <6>1. sign = 2 /\ frac + 2 = (frac + 1) + 1
            BY <2>3, <2>6, <5>1
          <6>2. frac + 2 <= End
            BY <1>4, <4>1, <5>1, <6>1
          <6>3. Plain(frac + 1, frac + 2)
            BY <4>1, <5>1, <6>1, PlainOne
          <6>4. Plain(frac, frac + 2)
            BY <2>6, <4>1, <4>2, <6>1, <6>3, PlainJoin
          <6>5. QED BY <2>6, <6>1, <6>2, <6>4
        <5>2. CASE At(frac + 1) # "-"
          BY <2>3, <2>6, <4>1, <4>2, <5>2
        <5>3. QED BY <5>1, <5>2
      <4>4. exp = RunEnd(frac + sign, digits)
        BY <2>4, <3>1
      <4>5. exp \in Nat /\ frac + sign <= exp /\ exp <= End /\ Plain(frac + sign, exp)
        BY <1>1, <1>2, <4>3, <4>4, PlainRun
      <4>6. QED BY <2>6, <4>3, <4>5, PlainJoin
    <3>2. CASE At(frac) # "e"
      BY <2>4, <2>6, <3>2 DEF Plain
    <3>3. QED BY <3>1, <3>2
  <2>8. Plain(p, frac)
    BY <1>3, <2>5, <2>6, PlainJoin
  <2>9. Plain(p, exp) /\ p <= exp
    BY <1>3, <2>5, <2>6, <2>7, <2>8, PlainJoin
  <2>10. Return(IF exp = whole THEN "INT" ELSE "FLOAT", exp)
    BY <1>7, <2>1, <2>2, <2>3, <2>4 DEF scan_number, digits
  <2>11. QED
    <3>1. CASE exp = whole
      <4>1. Return("INT", exp)
        BY <2>10, <3>1
      <4>2. QED BY <1>5, <2>7, <2>9, <4>1
    <3>2. CASE exp # whole
      <4>1. Return("FLOAT", exp)
        BY <2>10, <3>2
      <4>2. QED BY <1>5, <2>7, <2>9, <4>1
    <3>3. QED BY <3>1, <3>2
<1>8. QED BY <1>6, <1>7

\* A branch that returns nothing.
LEMMA SkipStep ==
  ASSUME IInv, NEW to \in Nat, t.pos <= to, to <= End, Advance(to, t.line + Newlines(t.pos, to)),
         mode # "end", mode' \in {"code", "string", "block"},
         depth' \in Nat, depth' < to, (depth' > 0) = (mode' = "block")
  PROVE  IInv'
<1>1. /\ src' = src /\ toks' = toks /\ t'.pos = to /\ t'.line = t.line + Newlines(t.pos, to)
      /\ t'.start \in {t.pos, t.start} /\ End' = End
  BY DEF Advance, End
<1>2. t.pos \in Nat /\ t.pos >= 1 /\ End \in Nat /\ t.start \in 1..t.pos
  BY AtFacts DEF IInv, Place
<1>3. to \in t.pos..End
  BY <1>2
<1>8. Floor' \in Nat /\ Floor <= Floor'
  <2>1. mode = "code" => t'.start = t.pos
    BY DEF Advance
  <2>2. mode \in {"string", "block"} => t'.start = t.start
    BY DEF Advance
  <2>3. mode \in {"code", "string", "block", "end"}
    BY DEF IInv, Place
  <2>4. mode # "end"
    OBVIOUS
  <2>5. QED BY <1>1, <1>2, <2>1, <2>2, <2>3, <2>4 DEF Floor
<1>4. TokensSound' /\ InOrder' /\ Behind' /\ LineAgrees'
  BY <1>1, <1>3, <1>8, Skips
<1>5. t'.pos \in 1..End + 1 /\ t'.start \in 1..t'.pos
  BY <1>1, <1>2
<1>6. Place'
  BY <1>1, <1>5 DEF IInv, Place
<1>7. QED BY <1>4, <1>6 DEF IInv

\* The same, over a stretch without newlines.
LEMMA PlainStep ==
  ASSUME IInv, NEW to \in Nat, t.pos <= to, to <= End, Advance(to, t.line), Plain(t.pos, to),
         mode # "end", mode' \in {"code", "string", "block"},
         depth' \in Nat, depth' < to, (depth' > 0) = (mode' = "block")
  PROVE  IInv'
<1>1. t.line \in Nat /\ t.pos \in Nat
  BY LineType, AtFacts DEF IInv, Place
<1>2. Newlines(t.pos, to) = 0
  BY <1>1, NewlinesFacts DEF Plain
<1>3. t.line = t.line + Newlines(t.pos, to)
  BY <1>1, <1>2
<1>4. QED BY <1>3, SkipStep

LEMMA BlankSteps ==
  ASSUME IInv, SkipBlanks \/ scan_comment
  PROVE  IInv'
<1>1. /\ src \in Seq(Char) /\ t.pos \in Nat /\ t.pos >= 1 /\ End \in Nat /\ Len(src) \in Nat
      /\ depth \in Nat /\ depth < t.pos /\ (depth > 0) = (mode = "block") /\ End = Len(src) + 1
  BY AtFacts DEF IInv, Place
<1>2. CASE SkipBlanks
  <2>1. PICK to : to = RunEnd(t.pos, Blank)
    OBVIOUS
  <2>2. mode = "code" /\ t.pos <= End /\ "end" \notin Blank /\ "\n" \notin Blank
    <3>1. Here(Blank) /\ "end" \notin Blank /\ "\n" \notin Blank
      BY <1>2 DEF SkipBlanks, Blank
    <3>2. QED BY <1>1, <3>1, HereFacts
  <2>3. to \in Nat /\ t.pos <= to /\ to <= End /\ Plain(t.pos, to)
    BY <1>1, <2>1, <2>2, PlainRun
  <2>4. Advance(to, t.line) /\ mode' = mode /\ depth' = depth
    BY <1>2, <2>1 DEF SkipBlanks
  <2>5. QED BY <1>1, <2>2, <2>3, <2>4, PlainStep
<1>3. CASE scan_comment
  <2> DEFINE Stops == {j \in t.pos..End : At(j) \in {"\n", "end"}}
  <2>1. PICK eol : eol = Min(Stops)
    OBVIOUS
  <2>2. t.pos <= Len(src)
    <3>1. At(t.pos) = "/"
      BY <1>1, <1>3, AheadFacts, Zenon DEF scan_comment
    <3>2. QED BY <1>1, <3>1, AtFacts
  <2>3. Stops \in SUBSET Nat /\ End \in Stops
    BY <1>1, <2>2, AtFacts
  <2>4. eol \in Stops /\ \A y \in Stops : eol <= y
    BY <2>1, <2>3, MinFacts
  <2>5. eol \in Nat /\ t.pos <= eol /\ eol <= End
    BY <1>1, <2>4
  <2>6. PICK to : to = Min({eol + 1, End})
    OBVIOUS
  <2>7. to = IF eol + 1 <= End THEN eol + 1 ELSE End
    BY <1>1, <2>5, <2>6, MinOf
  <2>8. to \in Nat /\ t.pos <= to /\ to <= End
    BY <1>1, <2>2, <2>5, <2>7
  <2>9. Newlines(t.pos, eol + 1) = Newlines(t.pos, to)
    <3>1. CASE eol + 1 <= End
      BY <2>7, <3>1
    <3>2. CASE ~(eol + 1 <= End)
      <4>1. eol = End /\ to = End
        BY <1>1, <2>5, <2>7, <3>2
      <4>2. At(End) = "end"
        BY <1>1, AtFacts
      <4>3. {i \in t.pos..(eol + 1) - 1 : At(i) = "\n"} = {i \in t.pos..to - 1 : At(i) = "\n"}
        BY <1>1, <4>1, <4>2
      <4>4. QED BY <4>3 DEF Newlines
    <3>3. QED BY <3>1, <3>2
  <2>10. Advance(to, t.line + Newlines(t.pos, to)) /\ mode' = mode /\ depth' = depth /\ mode = "code"
    BY <1>3, <2>1, <2>6, <2>9 DEF scan_comment
  <2>11. QED BY <1>1, <2>8, <2>10, SkipStep
<1>4. QED BY <1>2, <1>3

LEMMA BlockSteps ==
  ASSUME IInv, OpenBlock \/ scan_block_comment
  PROVE  IInv'
<1>1. /\ src \in Seq(Char) /\ t.pos \in Nat /\ t.pos >= 1 /\ End \in Nat /\ Len(src) \in Nat
      /\ depth \in Nat /\ depth < t.pos /\ (depth > 0) = (mode = "block") /\ End = Len(src) + 1
  BY AtFacts DEF IInv, Place
<1>2. ASSUME NEW a \in {"/", "*"}, NEW b \in {"/", "*"}, Ahead(<<a, b>>)
      PROVE  t.pos + 2 \in Nat /\ t.pos + 2 <= End /\ Plain(t.pos, t.pos + 2)
  <2>1. At(t.pos) = a /\ At(t.pos + 1) = b
    BY <1>1, <1>2, AheadFacts, Zenon
  <2>2. t.pos + 1 \in 1..Len(src)
    BY <1>1, <1>2, <2>1, AtFacts
  <2>3. Plain(t.pos, t.pos + 1) /\ Plain(t.pos + 1, (t.pos + 1) + 1)
    BY <1>1, <1>2, <2>1, PlainOne
  <2>4. (t.pos + 1) + 1 = t.pos + 2
    BY <1>1
  <2>5. Plain(t.pos, t.pos + 2)
    BY <1>1, <2>3, <2>4, PlainJoin
  <2>6. QED BY <1>1, <2>2, <2>5
<1>3. CASE OpenBlock
  <2>1. /\ Ahead(<<"/", "*">>) /\ Advance(t.pos + 2, t.line) /\ mode' = "block" /\ depth' = 1
        /\ mode = "code"
    BY <1>3 DEF OpenBlock
  <2>2. t.pos + 2 \in Nat /\ t.pos + 2 <= End /\ Plain(t.pos, t.pos + 2)
    BY <1>2, <2>1
  <2>3. QED BY <1>1, <2>1, <2>2, PlainStep
<1>4. CASE scan_block_comment
  <2>1. mode = "block" /\ t.pos < End /\ depth > 0
    BY <1>1, <1>4 DEF scan_block_comment
  <2>2. PICK step : step = IF Ahead(<<"*", "/">>) THEN -1 ELSE IF Ahead(<<"/", "*">>) THEN 1 ELSE 0
    OBVIOUS
  <2>3. /\ IF step = 0 THEN Advance(t.pos + 1, t.line + Newlines(t.pos, t.pos + 1))
                       ELSE Advance(t.pos + 2, t.line)
        /\ depth' = depth + step
        /\ mode' = IF depth + step = 0 THEN "code" ELSE "block"
    BY <1>4, <2>2 DEF scan_block_comment
  <2>4. step \in {-1, 0, 1}
    BY <2>2
  <2>5. depth' \in Nat /\ depth' < t.pos + 1 /\ (depth' > 0) = (mode' = "block")
    BY <1>1, <2>1, <2>3, <2>4
  <2>6. CASE step = 0
    BY <1>1, <2>1, <2>3, <2>5, <2>6, SkipStep
  <2>7. CASE step # 0
    <3>1. t.pos + 2 \in Nat /\ t.pos + 2 <= End /\ Plain(t.pos, t.pos + 2)
      BY <1>2, <2>2, <2>7
    <3>2. QED BY <1>1, <2>1, <2>3, <2>5, <2>7, <3>1, PlainStep
  <2>8. QED BY <2>6, <2>7
<1>5. QED BY <1>3, <1>4

LEMMA NewlineStep ==
  ASSUME IInv, Newline
  PROVE  IInv'
<1>1. Here({"\n"}) /\ make_token("NEWLINE", t.pos, t.pos + 1, t.line + 1)
        /\ src' = src /\ mode' = mode /\ depth' = depth
  BY DEF Newline
<1>2. At(t.pos) = "\n" /\ t.pos \in 1..Len(src) /\ Len(src) \in Nat /\ End = Len(src) + 1 /\ t.pos \in Nat
  BY <1>1, HereFacts
<1>3. Newlines(t.pos, t.pos + 1) = 1
  <2>1. {i \in t.pos..(t.pos + 1) - 1 : At(i) = "\n"} = {t.pos}
    BY <1>2
  <2>2. QED BY <2>1, FS_Singleton DEF Newlines
<1>4. t.line + 1 = t.line + Newlines(t.pos, t.pos + 1)
  BY <1>3
<1>5. t.pos + 1 \in t.pos..End + 1 /\ t.pos \in 1..t.pos /\ End' = End
  BY <1>1, <1>2 DEF End
<1>6. /\ TokensSound' /\ InOrder' /\ Behind' /\ LineAgrees'
      /\ toks' \in Seq({toks'[k] : k \in DOMAIN toks'})
  <2>1. mode = "code" /\ Floor = t.pos /\ t.pos + 1 <= End /\ "NEWLINE" \in TokenType
    BY <1>1, <1>2 DEF Here, Floor, TokenType
  <2>2. QED BY <1>1, <1>4, <1>5, <2>1, Appends
<1>7. t'.pos = t.pos + 1 /\ t'.start = t.pos
  BY <1>1 DEF make_token
<1>8. Place'
  BY <1>1, <1>2, <1>5, <1>6, <1>7 DEF IInv, Place, Here
<1>9. QED BY <1>6, <1>8 DEF IInv

\* What a scan that was begun returns: the text since t.start.
LEMMA CloseStep ==
  ASSUME IInv, NEW type \in {"ERROR", "STRING", "EOF"}, NEW to \in Nat, t.pos <= to, to <= End + 1,
         make_token(type, t.start, to, t.line), Plain(t.pos, to), src' = src,
         mode' \in {"code", "end"}, depth' = 0, to = t.pos \/ to <= End,
         type # "EOF" => mode \in {"string", "block"}
  PROVE  IInv'
<1>1. t.line \in Nat /\ t.pos \in Nat /\ t.pos >= 1 /\ End \in Nat
  BY LineType, AtFacts DEF IInv, Place
<1>2. Newlines(t.pos, to) = 0
  BY <1>1, NewlinesFacts DEF Plain
<1>3. t.line = t.line + Newlines(t.pos, to)
  BY <1>1, <1>2
<1>4. to \in t.pos..End + 1 /\ t.start \in 1..t.pos /\ End' = End
  BY <1>1 DEF IInv, Place, End
<1>5. /\ TokensSound' /\ InOrder' /\ Behind' /\ LineAgrees'
      /\ toks' \in Seq({toks'[k] : k \in DOMAIN toks'})
  <2>1. type \in TokenType /\ (type # "EOF" => t.start = Floor)
    BY DEF TokenType, Floor
  <2>2. QED BY <1>3, <1>4, <2>1, Appends
<1>6. t'.pos = to /\ t'.start = t.start
  BY DEF make_token
<1>7. t'.pos \in 1..End + 1 /\ t'.start \in 1..t'.pos
  BY <1>1, <1>4, <1>6
<1>8. Place'
  BY <1>1, <1>4, <1>5, <1>6, <1>7 DEF IInv, Place
<1>9. QED BY <1>5, <1>8 DEF IInv

LEMMA ClosingSteps ==
  ASSUME IInv, UnclosedBlock \/ CloseString \/ Eof
  PROVE  IInv'
<1>1. /\ src \in Seq(Char) /\ t.pos \in Nat /\ t.pos >= 1 /\ End \in Nat /\ Len(src) \in Nat
      /\ mode \in {"string", "block"} => t.pos <= End
      /\ t.pos <= End + 1
      /\ depth \in Nat /\ (depth > 0) = (mode = "block") /\ End = Len(src) + 1
  BY AtFacts DEF IInv, Place
<1>2. Plain(t.pos, t.pos)
  BY <1>1 DEF Plain
<1>3. CASE UnclosedBlock
  BY <1>1, <1>2, <1>3, CloseStep DEF UnclosedBlock
<1>4. CASE CloseString
  <2>1. PICK to : to = Min({t.pos + 1, End})
    OBVIOUS
  <2>2. t.pos <= End /\ At(t.pos) # "\n" /\ mode = "string"
    BY <1>1, <1>4 DEF CloseString
  <2>3. to = IF t.pos + 1 <= End THEN t.pos + 1 ELSE End
    BY <1>1, <2>1, MinOf
  <2>4. to \in Nat /\ t.pos <= to /\ to <= End /\ (to = t.pos \/ to = t.pos + 1)
    BY <1>1, <2>2, <2>3
  <2>5. Plain(t.pos, to)
    BY <1>1, <2>2, <2>4, PlainOne
  <2>6. make_token("STRING", t.start, to, t.line) /\ src' = src /\ mode' = "code" /\ depth' = depth
    BY <1>4, <2>1 DEF CloseString
  <2>7. depth' = 0
    BY <1>1, <2>2, <2>6
  <2>8. QED BY <1>1, <2>2, <2>4, <2>5, <2>6, <2>7, CloseStep
<1>5. CASE Eof /\ mode = "code"
  BY <1>1, <1>2, <1>5, CloseStep DEF Eof
<1>6. CASE Eof /\ mode = "end"
  <2>1. src' = src /\ t' = t /\ mode' = mode /\ depth' = depth /\ toks' = toks
    BY <1>6 DEF Eof
  <2>2. QED
    BY <2>1 DEF IInv, Place, TokensSound, Sound, TokenOK, InOrder, Behind, Floor, LineAgrees, SteppedOver, At, Text, End
<1>7. QED BY <1>3, <1>4, <1>5, <1>6 DEF Eof

LEMMA StringSteps ==
  ASSUME IInv, OpenString \/ scan_string
  PROVE  IInv'
<1>1. /\ src \in Seq(Char) /\ t.pos \in Nat /\ t.pos >= 1 /\ End \in Nat /\ Len(src) \in Nat
      /\ depth \in Nat /\ depth < t.pos /\ (depth > 0) = (mode = "block") /\ End = Len(src) + 1
  BY AtFacts DEF IInv, Place
<1>2. CASE OpenString
  <2>1. mode = "code" /\ At(t.pos) # "end" /\ At(t.pos) # "\n"
    BY <1>2 DEF OpenString, Here
  <2>2. t.pos + 1 <= End
    BY <1>1, <2>1, AtFacts
  <2>3. Plain(t.pos, t.pos + 1)
    BY <1>1, <2>1, PlainOne
  <2>4. Advance(t.pos + 1, t.line) /\ mode' = "string" /\ depth' = depth
    BY <1>2 DEF OpenString
  <2>5. depth = 0
    BY <1>1, <2>1
  <2>6. (depth' > 0) = (mode' = "block")
    BY <2>4, <2>5
  <2>7. /\ t.pos + 1 \in Nat /\ t.pos <= t.pos + 1 /\ mode' \in {"code", "string", "block"}
        /\ depth' \in Nat /\ depth' < t.pos + 1
    BY <1>1, <2>4, <2>5
  <2>8. QED BY <2>1, <2>2, <2>3, <2>4, <2>6, <2>7, PlainStep
<1>3. CASE scan_string
  <2>1. PICK to : to = IF At(t.pos) = "\\" /\ t.pos + 1 < End THEN t.pos + 2 ELSE t.pos + 1
    OBVIOUS
  <2>2. mode = "string" /\ At(t.pos) # "end"
    BY <1>3 DEF scan_string
  <2>3. t.pos + 1 <= End
    BY <1>1, <2>2, AtFacts
  <2>4. to \in Nat /\ t.pos <= to /\ to <= End
    BY <1>1, <2>1, <2>3
  <2>5. Advance(to, t.line + Newlines(t.pos, to)) /\ mode' = mode /\ depth' = depth
    BY <1>3, <2>1 DEF scan_string
  <2>6. QED BY <1>1, <2>2, <2>4, <2>5, SkipStep
<1>4. QED BY <1>2, <1>3

\* A token whose scan does not look for newlines.
LEMMA LiteralSteps ==
  ASSUME IInv, scan_char \/ UnicodeOp
  PROVE  IInv'
<1> DEFINE p == t.pos
<1>1. src \in Seq(Char) /\ p \in Nat /\ p >= 1 /\ End \in Nat
  BY AtFacts DEF IInv, Place
<1>2. \A i \in Nat : At(i) # "end" => i + 1 <= End
  BY <1>1, AtFacts
<1>3. CASE scan_char
  <2>1. mode = "code" /\ At(p) = "'" /\ Return("CHAR", CharEnd(p))
    BY <1>3 DEF scan_char, Here
  <2>2. PICK body : body = IF At(p + 1) = "end" THEN p + 1
                           ELSE IF At(p + 1) # "\\" THEN p + 2
                           ELSE IF At(p + 2) = "end" THEN p + 2
                           ELSE IF At(p + 2) # "x" THEN p + 3
                           ELSE IF At(p + 3) \in HexChar /\ At(p + 4) \in HexChar THEN p + 5 ELSE p + 4
    OBVIOUS
  <2>3. CharEnd(p) = IF At(body) = "'" THEN body + 1 ELSE body
    BY <2>2 DEF CharEnd
  <2>4. p + 1 <= End
    BY <1>1, <1>2, <2>1
  <2>5. body \in Nat /\ p <= body /\ body <= End + 1
    <3>1. At(p + 1) # "end" => p + 2 <= End
      BY <1>1, <1>2
    <3>2. At(p + 2) # "end" => p + 3 <= End
      BY <1>1, <1>2
    <3>3. At(p + 4) # "end" => p + 5 <= End
      BY <1>1, <1>2
    <3>4. "end" \notin HexChar
      BY DEF HexChar, Digit
    <3>5. body \in {p + 1, p + 2, p + 3, p + 4, p + 5}
      BY <2>2
    <3>6. body <= End + 1
      <4>1. CASE At(p + 1) = "end"
        BY <1>1, <2>2, <2>4, <4>1
      <4>2. CASE At(p + 1) # "end" /\ body = p + 2
        BY <1>1, <3>1, <4>2
      <4>3. CASE At(p + 1) # "end" /\ At(p + 2) # "end" /\ body \in {p + 3, p + 4}
        BY <1>1, <3>2, <4>3
      <4>4. CASE At(p + 4) # "end" /\ body = p + 5
        BY <1>1, <3>3, <4>4
      <4>5. QED BY <2>2, <3>4, <4>1, <4>2, <4>3, <4>4
    <3>7. QED BY <1>1, <3>5, <3>6
  <2>6. At(body) = "'" => body + 1 <= End
    BY <1>2, <2>5
  <2>7. CharEnd(p) \in p..End + 1
    BY <1>1, <2>3, <2>5, <2>6
  <2>8. QED BY <2>1, <2>7, Returns DEF TokenType
<1>4. CASE UnicodeOp
  <2>1. PICK to : to = IF p + 2 > End THEN p + 2 ELSE RunEnd(p + 2, {"cont"})
    OBVIOUS
  <2>2. mode = "code" /\ At(p) # "end" /\ Return("UNICODE", to)
    BY <1>4, <2>1 DEF UnicodeOp, Here, NonAscii
  <2>3. p + 1 <= End
    BY <1>1, <1>2, <2>2
  <2>4. to \in p..End + 1
    <3>1. CASE p + 2 > End
      BY <1>1, <2>1, <2>3, <3>1
    <3>2. CASE p + 2 <= End
      <4>1. p + 2 \in Nat /\ p + 2 >= 1 /\ to = RunEnd(p + 2, {"cont"})
        BY <1>1, <2>1, <3>2
      <4>2. to \in Nat /\ p + 2 <= to /\ to <= End
        BY <1>1, <3>2, <4>1, PlainRun
      <4>3. QED BY <1>1, <4>2
    <3>3. QED BY <1>1, <3>1, <3>2
  <2>5. QED BY <2>2, <2>4, Returns DEF TokenType
<1>5. QED BY <1>3, <1>4

LEMMA StepPreserves ==
  ASSUME IInv, [tokenizer_next]_tvars
  PROVE  IInv'
<1>1. CASE tokenizer_next
  BY <1>1, BlankSteps, NewlineStep, PunctuationSteps, BlockSteps, ClosingSteps, WordSteps,
     NumberStep, StringSteps, LiteralSteps, OperatorStep DEF tokenizer_next
<1>2. CASE UNCHANGED tvars
  BY <1>2 DEF tvars, IInv, Place, TokensSound, Sound, TokenOK, InOrder, Behind, Floor, LineAgrees, SteppedOver, At, Text, End
<1>3. QED BY <1>1, <1>2

LEMMA InitInvariant ==
  ASSUME NEW s \in Sources, tokenizer_create(s)
  PROVE  IInv
<1>1. /\ src \in Seq(Char) /\ t.start = 1 /\ t.pos = 1 /\ t.line = 1 /\ mode = "code" /\ depth = 0
      /\ toks = <<>>
  BY SourceAssumption DEF tokenizer_create
<1>2. End \in Nat /\ End >= 1
  BY <1>1, AtFacts
<1>3. Place
  BY <1>1, <1>2 DEF Place
<1>4. TokensSound /\ InOrder /\ Behind
  BY <1>1, <1>2 DEF TokensSound, InOrder, Behind
<1>5. LineAgrees
  <2>1. {i \in 1..t.pos - 1 : At(i) = "\n" /\ ~SteppedOver(i)} = {}
    BY <1>1
  <2>2. QED BY <1>1, <2>1, FS_EmptySet DEF LineAgrees
<1>6. QED BY <1>3, <1>4, <1>5 DEF IInv

\* What every reachable state satisfies, with what was true of each token when
\* it was returned (tokenizer_next).
THEOREM TokenizerInvariant == TokenizerSpec => []IInv
<1>1. (\E s \in Sources : tokenizer_create(s)) => IInv
  BY InitInvariant
<1>2. IInv /\ [tokenizer_next]_tvars => IInv'
  BY StepPreserves
<1>3. QED BY <1>1, <1>2, PTL DEF TokenizerSpec

\* Whatever the source, the scan stays inside the buffer and its NUL but for one
\* place behind a literal that the end of the text cuts off; every token has a
\* stretch of the text of its own, and its characters (tokenizer_next, its scan
\* functions and make_token).
THEOREM TokenizerTypeOK == TokenizerSpec => []TypeOK
<1>1. ASSUME IInv PROVE TypeOK
  <2>1. Len(src) \in Nat /\ End = Len(src) + 1 /\ t.line \in 1..End
    BY <1>1, LineType, AtFacts DEF IInv, Place
  <2>2. depth \in 0..Len(src)
    BY <1>1, <2>1 DEF IInv, Place
  <2>3. QED BY <1>1, <2>1, <2>2 DEF IInv, Place, TypeOK, TokensSound, Sound, InOrder, Behind
<1>2. QED BY <1>1, TokenizerInvariant, PTL

\* The lines the tokens are reported on are those of the text, up to the newlines
\* scan_char and the branch for bytes above 127 step over.
THEOREM TokenizerLineAgrees == TokenizerSpec => []LineAgrees
<1>1. IInv => LineAgrees
  BY DEF IInv
<1>2. QED BY <1>1, TokenizerInvariant, PTL

\* No word and no operator could have been longer (scan_ident_or_keyword and the
\* operators of tokenizer_next).
THEOREM TokenizerLongestMatch == TokenizerSpec => []LongestMatch
<1>1. ASSUME IInv PROVE LongestMatch
  <2>1. src \in Seq(Char) /\ End = Len(src) + 1 /\ Len(src) \in Nat /\ Len(toks) \in Nat
    BY <1>1, AtFacts DEF IInv, Place
  <2>2. SUFFICES ASSUME NEW k \in 1..Len(toks) - 1, toks[k].type = "OP", toks[k + 1].type = "OP", Touching(k)
                 PROVE  toks[k].text \o toks[k + 1].text \notin Longer
    <3>1. ASSUME NEW k \in 1..Len(toks) - 1, toks[k].type \in {"IDENT", "KW"}
          PROVE  At(toks[k].end) \notin IdentContinue
      <4>1. k \in 1..Len(toks)
        BY <2>1
      <4>2. QED BY <1>1, <3>1, <4>1 DEF IInv, TokensSound, Sound
    <3>2. Spelled \ {<<"|", "|">>, <<"/", "=">>} \subseteq Longer
      BY DEF Spelled, Longer, TwoChar
    <3>3. QED BY <3>1, <3>2 DEF LongestMatch, Unsplit
  <2>3. Sound(toks[k]) /\ Sound(toks[k + 1])
    <3>1. k \in 1..Len(toks) /\ k + 1 \in 1..Len(toks)
      BY <2>1
    <3>2. QED BY <1>1, <3>1 DEF IInv, TokensSound
  <2> DEFINE a == toks[k].start
             b == toks[k].end
             c == toks[k + 1].end
  <2>4. /\ toks[k].text = Text(a, b) /\ toks[k + 1].text = Text(b, c)
        /\ \A m \in b + 1..End : Text(a, m) \notin Longer
        /\ a \in Nat /\ b \in Nat /\ c \in Nat /\ a >= 1 /\ a < b /\ b < c /\ c <= End
    BY <2>2, <2>3 DEF Sound, TokenOK, Touching
  <2> HIDE DEF a, b, c
  <2>5. Text(a, b) = SubSeq(src, a, b - 1) /\ Text(b, c) = SubSeq(src, b, c - 1)
        /\ Text(a, c) = SubSeq(src, a, c - 1)
    <3>1. /\ a \in 1..Len(src) /\ b \in 1..Len(src)
          /\ b \in a + 1..End /\ c \in b + 1..End /\ c \in a + 1..End
      BY <2>1, <2>4
    <3>2. QED BY <2>1, <3>1, TextFacts
  <2>6. SubSeq(src, a, b - 1) \o SubSeq(src, b, c - 1) = SubSeq(src, a, c - 1)
    <3>1. /\ a \in 1..Len(src) + 1 /\ b - 1 \in a - 1..Len(src) /\ c - 1 \in b - 1..Len(src)
          /\ (b - 1) + 1 = b
      BY <2>1, <2>4
    <3>2. SubSeq(src, a, b - 1) \o SubSeq(src, (b - 1) + 1, c - 1) = SubSeq(src, a, c - 1)
      BY <2>1, <3>1, ConcatAdjacentSubSeq
    <3>3. QED BY <3>1, <3>2
  <2>7. Text(a, c) \notin Longer
    BY <2>1, <2>4
  <2>8. QED BY <2>4, <2>5, <2>6, <2>7
<1>2. QED BY <1>1, TokenizerInvariant, PTL

----------------------------------------------------------------------------
(* The lexer.                                                              *)

\* The buffer invariant as a predicate on a Lexer struct.
BufferOK(l) ==
  /\ l \in LexerState
  /\ l.has_current <=> l.current # 0
  /\ l.has_next => l.has_current /\ l.next = l.pos
  /\ l.current <= EofAt /\ l.pos <= EofAt
  /\ IF l.has_next
     THEN l.pos = IF l.current < EofAt THEN l.current + 1 ELSE EofAt
     ELSE l.pos = l.current

\* The place behind token i, and the first place read from i.
After(i) == IF i < EofAt THEN i + 1 ELSE EofAt
Filled(i) == IF i = 0 THEN 1 ELSE i

LEMMA EofAtNat == ASSUME input \in Seq(Kinds) PROVE EofAt \in Nat /\ EofAt >= 1
BY DEF EofAt

\* lexer_advance moves `current' one place and keeps the buffer consistent.
LEMMA AdvanceFacts ==
  ASSUME input \in Seq(Kinds), NEW STATE l, BufferOK(l)
  PROVE  /\ BufferOK(lexer_advance(l))
         /\ lexer_advance(l).current = After(l.current)
         /\ lexer_advance(l).error_count = l.error_count
<1> DEFINE u == TokenizerNext(l)
<1>0. EofAt \in Nat /\ EofAt >= 1
  BY EofAtNat
<1>1. l \in LexerState
  BY DEF BufferOK
<1>2. CASE l.has_next
  <2>1. lexer_advance(l) = [l EXCEPT !.current = l.next, !.has_next = FALSE,
                                     !.has_current = TRUE]
    BY <1>2 DEF lexer_advance
  <2> DEFINE m == lexer_advance(l)
  <2>2. /\ m \in LexerState /\ m.current = l.next /\ m.next = l.next
        /\ m.pos = l.pos /\ m.error_count = l.error_count
        /\ m.has_next = FALSE /\ m.has_current = TRUE
    BY <1>1, <2>1 DEF LexerState
  <2>3. l.next = After(l.current) /\ l.next = l.pos /\ l.next # 0
    BY <1>0, <1>1, <1>2 DEF BufferOK, LexerState, After
  <2> HIDE DEF m
  <2>4. BufferOK(m)
    BY <1>0, <1>1, <2>2, <2>3 DEF BufferOK, LexerState
  <2>5. QED BY <2>2, <2>3, <2>4 DEF m
<1>3. CASE ~l.has_next
  <2>1. lexer_advance(l) = [l EXCEPT !.current = u, !.pos = u, !.has_current = TRUE]
    BY <1>3 DEF lexer_advance
  <2>2. u \in Nat /\ u # 0 /\ u <= EofAt /\ u = After(l.current)
    BY <1>0, <1>1, <1>3 DEF BufferOK, TokenizerNext, LexerState, After
  <2> HIDE DEF u
  <2>3. QED BY <1>0, <1>1, <1>3, <2>1, <2>2 DEF BufferOK, LexerState
<1>4. QED BY <1>2, <1>3

\* lexer_peek fills `current' and moves nothing else.
LEMMA PeekFacts ==
  ASSUME input \in Seq(Kinds), NEW STATE l, BufferOK(l)
  PROVE  /\ BufferOK(lexer_peek(l))
         /\ lexer_peek(l).current = Filled(l.current)
         /\ lexer_peek(l).has_current
         /\ lexer_peek(l).error_count = l.error_count
<1> DEFINE u == TokenizerNext(l)
<1>0. EofAt \in Nat /\ EofAt >= 1
  BY EofAtNat
<1>1. l \in LexerState
  BY DEF BufferOK
<1>2. CASE l.has_current
  BY <1>2, <1>1 DEF lexer_peek, Filled, BufferOK, LexerState
<1>3. CASE ~l.has_current
  <2>1. lexer_peek(l) = [l EXCEPT !.current = u, !.pos = u, !.has_current = TRUE]
    BY <1>3 DEF lexer_peek
  <2>2. u = 1 /\ l.current = 0 /\ ~l.has_next
    BY <1>0, <1>1, <1>3 DEF BufferOK, TokenizerNext, LexerState
  <2> HIDE DEF u
  <2> DEFINE m == lexer_peek(l)
  <2>3. /\ m \in LexerState /\ m.current = 1 /\ m.pos = 1
        /\ m.error_count = l.error_count
        /\ ~m.has_next /\ m.has_current
    <3>1. m = [l EXCEPT !.current = 1, !.pos = 1, !.has_current = TRUE]
      BY <2>1, <2>2
    <3> HIDE DEF m
    <3>2. m \in LexerState /\ m.has_next = l.has_next
      BY <1>1, <3>1 DEF LexerState
    <3>3. /\ m.current = 1 /\ m.pos = 1 /\ m.has_current = TRUE
          /\ m.error_count = l.error_count
      BY <1>1, <3>1 DEF LexerState
    <3>4. QED BY <2>2, <3>2, <3>3
  <2> HIDE DEF m
  <2>4. BufferOK(m)
    BY <1>0, <2>3 DEF BufferOK
  <2>5. QED BY <2>2, <2>3, <2>4 DEF m, Filled
<1>4. QED BY <1>2, <1>3

\* lexer_peek_next returns the token behind the current one, which stays.
LEMMA PeekNextFacts ==
  ASSUME input \in Seq(Kinds), NEW STATE l, BufferOK(l)
  PROVE  /\ BufferOK(lexer_peek_next(l))
         /\ lexer_peek_next(l).current = Filled(l.current)
         /\ lexer_peek_next(l).next = After(Filled(l.current))
<1> DEFINE m == lexer_peek(l)
<1>1. BufferOK(m) /\ m.current = Filled(l.current) /\ m.has_current
  BY PeekFacts
<1>2. lexer_peek_next(l) = IF m.has_next THEN m
        ELSE [m EXCEPT !.next = TokenizerNext(m), !.pos = TokenizerNext(m),
                       !.has_next = TRUE]
  BY DEF lexer_peek_next
<1> HIDE DEF m
<1>0. EofAt \in Nat /\ EofAt >= 1
  BY EofAtNat
<1>3. CASE m.has_next
  BY <1>0, <1>1, <1>2, <1>3 DEF BufferOK, LexerState, After
<1>4. CASE ~m.has_next
  <2> DEFINE u == TokenizerNext(m)
             n == lexer_peek_next(l)
  <2>1. n = [m EXCEPT !.next = u, !.pos = u, !.has_next = TRUE]
    BY <1>2, <1>4
  <2>2. u \in Nat /\ u <= EofAt /\ u = After(m.current)
    BY <1>0, <1>1, <1>4 DEF BufferOK, TokenizerNext, LexerState, After
  <2> HIDE DEF u, n
  <2>3. /\ n \in LexerState /\ n.current = m.current /\ n.next = u
        /\ n.pos = u /\ n.has_next = TRUE /\ n.has_current = TRUE
    BY <1>1, <2>1, <2>2 DEF BufferOK, LexerState
  <2>4. BufferOK(n)
    BY <1>0, <1>1, <2>2, <2>3 DEF BufferOK, LexerState, After
  <2>5. QED BY <1>1, <2>2, <2>3, <2>4 DEF n
<1>5. QED BY <1>3, <1>4

\* Counting an error leaves the buffer alone.
LEMMA CountFacts ==
  ASSUME NEW STATE l, BufferOK(l)
  PROVE  /\ BufferOK([l EXCEPT !.error_count = @ + 1])
         /\ [l EXCEPT !.error_count = @ + 1].current = l.current
BY DEF BufferOK, LexerState

LEMMA InvIsBufferOK == LexerInv <=> (LexerTypeOK /\ BufferOK(lexer))
BY DEF LexerInv, LexerTypeOK, Buffered, BufferOK

LEMMA FilledNat == ASSUME NEW i \in Nat PROVE Filled(i) \in Nat
BY DEF Filled

\* What one step does to `current' and the returned token: exactly one of the
\* cursor's operations, or nothing.
LEMMA StepFacts ==
  ASSUME LexerInv, [Next]_vars
  PROVE  /\ LexerInv'
         /\ [Cursor!CursorNext]_(Cursor!cursorVars)
<1> USE InvIsBufferOK DEF LexerTypeOK
<1> DEFINE c == lexer.current
<1>0. input \in Seq(Kinds) /\ BufferOK(lexer) /\ lexer \in LexerState
  OBVIOUS
<1>a. /\ Cursor!EofAt = EofAt
      /\ Cursor!Succ(c) = After(c)
      /\ Cursor!First(c) = Filled(c)
      /\ Cursor!Succ(Filled(c)) = After(Filled(c))
  BY DEF Cursor!EofAt, EofAt, Cursor!Succ, Cursor!First, After, Filled
<1>b. ASSUME NEW STATE l, BufferOK(l), lexer' = l, UNCHANGED input,
             ret' \in Nat, syncing' \subseteq Kinds
      PROVE  LexerInv'
  BY <1>0, <1>b DEF LexerInv, Buffered, BufferOK, EofAt
<1>1. CASE AdvanceCall
  <2>1. /\ BufferOK(lexer_advance(lexer)) /\ UNCHANGED input
        /\ lexer'.current = After(c) /\ ret' = c
    BY <1>1, <1>0, AdvanceFacts DEF AdvanceCall, Idle
  <2>2. LexerInv'
    BY <2>1, <1>1, <1>b, <1>0 DEF AdvanceCall, Idle, LexerState
  <2>3. QED BY <2>1, <2>2, <1>a DEF Cursor!CursorNext, Cursor!Advance
<1>2. CASE PeekCall
  <2>1. /\ BufferOK(lexer_peek(lexer)) /\ UNCHANGED input
        /\ lexer'.current = Filled(c) /\ ret' \in {lexer'.current, ret}
    BY <1>2, <1>0, PeekFacts DEF PeekCall, Idle
  <2>2. LexerInv'
    BY <2>1, <1>2, <1>b, <1>0, FilledNat DEF PeekCall, Idle, LexerState
  <2>3. QED
    BY <2>1, <2>2, <1>a DEF Cursor!CursorNext, Cursor!Peek, Cursor!Test
<1>3. CASE PeekNextCall
  <2>1. /\ BufferOK(lexer_peek_next(lexer)) /\ UNCHANGED input
        /\ lexer'.current = Filled(c) /\ ret' = After(Filled(c))
    BY <1>3, <1>0, PeekNextFacts DEF PeekNextCall, Idle
  <2>2. LexerInv'
    <3>1. ret' \in Nat
      <4>1. EofAt \in Nat
        BY <1>0, EofAtNat
      <4>2. c \in Nat
        BY <1>0 DEF LexerState
      <4>3. QED BY <2>1, <4>1, <4>2 DEF After, Filled
    <3>2. lexer' = lexer_peek_next(lexer) /\ UNCHANGED syncing
      BY <1>3 DEF PeekNextCall, Idle
    <3>3. QED BY <2>1, <3>1, <3>2, <1>b, <1>0
  <2>3. QED BY <2>1, <2>2, <1>a DEF Cursor!CursorNext, Cursor!PeekNext
<1>4. ASSUME NEW type \in Kinds \cup {EOF}, lexer_expect(type)
      PROVE  LexerInv' /\ Cursor!CursorNext
  <2> DEFINE l == lexer_peek(lexer)
  <2>1. BufferOK(l) /\ l.current = Filled(c)
    BY <1>0, PeekFacts
  <2>2. BufferOK(lexer_advance(l)) /\ lexer_advance(l).current = After(l.current)
    BY <2>1, <1>0, AdvanceFacts
  <2>3. /\ UNCHANGED <<input, ret, syncing>>
        /\ lexer' = l \/ lexer' = lexer_advance(l)
    BY <1>4 DEF lexer_expect, Idle
  <2> HIDE DEF l
  <2>4. LexerInv'
    <3>1. CASE lexer' = l
      BY <3>1, <2>1, <2>3, <1>b, <1>0
    <3>2. CASE lexer' = lexer_advance(l)
      BY <3>2, <2>2, <2>3, <1>b, <1>0
    <3>3. QED BY <2>3, <3>1, <3>2
  <2>5. QED BY <2>1, <2>2, <2>3, <2>4, <1>a DEF Cursor!CursorNext, Cursor!Test
<1>5. ASSUME NEW type \in Kinds \cup {EOF}, lexer_expect_or_error(type)
      PROVE  LexerInv' /\ Cursor!CursorNext
  <2> DEFINE l == lexer_peek(lexer)
             e == [l EXCEPT !.error_count = @ + 1]
  <2>1. BufferOK(l) /\ l.current = Filled(c)
    BY <1>0, PeekFacts
  <2>2. BufferOK(lexer_advance(l)) /\ lexer_advance(l).current = After(l.current)
    BY <2>1, <1>0, AdvanceFacts
  <2>3. BufferOK(e) /\ e.current = l.current
    BY <2>1, CountFacts
  <2>4. /\ UNCHANGED <<input, syncing>>
        /\ ret' = l.current
        /\ lexer' = lexer_advance(l) \/ lexer' = e
    BY <1>5 DEF lexer_expect_or_error, Idle
  <2>5. ret' \in Nat
    BY <2>4, <2>1 DEF BufferOK, LexerState
  <2> HIDE DEF l, e
  <2>6. LexerInv'
    <3>1. CASE lexer' = e
      BY <3>1, <2>3, <2>4, <2>5, <1>b, <1>0
    <3>2. CASE lexer' = lexer_advance(l)
      BY <3>2, <2>2, <2>4, <2>5, <1>b, <1>0
    <3>3. QED BY <2>4, <3>1, <3>2
  <2>7. QED
    BY <2>1, <2>2, <2>3, <2>4, <2>6, <1>a
    DEF Cursor!CursorNext, Cursor!Take, Cursor!Peek
<1>6. ASSUME NEW targets \in (SUBSET Kinds) \ {{}}, lexer_sync_to(targets)
      PROVE  LexerInv' /\ UNCHANGED Cursor!cursorVars
  <2>1. UNCHANGED <<input, lexer, ret>> /\ syncing' \subseteq Kinds
    BY <1>6 DEF lexer_sync_to
  <2>2. LexerInv'
    BY <2>1, <1>0, <1>b
  <2>3. QED BY <2>1, <2>2 DEF Cursor!cursorVars
<1>7. CASE SyncTurn
  <2> DEFINE l == lexer_peek(lexer)
  <2>1. BufferOK(l) /\ l.current = Filled(c)
    BY <1>0, PeekFacts
  <2>2. BufferOK(lexer_advance(l)) /\ lexer_advance(l).current = After(l.current)
    BY <2>1, <1>0, AdvanceFacts
  <2>3. /\ UNCHANGED <<input, ret>>
        /\ lexer' = l \/ lexer' = lexer_advance(l)
        /\ syncing' \in {{}, syncing}
    BY <1>7 DEF SyncTurn
  <2>4. l.current \in Nat
    BY <2>1 DEF BufferOK, LexerState
  <2> HIDE DEF l
  <2>5. LexerInv'
    <3>0. syncing' \subseteq Kinds /\ ret' \in Nat
      BY <2>3, <2>4, <1>0
    <3>1. CASE lexer' = l
      BY <3>0, <3>1, <2>1, <2>3, <1>b
    <3>2. CASE lexer' = lexer_advance(l)
      BY <3>0, <3>2, <2>2, <2>3, <1>b
    <3>3. QED BY <2>3, <3>1, <3>2
  <2>6. QED BY <2>1, <2>2, <2>3, <2>5, <1>a DEF Cursor!CursorNext, Cursor!Test
<1>8. CASE UNCHANGED vars
  <2>1. LexerInv'
    BY <1>8, <1>0, <1>b DEF vars
  <2>2. QED BY <1>8, <2>1 DEF vars, Cursor!cursorVars
<1>9. QED
  BY <1>1, <1>2, <1>3, <1>4, <1>5, <1>6, <1>7, <1>8 DEF Next

LEMMA InitFacts == Init => LexerInv /\ Cursor!CursorInit
BY EofAtNat DEF Init, lexer_create, LexerInv, LexerTypeOK, Buffered, LexerState,
   Cursor!CursorInit

\* The flags and the two buffered tokens always account for what the tokenizer
\* delivered, in every state of every run and for every input.
THEOREM LexerInvariant == Spec => []LexerInv
<1>1. Init => LexerInv
  BY InitFacts
<1>2. LexerInv /\ [Next]_vars => LexerInv'
  BY StepFacts
<1>3. QED BY <1>1, <1>2, PTL DEF Spec

\* lexer.c implements the token cursor: no interleaving of peeking, looking
\* ahead, expecting and synchronising loses, repeats or reorders a token.
THEOREM LexerImplementsCursor == Spec => DeliversInOrder
<1>1. Init => Cursor!CursorInit
  BY InitFacts
<1>2. LexerInv /\ [Next]_vars => [Cursor!CursorNext]_(Cursor!cursorVars)
  BY StepFacts
<1>3. QED
  BY <1>1, <1>2, LexerInvariant, PTL DEF Spec, DeliversInOrder, Cursor!CursorSpec
=============================================================================
