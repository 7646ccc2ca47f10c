--------------------------- MODULE StmtParserProofs ---------------------------
(***************************************************************************)
(* The bodies and parentheses the statement parser is in are the brackets  *)
(* that are open in the text it has consumed (StmtParser).                 *)
(***************************************************************************)
EXTENDS StmtParser, FunctionTheorems, FiniteSetTheorems, SequenceTheorems, TLAPS

\* The places that stand behind an open parenthesis.
InParens ==
  {"payload_kind", "skip", "pairs", "pair_end", "pair_value", "close_paren", "types",
   "types_more", "tuple", "catch_name", "spawn_args", "spawn_more", "region_name",
   "args", "args_more", "paren", "paren_null"}

\* The bodies that report the end of the text as an error.
Closers == {"block", "asm_decl"}

\* The places that occur in a block or asm declaration only.
Inner == {"stmt", "stmt_kw", "asm_stmt", "asm", "block_or_stmt", "region"}

Null == {"paren", "paren_null"}

After == {"infix", "infix_u"}

\* The places of the code at which a call may be pending.
Place ==
  {"alias", "alias_type", "any", "args", "args_more", "arm", "arm_arrow", "arm_first",
   "arm_more", "arm_next", "asm", "asm_decl", "asm_stmt", "asm_top", "attribute",
   "block", "block_or_stmt", "body", "braced", "catch", "catch_name", "catch_var",
   "catches", "close", "close_paren", "condition", "const", "const_value", "decl",
   "decl_kw", "decl_nl", "decl_pub", "else", "enum", "enum_body", "enum_open", "expr",
   "expr_u", "field", "for", "for_in", "for_second", "func", "func_body",
   "func_params", "func_pre", "func_throws", "if", "if_let", "if_open", "impl",
   "impl_for", "import", "infix", "infix_u", "init", "label", "let", "match_body",
   "match_open", "module", "module_body", "module_decl", "module_nl", "module_open",
   "more", "more_u", "pair_end", "pair_value", "pairs", "param_more", "params",
   "paren", "paren_null", "pattern", "payload", "payload_kind", "pool", "pool_number",
   "pool_of", "pool_part", "pool_word", "program", "program_nl", "protocol", "region",
   "region_name", "return", "return_type", "run", "run_open", "skip", "spawn",
   "spawn_args", "spawn_more", "spawn_open", "stmt", "stmt_kw", "struct",
   "struct_body", "struct_open", "trait", "trait_body", "trait_open", "tuple", "type",
   "type_params", "types", "types_more"}

\* What is below a place on the stack: below a parenthesis the call that goes on
\* behind it, and somewhere below a statement the block it is in.
Shape(st) ==
  \A i \in DOMAIN st :
    /\ st[i] \in Null => i > 1 /\ st[i - 1] \in After
    /\ st[i] \in Inner => \E j \in 1..i - 1 : st[j] \in Closers

Closes(st) == \E i \in DOMAIN st : st[i] \in Closers

TypeOK ==
  /\ stack \in Seq(Place)
  /\ depth \in Int /\ parens \in Int
  /\ errors \in {0, 1} /\ panic_mode \in BOOLEAN /\ loose \in BOOLEAN

\* The open brackets are those of the places on the stack.  Only an asm block may
\* leave its braces open at the end of the text; the block it is in reports it.
Balanced ==
  errors = 0 /\ ~loose =>
    /\ Count(stack, InParens) = parens
    /\ Count(stack, InBraces) = depth \/ (current = "EOF" /\ Closes(stack))

\* A missing expression has been reported, unless the text has ended.
Reported ==
  /\ panic_mode => errors = 1
  /\ Count(stack, {"paren_null"}) > 0 => errors = 1 \/ current = "EOF"

IInv == TypeOK /\ Shape(stack) /\ Balanced /\ Reported

----------------------------------------------------------------------------
(* Counting places.                                                        *)

W(place, S) == IF place \in S THEN 1 ELSE 0

\* The pending calls at some places can be counted.
LEMMA CountType ==
  ASSUME NEW s \in Seq(Place), NEW S
  PROVE  /\ IsFiniteSet({i \in DOMAIN s : s[i] \in S})
         /\ Count(s, S) \in Nat
         /\ Count(s, S) = 0 <=> \A i \in DOMAIN s : s[i] \notin S
<1> DEFINE T == {i \in DOMAIN s : s[i] \in S}
<1>1. Len(s) \in Nat /\ DOMAIN s = 1..Len(s)
  OBVIOUS
<1>2. IsFiniteSet(1..Len(s))
  BY <1>1, FS_Interval
<1>3. T \in SUBSET (1..Len(s))
  BY <1>1
<1>4. IsFiniteSet(T)
  BY <1>2, <1>3, FS_Subset
<1>5. Cardinality(T) \in Nat /\ (Cardinality(T) = 0 <=> T = {})
  BY <1>4, FS_CardinalityType, FS_EmptySet
<1>6. QED BY <1>4, <1>5 DEF Count

\* One more call.
LEMMA CountAppend ==
  ASSUME NEW s \in Seq(Place), NEW f \in Place, NEW S
  PROVE  Count(Append(s, f), S) = Count(s, S) + W(f, S)
<1> DEFINE a == Append(s, f)
           n == Len(s) + 1
           T == {i \in DOMAIN s : s[i] \in S}
           U == {i \in DOMAIN a : a[i] \in S}
<1>1. /\ Len(s) \in Nat /\ DOMAIN s = 1..Len(s) /\ DOMAIN a = 1..n
      /\ a[n] = f /\ \A i \in 1..Len(s) : a[i] = s[i]
  OBVIOUS
<1>2. IsFiniteSet(T) /\ Count(s, S) = Cardinality(T) /\ Cardinality(T) \in Nat
  BY CountType DEF Count
<1>3. Count(a, S) = Cardinality(U)
  BY DEF Count
<1> HIDE DEF a
<1>4. \A i \in 1..Len(s) : i \in U <=> i \in T
  BY <1>1
<1>5. n \notin T /\ (n \in U <=> f \in S)
  <2>1. n \notin DOMAIN s /\ n \in DOMAIN a
    BY <1>1
  <2>2. QED BY <1>1, <2>1
<1>6. T \subseteq 1..Len(s) /\ U \subseteq 1..n
  <2>1. DOMAIN s = 1..Len(s) /\ DOMAIN a = 1..n
    BY <1>1
  <2>2. QED BY <2>1
<1>7. \A i \in 1..n : i \in 1..Len(s) \/ i = n
  <2>1. Len(s) \in Nat
    BY <1>1
  <2>2. QED BY <2>1
<1> HIDE DEF T, U, n
<1>8. CASE f \in S
  <2>1. U = T \cup {n}
    BY <1>4, <1>5, <1>6, <1>7, <1>8
  <2>2. Cardinality(T \cup {n}) = Cardinality(T) + 1
    BY <1>2, <1>5, FS_AddElement
  <2>3. QED BY <1>2, <1>3, <1>8, <2>1, <2>2 DEF W, a
<1>9. CASE f \notin S
  <2>1. U = T
    BY <1>4, <1>5, <1>6, <1>7, <1>9
  <2>2. QED BY <1>2, <1>3, <1>9, <2>1 DEF W, a
<1>10. QED BY <1>8, <1>9

\* The innermost call, and those below it.
LEMMA TopFacts ==
  ASSUME NEW s \in Seq(Place), s # <<>>
  PROVE  /\ Front(s) \in Seq(Place) /\ Last(s) \in Place
         /\ s = Append(Front(s), Last(s))
         /\ Len(s) \in Nat /\ Len(s) >= 1 /\ Len(Front(s)) = Len(s) - 1
         /\ Last(s) = s[Len(s)]
         /\ \A i \in 1..Len(s) - 1 : Front(s)[i] = s[i]
         /\ \A S : Count(s, S) = Count(Front(s), S) + W(Last(s), S)
<1>1. Len(s) \in Nat /\ Len(s) >= 1 /\ DOMAIN s = 1..Len(s)
  BY EmptySeq
<1>2. /\ Front(s) \in Seq(Place) /\ Len(Front(s)) = Len(s) - 1
      /\ \A i \in 1..Len(s) - 1 : Front(s)[i] = s[i]
  BY <1>1, SubSeqProperties DEF Front
<1>3. Last(s) = s[Len(s)] /\ Last(s) \in Place
  BY <1>1 DEF Last
<1>4. s = Append(Front(s), Last(s))
  <2> DEFINE a == Append(Front(s), Last(s))
  <2>1. /\ a \in Seq(Place) /\ Len(a) = Len(Front(s)) + 1
        /\ \A i \in 1..Len(Front(s)) : a[i] = Front(s)[i]
        /\ a[Len(Front(s)) + 1] = Last(s)
    BY <1>2, <1>3, AppendProperties
  <2> HIDE DEF a
  <2>2. s = a
    <3>1. Len(s) = Len(a)
      BY <1>1, <1>2, <2>1
    <3>2. \A i \in 1..Len(s) : s[i] = a[i]
      BY <1>1, <1>2, <1>3, <2>1
    <3>3. QED BY <2>1, <3>1, <3>2, SeqEqual
  <2>3. QED BY <2>2 DEF a
<1>5. \A S : Count(s, S) = Count(Front(s), S) + W(Last(s), S)
  BY <1>2, <1>3, <1>4, CountAppend
<1>6. QED BY <1>1, <1>2, <1>3, <1>4, <1>5

LEMMA CountConcat ==
  ASSUME NEW s \in Seq(Place), NEW t \in Seq(Place), NEW S
  PROVE  Count(s \o t, S) = Count(s, S) + Count(t, S)
<1> DEFINE c == s \o t
           m == Len(s)
           A == {i \in DOMAIN s : s[i] \in S}
           B == {i \in DOMAIN t : t[i] \in S}
           C == {i \in DOMAIN c : c[i] \in S}
           D == {i \in C : i > m}
           shift == [i \in B |-> i + m]
<1>1. /\ m \in Nat /\ Len(t) \in Nat /\ DOMAIN s = 1..m /\ DOMAIN t = 1..Len(t)
      /\ c \in Seq(Place) /\ DOMAIN c = 1..m + Len(t)
      /\ \A i \in 1..m + Len(t) : c[i] = IF i <= m THEN s[i] ELSE t[i - m]
  BY ConcatProperties
<1>2. /\ IsFiniteSet(A) /\ IsFiniteSet(B) /\ Cardinality(A) \in Nat
      /\ Count(s, S) = Cardinality(A) /\ Count(t, S) = Cardinality(B)
  BY CountType DEF Count
<1>3. Count(c, S) = Cardinality(C)
  BY DEF Count
<1> HIDE DEF c, m
<1>4. A \cap D = {} /\ C = A \cup D
  BY <1>1
<1>5. ExistsBijection(B, D)
  <2>1. shift \in [B -> D]
    BY <1>1
  <2>2. \A i, j \in B : shift[i] = shift[j] => i = j
    BY <1>1
  <2>3. \A k \in D : \E i \in B : shift[i] = k
    <3> SUFFICES ASSUME NEW k \in D PROVE \E i \in B : shift[i] = k
      OBVIOUS
    <3>1. k - m \in B /\ (k - m) + m = k
      BY <1>1
    <3>2. QED BY <3>1
  <2>4. shift \in Bijection(B, D)
    BY <2>1, <2>2, <2>3, Fun_IsBij
  <2>5. QED BY <2>4 DEF ExistsBijection
<1> HIDE DEF A, B, C, D
<1>6. IsFiniteSet(D) /\ Cardinality(D) = Cardinality(B) /\ Cardinality(D) \in Nat
  BY <1>2, <1>5, FS_Bijection, FS_CardinalityType
<1>7. Cardinality(A \cup D) = Cardinality(A) + Cardinality(D) - Cardinality(A \cap D)
  BY <1>2, <1>6, FS_Union
<1>8. Cardinality(A \cap D) = 0
  BY <1>4, FS_EmptySet
<1>9. QED BY <1>2, <1>3, <1>4, <1>6, <1>7, <1>8 DEF c

\* The calls that one step leaves pending.
LEMMA CountTuples ==
  ASSUME NEW S
  PROVE  /\ Count(<<>>, S) = 0
         /\ \A a \in Place : Count(<<a>>, S) = W(a, S)
         /\ \A a, b \in Place : Count(<<a, b>>, S) = W(a, S) + W(b, S)
         /\ \A a, b, c \in Place :
              Count(<<a, b, c>>, S) = W(a, S) + W(b, S) + W(c, S)
         /\ \A a, b, c, d \in Place :
              Count(<<a, b, c, d>>, S) = W(a, S) + W(b, S) + W(c, S) + W(d, S)
<1>1. <<>> \in Seq(Place) /\ Count(<<>>, S) = 0
  <2>1. <<>> \in Seq(Place) /\ \A i \in DOMAIN <<>> : <<>>[i] \notin S
    OBVIOUS
  <2>2. QED BY <2>1, CountType
<1>2. \A a \in Place : <<a>> \in Seq(Place) /\ Count(<<a>>, S) = W(a, S)
  <2> SUFFICES ASSUME NEW a \in Place
               PROVE  <<a>> \in Seq(Place) /\ Count(<<a>>, S) = W(a, S)
    OBVIOUS
  <2>1. <<a>> \in Seq(Place)
    OBVIOUS
  <2>2. <<a>> = Append(<<>>, a)
    BY <1>1, <2>1, AppendIsConcat, ConcatEmptySeq
  <2>3. Count(Append(<<>>, a), S) = Count(<<>>, S) + W(a, S)
    BY <1>1, CountAppend
  <2>4. QED BY <1>1, <2>1, <2>2, <2>3 DEF W
<1>3. \A a, b \in Place :
         <<a, b>> \in Seq(Place) /\ Count(<<a, b>>, S) = W(a, S) + W(b, S)
  <2> SUFFICES ASSUME NEW a \in Place, NEW b \in Place
               PROVE  <<a, b>> \in Seq(Place) /\ Count(<<a, b>>, S) = W(a, S) + W(b, S)
    OBVIOUS
  <2> DEFINE e == <<a, b>>
             g == Append(<<a>>, b)
  <2>1. e \in Seq(Place) /\ Len(e) = 2 /\ e[1] = a /\ e[2] = b
    OBVIOUS
  <2>2. <<a>> \in Seq(Place) /\ Count(<<a>>, S) = W(a, S)
    BY <1>2
  <2>3. g \in Seq(Place) /\ Len(g) = 2 /\ g[1] = a /\ g[2] = b
    BY <2>2, AppendProperties
  <2>4. Count(g, S) = Count(<<a>>, S) + W(b, S)
    BY <2>2, CountAppend
  <2> HIDE DEF e, g
  <2>5. \A i \in 1..2 : e[i] = g[i]
    BY <2>1, <2>3
  <2>6. e = g
    BY <2>1, <2>3, <2>5, SeqEqual
  <2>7. QED BY <2>1, <2>2, <2>4, <2>6 DEF e
<1>4. \A a, b, c \in Place :
         <<a, b, c>> \in Seq(Place) /\ Count(<<a, b, c>>, S) = W(a, S) + W(b, S) + W(c, S)
  <2> SUFFICES ASSUME NEW a \in Place, NEW b \in Place, NEW c \in Place
               PROVE  <<a, b, c>> \in Seq(Place) /\ Count(<<a, b, c>>, S) = W(a, S) + W(b, S) + W(c, S)
    OBVIOUS
  <2> DEFINE e == <<a, b, c>>
             g == Append(<<a, b>>, c)
  <2>1. e \in Seq(Place) /\ Len(e) = 3 /\ e[1] = a /\ e[2] = b /\ e[3] = c
    OBVIOUS
  <2>2. <<a, b>> \in Seq(Place) /\ Count(<<a, b>>, S) = W(a, S) + W(b, S)
    BY <1>3
  <2>3. g \in Seq(Place) /\ Len(g) = 3 /\ g[1] = a /\ g[2] = b /\ g[3] = c
    BY <2>2, AppendProperties
  <2>4. Count(g, S) = Count(<<a, b>>, S) + W(c, S)
    BY <2>2, CountAppend
  <2> HIDE DEF e, g
  <2>5. \A i \in 1..3 : e[i] = g[i]
    BY <2>1, <2>3
  <2>6. e = g
    BY <2>1, <2>3, <2>5, SeqEqual
  <2>7. QED BY <2>1, <2>2, <2>4, <2>6 DEF e
<1>5. \A a, b, c, d \in Place :
         <<a, b, c, d>> \in Seq(Place) /\ Count(<<a, b, c, d>>, S) = W(a, S) + W(b, S) + W(c, S) + W(d, S)
  <2> SUFFICES ASSUME NEW a \in Place, NEW b \in Place, NEW c \in Place, NEW d \in Place
               PROVE  <<a, b, c, d>> \in Seq(Place) /\ Count(<<a, b, c, d>>, S) = W(a, S) + W(b, S) + W(c, S) + W(d, S)
    OBVIOUS
  <2> DEFINE e == <<a, b, c, d>>
             g == Append(<<a, b, c>>, d)
  <2>1. e \in Seq(Place) /\ Len(e) = 4 /\ e[1] = a /\ e[2] = b /\ e[3] = c /\ e[4] = d
    OBVIOUS
  <2>2. <<a, b, c>> \in Seq(Place) /\ Count(<<a, b, c>>, S) = W(a, S) + W(b, S) + W(c, S)
    BY <1>4
  <2>3. g \in Seq(Place) /\ Len(g) = 4 /\ g[1] = a /\ g[2] = b /\ g[3] = c /\ g[4] = d
    BY <2>2, AppendProperties
  <2>4. Count(g, S) = Count(<<a, b, c>>, S) + W(d, S)
    BY <2>2, CountAppend
  <2> HIDE DEF e, g
  <2>5. \A i \in 1..4 : e[i] = g[i]
    BY <2>1, <2>3
  <2>6. e = g
    BY <2>1, <2>3, <2>5, SeqEqual
  <2>7. QED BY <2>1, <2>2, <2>4, <2>6 DEF e
<1>6. QED BY <1>1, <1>2, <1>3, <1>4, <1>5

----------------------------------------------------------------------------
(* What the steps of the parser keep.                                      *)

\* Going on at the places `to' behind f keeps the shape of the stack, and opens b
\* braces and p parentheses.
Fits(f, to, b, p) ==
  /\ to \in Seq(Place)
  /\ \A k \in DOMAIN to :
       /\ to[k] \in Null => k > 1 /\ to[k - 1] \in After
       /\ to[k] \in Inner => f \in Inner \/ \E l \in 1..k - 1 : to[l] \in Closers
  /\ Count(to, InBraces) = W(f, InBraces) + b
  /\ Count(to, InParens) = W(f, InParens) + p
  /\ Count(to, {"paren_null"}) = 0

\* What is left of the stack below does not matter for a difference.
LEMMA Shift ==
  ASSUME NEW c \in Nat, NEW w \in Int, NEW x \in Int, NEW s, NEW t, NEW u,
         s = c + t, t = w + x, u = c + w
  PROVE  s = u + x
OBVIOUS

LEMMA GotoFacts ==
  ASSUME stack \in Seq(Place), Shape(stack),
         NEW f, At(f), NEW to, NEW b \in Int, NEW p \in Int, Fits(f, to, b, p), Goto(to)
  PROVE  /\ stack' \in Seq(Place) /\ Shape(stack')
         /\ Count(stack', InBraces) = Count(stack, InBraces) + b
         /\ Count(stack', InParens) = Count(stack, InParens) + p
         /\ Count(stack', {"paren_null"}) > 0 => Count(stack, {"paren_null"}) > 0
         /\ f \notin Closers /\ Closes(stack) => Closes(stack')
<1> DEFINE n == Len(stack)
           below == Front(stack)
           st == below \o to
<1>1. /\ f \in Place /\ stack[n] = f /\ n \in Nat /\ n >= 1
      /\ below \in Seq(Place) /\ Len(below) = n - 1 /\ \A i \in 1..n - 1 : below[i] = stack[i]
      /\ \A S : Count(stack, S) = Count(below, S) + W(f, S)
  BY TopFacts DEF At
<1>2. to \in Seq(Place) /\ Len(to) \in Nat /\ DOMAIN to = 1..Len(to)
  BY DEF Fits
<1>3. /\ st \in Seq(Place) /\ DOMAIN st = 1..n - 1 + Len(to)
      /\ \A i \in 1..n - 1 : st[i] = stack[i]
      /\ \A k \in 1..Len(to) : st[n - 1 + k] = to[k]
  <2>1. /\ below \in Seq(Place) /\ to \in Seq(Place) /\ Len(below) = n - 1
        /\ n \in Nat /\ n >= 1 /\ Len(to) \in Nat
    BY <1>1, <1>2
  <2>2. \A i \in 1..n - 1 : below[i] = stack[i]
    BY <1>1
  <2> HIDE DEF n, below
  <2>3. /\ st \in Seq(Place) /\ Len(st) = n - 1 + Len(to)
        /\ \A i \in 1..n - 1 + Len(to) : st[i] = IF i <= n - 1 THEN below[i] ELSE to[i - (n - 1)]
    <3>1. /\ st \in Seq(Place) /\ Len(st) = Len(below) + Len(to)
          /\ \A i \in 1..Len(below) + Len(to) :
               st[i] = IF i <= Len(below) THEN below[i] ELSE to[i - Len(below)]
      BY <2>1, ConcatProperties
    <3> HIDE DEF st
    <3>2. QED BY <2>1, <3>1
  <2> HIDE DEF st
  <2>4. DOMAIN st = 1..n - 1 + Len(to)
    BY <2>3
  <2>5. ASSUME NEW i \in 1..n - 1 PROVE st[i] = stack[i]
    <3>1. i \in 1..n - 1 + Len(to) /\ i <= n - 1
      BY <2>1
    <3>2. QED BY <2>2, <2>3, <3>1
  <2>6. ASSUME NEW k \in 1..Len(to) PROVE st[n - 1 + k] = to[k]
    <3> DEFINE i == n - 1 + k
    <3>1. i \in 1..n - 1 + Len(to) /\ ~(i <= n - 1) /\ i - (n - 1) = k
      BY <2>1
    <3> HIDE DEF i
    <3>2. st[i] = to[k]
      BY <2>3, <3>1
    <3>3. QED BY <3>2 DEF i
  <2>7. QED BY <2>3, <2>4, <2>5, <2>6
<1>4. \A S : Count(st, S) = Count(below, S) + Count(to, S) /\ Count(below, S) \in Nat
  <2> SUFFICES ASSUME NEW S
               PROVE  Count(st, S) = Count(below, S) + Count(to, S) /\ Count(below, S) \in Nat
    OBVIOUS
  <2>1. Count(st, S) = Count(below, S) + Count(to, S)
    BY <1>1, <1>2, CountConcat
  <2>2. Count(below, S) \in Nat
    BY <1>1, CountType
  <2>3. QED BY <2>1, <2>2
<1>5. stack' = st
  BY DEF Goto
<1> HIDE DEF n, below, st
<1>6. \A i \in DOMAIN st : i \in 1..n - 1 \/ \E k \in 1..Len(to) : i = n - 1 + k
  <2> SUFFICES ASSUME NEW i \in DOMAIN st, i \notin 1..n - 1
               PROVE  \E k \in 1..Len(to) : i = n - 1 + k
    OBVIOUS
  <2>1. i - (n - 1) \in 1..Len(to) /\ i = n - 1 + (i - (n - 1))
    BY <1>1, <1>2, <1>3
  <2>2. QED BY <2>1
<1>7. Shape(st)
  <2>1. ASSUME NEW i \in 1..n - 1
        PROVE  /\ st[i] \in Null => i > 1 /\ st[i - 1] \in After
               /\ st[i] \in Inner => \E j \in 1..i - 1 : st[j] \in Closers
    <3>1. i \in DOMAIN stack /\ st[i] = stack[i] /\ \A j \in 1..i - 1 : st[j] = stack[j]
      BY <1>1, <1>3 DEF n
    <3>2. i > 1 => st[i - 1] = stack[i - 1]
      BY <1>1, <1>3
    <3>3. QED BY <3>1, <3>2 DEF Shape
  <2>2. ASSUME NEW k \in 1..Len(to)
        PROVE  /\ to[k] \in Null => n - 1 + k > 1 /\ st[(n - 1 + k) - 1] \in After
               /\ to[k] \in Inner => \E j \in 1..(n - 1 + k) - 1 : st[j] \in Closers
    <3>1. ASSUME to[k] \in Null
          PROVE  n - 1 + k > 1 /\ st[(n - 1 + k) - 1] \in After
      <4>1. k > 1 /\ to[k - 1] \in After
        BY <1>2, <3>1 DEF Fits
      <4>2. k - 1 \in 1..Len(to) /\ (n - 1 + k) - 1 = n - 1 + (k - 1)
        BY <1>1, <1>2, <4>1
      <4>3. st[n - 1 + (k - 1)] = to[k - 1]
        BY <1>3, <4>2
      <4>4. QED BY <1>1, <4>1, <4>2, <4>3
    <3>2. ASSUME to[k] \in Inner
          PROVE  \E j \in 1..(n - 1 + k) - 1 : st[j] \in Closers
      <4>1. CASE f \in Inner
        <5>1. PICK j \in 1..n - 1 : stack[j] \in Closers
          BY <1>1, <4>1 DEF Shape, n
        <5>2. st[j] \in Closers /\ j \in 1..(n - 1 + k) - 1
          BY <1>1, <1>3, <5>1
        <5>3. QED BY <5>2
      <4>2. CASE f \notin Inner
        <5>1. PICK l \in 1..k - 1 : to[l] \in Closers
          BY <1>2, <3>2, <4>2 DEF Fits
        <5>2. l \in 1..Len(to) /\ n - 1 + l \in 1..(n - 1 + k) - 1
          BY <1>1, <1>2
        <5>3. st[n - 1 + l] \in Closers
          BY <1>3, <5>1, <5>2
        <5>4. QED BY <5>2, <5>3
      <4>3. QED BY <4>1, <4>2
    <3>3. QED BY <3>1, <3>2
  <2>3. ASSUME NEW i \in DOMAIN st
        PROVE  /\ st[i] \in Null => i > 1 /\ st[i - 1] \in After
               /\ st[i] \in Inner => \E j \in 1..i - 1 : st[j] \in Closers
    <3>1. CASE i \in 1..n - 1
      BY <2>1, <3>1
    <3>2. CASE i \notin 1..n - 1
      <4>1. PICK k \in 1..Len(to) : i = n - 1 + k
        BY <1>6, <3>2
      <4>2. /\ st[n - 1 + k] \in Null => n - 1 + k > 1 /\ st[(n - 1 + k) - 1] \in After
            /\ st[n - 1 + k] \in Inner => \E j \in 1..(n - 1 + k) - 1 : st[j] \in Closers
        <5>1. st[n - 1 + k] = to[k]
          BY <1>3
        <5>2. QED BY <2>2, <5>1
      <4> DEFINE m == n - 1 + k
      <4>3. i = m
        BY <4>1
      <4>4. /\ st[m] \in Null => m > 1 /\ st[m - 1] \in After
            /\ st[m] \in Inner => \E j \in 1..m - 1 : st[j] \in Closers
        BY <4>2
      <4> HIDE DEF m
      <4>5. QED BY <4>3, <4>4
    <3>3. QED BY <3>1, <3>2
  <2>4. QED BY <2>3 DEF Shape
<1>8. f \notin Closers /\ Closes(stack) => Closes(st)
  <2> SUFFICES ASSUME f \notin Closers, Closes(stack) PROVE Closes(st)
    OBVIOUS
  <2>1. PICK j \in DOMAIN stack : stack[j] \in Closers
    BY DEF Closes
  <2>2. j # n /\ j \in 1..n
    BY <1>1, <2>1 DEF n
  <2>3. j \in 1..n - 1 /\ j \in DOMAIN st
    BY <1>1, <1>2, <1>3, <2>2
  <2>4. QED BY <1>3, <2>1, <2>3 DEF Closes
<1>9. /\ Count(to, InBraces) = W(f, InBraces) + b
      /\ Count(to, InParens) = W(f, InParens) + p
      /\ Count(to, {"paren_null"}) = 0
      /\ W(f, {"paren_null"}) \in Nat /\ W(f, InBraces) \in Nat /\ W(f, InParens) \in Nat
  BY DEF Fits, W
<1>10. /\ Count(st, InBraces) = Count(stack, InBraces) + b
       /\ Count(st, InParens) = Count(stack, InParens) + p
       /\ Count(st, {"paren_null"}) > 0 => Count(stack, {"paren_null"}) > 0
  <2>1. Count(st, InBraces) = Count(stack, InBraces) + b
    <3>1. /\ Count(below, InBraces) \in Nat /\ W(f, InBraces) \in Nat
          /\ Count(st, InBraces) = Count(below, InBraces) + Count(to, InBraces)
      BY <1>4, <1>9
    <3>2. Count(stack, InBraces) = Count(below, InBraces) + W(f, InBraces)
      BY <1>1
    <3>3. Count(to, InBraces) = W(f, InBraces) + b
      BY <1>9
    <3>4. QED BY ONLY <3>1, <3>2, <3>3, b \in Int, Shift
  <2>2. Count(st, InParens) = Count(stack, InParens) + p
    <3>1. /\ Count(below, InParens) \in Nat /\ W(f, InParens) \in Int
          /\ Count(st, InParens) = Count(below, InParens) + Count(to, InParens)
      BY <1>4 DEF W
    <3>2. Count(stack, InParens) = Count(below, InParens) + W(f, InParens)
      BY <1>1
    <3>3. Count(to, InParens) = W(f, InParens) + p
      BY <1>9
    <3>4. QED BY ONLY <3>1, <3>2, <3>3, p \in Int, Shift
  <2>3. Count(st, {"paren_null"}) > 0 => Count(stack, {"paren_null"}) > 0
    <3>1. /\ Count(below, {"paren_null"}) \in Nat /\ W(f, {"paren_null"}) \in Nat
          /\ Count(st, {"paren_null"}) = Count(below, {"paren_null"}) + 0
      BY <1>4, <1>9
    <3>2. Count(stack, {"paren_null"}) = Count(below, {"paren_null"}) + W(f, {"paren_null"})
      BY <1>1
    <3>3. QED BY ONLY <3>1, <3>2
  <2>4. QED BY <2>1, <2>2, <2>3
<1>11. QED BY <1>3, <1>5, <1>7, <1>8, <1>10

LEMMA Fits0 ==
  ASSUME NEW b \in Int, NEW p \in Int, NEW f,
         0 = W(f, InBraces) + b,
         0 = W(f, InParens) + p
  PROVE  Fits(f, <<>>, b, p)
<1>1. <<>> \in Seq(Place) /\ DOMAIN <<>> = 1..0
  OBVIOUS
<1>2. ASSUME NEW S PROVE Count(<<>>, S) = 0
  BY CountTuples
<1>3. QED BY <1>1, <1>2 DEF Fits

LEMMA Fits1 ==
  ASSUME NEW b \in Int, NEW p \in Int, NEW f, NEW w \in Place,
         w \notin Null /\ (w \in Inner => f \in Inner),
         "paren_null" \notin {w},
         W(w, InBraces) = W(f, InBraces) + b,
         W(w, InParens) = W(f, InParens) + p
  PROVE  Fits(f, <<w>>, b, p)
<1>1. <<w>> \in Seq(Place) /\ DOMAIN <<w>> = 1..1
  OBVIOUS
<1>2. ASSUME NEW S PROVE Count(<<w>>, S) = W(w, S)
  BY CountTuples
<1>3. Count(<<w>>, {"paren_null"}) = 0
  BY <1>2 DEF W
<1>4. ASSUME NEW k \in 1..1
      PROVE  /\ <<w>>[k] \in Null => k > 1 /\ <<w>>[k - 1] \in After
             /\ <<w>>[k] \in Inner =>
                  f \in Inner \/ \E l \in 1..k - 1 : <<w>>[l] \in Closers
  BY <1>4
<1>5. QED BY <1>1, <1>2, <1>3, <1>4 DEF Fits

LEMMA Fits2 ==
  ASSUME NEW b \in Int, NEW p \in Int, NEW f, NEW w \in Place, NEW x \in Place,
         w \notin Null /\ (w \in Inner => f \in Inner),
         x \in Null => w \in After,
         x \in Inner => f \in Inner \/ w \in Closers,
         "paren_null" \notin {w, x},
         W(w, InBraces) + W(x, InBraces) = W(f, InBraces) + b,
         W(w, InParens) + W(x, InParens) = W(f, InParens) + p
  PROVE  Fits(f, <<w, x>>, b, p)
<1>1. <<w, x>> \in Seq(Place) /\ DOMAIN <<w, x>> = 1..2
  OBVIOUS
<1>2. ASSUME NEW S PROVE Count(<<w, x>>, S) = W(w, S) + W(x, S)
  BY CountTuples
<1>3. Count(<<w, x>>, {"paren_null"}) = 0
  BY <1>2 DEF W
<1>4. ASSUME NEW k \in 1..2
      PROVE  /\ <<w, x>>[k] \in Null => k > 1 /\ <<w, x>>[k - 1] \in After
             /\ <<w, x>>[k] \in Inner =>
                  f \in Inner \/ \E l \in 1..k - 1 : <<w, x>>[l] \in Closers
  <2>1. CASE k = 1
    BY <2>1
  <2>2. CASE k = 2
    BY <2>2
  <2>3. QED BY <2>1, <2>2
<1>5. QED BY <1>1, <1>2, <1>3, <1>4 DEF Fits

LEMMA Fits3 ==
  ASSUME NEW b \in Int, NEW p \in Int, NEW f, NEW w \in Place, NEW x \in Place, NEW y \in Place,
         w \notin Null /\ (w \in Inner => f \in Inner),
         x \in Null => w \in After,
         x \in Inner => f \in Inner \/ w \in Closers,
         y \in Null => x \in After,
         y \in Inner => f \in Inner \/ {w, x} \cap Closers # {},
         "paren_null" \notin {w, x, y},
         W(w, InBraces) + W(x, InBraces) + W(y, InBraces) = W(f, InBraces) + b,
         W(w, InParens) + W(x, InParens) + W(y, InParens) = W(f, InParens) + p
  PROVE  Fits(f, <<w, x, y>>, b, p)
<1>1. <<w, x, y>> \in Seq(Place) /\ DOMAIN <<w, x, y>> = 1..3
  OBVIOUS
<1>2. ASSUME NEW S PROVE Count(<<w, x, y>>, S) = W(w, S) + W(x, S) + W(y, S)
  <2>1. \A i, j, k \in Place : Count(<<i, j, k>>, S) = W(i, S) + W(j, S) + W(k, S)
    BY CountTuples, Zenon
  <2>2. QED BY <2>1
<1>3. Count(<<w, x, y>>, {"paren_null"}) = 0
  BY <1>2 DEF W
<1>4. ASSUME NEW k \in 1..3
      PROVE  /\ <<w, x, y>>[k] \in Null => k > 1 /\ <<w, x, y>>[k - 1] \in After
             /\ <<w, x, y>>[k] \in Inner =>
                  f \in Inner \/ \E l \in 1..k - 1 : <<w, x, y>>[l] \in Closers
  <2>1. CASE k = 1
    BY <2>1
  <2>2. CASE k = 2
    BY <2>2
  <2>3. CASE k = 3
    BY <2>3
  <2>4. QED BY <2>1, <2>2, <2>3
<1>5. QED BY <1>1, <1>2, <1>3, <1>4 DEF Fits

LEMMA Fits4 ==
  ASSUME NEW b \in Int, NEW p \in Int, NEW f, NEW w \in Place, NEW x \in Place, NEW y \in Place, NEW z \in Place,
         w \notin Null /\ (w \in Inner => f \in Inner),
         x \in Null => w \in After,
         x \in Inner => f \in Inner \/ w \in Closers,
         y \in Null => x \in After,
         y \in Inner => f \in Inner \/ {w, x} \cap Closers # {},
         z \in Null => y \in After,
         z \in Inner => f \in Inner \/ {w, x, y} \cap Closers # {},
         "paren_null" \notin {w, x, y, z},
         W(w, InBraces) + W(x, InBraces) + W(y, InBraces) + W(z, InBraces) = W(f, InBraces) + b,
         W(w, InParens) + W(x, InParens) + W(y, InParens) + W(z, InParens) = W(f, InParens) + p
  PROVE  Fits(f, <<w, x, y, z>>, b, p)
<1>1. <<w, x, y, z>> \in Seq(Place) /\ DOMAIN <<w, x, y, z>> = 1..4
  OBVIOUS
<1>2. ASSUME NEW S PROVE Count(<<w, x, y, z>>, S) = W(w, S) + W(x, S) + W(y, S) + W(z, S)
  <2>1. \A i, j, k, l \in Place :
          Count(<<i, j, k, l>>, S) = W(i, S) + W(j, S) + W(k, S) + W(l, S)
    BY CountTuples, Zenon
  <2>2. QED BY <2>1
<1>3. Count(<<w, x, y, z>>, {"paren_null"}) = 0
  BY <1>2 DEF W
<1>4. ASSUME NEW k \in 1..4
      PROVE  /\ <<w, x, y, z>>[k] \in Null => k > 1 /\ <<w, x, y, z>>[k - 1] \in After
             /\ <<w, x, y, z>>[k] \in Inner =>
                  f \in Inner \/ \E l \in 1..k - 1 : <<w, x, y, z>>[l] \in Closers
  <2>1. CASE k = 1
    BY <2>1
  <2>2. CASE k = 2
    BY <2>2
  <2>3. CASE k = 3
    BY <2>3
  <2>4. CASE k = 4
    BY <2>4
  <2>5. QED BY <2>1, <2>2, <2>3, <2>4
<1>5. QED BY <1>1, <1>2, <1>3, <1>4 DEF Fits

----------------------------------------------------------------------------
(* The kinds of steps.                                                     *)

\* Consuming a token is right when the places gone on at stand behind the bracket
\* it opens or closes.
LEMMA AdvanceStep ==
  ASSUME IInv, NEW f, At(f), NEW kinds, "EOF" \notin kinds, NEW to, Take(kinds, to),
         Fits(f, to, Brace(current), Paren(current))
  PROVE  IInv'
<1>1. /\ current # "EOF" /\ errors' = errors /\ panic_mode' = panic_mode /\ loose' = loose
      /\ depth' = depth + Brace(current) /\ parens' = parens + Paren(current) /\ Goto(to)
  BY DEF Take, parser_advance, NoError
<1>2. Brace(current) \in Int /\ Paren(current) \in Int
  BY DEF Brace, Paren
<1>3. /\ stack \in Seq(Place) /\ depth \in Int /\ parens \in Int
      /\ errors \in {0, 1} /\ panic_mode \in BOOLEAN /\ loose \in BOOLEAN
  BY DEF IInv, TypeOK
<1>4. /\ stack' \in Seq(Place) /\ Shape(stack')
      /\ Count(stack', InBraces) = Count(stack, InBraces) + Brace(current)
      /\ Count(stack', InParens) = Count(stack, InParens) + Paren(current)
      /\ Count(stack', {"paren_null"}) > 0 => Count(stack, {"paren_null"}) > 0
  BY <1>1, <1>2, <1>3, GotoFacts DEF IInv
<1>5. TypeOK'
  BY <1>1, <1>2, <1>3, <1>4 DEF TypeOK
<1>6. Shape(stack)'
  BY <1>4 DEF Shape
<1>7. Balanced'
  BY <1>1, <1>4 DEF IInv, Balanced
<1>8. Reported'
  BY <1>1, <1>4 DEF IInv, Reported
<1>9. QED BY <1>5, <1>6, <1>7, <1>8 DEF IInv
\* Tokens that are no brackets.
LEMMA TakeOneOfStep ==
  ASSUME IInv, NEW f, At(f), NEW kinds, \A k \in kinds : k \notin Brackets \cup {"EOF"},
         NEW to, Take(kinds, to), Fits(f, to, 0, 0)
  PROVE  IInv'
<1>1. current \notin Brackets /\ "EOF" \notin kinds
  BY DEF Take
<1>2. Brace(current) = 0 /\ Paren(current) = 0
  BY <1>1 DEF Brace, Paren, Brackets
<1>3. QED BY <1>1, <1>2, AdvanceStep

\* One token that is no bracket.
LEMMA TakeStep ==
  ASSUME IInv, NEW f, At(f), NEW k, k \notin Brackets, k # "EOF",
         NEW to, Take({k}, to), Fits(f, to, 0, 0)
  PROVE  IInv'
<1>1. \A l \in {k} : l \notin Brackets \cup {"EOF"}
  OBVIOUS
<1>2. QED BY <1>1, TakeOneOfStep

\* A bracket.
LEMMA TakeLBrace ==
  ASSUME IInv, NEW f, At(f), NEW to, Take({"LBRACE"}, to), Fits(f, to, 1, 0)
  PROVE  IInv'
<1>1. Brace(current) = 1 /\ Paren(current) = 0
  BY DEF Take, Brace, Paren
<1>2. QED BY <1>1, AdvanceStep

LEMMA TakeRBrace ==
  ASSUME IInv, NEW f, At(f), NEW to, Take({"RBRACE"}, to), Fits(f, to, -1, 0)
  PROVE  IInv'
<1>1. Brace(current) = -1 /\ Paren(current) = 0
  BY DEF Take, Brace, Paren
<1>2. QED BY <1>1, AdvanceStep

LEMMA TakeLParen ==
  ASSUME IInv, NEW f, At(f), NEW to, Take({"LPAREN"}, to), Fits(f, to, 0, 1)
  PROVE  IInv'
<1>1. Brace(current) = 0 /\ Paren(current) = 1
  BY DEF Take, Brace, Paren
<1>2. QED BY <1>1, AdvanceStep

LEMMA TakeRParen ==
  ASSUME IInv, NEW f, At(f), NEW to, Take({"RPAREN"}, to), Fits(f, to, 0, -1)
  PROVE  IInv'
<1>1. Brace(current) = 0 /\ Paren(current) = -1
  BY DEF Take, Brace, Paren
<1>2. QED BY <1>1, AdvanceStep

\* Going on in front of the token.  At the end of the text no body that reports it
\* may be left.
LEMMA PassStep ==
  ASSUME IInv, NEW f, At(f), NEW kinds, f \in Closers => "EOF" \in kinds,
         NEW to, Pass(kinds, to), Fits(f, to, 0, 0)
  PROVE  IInv'
<1>1. /\ current \notin kinds /\ current' = current /\ errors' = errors
      /\ panic_mode' = panic_mode /\ loose' = loose /\ depth' = depth /\ parens' = parens
      /\ Goto(to)
  BY DEF Pass, Stay, NoError
<1>2. stack \in Seq(Place) /\ Shape(stack) /\ depth \in Int /\ parens \in Int
  BY DEF IInv, TypeOK
<1>3. /\ stack' \in Seq(Place) /\ Shape(stack')
      /\ Count(stack', InBraces) = Count(stack, InBraces) + 0
      /\ Count(stack', InParens) = Count(stack, InParens) + 0
      /\ Count(stack', {"paren_null"}) > 0 => Count(stack, {"paren_null"}) > 0
      /\ f \notin Closers /\ Closes(stack) => Closes(stack')
  BY <1>1, <1>2, GotoFacts
<1>4. TypeOK'
  BY <1>1, <1>3 DEF IInv, TypeOK
<1>5. Shape(stack)'
  BY <1>3 DEF Shape
<1>6. Balanced'
  <2>1. Count(stack, InBraces) \in Nat /\ Count(stack, InParens) \in Nat
    BY <1>2, CountType
  <2>2. /\ Count(stack', InBraces) = Count(stack, InBraces)
        /\ Count(stack', InParens) = Count(stack, InParens)
    BY <1>3, <2>1
  <2>3. QED BY <1>1, <1>3, <2>2 DEF IInv, Balanced
<1>7. Reported'
  BY <1>1, <1>3 DEF IInv, Reported
<1>8. QED BY <1>4, <1>5, <1>6, <1>7 DEF IInv

\* Once an error is reported the brackets need not agree.
LEMMA ErrorStep ==
  ASSUME IInv, stack' \in Seq(Place), Shape(stack'), errors' = 1, panic_mode' \in BOOLEAN,
         loose' \in BOOLEAN, depth' \in Int, parens' \in Int
  PROVE  IInv'
<1>1. Shape(stack)'
  BY DEF Shape
<1>2. QED BY <1>1 DEF IInv, TypeOK, Balanced, Reported

\* A block that begins without `{' makes them differ, too.
LEMMA LooseStep ==
  ASSUME IInv, NEW f, At(f), NEW to, NEW b \in Int, NEW p \in Int, Fits(f, to, b, p), Goto(to),
         errors' = errors, panic_mode' = panic_mode, loose' = TRUE,
         depth' \in Int, parens' \in Int, current = "EOF" => current' = "EOF"
  PROVE  IInv'
<1>1. /\ stack' \in Seq(Place) /\ Shape(stack')
      /\ Count(stack', {"paren_null"}) > 0 => Count(stack, {"paren_null"}) > 0
  BY GotoFacts DEF IInv, TypeOK
<1>2. Shape(stack)'
  BY <1>1 DEF Shape
<1>3. QED BY <1>1, <1>2 DEF IInv, TypeOK, Balanced, Reported

LEMMA FailAnyStep ==
  ASSUME IInv, NEW f, At(f), NEW kinds, NEW to, NEW b \in Int, NEW p \in Int,
         Fits(f, to, b, p), Fail(kinds, to) \/ FailSkip(kinds, to)
  PROVE  IInv'
<1>1. Brace(current) \in Int /\ Paren(current) \in Int
  BY DEF Brace, Paren
<1>2. /\ Goto(to) /\ errors' = 1 /\ panic_mode' = TRUE /\ loose' = loose
      /\ depth' \in Int /\ parens' \in Int
  BY <1>1 DEF Fail, FailSkip, Stay, parser_error, parser_advance, IInv, TypeOK
<1>3. stack' \in Seq(Place) /\ Shape(stack')
  BY <1>2, GotoFacts DEF IInv, TypeOK
<1>4. QED BY <1>2, <1>3, ErrorStep DEF IInv, TypeOK

LEMMA FailStep ==
  ASSUME IInv, NEW f, At(f), NEW kinds, NEW to, Fail(kinds, to), Fits(f, to, 0, 0)
  PROVE  IInv'
BY FailAnyStep

LEMMA FailSkipStep ==
  ASSUME IInv, NEW f, At(f), NEW kinds, NEW to, FailSkip(kinds, to), Fits(f, to, 0, 0)
  PROVE  IInv'
BY FailAnyStep

\* Consuming any token.
LEMMA TakeAnyStep ==
  ASSUME IInv, NEW f, At(f), NEW kinds, f \in Closers => "EOF" \in kinds,
         NEW to, TakeAny(kinds, to), Fits(f, to, 0, 0)
  PROVE  IInv'
<1>1. /\ Brace(current) \in Int /\ Paren(current) \in Int
      /\ current \notin Brackets => Brace(current) = 0 /\ Paren(current) = 0
  BY DEF Brace, Paren, Brackets
<1>2. /\ errors' = errors /\ panic_mode' = panic_mode
      /\ loose' = (loose \/ current \in Brackets)
      /\ depth' = depth + Brace(current) /\ parens' = parens + Paren(current) /\ Goto(to)
      /\ current \notin kinds /\ (current = "EOF" => current' = "EOF")
  BY DEF TakeAny, parser_advance, NoError
<1>3. /\ stack \in Seq(Place) /\ Shape(stack) /\ depth \in Int /\ parens \in Int
      /\ loose \in BOOLEAN
  BY DEF IInv, TypeOK
<1>4. /\ stack' \in Seq(Place) /\ Shape(stack')
      /\ Count(stack', InBraces) = Count(stack, InBraces) + 0
      /\ Count(stack', InParens) = Count(stack, InParens) + 0
      /\ Count(stack', {"paren_null"}) > 0 => Count(stack, {"paren_null"}) > 0
      /\ f \notin Closers /\ Closes(stack) => Closes(stack')
  BY <1>2, <1>3, GotoFacts
<1>5. TypeOK'
  BY <1>1, <1>2, <1>3, <1>4 DEF IInv, TypeOK
<1>6. Shape(stack)'
  BY <1>4 DEF Shape
<1>7. Balanced'
  <2>1. Count(stack, InBraces) \in Nat /\ Count(stack, InParens) \in Nat
    BY <1>3, CountType
  <2>2. /\ Count(stack', InBraces) = Count(stack, InBraces)
        /\ Count(stack', InParens) = Count(stack, InParens)
    BY <1>4, <2>1
  <2>3. ~loose' => ~loose /\ current \notin Brackets
    BY <1>2, Zenon
  <2>4. ~loose' => ~loose /\ depth' = depth /\ parens' = parens
    BY <1>1, <1>2, <1>3, <2>3
  <2>5. QED BY <1>2, <1>4, <2>2, <2>4 DEF IInv, Balanced
<1>8. Reported'
  BY <1>2, <1>4 DEF IInv, Reported
<1>9. QED BY <1>5, <1>6, <1>7, <1>8 DEF IInv

\* A bracket that is expected and not there is reported.
LEMMA ExpectStep ==
  ASSUME IInv, NEW f, At(f), NEW kind, kind # "EOF", NEW to, parser_expect(kind, to),
         Fits(f, to, Brace(kind), Paren(kind))
  PROVE  IInv'
<1>1. CASE Take({kind}, to)
  <2>1. current = kind
    BY <1>1 DEF Take
  <2>2. QED BY <1>1, <2>1, AdvanceStep
<1>2. CASE Fail({kind}, to)
  <2>1. Brace(kind) \in Int /\ Paren(kind) \in Int
    BY DEF Brace, Paren
  <2>2. QED BY <1>2, <2>1, FailAnyStep
<1>3. QED BY <1>1, <1>2 DEF parser_expect

----------------------------------------------------------------------------
(* The functions of the parser.                                            *)

LEMMA ExpectRBrace ==
  ASSUME IInv, NEW f, At(f), NEW to, parser_expect("RBRACE", to), Fits(f, to, -1, 0)
  PROVE  IInv'
<1>1. Brace("RBRACE") = -1 /\ Paren("RBRACE") = 0
  BY DEF Brace, Paren
<1>2. QED BY <1>1, ExpectStep

LEMMA ExpectLParen ==
  ASSUME IInv, NEW f, At(f), NEW to, parser_expect("LPAREN", to), Fits(f, to, 0, 1)
  PROVE  IInv'
<1>1. Brace("LPAREN") = 0 /\ Paren("LPAREN") = 1
  BY DEF Brace, Paren
<1>2. QED BY <1>1, ExpectStep

LEMMA ExpectRParen ==
  ASSUME IInv, NEW f, At(f), NEW to, parser_expect("RPAREN", to), Fits(f, to, 0, -1)
  PROVE  IInv'
<1>1. Brace("RPAREN") = 0 /\ Paren("RPAREN") = -1
  BY DEF Brace, Paren
<1>2. QED BY <1>1, ExpectStep

\* A token that is no bracket.
LEMMA ExpectPlain ==
  ASSUME IInv, NEW f, At(f), NEW kind, kind \notin Brackets, kind # "EOF",
         NEW to, parser_expect(kind, to), Fits(f, to, 0, 0)
  PROVE  IInv'
<1>1. Brace(kind) = 0 /\ Paren(kind) = 0
  BY DEF Brace, Paren, Brackets
<1>2. QED BY <1>1, ExpectStep

\* Recovery does not count brackets: it runs after an error only.
LEMMA SyncStep ==
  ASSUME IInv, NEW f, f \notin Closers, NEW to, parser_sync(f, to),
         Fits(f, to, 0, 0), Fits(f, <<>>, 0, 0), Fits(f, <<f>>, 0, 0)
  PROVE  IInv'
<1>1. CASE At(f) /\ ~panic_mode /\ Pass({}, to)
  BY <1>1, PassStep
<1>2. CASE ~(~panic_mode /\ Pass({}, to))
  <2>1. /\ At(f) /\ panic_mode /\ errors' = errors /\ loose' = loose
        /\ Goto(<<>>) \/ Goto(to) \/ Goto(<<f>>)
        /\ panic_mode' \in BOOLEAN /\ (Stay \/ parser_advance)
    BY <1>2 DEF parser_sync, IInv, TypeOK
  <2>2. errors' = 1
    BY <2>1 DEF IInv, Reported
  <2>3. stack' \in Seq(Place) /\ Shape(stack')
    BY <2>1, GotoFacts DEF IInv, TypeOK
  <2>4. Brace(current) \in Int /\ Paren(current) \in Int
    BY DEF Brace, Paren
  <2>5. depth' \in Int /\ parens' \in Int
    BY <2>1, <2>4 DEF Stay, parser_advance, IInv, TypeOK
  <2>6. QED BY <2>1, <2>2, <2>3, <2>5, ErrorStep DEF IInv, TypeOK
<1>3. QED BY <1>1, <1>2 DEF parser_sync

\* Returning below a call.
LEMMA FrontFacts ==
  ASSUME NEW s \in Seq(Place), s # <<>>, Shape(s)
  PROVE  /\ Front(s) \in Seq(Place) /\ Shape(Front(s))
         /\ Last(s) \notin Closers /\ Closes(s) => Closes(Front(s))
         /\ Last(s) \in Null => Front(s) # <<>> /\ Last(Front(s)) \in After
         /\ Last(s) \in Inner => Closes(Front(s))
<1> DEFINE n == Len(s)
           r == Front(s)
<1>1. /\ r \in Seq(Place) /\ n \in Nat /\ n >= 1 /\ Len(r) = n - 1 /\ Last(s) = s[n]
      /\ \A i \in 1..n - 1 : r[i] = s[i]
  BY TopFacts
<1>2. DOMAIN s = 1..n /\ DOMAIN r = 1..n - 1
  BY <1>1
<1> HIDE DEF n, r
<1>3. Shape(r)
  <2>1. ASSUME NEW i \in 1..n - 1
        PROVE  /\ r[i] \in Null => i > 1 /\ r[i - 1] \in After
               /\ r[i] \in Inner => \E j \in 1..i - 1 : r[j] \in Closers
    <3>1. i \in DOMAIN s /\ r[i] = s[i] /\ \A j \in 1..i - 1 : r[j] = s[j]
      BY <1>1, <1>2
    <3>2. i > 1 => r[i - 1] = s[i - 1]
      BY <1>1
    <3>3. QED BY <3>1, <3>2 DEF Shape
  <2>2. QED BY <1>2, <2>1 DEF Shape
<1>4. Last(s) \notin Closers /\ Closes(s) => Closes(r)
  <2> SUFFICES ASSUME Last(s) \notin Closers, Closes(s) PROVE Closes(r)
    OBVIOUS
  <2>1. PICK j \in 1..n : s[j] \in Closers
    BY <1>2 DEF Closes
  <2>2. j \in 1..n - 1
    BY <1>1, <2>1
  <2>3. QED BY <1>1, <1>2, <2>1, <2>2 DEF Closes
<1>5. Last(s) \in Null => r # <<>> /\ Last(r) \in After
  <2> SUFFICES ASSUME Last(s) \in Null PROVE r # <<>> /\ Last(r) \in After
    OBVIOUS
  <2>1. n > 1 /\ s[n - 1] \in After
    BY <1>1, <1>2 DEF Shape
  <2>2. r # <<>>
    BY <1>1, <2>1
  <2>3. Last(r) = r[n - 1]
    BY <1>1, <2>2, TopFacts
  <2>4. QED BY <1>1, <2>1, <2>2, <2>3
<1>6. Last(s) \in Inner => Closes(r)
  <2> SUFFICES ASSUME Last(s) \in Inner PROVE Closes(r)
    OBVIOUS
  <2>1. PICK j \in 1..n - 1 : s[j] \in Closers
    BY <1>1, <1>2 DEF Shape
  <2>2. QED BY <1>1, <1>2, <2>1 DEF Closes
<1>7. QED BY <1>1, <1>3, <1>4, <1>5, <1>6 DEF r

LEMMA ReturnNullFacts ==
  ASSUME NEW s \in Seq(Place), Shape(s)
  PROVE  /\ ReturnNull(s) \in Seq(Place) /\ Shape(ReturnNull(s))
         /\ Count(ReturnNull(s), InBraces) = Count(s, InBraces)
         /\ Count(ReturnNull(s), InParens) = Count(s, InParens)
         /\ Closes(s) => Closes(ReturnNull(s))
<1>1. CASE ~(s # <<>> /\ Last(s) = "paren")
  BY <1>1 DEF ReturnNull
<1>2. CASE s # <<>> /\ Last(s) = "paren"
  <2> DEFINE n == Len(s)
             r == Append(Front(s), "paren_null")
  <2>1. "paren_null" \in Place
    BY DEF Place
  <2>2. /\ Front(s) \in Seq(Place) /\ n \in Nat /\ n >= 1 /\ Len(Front(s)) = n - 1
        /\ s[n] = "paren" /\ \A i \in 1..n - 1 : Front(s)[i] = s[i]
    BY <1>2, TopFacts
  <2>3. /\ r \in Seq(Place) /\ Len(r) = n - 1 + 1
        /\ \A i \in 1..n - 1 : r[i] = Front(s)[i]
        /\ r[n - 1 + 1] = "paren_null"
    BY <2>1, <2>2, AppendProperties
  <2>4. ASSUME NEW S PROVE Count(r, S) = Count(s, S) - W("paren", S) + W("paren_null", S)
    <3>1. Count(r, S) = Count(Front(s), S) + W("paren_null", S)
      BY <2>1, <2>2, CountAppend
    <3>2. Count(s, S) = Count(Front(s), S) + W("paren", S)
      BY <1>2, TopFacts
    <3>3. Count(Front(s), S) \in Nat /\ W("paren", S) \in Nat /\ W("paren_null", S) \in Nat
      BY <2>2, CountType DEF W
    <3>4. QED BY <3>1, <3>2, <3>3
  <2>5. ReturnNull(s) = r
    BY <1>2 DEF ReturnNull
  <2> HIDE DEF n, r
  <2>6. n - 1 + 1 = n /\ DOMAIN r = 1..n /\ DOMAIN s = 1..n
    BY <2>2, <2>3 DEF n
  <2>7. /\ \A i \in 1..n - 1 : r[i] = s[i]
        /\ r[n] = "paren_null"
    BY <2>2, <2>3, <2>6
  <2>8. Shape(r)
    <3>1. ASSUME NEW i \in 1..n - 1
          PROVE  /\ r[i] \in Null => i > 1 /\ r[i - 1] \in After
                 /\ r[i] \in Inner => \E j \in 1..i - 1 : r[j] \in Closers
      <4>1. i \in DOMAIN s /\ r[i] = s[i] /\ \A j \in 1..i - 1 : r[j] = s[j]
        BY <2>2, <2>6, <2>7
      <4>2. i > 1 => r[i - 1] = s[i - 1]
        BY <2>2, <2>7
      <4>3. QED BY <4>1, <4>2 DEF Shape
    <3>2. n > 1 /\ s[n - 1] \in After
      BY <2>2, <2>6 DEF Shape, Null
    <3>3. r[n - 1] \in After /\ r[n] \notin Inner
      BY <2>2, <2>7, <3>2 DEF Inner
    <3>4. \A i \in 1..n : i \in 1..n - 1 \/ i = n
      BY <2>2
    <3>5. QED BY <2>6, <3>1, <3>2, <3>3, <3>4 DEF Shape
  <2>9. Closes(s) => Closes(r)
    <3> SUFFICES ASSUME Closes(s) PROVE Closes(r)
      OBVIOUS
    <3>1. PICK j \in 1..n : s[j] \in Closers
      BY <2>6 DEF Closes
    <3>2. j \in 1..n - 1
      BY <2>2, <3>1 DEF Closers
    <3>3. j \in DOMAIN r /\ r[j] \in Closers
      BY <2>2, <2>6, <2>7, <3>1, <3>2
    <3>4. QED BY <3>3 DEF Closes
  <2>10. /\ W("paren", InBraces) = 0 /\ W("paren_null", InBraces) = 0
         /\ W("paren", InParens) = 1 /\ W("paren_null", InParens) = 1
    BY DEF W, InBraces, InParens
  <2>11. Count(s, InBraces) \in Nat /\ Count(s, InParens) \in Nat
    BY CountType
  <2>12. QED BY <2>3, <2>4, <2>5, <2>8, <2>9, <2>10, <2>11
<1>3. QED BY <1>1, <1>2

----------------------------------------------------------------------------
(* The places: in no brackets of their own, in a body, in parentheses, and *)
(* in a statement.                                                         *)

Plain == Place \ (InBraces \cup InParens \cup Inner)
Body == InBraces \ Inner
Arg == InParens \ Null
Inside == Inner \ InBraces

LEMMA PlaceFacts ==
  /\ \A f \in Plain : /\ f \in Place \ (Closers \cup Null \cup Inner)
                      /\ W(f, InBraces) = 0 /\ W(f, InParens) = 0
  /\ \A f \in Body : /\ f \in Place \ (Null \cup Inner)
                     /\ W(f, InBraces) = 1 /\ W(f, InParens) = 0
  /\ \A f \in Arg : /\ f \in Place \ (Closers \cup Null \cup Inner)
                    /\ W(f, InBraces) = 0 /\ W(f, InParens) = 1
  /\ \A f \in Inside : /\ f \in Place \ (Closers \cup Null) /\ f \in Inner
                       /\ W(f, InBraces) = 0 /\ W(f, InParens) = 0
  /\ "paren_null" \in Null
<1>1. \A f \in Plain : /\ f \in Place \ (Closers \cup Null \cup Inner)
                       /\ W(f, InBraces) = 0 /\ W(f, InParens) = 0
  BY DEF Plain, W, Closers, Null, InBraces, InParens
<1>2. \A f \in Body : /\ f \in Place \ (Null \cup Inner)
                      /\ W(f, InBraces) = 1 /\ W(f, InParens) = 0
  BY DEF Body, W, Null, InBraces, InParens, Place
<1>3. \A f \in Arg : /\ f \in Place \ (Closers \cup Null \cup Inner)
                     /\ W(f, InBraces) = 0 /\ W(f, InParens) = 1
  BY DEF Arg, W, Null, InBraces, InParens, Place, Closers, Inner
<1>4. \A f \in Inside : /\ f \in Place \ (Closers \cup Null) /\ f \in Inner
                        /\ W(f, InBraces) = 0 /\ W(f, InParens) = 0
  BY DEF Inside, W, Null, InBraces, InParens, Place, Closers, Inner
<1>5. "paren_null" \in Null
  BY DEF Null
<1>6. QED BY <1>1, <1>2, <1>3, <1>4, <1>5

\* Going on outside of brackets.
LEMMA PlainFits ==
  /\ \A f \in Plain : f \notin Closers
  /\ \A f \in Plain : Fits(f, <<>>, 0, 0)
  /\ \A f, w \in Plain : Fits(f, <<w>>, 0, 0)
  /\ \A f, w, x \in Plain : Fits(f, <<w, x>>, 0, 0)
  /\ \A f, w, x, y \in Plain : Fits(f, <<w, x, y>>, 0, 0)
<1>1. ASSUME NEW f \in Plain
      PROVE  Fits(f, <<>>, 0, 0)
  BY PlaceFacts, Fits0
<1>2. ASSUME NEW f \in Plain, NEW w \in Plain
      PROVE  Fits(f, <<w>>, 0, 0)
  <2>1. /\ "paren_null" \notin {w}
        /\ W(w, InBraces) = W(f, InBraces) + 0
        /\ W(w, InParens) = W(f, InParens) + 0
    BY PlaceFacts
  <2>2. /\ w \in Place /\ w \notin Null /\ w \notin Inner
    BY PlaceFacts
  <2>3. QED BY <2>1, <2>2, Fits1
<1>3. ASSUME NEW f \in Plain, NEW w \in Plain, NEW x \in Plain
      PROVE  Fits(f, <<w, x>>, 0, 0)
  <2>1. /\ "paren_null" \notin {w, x}
        /\ W(w, InBraces) + W(x, InBraces) = W(f, InBraces) + 0
        /\ W(w, InParens) + W(x, InParens) = W(f, InParens) + 0
    BY PlaceFacts
  <2>2. /\ w \in Place /\ w \notin Null /\ w \notin Inner
        /\ x \in Place /\ x \notin Null /\ x \notin Inner
    BY PlaceFacts
  <2>3. QED BY <2>1, <2>2, Fits2
<1>4. ASSUME NEW f \in Plain, NEW w \in Plain, NEW x \in Plain, NEW y \in Plain
      PROVE  Fits(f, <<w, x, y>>, 0, 0)
  <2>1. /\ "paren_null" \notin {w, x, y}
        /\ W(w, InBraces) + W(x, InBraces) + W(y, InBraces) = W(f, InBraces) + 0
        /\ W(w, InParens) + W(x, InParens) + W(y, InParens) = W(f, InParens) + 0
    BY PlaceFacts
  <2>2. /\ w \in Place /\ w \notin Null /\ w \notin Inner
        /\ x \in Place /\ x \notin Null /\ x \notin Inner
        /\ y \in Place /\ y \notin Null /\ y \notin Inner
    BY PlaceFacts
  <2>3. QED BY <2>1, <2>2, Fits3
<1>5. \A f \in Plain : f \notin Closers
  BY PlaceFacts
<1>6. QED BY <1>1, <1>2, <1>3, <1>4, <1>5

\* Opening a body, going on in it and leaving it.
LEMMA BodyFits ==
  /\ \A f \in Plain, g \in Body : Fits(f, <<g>>, 1, 0)
  /\ \A f, w \in Plain, g \in Body : Fits(f, <<w, g>>, 1, 0)
  /\ \A g \in Body : Fits(g, <<>>, -1, 0)
  /\ \A g, h \in Body : Fits(g, <<h>>, 0, 0)
  /\ \A g, h \in Body, w \in Plain : Fits(g, <<h, w>>, 0, 0)
<1>1. ASSUME NEW f \in Plain, NEW g \in Body
      PROVE  Fits(f, <<g>>, 1, 0)
  <2>1. /\ "paren_null" \notin {g}
        /\ W(g, InBraces) = W(f, InBraces) + 1
        /\ W(g, InParens) = W(f, InParens) + 0
    BY PlaceFacts
  <2>2. /\ g \in Place /\ g \notin Null /\ g \notin Inner
    BY PlaceFacts
  <2>3. QED BY <2>1, <2>2, Fits1
<1>2. ASSUME NEW f \in Plain, NEW w \in Plain, NEW g \in Body
      PROVE  Fits(f, <<w, g>>, 1, 0)
  <2>1. /\ "paren_null" \notin {w, g}
        /\ W(w, InBraces) + W(g, InBraces) = W(f, InBraces) + 1
        /\ W(w, InParens) + W(g, InParens) = W(f, InParens) + 0
    BY PlaceFacts
  <2>2. /\ w \in Place /\ w \notin Null /\ w \notin Inner
        /\ g \in Place /\ g \notin Null /\ g \notin Inner
    BY PlaceFacts
  <2>3. QED BY <2>1, <2>2, Fits2
<1>3. ASSUME NEW g \in Body
      PROVE  Fits(g, <<>>, -1, 0)
  <2>1. 0 = W(g, InBraces) + -1 /\ 0 = W(g, InParens) + 0
    BY PlaceFacts
  <2>2. QED BY <2>1, Fits0
<1>4. ASSUME NEW g \in Body, NEW h \in Body
      PROVE  Fits(g, <<h>>, 0, 0)
  <2>1. /\ "paren_null" \notin {h}
        /\ W(h, InBraces) = W(g, InBraces) + 0
        /\ W(h, InParens) = W(g, InParens) + 0
    BY PlaceFacts
  <2>2. /\ h \in Place /\ h \notin Null /\ h \notin Inner
    BY PlaceFacts
  <2>3. QED BY <2>1, <2>2, Fits1
<1>5. ASSUME NEW g \in Body, NEW h \in Body, NEW w \in Plain
      PROVE  Fits(g, <<h, w>>, 0, 0)
  <2>1. /\ "paren_null" \notin {h, w}
        /\ W(h, InBraces) + W(w, InBraces) = W(g, InBraces) + 0
        /\ W(h, InParens) + W(w, InParens) = W(g, InParens) + 0
    BY PlaceFacts
  <2>2. /\ h \in Place /\ h \notin Null /\ h \notin Inner
        /\ w \in Place /\ w \notin Null /\ w \notin Inner
    BY PlaceFacts
  <2>3. QED BY <2>1, <2>2, Fits2
<1>6. QED BY <1>1, <1>2, <1>3, <1>4, <1>5

\* The same for parentheses.
LEMMA ArgFits ==
  /\ \A g \in Arg : g \notin Closers
  /\ \A f \in Plain, g \in Arg : Fits(f, <<g>>, 0, 1)
  /\ \A f, w \in Plain, g \in Arg : Fits(f, <<w, g>>, 0, 1)
  /\ \A f \in Plain, g \in Arg, w \in Plain : Fits(f, <<g, w>>, 0, 1)
  /\ \A g \in Arg : Fits(g, <<>>, 0, -1)
  /\ \A g, h \in Arg : Fits(g, <<h>>, 0, 0)
  /\ \A g, h \in Arg, w \in Plain : Fits(g, <<h, w>>, 0, 0)
<1>1. ASSUME NEW f \in Plain, NEW g \in Arg
      PROVE  Fits(f, <<g>>, 0, 1)
  <2>1. /\ "paren_null" \notin {g}
        /\ W(g, InBraces) = W(f, InBraces) + 0
        /\ W(g, InParens) = W(f, InParens) + 1
    BY PlaceFacts
  <2>2. /\ g \in Place /\ g \notin Null /\ g \notin Inner
    BY PlaceFacts
  <2>3. QED BY <2>1, <2>2, Fits1
<1>2. ASSUME NEW f \in Plain, NEW w \in Plain, NEW g \in Arg
      PROVE  Fits(f, <<w, g>>, 0, 1)
  <2>1. /\ "paren_null" \notin {w, g}
        /\ W(w, InBraces) + W(g, InBraces) = W(f, InBraces) + 0
        /\ W(w, InParens) + W(g, InParens) = W(f, InParens) + 1
    BY PlaceFacts
  <2>2. /\ w \in Place /\ w \notin Null /\ w \notin Inner
        /\ g \in Place /\ g \notin Null /\ g \notin Inner
    BY PlaceFacts
  <2>3. QED BY <2>1, <2>2, Fits2
<1>3. ASSUME NEW f \in Plain, NEW g \in Arg, NEW w \in Plain
      PROVE  Fits(f, <<g, w>>, 0, 1)
  <2>1. /\ "paren_null" \notin {g, w}
        /\ W(g, InBraces) + W(w, InBraces) = W(f, InBraces) + 0
        /\ W(g, InParens) + W(w, InParens) = W(f, InParens) + 1
    BY PlaceFacts
  <2>2. /\ g \in Place /\ g \notin Null /\ g \notin Inner
        /\ w \in Place /\ w \notin Null /\ w \notin Inner
    BY PlaceFacts
  <2>3. QED BY <2>1, <2>2, Fits2
<1>4. ASSUME NEW g \in Arg
      PROVE  Fits(g, <<>>, 0, -1)
  <2>1. 0 = W(g, InBraces) + 0 /\ 0 = W(g, InParens) + -1
    BY PlaceFacts
  <2>2. QED BY <2>1, Fits0
<1>5. ASSUME NEW g \in Arg, NEW h \in Arg
      PROVE  Fits(g, <<h>>, 0, 0)
  <2>1. /\ "paren_null" \notin {h}
        /\ W(h, InBraces) = W(g, InBraces) + 0
        /\ W(h, InParens) = W(g, InParens) + 0
    BY PlaceFacts
  <2>2. /\ h \in Place /\ h \notin Null /\ h \notin Inner
    BY PlaceFacts
  <2>3. QED BY <2>1, <2>2, Fits1
<1>6. ASSUME NEW g \in Arg, NEW h \in Arg, NEW w \in Plain
      PROVE  Fits(g, <<h, w>>, 0, 0)
  <2>1. /\ "paren_null" \notin {h, w}
        /\ W(h, InBraces) + W(w, InBraces) = W(g, InBraces) + 0
        /\ W(h, InParens) + W(w, InParens) = W(g, InParens) + 0
    BY PlaceFacts
  <2>2. /\ h \in Place /\ h \notin Null /\ h \notin Inner
        /\ w \in Place /\ w \notin Null /\ w \notin Inner
    BY PlaceFacts
  <2>3. QED BY <2>1, <2>2, Fits2
<1>7. \A g \in Arg : g \notin Closers
  BY PlaceFacts
<1>8. QED BY <1>1, <1>2, <1>3, <1>4, <1>5, <1>6, <1>7

\* Going on in a statement.
LEMMA InsideFits ==
  /\ \A f \in Inside : f \notin Closers
  /\ \A f \in Inside : Fits(f, <<>>, 0, 0)
  /\ \A f, g \in Inside : Fits(f, <<g>>, 0, 0)
  /\ \A f \in Inside, w \in Plain : Fits(f, <<w>>, 0, 0)
  /\ \A f, g \in Inside, w \in Plain : Fits(f, <<g, w>>, 0, 0)
  /\ \A f \in Inside, w, x \in Plain : Fits(f, <<w, x>>, 0, 0)
  /\ \A f \in Inside, h \in Body : Fits(f, <<h>>, 1, 0)
  /\ \A f, g \in Inside, h \in Arg : Fits(f, <<g, h>>, 0, 1)
<1>1. ASSUME NEW f \in Inside
      PROVE  Fits(f, <<>>, 0, 0)
  BY PlaceFacts, Fits0
<1>2. ASSUME NEW f \in Inside, NEW g \in Inside
      PROVE  Fits(f, <<g>>, 0, 0)
  <2>1. /\ "paren_null" \notin {g}
        /\ W(g, InBraces) = W(f, InBraces) + 0
        /\ W(g, InParens) = W(f, InParens) + 0
    BY PlaceFacts
  <2>2. /\ g \in Place /\ g \notin Null
        /\ f \in Inner
    BY PlaceFacts
  <2>3. QED BY <2>1, <2>2, Fits1
<1>3. ASSUME NEW f \in Inside, NEW w \in Plain
      PROVE  Fits(f, <<w>>, 0, 0)
  <2>1. /\ "paren_null" \notin {w}
        /\ W(w, InBraces) = W(f, InBraces) + 0
        /\ W(w, InParens) = W(f, InParens) + 0
    BY PlaceFacts
  <2>2. /\ w \in Place /\ w \notin Null /\ w \notin Inner
        /\ f \in Inner
    BY PlaceFacts
  <2>3. QED BY <2>1, <2>2, Fits1
<1>4. ASSUME NEW f \in Inside, NEW g \in Inside, NEW w \in Plain
      PROVE  Fits(f, <<g, w>>, 0, 0)
  <2>1. /\ "paren_null" \notin {g, w}
        /\ W(g, InBraces) + W(w, InBraces) = W(f, InBraces) + 0
        /\ W(g, InParens) + W(w, InParens) = W(f, InParens) + 0
    BY PlaceFacts
  <2>2. /\ g \in Place /\ g \notin Null
        /\ w \in Place /\ w \notin Null /\ w \notin Inner
        /\ f \in Inner
    BY PlaceFacts
  <2>3. QED BY <2>1, <2>2, Fits2
<1>5. ASSUME NEW f \in Inside, NEW w \in Plain, NEW x \in Plain
      PROVE  Fits(f, <<w, x>>, 0, 0)
  <2>1. /\ "paren_null" \notin {w, x}
        /\ W(w, InBraces) + W(x, InBraces) = W(f, InBraces) + 0
        /\ W(w, InParens) + W(x, InParens) = W(f, InParens) + 0
    BY PlaceFacts
  <2>2. /\ w \in Place /\ w \notin Null /\ w \notin Inner
        /\ x \in Place /\ x \notin Null /\ x \notin Inner
        /\ f \in Inner
    BY PlaceFacts
  <2>3. QED BY <2>1, <2>2, Fits2
<1>6. ASSUME NEW f \in Inside, NEW h \in Body
      PROVE  Fits(f, <<h>>, 1, 0)
  <2>1. /\ "paren_null" \notin {h}
        /\ W(h, InBraces) = W(f, InBraces) + 1
        /\ W(h, InParens) = W(f, InParens) + 0
    BY PlaceFacts
  <2>2. /\ h \in Place /\ h \notin Null /\ h \notin Inner
        /\ f \in Inner
    BY PlaceFacts
  <2>3. QED BY <2>1, <2>2, Fits1
<1>7. ASSUME NEW f \in Inside, NEW g \in Inside, NEW h \in Arg
      PROVE  Fits(f, <<g, h>>, 0, 1)
  <2>1. /\ "paren_null" \notin {g, h}
        /\ W(g, InBraces) + W(h, InBraces) = W(f, InBraces) + 0
        /\ W(g, InParens) + W(h, InParens) = W(f, InParens) + 1
    BY PlaceFacts
  <2>2. /\ g \in Place /\ g \notin Null
        /\ h \in Place /\ h \notin Null /\ h \notin Inner
        /\ f \in Inner
    BY PlaceFacts
  <2>3. QED BY <2>1, <2>2, Fits2
<1>8. \A f \in Inside : f \notin Closers
  BY PlaceFacts
<1>9. QED BY <1>1, <1>2, <1>3, <1>4, <1>5, <1>6, <1>7, <1>8

\* Where none of these fits.
LEMMA SpecialFits ==
  /\ Fits("asm_stmt", <<"asm">>, 1, 0)
  /\ Fits("asm", <<"asm">>, 0, 0)
  /\ Fits("asm", <<>>, -1, 0)
  /\ Fits("asm", <<"asm", "asm">>, 1, 0)
  /\ Fits("asm_decl", <<"asm_decl", "asm">>, 1, 0)
  /\ Fits("block", <<"block", "stmt">>, 0, 0)
  /\ Fits("expr", <<"infix", "paren", "expr">>, 0, 1)
  /\ Fits("expr_u", <<"infix_u", "paren", "expr">>, 0, 1)
  /\ Fits("paren", <<>>, 0, -1)
  /\ Fits("func_params", <<"func_throws", "return_type", "close_paren", "params">>, 0, 1)
<1>1. Fits("asm_stmt", <<"asm">>, 1, 0)
  <2>1. /\ W("asm_stmt", InBraces) = 0 /\ W("asm_stmt", InParens) = 0
        /\ W("asm", InBraces) = 1 /\ W("asm", InParens) = 0
    BY DEF W, InBraces, InParens
  <2>2. /\ "asm" \in Place /\ "asm" \notin Null /\ "asm" \in Inner
        /\ "asm_stmt" \in Inner
    BY DEF Place, Null, Inner, Closers, After
  <2>3. "paren_null" \notin {"asm"}
    OBVIOUS
  <2>4. QED BY <2>1, <2>2, <2>3, Fits1
<1>2. Fits("asm", <<"asm">>, 0, 0)
  <2>1. /\ W("asm", InBraces) = 1 /\ W("asm", InParens) = 0
    BY DEF W, InBraces, InParens
  <2>2. /\ "asm" \in Place /\ "asm" \notin Null /\ "asm" \in Inner
        /\ "asm" \in Inner
    BY DEF Place, Null, Inner, Closers, After
  <2>3. "paren_null" \notin {"asm"}
    OBVIOUS
  <2>4. QED BY <2>1, <2>2, <2>3, Fits1
<1>3. Fits("asm", <<>>, -1, 0)
  <2>1. /\ W("asm", InBraces) = 1 /\ W("asm", InParens) = 0
    BY DEF W, InBraces, InParens
  <2>2. QED BY <2>1, Fits0
<1>4. Fits("asm", <<"asm", "asm">>, 1, 0)
  <2>1. /\ W("asm", InBraces) = 1 /\ W("asm", InParens) = 0
    BY DEF W, InBraces, InParens
  <2>2. /\ "asm" \in Place /\ "asm" \notin Null /\ "asm" \in Inner
        /\ "asm" \in Inner
    BY DEF Place, Null, Inner, Closers, After
  <2>3. "paren_null" \notin {"asm", "asm"}
    OBVIOUS
  <2>4. QED BY <2>1, <2>2, <2>3, Fits2
<1>5. Fits("asm_decl", <<"asm_decl", "asm">>, 1, 0)
  <2>1. /\ W("asm_decl", InBraces) = 1 /\ W("asm_decl", InParens) = 0
        /\ W("asm", InBraces) = 1 /\ W("asm", InParens) = 0
    BY DEF W, InBraces, InParens
  <2>2. /\ "asm_decl" \in Place /\ "asm_decl" \notin Null /\ "asm_decl" \notin Inner /\ "asm_decl" \in Closers
        /\ "asm" \in Place /\ "asm" \notin Null /\ "asm" \in Inner
    BY DEF Place, Null, Inner, Closers, After
  <2>3. "paren_null" \notin {"asm_decl", "asm"}
    OBVIOUS
  <2>4. QED BY <2>1, <2>2, <2>3, Fits2
<1>6. Fits("block", <<"block", "stmt">>, 0, 0)
  <2>1. /\ W("block", InBraces) = 1 /\ W("block", InParens) = 0
        /\ W("stmt", InBraces) = 0 /\ W("stmt", InParens) = 0
    BY DEF W, InBraces, InParens
  <2>2. /\ "block" \in Place /\ "block" \notin Null /\ "block" \notin Inner /\ "block" \in Closers
        /\ "stmt" \in Place /\ "stmt" \notin Null /\ "stmt" \in Inner
    BY DEF Place, Null, Inner, Closers, After
  <2>3. "paren_null" \notin {"block", "stmt"}
    OBVIOUS
  <2>4. QED BY <2>1, <2>2, <2>3, Fits2
<1>7. Fits("expr", <<"infix", "paren", "expr">>, 0, 1)
  <2>1. /\ W("expr", InBraces) = 0 /\ W("expr", InParens) = 0
        /\ W("infix", InBraces) = 0 /\ W("infix", InParens) = 0
        /\ W("paren", InBraces) = 0 /\ W("paren", InParens) = 1
    BY DEF W, InBraces, InParens
  <2>2. /\ "infix" \in Place /\ "infix" \notin Null /\ "infix" \notin Inner /\ "infix" \in After
        /\ "paren" \in Place /\ "paren" \in Null /\ "paren" \notin Inner
        /\ "expr" \in Place /\ "expr" \notin Null /\ "expr" \notin Inner
    BY DEF Place, Null, Inner, Closers, After
  <2>3. "paren_null" \notin {"infix", "paren", "expr"}
    OBVIOUS
  <2>4. QED BY <2>1, <2>2, <2>3, Fits3
<1>8. Fits("expr_u", <<"infix_u", "paren", "expr">>, 0, 1)
  <2>1. /\ W("expr_u", InBraces) = 0 /\ W("expr_u", InParens) = 0
        /\ W("infix_u", InBraces) = 0 /\ W("infix_u", InParens) = 0
        /\ W("paren", InBraces) = 0 /\ W("paren", InParens) = 1
        /\ W("expr", InBraces) = 0 /\ W("expr", InParens) = 0
    BY DEF W, InBraces, InParens
  <2>2. /\ "infix_u" \in Place /\ "infix_u" \notin Null /\ "infix_u" \notin Inner /\ "infix_u" \in After
        /\ "paren" \in Place /\ "paren" \in Null /\ "paren" \notin Inner
        /\ "expr" \in Place /\ "expr" \notin Null /\ "expr" \notin Inner
    BY DEF Place, Null, Inner, Closers, After
  <2>3. "paren_null" \notin {"infix_u", "paren", "expr"}
    OBVIOUS
  <2>4. QED BY <2>1, <2>2, <2>3, Fits3
<1>9. Fits("paren", <<>>, 0, -1)
  <2>1. /\ W("paren", InBraces) = 0 /\ W("paren", InParens) = 1
    BY DEF W, InBraces, InParens
  <2>2. QED BY <2>1, Fits0
<1>10. Fits("func_params", <<"func_throws", "return_type", "close_paren", "params">>, 0, 1)
  <2>1. /\ W("func_params", InBraces) = 0 /\ W("func_params", InParens) = 0
        /\ W("func_throws", InBraces) = 0 /\ W("func_throws", InParens) = 0
        /\ W("return_type", InBraces) = 0 /\ W("return_type", InParens) = 0
        /\ W("close_paren", InBraces) = 0 /\ W("close_paren", InParens) = 1
        /\ W("params", InBraces) = 0 /\ W("params", InParens) = 0
    BY DEF W, InBraces, InParens
  <2>2. /\ "func_throws" \in Place /\ "func_throws" \notin Null /\ "func_throws" \notin Inner
        /\ "return_type" \in Place /\ "return_type" \notin Null /\ "return_type" \notin Inner
        /\ "close_paren" \in Place /\ "close_paren" \notin Null /\ "close_paren" \notin Inner
        /\ "params" \in Place /\ "params" \notin Null /\ "params" \notin Inner
    BY DEF Place, Null, Inner, Closers, After
  <2>3. "paren_null" \notin {"func_throws", "return_type", "close_paren", "params"}
    OBVIOUS
  <2>4. QED BY <2>1, <2>2, <2>3, Fits4
<1>11. QED BY <1>1, <1>2, <1>3, <1>4, <1>5, <1>6, <1>7, <1>8, <1>9, <1>10

----------------------------------------------------------------------------
(* The functions of the parser.                                            *)

LEMMA parser_parseStep == ASSUME IInv, parser_parse PROVE IInv'
<1>1. /\ "program" \in Plain /\ "program_nl" \in Plain /\ "decl" \in Plain
  BY DEF Plain, Place, InBraces, InParens, Inner
<1>2. "NEWLINE" \notin Brackets
  BY DEF Brackets
<1>3. QED
  BY <1>1, <1>2, PlainFits, TakeStep, PassStep
     DEF parser_parse

LEMMA parse_attributeStep == ASSUME IInv, parse_attribute PROVE IInv'
<1>1. /\ "attribute" \in Plain /\ "payload" \in Plain /\ "payload_kind" \in Arg /\
         "pairs" \in Arg /\ "close_paren" \in Arg /\ "skip" \in Arg /\ "pair_value" \in Arg /\
         "pair_end" \in Arg /\ "any" \in Plain
  BY DEF Plain, Arg, Place, InBraces, InParens, Inner, Null
<1>2. "IDENT" \notin Brackets /\ "INT" \notin Brackets /\ "NEWLINE" \notin Brackets /\
      "COMMA" \notin Brackets
  BY DEF Brackets
<1>3. \A k \in {"EQ", "COLON"} : k \notin Brackets \cup {"EOF"}
  BY DEF Brackets
<1>4. QED
  BY <1>3, TakeOneOfStep, <1>1, <1>2, PlainFits, ArgFits, TakeStep, TakeLParen, PassStep, TakeAnyStep
     DEF parse_attribute

LEMMA AttributesStep == ASSUME IInv, Attributes PROVE IInv'
<1>1. /\ "decl_nl" \in Plain /\ "attribute" \in Plain /\ "decl_pub" \in Plain /\
         "decl_kw" \in Plain
  BY DEF Plain, Place, InBraces, InParens, Inner
<1>2. "NEWLINE" \notin Brackets /\ "AT" \notin Brackets /\ "PUB" \notin Brackets
  BY DEF Brackets
<1>3. QED
  BY <1>1, <1>2, PlainFits, TakeStep, PassStep, parse_attributeStep
     DEF Attributes

LEMMA parse_declarationStep == ASSUME IInv, parse_declaration PROVE IInv'
<1>1. /\ "decl" \in Plain /\ "decl_nl" \in Plain /\ "decl_kw" \in Plain /\ "func" \in Plain /\
         "struct" \in Plain /\ "enum" \in Plain /\ "const" \in Plain /\ "let" \in Plain /\
         "import" \in Plain /\ "module" \in Plain /\ "asm_top" \in Plain /\
         "trait" \in Plain /\ "pool" \in Plain /\ "protocol" \in Plain /\ "alias" \in Plain /\
         "impl" \in Plain /\ "run" \in Plain
  BY DEF Plain, Place, InBraces, InParens, Inner
<1>2. "FUNC" \notin Brackets /\ "STRUCT" \notin Brackets /\ "ENUM" \notin Brackets /\
      "CONST" \notin Brackets /\ "LET" \notin Brackets /\ "IMPORT" \notin Brackets /\
      "MODULE" \notin Brackets /\ "ASM" \notin Brackets /\ "TRAIT" \notin Brackets /\
      "POOL" \notin Brackets /\ "PROTOCOL" \notin Brackets /\ "TYPE" \notin Brackets /\
      "IMPL" \notin Brackets /\ "HASH" \notin Brackets
  BY DEF Brackets
<1>3. QED
  BY <1>1, <1>2, PlainFits, TakeStep, FailSkipStep, AttributesStep, SyncStep
     DEF parse_declaration

LEMMA ParseConstStep == ASSUME IInv, ParseConst PROVE IInv'
<1>1. /\ "const" \in Plain /\ "const_value" \in Plain /\ "expr" \in Plain
  BY DEF Plain, Place, InBraces, InParens, Inner
<1>2. "IDENT" \notin Brackets /\ "EQ" \notin Brackets
  BY DEF Brackets
<1>3. QED
  BY <1>1, <1>2, PlainFits, TakeStep, PassStep, ExpectPlain
     DEF ParseConst

LEMMA ParseAliasStep == ASSUME IInv, ParseAlias PROVE IInv'
<1>1. /\ "alias" \in Plain /\ "alias_type" \in Plain /\ "type" \in Plain
  BY DEF Plain, Place, InBraces, InParens, Inner
<1>2. "IDENT" \notin Brackets /\ "EQ" \notin Brackets
  BY DEF Brackets
<1>3. QED
  BY <1>1, <1>2, PlainFits, TakeStep, PassStep, FailStep
     DEF ParseAlias

LEMMA ParsePoolStep == ASSUME IInv, ParsePool PROVE IInv'
<1>1. /\ "pool" \in Plain /\ "pool_of" \in Plain /\ "pool_part" \in Plain /\
         "pool_word" \in Plain /\ "pool_number" \in Plain
  BY DEF Plain, Place, InBraces, InParens, Inner
<1>2. "IDENT" \notin Brackets /\ "INT" \notin Brackets /\ "COMMA" \notin Brackets
  BY DEF Brackets
<1>3. QED
  BY <1>1, <1>2, PlainFits, TakeStep, PassStep, FailStep
     DEF ParsePool

LEMMA ParseImportStep == ASSUME IInv, ParseImport PROVE IInv'
<1>1. /\ "import" \in Plain
  BY DEF Plain, Place, InBraces, InParens, Inner
<1>2. QED
  BY <1>1, PlainFits, TakeAnyStep
     DEF ParseImport

LEMMA ParseModuleStep == ASSUME IInv, ParseModule PROVE IInv'
<1>1. /\ "module" \in Plain /\ "module_open" \in Plain /\ "module_body" \in Body /\
         "module_nl" \in Body /\ "module_decl" \in Plain /\ "decl" \in Plain
  BY DEF Plain, Body, Place, InBraces, InParens, Inner
<1>2. "module_body" \notin Closers /\ "module_nl" \notin Closers
  BY DEF Closers
<1>3. "NEWLINE" \notin Brackets
  BY DEF Brackets
<1>4. QED
  BY <1>1, <1>2, <1>3, PlainFits, BodyFits, TakeStep, TakeLBrace, PassStep, TakeAnyStep,
     ExpectRBrace
     DEF ParseModule

LEMMA TraitBodyStep == ASSUME IInv, TraitBody PROVE IInv'
<1>1. /\ "trait_body" \in Body /\ "func" \in Plain
  BY DEF Plain, Body, Place, InBraces, InParens, Inner
<1>2. "trait_body" \notin Closers
  BY DEF Closers
<1>3. "NEWLINE" \notin Brackets /\ "FUNC" \notin Brackets
  BY DEF Brackets
<1>4. QED
  BY <1>1, <1>2, <1>3, PlainFits, BodyFits, TakeStep, TakeAnyStep, ExpectRBrace
     DEF TraitBody

LEMMA ParseTraitStep == ASSUME IInv, ParseTrait PROVE IInv'
<1>1. /\ "trait" \in Plain /\ "trait_open" \in Plain /\ "protocol" \in Plain /\
         "impl" \in Plain /\ "impl_for" \in Plain /\ "trait_body" \in Body
  BY DEF Plain, Body, Place, InBraces, InParens, Inner
<1>2. "trait_body" \notin Closers
  BY DEF Closers
<1>3. "IDENT" \notin Brackets /\ "FOR" \notin Brackets
  BY DEF Brackets
<1>4. QED
  BY <1>1, <1>2, <1>3, PlainFits, BodyFits, TakeStep, TakeLBrace, PassStep, FailStep,
     TraitBodyStep
     DEF ParseTrait

LEMMA ParseRunStep == ASSUME IInv, ParseRun PROVE IInv'
<1>1. /\ "run" \in Plain /\ "run_open" \in Plain /\ "block" \in Body
  BY DEF Plain, Body, Place, InBraces, InParens, Inner
<1>2. "RUN" \notin Brackets
  BY DEF Brackets
<1>3. QED
  BY <1>1, <1>2, PlainFits, BodyFits, TakeStep, TakeLBrace, PassStep, FailStep
     DEF ParseRun

LEMMA ParseAsmStep == ASSUME IInv, ParseAsm PROVE IInv'
<1>1. /\ "asm_top" \in Plain /\ "asm_stmt" \in Inside /\ "asm_decl" \in Body
      /\ "asm" \notin Closers
  BY DEF Plain, Body, Inside, Place, InBraces, InParens, Inner, Closers
<1>2. /\ Fits("asm_stmt", <<"asm">>, 1, 0) /\ Fits("asm", <<"asm">>, 0, 0)
      /\ Fits("asm", <<>>, -1, 0) /\ Fits("asm", <<"asm", "asm">>, 1, 0)
      /\ Fits("asm_decl", <<"asm_decl", "asm">>, 1, 0)
  BY SpecialFits
<1>3. ASSUME At("asm_top") /\ (Take({"LBRACE"}, <<"asm_decl">>) \/ Fail({"LBRACE"}, <<>>))
      PROVE  IInv'
  BY <1>1, <1>3, PlainFits, BodyFits, TakeLBrace, FailStep
<1>4. ASSUME At("asm_stmt") /\ (Take({"LBRACE"}, <<"asm">>) \/ Fail({"LBRACE"}, <<>>))
      PROVE  IInv'
  BY <1>1, <1>2, <1>4, InsideFits, TakeLBrace, FailStep
<1>5. ASSUME NEW f \in {"asm_decl", "asm"}, At(f),
             \/ Take({"LBRACE"}, <<f, "asm">>)
             \/ Take({"RBRACE"}, <<>>)
             \/ TakeAny({"LBRACE", "RBRACE", "EOF"}, <<f>>)
      PROVE  IInv'
  <2>1. Fits(f, <<f, "asm">>, 1, 0) /\ Fits(f, <<>>, -1, 0) /\ Fits(f, <<f>>, 0, 0)
    BY <1>1, <1>2, BodyFits
  <2>2. QED BY <1>5, <2>1, TakeLBrace, TakeRBrace, TakeAnyStep
<1>6. ASSUME At("asm_decl"), Fail({}, <<>>) PROVE IInv'
  BY <1>1, <1>6, BodyFits, FailAnyStep
\* The asm block of a statement ends at the end of the text: its block is left.
<1>7. ASSUME At("asm"), current = "EOF", Pass({}, <<>>) PROVE IInv'
  <2>1. /\ current' = "EOF" /\ errors' = errors /\ panic_mode' = panic_mode
        /\ loose' = loose /\ depth' = depth /\ parens' = parens /\ Goto(<<>>)
    BY <1>7 DEF Pass, Stay, NoError
  <2>2. stack \in Seq(Place) /\ Shape(stack) /\ parens \in Int
    BY DEF IInv, TypeOK
  <2>3. /\ stack' \in Seq(Place) /\ Shape(stack')
        /\ Count(stack', InParens) = Count(stack, InParens) + 0
        /\ Count(stack', {"paren_null"}) > 0 => Count(stack, {"paren_null"}) > 0
    BY <1>2, <1>7, <2>1, <2>2, GotoFacts
  <2>4. Closes(stack')
    <3>1. stack # <<>> /\ Last(stack) \in Inner
      BY <1>7 DEF At, Inner
    <3>2. Closes(Front(stack)) /\ Front(stack) \in Seq(Place)
      BY <2>2, <3>1, FrontFacts
    <3>3. stack' = Front(stack)
      BY <2>1, <3>2, ConcatEmptySeq DEF Goto
    <3>4. QED BY <3>2, <3>3
  <2>5. Shape(stack)' /\ Closes(stack)'
    BY <2>3, <2>4 DEF Shape, Closes
  <2>6. Count(stack', InParens) = Count(stack, InParens)
    <3>1. Count(stack, InParens) \in Nat
      BY <2>2, CountType
    <3>2. QED BY <2>3, <3>1
  <2>7. Balanced'
    BY <2>1, <2>4, <2>6 DEF IInv, Balanced
  <2>8. QED BY <2>1, <2>3, <2>5, <2>7 DEF IInv, TypeOK, Reported
<1>8. QED BY <1>3, <1>4, <1>5, <1>6, <1>7 DEF ParseAsm

LEMMA TypeListStep == ASSUME IInv, TypeList PROVE IInv'
<1>1. /\ "types" \in Arg /\ "close_paren" \in Arg /\ "types_more" \in Arg /\ "type" \in Plain
  BY DEF Plain, Arg, Place, InBraces, InParens, Inner, Null
<1>2. "COMMA" \notin Brackets
  BY DEF Brackets
<1>3. QED
  BY <1>1, <1>2, PlainFits, ArgFits, TakeStep, PassStep, ExpectRParen
     DEF TypeList

LEMMA parse_typeStep == ASSUME IInv, parse_type PROVE IInv'
<1>1. /\ "type" \in Plain /\ "return_type" \in Plain /\ "type_params" \in Plain /\
         "tuple" \in Arg /\ "types" \in Arg /\ "close_paren" \in Arg
  BY DEF Plain, Arg, Place, InBraces, InParens, Inner, Null
<1>2. "IDENT" \notin Brackets /\ "FUNC" \notin Brackets /\ "COMMA" \notin Brackets /\
      "COLON" \notin Brackets
  BY DEF Brackets
<1>3. QED
  BY <1>1, <1>2, PlainFits, ArgFits, TakeStep, TakeLParen, PassStep, FailSkipStep,
     TypeListStep
     DEF parse_type

LEMMA parse_paramsStep == ASSUME IInv, parse_params PROVE IInv'
<1>1. /\ "params" \in Plain /\ "param_more" \in Plain /\ "init" \in Plain /\
         "return_type" \in Plain
  BY DEF Plain, Place, InBraces, InParens, Inner
<1>2. "IDENT" \notin Brackets /\ "COMMA" \notin Brackets
  BY DEF Brackets
<1>3. QED
  BY <1>1, <1>2, PlainFits, TakeStep, PassStep, FailStep
     DEF parse_params

LEMMA ConditionStep == ASSUME IInv, Condition PROVE IInv'
<1>1. /\ "condition" \in Plain /\ "close_paren" \in Arg /\ "expr" \in Plain
  BY DEF Plain, Arg, Place, InBraces, InParens, Inner, Null
<1>2. QED
  BY <1>1, PlainFits, ArgFits, ExpectLParen
     DEF Condition

LEMMA parse_func_declStep == ASSUME IInv, parse_func_decl PROVE IInv'
<1>1. /\ "func" \in Plain /\ "func_params" \in Plain /\ "func_throws" \in Plain /\
         "return_type" \in Plain /\ "close_paren" \in Arg /\ "params" \in Plain /\
         "func_pre" \in Plain /\ "condition" \in Plain /\ "func_body" \in Plain /\
         "block" \in Body /\ "expr" \in Plain
  BY DEF Plain, Body, Arg, Place, InBraces, InParens, Inner, Null
<1>2. "IDENT" \notin Brackets /\ "THROWS" \notin Brackets /\ "PRE" \notin Brackets /\
      "ARROW" \notin Brackets
  BY DEF Brackets
<1>3. Fits("func_params", <<"func_throws", "return_type", "close_paren", "params">>, 0, 1)
  BY SpecialFits
<1>4. QED
  BY <1>3, <1>1, <1>2, PlainFits, BodyFits, ArgFits, TakeStep, TakeLBrace, TakeLParen, PassStep,
     FailStep
     DEF parse_func_decl

LEMMA parse_struct_declStep == ASSUME IInv, parse_struct_decl PROVE IInv'
<1>1. /\ "struct" \in Plain /\ "struct_open" \in Plain /\ "struct_body" \in Body /\
         "close" \in Body /\ "field" \in Body /\ "condition" \in Plain /\ "func" \in Plain /\
         "return_type" \in Plain
  BY DEF Plain, Body, Place, InBraces, InParens, Inner
<1>2. "struct_body" \notin Closers /\ "close" \notin Closers /\ "field" \notin Closers
  BY DEF Closers
<1>3. "IDENT" \notin Brackets /\ "NEWLINE" \notin Brackets /\ "PUB" \notin Brackets /\
      "CONTRACT" \notin Brackets /\ "FUNC" \notin Brackets
  BY DEF Brackets
<1>4. QED
  BY <1>1, <1>2, <1>3, PlainFits, BodyFits, TakeStep, TakeLBrace, PassStep, FailStep,
     ExpectRBrace
     DEF parse_struct_decl

LEMMA parse_enum_declStep == ASSUME IInv, parse_enum_decl PROVE IInv'
<1>1. /\ "enum" \in Plain /\ "enum_open" \in Plain /\ "enum_body" \in Body /\
         "close" \in Body /\ "type_params" \in Plain
  BY DEF Plain, Body, Place, InBraces, InParens, Inner
<1>2. "enum_body" \notin Closers /\ "close" \notin Closers
  BY DEF Closers
<1>3. "IDENT" \notin Brackets /\ "NEWLINE" \notin Brackets
  BY DEF Brackets
<1>4. QED
  BY <1>1, <1>2, <1>3, PlainFits, BodyFits, TakeStep, TakeLBrace, PassStep, FailStep
     DEF parse_enum_decl

LEMMA parse_statementStep == ASSUME IInv, parse_statement PROVE IInv'
<1>1. /\ "stmt" \in Inside /\ "stmt_kw" \in Inside /\ "attribute" \in Plain /\
         "let" \in Plain /\ "if" \in Plain /\ "body" \in Plain /\ "expr" \in Plain /\
         "for" \in Plain /\ "return" \in Plain /\ "label" \in Plain /\
         "block_or_stmt" \in Inside /\ "spawn" \in Plain /\ "region" \in Inside /\
         "match_open" \in Plain /\ "asm_stmt" \in Inside /\ "catches" \in Plain /\
         "braced" \in Plain
  BY DEF Plain, Inside, Place, InBraces, InParens, Inner
<1>2. "AT" \notin Brackets /\ "LET" \notin Brackets /\ "IF" \notin Brackets /\
      "WHILE" \notin Brackets /\ "FOR" \notin Brackets /\ "RETURN" \notin Brackets /\
      "BREAK" \notin Brackets /\ "DEFER" \notin Brackets /\ "SPAWN" \notin Brackets /\
      "YIELD" \notin Brackets /\ "REGION" \notin Brackets /\ "MATCH" \notin Brackets /\
      "ASM" \notin Brackets /\ "TRY" \notin Brackets
  BY DEF Brackets
<1>3. QED
  BY <1>1, <1>2, PlainFits, InsideFits, TakeStep, PassStep, SyncStep
     DEF parse_statement

LEMMA ParseLetStep == ASSUME IInv, ParseLet PROVE IInv'
<1>1. /\ "let" \in Plain /\ "init" \in Plain /\ "return_type" \in Plain /\ "expr" \in Plain
  BY DEF Plain, Place, InBraces, InParens, Inner
<1>2. "IDENT" \notin Brackets /\ "EQ" \notin Brackets
  BY DEF Brackets
<1>3. QED
  BY <1>1, <1>2, PlainFits, TakeStep, PassStep, FailStep
     DEF ParseLet

LEMMA BracedStep == ASSUME IInv, Braced PROVE IInv'
<1>1. "braced" \in Plain /\ "block" \in Body
  BY DEF Plain, Body, Place, InBraces, InParens, Inner
<1>2. Fits("braced", <<"block">>, 1, 0)
  BY <1>1, BodyFits
<1>3. ASSUME At("braced"), Take({"LBRACE"}, <<"block">>) PROVE IInv'
  BY <1>2, <1>3, TakeLBrace
<1>4. ASSUME At("braced"), Stay, NoError, Goto(<<"block">>), loose' = TRUE PROVE IInv'
  <2>1. depth' \in Int /\ parens' \in Int /\ current' = current
    BY <1>4 DEF Stay, IInv, TypeOK
  <2>2. QED BY <1>2, <1>4, <2>1, LooseStep DEF NoError
<1>5. QED BY <1>3, <1>4 DEF Braced

LEMMA ParseIfStep == ASSUME IInv, ParseIf PROVE IInv'
<1>1. /\ "if" \in Plain /\ "if_let" \in Plain /\ "pattern" \in Plain /\ "braced" \in Plain
      /\ "expr" \in Plain /\ "if_open" \in Plain /\ "else" \in Plain /\ "body" \in Plain
      /\ "block" \in Body
  BY DEF Plain, Body, Place, InBraces, InParens, Inner
<1>2. /\ "LET" \notin Brackets /\ "EQ" \notin Brackets /\ "NEWLINE" \notin Brackets
      /\ "ELIF" \notin Brackets /\ "ELSE" \notin Brackets
  BY DEF Brackets
<1>3. Fits("if_open", <<"else", "block">>, 1, 0)
  BY <1>1, BodyFits
<1>4. ASSUME At("if_open"), parser_advance, NoError, Goto(<<"else", "block">>), loose' = TRUE
      PROVE  IInv'
  <2>1. Brace(current) \in Int /\ Paren(current) \in Int
    BY DEF Brace, Paren
  <2>2. /\ depth' \in Int /\ parens' \in Int
        /\ current = "EOF" => current' = "EOF"
    BY <1>4, <2>1 DEF parser_advance, IInv, TypeOK
  <2>3. QED BY <1>3, <1>4, <2>2, LooseStep DEF NoError
<1>5. QED
  BY <1>1, <1>2, <1>3, <1>4, PlainFits, TakeStep, TakeLBrace, PassStep, ExpectPlain
     DEF ParseIf

LEMMA LoopBodyStep == ASSUME IInv, LoopBody PROVE IInv'
<1>1. /\ "body" \in Plain /\ "block" \in Body
  BY DEF Plain, Body, Place, InBraces, InParens, Inner
<1>2. QED
  BY <1>1, PlainFits, BodyFits, TakeLBrace, PassStep
     DEF LoopBody

LEMMA ParseForStep == ASSUME IInv, ParseFor PROVE IInv'
<1>1. /\ "for" \in Plain /\ "for_in" \in Plain /\ "for_second" \in Plain /\
         "label" \in Plain /\ "body" \in Plain /\ "expr" \in Plain
  BY DEF Plain, Place, InBraces, InParens, Inner
<1>2. "IDENT" \notin Brackets /\ "COMMA" \notin Brackets /\ "IN" \notin Brackets
  BY DEF Brackets
<1>3. QED
  BY <1>1, <1>2, PlainFits, TakeStep, PassStep
     DEF ParseFor

LEMMA ParseJumpStep == ASSUME IInv, ParseJump PROVE IInv'
<1>1. /\ "return" \in Plain /\ "expr" \in Plain /\ "label" \in Plain
  BY DEF Plain, Place, InBraces, InParens, Inner
<1>2. "IDENT" \notin Brackets
  BY DEF Brackets
<1>3. QED
  BY <1>1, <1>2, PlainFits, TakeStep, PassStep
     DEF ParseJump

LEMMA ParseDeferStep == ASSUME IInv, ParseDefer PROVE IInv'
<1>1. /\ "block_or_stmt" \in Inside /\ "block" \in Body /\ "stmt" \in Inside
  BY DEF Body, Inside, Place, InBraces, InParens, Inner
<1>2. QED
  BY <1>1, BodyFits, InsideFits, TakeLBrace, PassStep
     DEF ParseDefer

LEMMA ParseSpawnStep == ASSUME IInv, ParseSpawn PROVE IInv'
<1>1. /\ "spawn" \in Plain /\ "spawn_open" \in Plain /\ "spawn_args" \in Arg /\
         "close_paren" \in Arg /\ "spawn_more" \in Arg /\ "expr" \in Plain
  BY DEF Plain, Arg, Place, InBraces, InParens, Inner, Null
<1>2. "IDENT" \notin Brackets /\ "NEWLINE" \notin Brackets /\ "COMMA" \notin Brackets
  BY DEF Brackets
<1>3. QED
  BY <1>1, <1>2, PlainFits, ArgFits, TakeStep, TakeLParen, PassStep, FailStep
     DEF ParseSpawn

LEMMA ParseRegionStep == ASSUME IInv, ParseRegion PROVE IInv'
<1>1. /\ "region" \in Inside /\ "block_or_stmt" \in Inside /\ "region_name" \in Arg /\
         "close_paren" \in Arg
  BY DEF Arg, Inside, Place, InBraces, InParens, Inner, Null
<1>2. "STRING" \notin Brackets
  BY DEF Brackets
<1>3. QED
  BY <1>1, <1>2, ArgFits, InsideFits, TakeStep, PassStep, ExpectLParen
     DEF ParseRegion

LEMMA ParseTryStep == ASSUME IInv, ParseTry PROVE IInv'
<1>1. /\ "catches" \in Plain /\ "catch" \in Plain /\ "braced" \in Plain /\
         "catch_var" \in Plain /\ "catch_name" \in Arg /\ "close_paren" \in Arg
  BY DEF Plain, Arg, Place, InBraces, InParens, Inner, Null
<1>2. "CATCH" \notin Brackets /\ "FINALLY" \notin Brackets /\ "IDENT" \notin Brackets
  BY DEF Brackets
<1>3. QED
  BY <1>1, <1>2, PlainFits, ArgFits, TakeStep, TakeLParen, PassStep
     DEF ParseTry

LEMMA parse_block_bracedStep == ASSUME IInv, parse_block_braced PROVE IInv'
<1>1. /\ "block" \in Body /\ "stmt" \in Inside
  BY DEF Body, Inside, Place, InBraces, InParens, Inner
<1>2. "NEWLINE" \notin Brackets
  BY DEF Brackets
<1>3. Fits("block", <<"block", "stmt">>, 0, 0)
  BY SpecialFits
<1>4. QED
  BY <1>3, <1>1, <1>2, BodyFits, InsideFits, TakeStep, PassStep, ExpectRBrace
     DEF parse_block_braced

LEMMA ParseMatchStep == ASSUME IInv, ParseMatch PROVE IInv'
<1>1. /\ "match_open" \in Plain /\ "match_body" \in Body /\ "arm" \in Plain
  BY DEF Plain, Body, Place, InBraces, InParens, Inner
<1>2. "match_body" \notin Closers
  BY DEF Closers
<1>3. "NEWLINE" \notin Brackets
  BY DEF Brackets
<1>4. QED
  BY <1>1, <1>2, <1>3, PlainFits, BodyFits, TakeStep, TakeLBrace, PassStep, ExpectRBrace
     DEF ParseMatch

LEMMA parse_match_armStep == ASSUME IInv, parse_match_arm PROVE IInv'
<1>1. /\ "arm" \in Plain /\ "arm_first" \in Plain /\ "arm_arrow" \in Plain /\
         "arm_more" \in Plain /\ "pattern" \in Plain /\ "arm_next" \in Plain /\
         "expr" \in Plain
  BY DEF Plain, Place, InBraces, InParens, Inner
<1>2. "CASE" \notin Brackets /\ "NEWLINE" \notin Brackets /\ "COMMA" \notin Brackets /\
      "ARROW" \notin Brackets
  BY DEF Brackets
<1>3. QED
  BY <1>1, <1>2, PlainFits, TakeStep, PassStep, ExpectPlain
     DEF parse_match_arm

LEMMA parse_patternStep == ASSUME IInv, parse_pattern PROVE IInv'
<1>1. /\ "pattern" \in Plain
  BY DEF Plain, Place, InBraces, InParens, Inner
<1>2. \A k \in Operands : k \notin Brackets \cup {"EOF"}
  BY DEF Brackets, Operands
<1>3. QED
  BY <1>2, TakeOneOfStep, <1>1, PlainFits, PassStep, FailStep
     DEF parse_pattern

LEMMA parse_prefixStep == ASSUME IInv, parse_prefix PROVE IInv'
<1>1. /\ "match_open" \in Plain /\ "expr" \in Plain /\ "expr_u" \in Plain
      /\ "infix" \in Plain /\ "infix_u" \in Plain
  BY DEF Plain, Place, InBraces, InParens, Inner
<1>2. "HASH" \notin Brackets /\ "MATCH" \notin Brackets
  BY DEF Brackets
<1>3. \A k \in Operands : k \notin Brackets \cup {"EOF"}
  BY DEF Brackets, Operands
<1>4. /\ Fits("expr", <<"infix", "paren", "expr">>, 0, 1)
      /\ Fits("expr_u", <<"infix_u", "paren", "expr">>, 0, 1)
  BY SpecialFits
<1>5. PICK e \in {"expr", "expr_u"}, after \in {"infix", "infix_u"} :
        /\ after = IF e = "expr" THEN "infix" ELSE "infix_u"
        /\ At(e)
        /\ \/ Take(Operands, <<after>>)
           \/ Take({"HASH"}, <<after, "expr_u">>)
           \/ Take({"MATCH"}, <<after, "match_open", "expr">>)
           \/ Take({"LPAREN"}, <<after, "paren", "expr">>)
           \/ /\ current = "EOF" /\ Stay /\ NoError
              /\ stack' = ReturnNull(Front(stack)) /\ UNCHANGED loose
           \/ /\ parser_advance /\ parser_error
              /\ stack' = ReturnNull(Front(stack)) /\ UNCHANGED loose
  BY DEF parse_prefix
<1>6. e \in Plain /\ after \in Plain /\ Fits(e, <<after, "paren", "expr">>, 0, 1)
  BY <1>1, <1>4, <1>5
<1>7. CASE \/ Take(Operands, <<after>>)
           \/ Take({"HASH"}, <<after, "expr_u">>)
           \/ Take({"MATCH"}, <<after, "match_open", "expr">>)
           \/ Take({"LPAREN"}, <<after, "paren", "expr">>)
  BY <1>1, <1>2, <1>3, <1>5, <1>6, <1>7, PlainFits, TakeOneOfStep, TakeStep, TakeLParen
<1> DEFINE below == Front(stack)
\* The expression is missing.
<1>8. /\ stack \in Seq(Place) /\ below \in Seq(Place) /\ Shape(below)
      /\ Closes(stack) => Closes(below)
      /\ Count(below, InBraces) = Count(stack, InBraces)
      /\ Count(below, InParens) = Count(stack, InParens)
  <2>1. stack \in Seq(Place) /\ Shape(stack) /\ stack # <<>> /\ Last(stack) = e
    BY <1>5 DEF IInv, TypeOK, At
  <2>2. below \in Seq(Place) /\ Shape(below) /\ (Closes(stack) => Closes(below))
    BY <1>6, <2>1, FrontFacts, PlainFits
  <2>3. /\ Count(stack, InBraces) = Count(below, InBraces) + W(e, InBraces)
        /\ Count(stack, InParens) = Count(below, InParens) + W(e, InParens)
    BY <2>1, TopFacts
  <2>4. W(e, InBraces) = 0 /\ W(e, InParens) = 0
    BY <1>6, PlaceFacts
  <2>5. Count(below, InBraces) \in Nat /\ Count(below, InParens) \in Nat
    BY <2>2, CountType
  <2>6. QED BY <2>1, <2>2, <2>3, <2>4, <2>5
<1> HIDE DEF below
<1>9. ASSUME stack' = ReturnNull(below)
      PROVE  /\ stack' \in Seq(Place) /\ Shape(stack')
             /\ Count(stack', InBraces) = Count(stack, InBraces)
             /\ Count(stack', InParens) = Count(stack, InParens)
             /\ Closes(stack) => Closes(stack')
  BY <1>8, <1>9, ReturnNullFacts
<1>10. ASSUME current = "EOF", Stay, NoError, stack' = ReturnNull(below), UNCHANGED loose
       PROVE  IInv'
  <2>1. /\ current' = "EOF" /\ errors' = errors /\ panic_mode' = panic_mode
        /\ loose' = loose /\ depth' = depth /\ parens' = parens
    BY <1>10 DEF Stay, NoError
  <2>2. Shape(stack)'
    BY <1>9, <1>10 DEF Shape
  <2>3. Balanced'
    BY <1>9, <1>10, <2>1 DEF IInv, Balanced
  <2>4. QED BY <1>9, <1>10, <2>1, <2>2, <2>3 DEF IInv, TypeOK, Reported
<1>11. ASSUME parser_advance, parser_error, stack' = ReturnNull(below), UNCHANGED loose
       PROVE  IInv'
  <2>1. Brace(current) \in Int /\ Paren(current) \in Int
    BY DEF Brace, Paren
  <2>2. /\ depth' \in Int /\ parens' \in Int /\ errors' = 1 /\ panic_mode' \in BOOLEAN
        /\ loose' \in BOOLEAN
    BY <1>11, <2>1 DEF parser_advance, parser_error, IInv, TypeOK
  <2>3. QED BY <1>9, <1>11, <2>2, ErrorStep
<1>12. QED BY <1>5, <1>7, <1>10, <1>11 DEF below

LEMMA ParenthesisedStep == ASSUME IInv, Parenthesised PROVE IInv'
<1>1. ASSUME At("paren"), parser_expect("RPAREN", <<>>) PROVE IInv'
  <2>1. Fits("paren", <<>>, 0, -1)
    BY SpecialFits
  <2>2. QED BY <1>1, <2>1, ExpectRParen
\* Behind a missing expression an error has been reported, or the text has ended.
<1>2. ASSUME At("paren_null"), stack' = ReturnNull(Front(Front(stack))), UNCHANGED loose,
             \/ current = "RPAREN" /\ parser_advance /\ NoError
             \/ current # "RPAREN" /\ Stay /\ parser_error
      PROVE  IInv'
  <2>1. stack \in Seq(Place) /\ Shape(stack) /\ stack # <<>> /\ Last(stack) = "paren_null"
    BY <1>2 DEF IInv, TypeOK, At
  <2>2. /\ Front(stack) \in Seq(Place) /\ Shape(Front(stack)) /\ Front(stack) # <<>>
    BY <2>1, FrontFacts DEF Null
  <2>3. Front(Front(stack)) \in Seq(Place) /\ Shape(Front(Front(stack)))
    BY <2>2, FrontFacts
  <2>4. stack' \in Seq(Place) /\ Shape(stack')
    BY <1>2, <2>3, ReturnNullFacts
  <2>5. Count(stack, {"paren_null"}) > 0
    <3>1. Count(stack, {"paren_null"}) = Count(Front(stack), {"paren_null"}) + 1
      BY <2>1, TopFacts DEF W
    <3>2. Count(Front(stack), {"paren_null"}) \in Nat
      BY <2>2, CountType
    <3>3. QED BY <3>1, <3>2
  <2>6. errors' = 1 /\ panic_mode' \in BOOLEAN
    BY <1>2, <2>5 DEF IInv, TypeOK, Reported, NoError, parser_error
  <2>7. Brace(current) \in Int /\ Paren(current) \in Int
    BY DEF Brace, Paren
  <2>8. depth' \in Int /\ parens' \in Int
    BY <1>2, <2>7 DEF parser_advance, Stay, IInv, TypeOK
  <2>9. QED BY <1>2, <2>4, <2>6, <2>8, ErrorStep DEF IInv, TypeOK
<1>3. QED BY <1>1, <1>2 DEF Parenthesised

LEMMA parse_exprStep == ASSUME IInv, parse_expr PROVE IInv'
<1>1. /\ "infix" \in Plain /\ "more" \in Plain /\ "infix_u" \in Plain /\ "more_u" \in Plain
      /\ "expr" \in Plain /\ "args" \in Arg
  BY DEF Plain, Arg, Place, InBraces, InParens, Inner, Null
<1>2. ASSUME NEW f \in Plain, NEW more \in Plain, NEW assigns \in SUBSET {"EQ"},
             NEW skips \in SUBSET {"NEWLINE"}, At(f),
             \/ Take(skips, <<f>>)
             \/ Take({"LPAREN"}, <<more, "args">>)
             \/ Take(assigns, <<more, "expr">>)
             \/ Pass(skips \cup assigns \cup {"LPAREN"}, <<>>)
      PROVE  IInv'
  <2>1. /\ \A k \in skips : k \notin Brackets \cup {"EOF"}
        /\ \A k \in assigns : k \notin Brackets \cup {"EOF"}
    BY DEF Brackets
  <2>2. QED
    BY <1>1, <1>2, <2>1, PlainFits, ArgFits, TakeOneOfStep, TakeLParen, PassStep
<1>3. ASSUME NEW f \in {"infix", "more", "infix_u", "more_u"},
             LET unary == f \in {"infix_u", "more_u"}
                 more == IF unary THEN "more_u" ELSE "more"
                 assigns == IF unary THEN {} ELSE {"EQ"}
                 skips == IF f = more THEN {"NEWLINE"} ELSE {}
             IN /\ At(f)
                /\ \/ Take(skips, <<f>>)
                   \/ Take({"LPAREN"}, <<more, "args">>)
                   \/ Take(assigns, <<more, "expr">>)
                   \/ Pass(skips \cup assigns \cup {"LPAREN"}, <<>>)
      PROVE  IInv'
  <2> DEFINE unary == f \in {"infix_u", "more_u"}
             more == IF unary THEN "more_u" ELSE "more"
             assigns == IF unary THEN {} ELSE {"EQ"}
             skips == IF f = more THEN {"NEWLINE"} ELSE {}
  <2>1. f \in Plain /\ more \in Plain
    BY <1>1
  <2>2. assigns \in SUBSET {"EQ"} /\ skips \in SUBSET {"NEWLINE"}
    OBVIOUS
  <2>3. /\ At(f)
        /\ \/ Take(skips, <<f>>)
           \/ Take({"LPAREN"}, <<more, "args">>)
           \/ Take(assigns, <<more, "expr">>)
           \/ Pass(skips \cup assigns \cup {"LPAREN"}, <<>>)
    BY <1>3
  <2> HIDE DEF more, assigns, skips
  <2>4. QED BY <1>2, <2>1, <2>2, <2>3
<1>4. QED BY <1>3, parse_prefixStep, ParenthesisedStep DEF parse_expr

LEMMA ArgumentsStep == ASSUME IInv, Arguments PROVE IInv'
<1>1. /\ "args" \in Arg /\ "close_paren" \in Arg /\ "args_more" \in Arg /\ "expr" \in Plain
  BY DEF Plain, Arg, Place, InBraces, InParens, Inner, Null
<1>2. "NEWLINE" \notin Brackets /\ "COMMA" \notin Brackets
  BY DEF Brackets
<1>3. QED
  BY <1>1, <1>2, PlainFits, ArgFits, TakeStep, PassStep
     DEF Arguments

----------------------------------------------------------------------------
(* The invariant, and what it says of the text.                            *)

LEMMA InitInvariant == ASSUME Init PROVE IInv
<1>1. stack = <<"program">> /\ "program" \in Place
  BY DEF Init, Place
<1>2. stack \in Seq(Place) /\ DOMAIN stack = {1} /\ stack[1] = "program"
  BY <1>1
<1>3. Shape(stack)
  BY <1>2 DEF Shape, Null, Inner
<1>4. \A S : Count(stack, S) = W("program", S)
  BY <1>1, CountTuples
<1>5. /\ W("program", InBraces) = 0 /\ W("program", InParens) = 0
      /\ W("program", {"paren_null"}) = 0
  BY DEF W, InBraces, InParens
<1>6. ~Closes(stack) /\ Count(stack, {"paren_null"}) = 0
  BY <1>2, <1>4, <1>5 DEF Closes, Closers
<1>7. errors = 0 /\ panic_mode = FALSE /\ depth = 0 /\ parens = 0 /\ loose = FALSE
  BY DEF Init
<1>8. TypeOK
  <2>1. stack \in Seq(Place)
    BY <1>2
  <2>2. depth \in Int /\ parens \in Int /\ errors \in {0, 1}
    BY <1>7
  <2>3. panic_mode \in BOOLEAN /\ loose \in BOOLEAN
    BY <1>7, Zenon
  <2>4. QED BY <2>1, <2>2, <2>3 DEF TypeOK
<1>9. Balanced
  BY <1>4, <1>5, <1>7 DEF Balanced
<1>10. Reported
  BY <1>6, <1>7 DEF Reported
<1>11. QED BY <1>3, <1>8, <1>9, <1>10 DEF IInv

LEMMA StepPreserves == ASSUME IInv, [Next]_vars PROVE IInv'
<1>1. CASE UNCHANGED vars
  BY <1>1 DEF vars, IInv, TypeOK, Shape, Balanced, Closes, Reported, Count
<1>2. CASE Declarations
  BY <1>2, parser_parseStep, parse_declarationStep, ParseConstStep, ParseAliasStep,
     ParsePoolStep, ParseImportStep, ParseModuleStep, ParseTraitStep, ParseRunStep, ParseAsmStep,
     parse_typeStep, parse_paramsStep, ConditionStep, parse_func_declStep,
     parse_struct_declStep, parse_enum_declStep
     DEF Declarations
<1>3. CASE Statements
  BY <1>3, parse_statementStep, ParseLetStep, BracedStep, ParseIfStep, LoopBodyStep,
     ParseForStep, ParseJumpStep, ParseDeferStep, ParseSpawnStep, ParseRegionStep, ParseTryStep,
     parse_block_bracedStep, ParseMatchStep, parse_match_armStep, parse_patternStep,
     parse_exprStep, ArgumentsStep
     DEF Statements
<1>4. QED BY <1>1, <1>2, <1>3 DEF Next

\* The bodies and parentheses the parser is in are the brackets open in the text, and
\* a missing expression has been reported.
THEOREM ParserInvariant == Spec => []IInv
<1>1. Init => IInv
  BY InitInvariant
<1>2. IInv /\ [Next]_vars => IInv'
  BY StepPreserves
<1>3. QED BY <1>1, <1>2, PTL DEF Spec

\* No function of the parser consumes a brace of another one or leaves its own behind.
THEOREM ParserNesting == Spec => []NestingAgrees
<1>1. IInv => NestingAgrees
  BY DEF IInv, Balanced, NestingAgrees
<1>2. QED BY <1>1, ParserInvariant, PTL

\* An unbalanced source text is not accepted.
THEOREM ParserReportsUnbalanced == Spec => []UnbalancedReported
<1>1. IInv => UnbalancedReported
  <2> SUFFICES ASSUME IInv, stack = <<>>, errors = 0, ~loose
               PROVE  depth = 0 /\ parens = 0
    BY DEF IInv, TypeOK, UnbalancedReported
  <2>1. Count(stack, InBraces) = 0 /\ Count(stack, InParens) = 0
    BY CountTuples
  <2>2. ~Closes(stack)
    BY DEF Closes
  <2>3. QED BY <2>1, <2>2 DEF IInv, Balanced
<1>2. QED BY <1>1, ParserInvariant, PTL
===============================================================================
