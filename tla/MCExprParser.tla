---------------------------- MODULE MCExprParser ----------------------------
(***************************************************************************)
(* Instance of ExprParser, and the tokens of the tree it returns.          *)
(***************************************************************************)
EXTENDS ExprParser, FiniteSets

Operators == {"IDENT", "STRING", "MINUS", "STAR", "EQ", "QUESTION", "COLON"}

Accesses == {"IDENT", "DOT", "LPAREN", "RPAREN", "LBRACKET", "RBRACKET", "DOT_DOT",
             "COMMA", "NEWLINE", "PLUS_PLUS"}

Lambdas == {"IDENT", "PIPE", "COMMA", "MINUS", "LPAREN", "RPAREN"}

Ladder == {"IDENT", "LT_LT", "DOT_DOT", "EQ_EQ", "AND"}

MCAlphabets == {Operators, Accesses, Lambdas, Ladder}

RECURSIVE FirstPlace(_)
\* The place of the leftmost token of a tree.
FirstPlace(t) ==
  CASE t.k = "leaf" -> t.at
    [] t.k \in {"unary", "array", "lambda"} -> t.at
    [] t.k = "null" -> 0
    [] OTHER -> FirstPlace(Children(t)[1])

\* Consumed tokens that become a node of their own.
Operative ==
  {i \in 1..(Len(toks) - 1) :
      toks[i] \notin {"LPAREN", "RPAREN", "LBRACKET", "RBRACKET", "NEWLINE",
                      "COMMA", "COLON"}}

\* Without an error every operand and operator that parse_expr consumed is in
\* the tree exactly once, and the operands of a binary node stand on the two
\* sides of its operator, so no token is dropped, duplicated or swapped.
\* (The parameter list of a lambda silently skips what is no name.)
EveryTokenKept ==
  Parsed /\ "PIPE" \notin Range(toks) =>
    LET own == {t \in Nodes(val) : t.k \notin {"null", "paren"}} IN
    /\ \A i \in Operative : Cardinality({t \in own : t.at = i}) = 1
    /\ \A t \in own : t.k = "binary" /\ t.r # Null =>
         FirstPlace(t.l) < t.at /\ t.at < FirstPlace(t.r)

=============================================================================
