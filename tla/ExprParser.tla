----------------------------- MODULE ExprParser -----------------------------
(***************************************************************************)
(* The Pratt expression parser of src/parser.c: parse_expr_prec,           *)
(* parse_prefix and parse_infix.  The C call stack is the sequence stack,  *)
(* one frame per pending C call, with `at' the place it resumes from and   *)
(* val the value the last callee returned.  The tokenizer is the           *)
(* environment: each parser_advance reads any token kind, and EOF after at *)
(* most MaxTokens of them, so the runs cover every token sequence over     *)
(* each of the alphabets.                                                  *)
(*                                                                         *)
(* Literals are IDENT, operators with the same row in token_precedence are *)
(* one kind, and `as' casts, match/if expressions, string interpolation    *)
(* and the types of lambda parameters are left out.                        *)
(***************************************************************************)
EXTENDS Integers, Sequences, Functions

CONSTANTS
  Alphabets,   \* sets of token kinds; a source text is made of one of them
  MaxTokens    \* bound on the tokens before EOF

AllKinds ==
  {"IDENT", "STRING", "NEWLINE", "COMMA", "COLON", "SEMICOLON", "LPAREN",
   "RPAREN", "LBRACKET", "RBRACKET", "RBRACE", "DOT", "EQ", "QUESTION", "OR",
   "AND", "EQ_EQ", "PIPE", "CARET", "AMPERSAND", "LT_LT", "DOT_DOT", "MINUS",
   "STAR", "BANG", "PLUS_PLUS"}

ASSUME ExprAssumption ==
  /\ Alphabets \subseteq SUBSET AllKinds
  /\ MaxTokens \in Nat \ {0}
  /\ \A a \in Alphabets : ~({"PIPE", "COLON"} \subseteq a)   \* no typed parameters

VARIABLES
  alphabet, \* the token kinds that occur in the source text
  toks,     \* history: the tokens delivered so far, the current one last
  stack,    \* the pending calls
  val,      \* what the last call returned, or NoVal while one is running
  errors    \* p->error_count, counted up to 1

vars == <<alphabet, toks, stack, val, errors>>

(***************************************************************************)
(* The Precedence enumeration of parser.h and the table of                 *)
(* token_precedence; a token that is no operator has PREC_MIN.             *)
(***************************************************************************)
PREC_MIN == 0
PREC_ASSIGNMENT == 1
PREC_TERNARY == 2
PREC_UNARY == 14
PREC_CALL == 15

token_precedence(kind) ==
  CASE kind \in {"LPAREN", "LBRACKET", "DOT"} -> PREC_CALL
    [] kind = "EQ"             -> PREC_ASSIGNMENT
    [] kind = "QUESTION"       -> PREC_TERNARY
    [] kind = "OR"             -> 3
    [] kind = "AND"            -> 4
    [] kind = "EQ_EQ"          -> 5
    [] kind = "PIPE"           -> 7
    [] kind = "CARET"          -> 8
    [] kind = "AMPERSAND"      -> 9
    [] kind = "LT_LT"          -> 10
    [] kind = "DOT_DOT"        -> 11
    [] kind = "MINUS"          -> 12
    [] kind = "STAR"           -> 13
    [] OTHER                   -> PREC_MIN

BinaryOps ==
  {"EQ", "OR", "AND", "EQ_EQ", "CARET", "AMPERSAND", "LT_LT", "DOT_DOT",
   "MINUS", "STAR"}

UnaryOps == {"MINUS", "BANG", "STAR", "AMPERSAND"}

\* The tokens in front of which the infix loop of parse_expr_prec stops.
StopKinds ==
  {"EOF", "NEWLINE", "RPAREN", "RBRACKET", "RBRACE", "COMMA", "COLON", "SEMICOLON"}

(***************************************************************************)
(* AST nodes.  `at' is the place of the token that made the node.  Paren   *)
(* marks an expression written in parentheses; the code returns the inner  *)
(* node itself, and no rule below looks inside an operand.                 *)
(***************************************************************************)
Null  == [k |-> "null"]
NoVal == [k |-> "noval"]

Leaf(at)             == [k |-> "leaf", at |-> at]
Unary(op, at, e)     == [k |-> "unary", op |-> op, at |-> at, e |-> e]
Postfix(at, e)       == [k |-> "postfix", at |-> at, e |-> e]
Binary(op, at, l, r) == [k |-> "binary", op |-> op, at |-> at, l |-> l, r |-> r]
Ternary(at, c, m, r) == [k |-> "ternary", at |-> at, c |-> c, m |-> m, r |-> r]
Access(at, f, args)  == [k |-> "access", at |-> at, f |-> f, args |-> args]
Array(at, args)      == [k |-> "array", at |-> at, args |-> args]
Lambda(at, ps, e)    == [k |-> "lambda", at |-> at, ps |-> ps, e |-> e]
Paren(e)             == [k |-> "paren", e |-> e]

(***************************************************************************)
(* The token side: p->current and parser_advance.                          *)
(***************************************************************************)
current == toks[Len(toks)]
place   == Len(toks)

\* The kinds the token behind the current one can have.
Upcoming ==
  IF current = "EOF" \/ Len(toks) >= MaxTokens THEN {"EOF"}
  ELSE alphabet \cup {"EOF"}

parser_advance ==
  IF current = "EOF" THEN toks' = toks
  ELSE \E kind \in Upcoming : toks' = Append(toks, kind)

Stay == toks' = toks

parser_error == errors' = 1

\* parser_expect: consume the expected token or report an error in front of it.
parser_expect(kind) ==
  IF current = kind THEN parser_advance /\ UNCHANGED errors
                    ELSE Stay /\ parser_error

(***************************************************************************)
(* The call stack.                                                         *)
(***************************************************************************)
Top   == stack[Len(stack)]
Below == SubSeq(stack, 1, Len(stack) - 1)

Running(at)  == stack # <<>> /\ val = NoVal /\ Top.at = at
Returned(at) == stack # <<>> /\ val # NoVal /\ Top.at = at

Frame(at, left) == [at |-> at, left |-> left, min |-> 0, had |-> FALSE,
                    op |-> "none", pl |-> 0, mid |-> Null, args |-> <<>>]

parse_expr_prec(min) == [Frame("start", Null) EXCEPT !.min = min]
parse_expr   == parse_expr_prec(PREC_MIN)
parse_prefix == Frame("prefix", Null)

Return(v)           == stack' = Below /\ val' = v
Resume(frame)       == stack' = Append(Below, frame) /\ val' = NoVal
Call(frame, callee) == stack' = Below \o <<frame, callee>> /\ val' = NoVal

Init ==
  /\ alphabet \in Alphabets
  /\ \E kind \in alphabet \cup {"EOF"} : toks = <<kind>>
  /\ stack = <<parse_expr>>
  /\ val = NoVal
  /\ errors = 0
----------------------------------------------------------------------------
\* parse_expr_prec up to its call of parse_prefix.
ExprStart ==
  /\ Running("start")
  /\ IF current = "EOF" THEN Return(Null)
     ELSE Call([Top EXCEPT !.at = "postfix"], parse_prefix)
  /\ Stay /\ UNCHANGED errors

(***************************************************************************)
(* parse_prefix, one action per group of cases of its switch.              *)
(***************************************************************************)
PrefixLeaf ==
  /\ Running("prefix") /\ current \in {"IDENT", "STRING"}
  /\ parser_advance /\ Return(Leaf(place))
  /\ UNCHANGED errors

PrefixParen ==
  /\ Running("prefix") /\ current = "LPAREN"
  /\ parser_advance /\ Call(Frame("paren", Null), parse_expr)
  /\ UNCHANGED errors

\* ++ and -- take a prefix expression, the other operators an expression of
\* unary precedence.
PrefixUnary ==
  /\ Running("prefix") /\ current \in UnaryOps \cup {"PLUS_PLUS"}
  /\ parser_advance
  /\ Call([Frame("unary", Null) EXCEPT !.op = current, !.pl = place],
          IF current = "PLUS_PLUS" THEN parse_prefix ELSE parse_expr_prec(PREC_UNARY))
  /\ UNCHANGED errors

PrefixArray ==
  /\ Running("prefix") /\ current = "LBRACKET"
  /\ parser_advance /\ Resume([Frame("elements", Null) EXCEPT !.pl = place])
  /\ UNCHANGED errors

PrefixLambda ==
  /\ Running("prefix") /\ current = "PIPE"
  /\ parser_advance /\ Resume([Frame("params", Null) EXCEPT !.pl = place])
  /\ UNCHANGED errors

PrefixError ==
  /\ Running("prefix")
  /\ current \notin UnaryOps \cup {"IDENT", "STRING", "LPAREN", "PLUS_PLUS",
                                   "LBRACKET", "PIPE"}
  /\ parser_error /\ parser_advance /\ Return(Null)

UnaryOperand ==
  /\ Returned("unary")
  /\ Return(IF Top.op = "PLUS_PLUS" /\ val = Null THEN Null
            ELSE Unary(Top.op, Top.pl, val))
  /\ Stay /\ UNCHANGED errors

ParenEnd ==
  /\ Returned("paren")
  /\ parser_expect("RPAREN")
  /\ Return(IF val = Null THEN Null ELSE Paren(val))

\* The element loop of an array literal.
ArrayElements ==
  /\ Running("elements")
  /\ \/ /\ current \in {"RBRACKET", "EOF"}
        /\ parser_expect("RBRACKET") /\ Return(Array(Top.pl, Top.args))
     \/ /\ current \notin {"RBRACKET", "EOF"}
        /\ Call([Top EXCEPT !.at = "element"], parse_expr)
        /\ Stay /\ UNCHANGED errors

ArrayElement ==
  LET args == Append(Top.args, val) IN
  /\ Returned("element")
  /\ \/ /\ current = "COMMA" /\ parser_advance
        /\ Resume([Top EXCEPT !.at = "elements", !.args = args])
        /\ UNCHANGED errors
     \/ /\ current # "COMMA"
        /\ parser_expect("RBRACKET") /\ Return(Array(Top.pl, args))

\* The parameter loop of a lambda skips a token that is no name.
LambdaParam ==
  /\ Running("params") /\ current \notin {"PIPE", "EOF"}
  /\ parser_advance
  /\ Resume([Top EXCEPT !.at = "param",
               !.args = IF current = "IDENT" THEN Append(@, Leaf(place)) ELSE @])
  /\ UNCHANGED errors

LambdaComma ==
  /\ Running("param") /\ current = "COMMA"
  /\ parser_advance /\ Resume([Top EXCEPT !.at = "params"])
  /\ UNCHANGED errors

LambdaBody ==
  /\ \/ Running("params") /\ current \in {"PIPE", "EOF"}
     \/ Running("param") /\ current # "COMMA"
  /\ parser_expect("PIPE")
  /\ Call([Top EXCEPT !.at = "lambda"], parse_expr)

LambdaEnd ==
  /\ Returned("lambda")
  /\ Return(Lambda(Top.pl, Top.args, val))
  /\ Stay /\ UNCHANGED errors

(***************************************************************************)
(* parse_expr_prec behind the prefix: the postfix loop, then the infix     *)
(* loop, which skips newlines once it has seen an operator.                *)
(***************************************************************************)
PostfixStart ==
  /\ Returned("postfix")
  /\ IF val = Null THEN Return(Null)
     ELSE Resume([Top EXCEPT !.at = "postfixes", !.left = val])
  /\ Stay /\ UNCHANGED errors

PostfixIncrement ==
  /\ Running("postfixes")
  /\ \/ /\ current = "PLUS_PLUS" /\ parser_advance
        /\ Resume([Top EXCEPT !.left = Postfix(place, @)])
     \/ /\ current # "PLUS_PLUS" /\ Stay
        /\ Resume([Top EXCEPT !.at = "infix"])
  /\ UNCHANGED errors

\* Mutant: the newline is seen and not consumed.
SkipNewline_Stays ==
  /\ Running("infix") /\ Top.had /\ current = "NEWLINE"
  /\ Stay
  /\ UNCHANGED <<stack, val, errors>>

SkipNewline ==
  /\ Running("infix") /\ Top.had /\ current = "NEWLINE"
  /\ parser_advance
  /\ UNCHANGED <<stack, val, errors>>

\* Mutant: the loop stops only at a strictly lower level than min_prec - 1.
InfixStops_TooLate ==
  \/ current \in StopKinds
  \/ token_precedence(current) < Top.min - 1
  \/ token_precedence(current) = PREC_MIN

InfixStops ==
  \/ current \in StopKinds
  \/ token_precedence(current) < Top.min
  \/ token_precedence(current) = PREC_MIN

InfixEnd ==
  /\ Running("infix") /\ ~(Top.had /\ current = "NEWLINE")
  /\ InfixStops
  /\ Return(Top.left)
  /\ Stay /\ UNCHANGED errors

\* What parse_infix returned becomes the left operand of the next turn.
InfixResult ==
  /\ Returned("infix")
  /\ IF val = Null THEN Return(Null)
     ELSE Resume([Top EXCEPT !.left = val, !.had = TRUE])
  /\ Stay /\ UNCHANGED errors

AtInfix(kinds) == Running("infix") /\ ~InfixStops /\ current \in kinds

\* Push parse_infix, suspended at `at' with the calls it makes, if any.
Infix(at, op, calls) ==
  /\ stack' = stack \o <<[Frame(at, Top.left) EXCEPT !.op = op, !.pl = place]>> \o calls
  /\ val' = NoVal

InfixCall ==
  /\ AtInfix({"LPAREN"})
  /\ parser_advance /\ Infix("args", "CALL", <<>>)
  /\ UNCHANGED errors

InfixIndex ==
  /\ AtInfix({"LBRACKET"})
  /\ parser_advance /\ Infix("index", "INDEX", <<parse_expr>>)
  /\ UNCHANGED errors

InfixField ==
  /\ AtInfix({"DOT"})
  /\ parser_advance /\ Infix("field", "FIELD", <<>>)
  /\ UNCHANGED errors

\* `left |params| body' is left to the lambda: the operator is not consumed.
InfixPipe ==
  /\ AtInfix({"PIPE"})
  /\ Resume([Top EXCEPT !.had = TRUE])
  /\ Stay /\ UNCHANGED errors

\* lexer_peek_next decides between an error context and a ternary.
InfixQuestion ==
  /\ AtInfix({"QUESTION"})
  /\ parser_advance
  /\ Infix(IF toks'[Len(toks')] = "STRING" THEN "binary" ELSE "middle",
           "QUESTION", <<parse_expr_prec(PREC_TERNARY)>>)
  /\ UNCHANGED errors

InfixBinary ==
  /\ AtInfix(BinaryOps)
  /\ parser_advance
  /\ Infix("binary", current, <<parse_expr_prec(token_precedence(current))>>)
  /\ UNCHANGED errors
(***************************************************************************)
(* parse_infix behind the operator.                                        *)
(***************************************************************************)
BinaryRight ==
  /\ Returned("binary")
  /\ Return(Binary(Top.op, Top.pl, Top.left, val))
  /\ Stay /\ UNCHANGED errors

TernaryMiddle ==
  /\ Returned("middle")
  /\ parser_expect("COLON")
  /\ Call([Top EXCEPT !.at = "else", !.mid = val], parse_expr_prec(PREC_TERNARY - 1))

TernaryElse ==
  /\ Returned("else")
  /\ Return(Ternary(Top.pl, Top.left, Top.mid, val))
  /\ Stay /\ UNCHANGED errors

\* The argument loop of a call; an empty argument is a NONE literal.
CallArguments ==
  /\ Running("args")
  /\ \/ /\ current = "NEWLINE" /\ parser_advance
        /\ UNCHANGED <<stack, val, errors>>
     \/ /\ current \in {"RPAREN", "EOF"}
        /\ parser_expect("RPAREN") /\ Return(Access(Top.pl, Top.left, Top.args))
     \/ /\ current = "COMMA" /\ parser_advance
        /\ Resume([Top EXCEPT !.args = Append(@, Null)])
        /\ UNCHANGED errors
     \/ /\ current \notin {"NEWLINE", "RPAREN", "EOF", "COMMA"}
        /\ Call([Top EXCEPT !.at = "arg"], parse_expr)
        /\ Stay /\ UNCHANGED errors

CallArgument ==
  LET args == Append(Top.args, val) IN
  /\ Returned("arg")
  /\ \/ /\ current = "COMMA" /\ parser_advance
        /\ Resume([Top EXCEPT !.at = "args", !.args = args])
        /\ UNCHANGED errors
     \/ /\ current # "COMMA"
        /\ parser_expect("RPAREN") /\ Return(Access(Top.pl, Top.left, args))

IndexEnd ==
  /\ Returned("index")
  /\ \/ /\ current = "DOT_DOT" /\ parser_advance
        /\ Call([Top EXCEPT !.at = "slice", !.args = <<val>>], parse_expr)
        /\ UNCHANGED errors
     \/ /\ current # "DOT_DOT"
        /\ parser_expect("RBRACKET") /\ Return(Access(Top.pl, Top.left, <<val>>))

SliceEnd ==
  /\ Returned("slice")
  /\ parser_expect("RBRACKET")
  /\ Return(Access(Top.pl, Top.left, Append(Top.args, val)))

\* Mutant: the name of the field is consumed and dropped.
FieldName_Dropped ==
  /\ Running("field")
  /\ IF current = "IDENT"
     THEN parser_advance /\ UNCHANGED errors /\ Return(Top.left)
     ELSE Stay /\ parser_error /\ Return(Top.left)

FieldName ==
  /\ Running("field")
  /\ IF current = "IDENT"
     THEN /\ parser_advance /\ UNCHANGED errors
          /\ Return(Access(Top.pl, Top.left, <<Leaf(place)>>))
     ELSE Stay /\ parser_error /\ Return(Top.left)

----------------------------------------------------------------------------
Prefix ==
  \/ PrefixLeaf \/ PrefixParen \/ PrefixUnary \/ PrefixArray \/ PrefixLambda
  \/ PrefixError \/ UnaryOperand \/ ParenEnd
  \/ ArrayElements \/ ArrayElement
  \/ LambdaParam \/ LambdaComma \/ LambdaBody \/ LambdaEnd

parse_infix ==
  \/ InfixCall \/ InfixIndex \/ InfixField \/ InfixPipe \/ InfixQuestion
  \/ InfixBinary \/ BinaryRight \/ TernaryMiddle \/ TernaryElse
  \/ CallArguments \/ CallArgument \/ IndexEnd \/ SliceEnd \/ FieldName

parse ==
  \/ ExprStart \/ Prefix \/ PostfixStart \/ PostfixIncrement
  \/ SkipNewline \/ InfixEnd \/ InfixResult \/ parse_infix

Next == parse /\ UNCHANGED alphabet

\* The parser is one thread of C code that runs until it returns.
Spec == Init /\ [][Next]_vars /\ WF_vars(Next)

Done == stack = <<>>

----------------------------------------------------------------------------
(* Properties.                                                             *)

\* The direct subexpressions of a node.
Children(t) ==
  CASE t.k \in {"unary", "postfix", "paren"} -> <<t.e>>
    [] t.k = "binary"  -> <<t.l, t.r>>
    [] t.k = "ternary" -> <<t.c, t.m, t.r>>
    [] t.k = "access"  -> <<t.f>> \o t.args
    [] t.k = "array"   -> t.args
    [] t.k = "lambda"  -> t.ps \o <<t.e>>
    [] OTHER           -> <<>>

WithChildren(S) == S \cup UNION {Range(Children(u)) : u \in S}

\* A node and everything below it.  Every level of a tree has a token of its own,
\* and only a missing operand has none.
Nodes(t) ==
  LET Down[n \in Nat] == IF n = 0 THEN {t} ELSE WithChildren(Down[n - 1])
  IN Down[MaxTokens]

Parsed == Done /\ val # Null /\ errors = 0

\* The levels of SPECIFICATION.md 3.5, the tightest one highest.  The table does
\* not mention the conditional, which stands where parser.h has it.
Level(op) ==
  CASE op \in {"LPAREN", "LBRACKET", "DOT"} -> 15
    [] op = "STAR"      -> 13
    [] op = "MINUS"     -> 12
    [] op = "LT_LT"     -> 10
    [] op = "AMPERSAND" -> 9
    [] op = "CARET"     -> 8
    [] op = "PIPE"      -> 7
    [] op = "DOT_DOT"   -> 6
    [] op = "EQ_EQ"     -> 5
    [] op = "AND"       -> 4
    [] op = "OR"        -> 3
    [] op = "QUESTION"  -> 2
    [] op = "EQ"        -> 1
    [] OTHER            -> 0

\* The level at which an operand binds; what stands in parentheses is primary.
Binds(t) ==
  CASE t.k = "binary"  -> Level(t.op)
    [] t.k = "ternary" -> Level("QUESTION")
    [] t.k = "unary"   -> 14
    [] OTHER           -> 15

\* parser.h has the range above the shift: `a << b .. c' is `a << (b .. c)'.
RangeInside(op, u) ==
  op \in {"PIPE", "CARET", "AMPERSAND", "LT_LT"} /\ u.k = "binary" /\ u.op = "DOT_DOT"

IncDec(t) == t.k = "unary" /\ t.op = "PLUS_PLUS"

\* No operand of t is looser than t; a missing one has been reported or ends the
\* text.  A condition is no conditional itself, and neither it nor the middle is
\* an assignment; the part behind `:' may be one (PREC_TERNARY - 1).  What is
\* called, indexed or selected from is primary or `++ e', which parse_prefix
\* returns before it has seen what follows; `++' behind an expression may take
\* the whole prefix expression in front of it.
Climbs(t) ==
  CASE t.k = "binary" ->
         \A u \in {t.l, t.r} \ {Null} : Binds(u) >= Level(t.op) \/ RangeInside(t.op, u)
    [] t.k = "unary" -> t.e # Null => Binds(t.e) >= 14
    [] t.k = "ternary" -> /\ Binds(t.c) > Level("QUESTION")
                          /\ t.m # Null => Binds(t.m) >= Level("QUESTION")
    [] t.k = "access"  -> Binds(t.f) = 15 \/ IncDec(t.f)
    [] t.k = "postfix" -> Binds(t.e) >= 14
    [] OTHER -> TRUE

\* On one line no operator has an operand of a looser level than the specification
\* gives it, unless it is parenthesised; the exceptions are those of RangeInside and
\* Climbs.  (Across lines there are more: the newline test of parse_expr_prec looks
\* at this call's operators only.)
PrecedenceClimbs ==
  Parsed /\ "NEWLINE" \notin Range(toks) =>
    \A t \in Nodes(val) : Climbs(t)

\* The text was an expression from its first token to its last one.
Whole == Parsed /\ current = "EOF" /\ Null \notin Nodes(val)

\* SPECIFICATION.md:230 `| 4 | `+` `-` | Left-to-right | Additive |': the right operand
\* of a subtraction is none.  parse_infix passes the level of the operator on, not the
\* next one, so that `a - b - c' is `a - (b - c)'.
LeftToRight ==
  Whole => \A t \in Nodes(val) :
    t.k = "binary" /\ t.op = "MINUS" => ~(t.r.k = "binary" /\ t.r.op = "MINUS")

\* SPECIFICATION.md:243 `Postfix `++` and `--` have the same precedence as level 1
\* (evaluated before prefix operators)': no postfix ++, call, index or field is applied to
\* what a prefix operator made.
PostfixFirst ==
  Whole => \A t \in Nodes(val) :
    /\ t.k = "postfix" => t.e.k # "unary"
    /\ t.k = "access" => t.f.k # "unary"

\* SPECIFICATION.md:235 `| 9 | `..` `..=` | Left-to-right | Range |', below the shift and
\* the bitwise operators: neither takes a range as operand.
RangeLoosest ==
  Whole => \A t \in Nodes(val) :
    t.k = "binary" => \A u \in {t.l, t.r} : ~RangeInside(t.op, u)

\* parse_expr returns on every token sequence, well-formed or not, unless it meets a
\* binary `|': parse_infix leaves that token to the caller, whose loop never consumes
\* it.  A `|' that begins a lambda does no harm.
ParseReturns == <>(Done \/ AtInfix({"PIPE"}))

=============================================================================
