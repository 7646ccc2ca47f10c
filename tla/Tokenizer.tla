----------------------------- MODULE Tokenizer -----------------------------
(***************************************************************************)
(* src/tokenizer.c: from the characters of a source file to tokens.  The   *)
(* scan functions are operators from the place of a lexeme to the place    *)
(* behind it; what scans piecewise (strings, nested block comments) is a   *)
(* mode of the machine.  A character is a member of a small alphabet that  *)
(* has every class the code tells apart; columns and the numeric values of *)
(* literals are left out.                                                  *)
(***************************************************************************)
EXTENDS Integers, Sequences, FiniteSetsExt

CONSTANTS
  Sources,   \* the source texts explored, sequences of characters
  Keywords   \* the spellings in KEYWORDS

Blank == {" ", "\t"}
Digit == {"0", "1"}
HexChar == Digit \cup {"a", "e"}
IdentStart == {"a", "e", "i", "f", "o", "p", "r", "u", "n", "x", "_"}
IdentContinue == IdentStart \cup Digit
OpStart == {"=", "<", "-", "*", ":", ".", "|"}
Single == {"(", ",", ";"}
NonAscii == {"lead", "cont"}   \* bytes above 127; "cont" is a continuation byte

\* "$" stands for the characters no branch expects.
Char ==
  Blank \cup IdentContinue \cup OpStart \cup Single \cup NonAscii
    \cup {"\n", "\\", "/", "#", "\"", "'", "$"}

ASSUME SourceAssumption == Sources \subseteq Seq(Char)

VARIABLES
  src,    \* the source text
  t,      \* the Tokenizer struct: start, pos and line
  mode,   \* "code", "string", "block" (in a block comment), "end"
  depth,  \* nesting of the block comment being skipped
  toks    \* the tokens returned so far

tvars == <<src, t, mode, depth, toks>>

End == Len(src) + 1

At(i) == IF i \in 1..Len(src) THEN src[i] ELSE "end"

RunEnd(i, S) == Min({j \in i..End : At(j) \notin S})

Text(from, to) == SubSeq(src, from, Min({to - 1, Len(src)}))

Newlines(from, to) == Cardinality({i \in from..to - 1 : At(i) = "\n"})

\* Mutant: the last test of a case is missing.
TwoChar_Short ==
  {<<"=", "=">>, <<"<", "=">>, <<"<", "<">>, <<"-", ">">>, <<"-", "=">>, <<"*", "=">>,
   <<":", ":">>, <<".", ".">>}

\* The operators a character starts when one more character follows it.  The case
\* of | compares a character with '||', which no character equals.
TwoChar ==
  {<<"=", "=">>, <<"<", "=">>, <<"<", "<">>, <<"-", ">">>, <<"-", "=">>, <<"-", "-">>,
   <<"*", "=">>, <<"*", "*">>, <<":", ":">>, <<".", ".">>}

----------------------------------------------------------------------------
tokenizer_create(s) ==
  /\ src = s
  /\ t = [start |-> 1, pos |-> 1, line |-> 1]
  /\ mode = "code" /\ depth = 0
  /\ toks = <<>>

\* make_token: the token spans start..pos and has the line the scan ended on.
make_token(type, from, to, line) ==
  /\ toks' = Append(toks, [type |-> type, start |-> from, end |-> to,
                           line |-> line, text |-> Text(from, to)])
  /\ t' = [start |-> from, pos |-> to, line |-> line]

\* A branch of tokenizer_next that returns the token from here to `to'.
Return(type, to) ==
  /\ make_token(type, t.pos, to, t.line)
  /\ UNCHANGED <<src, mode, depth>>

\* Characters skipped: tokenizer_next notes where it starts, its helpers do not.
Advance(to, line) ==
  /\ t' = [start |-> IF mode = "code" THEN t.pos ELSE t.start, pos |-> to, line |-> line]
  /\ UNCHANGED <<src, toks>>

Here(S) == mode = "code" /\ At(t.pos) \in S

Ahead(word) == \A k \in 1..Len(word) : At(t.pos + k - 1) = word[k]

----------------------------------------------------------------------------
(* The branches of tokenizer_next, in the order of the code.               *)

SkipBlanks == Here(Blank) /\ Advance(RunEnd(t.pos, Blank), t.line) /\ UNCHANGED <<mode, depth>>

Newline ==
  /\ Here({"\n"})
  /\ make_token("NEWLINE", t.pos, t.pos + 1, t.line + 1)
  /\ UNCHANGED <<src, mode, depth>>

Backslash == Here({"\\"}) /\ Return("BACKSLASH", t.pos + 1)

\* scan_comment: to the end of the line, the newline included.
scan_comment ==
  /\ mode = "code" /\ Ahead(<<"/", "/">>)
  /\ LET eol == Min({j \in t.pos..End : At(j) \in {"\n", "end"}}) IN
     Advance(Min({eol + 1, End}), t.line + Newlines(t.pos, eol + 1))
  /\ UNCHANGED <<mode, depth>>

OpenBlock ==
  /\ mode = "code" /\ Ahead(<<"/", "*">>)
  /\ Advance(t.pos + 2, t.line)
  /\ mode' = "block" /\ depth' = 1

\* Mutant: a newline inside a block comment is not counted.
scan_block_comment_NoCount ==
  /\ mode = "block" /\ t.pos < End
  /\ LET step == IF Ahead(<<"*", "/">>) THEN -1 ELSE IF Ahead(<<"/", "*">>) THEN 1 ELSE 0 IN
     /\ Advance(t.pos + (IF step = 0 THEN 1 ELSE 2), t.line)
     /\ depth' = depth + step
     /\ mode' = IF depth + step = 0 THEN "code" ELSE "block"

\* scan_block_comment, one turn of its loop.
scan_block_comment ==
  /\ mode = "block" /\ t.pos < End
  /\ LET step == IF Ahead(<<"*", "/">>) THEN -1 ELSE IF Ahead(<<"/", "*">>) THEN 1 ELSE 0 IN
     /\ IF step = 0 THEN Advance(t.pos + 1, t.line + Newlines(t.pos, t.pos + 1))
                    ELSE Advance(t.pos + 2, t.line)
     /\ depth' = depth + step
     /\ mode' = IF depth + step = 0 THEN "code" ELSE "block"

UnclosedBlock ==
  /\ mode = "block" /\ t.pos >= End
  /\ make_token("ERROR", t.start, t.pos, t.line)
  /\ mode' = "code" /\ depth' = 0
  /\ UNCHANGED src

Slash == Here({"/"}) /\ At(t.pos + 1) \notin {"/", "*"} /\ Return("OP", t.pos + 1)

Hash == Here({"#"}) /\ Return("HASH", t.pos + 1)

IsOpName == Ahead(<<"o", "p", "_">>)

OpNameEnds == {"(", ",", ";", ":", "\n", "end"} \cup Blank

OpName ==
  /\ mode = "code" /\ IsOpName
  /\ Return("IDENT", Min({j \in t.pos + 3..End : At(j) \in OpNameEnds}))

scan_ident_or_keyword ==
  /\ Here(IdentStart) /\ ~IsOpName
  /\ LET to == RunEnd(t.pos, IdentContinue) IN
     Return(IF Text(t.pos, to) \in Keywords THEN "KW" ELSE "IDENT", to)

\* scan_number: a prefixed integer (0x stands for 0x, 0b and 0o), or digits with a
\* fraction and an exponent.
scan_number ==
  /\ Here(Digit)
  /\ LET digits == Digit \cup {"_"}
         whole == RunEnd(t.pos, digits)
         frac == IF At(whole) = "." /\ At(whole + 1) \in Digit
                 THEN RunEnd(whole + 1, digits) ELSE whole
         sign == IF At(frac + 1) = "-" THEN 2 ELSE 1
         exp == IF At(frac) = "e" THEN RunEnd(frac + sign, digits) ELSE frac
     IN IF Ahead(<<"0", "x">>)
        THEN Return("INT", RunEnd(t.pos + 2, HexChar \cup {"_"}))
        ELSE Return(IF exp = whole THEN "INT" ELSE "FLOAT", exp)

OpenString ==
  /\ Here({"\""}) /\ Advance(t.pos + 1, t.line)
  /\ mode' = "string"
  /\ UNCHANGED depth

\* scan_string, one turn of its loop: an escape takes two characters.
scan_string ==
  /\ mode = "string" /\ At(t.pos) \notin {"\"", "end"}
  /\ LET to == IF At(t.pos) = "\\" /\ t.pos + 1 < End THEN t.pos + 2 ELSE t.pos + 1 IN
     Advance(to, t.line + Newlines(t.pos, to))
  /\ UNCHANGED <<mode, depth>>

\* The closing quote, or the end of the source, which closes it silently.
CloseString ==
  /\ mode = "string" /\ At(t.pos) \in {"\"", "end"}
  /\ make_token("STRING", t.start, Min({t.pos + 1, End}), t.line)
  /\ mode' = "code"
  /\ UNCHANGED <<src, depth>>

\* Mutant: the escaped character is not tested against the end.
CharEnd_Unchecked(i) ==
  LET body == IF At(i + 1) # "\\" THEN i + 2
              ELSE IF At(i + 2) # "x" THEN i + 3
              ELSE i + 5
  IN IF At(body) = "'" THEN body + 1 ELSE body

\* scan_char: the place behind the literal that opens at i.
CharEnd(i) ==
  LET body == IF At(i + 1) = "end" THEN i + 1
              ELSE IF At(i + 1) # "\\" THEN i + 2
              ELSE IF At(i + 2) = "end" THEN i + 2
              ELSE IF At(i + 2) # "x" THEN i + 3
              ELSE IF At(i + 3) \in HexChar /\ At(i + 4) \in HexChar THEN i + 5 ELSE i + 4
  IN IF At(body) = "'" THEN body + 1 ELSE body

scan_char == Here({"'"}) /\ Return("CHAR", CharEnd(t.pos))

\* Operators of up to three characters.  As the last character of the source
\* they fall through to the single-character switch, which has no case for them.
Operator ==
  /\ Here(OpStart)
  /\ IF t.pos + 1 = End THEN Return("ERROR", t.pos + 1)
     ELSE IF Ahead(<<".", ".", "=">>) THEN Return("OP", t.pos + 3)
     ELSE IF Text(t.pos, t.pos + 2) \in TwoChar THEN Return("OP", t.pos + 2)
     ELSE Return("OP", t.pos + 1)

SingleChar == Here(Single) /\ Return("OP", t.pos + 1)

\* A byte above 127: pos is already behind it, and is advanced once more
\* before the continuation bytes are skipped.
UnicodeOp ==
  /\ Here(NonAscii)
  /\ LET from == t.pos + 2 IN
     Return("UNICODE", IF from > End THEN from ELSE RunEnd(from, {"cont"}))

\* Mutant: the offending character is left in the input.
Unexpected_Stays ==
  /\ Here({"$"})
  /\ UNCHANGED tvars

Unexpected == Here({"$"}) /\ Return("ERROR", t.pos + 1)

\* The loop is left: TOKEN_EOF, again at every further call.  Its text starts
\* where the last scan started.
Eof ==
  /\ mode \in {"code", "end"} /\ t.pos >= End
  /\ mode' = "end"
  /\ IF mode = "code" THEN make_token("EOF", t.start, t.pos, t.line) ELSE UNCHANGED <<t, toks>>
  /\ UNCHANGED <<src, depth>>

tokenizer_next ==
  \/ SkipBlanks \/ Newline \/ Backslash
  \/ scan_comment \/ OpenBlock \/ scan_block_comment \/ UnclosedBlock
  \/ Slash \/ Hash \/ OpName \/ scan_ident_or_keyword \/ scan_number
  \/ OpenString \/ scan_string \/ CloseString \/ scan_char
  \/ Operator \/ SingleChar \/ UnicodeOp \/ Unexpected \/ Eof

\* One source is read from its start.
TokenizerSpec == (\E s \in Sources : tokenizer_create(s)) /\ [][tokenizer_next]_tvars

----------------------------------------------------------------------------
(* Properties.                                                             *)

TokenType ==
  {"NEWLINE", "BACKSLASH", "OP", "HASH", "IDENT", "KW", "INT", "FLOAT", "STRING", "CHAR",
   "UNICODE", "ERROR", "EOF"}

\* A token spans a stretch of the text that was scanned, has that text, and a
\* line that was reached.
TokenOK(tok) ==
  /\ tok.type \in TokenType
  /\ tok.start \in 1..tok.end /\ tok.end \in 1..t.pos /\ tok.line \in 1..t.line
  /\ tok.text = Text(tok.start, tok.end)

\* The scan stays inside the buffer and its NUL, and no character is in two
\* tokens.  The one exception is a literal at the end of the text: a truncated
\* '\x escape and a lone byte above 127 leave pos one place behind the NUL,
\* and only they.  The text of TOKEN_EOF may start at the last scan again.
TypeOK ==
  /\ src \in Seq(Char)
  /\ t.pos \in 1..End + 1 /\ t.start \in 1..t.pos /\ t.line \in 1..End
  /\ mode \in {"code", "string", "block", "end"}
  /\ depth \in 0..Len(src) /\ (depth > 0) = (mode = "block")
  /\ \A k \in 1..Len(toks) : TokenOK(toks[k])
  /\ \A k \in 1..Len(toks) - 1 : toks[k + 1].type # "EOF" => toks[k].end <= toks[k + 1].start
  /\ t.pos > End => \E k \in 1..Len(toks) : /\ toks[k].type \in {"CHAR", "UNICODE"}
                                            /\ toks[k].end = t.pos

\* scan_char, and the second advance over a lone byte above 127, step over a
\* character without looking whether it is a newline.
SteppedOver(i) ==
  \E k \in 1..Len(toks) : /\ toks[k].type \in {"CHAR", "UNICODE"}
                          /\ i \in toks[k].start..toks[k].end - 1

\* The line the next token is reported on is the line of the source it is on,
\* through comments, strings over several lines and escaped newlines: the two
\* scans named above are the only ones that lose count.
LineAgrees ==
  t.line = 1 + Cardinality({i \in 1..t.pos - 1 : At(i) = "\n" /\ ~SteppedOver(i)})

Touching(k) == toks[k].end = toks[k + 1].start

\* The operators of more than one character that tokenizer.h lists, as far as
\* Char has their characters.
Spelled ==
  {<<"=", "=">>, <<"<", "=">>, <<"<", "<">>, <<"-", ">">>, <<"-", "=">>, <<"-", "-">>,
   <<"*", "=">>, <<"*", "*">>, <<":", ":">>, <<".", ".">>, <<".", ".", "=">>,
   <<"|", "|">>, <<"/", "=">>}

\* No two tokens that touch spell one of these operators together.
Unsplit(ops) ==
  \A k \in 1..Len(toks) - 1 :
    (toks[k].type = "OP" /\ toks[k + 1].type = "OP" /\ Touching(k)) =>
      toks[k].text \o toks[k + 1].text \notin ops

\* Longest match: no token could have been extended by the characters that
\* follow it.  A word stops before a character that cannot continue it, and two
\* operators that touch do not spell a longer one -- except || and /=, whose
\* branches the code never takes.
LongestMatch ==
  /\ \A k \in 1..Len(toks) - 1 : toks[k].type \in {"IDENT", "KW"} => At(toks[k].end) \notin IdentContinue
  /\ Unsplit(Spelled \ {<<"|", "|">>, <<"/", "=">>})

\* What tokenizer.h says: each of its operators is a token.  || and /= are not.
OperatorsWhole == Unsplit(Spelled)

\* Every source is scanned to its end, whatever it contains: unclosed strings
\* and comments, unexpected characters, truncated escapes.
ReachesEof == <>(mode = "end")

============================================================================
