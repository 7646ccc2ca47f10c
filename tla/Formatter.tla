----------------------------- MODULE Formatter -----------------------------
(***************************************************************************)
(* cmd_fmt of src/aether.c: `aether fmt' tokenizes a file and writes the   *)
(* tokens back over it with normalised blanks.  Here the result is then    *)
(* tokenized again, as the next compilation of the file does.              *)
(***************************************************************************)
EXTENDS Tokenizer, SequencesExt

VARIABLES
  pass,   \* 1: cmd_fmt reads the file; 2: the next reader of the file
  first   \* the tokens of the first pass

fvars == <<tvars, pass, first>>

Init ==
  /\ \E s \in Sources : tokenizer_create(s)
  /\ pass = 1 /\ first = <<>>

\* The keywords a blank is put before (`if' stands for six of them), and the
\* tokens a blank is put behind.
SpaceBefore(tok) == tok.type = "KW" /\ tok.text = <<"i", "f">>

SpaceAfter(tok) == tok.type = "OP" /\ tok.text \in {<<",">>, <<";">>, <<":">>, <<"-", ">">>}

\* Mutant: a newline is dropped instead of written.
EmitToken_JoinsLines(f, tok) ==
  IF tok.type = "NEWLINE"
  THEN [out |-> f.out, prev_newline |-> TRUE, full |-> f.full]
  ELSE [out |-> f.out \o tok.text, prev_newline |-> FALSE, full |-> f.full]

\* One turn of the loop of cmd_fmt.  Runs of newlines become one; indent is
\* never changed from 0; the loop is left when the buffer of twice the size of
\* the source would overflow.
EmitToken(f, tok) ==
  LET lead == IF SpaceBefore(tok) /\ f.out # <<>> /\ Last(f.out) \notin {"\n", " "}
              THEN <<" ">> ELSE <<>>
      room == Len(f.out) + Len(lead) + Len(tok.text) + 1 <= 2 * Len(src)
      trail == IF SpaceAfter(tok) THEN <<" ">> ELSE <<>>
  IN IF f.full THEN f
     ELSE IF tok.type = "NEWLINE"
     THEN [f EXCEPT !.out = IF f.prev_newline THEN @ ELSE Append(@, "\n"), !.prev_newline = TRUE]
     ELSE IF ~room THEN [f EXCEPT !.out = @ \o lead, !.full = TRUE]
     ELSE [out |-> f.out \o lead \o tok.text \o trail, prev_newline |-> FALSE, full |-> FALSE]

Formatted ==
  FoldLeft(EmitToken, [out |-> <<>>, prev_newline |-> FALSE, full |-> FALSE], Front(toks)).out

\* The file is written back; an error token ends cmd_fmt without writing.
Rewrite ==
  /\ pass = 1 /\ mode = "end"
  /\ \A k \in 1..Len(toks) : toks[k].type # "ERROR"
  /\ pass' = 2 /\ first' = toks
  /\ src' = Formatted
  /\ t' = [start |-> 1, pos |-> 1, line |-> 1]
  /\ mode' = "code" /\ depth' = 0 /\ toks' = <<>>

Scan == tokenizer_next /\ UNCHANGED <<pass, first>>

Next == Scan \/ Rewrite

Spec == Init /\ [][Next]_fvars /\ WF_fvars(Next)

----------------------------------------------------------------------------
Kinds(ts) == [k \in 1..Len(ts) |-> <<ts[k].type, IF ts[k].type = "EOF" THEN <<>> ELSE ts[k].text>>]

\* The tokens of the first pass with runs of newlines reduced to one.
Squeezed ==
  SelectSeq([k \in 1..Len(first) |-> [tok |-> first[k],
                 keep |-> k = 1 \/ first[k].type # "NEWLINE" \/ first[k - 1].type # "NEWLINE"]],
            LAMBDA e : e.keep)

\* No blank or comment that stood between two tokens of a line is lost: they
\* touch, or cmd_fmt puts a blank there itself.
Tight ==
  \A k \in 1..Len(first) - 1 :
    \/ first[k].end = IF first[k + 1].type = "EOF" THEN first[k + 1].end ELSE first[k + 1].start
    \/ first[k].type = "NEWLINE" \/ first[k + 1].type = "NEWLINE"
    \/ SpaceAfter(first[k]) \/ SpaceBefore(first[k + 1])

\* Formatting preserves the program: the file that is written back has the
\* tokens of the file that was read.  It does so when no blank between two
\* tokens is lost (Tight); cmd_fmt copies only those it knows about.
FmtKeepsTokens ==
  (pass = 2 /\ mode = "end" /\ Tight) =>
    Kinds(toks) = Kinds([k \in 1..Len(Squeezed) |-> Squeezed[k].tok])

============================================================================
