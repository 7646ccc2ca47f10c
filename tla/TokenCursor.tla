---------------------------- MODULE TokenCursor ----------------------------
(***************************************************************************)
(* What a token source promises its reader, whatever buffers it keeps: the *)
(* tokens of the input, each one once and in order, with EOF repeated for  *)
(* ever behind the last, and a look-ahead of one token that moves nothing. *)
(* A token is its place in the input; place 0 is "before the first token". *)
(***************************************************************************)
EXTENDS Integers, Sequences

CONSTANTS Kinds, EOF

VARIABLES
  input,  \* the kinds of the tokens of the source text
  cur,    \* the current token
  ret     \* the token the last call returned

cursorVars == <<input, cur, ret>>

EofAt == Len(input) + 1

Kind(i) == IF i \in 1..Len(input) THEN input[i] ELSE EOF

Succ(i)  == IF i < EofAt THEN i + 1 ELSE EofAt
First(i) == IF i = 0 THEN 1 ELSE i

CursorInit ==
  /\ input \in Seq(Kinds)
  /\ cur = 0 /\ ret = 0

\* Go to the next token and return the one left behind.
Advance == ret' = cur /\ cur' = Succ(cur)

\* Return the current token, reading the first one if none was read.
Peek == cur' = First(cur) /\ ret' = cur'

\* Return the token behind the current one.
PeekNext == cur' = First(cur) /\ ret' = Succ(cur')

\* Consume the current token and return it.
Take == ret' = First(cur) /\ cur' = Succ(ret')

\* Look at the current token, or consume it, returning only a Boolean.
Test == cur' \in {First(cur), Succ(First(cur))} /\ ret' = ret

CursorNext ==
  /\ Advance \/ Peek \/ PeekNext \/ Take \/ Test
  /\ UNCHANGED input

CursorSpec == CursorInit /\ [][CursorNext]_cursorVars

=============================================================================
