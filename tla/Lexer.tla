------------------------------- MODULE Lexer -------------------------------
(***************************************************************************)
(* src/lexer.c: the one-token look-ahead between the tokenizer and the     *)
(* parser.  The tokenizer is a source of token places that repeats EOF;    *)
(* the lexer keeps two of its tokens, `current' and `next', each with a    *)
(* flag that says whether it is filled.  The struct is the record lexer,   *)
(* and the C functions that change it are operators on that record, so     *)
(* that functions which call each other compose as they do in C.           *)
(***************************************************************************)
EXTENDS Integers, Sequences

CONSTANTS
  Kinds,       \* token types other than TOKEN_EOF
  EOF,         \* TOKEN_EOF
  MaxErrors    \* bound on the errors explored

ASSUME LexerAssumption == EOF \notin Kinds /\ MaxErrors \in Nat

VARIABLES
  input,    \* the kinds of the tokens the tokenizer finds in the source
  lexer,    \* the Lexer struct, with pos standing for its Tokenizer
  ret,      \* the token the last call returned (0: the zeroed struct)
  syncing   \* the targets of a running lexer_sync_to, {} when none runs

vars == <<input, lexer, ret, syncing>>

EofAt == Len(input) + 1

Kind(i) == IF i \in 1..Len(input) THEN input[i] ELSE EOF

LexerState ==
  [pos : Nat, current : Nat, next : Nat,
   has_current : BOOLEAN, has_next : BOOLEAN, error_count : Nat]

\* tokenizer_next: the place of the token it returns, and where it is then.
TokenizerNext(l) == IF l.pos < EofAt THEN l.pos + 1 ELSE EofAt

lexer_create ==
  [pos |-> 0, current |-> 0, next |-> 0,
   has_current |-> FALSE, has_next |-> FALSE, error_count |-> 0]

\* Mutant: the look-ahead token is dropped instead of becoming current.
lexer_advance_LosesNext(l) ==
  [l EXCEPT !.current = TokenizerNext(l), !.pos = TokenizerNext(l),
            !.has_next = FALSE, !.has_current = TRUE]

\* Mutant: the look-ahead token stays marked as filled.
lexer_advance_KeepsNext(l) ==
  IF l.has_next
  THEN [l EXCEPT !.current = l.next, !.has_current = TRUE]
  ELSE [l EXCEPT !.current = TokenizerNext(l), !.pos = TokenizerNext(l),
                 !.has_current = TRUE]

lexer_advance(l) ==
  IF l.has_next
  THEN [l EXCEPT !.current = l.next, !.has_next = FALSE, !.has_current = TRUE]
  ELSE [l EXCEPT !.current = TokenizerNext(l), !.pos = TokenizerNext(l),
                 !.has_current = TRUE]

lexer_peek(l) ==
  IF l.has_current
  THEN l
  ELSE [l EXCEPT !.current = TokenizerNext(l), !.pos = TokenizerNext(l),
                 !.has_current = TRUE]

lexer_peek_next(l) ==
  LET m == lexer_peek(l) IN
  IF m.has_next
  THEN m
  ELSE [m EXCEPT !.next = TokenizerNext(m), !.pos = TokenizerNext(m),
                 !.has_next = TRUE]

----------------------------------------------------------------------------
Init ==
  /\ input \in Seq(Kinds)
  /\ lexer = lexer_create
  /\ ret = 0
  /\ syncing = {}

Idle == syncing = {} /\ UNCHANGED <<input, syncing>>

AdvanceCall ==
  /\ Idle
  /\ lexer' = lexer_advance(lexer)
  /\ ret' = lexer.current

\* lexer_peek, and lexer_check / lexer_check_any / lexer_dump which call it.
PeekCall ==
  /\ Idle
  /\ lexer' = lexer_peek(lexer)
  /\ ret' \in {lexer'.current, ret}

PeekNextCall ==
  /\ Idle
  /\ lexer' = lexer_peek_next(lexer)
  /\ ret' = lexer'.next

lexer_expect(type) ==
  LET l == lexer_peek(lexer) IN
  /\ Idle
  /\ lexer' = IF Kind(l.current) = type THEN lexer_advance(l) ELSE l
  /\ UNCHANGED ret

\* A mismatch is reported and counted; the token stays where it is.
lexer_expect_or_error(type) ==
  LET l == lexer_peek(lexer) IN
  /\ Idle
  /\ \/ /\ Kind(l.current) = type
        /\ lexer' = lexer_advance(l)
     \/ /\ Kind(l.current) # type
        /\ l.error_count < MaxErrors
        /\ lexer' = [l EXCEPT !.error_count = @ + 1]
  /\ ret' = l.current

\* Mutant: the loop does not look for the end of the source.
SyncDone_NoEof(l) == Kind(l.current) \in syncing

\* The two returns of lexer_sync_to's loop.
SyncDone(l) == Kind(l.current) = EOF \/ Kind(l.current) \in syncing

lexer_sync_to(targets) ==
  /\ syncing = {}
  /\ syncing' = targets
  /\ UNCHANGED <<input, lexer, ret>>

\* One turn of the loop of lexer_sync_to.
SyncTurn ==
  LET l == lexer_peek(lexer) IN
  /\ syncing # {}
  /\ \/ /\ SyncDone(l)
        /\ lexer' = l /\ syncing' = {}
     \/ /\ ~SyncDone(l)
        /\ lexer' = lexer_advance(l)
        /\ syncing' = syncing
  /\ UNCHANGED <<input, ret>>

Next ==
  \/ AdvanceCall
  \/ PeekCall
  \/ PeekNextCall
  \/ \E type \in Kinds \cup {EOF} : lexer_expect(type) \/ lexer_expect_or_error(type)
  \/ \E targets \in (SUBSET Kinds) \ {{}} : lexer_sync_to(targets)
  \/ SyncTurn

Spec == Init /\ [][Next]_vars

\* The loop is a C loop: once entered it takes its next turn.
FairSpec == Spec /\ WF_vars(SyncTurn)

----------------------------------------------------------------------------
\* The Lexer struct has its types.
LexerTypeOK ==
  /\ input \in Seq(Kinds)
  /\ lexer \in LexerState
  /\ ret \in Nat
  /\ syncing \subseteq Kinds

\* The two flags say what the buffer holds, and together with `current' and
\* `next' account for every token the tokenizer has delivered.
Buffered ==
  /\ lexer.has_current <=> lexer.current # 0
  /\ lexer.has_next => lexer.has_current /\ lexer.next = lexer.pos
  /\ lexer.current <= EofAt /\ lexer.pos <= EofAt
  /\ IF lexer.has_next
     THEN lexer.pos = IF lexer.current < EofAt THEN lexer.current + 1 ELSE EofAt
     ELSE lexer.pos = lexer.current

\* Both: what lexer.c keeps between two calls.
LexerInv == LexerTypeOK /\ Buffered

Cursor == INSTANCE TokenCursor WITH cur <- lexer.current

\* lexer_advance, _peek, _peek_next, _expect, _expect_or_error and _sync_to
\* deliver every token of the source once and in order, however look-ahead and
\* consumption are interleaved.
DeliversInOrder == Cursor!CursorSpec

\* lexer_sync_to returns on every input, with or without a target ahead.
SyncReturns == (syncing # {}) ~> (syncing = {})

=============================================================================
