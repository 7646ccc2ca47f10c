------------------------------ MODULE MCLexer ------------------------------
EXTENDS Lexer, SequencesExt

CONSTANT MaxLen   \* bound on the length of the token sequences explored

\* Every token sequence of up to MaxLen tokens.
MCInit == input \in BoundedSeq(Kinds, MaxLen) /\ Init
MCSpec == MCInit /\ [][Next]_vars /\ WF_vars(SyncTurn)
=============================================================================
