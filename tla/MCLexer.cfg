SPECIFICATION MCSpec
CONSTANTS
  Kinds = {a, b}
  EOF = EOF
  MaxErrors = 1
  MaxLen = 4
INVARIANT LexerInv
PROPERTIES DeliversInOrder SyncReturns
