---------------------------- MODULE MCStmtParser ----------------------------
(* Alphabets for StmtParser; all of them can open and close functions.     *)
EXTENDS StmtParser

Core == {"IDENT", "LBRACE", "RBRACE", "FUNC"}

Declared    == Core \cup {"NEWLINE", "STRUCT", "ENUM", "MODULE", "PUB", "COLON"}
Traits      == Core \cup {"TRAIT", "PROTOCOL", "IMPL", "FOR", "NEWLINE", "AT"}
Raw         == Core \cup {"ASM", "IMPORT", "HASH", "RUN", "NEWLINE"}
Branches    == Core \cup {"IF", "ELIF", "ELSE", "LET", "NEWLINE", "COLON"}
Loops       == Core \cup {"WHILE", "FOR", "IN", "RETURN", "BREAK", "DEFER", "YIELD", "COMMA"}
Matches     == Core \cup {"MATCH", "CASE", "ARROW", "COMMA", "NEWLINE", "HASH"}
Tries       == Core \cup {"TRY", "CATCH", "FINALLY", "ARROW", "NEWLINE", "ASM"}
Params      == Core \cup {"LPAREN", "RPAREN", "COLON", "COMMA", "EQ"}
Calls       == Core \cup {"LPAREN", "RPAREN", "COMMA", "NEWLINE", "EQ", "HASH", "SPAWN"}
Contracts   == Core \cup {"STRUCT", "CONTRACT", "PRE", "THROWS", "LPAREN", "RPAREN"}
Values      == Core \cup {"CONST", "TYPE", "EQ", "LET", "IF"}
Pools       == Core \cup {"POOL", "COMMA", "INT"}
Regions     == Core \cup {"REGION", "LPAREN", "RPAREN", "STRING"}
Attributed  == Core \cup {"AT", "LPAREN", "RPAREN", "INT", "EQ", "COMMA", "NEWLINE"}
Payloads    == Core \cup {"ENUM", "LPAREN", "RPAREN"}
Catches     == Core \cup {"TRY", "CATCH", "LPAREN", "RPAREN"}

MCAlphabets == {Declared, Traits, Raw, Branches, Loops, Matches, Tries, Params, Calls,
                Contracts, Values, Pools, Regions, Attributed, Payloads, Catches}

\* A catch variable takes a longer text than the rest.
MCMaxTokens == [a \in MCAlphabets |-> IF a = Catches THEN 10 ELSE 8]
=============================================================================
