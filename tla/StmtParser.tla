----------------------------- MODULE StmtParser -----------------------------
(***************************************************************************)
(* The recursive descent part of src/parser.c: declarations, statements,   *)
(* blocks, match arms and error recovery.  The C call stack is the         *)
(* sequence stack, one place of the code per pending call; no tree is      *)
(* built.  The tokenizer is the environment: parser_advance reads any      *)
(* token of the alphabet, and EOF after at most MaxTokens[alphabet], so    *)
(* the runs cover every token sequence over each of the alphabets.         *)
(*                                                                         *)
(* DEFER stands for unsafe too, RETURN for throw, BREAK for continue, PRE  *)
(* for post, STRUCT for class.  Of the operators there are assignment,     *)
(* calls, parentheses and # (ExprParser has the others).  Semicolons, sys, *)
(* type parameters, mut and variadic parameters are left out.              *)
(***************************************************************************)
EXTENDS Integers, Sequences, SequencesExt

CONSTANTS
  Alphabets,   \* sets of token kinds; a source text is made of one of them
  MaxTokens    \* for each of them, the bound on the tokens before EOF

AllKinds ==
  {"IDENT", "NEWLINE", "LBRACE", "RBRACE", "COLON", "COMMA", "ARROW", "AT", "PUB",
   "HASH", "RUN", "FUNC", "STRUCT", "ENUM", "MODULE", "IMPORT", "TRAIT", "PROTOCOL",
   "IMPL", "ASM", "LET", "IF", "ELIF", "ELSE", "WHILE", "FOR", "IN", "RETURN", "BREAK",
   "DEFER", "YIELD", "MATCH", "CASE", "TRY", "CATCH", "FINALLY", "LPAREN", "RPAREN",
   "EQ", "INT", "STRING", "CONST", "TYPE", "POOL", "REGION", "SPAWN", "CONTRACT", "PRE",
   "THROWS"}

ASSUME StmtAssumption ==
  /\ Alphabets \subseteq SUBSET AllKinds
  /\ MaxTokens \in [Alphabets -> Nat \ {0}]
  /\ \A a \in Alphabets : {"ASM"} \subseteq a => {"COLON", "LPAREN"} \cap a = {}   \* no operand lists

VARIABLES
  alphabet,    \* the token kinds that occur in the source text
  current,     \* p->current
  left,        \* tokens the source text may still have
  stack,       \* the pending calls, innermost last
  errors,      \* p->error_count, counted up to 1
  panic_mode,  \* p->panic_mode
  depth,       \* history: braces opened minus braces closed in what was consumed
  parens,      \* history: the same for parentheses
  loose        \* history: a block began without `{', or a bracket stood for something else

vars == <<alphabet, current, left, stack, errors, panic_mode, depth, parens, loose>>

\* The tokens parser_sync stops at, as far as they are modelled.
STMT_START ==
  {"LET", "IF", "WHILE", "FOR", "RETURN", "BREAK", "DEFER", "MATCH", "ASM", "FUNC",
   "STRUCT", "ENUM", "CONST", "IMPORT", "MODULE", "PUB", "TRY", "TYPE", "SPAWN", "YIELD",
   "AT", "RBRACE"}

Brace(kind) == CASE kind = "LBRACE" -> 1 [] kind = "RBRACE" -> -1 [] OTHER -> 0

Paren(kind) == CASE kind = "LPAREN" -> 1 [] kind = "RPAREN" -> -1 [] OTHER -> 0

Brackets == {"LBRACE", "RBRACE", "LPAREN", "RPAREN"}

Upcoming == IF left = 0 THEN {"EOF"} ELSE alphabet \cup {"EOF"}

parser_advance ==
  /\ current' \in IF current = "EOF" THEN {"EOF"} ELSE Upcoming
  /\ left' = IF current' = "EOF" THEN 0 ELSE left - 1
  /\ depth' = depth + Brace(current) /\ parens' = parens + Paren(current)

Stay == UNCHANGED <<current, left, depth, parens>>

parser_error == errors' = 1 /\ panic_mode' = TRUE

NoError == UNCHANGED <<errors, panic_mode>>

(***************************************************************************)
(* The call stack.  At(f) is the code that resumes at place f; it goes on  *)
(* at the places `to', the last of them first, and returns when there is   *)
(* none.                                                                   *)
(***************************************************************************)
At(f) == stack # <<>> /\ Last(stack) = f

Goto(to) == stack' = Front(stack) \o to

\* Consume one of the kinds and go on.
Take(kinds, to) ==
  /\ current \in kinds /\ parser_advance
  /\ Goto(to) /\ NoError /\ UNCHANGED loose

\* None of the kinds: go on in front of the token.
Pass(kinds, to) ==
  /\ current \notin kinds /\ Stay
  /\ Goto(to) /\ NoError /\ UNCHANGED loose

\* None of the kinds: report an error and go on in front of the token.
Fail(kinds, to) ==
  /\ current \notin kinds /\ Stay
  /\ Goto(to) /\ parser_error /\ UNCHANGED loose

\* The same, and the token is skipped.
FailSkip(kinds, to) ==
  /\ current \notin kinds /\ parser_advance
  /\ Goto(to) /\ parser_error /\ UNCHANGED loose

\* Consume whatever token there is; a bracket should not be one.
TakeAny(kinds, to) ==
  /\ current \notin kinds /\ parser_advance
  /\ Goto(to) /\ NoError
  /\ loose' = (loose \/ current \in Brackets)

parser_expect(kind, to) == Take({kind}, to) \/ Fail({kind}, to)

Init ==
  /\ alphabet \in Alphabets
  /\ current \in alphabet \cup {"EOF"} /\ left = MaxTokens[alphabet] - 1
  /\ stack = <<"program">>
  /\ errors = 0 /\ panic_mode = FALSE
  /\ depth = 0 /\ parens = 0 /\ loose = FALSE

----------------------------------------------------------------------------
(* Recovery.                                                               *)

\* parser_sync, called in panic mode at the start of a declaration or statement,
\* which is not parsed when the input ends.
parser_sync(f, to) ==
  \/ At(f) /\ ~panic_mode /\ Pass({}, to)
  \/ /\ At(f) /\ panic_mode
     /\ UNCHANGED <<errors, loose>>
     /\ \/ /\ current = "EOF" /\ panic_mode' = FALSE /\ Stay /\ Goto(<<>>)
        \/ /\ current \in STMT_START /\ panic_mode' = FALSE /\ Stay /\ Goto(to)
        \/ /\ current \notin STMT_START \cup {"EOF"} /\ UNCHANGED panic_mode
           /\ parser_advance /\ Goto(<<f>>)

----------------------------------------------------------------------------
(* Declarations.                                                           *)

parser_parse ==
  \/ At("program") /\ current = "EOF" /\ Pass({}, <<>>)
  \/ At("program") /\ Pass({"EOF"}, <<"program_nl", "decl">>)
  \/ At("program_nl") /\ (Take({"NEWLINE"}, <<"program_nl">>) \/ Pass({"NEWLINE"}, <<"program">>))

\* @name(key = value, ...), @name(number), or a payload that is skipped.
parse_attribute ==
  \/ At("attribute") /\ (Take({"IDENT"}, <<"payload">>) \/ Pass({"IDENT"}, <<>>))
  \/ At("payload") /\ (Take({"LPAREN"}, <<"payload_kind">>) \/ Pass({"LPAREN"}, <<>>))
  \/ At("payload_kind") /\ (\/ current = "IDENT" /\ Pass({}, <<"pairs">>)
                            \/ Take({"INT"}, <<"close_paren">>)
                            \/ Pass({"IDENT", "INT"}, <<"skip">>))
  \/ At("skip") /\ (\/ current \in {"RPAREN", "EOF"} /\ Pass({}, <<"close_paren">>)
                    \/ TakeAny({"RPAREN", "EOF"}, <<"skip">>))
  \/ At("pairs") /\ (\/ Take({"NEWLINE"}, <<"pairs">>)
                     \/ current \in {"RPAREN", "EOF"} /\ Pass({}, <<"close_paren">>)
                     \/ TakeAny({"NEWLINE", "RPAREN", "EOF"}, <<"pair_value">>))
  \/ At("pair_value") /\ (\/ Take({"EQ", "COLON"}, <<"pair_end", "any">>)
                          \/ Pass({"EQ", "COLON"}, <<"pair_end">>))
  \/ At("any") /\ TakeAny({}, <<>>)
  \/ At("pair_end") /\ (Take({"COMMA"}, <<"pair_end">>) \/ Pass({"COMMA"}, <<"pairs">>))

\* Newlines and attributes.
Attributes ==
  \/ At("decl_nl") /\ (\/ Take({"NEWLINE"}, <<"decl_nl">>)
                       \/ Take({"AT"}, <<"decl_nl", "attribute">>)
                       \/ Pass({"NEWLINE", "AT"}, <<"decl_pub">>))
  \/ parse_attribute
  \/ At("decl_pub") /\ (Take({"PUB"}, <<"decl_kw">>) \/ Pass({"PUB"}, <<"decl_kw">>))

DeclKeywords ==
  {"FUNC", "STRUCT", "ENUM", "CONST", "LET", "IMPORT", "MODULE", "ASM", "TRAIT", "POOL",
   "PROTOCOL", "TYPE", "IMPL", "HASH"}

parse_declaration ==
  \/ parser_sync("decl", <<"decl_nl">>)
  \/ Attributes
  \/ /\ At("decl_kw")
     /\ \/ Take({"FUNC"}, <<"func">>)
        \/ Take({"STRUCT"}, <<"struct">>)
        \/ Take({"ENUM"}, <<"enum">>)
        \/ Take({"CONST"}, <<"const">>)
        \/ Take({"LET"}, <<"let">>)
        \/ Take({"IMPORT"}, <<"import">>)
        \/ Take({"MODULE"}, <<"module">>)
        \/ Take({"ASM"}, <<"asm_top">>)
        \/ Take({"TRAIT"}, <<"trait">>)
        \/ Take({"POOL"}, <<"pool">>)
        \/ Take({"PROTOCOL"}, <<"protocol">>)
        \/ Take({"TYPE"}, <<"alias">>)
        \/ Take({"IMPL"}, <<"impl">>)
        \/ Take({"HASH"}, <<"run">>)
        \/ FailSkip(DeclKeywords, <<>>)

\* What follows const is dropped without an error when it is no name.
ParseConst ==
  \/ At("const") /\ (Take({"IDENT"}, <<"const_value">>) \/ Pass({"IDENT"}, <<>>))
  \/ At("const_value") /\ parser_expect("EQ", <<"expr">>)

ParseAlias ==
  \/ At("alias") /\ (Take({"IDENT"}, <<"alias_type">>) \/ Fail({"IDENT"}, <<>>))
  \/ At("alias_type") /\ (Take({"EQ"}, <<"type">>) \/ Pass({"EQ"}, <<>>))

\* pool Name of size N, count M, alignment A.  An identifier may be the word
\* that is looked for, or another one.
ParsePool ==
  \/ At("pool") /\ (Take({"IDENT"}, <<"pool_of">>) \/ Fail({"IDENT"}, <<>>))
  \/ At("pool_of") /\ (Take({"IDENT"}, <<"pool_part", "pool_part", "pool_word">>) \/ Pass({}, <<>>))
  \/ At("pool_word") /\ (Take({"IDENT"}, <<"pool_number">>) \/ Pass({}, <<>>))
  \/ At("pool_number") /\ (Take({"INT"}, <<>>) \/ Pass({"INT"}, <<>>))
  \/ At("pool_part") /\ (Take({"COMMA"}, <<"pool_word">>) \/ Pass({"COMMA"}, <<>>))

ParseImport == At("import") /\ TakeAny({}, <<>>)

ParseModule ==
  \/ At("module") /\ TakeAny({}, <<"module_open">>)
  \/ At("module_open") /\ (Take({"LBRACE"}, <<"module_body">>) \/ Pass({"LBRACE"}, <<>>))
  \/ At("module_body") /\ (\/ current \in {"RBRACE", "EOF"} /\ parser_expect("RBRACE", <<>>)
                           \/ Pass({"RBRACE", "EOF"}, <<"module_nl", "module_decl">>))
  \/ At("module_decl") /\ (Take({"NEWLINE"}, <<"module_decl">>) \/ Pass({"NEWLINE"}, <<"decl">>))
  \/ At("module_nl") /\ (Take({"NEWLINE"}, <<"module_nl">>) \/ Pass({"NEWLINE"}, <<"module_body">>))

\* Mutant: the body stays in front of a token it does not know.
TraitBody_Stays ==
  /\ At("trait_body")
  /\ \/ current \in {"RBRACE", "EOF"} /\ parser_expect("RBRACE", <<>>)
     \/ Take({"NEWLINE"}, <<"trait_body">>)
     \/ Take({"FUNC"}, <<"trait_body", "func">>)
     \/ Pass({"RBRACE", "EOF", "NEWLINE", "FUNC"}, <<"trait_body">>)

\* The body of a trait, protocol or impl skips what is no function.
TraitBody ==
  /\ At("trait_body")
  /\ \/ current \in {"RBRACE", "EOF"} /\ parser_expect("RBRACE", <<>>)
     \/ Take({"NEWLINE"}, <<"trait_body">>)
     \/ Take({"FUNC"}, <<"trait_body", "func">>)
     \/ TakeAny({"RBRACE", "EOF", "NEWLINE", "FUNC"}, <<"trait_body">>)

ParseTrait ==
  \/ At("trait") /\ (Take({"IDENT"}, <<"trait_open">>) \/ Pass({"IDENT"}, <<>>))
  \/ At("protocol") /\ (Take({"IDENT"}, <<"trait_open">>) \/ Fail({"IDENT"}, <<>>))
  \/ At("impl") /\ (Take({"IDENT"}, <<"impl_for">>) \/ Pass({"IDENT"}, <<>>))
  \/ At("impl_for") /\ (Take({"FOR"}, <<"trait">>) \/ Pass({"FOR"}, <<>>))
  \/ At("trait_open") /\ (Take({"LBRACE"}, <<"trait_body">>) \/ Pass({"LBRACE"}, <<>>))
  \/ TraitBody

\* #run { statements }
ParseRun ==
  \/ At("run") /\ (Take({"RUN"}, <<"run_open">>) \/ Fail({"RUN"}, <<>>))
  \/ At("run_open") /\ (Take({"LBRACE"}, <<"block">>) \/ Pass({"LBRACE"}, <<>>))

\* An asm block is skipped to the brace that closes it, one frame per open brace.
\* Unlike the one of a declaration, that of a statement may run into the end.
ParseAsm ==
  \/ At("asm_top") /\ (Take({"LBRACE"}, <<"asm_decl">>) \/ Fail({"LBRACE"}, <<>>))
  \/ At("asm_stmt") /\ (Take({"LBRACE"}, <<"asm">>) \/ Fail({"LBRACE"}, <<>>))
  \/ \E f \in {"asm_decl", "asm"} :
       /\ At(f)
       /\ \/ Take({"LBRACE"}, <<f, "asm">>)
          \/ Take({"RBRACE"}, <<>>)
          \/ TakeAny({"LBRACE", "RBRACE", "EOF"}, <<f>>)
  \/ At("asm_decl") /\ current = "EOF" /\ Fail({}, <<>>)
  \/ At("asm") /\ current = "EOF" /\ Pass({}, <<>>)

\* Types between parentheses, up to the closing one.
TypeList ==
  \/ At("types") /\ (\/ current \in {"RPAREN", "EOF"} /\ Pass({}, <<"close_paren">>)
                     \/ Pass({"RPAREN", "EOF"}, <<"types_more", "type">>))
  \/ At("types_more") /\ (\/ Take({"COMMA"}, <<"types">>)
                          \/ Pass({"COMMA"}, <<"close_paren">>))
  \/ At("close_paren") /\ parser_expect("RPAREN", <<>>)

parse_type ==
  \/ At("type") /\ (\/ Take({"IDENT"}, <<>>)
                    \/ Take({"FUNC"}, <<"return_type", "type_params">>)
                    \/ Take({"LPAREN"}, <<"tuple", "type">>)
                    \/ FailSkip({"IDENT", "FUNC", "LPAREN"}, <<>>))
  \/ At("type_params") /\ (Take({"LPAREN"}, <<"types">>) \/ Pass({"LPAREN"}, <<>>))
  \/ At("tuple") /\ (Take({"COMMA"}, <<"types">>) \/ Pass({"COMMA"}, <<"close_paren">>))
  \/ At("return_type") /\ (Take({"COLON"}, <<"type">>) \/ Pass({"COLON"}, <<>>))
  \/ TypeList

parse_params ==
  \/ At("params") /\ (\/ current \in {"RPAREN", "EOF"} /\ Pass({}, <<>>)
                      \/ Take({"IDENT"}, <<"param_more", "init", "return_type">>)
                      \/ Fail({"RPAREN", "EOF", "IDENT"}, <<>>))
  \/ At("param_more") /\ (Take({"COMMA"}, <<"params">>) \/ Pass({"COMMA"}, <<>>))

\* A condition in parentheses.
Condition == At("condition") /\ parser_expect("LPAREN", <<"close_paren", "expr">>)

parse_func_decl ==
  \/ At("func") /\ (Take({"IDENT"}, <<"func_params">>) \/ Fail({"IDENT"}, <<>>))
  \/ At("func_params") /\ (\/ Take({"LPAREN"}, <<"func_throws", "return_type", "close_paren", "params">>)
                           \/ Pass({"LPAREN"}, <<"func_throws", "return_type">>))
  \/ At("func_throws") /\ (Take({"THROWS"}, <<"func_pre">>) \/ Pass({"THROWS"}, <<"func_pre">>))
  \/ At("func_pre") /\ (\/ Take({"PRE"}, <<"func_pre", "condition">>)
                        \/ Pass({"PRE"}, <<"func_body">>))
  \/ At("func_body") /\ (\/ Take({"LBRACE"}, <<"block">>)
                         \/ Take({"ARROW"}, <<"expr">>)
                         \/ Pass({"LBRACE", "ARROW"}, <<>>))

\* The body ends at `}' or at the first thing that is no field.
parse_struct_decl ==
  \/ At("struct") /\ (Take({"IDENT"}, <<"struct_open">>) \/ Fail({"IDENT"}, <<>>))
  \/ At("struct_open") /\ (Take({"LBRACE"}, <<"struct_body">>) \/ Pass({"LBRACE"}, <<>>))
  \/ At("struct_body") /\ (\/ current \in {"RBRACE", "EOF"} /\ Pass({}, <<"close">>)
                           \/ Take({"NEWLINE"}, <<"struct_body">>)
                           \/ Take({"PUB"}, <<"field">>)
                           \/ Pass({"RBRACE", "EOF", "NEWLINE", "PUB"}, <<"field">>))
  \/ At("field") /\ (\/ Take({"CONTRACT"}, <<"struct_body", "condition">>)
                     \/ Take({"FUNC"}, <<"struct_body", "func">>)
                     \/ Take({"IDENT"}, <<"struct_body", "return_type">>)
                     \/ Fail({"CONTRACT", "FUNC", "IDENT"}, <<"close">>))
  \/ At("close") /\ parser_expect("RBRACE", <<>>)

parse_enum_decl ==
  \/ At("enum") /\ (Take({"IDENT"}, <<"enum_open">>) \/ Fail({"IDENT"}, <<>>))
  \/ At("enum_open") /\ (Take({"LBRACE"}, <<"enum_body">>) \/ Pass({"LBRACE"}, <<>>))
  \/ At("enum_body") /\ (\/ current \in {"RBRACE", "EOF"} /\ Pass({}, <<"close">>)
                         \/ Take({"NEWLINE"}, <<"enum_body">>)
                         \/ Take({"IDENT"}, <<"enum_body", "type_params">>)
                         \/ Fail({"RBRACE", "EOF", "NEWLINE", "IDENT"}, <<"close">>))

----------------------------------------------------------------------------
(* Statements.                                                             *)

StmtKeywords ==
  {"LET", "IF", "WHILE", "FOR", "RETURN", "BREAK", "DEFER", "SPAWN", "YIELD", "REGION",
   "MATCH", "ASM", "TRY"}

parse_statement ==
  \/ parser_sync("stmt", <<"stmt_kw">>)
  \/ /\ At("stmt_kw")
     /\ \/ Take({"AT"}, <<"stmt_kw", "attribute">>)
        \/ Take({"LET"}, <<"let">>)
        \/ Take({"IF"}, <<"if">>)
        \/ Take({"WHILE"}, <<"body", "expr">>)
        \/ Take({"FOR"}, <<"for">>)
        \/ Take({"RETURN"}, <<"return">>)
        \/ Take({"BREAK"}, <<"label">>)
        \/ Take({"DEFER"}, <<"block_or_stmt">>)
        \/ Take({"SPAWN"}, <<"spawn">>)
        \/ Take({"YIELD"}, <<>>)
        \/ Take({"REGION"}, <<"region">>)
        \/ Take({"MATCH"}, <<"match_open", "expr">>)
        \/ Take({"ASM"}, <<"asm_stmt">>)
        \/ Take({"TRY"}, <<"catches", "braced">>)
        \/ Pass(StmtKeywords \cup {"AT"}, <<"expr">>)

ParseLet ==
  \/ At("let") /\ (Take({"IDENT"}, <<"init", "return_type">>) \/ Fail({"IDENT"}, <<>>))
  \/ At("init") /\ (Take({"EQ"}, <<"expr">>) \/ Pass({"EQ"}, <<>>))

\* `{' and a block, or a block without it.
Braced ==
  /\ At("braced")
  /\ \/ Take({"LBRACE"}, <<"block">>)
     \/ /\ current # "LBRACE" /\ Stay /\ NoError
        /\ Goto(<<"block">>) /\ loose' = TRUE

\* if let, if, elif and else.  The token behind the condition is consumed as if it
\* were `{'.
ParseIf ==
  \/ At("if") /\ Take({"LET"}, <<"if_let", "pattern">>)
  \/ At("if_let") /\ parser_expect("EQ", <<"braced", "expr">>)
  \/ At("if") /\ Pass({"LET"}, <<"if_open", "expr">>)
  \/ At("if_open") /\ Take({"LBRACE"}, <<"else", "block">>)
  \/ /\ At("if_open") /\ current # "LBRACE"
     /\ parser_advance /\ NoError
     /\ Goto(<<"else", "block">>) /\ loose' = TRUE
  \/ At("else") /\ (\/ Take({"NEWLINE"}, <<"else">>)
                    \/ Take({"ELIF"}, <<"else", "body", "expr">>)
                    \/ Take({"ELSE"}, <<"braced">>)
                    \/ Pass({"NEWLINE", "ELIF", "ELSE"}, <<>>))

\* Mutant: the body is entered without consuming its brace.
LoopBody_KeepsBrace ==
  /\ At("body")
  /\ \/ current = "LBRACE" /\ Pass({}, <<"block">>)
     \/ Pass({"LBRACE"}, <<>>)

\* The body of a loop or elif: a block, or nothing.
LoopBody == At("body") /\ (Take({"LBRACE"}, <<"block">>) \/ Pass({"LBRACE"}, <<>>))

ParseFor ==
  \/ At("for") /\ (Take({"IDENT"}, <<"for_in", "for_second">>) \/ Pass({"IDENT"}, <<"for_in">>))
  \/ At("for_second") /\ (Take({"COMMA"}, <<"label">>) \/ Pass({"COMMA"}, <<>>))
  \/ At("for_in") /\ (Take({"IN"}, <<"body", "expr">>) \/ Pass({"IN"}, <<"body">>))

ParseJump ==
  \/ At("return") /\ (\/ current \in {"NEWLINE", "RBRACE", "EOF"} /\ Pass({}, <<>>)
                      \/ Pass({"NEWLINE", "RBRACE", "EOF"}, <<"expr">>))
  \/ At("label") /\ (Take({"IDENT"}, <<>>) \/ Pass({"IDENT"}, <<>>))

ParseDefer ==
  At("block_or_stmt") /\ (Take({"LBRACE"}, <<"block">>) \/ Pass({"LBRACE"}, <<"stmt">>))

\* spawn f(arguments)
ParseSpawn ==
  \/ At("spawn") /\ (Take({"IDENT"}, <<"spawn_open">>) \/ Fail({"IDENT"}, <<>>))
  \/ At("spawn_open") /\ (Take({"LPAREN"}, <<"spawn_args">>) \/ Fail({"LPAREN"}, <<>>))
  \/ At("spawn_args") /\ (\/ Take({"NEWLINE"}, <<"spawn_args">>)
                          \/ current \in {"RPAREN", "EOF"} /\ Pass({}, <<"close_paren">>)
                          \/ Pass({"NEWLINE", "RPAREN", "EOF"}, <<"spawn_more", "expr">>))
  \/ At("spawn_more") /\ (\/ Take({"COMMA"}, <<"spawn_args">>)
                          \/ Pass({"COMMA"}, <<"close_paren">>))

\* region("name") and a block or a statement.
ParseRegion ==
  \/ At("region") /\ parser_expect("LPAREN", <<"block_or_stmt", "region_name">>)
  \/ At("region_name") /\ (\/ Take({"STRING"}, <<"close_paren">>)
                           \/ Pass({"STRING"}, <<"close_paren">>))

ParseTry ==
  \/ At("catches") /\ (\/ Take({"CATCH"}, <<"catches", "catch">>)
                       \/ Take({"FINALLY"}, <<"braced">>)
                       \/ Pass({"CATCH", "FINALLY"}, <<>>))
  \/ At("catch") /\ (\/ Take({"IDENT"}, <<"braced">>)   \* _
                     \/ Take({"IDENT"}, <<"braced", "catch_var">>)
                     \/ Pass({"IDENT"}, <<"braced">>))
  \/ At("catch_var") /\ (Take({"LPAREN"}, <<"catch_name">>) \/ Pass({"LPAREN"}, <<>>))
  \/ At("catch_name") /\ (Take({"IDENT"}, <<"close_paren">>) \/ Pass({"IDENT"}, <<"close_paren">>))

\* Mutant: the block ends at the end of the input without an error.
parse_block_braced_AcceptsEof ==
  /\ At("block")
  /\ \/ Take({"RBRACE"}, <<>>)
     \/ current = "EOF" /\ Pass({}, <<>>)
     \/ Take({"NEWLINE"}, <<"block">>)
     \/ Pass({"RBRACE", "EOF", "NEWLINE"}, <<"block", "stmt">>)

parse_block_braced ==
  /\ At("block")
  /\ \/ current \in {"RBRACE", "EOF"} /\ parser_expect("RBRACE", <<>>)
     \/ Take({"NEWLINE"}, <<"block">>)
     \/ Pass({"RBRACE", "EOF", "NEWLINE"}, <<"block", "stmt">>)

ParseMatch ==
  \/ At("match_open") /\ (Take({"LBRACE"}, <<"match_body">>) \/ Pass({"LBRACE"}, <<>>))
  \/ At("match_body") /\ (\/ current \in {"RBRACE", "EOF"} /\ parser_expect("RBRACE", <<>>)
                          \/ Take({"NEWLINE"}, <<"match_body">>)
                          \/ Pass({"RBRACE", "EOF", "NEWLINE"}, <<"match_body", "arm">>))

parse_match_arm ==
  \/ At("arm") /\ (Take({"CASE"}, <<"arm_first">>) \/ Pass({"CASE"}, <<"arm_first">>))
  \/ At("arm_first") /\ (\/ Take({"NEWLINE"}, <<"arm_first">>)
                         \/ current = "ARROW" /\ Pass({}, <<"arm_arrow">>)
                         \/ Pass({"NEWLINE", "ARROW"}, <<"arm_more", "pattern">>))
  \/ At("arm_more") /\ (Take({"COMMA"}, <<"arm_next">>) \/ Pass({"COMMA"}, <<"arm_arrow">>))
  \/ At("arm_next") /\ (\/ Take({"NEWLINE"}, <<"arm_next">>)
                        \/ Pass({"NEWLINE"}, <<"arm_more", "pattern">>))
  \/ At("arm_arrow") /\ parser_expect("ARROW", <<"expr">>)

Operands == {"IDENT", "INT", "STRING"}

parse_pattern ==
  /\ At("pattern")
  /\ \/ Take(Operands, <<>>)
     \/ current \in {"COMMA", "ARROW", "NEWLINE", "RBRACE"} /\ Pass({}, <<>>)
     \/ Fail(Operands \cup {"COMMA", "ARROW", "NEWLINE", "RBRACE"}, <<>>)

\* An expression that is missing makes a missing one of the parentheses around it.
ReturnNull(st) ==
  IF st # <<>> /\ Last(st) = "paren" THEN Append(Front(st), "paren_null") ELSE st

\* parse_expr, and below # the operand (expr_u) of a unary operator.  What follows
\* a missing expression is not looked at.
parse_prefix ==
  \E e \in {"expr", "expr_u"} :
    LET after == IF e = "expr" THEN "infix" ELSE "infix_u" IN
    /\ At(e)
    /\ \/ Take(Operands, <<after>>)
       \/ Take({"HASH"}, <<after, "expr_u">>)
       \/ Take({"MATCH"}, <<after, "match_open", "expr">>)
       \/ Take({"LPAREN"}, <<after, "paren", "expr">>)
       \/ /\ current = "EOF" /\ Stay /\ NoError
          /\ stack' = ReturnNull(Front(stack)) /\ UNCHANGED loose
       \/ /\ current \notin Operands \cup {"HASH", "MATCH", "LPAREN", "EOF"}
          /\ parser_advance /\ parser_error
          /\ stack' = ReturnNull(Front(stack)) /\ UNCHANGED loose

Parenthesised ==
  \/ At("paren") /\ parser_expect("RPAREN", <<>>)
  \/ /\ At("paren_null")
     /\ \/ current = "RPAREN" /\ parser_advance /\ NoError
        \/ current # "RPAREN" /\ Stay /\ parser_error
     /\ stack' = ReturnNull(Front(Front(stack))) /\ UNCHANGED loose

\* Calls, and assignments unless below #.  Behind one of them newlines are skipped.
parse_expr ==
  \/ parse_prefix
  \/ Parenthesised
  \/ \E f \in {"infix", "more", "infix_u", "more_u"} :
       LET unary == f \in {"infix_u", "more_u"}
           more == IF unary THEN "more_u" ELSE "more"
           assigns == IF unary THEN {} ELSE {"EQ"}
           skips == IF f = more THEN {"NEWLINE"} ELSE {}
       IN /\ At(f)
          /\ \/ Take(skips, <<f>>)
             \/ Take({"LPAREN"}, <<more, "args">>)
             \/ Take(assigns, <<more, "expr">>)
             \/ Pass(skips \cup assigns \cup {"LPAREN"}, <<>>)

\* An argument may be left out.
Arguments ==
  \/ At("args") /\ (\/ Take({"NEWLINE"}, <<"args">>)
                    \/ current \in {"RPAREN", "EOF"} /\ Pass({}, <<"close_paren">>)
                    \/ current = "COMMA" /\ Pass({}, <<"args_more">>)
                    \/ Pass({"NEWLINE", "RPAREN", "EOF", "COMMA"}, <<"args_more", "expr">>))
  \/ At("args_more") /\ (Take({"COMMA"}, <<"args">>) \/ Pass({"COMMA"}, <<"close_paren">>))

Declarations ==
  \/ parser_parse \/ parse_declaration \/ ParseConst \/ ParseAlias \/ ParsePool
  \/ ParseImport \/ ParseModule \/ ParseTrait \/ ParseRun \/ ParseAsm \/ parse_type
  \/ parse_params \/ Condition \/ parse_func_decl \/ parse_struct_decl \/ parse_enum_decl

Statements ==
  \/ parse_statement \/ ParseLet \/ Braced \/ ParseIf \/ LoopBody \/ ParseFor
  \/ ParseJump \/ ParseDefer \/ ParseSpawn \/ ParseRegion \/ ParseTry \/ parse_block_braced
  \/ ParseMatch \/ parse_match_arm \/ parse_pattern \/ parse_expr \/ Arguments

Next == (Declarations \/ Statements) /\ UNCHANGED alphabet

\* The parser is one thread of C code that runs until it returns.
Spec == Init /\ [][Next]_vars /\ WF_vars(Next)

----------------------------------------------------------------------------
\* How many of the pending calls are at one of the places.
Count(st, places) == Cardinality({i \in DOMAIN st : st[i] \in places})

\* The places that stand behind an open brace.
InBraces ==
  {"block", "module_body", "module_nl", "trait_body", "struct_body", "field",
   "close", "enum_body", "match_body", "asm", "asm_decl"}

\* As long as there is text, no error was reported and every block began with
\* `{', the bodies the parser is in are the braces that are open in the text: no function of
\* parser.c consumes a brace of another one, and none leaves its own behind.
NestingAgrees ==
  errors = 0 /\ ~loose /\ current # "EOF" => Count(stack, InBraces) = depth

\* An unbalanced source text is not accepted (with the same exceptions).
UnbalancedReported ==
  stack = <<>> /\ (depth # 0 \/ parens # 0) => errors > 0 \/ loose

\* parser_parse returns on every token sequence: each turn of each loop, error
\* recovery included, consumes a token or ends.
ParserReturns == <>(stack = <<>>)

=============================================================================
