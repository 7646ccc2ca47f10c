----------------------------- MODULE MCDriver -----------------------------
(* Instance of Driver: two compilers, inputs that share a base name, inputs *)
(* that do not end in .ae, and imports of source files (one importing back, *)
(* one twice), of a library under its spellings and of a missing file.      *)
EXTENDS Driver

Fn(n, pub) == [kind |-> "func", name |-> n, ext |-> "", pub |-> pub]
Imp(n, ext) == [kind |-> "import", name |-> n, ext |-> ext, pub |-> FALSE]

MCSourceText ==
  [main  |-> <<Imp("util", ""), Fn("main", FALSE), Imp("pre", "aelib"), Imp("util", "")>>,
   other |-> <<Imp("util", "ae"), Imp("main", "ae"), Fn("main", FALSE)>>,
   util  |-> <<Imp("main", ""), Fn("helper", TRUE), Fn("inner", FALSE)>>,
   pre   |-> <<Fn("add", TRUE), Fn("priv", FALSE)>>,
   both  |-> <<Imp("pre", ""), Fn("main", FALSE), Imp("pre", "aelib"), Imp("pre", "")>>,
   again |-> <<Imp("pre", "aelib"), Imp("pre", ""), Fn("main", FALSE)>>,
   lost  |-> <<Fn("main", FALSE), Imp("gone", "")>>,
   bad   |-> <<Fn("main", FALSE)>>]

MCBroken == {"bad"}

MCDisk ==
  [x \in {<<"cwd", "main", "ae">>, <<"dir", "main", "ae">>, <<"cwd", "util", "ae">>,
          <<"cwd", "pre", "aelib">>, <<"cwd", "lost", "ae">>, <<"cwd", "bad", "ae">>,
          <<"dir", "util", "ae">>, <<"cwd", "both", "txt">>, <<"cwd", "again", "txt">>} |->
     CASE x = <<"cwd", "main", "ae">>   -> Made("src", "main")
       [] x = <<"dir", "main", "ae">>   -> Made("src", "other")
       [] x = <<"cwd", "util", "ae">>   -> Made("src", "util")
       [] x = <<"dir", "util", "ae">>   -> Made("src", "util")
       [] x = <<"cwd", "both", "txt">>  -> Made("src", "both")
       [] x = <<"cwd", "again", "txt">> -> Made("src", "again")
       [] x = <<"cwd", "pre", "aelib">> -> Made("aelib", "pre")
       [] x = <<"cwd", "lost", "ae">>   -> Made("src", "lost")
       [] OTHER                         -> Made("src", "bad")]

J(in, out, target, stop, run) ==
  [input |-> in, output |-> out, target |-> target, stop |-> stop, run |-> run]

Main == <<"cwd", "main", "ae">>
Other == <<"dir", "main", "ae">>

MCJobs ==
  {J(Main, NoOutput, "host", FALSE, TRUE), J(Main, NoOutput, "host", TRUE, TRUE),
   J(Other, <<"cwd", "prog">>, "host", FALSE, FALSE),
   J(Other, <<"cwd", "boot1">>, "boot", FALSE, FALSE), J(Main, NoOutput, "boot", FALSE, FALSE),
   J(Main, <<"cwd", "fat">>, "universal", FALSE, TRUE),
   J(Other, <<"cwd", "fat2">>, "universal_all", FALSE, FALSE),
   J(Other, <<"/tmp", "aether_univ_all", "o">>, "universal_all", FALSE, FALSE),
   J(<<"cwd", "util", "ae">>, NoOutput, "lib", FALSE, FALSE),
   J(<<"cwd", "both", "txt">>, NoOutput, "host", FALSE, TRUE),
   J(<<"cwd", "both", "txt">>, NoOutput, "lib", FALSE, FALSE),
   J(<<"cwd", "again", "txt">>, NoOutput, "lib", FALSE, FALSE),
   J(Other, <<"cwd", "list">>, "asm", FALSE, FALSE),
   J(<<"cwd", "lost", "ae">>, NoOutput, "host", FALSE, FALSE),
   J(<<"cwd", "bad", "ae">>, NoOutput, "host", FALSE, FALSE)}
============================================================================
