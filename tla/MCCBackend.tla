----------------------------- MODULE MCCBackend -----------------------------
(* Profiles of the programs of CBackend.                                   *)
EXTENDS CBackend

\* Every kind of statement.
All == [features |-> AllFeatures, throws |-> FALSE,
        stmts |-> 3, depth |-> 3, tries |-> 2, arms |-> 2]

\* Objects in blocks, branches, loops and deferred blocks.
Scopes == [All EXCEPT !.features = {"let", "defer", "block", "if", "while", "array"},
                      !.stmts = 4, !.tries = 0]

\* Errors in try bodies that follow each other and stand in loops.
Handlers == [All EXCEPT !.features = {"throw", "call", "try", "array"},
                        !.stmts = 4, !.tries = 1, !.arms = 1]

\* Loops that are left, and errors caught inside and around them.
LoopExits == [All EXCEPT !.features = {"range", "array", "if", "break", "continue",
                                       "throw", "try"}, !.tries = 1, !.arms = 1]

\* finally blocks without early exits from the function.
Finallys == [All EXCEPT !.features = {"let", "if", "range", "throw", "call", "try"},
                        !.tries = 1]

\* A function that throws, with a let behind the throw and a throw in a try body.
ThrowsFunction == [All EXCEPT !.features = {"let", "throw", "throw_outside", "try"},
                              !.throws = TRUE, !.arms = 1]

\* Loops of every kind, without exits.
Counting == [All EXCEPT !.features = {"let", "range", "range_inclusive", "array"}, !.tries = 0]

\* A try in a try.
Nests == [All EXCEPT !.features = {"throw", "try"}, !.arms = 1]

MCProfiles == {All, Scopes, Handlers, LoopExits, Finallys, ThrowsFunction, Counting, Nests}
=============================================================================
