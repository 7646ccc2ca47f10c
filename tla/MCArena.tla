------------------------------ MODULE MCArena ------------------------------
(* Small instances of the arena: 2-byte alignment, 4-byte blocks.          *)
EXTENDS Arena

MCAddr == {2 * i : i \in 0..9}

=============================================================================
