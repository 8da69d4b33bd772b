----------------------------- MODULE MCTaskLoop -----------------------------
(* Values of the constants of TaskLoop for TLC.                            *)
EXTENDS TaskLoop

ThreeGears == [g \in 0 .. 2 |-> 4 - g]

=============================================================================
