------------------------------- MODULE MCShim -------------------------------
(* Values of the constants of Shim for TLC.                                *)
EXTENDS Shim

\* Gear 0 is a turbo gear: 201 to 200 is less than 1%.
TurboFreqs == [g \in 0 .. 3 |-> CASE g = 0 -> 201 [] g = 1 -> 200 [] g = 2 -> 150 [] g = 3 -> 100]

PlainFreqs == [g \in 0 .. 2 |-> CASE g = 0 -> 4 [] g = 1 -> 3 [] g = 2 -> 2]

=============================================================================
