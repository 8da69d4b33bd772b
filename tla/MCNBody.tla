------------------------------ MODULE MCNBody ------------------------------
(***************************************************************************)
(* Three ranks, three particles and two places for them, so that a median  *)
(* has equal values on both sides; Center puts them on ranks 1 and 2, and  *)
(* a median puts them on ranks 0 and 2, so a rank may own none or several. *)
(***************************************************************************)
EXTENDS NBody

Places == {<<0, 0, 0>>, <<1, 0, 1>>}
Middle == <<1, 1, 1>>
Freqs == {-2, -1, 0, 1, 2}

\* selectKth() on every array over three values, for every k: what it
\* returns has at most k values below it and more than k not above it.
ASSUME SelectAssumption ==
    \A a \in [Particles -> 1 .. 3], k \in Particles :
        LET kth == selectKth[[a |-> a, k |-> k, left |-> 0, right |-> numParticles - 1]]
        IN  /\ Cardinality({i \in Particles : a[i] < kth}) <= k
            /\ Cardinality({i \in Particles : a[i] <= kth}) > k

=============================================================================
