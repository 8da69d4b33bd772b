------------------------------ MODULE Gearbox -------------------------------
(***************************************************************************)
(* What Adagio promises the application about one core.  The program       *)
(* alternates between computing and communicating.  The gear is chosen     *)
(* once, when a computation begins, and stays through it; while a call is  *)
(* in progress the core may be put in the slowest gear once; and whatever  *)
(* happened in the call is undone before the computation goes on.          *)
(***************************************************************************)
EXTENDS Naturals

CONSTANT Gears         \* 0 is the fastest

VARIABLES
    phase,    \* "starting", "computing", "communicating" or "ended"
    gear,     \* the gear of the core
    slowed    \* the core was slowed during this call

Slowest == CHOOSE g \in Gears : \A i \in Gears : i <= g

Init ==
    /\ phase = "starting"
    /\ gear \in Gears
    /\ slowed = FALSE

\* MPI_Init sets a known gear.
Start ==
    /\ phase = "starting"
    /\ phase' = "communicating"
    /\ gear' \in Gears
    /\ UNCHANGED slowed

\* A call begins without touching the gear.
BeginCall ==
    /\ phase = "computing"
    /\ phase' = "communicating"
    /\ UNCHANGED <<gear, slowed>>

Slow ==
    /\ phase = "communicating" /\ ~slowed
    /\ gear' \in {gear, Slowest}
    /\ slowed' = TRUE
    /\ UNCHANGED phase

\* The call is over; the next computation has a gear of its own.
BeginComputation ==
    /\ phase = "communicating"
    /\ phase' = "computing"
    /\ gear' \in Gears
    /\ slowed' = FALSE

\* The program ends, in a gear of the library's choice.
End ==
    /\ phase \in {"starting", "computing"}
    /\ phase' = "ended"
    /\ gear' \in Gears
    /\ UNCHANGED slowed

Next == Start \/ BeginCall \/ Slow \/ BeginComputation \/ End

Spec == Init /\ [][Next]_<<phase, gear, slowed>>

=============================================================================
