---------------------------- MODULE GearRegister ----------------------------
(***************************************************************************)
(* What the Simple Scaling Daemon promises of the gear of its node, over    *)
(* any network: the gear changes only to one that was asked for and whose   *)
(* request is still about.  A request may be forgotten, and may take effect *)
(* more than once while it is about; afterwards the gear stays as it is.    *)
(***************************************************************************)
CONSTANT Gears

VARIABLES
    core,     \* the gear of the core
    asked     \* the gears of the requests that may still take effect

Ask == \E g \in Gears : asked' = asked \cup {g} /\ UNCHANGED core

TakeEffect == core' \in asked /\ asked' \subseteq asked

Forget == asked' \subseteq asked /\ UNCHANGED core

Spec == core \in Gears /\ asked = {} /\ [][Ask \/ TakeEffect \/ Forget]_<<core, asked>>

=============================================================================
