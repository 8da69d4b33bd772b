---------------------------- MODULE JitterGears ----------------------------
(***************************************************************************)
(* What every version of jitter shares: the static variables by which a    *)
(* rank decides on its gear, and the moves it may make.  The definitions   *)
(* follow jitter/impie.c.                                                  *)
(*                                                                         *)
(* Slack and SLACK are in thousandths, downshift in twentieths.            *)
(***************************************************************************)
EXTENDS Integers, FiniteSetsExt

CONSTANTS
    Ranks,
    LOWEST_GEAR    \* the slowest gear of any version

ASSUME RankAssumption ==
    /\ IsFiniteSet(Ranks) /\ Ranks # {}
    /\ LOWEST_GEAR \in Nat

Gears == 0 .. LOWEST_GEAR
BIAS_none == 1   \* (mutant: repeated changes are not made harder)
BIAS == 2
WINDOW_SIZE == 5

\* (bound) upshift stops growing here, where only a slack of 0 is small enough
\* to speed up: true of any further doubling, until a float overflows.
UPSHIFT_MAX == 1024

Static == [current_gear : Gears,
           upshift      : [Gears -> Nat],
           downshift    : [Gears -> Nat],
           increased    : BOOLEAN,          \* increased_last_time
           decreased    : BOOLEAN,          \* decreased_last_time
           SLACK        : Nat,
           previous     : Nat]              \* previous_iter_length

\* The values the variables start with; reset_bias() writes the biases later.
initial == [current_gear |-> 0, upshift |-> [g \in Gears |-> 1],
            downshift |-> [g \in Gears |-> 0], increased |-> FALSE, decreased |-> FALSE,
            SLACK |-> 100, previous |-> 0]

\* It is harder to leave a slower gear for a yet slower one.
reset_bias(s, harder) ==
    [s EXCEPT !.upshift = [g \in Gears |-> 1], !.downshift = [g \in Gears |-> 20 + harder * g]]

Stay_tired(s) == [s EXCEPT !.increased = FALSE]   \* (mutant: decreased_last_time stays)
Stay(s) == [s EXCEPT !.increased = FALSE, !.decreased = FALSE]

SpeedUp(s) ==
    IF s.current_gear = 0 THEN Stay(s)
    ELSE [s EXCEPT !.current_gear = @ - 1, !.upshift[s.current_gear] = Min({@ * BIAS, UPSHIFT_MAX}),
                   !.increased = TRUE, !.decreased = FALSE]

SlowDown_unbounded(s, lowest) ==   \* (mutant: slows beyond the lowest gear)
    [s EXCEPT !.current_gear = @ + 1, !.increased = FALSE, !.decreased = TRUE]
SlowDown(s, lowest) ==
    IF s.current_gear = lowest THEN Stay(s)
    ELSE [s EXCEPT !.current_gear = @ + 1, !.downshift[s.current_gear] = @ * BIAS,
                   !.increased = FALSE, !.decreased = TRUE]

\* The way back from a gear that turned out to be too slow.
Return(s) ==
    IF s.current_gear = 0 THEN Stay(s) ELSE [SpeedUp(s) EXCEPT !.SLACK = @ + 20]

\* The slack beyond the global minimum is large, or small, for this gear.
Loose(s, net) == ~s.increased /\ 20 * net > s.SLACK * s.downshift[s.current_gear]
Tight(s, net) == ~s.decreased /\ 4 * net * s.upshift[s.current_gear] < s.SLACK

=============================================================================
