------------------------------ MODULE TaskLoop ------------------------------
(***************************************************************************)
(* Schedule in closed loop: a program whose only MPI call is in a loop, so *)
(* that the task is always predicted right.  In each turn the rank has so  *)
(* many cycles of work to do, and the ranks it waits for arrive at some    *)
(* time; how long it computes depends on the gear it was given, and what   *)
(* is left until the others arrive is its communication time.  The gear    *)
(* thereby feeds back into the measurements the next gear is chosen from.  *)
(***************************************************************************)
EXTENDS Schedule

CONSTANTS
    Works,       \* cycles of a turn's computation
    Arrivals     \* when the other ranks arrive, in ticks

\* Computation times are exact in every gear, so that rounding a time to a
\* tick does not look like a change of the program.
ASSUME LoopAssumption ==
    /\ Works \subseteq Nat \ {0}
    /\ Arrivals \subseteq Nat
    /\ \A w \in Works, g \in Gears : w % Freq[g] = 0
    /\ ~turboboost_present

VARIABLES
    schedule,     \* schedule[hash] of the one call site
    current_freq, \* the gear of the coming computation
    work,         \* the turn that ended last
    arrival,
    steady        \* from here on every turn is like the last

vars == <<schedule, current_freq, work, arrival, steady>>

FASTEST_FREQ == 0

Comp(w, g) == w \div Freq[g]
Comm(w, g, t) == IF Comp(w, g) < t THEN t - Comp(w, g) ELSE 0

Init ==
    /\ schedule = EmptyHist
    /\ current_freq = FASTEST_FREQ
    /\ work \in Works /\ arrival \in Arrivals
    /\ steady = FALSE

\* One turn: compute, call, and schedule the next computation.
Turn(w, t) ==
    LET entered == write_comp(rotate(schedule), Comp(w, current_freq), Freq[current_freq])
        left    == write_comm(entered, Comm(w, current_freq, t))
    IN  /\ schedule' = left
        /\ current_freq' = schedule_computation(left, FASTEST_FREQ)
        /\ work' = w /\ arrival' = t

Varying == ~steady /\ (\E w \in Works, t \in Arrivals : Turn(w, t)) /\ UNCHANGED steady
Settling == ~steady /\ steady' = TRUE /\ UNCHANGED <<schedule, current_freq, work, arrival>>
Repeating == steady /\ Turn(work, arrival) /\ UNCHANGED steady

Next == Varying \/ Settling \/ Repeating

\* The loop goes on.
Spec == Init /\ [][Next]_vars /\ WF_vars(Repeating)

-----------------------------------------------------------------------------

\* Slowing a rank never makes the others wait for it: a turn with no more
\* work than the last one, in which they arrive no sooner after its start
\* than in some remembered turn less the blocking buffer, finds a slowed rank
\* there before them.
SlowedArrivesInTime ==
    current_freq # FASTEST_FREQ =>
        \A w \in Works, t \in Arrivals :
            /\ w <= work
            /\ \E s \in Data(schedule) :
                 t >= schedule.hist[s].comp + schedule.hist[s].comm - BlockingBuffer
            => Comp(w, current_freq) <= t

\* The feedback does not oscillate: once the turns repeat, the gear settles,
\* whatever the history it starts from, and it settles where the rank is in
\* time or in the top gear.
GearSettles ==
    \E g \in Gears :
        <>[](steady => /\ current_freq = g
                       /\ g = FASTEST_FREQ \/ Comp(work, g) <= arrival)

=============================================================================
