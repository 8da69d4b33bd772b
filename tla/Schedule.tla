------------------------------ MODULE Schedule ------------------------------
(***************************************************************************)
(* The scheduling arithmetic of Adagio (shim.c, shim.h, shift.c): the      *)
(* history kept for one task, the deadline and the effective frequency     *)
(* derived from it, and the gear schedule_computation() settles on.        *)
(*                                                                         *)
(* A task is the computation before an MPI call together with the call.    *)
(* Times are whole ticks; frequencies are whole units of the clock.  The   *)
(* code's ratios are doubles: every comparison of two of them is written   *)
(* here as the cross multiplication of their integer parts.                *)
(***************************************************************************)
EXTENDS Integers, FiniteSetsExt

CONSTANTS
    NumFreqs,        \* NUM_FREQS, the entries of scaling_available_frequencies
    Freq,            \* freqs[], gear -> clock, listed from fastest to slowest
    HistEntries,     \* histEntries, the visits of a task that are remembered
    MinComp,         \* GMPI_MIN_COMP_SECONDS, in ticks
    MinComm,         \* GMPI_MIN_COMM_SECONDS, in ticks
    BlockingBuffer   \* GMPI_BLOCKING_BUFFER, in ticks

Gears == 0 .. NumFreqs - 1
Slots == 0 .. HistEntries - 1

ASSUME GearsAssumption ==
    /\ NumFreqs \in Nat \ {0}
    /\ Freq \in [Gears -> Nat \ {0}]
    /\ \A i, j \in Gears : i < j => Freq[j] < Freq[i]

ASSUME HistoryAssumption == HistEntries \in Nat \ {0}

\* GMPI_BLOCKING_BUFFER does not exceed GMPI_MIN_COMP_SECONDS, so a deadline
\* less the buffer is still a positive time.
ASSUME ThresholdAssumption ==
    /\ MinComp \in Nat \ {0}
    /\ MinComm \in Nat \ {0}
    /\ BlockingBuffer \in Nat \ {0}
    /\ BlockingBuffer <= MinComp

-----------------------------------------------------------------------------
(* Gears.                                                                  *)

SLOWEST_FREQ == NumFreqs - 1

\* Gear 0 is a turbo gear when its nominal clock is within 1% of gear 1's.
turboboost_present == NumFreqs > 1 /\ 100 * Freq[0] < 101 * Freq[1]

\* The clock that the mperf counter ticks at: observed ratios are relative
\* to it, whatever gear is FASTEST_FREQ.
NominalClock == Freq[IF turboboost_present THEN 1 ELSE 0]

-----------------------------------------------------------------------------
(* The history of a task: struct entryHist, a ring of struct entry.        *)

Entry   == [comp : Nat, comm : Nat, clock : Nat]
History == [hist : [Slots -> Entry], index : Slots]

\* A slot that was never written: memset() left it all zeros.
NoData == [comp |-> 0, comm |-> 0, clock |-> 0]

EmptyHist == [hist |-> [s \in Slots |-> NoData], index |-> 0]

\* ind(), indd(): the slot of the task's latest visit.
ind(eh) == eh.hist[eh.index]

\* indp(): the slot of the visit before it.
indp_current(eh) == ind(eh)   \* (mutant: reads the slot being written)
indp(eh) == eh.hist[(eh.index + HistEntries - 1) % HistEntries]

\* shim_pre_2() turns the ring and writes the computation into the new slot,
\* over whatever visit it held; shim_post_2() writes the communication.
rotate_unbounded(eh) == [eh EXCEPT !.index = @ + 1]   \* (mutant: no wrap)
rotate(eh) == [eh EXCEPT !.index = (@ + 1) % HistEntries]

write_comp(eh, t, clock) ==
    [eh EXCEPT !.hist[eh.index].comp = t, !.hist[eh.index].clock = clock]

write_comm(eh, t) == [eh EXCEPT !.hist[eh.index].comm = t]

Data(eh) == {s \in Slots : eh.hist[s].comp # 0}

\* The shortest computation remembered, and the shortest computation and
\* communication together.
updateDeadlineComp(eh) == Min({eh.hist[s].comp : s \in Data(eh)})
updateDeadline_latest(eh) == ind(eh).comp + ind(eh).comm   \* (mutant: no history)
updateDeadline(eh) == Min({eh.hist[s].comp + eh.hist[s].comm : s \in Data(eh)})

\* The latest call was too short to hold blocking time: the task was on the
\* critical path (detectCritical).
OnCriticalPath_stale(eh) == indp(eh).comm < BlockingBuffer   \* (mutant: the visit before)
OnCriticalPath(eh) == ind(eh).comm < BlockingBuffer

\* (mutant: takes the time measured in a slow gear for time at full speed)
updateRatio_unscaled(eh, deadline) ==
    IF OnCriticalPath(eh) \/ ind(eh).comp > deadline
    THEN [num |-> 1, den |-> 1]
    ELSE [num |-> ind(eh).comp, den |-> deadline]

\* The share of the fastest clock that the latest computation needs to end
\* within deadline, as a fraction num / den that never exceeds 1.
updateRatio(eh, deadline) ==
    LET need == [num |-> ind(eh).comp * ind(eh).clock,
                 den |-> deadline * NominalClock]
    IN  IF OnCriticalPath(eh) \/ need.num > need.den
        THEN [num |-> 1, den |-> 1]
        ELSE need

\* desired_ratio > ratios[gear], where ratios[] is relative to fastest.
Exceeds_or_equals(ratio, gear, fastest) ==   \* (mutant: >= for >)
    ratio.num * Freq[fastest] >= Freq[gear] * ratio.den

Exceeds(ratio, gear, fastest) ==
    ratio.num * Freq[fastest] > Freq[gear] * ratio.den

\* The loop over the gears: one gear faster than the fastest gear that falls
\* short of the ratio, never beyond fastest; the slowest if none falls short.
GearFor(ratio, fastest) ==
    LET short == {i \in fastest .. SLOWEST_FREQ : Exceeds(ratio, i, fastest)}
    IN  IF short = {} THEN SLOWEST_FREQ
        ELSE IF Min(short) > fastest THEN Min(short) - 1 ELSE fastest

\* schedule_computation(): the gear for the coming computation when the task
\* with history eh is predicted.  A task never visited has no data, and its
\* zero communication time reads as critical.
schedule_computation(eh, fastest) ==
    IF Data(eh) = {} \/ updateDeadlineComp(eh) <= MinComp
    THEN fastest
    ELSE GearFor(updateRatio(eh, updateDeadline(eh) - BlockingBuffer), fastest)

\* schedule_communication(): whether the call being entered is worth slowing,
\* judged by the visit before this one.
WorthSlowing(eh) == indp(eh).comm >= 2 * MinComm

=============================================================================
