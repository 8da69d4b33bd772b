--------------------------- MODULE ScheduleProofs ---------------------------
(***************************************************************************)
(* What schedule_computation() returns, for every frequency table, history *)
(* length and threshold.                                                   *)
(***************************************************************************)
EXTENDS Schedule, TLAPS, WellFoundedInduction

\* Min(S) is the least element of S: what updateDeadlineComp, updateDeadline
\* and the loop over the gears compute.
LEMMA MinIsLeast ==
    ASSUME NEW S \in SUBSET Nat, S # {}
    PROVE  /\ Min(S) \in S
           /\ \A y \in S : Min(S) <= y
<1>1. \E x \in S : \A y \in S : ~(<<y, x>> \in OpToRel(<, Nat))
  BY NatLessThanWellFounded, WFMin
<1>2. ASSUME NEW x \in Nat, NEW y \in Nat, y < x
      PROVE  <<y, x>> \in OpToRel(<, Nat)
  BY <1>2 DEF OpToRel
<1>3. \E x \in S : \A y \in S : ~(y < x)
  BY <1>1, <1>2
<1>4. \E x \in S : \A y \in S : x <= y
  BY <1>3
<1> QED
  BY <1>4 DEF Min

\* The loop over the gears returns a gear no faster than the top gear.
LEMMA GearForInRange ==
    ASSUME NEW ratio, NEW fastest \in Gears
    PROVE  GearFor(ratio, fastest) \in fastest .. SLOWEST_FREQ
<1> DEFINE short == {i \in fastest .. SLOWEST_FREQ : Exceeds(ratio, i, fastest)}
<1>1. fastest \in Nat /\ SLOWEST_FREQ \in Nat /\ fastest <= SLOWEST_FREQ
  BY GearsAssumption DEF Gears, SLOWEST_FREQ
<1>2. CASE short = {}
  BY <1>1, <1>2 DEF GearFor
<1>3. CASE short # {}
  <2>1. Min(short) \in short
    BY <1>1, <1>3, MinIsLeast
  <2> HIDE DEF short
  <2>2. Min(short) \in fastest .. SLOWEST_FREQ
    BY <2>1 DEF short
  <2>3. GearFor(ratio, fastest) = IF Min(short) > fastest THEN Min(short) - 1 ELSE fastest
    BY <1>3 DEF GearFor, short
  <2> QED
    BY <1>1, <2>2, <2>3
<1> QED
  BY <1>2, <1>3

\* The gear returned does not fall short of the ratio, unless it is the top
\* gear; the next slower one does.
LEMMA GearForIsSlowest ==
    ASSUME NEW ratio, NEW fastest \in Gears
    PROVE  LET g == GearFor(ratio, fastest)
           IN  /\ g = fastest \/ ~Exceeds(ratio, g, fastest)
               /\ g < SLOWEST_FREQ =>
                    \E i \in {g, g + 1} : i \in Gears /\ Exceeds(ratio, i, fastest)
<1> DEFINE short == {i \in fastest .. SLOWEST_FREQ : Exceeds(ratio, i, fastest)}
           g == GearFor(ratio, fastest)
<1>1. fastest \in Nat /\ SLOWEST_FREQ \in Nat /\ fastest <= SLOWEST_FREQ
  BY GearsAssumption DEF Gears, SLOWEST_FREQ
<1>2. CASE short = {}
  <2>1. g = SLOWEST_FREQ /\ SLOWEST_FREQ \notin short
    BY <1>2 DEF GearFor
  <2> QED
    BY <1>1, <2>1
<1>3. CASE short # {}
  <2>1. Min(short) \in short /\ \A y \in short : Min(short) <= y
    BY <1>1, <1>3, MinIsLeast
  <2>2. g = IF Min(short) > fastest THEN Min(short) - 1 ELSE fastest
    BY <1>3 DEF GearFor
  <2>3. CASE Min(short) > fastest
    <3>1. g = Min(short) - 1 /\ g \in fastest .. SLOWEST_FREQ
      BY <1>1, <2>1, <2>2, <2>3
    <3>2. g \notin short
      BY <1>1, <2>1, <3>1
    <3>3. Min(short) = g + 1 /\ Min(short) \in Gears /\ Exceeds(ratio, Min(short), fastest)
      BY <1>1, <2>1, <3>1, GearsAssumption DEF Gears, SLOWEST_FREQ
    <3> QED
      BY <3>1, <3>2, <3>3
  <2>4. CASE ~(Min(short) > fastest)
    <3>1. g = fastest /\ Min(short) = fastest
      BY <1>1, <2>1, <2>2, <2>4
    <3> QED
      BY <2>1, <3>1
  <2> QED
    BY <2>3, <2>4
<1> QED
  BY <1>2, <1>3

\* schedule_computation() returns a gear the caller may shift to: the
\* assertion of shift_core() on the gear's range never fails.
THEOREM ScheduledGearInRange ==
    ASSUME NEW eh, NEW fastest \in Gears
    PROVE  schedule_computation(eh, fastest) \in fastest .. SLOWEST_FREQ
<1>1. fastest \in fastest .. SLOWEST_FREQ
  BY GearsAssumption DEF Gears, SLOWEST_FREQ
<1> QED
  BY <1>1, GearForInRange DEF schedule_computation

\* A ratio of 1 selects the top gear.
LEMMA OneGivesTopGear ==
    ASSUME NEW fastest \in Gears
    PROVE  GearFor([num |-> 1, den |-> 1], fastest) = fastest
<1> DEFINE one == [num |-> 1, den |-> 1]
           g == GearFor(one, fastest)
<1>1. g \in fastest .. SLOWEST_FREQ
  BY GearForInRange
<1>2. g = fastest \/ ~Exceeds(one, g, fastest)
  BY GearForIsSlowest
<1>3. ASSUME g # fastest PROVE FALSE
  <2>1. fastest \in Gears /\ g \in Gears /\ fastest < g
    BY <1>1, <1>3, GearsAssumption DEF Gears, SLOWEST_FREQ
  <2>2. Freq[g] < Freq[fastest] /\ Freq[g] \in Nat /\ Freq[fastest] \in Nat
    BY <2>1, GearsAssumption
  <2> QED
    BY <1>2, <1>3, <2>2 DEF Exceeds
<1> QED
  BY <1>3

\* A task whose latest call left no blocking time gets the top gear.
THEOREM CriticalTaskGetsTopGear ==
    ASSUME NEW eh, NEW fastest \in Gears, OnCriticalPath(eh)
    PROVE  schedule_computation(eh, fastest) = fastest
<1>1. \A d : updateRatio(eh, d) = [num |-> 1, den |-> 1]
  BY DEF updateRatio
<1> QED
  BY <1>1, OneGivesTopGear DEF schedule_computation

\* Integer arithmetic the deadline theorem needs.
LEMMA CancelFactor ==
    ASSUME NEW a \in Int, NEW b \in Int, NEW c \in Nat \ {0}, a * c <= b * c
    PROVE  a <= b
<1> SUFFICES ASSUME b + 1 <= a PROVE FALSE
  OBVIOUS
<1>1. (b + 1) * c <= a * c
  OBVIOUS
<1>2. (b + 1) * c = b * c + c
  OBVIOUS
<1> QED
  BY <1>1, <1>2

LEMMA ScaleFactor ==
    ASSUME NEW a \in Nat, NEW b \in Int, NEW c \in Int, b <= c
    PROVE  a * b <= a * c
OBVIOUS

\* The two minima over a ring are attained in it.
LEMMA DeadlinesAreMinima ==
    ASSUME NEW eh \in History, Data(eh) # {}
    PROVE  /\ updateDeadlineComp(eh) \in Nat /\ updateDeadline(eh) \in Nat
           /\ \E s \in Data(eh) : updateDeadlineComp(eh) = eh.hist[s].comp
           /\ \E s \in Data(eh) : updateDeadline(eh) = eh.hist[s].comp + eh.hist[s].comm
           /\ \A s \in Data(eh) :
                /\ updateDeadlineComp(eh) <= eh.hist[s].comp
                /\ updateDeadline(eh) <= eh.hist[s].comp + eh.hist[s].comm
<1> DEFINE comps == {eh.hist[s].comp : s \in Data(eh)}
           ends  == {eh.hist[s].comp + eh.hist[s].comm : s \in Data(eh)}
<1>1. \A s \in Data(eh) : s \in Slots /\ eh.hist[s] \in Entry
  BY DEF Data, History
<1>2. comps \in SUBSET Nat /\ comps # {} /\ ends \in SUBSET Nat /\ ends # {}
  BY <1>1 DEF Entry
<1>3. Min(comps) \in comps /\ \A y \in comps : Min(comps) <= y
  BY <1>2, MinIsLeast
<1>4. Min(ends) \in ends /\ \A y \in ends : Min(ends) <= y
  BY <1>2, MinIsLeast
<1> QED
  BY <1>2, <1>3, <1>4 DEF updateDeadlineComp, updateDeadline

\* A gear below the top one is only given to a task that is remembered, had
\* blocking time, and never was too short to bother.
LEMMA SlowedTaskIsLong ==
    ASSUME NEW eh \in History, NEW fastest \in Gears,
           schedule_computation(eh, fastest) # fastest
    PROVE  /\ ~OnCriticalPath(eh)
           /\ Data(eh) # {}
           /\ \A s \in Data(eh) : eh.hist[s].comp > MinComp
<1>1. ~OnCriticalPath(eh)
  BY CriticalTaskGetsTopGear
<1>2. Data(eh) # {} /\ ~(updateDeadlineComp(eh) <= MinComp)
  BY DEF schedule_computation
<1>3. \A s \in Data(eh) : eh.hist[s].comp > MinComp
  <2> SUFFICES ASSUME NEW s \in Data(eh) PROVE eh.hist[s].comp > MinComp
    OBVIOUS
  <2>1. MinComp \in Nat /\ eh.hist[s].comp \in Nat
    BY ThresholdAssumption DEF Data, History, Entry
  <2>2. updateDeadlineComp(eh) \in Nat /\ updateDeadlineComp(eh) <= eh.hist[s].comp
    BY <1>2, DeadlinesAreMinima
  <2> QED
    BY <1>2, <2>1, <2>2
<1> QED
  BY <1>1, <1>2, <1>3

\* What both theorems below reason about: the work W of the latest visit, the
\* deadline d, and the gear that W * NominalClock ticks within d select.
LEMMA DeadlineArithmetic ==
    ASSUME NEW eh \in History, NEW fastest \in Gears, Data(eh) # {}, ~OnCriticalPath(eh),
           \A s \in Data(eh) : eh.hist[s].comp > MinComp
    PROVE  LET W == ind(eh).comp * ind(eh).clock
               d == updateDeadline(eh) - BlockingBuffer
               ratio == IF W > d * NominalClock
                        THEN [num |-> 1, den |-> 1]
                        ELSE [num |-> W, den |-> d * NominalClock]
           IN  /\ W \in Nat /\ d \in Nat
               /\ schedule_computation(eh, fastest) = GearFor(ratio, fastest)
<1> DEFINE W == ind(eh).comp * ind(eh).clock
           d == updateDeadline(eh) - BlockingBuffer
<1>1. W \in Nat
  <2>1. ind(eh) \in Entry
    BY DEF ind, History
  <2>2. ind(eh).comp \in Nat /\ ind(eh).clock \in Nat
    BY <2>1 DEF Entry
  <2> QED
    BY <2>2
<1>2. d \in Nat
  <2>1. PICK s \in Data(eh) : updateDeadline(eh) = eh.hist[s].comp + eh.hist[s].comm
    BY DeadlinesAreMinima
  <2>2. eh.hist[s].comp \in Nat /\ eh.hist[s].comm \in Nat
    BY DEF Data, History, Entry
  <2> QED
    BY <2>1, <2>2, ThresholdAssumption
<1>3. ~(updateDeadlineComp(eh) <= MinComp)
  <2>1. PICK s \in Data(eh) : updateDeadlineComp(eh) = eh.hist[s].comp
    BY DeadlinesAreMinima
  <2>2. eh.hist[s].comp \in Nat /\ MinComp \in Nat
    BY ThresholdAssumption DEF Data, History, Entry
  <2> QED
    BY <2>1, <2>2
<1>4. updateRatio(eh, d) = IF W > d * NominalClock
                           THEN [num |-> 1, den |-> 1]
                           ELSE [num |-> W, den |-> d * NominalClock]
  BY DEF updateRatio
<1> QED
  BY <1>1, <1>2, <1>3, <1>4 DEF schedule_computation

\* The clocks are positive numbers.
LEMMA ClockType ==
    /\ \A gear \in Gears : Freq[gear] \in Nat \ {0}
    /\ NominalClock \in Nat \ {0}
<1>1. \A gear \in Gears : Freq[gear] \in Nat \ {0}
  BY GearsAssumption
<1>2. (IF turboboost_present THEN 1 ELSE 0) \in Gears
  BY GearsAssumption DEF turboboost_present, Gears
<1> QED
  BY <1>1, <1>2 DEF NominalClock

\* When the top gear is no slower than the nominal clock, a gear below it is
\* only given to a task that had blocking time, that never was too short to
\* bother, and that would have ended, at that gear and with the work it did
\* last, no later than the earliest of its remembered visits less the
\* blocking buffer.
THEOREM SlowedTaskMeetsDeadline ==
    ASSUME NEW eh \in History, NEW fastest \in Gears,
           Freq[fastest] >= NominalClock,
           schedule_computation(eh, fastest) # fastest
    PROVE  /\ ~OnCriticalPath(eh)
           /\ \A s \in Data(eh) :
                /\ eh.hist[s].comp > MinComp
                /\ ind(eh).comp * ind(eh).clock
                     <= Freq[schedule_computation(eh, fastest)]
                          * (eh.hist[s].comp + eh.hist[s].comm - BlockingBuffer)
<1> DEFINE g == schedule_computation(eh, fastest)
           d == updateDeadline(eh) - BlockingBuffer
           W == ind(eh).comp * ind(eh).clock
           need == [num |-> W, den |-> d * NominalClock]
           one == [num |-> 1, den |-> 1]
<1>1. /\ ~OnCriticalPath(eh)
      /\ Data(eh) # {}
      /\ \A s \in Data(eh) : eh.hist[s].comp > MinComp
  BY SlowedTaskIsLong
<1>2. /\ W \in Nat /\ d \in Nat
      /\ g = GearFor(IF W > d * NominalClock THEN one ELSE need, fastest)
  BY <1>1, DeadlineArithmetic
<1>3. g = GearFor(need, fastest)
  BY <1>2, OneGivesTopGear
<1>4. ~Exceeds(need, g, fastest)
  BY <1>3, GearForIsSlowest
<1>5. g \in Gears
  BY ScheduledGearInRange, GearsAssumption DEF Gears, SLOWEST_FREQ
<1>6. /\ Freq[g] \in Nat /\ NominalClock \in Nat \ {0} /\ Freq[fastest] \in Nat \ {0}
      /\ W \in Nat /\ d \in Nat
  BY <1>2, <1>5, ClockType
<1>7. W <= Freq[g] * d
  <2> HIDE DEF W, d, g
  <2> DEFINE share == Freq[g] * d
  <2>1. W * Freq[fastest] <= Freq[g] * (d * NominalClock)
    BY <1>4, <1>6 DEF Exceeds
  <2>2. Freq[g] * (d * NominalClock) = share * NominalClock
    BY <1>6
  <2>3. share \in Nat
    BY <1>6
  <2> HIDE DEF share
  <2>4. share * NominalClock <= share * Freq[fastest]
    BY <1>6, <2>3, ScaleFactor
  <2>5. /\ W * Freq[fastest] \in Int /\ share * NominalClock \in Int
        /\ share * Freq[fastest] \in Int
    BY <1>6, <2>3
  <2>6. W * Freq[fastest] <= share * Freq[fastest]
    BY <2>1, <2>2, <2>4, <2>5
  <2>7. W <= share
    BY <1>6, <2>3, <2>6, CancelFactor
  <2> QED
    BY <2>7 DEF share
<1>8. ASSUME NEW s \in Data(eh)
      PROVE  W <= Freq[g] * (eh.hist[s].comp + eh.hist[s].comm - BlockingBuffer)
  <2> DEFINE e == eh.hist[s].comp + eh.hist[s].comm - BlockingBuffer
  <2>0. eh.hist[s].comp \in Nat /\ eh.hist[s].comm \in Nat
    BY DEF Data, History, Entry
  <2>1. d <= e /\ e \in Int
    BY <1>1, <2>0, DeadlinesAreMinima, ThresholdAssumption
  <2> HIDE DEF W, d, g, e
  <2>2. Freq[g] * d <= Freq[g] * e
    BY <1>6, <2>1, ScaleFactor
  <2>3. Freq[g] * d \in Int /\ Freq[g] * e \in Int
    BY <1>6, <2>1
  <2>4. W <= Freq[g] * e
    BY <1>6, <1>7, <2>2, <2>3
  <2> QED
    BY <2>4 DEF e
<1> QED
  BY <1>1, <1>8

\* When the top gear runs at the nominal clock, a task worth slowing gets the
\* slowest gear that meets its deadline: a slower one would have missed the
\* earliest end of some remembered visit.
THEOREM ScheduledGearIsSlowest ==
    ASSUME NEW eh \in History, NEW fastest \in Gears,
           Freq[fastest] = NominalClock,
           Data(eh) # {}, ~OnCriticalPath(eh),
           \A s \in Data(eh) : eh.hist[s].comp > MinComp,
           NEW gear \in Gears, gear > schedule_computation(eh, fastest)
    PROVE  \E s \in Data(eh) :
              ind(eh).comp * ind(eh).clock
                > Freq[gear] * (eh.hist[s].comp + eh.hist[s].comm - BlockingBuffer)
<1> DEFINE g == schedule_computation(eh, fastest)
           d == updateDeadline(eh) - BlockingBuffer
           W == ind(eh).comp * ind(eh).clock
           need == [num |-> W, den |-> d * NominalClock]
           one == [num |-> 1, den |-> 1]
<1>1. /\ W \in Nat /\ d \in Nat
      /\ g = GearFor(IF W > d * NominalClock THEN one ELSE need, fastest)
  BY DeadlineArithmetic
<1>2. PICK s \in Data(eh) : updateDeadline(eh) = eh.hist[s].comp + eh.hist[s].comm
  BY DeadlinesAreMinima
<1>3. /\ Freq[gear] \in Nat \ {0} /\ NominalClock \in Nat \ {0}
      /\ g \in fastest .. SLOWEST_FREQ /\ g \in Nat /\ gear \in Nat
  BY ScheduledGearInRange, ClockType, GearsAssumption DEF Gears, SLOWEST_FREQ
<1>4. g < SLOWEST_FREQ /\ fastest < gear
  BY <1>3, GearsAssumption DEF Gears, SLOWEST_FREQ
\* A clock that the work misses the deadline with is no slower than gear's.
<1>5. PICK i \in Gears : i <= gear /\ W > Freq[i] * d
  <2>1. CASE W > d * NominalClock
    <3>1. fastest \in Gears /\ fastest <= gear /\ W > Freq[fastest] * d
      BY <1>1, <1>3, <1>4, <2>1, GearsAssumption DEF Gears
    <3> QED
      BY <3>1
  <2>2. CASE ~(W > d * NominalClock)
    <3>1. g = GearFor(need, fastest)
      BY <1>1, <2>2
    <3>2. PICK i \in {g, g + 1} : i \in Gears /\ Exceeds(need, i, fastest)
      BY <1>4, <3>1, GearForIsSlowest
    <3>3. i <= gear
      BY <1>3, <3>2
    <3>4. W * NominalClock > Freq[i] * (d * NominalClock)
      BY <3>2 DEF Exceeds
    <3>5. Freq[i] \in Nat
      BY <3>2, ClockType
    <3>6. W > Freq[i] * d
      <4> HIDE DEF W, d
      <4> SUFFICES ASSUME W <= Freq[i] * d PROVE FALSE
        BY <1>1, <3>5
      <4> DEFINE share == Freq[i] * d
      <4>1. share \in Nat /\ Freq[i] * (d * NominalClock) = share * NominalClock
        BY <1>1, <1>3, <3>5
      <4>2. W <= share
        OBVIOUS
      <4> HIDE DEF share
      <4>3. NominalClock * W <= NominalClock * share
        BY <1>1, <1>3, <4>1, <4>2, ScaleFactor
      <4> QED
        BY <1>1, <1>3, <3>4, <4>1, <4>3
    <3> QED
      BY <3>2, <3>3, <3>6
  <2> QED
    BY <2>1, <2>2
<1>6. Freq[i] \in Nat /\ Freq[gear] <= Freq[i]
  <2>1. i = gear \/ i < gear
    BY <1>3, <1>5, GearsAssumption DEF Gears
  <2> QED
    BY <1>3, <2>1, GearsAssumption
<1>7. W > Freq[gear] * d
  <2> HIDE DEF W, d
  <2>1. d * Freq[gear] <= d * Freq[i]
    BY <1>1, <1>3, <1>6, ScaleFactor
  <2> QED
    BY <1>1, <1>3, <1>5, <1>6, <2>1
<1>8. d = eh.hist[s].comp + eh.hist[s].comm - BlockingBuffer
  <2>1. eh.hist[s].comp \in Nat /\ eh.hist[s].comm \in Nat
    BY DEF Data, History, Entry
  <2> QED
    BY <1>2, <2>1, ThresholdAssumption
<1>9. W > Freq[gear] * (eh.hist[s].comp + eh.hist[s].comm - BlockingBuffer)
  <2> HIDE DEF W, d
  <2> QED
    BY <1>7, <1>8
<1> QED
  BY <1>9

-----------------------------------------------------------------------------
(* The ring of a task stays a ring of entries.                             *)

LEMMA EmptyHistType == EmptyHist \in History
<1>1. 0 \in Slots
  BY HistoryAssumption DEF Slots
<1>2. NoData \in Entry
  BY DEF NoData, Entry
<1> QED
  BY <1>1, <1>2 DEF EmptyHist, History

LEMMA RotateType ==
    ASSUME NEW eh \in History
    PROVE  rotate(eh) \in History
<1>1. eh.index \in Slots /\ eh.hist \in [Slots -> Entry]
  BY DEF History
<1>2. (eh.index + 1) % HistEntries \in Slots
  BY <1>1, HistoryAssumption DEF Slots
<1> QED
  BY <1>1, <1>2 DEF rotate, History

LEMMA WriteType ==
    ASSUME NEW eh \in History, NEW t \in Nat, NEW clock \in Nat
    PROVE  /\ write_comp(eh, t, clock) \in History
           /\ write_comm(eh, t) \in History
<1>1. eh.index \in Slots /\ eh.hist \in [Slots -> Entry] /\ eh.hist[eh.index] \in Entry
  BY DEF History
<1>2. /\ [eh.hist[eh.index] EXCEPT !.comp = t, !.clock = clock] \in Entry
      /\ [eh.hist[eh.index] EXCEPT !.comm = t] \in Entry
  BY <1>1 DEF Entry
<1> QED
  BY <1>1, <1>2 DEF write_comp, write_comm, History, Entry

=============================================================================
