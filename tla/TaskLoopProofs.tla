--------------------------- MODULE TaskLoopProofs ---------------------------
(***************************************************************************)
(* A rank slowed in a loop is there before those that wait for it, for any *)
(* gears, history length, work and arrivals.                               *)
(***************************************************************************)
EXTENDS TaskLoop, ScheduleProofs, TLAPS

\* The gear is the one the history asks for, and the latest entry of the
\* history measures the work of the turn that ended last.
LoopInv ==
    /\ schedule \in History
    /\ current_freq \in Gears
    /\ work \in Works /\ arrival \in Arrivals
    /\ current_freq # FASTEST_FREQ =>
          /\ current_freq = schedule_computation(schedule, FASTEST_FREQ)
          /\ ind(schedule).comp * ind(schedule).clock = work

LEMMA TopGear == FASTEST_FREQ \in Gears /\ Freq[FASTEST_FREQ] = NominalClock
BY GearsAssumption, LoopAssumption DEF Gears, FASTEST_FREQ, NominalClock

\* Computation times are exact.
LEMMA CompIsExact ==
    ASSUME NEW w \in Works, NEW g \in Gears
    PROVE  Comp(w, g) \in Nat /\ Comp(w, g) * Freq[g] = w
<1>1. w \in Nat /\ Freq[g] \in Nat \ {0} /\ w % Freq[g] = 0
  BY LoopAssumption, GearsAssumption
<1> DEFINE F == Freq[g]
<1> HIDE DEF F
<1>2. w \in Nat /\ F \in Nat \ {0} /\ w % F = 0
  BY <1>1 DEF F
<1>3. w \div F \in Nat
  BY <1>2
<1>4. w = F * (w \div F) + (w % F)
  BY <1>2
<1>5. (w \div F) * F = w
  BY <1>2, <1>3, <1>4
<1> QED
  BY <1>3, <1>5 DEF Comp, F

LEMMA TurnInv ==
    ASSUME LoopInv, NEW w \in Works, NEW t \in Arrivals, Turn(w, t)
    PROVE  LoopInv'
<1> DEFINE turned  == rotate(schedule)
           entered == write_comp(turned, Comp(w, current_freq), Freq[current_freq])
           left    == write_comm(entered, Comm(w, current_freq, t))
<1>1. /\ schedule \in History /\ current_freq \in Gears
      /\ schedule' = left /\ work' = w /\ arrival' = t
      /\ current_freq' = schedule_computation(left, FASTEST_FREQ)
  BY DEF LoopInv, Turn
<1>2. Comp(w, current_freq) \in Nat /\ Comp(w, current_freq) * Freq[current_freq] = w
  BY <1>1, CompIsExact
<1>3. Freq[current_freq] \in Nat /\ t \in Nat
  BY <1>1, GearsAssumption, LoopAssumption
<1>4. Comm(w, current_freq, t) \in Nat
  BY <1>2, <1>3 DEF Comm
<1>5. turned \in History /\ entered \in History /\ left \in History
  BY <1>1, <1>2, <1>3, <1>4, RotateType, WriteType
<1>6. ind(left).comp = Comp(w, current_freq) /\ ind(left).clock = Freq[current_freq]
  <2>1. turned.index \in Slots /\ turned.hist \in [Slots -> Entry]
        /\ turned.hist[turned.index] \in Entry
    BY <1>5 DEF History
  <2> HIDE DEF turned
  <2>2. /\ entered.index = turned.index
        /\ entered.hist[turned.index].comp = Comp(w, current_freq)
        /\ entered.hist[turned.index].clock = Freq[current_freq]
    BY <2>1 DEF write_comp, Entry, History
  <2>3. entered.hist \in [Slots -> Entry] /\ entered.hist[turned.index] \in Entry
    BY <1>5, <2>1 DEF History
  <2> HIDE DEF entered
  <2> QED
    BY <2>1, <2>2, <2>3 DEF write_comm, Entry, ind
<1> HIDE DEF left
<1>7. current_freq' \in Gears
  <2>1. current_freq' \in FASTEST_FREQ .. SLOWEST_FREQ
    BY <1>1, TopGear, ScheduledGearInRange
  <2> QED
    BY <2>1 DEF FASTEST_FREQ, SLOWEST_FREQ, Gears
<1>8. ind(left).comp * ind(left).clock = w
  BY <1>2, <1>6
<1> QED
  BY <1>1, <1>5, <1>7, <1>8 DEF LoopInv

LEMMA LoopInductive == Spec => []LoopInv
<1>1. Init => LoopInv
  BY EmptyHistType, TopGear DEF Init, LoopInv, FASTEST_FREQ
<1>2. LoopInv /\ [Next]_vars => LoopInv'
  <2> SUFFICES ASSUME LoopInv, [Next]_vars PROVE LoopInv'
    OBVIOUS
  <2>1. CASE Varying
    BY <2>1, TurnInv DEF Varying
  <2>2. CASE Settling \/ UNCHANGED vars
    BY <2>2 DEF Settling, LoopInv, vars
  <2>3. CASE Repeating
    BY <2>3, TurnInv DEF Repeating, LoopInv
  <2> QED
    BY <2>1, <2>2, <2>3 DEF Next
<1> QED
  BY <1>1, <1>2, PTL DEF Spec

\* A gear below the top is only chosen where the work of the last turn, done in
\* that gear, ends before the ranks arrive that the history has seen: for every
\* table of gears, length of history, amount of work and time of arrival.
THEOREM SlowedIsInTime == Spec => []SlowedArrivesInTime
<1>1. LoopInv => SlowedArrivesInTime
  <2> SUFFICES ASSUME LoopInv, current_freq # FASTEST_FREQ,
                      NEW w \in Works, NEW t \in Arrivals, w <= work,
                      NEW s \in Data(schedule),
                      t >= schedule.hist[s].comp + schedule.hist[s].comm - BlockingBuffer
               PROVE  Comp(w, current_freq) <= t
    BY DEF SlowedArrivesInTime
  <2> DEFINE F == Freq[current_freq]
             c == Comp(w, current_freq)
             d == schedule.hist[s].comp + schedule.hist[s].comm - BlockingBuffer
  <2>1. work <= F * d
    <3>1. schedule \in History /\ schedule_computation(schedule, FASTEST_FREQ) # FASTEST_FREQ
          /\ current_freq = schedule_computation(schedule, FASTEST_FREQ)
          /\ ind(schedule).comp * ind(schedule).clock = work
      BY DEF LoopInv
    <3>2. Freq[FASTEST_FREQ] >= NominalClock
      BY TopGear, ClockType
    <3> QED
      BY <3>1, <3>2, TopGear, SlowedTaskMeetsDeadline
  <2>2. c \in Nat /\ c * F = w /\ F \in Nat \ {0}
    BY CompIsExact, GearsAssumption DEF LoopInv
  <2>3. d \in Int /\ t \in Nat /\ d <= t /\ w \in Nat /\ work \in Nat
    <3>1. s \in Slots /\ schedule.hist \in [Slots -> Entry]
      BY DEF Data, LoopInv, History
    <3>2. schedule.hist[s].comp \in Nat /\ schedule.hist[s].comm \in Nat
      BY <3>1 DEF Entry
    <3> QED
      BY <3>2, LoopAssumption, ThresholdAssumption DEF LoopInv
  <2> HIDE DEF F, c, d
  <2>4. F * d <= F * t
    BY <2>2, <2>3, ScaleFactor
  <2>5. F * d \in Int /\ F * t \in Nat /\ F * t = t * F
    BY <2>2, <2>3
  <2>6. c * F <= t * F
    BY <2>1, <2>2, <2>3, <2>4, <2>5
  <2>7. c <= t
    BY <2>2, <2>3, <2>6, CancelFactor
  <2> QED
    BY <2>7 DEF c
<1> QED
  BY <1>1, LoopInductive, PTL

=============================================================================
