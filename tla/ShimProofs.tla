----------------------------- MODULE ShimProofs -----------------------------
(***************************************************************************)
(* Invariants of Shim for any machine, history length, set of call sites   *)
(* and environment.                                                        *)
(***************************************************************************)
EXTENDS Shim, ScheduleProofs, SequenceTheorems

\* The flags a run can have are among the known ones.
LEMMA FlagsType ==
    ASSUME NEW words
    PROVE  /\ AlgoFlags(words) \subseteq FlagNames
           /\ Flags(ModFlag, words) \subseteq FlagNames
           /\ Flags(TraceFlag, words) \subseteq TraceNames
<1>1. Flags(AlgoFlag, words) \subseteq FlagNames
  BY DEF Flags, AlgoFlag, FlagNames
<1>2. Flags(ModFlag, words) \subseteq FlagNames
  BY DEF Flags, ModFlag, FlagNames
<1>3. Flags(TraceFlag, words) \subseteq TraceNames
  BY DEF Flags, TraceFlag, TraceNames
<1> QED
  BY <1>1, <1>2, <1>3 DEF AlgoFlags, FlagNames

\* The top gear is a gear.
LEMMA TopGearType == ASSUME NEW flags PROVE TopGear(flags) \in Gears
  BY EnoughGears, GearsAssumption DEF TopGear, Gears

\* The gear scheduled for a computation is a gear.
LEMMA ScheduledGearType ==
    ASSUME NEW eh, NEW fastest \in Gears
    PROVE  schedule_computation(eh, fastest) \in Gears
  BY ScheduledGearInRange, GearsAssumption DEF Gears, SLOWEST_FREQ

\* Adding a visit keeps the history of a task a sequence of visits.
LEMMA VisitsType ==
    ASSUME NEW seq \in Seq(Entry), NEW e \in Entry
    PROVE  LET visits == Append(seq, e)
           IN  /\ visits \in Seq(Entry)
               /\ Len(visits) > HistEntries => Tail(visits) \in Seq(Entry)
<1> DEFINE visits == Append(seq, e)
<1>1. visits \in Seq(Entry) /\ Len(visits) \in Nat
  OBVIOUS
<1>2. ASSUME Len(visits) > HistEntries PROVE Tail(visits) \in Seq(Entry)
  <2>1. visits # <<>>
    BY <1>1, <1>2, HistoryAssumption
  <2> QED
    BY <1>1, <2>1, HeadTailProperties
<1> QED
  BY <1>1, <1>2

\* A gear may be shifted to without leaving the types.
LEMMA ShiftType ==
    ASSUME NEW gear \in Gears, TypeOK, shift_core(gear)
    PROVE  prev_freq_idx' \in Gears \cup {-1} /\ core' \in Gears
  BY DEF shift_core, TypeOK

LEMMA DecidedShiftType ==
    ASSUME NEW gear \in Gears, TypeOK, decided_shift(gear)
    PROVE  prev_freq_idx' \in Gears \cup {-1} /\ core' \in Gears
  BY ShiftType DEF decided_shift, TypeOK

-----------------------------------------------------------------------------

LEMMA InitTypeOK == Init => TypeOK
<1> SUFFICES ASSUME Init PROVE TypeOK
  OBVIOUS
<1>1. 0 \in Gears /\ 1 \in Gears
  BY EnoughGears, GearsAssumption DEF Gears
<1>2. schedule \in [Hashes -> History]
  BY EmptyHistType DEF Init
<1>3. following_entry \in [Hashes -> Hashes] /\ current_hash \in Hashes
  BY HashesAssumption DEF Init
<1>4. recent \in [Hashes -> Seq(Entry)]
  BY DEF Init
<1> QED
  BY <1>1, <1>2, <1>3, <1>4 DEF Init, TypeOK, FlagNames, TraceNames

LEMMA NextTypeOK == TypeOK /\ [Next]_vars => TypeOK'
<1> SUFFICES ASSUME TypeOK, [Next]_vars PROVE TypeOK'
  OBVIOUS
<1>1. CASE pre_MPI_Init
  <2>1. PICK algo \in AlgoWords, mods \in ModWords, trace \in TraceWords, bad \in BadNode :
          /\ g_algo' = AlgoFlags(algo) \cup Flags(ModFlag, mods)
                       \cup (IF bad THEN {"FAKEFREQ"} ELSE {})
          /\ g_trace' = Flags(TraceFlag, trace)
          /\ g_freq' \in IF "fixedfreq" \in algo THEN FreqArgs \cup {0} ELSE {0}
    BY <1>1 DEF pre_MPI_Init
  <2>2. g_algo' \subseteq FlagNames /\ g_trace' \subseteq TraceNames
    BY <2>1, FlagsType DEF FlagNames
  <2>3. g_freq' \in FreqArgs \cup {0}
    BY <2>1
  <2>4. FASTEST_FREQ' \in Gears
    BY <1>1, TopGearType DEF pre_MPI_Init, TypeOK
  <2> QED
    BY <1>1, <2>2, <2>3, <2>4 DEF pre_MPI_Init, TypeOK, tasks, gears, start_papi
<1>2. CASE post_MPI_Init
  <2>1. schedule' \in [Hashes -> History]
    <3>1. forget_epoch(schedule[current_hash]) \in History
      <4>1. schedule[current_hash] \in History
        BY DEF TypeOK
      <4>2. ind(schedule[current_hash]) \in Entry
        BY <4>1 DEF ind, History
      <4>3. ind(schedule[current_hash]).clock \in Nat
        BY <4>2 DEF Entry
      <4> QED
        BY <4>1, <4>3, WriteType DEF forget_epoch
    <3> QED
      BY <1>2, <3>1 DEF post_MPI_Init, TypeOK
  <2>2. time_comp' \in [elapsed : Nat, clock : Nat]
    BY <1>2 DEF post_MPI_Init, TypeOK
  <2> QED
    BY <1>2, <2>1, <2>2 DEF post_MPI_Init, TypeOK, config
<1>3. CASE Call
  BY <1>3 DEF Call, Enter, TypeOK, config, tasks, gears
<1>4. CASE MPI_Alltoall
  BY <1>4 DEF MPI_Alltoall, Enter, TypeOK, config, tasks, gears
<1>5. CASE MPI_AlltoallResumes
  BY <1>5 DEF MPI_AlltoallResumes, Enter, TypeOK, config, tasks, gears
<1>6. CASE pre_MPI_Finalize
  <2>1. prev_freq_idx' \in Gears \cup {-1} /\ core' \in Gears
    BY <1>6, ShiftType DEF pre_MPI_Finalize, TypeOK
  <2> QED
    BY <1>6, <2>1 DEF pre_MPI_Finalize, Enter, TypeOK, config, tasks, stop_papi
<1>7. CASE shim_pre_2
  <2>1. PICK h \in Sites, t \in (IF op = "init" THEN {EpochTime} ELSE CompTimes) :
          LET eh == write_comp(rotate(schedule[h]), t, Freq[core])
          IN  /\ time_comp' = [elapsed |-> t, clock |-> Freq[core]]
              /\ current_hash' = h
              /\ schedule' = [schedule EXCEPT ![h] = eh]
              /\ schedule_communication(h, eh)
    BY <1>7 DEF shim_pre_2
  <2>2. h \in Hashes /\ t \in Nat /\ Freq[core] \in Nat
    BY HashesAssumption, TimesAssumption, GearsAssumption DEF TypeOK
  <2>3. write_comp(rotate(schedule[h]), t, Freq[core]) \in History
    BY <2>2, RotateType, WriteType DEF TypeOK
  <2>4. schedule' \in [Hashes -> History]
    BY <2>1, <2>3 DEF TypeOK
  <2>5. next_freq' \in Gears /\ alarm' \in {"off", "armed", "fired"}
    BY <2>1, GearsAssumption DEF schedule_communication, TypeOK, SLOWEST_FREQ, Gears
  <2> QED
    BY <1>7, <2>1, <2>2, <2>4, <2>5 DEF shim_pre_2, TypeOK, config
<1>8. CASE shim_pre_2_exits
  BY <1>8 DEF shim_pre_2_exits, TypeOK, config, timers, tasks, gears
<1>9. CASE signal_handler
  <2>1. prev_freq_idx' \in Gears \cup {-1} /\ core' \in Gears
    BY <1>9, DecidedShiftType DEF signal_handler, TypeOK
  <2> QED
    BY <1>9, <2>1 DEF signal_handler, TypeOK, config, tasks, expire
<1>10. CASE shim_post_1
  <2>1. time_comm' \in Nat
    BY <1>10, TimesAssumption DEF shim_post_1
  <2> QED
    BY <1>10, <2>1 DEF shim_post_1, TypeOK, config, tasks, gears, stop_papi, cancel_alarm
<1>11. CASE shim_post_2
  <2>1. schedule' \in [Hashes -> History]
    <3>1. write_comm(schedule[current_hash], time_comm) \in History
      BY WriteType DEF TypeOK
    <3> QED
      BY <1>11, <3>1 DEF shim_post_2, TypeOK
  <2>2. following_entry' \in [Hashes -> Hashes]
    BY <1>11 DEF shim_post_2, TypeOK
  <2>3. recent' \in [Hashes -> Seq(Entry)]
    <3> DEFINE e == [comp |-> time_comp.elapsed, comm |-> time_comm, clock |-> time_comp.clock]
               visits == Append(recent[current_hash], e)
               kept == IF Len(visits) > HistEntries THEN Tail(visits) ELSE visits
    <3>1. e \in Entry /\ recent[current_hash] \in Seq(Entry)
      BY DEF TypeOK, Entry
    <3>2. kept \in Seq(Entry)
      BY <3>1, VisitsType
    <3>3. recent' = [recent EXCEPT ![current_hash] = kept]
      BY <1>11 DEF shim_post_2
    <3> HIDE DEF kept
    <3> QED
      BY <3>2, <3>3 DEF TypeOK
  <2> QED
    BY <1>11, <2>1, <2>2, <2>3 DEF shim_post_2, TypeOK, config, timers, gears
<1>12. CASE Log
  BY <1>12 DEF Log, TypeOK, config, timers, tasks, gears
<1>13. CASE shim_post_3
  <2>1. current_freq' \in Gears
    BY <1>13, ScheduledGearType DEF shim_post_3, TypeOK
  <2>2. prev_freq_idx' \in Gears \cup {-1} /\ core' \in Gears
    BY <1>13, <2>1, DecidedShiftType DEF shim_post_3
  <2>3. time_comp' \in [elapsed : Nat, clock : Nat] /\ time_comm' \in Nat
    BY <1>13 DEF shim_post_3
  <2> QED
    BY <1>13, <2>1, <2>2, <2>3 DEF shim_post_3, TypeOK, config, start_papi
<1>14. CASE Exited
  BY <1>14 DEF Exited, TypeOK, vars, config, timers, tasks, gears
<1>15. CASE UNCHANGED vars
  BY <1>15 DEF TypeOK, vars, config, timers, tasks, gears
<1> QED
  BY <1>1, <1>2, <1>3, <1>4, <1>5, <1>6, <1>7, <1>8, <1>9, <1>10, <1>11, <1>12, <1>13,
     <1>14, <1>15 DEF Next

\* Every variable keeps its type; in particular every gear that is written
\* or remembered is a gear of the machine, and a ring index never leaves its
\* ring.
THEOREM TypeCorrect == Spec => []TypeOK
  BY InitTypeOK, NextTypeOK, PTL DEF Spec

-----------------------------------------------------------------------------
(* What ties the counters, the timer and the shift cache to the part of    *)
(* the wrapper that runs next.                                             *)

\* A wrapper leaves the event set counting for the computation and for the
\* call, and stopped in between; only Finalize finds it stopped.
CountersInStep ==
    /\ pc \in {"computing", "pmpi"} => papi
    /\ pc \in {"post_MPI_Init", "post_2", "log", "post_3"} => ~papi
    /\ pc = "pre_2" => (papi <=> op # "finalize")
    /\ op = "finalize" => pc \in {"pre_2", "exited"}

\* An armed alarm belongs to a call in progress, and asks for the slowest
\* gear; an expired one is forgotten when the next wrapper is entered.
AlarmInStep ==
    /\ alarm = "armed" => pc = "pmpi" /\ ~in_computation /\ Fermata
    /\ alarm = "armed" => next_freq = SLOWEST_FREQ
    /\ pc \in {"boot", "pre_2"} => alarm = "off"

\* MPI_Init is the first call: nothing is known about any task before it.
FirstCall ==
    /\ pc \in {"boot", "post_MPI_Init"} => op = "init"
    /\ pc = "post_MPI_Init" => alarm = "off"
    /\ pc \in {"boot", "pre_2"} /\ op = "init" => schedule = [h \in Hashes |-> EmptyHist]
    /\ pc = "pmpi" /\ op = "init" => alarm = "off"

IInv ==
    /\ TypeOK
    /\ CountersInStep
    /\ AlarmInStep
    /\ FirstCall
    /\ ComputesInScheduledGear

\* MPI_Init arms no alarm: its task has never been seen.
LEMMA FirstVisitNotSlowed ==
    ASSUME NEW t, NEW clock
    PROVE  ~WorthSlowing(write_comp(rotate(EmptyHist), t, clock))
<1> DEFINE turned == rotate(EmptyHist)
           eh == write_comp(turned, t, clock)
<1>1. /\ turned.hist = [s \in Slots |-> NoData]
      /\ turned.index \in Slots
  BY HistoryAssumption DEF rotate, EmptyHist, Slots
<1>2. /\ eh.index = turned.index
      /\ eh.hist = [turned.hist EXCEPT ![turned.index] =
                       [@ EXCEPT !.comp = t, !.clock = clock]]
  BY <1>1 DEF write_comp, rotate, EmptyHist
<1>3. \A s \in Slots : eh.hist[s].comm = 0
  BY <1>1, <1>2 DEF NoData
<1>4. (eh.index + HistEntries - 1) % HistEntries \in Slots
  BY <1>1, <1>2, HistoryAssumption DEF Slots
<1>5. indp(eh).comm = 0
  BY <1>3, <1>4 DEF indp
<1> QED
  BY <1>5, ThresholdAssumption DEF WorthSlowing

LEMMA InitIInv == Init => IInv
  BY InitTypeOK DEF Init, IInv, CountersInStep, AlarmInStep, FirstCall, ComputesInScheduledGear

LEMMA NextIInv == IInv /\ [Next]_vars => IInv'
<1> SUFFICES ASSUME IInv, [Next]_vars PROVE IInv'
  OBVIOUS
<1>0. TypeOK /\ TypeOK'
  BY NextTypeOK DEF IInv
<1> USE DEF IInv, CountersInStep, AlarmInStep, FirstCall, ComputesInScheduledGear
<1>1. CASE pre_MPI_Init
  BY <1>0, <1>1 DEF pre_MPI_Init, start_papi, tasks, gears
<1>2. CASE post_MPI_Init
  BY <1>0, <1>2 DEF post_MPI_Init
<1>3. CASE Call
  BY <1>0, <1>3 DEF Call, Enter, gears
<1>4. CASE MPI_Alltoall
  BY <1>0, <1>4 DEF MPI_Alltoall, Enter, gears
<1>5. CASE MPI_AlltoallResumes
  BY <1>0, <1>5 DEF MPI_AlltoallResumes, Enter, gears
<1>6. CASE pre_MPI_Finalize
  BY <1>0, <1>6 DEF pre_MPI_Finalize, Enter, stop_papi, shift_core
<1>7. CASE shim_pre_2
  <2>1. PICK h \in Sites, t \in (IF op = "init" THEN {EpochTime} ELSE CompTimes) :
          LET eh == write_comp(rotate(schedule[h]), t, Freq[core])
          IN  /\ current_hash' = h
              /\ schedule_communication(h, eh)
    BY <1>7 DEF shim_pre_2
  <2>2. op = "init" => alarm' = "off"
    <3> SUFFICES ASSUME op = "init" PROVE alarm' = "off"
      OBVIOUS
    <3>1. schedule[h] = EmptyHist
      BY <1>7, HashesAssumption DEF shim_pre_2
    <3>2. ~WorthSlowing(write_comp(rotate(schedule[h]), t, Freq[core]))
      BY <3>1, FirstVisitNotSlowed
    <3>3. alarm = "off"
      BY <1>7 DEF shim_pre_2
    <3> QED
      BY <2>1, <3>2, <3>3 DEF schedule_communication
  <2>3. AlarmInStep'
    BY <1>7, <2>1 DEF shim_pre_2, schedule_communication, Fermata, config
  <2>4. CountersInStep' /\ FirstCall'
    BY <1>7, <2>2 DEF shim_pre_2
  <2>5. ComputesInScheduledGear'
    BY <1>7 DEF shim_pre_2
  <2> QED
    BY <1>0, <2>3, <2>4, <2>5
<1>8. CASE shim_pre_2_exits
  BY <1>0, <1>8 DEF shim_pre_2_exits, timers, gears
<1>9. CASE signal_handler
  BY <1>0, <1>9 DEF signal_handler, expire, decided_shift, shift_core
<1>10. CASE shim_post_1
  BY <1>0, <1>10 DEF shim_post_1, gears, stop_papi, cancel_alarm
<1>11. CASE shim_post_2
  BY <1>0, <1>11 DEF shim_post_2, timers, gears
<1>12. CASE Log
  BY <1>0, <1>12 DEF Log, timers, gears
<1>13. CASE shim_post_3
  <2>1. CountersInStep' /\ AlarmInStep' /\ FirstCall'
    BY <1>13 DEF shim_post_3, start_papi
  <2>2. current_freq' \in Gears /\ current_freq' # -1
    BY <1>0, GearsAssumption DEF TypeOK, Gears
  <2>3. CASE FakeFreq
    <3>1. UNCHANGED <<prev_freq_idx, core>> /\ FakeFreq'
      BY <1>13, <2>3 DEF shim_post_3, decided_shift, FakeFreq, config
    <3> QED
      BY <1>0, <2>1, <3>1
  <2>4. CASE ~FakeFreq
    <3>1. shift_core(current_freq')
      BY <1>13, <2>4 DEF shim_post_3, decided_shift
    <3>2. prev_freq_idx' = current_freq' /\ core' = current_freq'
      BY <2>2, <3>1 DEF shift_core
    <3> QED
      BY <1>0, <2>1, <3>2
  <2> QED
    BY <2>3, <2>4
<1>14. CASE Exited
  BY <1>0, <1>14 DEF Exited, vars, timers, gears
<1>15. CASE UNCHANGED vars
  BY <1>0, <1>15 DEF vars, config, timers, tasks, gears, Fermata, FakeFreq
<1> QED
  BY <1>1, <1>2, <1>3, <1>4, <1>5, <1>6, <1>7, <1>8, <1>9, <1>10, <1>11, <1>12, <1>13, <1>14, <1>15 DEF Next

\* The inductive invariant holds in every reachable state.
THEOREM Inductive == Spec => []IInv
  BY InitIInv, NextIInv, PTL DEF Spec

\* The handler never runs inside a computation.
THEOREM HandlerConfined == Spec => []HandlerOutsideComputation
<1>1. IInv => HandlerOutsideComputation
  BY DEF IInv, AlarmInStep, HandlerOutsideComputation
<1> QED
  BY Inductive, <1>1, PTL

\* The event set is started and stopped in turns until Finalize.
THEOREM CountersAlternate == Spec => []PapiAlternates
<1>1. IInv => PapiAlternates
  BY DEF IInv, CountersInStep, PapiAlternates
<1> QED
  BY Inductive, <1>1, PTL

\* The shift cache agrees with the core, and computations run in the gear they
\* were scheduled.
THEOREM ScheduledGearRuns == Spec => []ComputesInScheduledGear
<1>1. IInv => ComputesInScheduledGear
  BY DEF IInv
<1> QED
  BY Inductive, <1>1, PTL

-----------------------------------------------------------------------------
(* Which gears a rank may ever be in: never one above the top gear that    *)
(* the flags give it, and on a node listed as bad only the top gear.       *)

\* The top gear stays what the flags make it; once MPI_Init is over the core
\* is never above it, and on a bad node never below it either.
TopInv ==
    pc \notin {"boot", "exited"} =>
        /\ FASTEST_FREQ = TopGear(g_algo)
        /\ phase # "starting" =>
              /\ core >= FASTEST_FREQ
              /\ FakeFreq => core = FASTEST_FREQ

\* A gear between the top gear and the slowest one is as good as another to
\* shift to, and a bad node does not shift.
LEMMA ShiftStaysBelowTop ==
    ASSUME TypeOK, NEW gear \in FASTEST_FREQ .. SLOWEST_FREQ, decided_shift(gear),
           core >= FASTEST_FREQ, FakeFreq => core = FASTEST_FREQ
    PROVE  core' >= FASTEST_FREQ /\ (FakeFreq => core' = FASTEST_FREQ)
  BY DEF decided_shift, shift_core, TypeOK, Gears

LEMMA InitTopInv == Init => TopInv
  BY DEF Init, TopInv

LEMMA NextTopInv == IInv /\ TopInv /\ [Next]_vars => TopInv'
<1> SUFFICES ASSUME IInv, TopInv, [Next]_vars PROVE TopInv'
  OBVIOUS
<1>a. TypeOK /\ CountersInStep /\ AlarmInStep /\ FirstCall
  BY DEF IInv
<1>b. TypeOK'
  BY <1>a, NextTypeOK
<1>c. FASTEST_FREQ \in Gears /\ core \in Gears
  BY <1>a DEF TypeOK
<1>0. /\ TypeOK /\ TypeOK' /\ CountersInStep /\ AlarmInStep /\ FirstCall
      /\ FASTEST_FREQ \in Int /\ core \in Int
  BY <1>a, <1>b, <1>c, GearsAssumption DEF Gears
<1> USE DEF TopInv, phase
<1>1. CASE pre_MPI_Init
  BY <1>0, <1>1 DEF pre_MPI_Init, FirstCall
<1>2. CASE post_MPI_Init
  BY <1>0, <1>2 DEF post_MPI_Init, config
<1>3. CASE Call \/ MPI_Alltoall \/ MPI_AlltoallResumes
  BY <1>0, <1>3 DEF Call, MPI_Alltoall, MPI_AlltoallResumes, Enter, config, gears, FakeFreq
<1>4. CASE pre_MPI_Finalize
  BY <1>0, <1>4 DEF pre_MPI_Finalize, Enter, shift_core, config, FakeFreq, CountersInStep
<1>5. CASE shim_pre_2
  BY <1>0, <1>5 DEF shim_pre_2, config, FakeFreq
<1>6. CASE shim_pre_2_exits
  BY <1>6 DEF shim_pre_2_exits
<1>7. CASE signal_handler
  <2>1. pc = "pmpi" /\ op # "init" /\ next_freq = SLOWEST_FREQ
    BY <1>0, <1>7 DEF signal_handler, AlarmInStep, FirstCall
  <2>2. next_freq \in FASTEST_FREQ .. SLOWEST_FREQ
    BY <1>0, <2>1, GearsAssumption DEF TypeOK, Gears, SLOWEST_FREQ
  <2>3. UNCHANGED <<pc, op, config>> /\ decided_shift(next_freq)
    BY <1>7 DEF signal_handler
  <2>4. op # "finalize"
    BY <1>0, <2>1 DEF CountersInStep
  <2>5. core' >= FASTEST_FREQ /\ (FakeFreq => core' = FASTEST_FREQ)
    BY <1>0, <2>1, <2>2, <2>3, <2>4, ShiftStaysBelowTop
  <2> QED
    BY <2>1, <2>3, <2>5 DEF config, FakeFreq
<1>8. CASE shim_post_1
  BY <1>0, <1>8 DEF shim_post_1, config, gears, FakeFreq
<1>9. CASE shim_post_2
  BY <1>0, <1>9 DEF shim_post_2, config, gears, FakeFreq
<1>10. CASE Log
  BY <1>0, <1>10 DEF Log, config, gears, FakeFreq
<1>11. CASE shim_post_3
  <2>1. pc = "post_3" /\ UNCHANGED <<op, config>> /\ decided_shift(current_freq')
    BY <1>11 DEF shim_post_3
  <2>2. current_freq' \in FASTEST_FREQ .. SLOWEST_FREQ
    <3>1. FASTEST_FREQ \in FASTEST_FREQ .. SLOWEST_FREQ
      BY <1>0, GearsAssumption DEF TypeOK, Gears, SLOWEST_FREQ
    <3> QED
      BY <1>0, <1>11, <3>1, ScheduledGearInRange DEF shim_post_3, TypeOK
  <2>3. core' >= FASTEST_FREQ /\ (FakeFreq => core' = FASTEST_FREQ)
    BY <1>0, <2>1, <2>2, ShiftStaysBelowTop
  <2> QED
    BY <2>1, <2>3 DEF config, FakeFreq
<1>12. CASE Exited \/ UNCHANGED vars
  BY <1>12 DEF Exited, vars, config, gears, FakeFreq
<1> QED
  BY <1>1, <1>2, <1>3, <1>4, <1>5, <1>6, <1>7, <1>8, <1>9, <1>10, <1>11, <1>12 DEF Next

LEMMA TopInvariant == Spec => [](IInv /\ TopInv)
<1>1. Init => IInv /\ TopInv
  BY InitIInv, InitTopInv
<1>2. IInv /\ TopInv /\ [Next]_vars => IInv' /\ TopInv'
  BY NextIInv, NextTopInv
<1> QED
  BY <1>1, <1>2, PTL DEF Spec

-----------------------------------------------------------------------------

\* The clocks of the gears from the top gear down: none is a turbo gear's unless
\* it was asked for, and miser's are all slower than the nominal clock.
LEMMA ClocksBelowTop ==
    ASSUME NEW flags, NEW gear \in Gears, gear >= TopGear(flags)
    PROVE  /\ Freq[gear] > NominalClock => "TURBOBOOST" \in flags
           /\ "MISER" \in flags => Freq[gear] < NominalClock
<1> DEFINE nominal == IF turboboost_present THEN 1 ELSE 0
<1>1. nominal \in Gears /\ NominalClock = Freq[nominal]
  BY EnoughGears, GearsAssumption DEF NominalClock, Gears
<1>2. \A i \in Gears : i < gear => Freq[gear] < Freq[i]
  BY GearsAssumption
<1>3. gear \in Int /\ nominal \in Int /\ Freq[gear] \in Int /\ Freq[nominal] \in Int
  BY <1>1, GearsAssumption DEF Gears
<1>4. ASSUME "MISER" \in flags PROVE Freq[gear] < NominalClock
  BY <1>1, <1>2, <1>3, <1>4 DEF TopGear
<1>5. ASSUME "TURBOBOOST" \notin flags PROVE Freq[gear] <= NominalClock
  <2>1. TopGear(flags) >= nominal
    BY <1>5 DEF TopGear
  <2>2. nominal <= gear
    BY <1>3, <2>1 DEF TopGear
  <2> QED
    BY <1>1, <1>2, <1>3, <2>2
<1> QED
  BY <1>1, <1>3, <1>4, <1>5

\* No computation and no call runs above the gear the flags allow.
THEOREM TopGearRespected == Spec => []StaysBelowTopGear
<1>1. IInv /\ TopInv => StaysBelowTopGear
  <2> SUFFICES ASSUME IInv, TopInv, pc \notin {"boot", "exited"}, phase # "starting"
               PROVE  /\ core >= FASTEST_FREQ
                      /\ Freq[core] > NominalClock => "TURBOBOOST" \in g_algo
                      /\ "MISER" \in g_algo => Freq[core] < NominalClock
    BY DEF StaysBelowTopGear
  <2>1. core \in Gears /\ core >= FASTEST_FREQ /\ FASTEST_FREQ = TopGear(g_algo)
    BY DEF IInv, TypeOK, TopInv
  <2> QED
    BY <2>1, ClocksBelowTop
<1> QED
  BY TopInvariant, <1>1, PTL

\* On a bad node no step after MPI_Init moves the core: the scheduler's shifts
\* are skipped, and the one of MPI_Finalize finds the core where it puts it.
THEOREM BadNodeLeftAlone == Spec => FakeFreqLeavesCoreAlone
<1>1. ASSUME IInv, TopInv, [Next]_vars, FakeFreq, op' # "init"
      PROVE  core' = core
  <2>0. TypeOK /\ CountersInStep /\ FirstCall
    BY <1>1 DEF IInv
  <2>1. CASE post_MPI_Init
    BY <1>1, <2>0, <2>1 DEF post_MPI_Init, FirstCall
  <2>2. CASE pre_MPI_Finalize
    <3>1. core = FASTEST_FREQ
      BY <1>1, <2>0, <2>2 DEF pre_MPI_Finalize, TopInv, phase, CountersInStep
    <3> QED
      BY <2>2, <3>1 DEF pre_MPI_Finalize, shift_core
  <2>3. CASE signal_handler
    BY <1>1, <2>3 DEF signal_handler, decided_shift
  <2>4. CASE shim_post_3
    BY <1>1, <2>4 DEF shim_post_3, decided_shift
  <2>5. CASE shim_pre_2
    BY <2>5 DEF shim_pre_2
  <2>6. CASE \/ pre_MPI_Init \/ Call \/ MPI_Alltoall \/ MPI_AlltoallResumes \/ shim_pre_2_exits
             \/ shim_post_1 \/ shim_post_2 \/ Log \/ Exited \/ UNCHANGED vars
    BY <2>6 DEF pre_MPI_Init, Call, MPI_Alltoall, MPI_AlltoallResumes, shim_pre_2_exits, shim_post_1,
                shim_post_2, Log, Exited, vars, gears
  <2> QED
    BY <1>1, <2>1, <2>2, <2>3, <2>4, <2>5, <2>6 DEF Next
<1>2. IInv /\ TopInv /\ [Next]_vars => [FakeFreq /\ op' # "init" => core' = core]_vars
  BY <1>1
<1> QED
  BY TopInvariant, <1>2, PTL DEF Spec, FakeFreqLeavesCoreAlone

-----------------------------------------------------------------------------
(* Shim keeps the promise of Gearbox: whatever the environment variables,  *)
(* the call sites, the times and the moment of the alarm, every step of    *)
(* the library is one that the promise allows, or one it does not see.     *)

\* SLOWEST_FREQ is what the promise calls the slowest gear.
LEMMA SlowestIsSlowest == Promise!Slowest = SLOWEST_FREQ
<1>1. SLOWEST_FREQ \in Gears /\ \A i \in Gears : i <= SLOWEST_FREQ
  BY GearsAssumption DEF SLOWEST_FREQ, Gears
<1>2. \A g \in Gears : (\A i \in Gears : i <= g) => g = SLOWEST_FREQ
  BY <1>1, GearsAssumption DEF SLOWEST_FREQ, Gears
<1> QED
  BY <1>1, <1>2 DEF Promise!Slowest

slowed == alarm = "fired" /\ pc \notin {"computing", "exited"}

LEMMA InitPromise == Init => Promise!Init
  BY DEF Init, Promise!Init, phase

LEMMA NextPromise ==
    IInv /\ IInv' /\ [Next]_vars => [Promise!Next]_<<phase, core, slowed>>
<1> SUFFICES ASSUME IInv, IInv', [Next]_vars
             PROVE  [Promise!Next]_<<phase, core, slowed>>
  OBVIOUS
<1>0. TypeOK /\ TypeOK' /\ CountersInStep /\ AlarmInStep /\ FirstCall
  BY DEF IInv
<1> USE DEF CountersInStep, AlarmInStep, FirstCall
<1>1. CASE pre_MPI_Init
  <2>1. CASE pc' = "exited"
    <3>1. Promise!End
      BY <1>0, <1>1, <2>1 DEF pre_MPI_Init, gears, TypeOK, phase, Promise!End
    <3> QED
      BY <3>1 DEF Promise!Next
  <2>2. CASE pc' = "pre_2"
    BY <1>0, <1>1, <2>2 DEF pre_MPI_Init, gears, phase, slowed
  <2> QED
    BY <1>1, <2>1, <2>2 DEF pre_MPI_Init
<1>2. CASE post_MPI_Init
  <2>1. Promise!Start
    BY <1>0, <1>2 DEF post_MPI_Init, TypeOK, phase, Promise!Start
  <2> QED
    BY <2>1 DEF Promise!Next
<1>3. CASE Call \/ MPI_Alltoall \/ MPI_AlltoallResumes
  <2>1. Promise!BeginCall
    BY <1>0, <1>3 DEF Call, MPI_Alltoall, MPI_AlltoallResumes, Enter, gears, phase,
                      Promise!BeginCall
  <2> QED
    BY <2>1 DEF Promise!Next
<1>4. CASE pre_MPI_Finalize
  <2>1. Promise!End
    BY <1>0, <1>4 DEF pre_MPI_Finalize, Enter, TypeOK, phase, Promise!End
  <2> QED
    BY <2>1 DEF Promise!Next
<1>5. CASE shim_pre_2
  BY <1>0, <1>5 DEF shim_pre_2, schedule_communication, phase, slowed
<1>6. CASE shim_pre_2_exits
  BY <1>0, <1>6 DEF shim_pre_2_exits, timers, gears, phase, slowed
<1>7. CASE signal_handler
  <2>1. core' \in {core, Promise!Slowest}
    BY <1>0, <1>7, SlowestIsSlowest DEF signal_handler, decided_shift, shift_core
  <2>2. Promise!Slow
    BY <1>0, <1>7, <2>1 DEF signal_handler, expire, phase, Promise!Slow
  <2> QED
    BY <2>2 DEF Promise!Next
<1>8. CASE shim_post_1
  BY <1>0, <1>8 DEF shim_post_1, cancel_alarm, gears, phase, slowed
<1>9. CASE shim_post_2 \/ Log
  BY <1>0, <1>9 DEF shim_post_2, Log, timers, gears, phase, slowed
<1>10. CASE shim_post_3
  <2>1. Promise!BeginComputation
    BY <1>0, <1>10 DEF shim_post_3, TypeOK, phase, Promise!BeginComputation
  <2> QED
    BY <2>1 DEF Promise!Next
<1>11. CASE Exited \/ UNCHANGED vars
  BY <1>11 DEF Exited, vars, timers, gears, phase, slowed
<1> QED
  BY <1>1, <1>2, <1>3, <1>4, <1>5, <1>6, <1>7, <1>8, <1>9, <1>10, <1>11 DEF Next

\* The gear of a core is chosen when a computation begins and kept through it;
\* in a call the core is slowed at most once, to the slowest gear, and the
\* next computation starts from a gear chosen anew.
THEOREM PromiseKept == Spec => KeepsPromise
  BY Inductive, InitPromise, NextPromise, PTL DEF Spec, KeepsPromise, Promise!Spec, slowed

=============================================================================
