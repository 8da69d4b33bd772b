-------------------------------- MODULE Shim --------------------------------
(***************************************************************************)
(* One MPI rank under the interception library: the wrappers of            *)
(* shim_functions.w around every MPI call, the bookkeeping and scheduling  *)
(* of shim.c, the cached gear shift of shift.c, and the SIGALRM handler    *)
(* that may run at any moment while a call is in progress.                 *)
(*                                                                         *)
(* A wrapper runs shim_pre_1, shim_pre_2, the PMPI call, shim_post_1,      *)
(* shim_post_2, Log and shim_post_3; pc names the one that runs next.  The *)
(* rank is alone on its core and leads its socket; SocketSetup has the     *)
(* ranks of a node together.                                               *)
(***************************************************************************)
EXTENDS Schedule, Sequences

CONSTANTS
    Hashes,         \* the entries of schedule[]
    Sites,          \* those that hash_backtrace() finds for some call site
    CompTimes,      \* computation times, in ticks
    CommTimes,      \* communication times, in ticks
    EpochTime,      \* what the never started timer reads at MPI_Init
    AlgoWords,      \* sets of words OMPI_MCA_gmpi_algo may hold
    ModWords,       \* sets of words OMPI_MCA_gmpi_mods may hold
    TraceWords,     \* sets of words OMPI_MCA_gmpi_trace may hold
    FreqArgs,       \* gears OMPI_MCA_gmpi_freq may ask for
    BindArgs,       \* what OMPI_MCA_gmpi_bind may name after "collapse": sets of
                    \*   the one number, or {} if it names none
    cores_per_socket,
    BadNode         \* may OMPI_MCA_gmpi_badnode list this host: a set of BOOLEANs

\* With fewer gears miser's FASTEST_FREQ would not be a gear, and the first
\* shift_core() would abort the program.
ASSUME EnoughGears == NumFreqs >= 3

ASSUME HashesAssumption == Hashes \subseteq Nat /\ 0 \in Hashes /\ Sites \subseteq Hashes

ASSUME EnvironmentAssumption ==
    /\ FreqArgs \subseteq Nat
    /\ BindArgs \subseteq SUBSET Int /\ cores_per_socket \in Nat
    /\ BadNode \subseteq BOOLEAN

\* Two marks of a timer are never at the same instant: each one opens and
\* reads /proc/mperf_aperf between two readings of the clock.  No computation
\* lasts as long as the time since the epoch.
ASSUME TimesAssumption ==
    /\ CompTimes \subseteq Nat \ {0}
    /\ CommTimes \subseteq Nat
    /\ EpochTime \in Nat \ (CompTimes \cup {0, 1})

VARIABLES
    pc,              \* the part of the wrapper that runs next
    op,              \* which wrapper it is: "init", "call" or "finalize"
    resume,          \* an MPI_Alltoall waits behind the barrier it made
    g_algo,          \* the flags of g_algo, as a set of names
    g_trace,         \* the flags of g_trace
    g_freq,          \* the gear asked for with fixedfreq
    FASTEST_FREQ,
    in_computation,
    alarm,           \* the interval timer: "off", "armed" or "fired"
    papi,            \* is the PAPI event set counting
    time_comp,       \* elapsed time and clock measured by the last stop
    time_comm,       \* elapsed time measured by the last stop
    schedule,        \* schedule[], the histories
    following_entry, \* the following_entry field of schedule[]
    current_hash,
    previous_hash,
    current_freq,
    next_freq,
    prev_freq_idx,   \* shift.c's memory of the last gear written
    core,            \* the gear the core runs in
    logged,          \* did Log() write a line for this call
    recent           \* history: the last HistEntries visits of each task

config == <<g_algo, g_trace, g_freq, FASTEST_FREQ>>
timers == <<alarm, papi, time_comp, time_comm>>
tasks  == <<schedule, following_entry, current_hash, previous_hash, recent>>
gears  == <<current_freq, next_freq, prev_freq_idx, core>>
vars   == <<pc, op, resume, config, in_computation, timers, tasks, gears, logged>>

-----------------------------------------------------------------------------
(* The environment variables.                                              *)

\* What each word of OMPI_MCA_gmpi_algo and OMPI_MCA_gmpi_mods sets; other
\* words set nothing, or flags that nothing reads.
AlgoFlag == [fermata |-> {"FERMATA"}, andante |-> {"ANDANTE"},
             adagio |-> {"FERMATA", "ANDANTE"}, miser |-> {"MISER", "FERMATA"}]
ModFlag == [bigcomm |-> {"BIGCOMM"}, turboboost |-> {"TURBOBOOST"}]
TraceFlag == [all |-> {"THRESH", "PCONTROL", "OTHER"}, thresh |-> {"THRESH"},
              pcontrol |-> {"PCONTROL"}]

Flags(table, words) == UNION {table[w] : w \in words \cap DOMAIN table}

\* fixedfreq, none and clean replace every other algorithm.
AlgoFlags(words) ==
    IF words \cap {"fixedfreq", "none", "clean"} # {}
    THEN {"FIXEDFREQ"}
    ELSE Flags(AlgoFlag, words)

FlagNames == {"FERMATA", "ANDANTE", "MISER", "FIXEDFREQ", "BIGCOMM", "TURBOBOOST", "FAKEFREQ"}
TraceNames == {"THRESH", "PCONTROL", "OTHER"}

\* The top gear: gear 0, or 1 if gear 0 is a turbo gear nobody asked for, and
\* one further down for miser.
TopGear_no_turbo(flags) == IF "MISER" \in flags THEN 1 ELSE 0   \* (mutant: forgets gear 0 is turbo)

TopGear(flags) ==
    IF "MISER" \in flags
    THEN IF turboboost_present THEN 2 ELSE 1
    ELSE IF turboboost_present /\ "TURBOBOOST" \notin flags THEN 1 ELSE 0

\* What ends the program in MPI_Init: cores to collapse to that a socket does
\* not have, and a request for turbo boost on a node without it.
Refused(flags, bind) ==
    \/ \E n \in bind : n \notin 1 .. cores_per_socket
    \/ "TURBOBOOST" \in flags /\ ~turboboost_present

Fermata  == "FERMATA" \in g_algo
Andante  == "ANDANTE" \in g_algo
FakeFreq == "FAKEFREQ" \in g_algo

\* The MPI_Alltoall wrapper puts a barrier in front of itself.
BigComm == "BIGCOMM" \in g_algo /\ (Fermata \/ Andante)

-----------------------------------------------------------------------------
(* shift.c: a gear is written only if it is not the one written last.      *)

\* (mutant: does not remember what it wrote)
shift_core_forgets(gear) ==
    /\ UNCHANGED prev_freq_idx
    /\ core' = IF gear = prev_freq_idx THEN core ELSE gear

shift_core(gear) ==
    /\ prev_freq_idx' = gear
    /\ core' = IF gear = prev_freq_idx THEN core ELSE gear

\* The shifts that scheduling decides on are skipped on a bad node.
decided_shift_always(gear) == shift_core(gear)   \* (mutant: shifts on a bad node)

decided_shift(gear) ==
    IF FakeFreq THEN UNCHANGED <<prev_freq_idx, core>> ELSE shift_core(gear)

(* The timers: PAPI counts from each start to the next stop, and setitimer()
   without an interval arms an alarm that expires once.                    *)

start_papi_never == UNCHANGED papi   \* (mutant)
start_papi == papi' = TRUE
stop_papi  == papi' = FALSE

expire_periodic == UNCHANGED alarm   \* (mutant: the timer reloads)
expire == alarm' = "fired"

\* set_alarm(0) after the call: an alarm that is still armed will not fire.
cancel_alarm_not == UNCHANGED alarm   \* (mutant: leaves the timer running)
cancel_alarm == alarm' = IF alarm = "armed" THEN "off" ELSE alarm

TypeOK ==
    /\ pc \in {"boot", "computing", "pre_2", "pmpi", "post_MPI_Init",
               "post_2", "log", "post_3", "exited"}
    /\ op \in {"init", "call", "finalize"}
    /\ resume \in BOOLEAN
    /\ g_algo \subseteq FlagNames
    /\ g_trace \subseteq TraceNames
    /\ g_freq \in FreqArgs \cup {0}
    /\ FASTEST_FREQ \in Gears
    /\ in_computation \in BOOLEAN
    /\ alarm \in {"off", "armed", "fired"}
    /\ papi \in BOOLEAN
    /\ time_comp \in [elapsed : Nat, clock : Nat]
    /\ time_comm \in Nat
    /\ schedule \in [Hashes -> History]
    /\ following_entry \in [Hashes -> Hashes]
    /\ current_hash \in Hashes
    /\ previous_hash \in Hashes \cup {-1}
    /\ current_freq \in Gears
    /\ next_freq \in Gears
    /\ prev_freq_idx \in Gears \cup {-1}
    /\ core \in Gears
    /\ logged \in BOOLEAN
    /\ recent \in [Hashes -> Seq(Entry)]

-----------------------------------------------------------------------------
(* MPI_Init.                                                               *)

\* The globals as the loader and the C runtime leave them: current_freq and
\* next_freq start at 1, and the core in whatever gear it was left.
Init ==
    /\ pc = "boot" /\ op = "init" /\ resume = FALSE
    /\ g_algo = {} /\ g_trace = {} /\ g_freq = 0 /\ FASTEST_FREQ = 1
    /\ in_computation = TRUE
    /\ alarm = "off" /\ papi = FALSE
    /\ time_comp = [elapsed |-> 0, clock |-> 0] /\ time_comm = 0
    /\ schedule = [h \in Hashes |-> EmptyHist]
    /\ following_entry = [h \in Hashes |-> 0]
    /\ current_hash = 0 /\ previous_hash = -1
    /\ current_freq = 1 /\ next_freq = 1 /\ prev_freq_idx = -1
    /\ core \in Gears
    /\ logged = FALSE
    /\ recent = [h \in Hashes |-> <<>>]

\* shim_pre_1 and pre_MPI_Init: read the environment, choose the top gear.
pre_MPI_Init ==
    /\ pc = "boot"
    /\ \E algo \in AlgoWords, mods \in ModWords, trace \in TraceWords, bad \in BadNode :
         /\ g_algo' = AlgoFlags(algo) \cup Flags(ModFlag, mods)
                       \cup (IF bad THEN {"FAKEFREQ"} ELSE {})
         /\ g_trace' = Flags(TraceFlag, trace)
         /\ g_freq' \in IF "fixedfreq" \in algo THEN FreqArgs \cup {0} ELSE {0}
    /\ \E bind \in BindArgs :
         IF Refused(g_algo', bind)
         THEN /\ pc' = "exited"
              /\ UNCHANGED <<FASTEST_FREQ, papi>>
         ELSE /\ pc' = "pre_2"
              /\ FASTEST_FREQ' = TopGear(g_algo')
              /\ start_papi
    /\ UNCHANGED <<op, resume, in_computation, alarm, time_comp, time_comm, tasks, gears, logged>>

\* The task of MPI_Init gets a negligible computation time in place of the one
\* since the epoch.
forget_epoch_not(eh) == eh   \* (mutant: keeps the time since the epoch)
forget_epoch(eh) == write_comp(eh, 1, ind(eh).clock)

\* post_MPI_Init: shm_setup() puts the socket in the slowest gear and the own
\* core in the top one, whatever FAKEFREQ says.
post_MPI_Init ==
    /\ pc = "post_MPI_Init"
    /\ prev_freq_idx' = FASTEST_FREQ
    /\ core' = FASTEST_FREQ
    /\ current_freq' = FASTEST_FREQ
    /\ time_comp' = [time_comp EXCEPT !.elapsed = 1]
    /\ schedule' = [schedule EXCEPT ![current_hash] = forget_epoch(@)]
    /\ time_comm' = 0
    /\ pc' = "post_2"
    /\ UNCHANGED <<op, resume, config, in_computation, alarm, papi, following_entry,
                   current_hash, previous_hash, recent, next_freq, logged>>

-----------------------------------------------------------------------------
(* The application enters a wrapper: shim_pre_1 kills the timer.           *)

Enter(wrapper) ==
    /\ op' = wrapper
    /\ alarm' = "off"
    /\ pc' = "pre_2"

Call ==
    /\ pc = "computing" /\ ~resume
    /\ Enter("call")
    /\ UNCHANGED <<resume, config, in_computation, papi, time_comp, time_comm, tasks, gears, logged>>

\* MPI_Alltoall calls the MPI_Barrier wrapper before its own bookkeeping.
MPI_Alltoall ==
    /\ pc = "computing" /\ ~resume /\ BigComm
    /\ Enter("call")
    /\ resume' = TRUE
    /\ UNCHANGED <<config, in_computation, papi, time_comp, time_comm, tasks, gears, logged>>

MPI_AlltoallResumes ==
    /\ pc = "computing" /\ resume
    /\ Enter("call")
    /\ resume' = FALSE
    /\ UNCHANGED <<config, in_computation, papi, time_comp, time_comm, tasks, gears, logged>>

\* pre_MPI_Finalize stops the total timer, and with it the event set, and
\* leaves the socket in the top gear.
pre_MPI_Finalize ==
    /\ pc = "computing" /\ ~resume
    /\ Enter("finalize")
    /\ stop_papi
    /\ shift_core(FASTEST_FREQ)
    /\ current_freq' = IF prev_freq_idx = FASTEST_FREQ THEN current_freq ELSE FASTEST_FREQ
    /\ UNCHANGED <<resume, config, in_computation, time_comp, time_comm, tasks, next_freq, logged>>

-----------------------------------------------------------------------------
(* The parts every wrapper shares.                                         *)

\* schedule_communication() for the call just entered, with its history eh.
schedule_communication(idx, eh) ==
    IF Fermata /\ idx # 0 /\ WorthSlowing(eh)
    THEN next_freq' = SLOWEST_FREQ /\ alarm' = "armed"
    ELSE UNCHANGED <<next_freq, alarm>>

\* Stop timing the computation, find the call site, turn its ring and write
\* the slot, start timing the communication and arm the timer.
shim_pre_2 ==
    /\ pc = "pre_2" /\ papi
    /\ in_computation' = FALSE
    /\ \E h \in Sites, t \in IF op = "init" THEN {EpochTime} ELSE CompTimes :
         LET eh == write_comp(rotate(schedule[h]), t, Freq[core])
         IN  /\ time_comp' = [elapsed |-> t, clock |-> Freq[core]]
             /\ current_hash' = h
             /\ schedule' = [schedule EXCEPT ![h] = eh]
             /\ schedule_communication(h, eh)
    /\ pc' = "pmpi"
    /\ UNCHANGED <<op, resume, config, papi, time_comm, following_entry, previous_hash, recent,
                   current_freq, prev_freq_idx, core, logged>>

\* PAPI refuses to stop an event set that is not counting, and the wrapper
\* wpapi_stop() turns the refusal into exit().
shim_pre_2_exits ==
    /\ pc = "pre_2" /\ ~papi
    /\ in_computation' = FALSE
    /\ pc' = "exited"
    /\ UNCHANGED <<op, resume, config, timers, tasks, gears, logged>>

\* SIGALRM, whenever the timer runs out.  in_computation is never set then
\* (HandlerOutsideComputation), so the handler's timing of an interrupted
\* computation does not happen.
signal_handler ==
    /\ alarm = "armed"
    /\ expire
    /\ decided_shift(next_freq)
    /\ current_freq' = next_freq
    /\ next_freq' = FASTEST_FREQ
    /\ UNCHANGED <<pc, op, resume, config, in_computation, papi, time_comp, time_comm, tasks, logged>>

\* The PMPI call returns; kill the timer and stop timing the communication.
\* The alarm has fired if the call outlasted it.
shim_post_1 ==
    /\ pc = "pmpi"
    /\ \E t \in CommTimes :
         /\ alarm = "armed" => t <= MinComm
         /\ alarm = "fired" => t >= MinComm
         /\ time_comm' = t
    /\ cancel_alarm
    /\ stop_papi
    /\ pc' = IF op = "init" THEN "post_MPI_Init" ELSE "post_2"
    /\ UNCHANGED <<op, resume, config, in_computation, time_comp, tasks, gears, logged>>

\* Write the communication half of the slot, link the previous task to this
\* one.  recent records the visit as it was measured.
shim_post_2 ==
    /\ pc = "post_2"
    /\ schedule' = [schedule EXCEPT ![current_hash] = write_comm(@, time_comm)]
    /\ following_entry' = IF previous_hash < 0 THEN following_entry
                          ELSE [following_entry EXCEPT ![previous_hash] = current_hash]
    /\ recent' = [recent EXCEPT ![current_hash] =
          LET visits == Append(@, [comp |-> time_comp.elapsed, comm |-> time_comm,
                                   clock |-> time_comp.clock])
          IN  IF Len(visits) > HistEntries THEN Tail(visits) ELSE visits]
    /\ pc' = IF g_trace = {} THEN "post_3" ELSE "log"
    /\ UNCHANGED <<op, resume, config, in_computation, timers, current_hash, previous_hash,
                   gears, logged>>

\* g_trace & trace_THRESH and a time that reaches its threshold, or
\* g_trace & trace_ALL, which has every bit set.
Log ==
    /\ pc = "log"
    /\ logged' = (\/ /\ "THRESH" \in g_trace
                     /\ \/ ind(schedule[current_hash]).comp >= MinComp
                        \/ ind(schedule[current_hash]).comm >= MinComm
                  \/ g_trace # {})
    /\ pc' = "post_3"
    /\ UNCHANGED <<op, resume, config, in_computation, timers, tasks, gears>>

\* Start timing the computation, predict that the task that followed this one
\* last time follows it again, and shift to the gear scheduled for it.
shim_post_3 ==
    /\ pc = "post_3"
    /\ previous_hash' = current_hash
    /\ start_papi
    /\ time_comp' = [elapsed |-> 0, clock |-> 0] /\ time_comm' = 0
    /\ LET idx == following_entry[current_hash]
       IN  current_freq' = IF Andante /\ idx # 0
                           THEN schedule_computation(schedule[idx], FASTEST_FREQ)
                           ELSE FASTEST_FREQ
    /\ decided_shift(current_freq')
    /\ in_computation' = TRUE
    /\ logged' = FALSE
    /\ pc' = "computing"
    /\ UNCHANGED <<op, resume, config, alarm, schedule, following_entry, current_hash, recent,
                   next_freq>>

-----------------------------------------------------------------------------

Exited == pc = "exited" /\ UNCHANGED vars

Next ==
    \/ pre_MPI_Init \/ post_MPI_Init
    \/ Call \/ MPI_Alltoall \/ MPI_AlltoallResumes \/ pre_MPI_Finalize
    \/ shim_pre_2 \/ shim_pre_2_exits \/ signal_handler
    \/ shim_post_1 \/ shim_post_2 \/ Log \/ shim_post_3
    \/ Exited

\* Every part of a wrapper that has begun runs on: the PMPI call returns, and
\* the parts around it do not block.  Nothing makes the application call.
Wrapper == shim_pre_2 \/ shim_pre_2_exits \/ shim_post_1 \/ post_MPI_Init
           \/ shim_post_2 \/ Log \/ shim_post_3

Spec == Init /\ [][Next]_vars /\ WF_vars(Wrapper)

-----------------------------------------------------------------------------
(* Correctness.                                                            *)

Last(seq) == seq[Len(seq)]

\* The task that the computation in progress was scheduled as.
predicted == following_entry[current_hash]

\* The shift cache of shift.c and the core agree as soon as anything was
\* written, so a shift that is skipped was not needed; and a computation runs
\* in the gear its schedule gave it, even if the handler had slowed the core.
ComputesInScheduledGear ==
    /\ prev_freq_idx # -1 => prev_freq_idx = core
    /\ pc = "computing" /\ ~FakeFreq => core = current_freq

\* The handler never runs inside a computation: an alarm is only pending
\* between the moment shim_pre_2 arms it and the end of the PMPI call, and
\* only fermata arms it.
HandlerOutsideComputation ==
    alarm = "armed" => pc = "pmpi" /\ ~in_computation /\ Fermata

\* Fermata slows a call only if the same call, the last time it was made,
\* took at least twice the delay of the alarm: what schedule_communication
\* reads through indp() is that visit and never an older one.
SlowsOnlyLongCalls ==
    pc = "pmpi" /\ alarm # "off" =>
        /\ current_hash # 0
        /\ recent[current_hash] # <<>>
        /\ Last(recent[current_hash]).comm >= 2 * MinComm

\* Between calls the ring of a task holds its last HistEntries visits, each
\* with the times that were measured together, and ind() is the latest.  No
\* slot mixes two visits, and the time since the epoch that MPI_Init measures
\* is not in any.
RingHoldsRecentVisits ==
    pc \in {"post_3", "computing"} =>
        \A h \in Hashes :
            LET eh == schedule[h]
                n  == Len(recent[h])
            IN  /\ Cardinality(Data(eh)) = n
                /\ \A k \in 0 .. n - 1 :
                      eh.hist[(eh.index + HistEntries - k) % HistEntries] = recent[h][n - k]
                /\ \A s \in Slots : eh.hist[s].comp # EpochTime

\* A computation is slowed only as the visits of the predicted task allow: it
\* would still have met, with the work it did last time, the earliest end of
\* that task in any remembered visit, the blocking buffer set aside.  Not so
\* with miser, whose top gear is slower than the nominal clock: the gear is
\* chosen as if the observed ratio were relative to that top gear.
Meets(gear, visits) ==
    \A k \in 1 .. Len(visits) :
        Last(visits).comp * Last(visits).clock
            <= Freq[gear] * (visits[k].comp + visits[k].comm - BlockingBuffer)

SlowedMeetsDeadline ==
    pc = "computing" /\ current_freq # FASTEST_FREQ /\ "MISER" \notin g_algo
        => Meets(current_freq, recent[predicted])

\* When the top gear runs at the nominal clock, the gear is the slowest one
\* that does so: no energy is given away.  A turbo gear that was asked for is
\* faster than that, and the gears below it are judged too slow too soon.
SlowestThatMeets ==
    pc = "computing" /\ Andante /\ Freq[FASTEST_FREQ] = NominalClock /\ predicted # 0 =>
        \A gear \in Gears :
            gear > current_freq =>
                LET visits == recent[predicted]
                IN  \/ ~Meets(gear, visits)
                    \/ Last(visits).comm < BlockingBuffer
                    \/ \E k \in 1 .. Len(visits) : visits[k].comp <= MinComp

\* A task that had no blocking time when it was last seen is on the critical
\* path and runs in the top gear; so does one too short to be worth a shift.
CriticalTaskRunsFastest ==
    pc = "computing" /\ current_freq # FASTEST_FREQ =>
        /\ Andante
        /\ Last(recent[predicted]).comm >= BlockingBuffer
        /\ \A k \in 1 .. Len(recent[predicted]) : recent[predicted][k].comp > MinComp

\* On a node listed in OMPI_MCA_gmpi_badnode no scheduling decision touches
\* the core: it stays in the gear that MPI_Init gave it.
FakeFreqLeavesCoreAlone ==
    [][FakeFreq /\ op' # "init" => core' = core]_vars

\* The event set is started and stopped in turns, so PAPI ends no program
\* before MPI_Finalize.
PapiAlternates ==
    /\ pc = "pre_2" /\ op # "finalize" => papi
    /\ pc = "pmpi" => papi
    /\ pc = "post_3" => ~papi

\* Shim implements the promise of Gearbox.
phase ==
    IF pc = "exited" \/ op = "finalize" THEN "ended"
    ELSE IF pc = "computing" THEN "computing"
    ELSE IF op = "init" /\ pc \in {"boot", "pre_2", "pmpi", "post_MPI_Init"}
    THEN "starting"
    ELSE "communicating"

Promise == INSTANCE Gearbox WITH
    gear <- core,
    slowed <- alarm = "fired" /\ pc \notin {"computing", "exited"}

KeepsPromise == Promise!Spec

\* A core that the alarm slowed is back in its scheduled gear eventually: the
\* call returns and the wrapper finishes.
SlowedIsRestored ==
    (pc = "pmpi" /\ alarm = "fired") ~> (pc = "computing" /\ (FakeFreq \/ core = current_freq))

\* No computation and no call runs above the gear the flags allow: a turbo
\* gear only on request, and with miser no gear that reaches the nominal clock.
StaysBelowTopGear ==
    pc \notin {"boot", "exited"} /\ phase # "starting" =>
        /\ core >= FASTEST_FREQ
        /\ Freq[core] > NominalClock => "TURBOBOOST" \in g_algo
        /\ "MISER" \in g_algo => Freq[core] < NominalClock

-----------------------------------------------------------------------------
(* What the repository says and the code does not do.                      *)

\* harness.c asserts that MPI_Finalize returns.
FinalizeReturns == ~(pc = "exited" /\ op = "finalize")

=============================================================================
