# A formal model of Adagio

Adagio is a run-time library that saves energy in MPI programs. It is loaded
under the program, intercepts every MPI call of every rank, and puts the cores
in slower gears (DVFS frequencies) where this costs no time: while a rank
computes ahead of the ranks it will wait for ("andante"), and while it waits
inside an MPI call ("fermata"). "Adagio" is both together. The repository also
holds its predecessor, *Jitter*, which decides once per iteration of the
program, in five versions; the *Simple Scaling Daemon* through which gears are
set on other nodes; and *mpibody*, the n-body solver written to show Jitter off.

This directory models the library, Jitter, the daemon and the solver in TLA+.
TLC checks the models on small instances; TLAPS proves the safety properties of
all of them for every instance.

    tlc -config ShimCalls.cfg MCShim.tla       check one run
    tlapm ShimProofs.tla                       check the proofs of a module

PROJECT.json lists the runs, the source lines each definition stands for, the
hazards and which property looks after each, and the findings.


## 1. The system

### Components, their state and operations

| component | source | state | operations | module |
|---|---|---|---|---|
| scheduling arithmetic | shim.c, shim.h | per call site: a ring of the last visits (computation time, communication time, clock) | turn the ring, write a visit, deadline, ratio, gear | Schedule |
| wrappers and bookkeeping | shim.c, shim_functions.w | flags, timers, `current_hash`, `previous_hash`, `following_entry`, `current_freq`, `next_freq` | MPI_Init, each part of a wrapper, SIGALRM, MPI_Finalize | Shim |
| environment | shim.c | `g_algo`, `g_trace`, `g_freq`, FASTEST_FREQ | read once, in MPI_Init | Shim |
| gear shifting | shift.c | `prev_freq_idx`, `shift_initialized`, the cores and governors | `shift_core`, `shift_socket`, `shift_init_socket` | Shim, SocketSetup |
| CPU topology | cpuid.c | maps between cores, sockets, APIC ids and places in a socket | `parse_proc_cpuinfo`, `get_cpuid` | CpuTopology |
| socket set-up | shm.c | bindings, socket ranks, a named semaphore per socket | `shm_setup`, `shm_teardown` | SocketSetup |
| PAPI counters | wpapi.c | is the event set counting | start, stop | Shim |
| trace log | shim.c, log.c | a file per rank | `Log` | Shim (the condition only) |
| gear daemon and its clients | ssdaemon.c, sscaling.c, common.c, and the older copies under z/ | gear of the node, sockets | set gear, get gear, serve | GearDaemon |
| Jitter | jitter/impie.c; impie.c, impie_new_ok.c, working_impie_adpt_slack.c, mpijack/impie.c and mark.c under mpijack-PROTO | gear, biases, flags, a window of iteration lengths | `mpidummy_` or MPI_Pcontrol, `change_gear`, `reset_bias`, `reset_all`, MPI_Finalize | JitterGears, Jitter |
| n-body solver | mpibody.c | per rank: all particles, the split point, the owner of each particle | one time step: balance, decide, move, exchange | NBody |

### Interaction

The application calls an MPI function and lands in a wrapper. A wrapper is a
fixed sequence: `shim_pre_1`, `shim_pre_2`, the PMPI call, `shim_post_1`,
`shim_post_2`, `Log`, `shim_post_3`. `shim_pre_2` ends the measurement of the
computation, finds the *task* (the call site, by a hash of the call stack) and
may arm an interval timer; `shim_post_1` disarms it; `shim_post_3` predicts the
next task and shifts the core for it. Between arming and disarming SIGALRM may
run `signal_handler`, which shares `current_freq`, `next_freq` and the shift
cache with the code it interrupts. MPI_Init and MPI_Finalize go through the same
wrapper with a pre- and a post-function of their own; MPI_Alltoall may call the
MPI_Barrier wrapper first. MPI_Init also brings the ranks of a node together:
each parses /proc/cpuinfo and finds its core and socket; they split by socket,
bind themselves or collapse their mask to one core if asked to, and one leader
per socket sets governors and gears of *all* cores of the socket, ordered with
the other ranks by barriers only. MPI_Finalize has the leader reset the socket.
Governors, gears and named semaphores outlive a program, so the next program on
the node starts on what the last one left, also when that one was killed.

Jitter's ranks interact through an MPI_Allreduce of their slack; clients and
daemon through UDP datagrams without request numbers. The ranks of mpibody take
turns at broadcasting the particles they moved; each works out by itself who
owns which particle, and with it how long every message is. Between time steps
mpibody may ask Jitter to reset its biases.

### What is hard about it

* a signal handler that may run between any two steps of a call;
* a cache of the last gear written, and writers it does not know;
* a visit that is written in two halves into a slot that still holds an old
  visit, with a reader in between;
* gears chosen from measurements that the gears themselves changed;
* one counter set shared by three timers;
* leaders and ranks writing the same cores, ordered by barriers;
* maps of the node built from a file in which nothing has a fixed order;
* a program killed inside a semaphore that the next program opens by name;
* datagrams lost, late, repeated, and a daemon that is restarted;
* two deciders, call sites and iterations, shifting one core;
* replicas that agree only if every rank decides alike, with nobody told.

### What makes each component correct

* *Schedule*: a slowed rank meets the deadline its history sets; no faster gear
  than needed; critical and short tasks in the top gear.
* *Shim*: a computation runs in the gear it was scheduled; the handler is
  confined to calls; only calls known to be long are slowed, and a slowed core
  recovers; the rings hold whole, recent visits; counters alternate.
* *CpuTopology*, *SocketSetup*: every rank finds its core; it starts in a gear it
  knows, and every core ends in the top gear; no semaphore or name stays behind,
  except one whose holder was killed, which holds up its socket and nothing else.
* *GearDaemon*: calls return, answers are true, the last request wins, and the
  gear only changes to one that was asked for.
* *Jitter*: the busiest rank is not slowed; it decides for the gear the core is
  in; gears settle; a rank that becomes the busiest gets its speed back.
* *NBody*: replicas agree, the two ends of a broadcast give the same count, every
  particle is moved once per step, the split point is the median, the run ends.


## 2. The modules

**Schedule** has no variables: the ring, the deadline and the choice of a gear
as operators. Times are whole ticks and clocks whole units; the code's doubles
are ratios of such numbers, and each comparison of two ratios is written as the
cross multiplication of their parts, so no rounding is hidden in the model. A
history is `[hist, index]`; `ind` and `indp` are the macros of shim.h.

**Gearbox** is the abstract promise about one core: a gear is chosen when a
computation begins and kept through it; in a call the core is put in the slowest
gear at most once; the next computation gets a gear chosen anew.

**Shim** is one rank. `pc` names the part of the wrapper that runs next, and
each action is one whole part with everything it calls. Which wrapper it is,
`op`, tells MPI_Init and MPI_Finalize from the others. The alarm is `off`,
`armed` or `fired`: the code's interval timer does not reload. `signal_handler`
is enabled whenever the alarm is armed. The time of a call and the alarm agree:
a call that lasted longer than the delay has seen the alarm. `hash_backtrace`
returns any entry of `Sites`, so that collisions, new and repeated tasks, and
the entry 0 that the code reserves all happen. `recent` is a history variable:
the visits of each task as they were measured, against which the rings are
compared. The step that interrupts a computation with a signal is absent from
the action `signal_handler` because `HandlerOutsideComputation` shows (by proof)
that the case does not occur. `pre_MPI_Init` reads all the variables of the
environment and refuses (`Refused`) what the code ends the program for: turbo
boost on a node without it, and a number in OMPI_MCA_gmpi_bind that is not
between 1 and `cores_per_socket`. A number it accepts is read nowhere else.

**CpuTopology** has no variables either: the two passes over /proc/cpuinfo, the
second as a recursive function (`Read`) that gives what is known after each line the
parser looks at, and the maps it leaves. A row of `map_socket_to_core` is as long as
socket 0 has cores, whatever the socket. What a larger socket writes past its row
falls on memory of the allocator, which the tables do not show; at worst a later
allocation ends the program, as `Kill` may at any moment. `WellFormed` says what the kernel writes.

**SocketSetup** is all ranks of one node in `shm_setup`, the running program and
`shm_teardown`, for `Programs` programs one after the other. `shift_socket` is
one step per core, so other ranks run between its writes. A barrier is the guard
that every rank of the communicator has come. `ShiftOwn` stands for everything Shim
does to the rank's own core. `Kill` ends a program at any moment and `Abort` ends
it where an assertion or MPI_Abort does; `EndAndStartNext` keeps exactly what
the kernel keeps: gears, governors and named semaphores.

**TaskLoop** closes the loop around Schedule: a program with one call site, whose
work per turn and whose partners' arrival are free, and whose computation time
follows from the gear it was given. From some turn on (`steady`) turns repeat.

**GearRegister** is the abstract promise about the gear of a node: it changes only
to one that was asked for and whose request is still about.

**GearDaemon** has clients, one daemon and their sockets. `ServeSet` and
`SetSpeed` are two steps because the code sends the acknowledgement before it
sets the gear. A *site* is one installation: what is asked for, how often, which
faults its network and its sysfs have, RETRIES, and which client library: the one
with a socket for all calls or the older one with a socket per call.

**JitterGears** holds what the versions of Jitter share: the static variables of a
rank and its moves, `Stay`, `SpeedUp`, `SlowDown` and `Return`. Slack is in
thousandths, `downshift` in twentieths, which makes all factors of the code integers.

**Jitter** makes an iteration one step of all ranks, because the code holds an
MPI_Allreduce. `rank[r]` holds the static variables. A *program* is what is run: the
version, config.dat and options.dat (SKIP, MANUAL_GEARS), the gears that
solution.txt gives to the call sites a rank passes, the call it waits in, the resets
it asks for and how long its iterations are. `iteration` is kept below 5 + SKIP by
wrapping it, as only `iteration < 5`, `= 1` and `% SKIP` are ever asked.
impie_new_ok.c reads an uninitialised local, which is any BOOLEAN here. In the last
version setting a gear may fail on any set of ranks, in an iteration, in a reset and
in MPI_Finalize; such a rank keeps its gear and exits, and the program ends.

**NBody** has a step per rank for each part of a time step and one for each
broadcast. A broadcast synchronises nobody; `inbox[s][r]` holds what `s` has sent and
`r` has not come to receive. Gravity is any move to one of `Positions`: where a
particle goes decides nothing but its owner. A message is a function from the indices of the
particles in it to their positions: `partSend` is filled by increasing index, each
entry carries its index, and `First` are the entries that a receiver with a count of its own
takes out. The median is quickselect in place, as the code has it: `scan` is a
recursive function of the state of partition()'s loop, `selectKth` of the state of its
own, the array, `k`, `left` and `right`.

**MCShim, MCSocketSetup, MCTaskLoop, MCGearDaemon, MCJitter, MCNBody** give the
constants that are functions or records their values; MCNBody also checks
`selectKth` on every array over three values, as an assumption.
**ScheduleProofs, TaskLoopProofs, ShimProofs, ShimHistoryProofs,
SocketSetupProofs, GearDaemonProofs, JitterProofs, NBodyProofs** hold the proofs.
MCSocketSetup and MCGearDaemon also check, as assumptions, what the proofs ask of the
listings and the launcher (`BoundApart`) and of the daemon's socket (`RoomForAll`). Operators marked
*mutant* are plausible wrong versions of the definition after them; they are used
nowhere, and exist to confirm that each property can fail.


## 3. The runs

| run | question | instance |
|---|---|---|
| shim_calls | does the machinery stay in step, and does Shim keep the promise of Gearbox? | 2 call sites, one of them entry 0, ring of 2, long and short calls |
| shim_history | is each gear right for its task? | one call site, the code's ring of 3 visits, 3 computation and 3 communication times |
| shim_flags | do the flags do what they say, and does a slowed core recover under all of them? | 7 sets of algorithm words, 3 of modifiers, 4 of traces, bindings that are refused and accepted, turbo gear, bad node |
| socket_bound | start, use and end of a node, also after a program that was killed | 3 ranks bound or masked by the launcher, 3 listings of /proc/cpuinfo, 2 programs |
| task_loop | does the feedback settle? | ring of 3, 2 amounts of work, 4 arrival times |
| daemon | which promises hold without loss, which in spite of it? | 4 sites: each library on its own node with 2 clients, and over a network with every fault |
| jitter | is the right rank slowed, and does the bias end oscillation? | 2 ranks, 3 gears, all versions, any slack, one rank delayed in any iteration |
| nbody | do replicas and messages agree, and does the run end? | 3 ranks, 3 particles, 2 positions, 2 time steps, each load balancing |
| finalize_returns, socket_unbound, query_tells_gear, misprediction_speeds_up | findings, section 6 | the smallest that shows each |

### Bounds and why they suffice

* *Times.* Only comparisons with the thresholds and with sums of other times
  matter, so one value on each side of each threshold, and one on it, are given:
  computation `2` is the threshold itself (not worth scaling), communication `1`
  is critical, `4` is exactly twice the delay of the alarm, `3` lies between.
* *Gears.* Three gears have a top, a middle and a slowest one, which is what the
  off-by-ones of the search distinguish; the flag run has four, the first being
  a turbo gear.
* *Bindings.* With one core per socket, the numbers 0, 1 and 2 lie below, in and
  above the range that is accepted; only the flag run varies them, as they decide
  nothing but whether the program begins.
* *Call sites.* Two sites give every relation between previous, current and
  predicted task (same, different, unknown) and the reserved entry.
* *Ring.* shim_history and task_loop use the code's length 3; the others shorter
  rings, which wrap sooner.
* *EpochTime* `99` is not a time any visit can have, so it is recognised if it stays in
  a ring.
* *Node.* Three ranks on two sockets give a socket with a leader and a follower,
  one with a leader alone, and a core without a rank. The listings are a node whose
  sockets take turns and whose ids have gaps, one with sockets of different
  sizes, and one with a core off line. Two programs show what one leaves to the next.
  `MASK_INTS` (32 in the code) is 1 so that a mask can lie beyond it; APIC ids have
  the code's eight bits.
* *Daemon.* Each site bounds its clients' calls, its sockets and its attempts. The
  remote site has the code's 5 attempts; the others have 2, which already give a
  call given up and a repetition that arrives after it. Its client asks for gears on
  either side of those there are, -2 and 2 (a -1 would do as well, but taken for valid it
  would look like the model's "none"). On its own node the sockets
  are large enough never to drop a datagram.
* *Jitter.* `LOWEST_GEAR` is 4 in the last version and 6 in the others. Here the last
  version has three gears, a top, a middle and a lowest one, and the others two, which
  bounds the biases. The slack values lie below and above the threshold; a delayed
  iteration exceeds THRESHOLD_ITER, or the ratio from which a version starts over.
  `upshift` stops at `UPSHIFT_MAX`, from which on only a slack of 0 speeds up;
  the other biases and SLACK are not bounded: the decisions themselves keep them
  finite, which is part of what the run shows.
* *NBody.* Two places and three particles give a median with equal values on both
  sides, ranks that own none, one or several particles, and two steps give a rank
  that is a whole exchange ahead. `loadBalanceFreq` takes each of its meanings, with
  -2 for the numbers below -1, which the command line accepts and which leave the split
  point where it is.

Deadlock checking is on wherever the model covers the whole life of the program:
Shim ends in `Exited` and SocketSetup in `AllDone`, so any other state without a
step is an error. GearDaemon, Jitter and NBody turn it off: clients have made
their calls, a Jitter program has ended, and the ranks of NBody are done; that
these stop nowhere else is what `CallsReturn` and `Termination` are for.

### Fairness

* Shim: weak fairness of the parts of a wrapper that has begun. They are straight
  code around a PMPI call, which returns in a program that makes progress. The
  application need not call anything, and the alarm need not fire.
* SocketSetup: weak fairness of each rank's steps and of its MPI_Finalize, which
  the MPI standard requires every rank to call. Semaphores are contended by the
  leader of one socket only, so weak fairness is enough for them. Nothing makes
  the launcher kill a program.
* TaskLoop: the loop goes on, once its turns repeat.
* GearDaemon: weak fairness of what ends the wait of a client: `select` returns
  within TIMEOUT, with a datagram, without one, or interrupted. Nothing is assumed of
  the daemon or of the network.
* Jitter: the program iterates or ends. It need not pass a call site or reset.
* NBody: weak fairness of each rank, which waits for nothing but a broadcast.


## 4. What is proved

TLAPS checks these under the named assumptions of the modules: for the library,
every number of gears (at least three) and any descending table of clocks, every
ring length, every set of call sites, all times and all words of the environment;
for the node, any number of ranks, sockets, cores and programs and any well-formed
listing of /proc/cpuinfo; for the daemon, any number of clients, gears and installations and any
network; for Jitter, any number of ranks and gears, any slack, any iteration lengths, and
every configuration; for the solver, up to 127 ranks and any number of
particles, positions and steps.

*ScheduleProofs.* `ScheduledGearInRange`: the chosen gear lies between the top
gear and the slowest. `CriticalTaskGetsTopGear`. `SlowedTaskMeetsDeadline`: a
gear below the top one is given only to a task with blocking time, never too
short, and at that gear's clock the work of the latest visit ends before the
earliest end of every remembered visit, less the blocking buffer. It assumes
that the top gear is no slower than the nominal clock, which only miser breaks.
`ScheduledGearIsSlowest`: with the top gear at the nominal clock every slower gear
would miss one of these ends. With a turbo gear that was asked for this need
not hold, and it is not claimed. Both rest on `GearForIsSlowest`, that the loop stops
at the right gear, and on monotonicity of multiplication.

*TaskLoopProofs.* `SlowedIsInTime` (`SlowedArrivesInTime`): the same through the
feedback. The invariant says that the latest entry of the ring measures exactly the
work of the last turn, in whatever gear it was done.

*ShimProofs.* The invariants `TypeOK` (`TypeCorrect`), `HandlerOutsideComputation`
(`HandlerConfined`), `PapiAlternates` (`CountersAlternate`) and
`ComputesInScheduledGear` (`ScheduledGearRuns`). The last three are not inductive: that the
handler finds `in_computation` cleared depends on where the alarm was armed,
and that MPI_Init's own visit cannot arm it depends on the rings being
empty. The inductive invariant is

    IInv == TypeOK /\ CountersInStep /\ AlarmInStep /\ FirstCall /\ ComputesInScheduledGear

`CountersInStep` ties the event set to `pc`; `AlarmInStep` has an armed alarm only in
a PMPI call and with `next_freq` the slowest gear, and none pending where a wrapper
begins; `FirstCall` has empty rings until MPI_Init has written its visit, which is why the
alarm is off when post_MPI_Init shifts the core.

`PromiseKept`: `Spec => Promise!Spec`, where Gearbox's `gear` is
the core's, `phase` is read off `pc` and `op`, and `slowed` is a fired alarm. Each
action of Shim is a step of Gearbox or a stutter, under `IInv`; the one step with
an argument of its own is `signal_handler`, which needs `AlarmInStep` to know that
the gear it shifts to is the slowest.

`TopGearRespected` (`StaysBelowTopGear`) and `BadNodeLeftAlone`
(`FakeFreqLeavesCoreAlone`), which needs one fact more: on such a node the core is
in the gear of MPI_Init, which MPI_Finalize writes again.

*ShimHistoryProofs.* The properties that compare `schedule` with the visits really
made: `RingsAreTrue`, `OnlyLongCallsSlowed`, `CriticalTasksKeepUp`,
`SlowedTasksAreInTime` and `NoSlowerGearMeets`. `Holds(eh, visits, k)` says that
the ring, read backwards from its index with `k` slots skipped, is the list of
visits, newest first; `k` is 1, for the current task, between `shim_pre_2`, which turns the ring and
writes half a visit, and `shim_post_2`, which writes the other half, and 0
elsewhere. The invariant is

    HistInv == RingsInStep /\ VisitsInStep /\ FollowersSeen
                 /\ TimersInStep /\ GearInStep /\ SlowsOnlyLongCalls

over the one of ShimProofs. `FollowersSeen` has a predicted task visited before;
`TimersInStep` ties the half-written visit to the timers; `GearInStep` says that
the gear of a computation is the one `schedule_computation` gives for the ring of
the predicted task. The theorems of ScheduleProofs then apply to rings that are
lists of visits. That no slot keeps the time since the epoch assumes that this
time is none that a computation can take.

*SocketSetupProofs.* `KnownGear`, `FastestAtTheEnd`, `IdleCoresStaySlow` and
`LostSemaphoreHolds`, for ranks bound apart (`BoundApart`): each has a core, or a mask of
one socket that is collapsed, that no other rank has. Without that the first is false
(finding 2). Of the node only `WellFormed` is assumed, that the kernel lists
each processor with a socket and an APIC id of its own, in any order; that the tables
agree is proved. `ParseInverts`: a core's APIC id is looked up to that core, and its socket
has a row. The invariant of the parse, `Known`, says of each line read what is in the
tables because of it: the number of the last line about a core, and the entry of an APIC id
from the one line that names it. Lemma `Rows` adds that `per_socket_core` numbers the
cores of a socket without gaps or repetition, so that `map_socket_to_core` inverts
it as far as its rows go. The inductive invariant has six parts. `PlaceInv`: each rank knows its core. `ShapeInv`: types. `PhaseInv`: where
the barriers and the splits keep the ranks, and that a leader is the first of its
socket by key and rank, so there is one and only one. `LockInv`: the semaphore is
held by one rank at a time, and where the holder was killed the leader has not
come to the first barrier. `GearInv`: a rank's cache is true except where a leader's
loop may have written behind it, that is before the first barrier, when the
cache is empty, and after the one of MPI_Finalize. `SocketInv`: which cores a leader
has done; a core it slowed and that is not slow any more is that of a rank past the
first barrier. A step of a rank is first put in one of three forms (it writes
no gear, its own core's, or the next one of its loop), and each part is proved
over these forms and over the moves of `pc`.

`CoreIsFound` (`FindsItsCore`) follows from `PlaceInv` and `Rows`. `TypeCorrect` (`TypeOK`)
and `GovernedFirst` (`GovernedBeforeShifted`) need a part more, `GovernedInv`: a rank
that may shift has the whole of its socket in the userspace governor, and so has a leader
from the end of its loop over the cores on, which is what a rank past the first barrier
learns from its leader. No program undoes it, so it outlives a kill.

`NoneStuck`: until its ranks are gone, one of a program's ranks satisfies the guard of an
action (`SomeoneCanGo`), or a rank waits for a semaphore whose holder was killed. The
case that could fail is a wait in a circle, through splits, semaphores and barriers. Who
holds a semaphore waits for nothing, so where nobody can go on a taken semaphore is one whose
holder was killed, and by `LockInv` who waits for that one has yet to pass the first
barrier. All others are at barriers or done, and those at the earliest barrier can pass it.

*GearDaemonProofs.* `TypeCorrect` (`TypeOK`) and `RegisterKept`
(`SetsOnlyWhatWasAsked`, that GearDaemon implements GearRegister), over a network
that loses, repeats and reorders and a daemon that restarts. The
invariant adds to the types that a call that waits is a request with attempts left.

`AnswersInTime` (`FirstAnswersAreFresh`) and `AnswersOfOwnSocket` (`OwnSocketTellsGear`)
share the invariant `AnswersInv`, about the datagrams from and to a client that can trust its
answers, that is, one with a socket per call, or one that never timed out on a network
without faults. Any request of its current socket that the daemon still holds is its
current call, and any answer that waits there tells a gear the core had during the call.
On the network without faults this needs a count: such a client has its one request in the
daemon's socket, or one answer in its own, never both, and neither between calls. With a
socket per call it needs that no datagram bears a socket that is still to be opened.

`LastSetTakesEffect` (`LastSetWins`) is about the gear that the core *will* be in once the daemon's
socket and hands are empty, `EndsIn(g)`: that of the last valid set in the socket,
or else the one pending, or else the core's. The invariant `OrderInv` says that, on a network
without faults and once anything was asked for, this is the gear that some client asked for
last. Repetitions do not disturb it, because a client that repeats has not gone
on to another call. A request dropped for lack of room would: `RoomForAll` asks
that a socket of an installation without faults holds every attempt of every call,
and the proof shows that it is never full, by counting the requests
in it against the attempts used up (`RequestsCounted`).

*JitterProofs.* `TypeCorrect` (`TypeOK`), `GearIsKnown` (`KnowsItsGear`),
`BusiestKeepsItsGear` (`BusiestIsNotSlowed`) and `LongestIsAnswered` (`LongestSpeedsUp`), for each of the
five versions. `TypeOK` is not inductive: that a gear stays in range depends on what
solution.txt may name, that a rank was slowed on there having been a decision, and
that a window's average is below the longest iteration on what filled the window:

    IInv == TypeOK /\ Measured /\ InReach /\ SlowedByDecision /\ WindowsKnown /\ KnowsItsGear

A decision is first reduced, for all versions, to one of the moves of JitterGears (`DecideMove`);
each move is shown once to keep a rank in range. A move that slows a rank has its slack
above the least by more than the threshold (`DecisionKeeps`), and a rank with more slack than another has
waited longer. `LongestIsAnswered` turns on the window: of at most five lengths
only the newest can exceed the longest before it, so the newest exceeds THRESHOLD_ITER times the average
(`LongestIsAboveAverage`), and the test for a misprediction comes before all
that might slow the rank. The proof assumes of solution.txt that the prototype which
shares `current_gear` finds no gear in it beyond its slowest, 6: its machine description has
seven, and impie.c compares with 6.

*NBodyProofs.* `CopiesAgree` (`ReplicasAgree`), `BroadcastsMatch` (`CountsMatch`) and `MovedOnce`
(`MovedOncePerStep`). No relation between the ranks as they stand is inductive: a rank may be a
whole exchange ahead of another and hold a mixture of two steps. The
invariant says that they are all somewhere in one history (`OneHistory`):

    IInv == \E P, S, O, W : Replay(P, S, O, W)

`P[k]`, `S[k]` and `O[k]` are the particles and the split point with which step k begins and
the owners named in it; `W[s][r]` are the steps of the broadcasts in the queue from `s` to `r`.
`Follows` gives what a rank holds at its place in the history: in the middle of
an exchange, the new positions of the particles of itself and of the ranks whose turn is over
and the old ones of all others. `Queued` says that a queue holds, in order, just those messages of the
history that were sent and not yet received, and `Waits` that nobody is past
the turn of a rank that has something to send and has not sent it. A step
of a rank either moves it along the history or, when it is the first to get there,
extends the history. That the first message of a queue is that of the receiver's own step
(`HeadIsOfThisStep`), and that taking as many entries as the receiver counts takes them all
(`FirstIsAll`), are the points at which the protocol could go wrong. What `loadBalance` computes
does not matter for these, only that every rank computes it from the same particles.

`NoneStuck`: until all are done, some rank does not wait. A rank waits only where its queue is
empty and the root of its turn has something to send. By `Queued` that root has not sent it
yet, so it is in an earlier step, or in the same one and at an earlier turn
(`WaitsForOneBehind`); the rank furthest behind, by step and then by turn, goes on.

`MedianFound` (`MedianSplits`) is about what `loadBalance` computes. The loop of `partition`
keeps `Parted`: what is before `storeIndex` is not above the pivot, what is between there and `i`
is above it. At its end the pivot is in its place, nothing in the subarray has left it, and
the array is a rearrangement of what it was (`Rearranged`, by a one-to-one map of the
indices). The loop of `selectKth` keeps `Narrowed`: all before `left` is not above, all after
`right` not below, what is between. So the value returned has at most `k` values below it and
more than `k` not above it, however many are equal, and each turn leaves a smaller
subarray.

### Recursive functions

The induction theorems of the library take an operator as a parameter, which the installed
provers cannot instantiate. What the proofs say of the recursive functions `Read`,
`scan` and `selectKth` rests on least counterexamples instead: a set of numbers that is not
empty has a least element (`LeastNat`, from the well-foundedness of `<`). First it is shown
that a function satisfying the recursive equation exists, on which the definition
(a CHOOSE) then says something: a function defined up to one measure of its argument,
lines read or entries left, extends to the next. Then a loop invariant
is proved by the first state, or line, at which it would fail.

### Checked by TLC only

Liveness under fairness, which is beyond the prover: `SlowedIsRestored`, `EndsClean`,
`GearSettles` of the loop and of Jitter, `BusiestReturnsToTop`, `CallsReturn` and
`Termination`. The two theorems `NoneStuck` are the safety part of `EndsClean` and
`Termination`; that the steps which are possible are taken, and lead to the end, stays with
TLC.


## 5. What is not modelled

* `hash_backtrace`: any entry may come out of it; MD5 and stack walking are not
  the subject.
* The generated wrappers. shim_functions.c, shim_structs.h and the other outputs of
  shim.py are one copy of the wrapper in shim_functions.w per MPI function, and make
  a third of the repository's lines; Shim models the wrapper once. For the same
  reason the map of PROJECT.json covers a modest share of all lines, though it covers
  most of those that decide anything: what else is not mapped is parsing and
  printing, trace files, and repeated wrappers of the prototypes.
* impie.mark.c: it is in no makefile, and the types of its trace entries (`entry_t`,
  `enum arindex`) are defined nowhere in the tree. impie.c.real and
  impie.c.stripped are copies of the version that is modelled.
* util.c, trace.c, pmc.c, gear.c, info.c, sample.c and plugin.c of the prototypes:
  trace files, counters and machine descriptions, which no gear decision reads.
  In Jitter itself, `slack_table` is written and never read.
* The values of the counters and the instruction rate: they are recorded and
  feed no decision. The part of `schedule_computation` that would shift in
  the middle of a computation is compiled out.
* Meters, log files, time subtraction, SimpleGraphics.c: I/O without effect on gears.
* Nodes outside the assumptions: one or two gears (miser's top gear would be past
  the table), sockets with fewer cores than socket 0 (entries nobody wrote would be
  taken for cores; sockets with more are modelled, one is among the listings),
  APIC ids of more than eight bits, a sysfs list of more
  than the daemon's 16 gears.
* Failing system calls of the set-up, which end the program by an assertion as
  `Abort` does.
* Two PMPI calls of one rank at once (MPI_THREAD_MULTIPLE): the globals of shim.c
  have no locks, and the README of the library does not claim it.
* A handler that interrupts `malloc` or stdio: it depends on the C library.
* In the daemon: `gethostbyname`, the freqKHz field, its command line, and running out
  of the descriptors that a failed read (ssdaemon.c:140) and the older client (a
  socket per call) leave open. `ss_setGearEx` for the own node is in Jitter.
* In Jitter: SKIP 0, which divides by zero; a program whose first MPI_Comm_rank is for
  another communicator than MPI_COMM_WORLD, which gives it another rank's manual
  gear; what MPI does with the ranks that wait when one has exited.
* In NBody: gravity, images, statistics, the errors of the command line, more than
  127 ranks (`getOwner` returns a char), and the all-reduce that Jitter makes
  in some time steps, without which the ranks may do only more.
* The second half of a `%ld` that mpibody reads into an `int` (mpibody.c:610).
* Test programs, the command line client and the cluster scripts.


## 6. Findings

Each of these is the counterexample of a run.

1. **MPI_Finalize does not return** (`FinalizeReturns`). pre_MPI_Finalize stops the
   total timer and with it the PAPI event set; shim_pre_2 stops it once more, PAPI
   refuses, and `wpapi_stop` exits. harness.c asserts that it returns.
2. **Unbound ranks of two sockets share cores** (`StartsInKnownGear` in
   socket_unbound). The socket rank is taken as a core number; a core can be slowed
   behind its rank's shift cache, and a rank then starts in the slowest gear. A todo
   in shm.c knows of the binding, not of what follows from it.
3. **A late answer is taken for another call's** (`QueryTellsGear`). Without loss and
   with one client, a call that timed out leaves its answer to the next query.
   `FirstAnswersAreFresh` shows that a time-out is what it takes, and
   `OwnSocketTellsGear` that the older library, with its socket per call, had it right.
4. **Jitter's misprediction test is dead from the fifth iteration**
   (`MispredictionSpeedsUp`). The window test has the wrong sense: the average runs
   over unwritten slots, and when there are none the iteration is compared with
   itself. `LongestSpeedsUp` shows that the prototypes, which average the written
   slots, do notice.

Read in the source, modelled as they are, and given no run:

* `fixedfreq` ignores its frequency: `g_freq` (shim.c:57) is parsed and never read.
* Tracing `thresh` or `pcontrol` filters nothing: `trace_ALL` has the bit of every flag
  (shim.h:99, shim.c:508).
* `gmpi_bind` decides nothing: its number is checked, and then read nowhere but in a
  todo (shim.c:303-316, shm.c:160).
* Collapsing a mask looks at as many cores as `cpu_set_t` has ints (shm.c:174), so a
  rank whose mask begins at core 32 or above aborts the program.
* An SSD_ACK does not mean what common.h:27 says: the daemon answers before it
  sets the gear, and ignores a failure (ssdaemon.c:270-273).
* In the prototypes other than mpijack-PROTO/impie.c, `change_gear` and `mpidummy_` have
  a `current_gear` each, and the second decides for a gear that the core may not be
  in. `KnowsItsGear` therefore leaves out their call sites with a gear.
* mpijack-PROTO/impie.c:57-60 chooses between two ways to set a gear with `#elsif`,
  which is no directive, and names the macro `setCPUgear` where the calls say
  `setCPUGear` (impie.c:319, 361). Jitter takes every such call to set the gear.
* The same file moves its window's index twice per iteration (impie.c:378-379), which
  fills the slots in the order 0, 2, 4, 1, 3. All five are used because five is odd,
  and the window still holds the last five lengths, which is what Jitter keeps.
* mpibody calls `mpidummy_` and `reset_all`, which among the versions only
  mpijack-PROTO/impie.c exports together; jitter/impie.c has MPI_Pcontrol for the first.


## 7. Plan

Done, in this order: Schedule, Shim with Gearbox, SocketSetup, TaskLoop,
ScheduleProofs, ShimProofs, GearDaemon, Jitter; then CpuTopology
under SocketSetup, programs in a row and kills, the older daemon library and
GearRegister, the five versions of Jitter, NBody; then the proofs about gears,
rings, the daemon, the node and the loop; then those about answers and the order of
sets, the topology, Jitter and NBody; then those about the parse of /proc/cpuinfo, the median,
and that no rank of SocketSetup or NBody waits in a circle.

Next, models: *Node*, the ranks of SocketSetup with Shim's wrapper in place of
`ShiftOwn`, and MPI_Finalize's barrier with alarms pending on other ranks.

Next, proofs: of *Node*, that the leader's reset in MPI_Finalize comes after every other
rank's last shift, and that an alarm does not outlast it.
