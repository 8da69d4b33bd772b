----------------------------- MODULE SocketSetup ----------------------------
(***************************************************************************)
(* The ranks of one node bring up, use and leave the gears of its cores:   *)
(* shm_setup() and shm_teardown() of shm.c, the socket operations of       *)
(* shift.c, and the parts of post_MPI_Init and pre_MPI_Finalize in shim.c  *)
(* that call them.  Each rank caches the gear it last wrote to its own     *)
(* core; a leader also writes the other cores of its socket, one after the *)
(* other, between two barriers that order it with their ranks.             *)
(***************************************************************************)
EXTENDS CpuTopology

CONSTANTS
    Ranks,          \* the MPI ranks on the node, numbers
    CpuInfos,       \* the listings of /proc/cpuinfo of the nodes considered
    Masks(_),       \* a node's topology -> the CPU masks the launcher may give the ranks
    Collapse,       \* bind_COLLAPSE: bind to the first core of the mask
    MASK_INTS,      \* sizeof(cpu_set_t) / sizeof(int): how far collapse looks (32)
    Slowest,        \* SLOWEST_FREQ, as a gear number
    Fastest,        \* FASTEST_FREQ
    Programs        \* a bound: how many programs start on the node, one after the other

Gears == Fastest .. Slowest

ASSUME NodeAssumption ==
    /\ Ranks \subseteq Nat /\ IsFiniteSet(Ranks) /\ Ranks # {}
    /\ Fastest \in Nat /\ Slowest \in Nat /\ Fastest <= Slowest
    /\ Collapse \in BOOLEAN /\ MASK_INTS \in Nat /\ Programs \in Nat \ {0}

\* "assume all sockets have the same number of cores": the model needs less,
\* that none has fewer than socket 0, whose entries the program would read
\* uninitialised; and that no APIC id is too wide for get_cpuid().
ASSUME TopologyAssumption ==
    \A listing \in CpuInfos :
        LET node == parse_proc_cpuinfo(listing) IN
        node.ok =>
            /\ Masks(node) \subseteq [Ranks -> (SUBSET Nat) \ {{}}]
            /\ DOMAIN node.map_apicid_to_core \subseteq 0 .. APIC_IDS - 1
            /\ \A s \in DOMAIN node.map_socket_to_core :
                 \A i \in DOMAIN node.map_socket_to_core[s] :
                     node.map_socket_to_core[s][i] # None

\* What the proofs ask beyond that: listings as the kernel writes them, and a
\* launcher that gives each rank cores that no other rank has, all of one socket,
\* and one core only if nothing collapses its mask.
BoundApart ==
    \A listing \in CpuInfos :
        LET node == parse_proc_cpuinfo(listing) IN
        node.ok =>
            /\ WellFormed(listing)
            /\ \A masks \in Masks(node) :
                 /\ masks \in [Ranks -> SUBSET node.cores]
                 /\ \A r \in Ranks : Collapse \/ Cardinality(masks[r]) = 1
                 /\ \A r, q \in Ranks : r # q => masks[r] \cap masks[q] = {}
                 /\ \A r \in Ranks : \A c, d \in masks[r] :
                       node.map_core_to_socket[c] = node.map_core_to_socket[d]

VARIABLES
    program,           \* the program on the node, counted
    config,            \* what its ranks have parsed
    pc,                \* what each rank does next
    mask,              \* the CPU mask the launcher gave it
    cpu,               \* the core the rank really runs on
    my_core,           \* the core each rank believes it runs on
    my_socket,
    socket_rank,       \* its rank in comm_socket
    sem_name,          \* the socket whose semaphore and memory it opened
    todo,              \* a leader's cores still to be written
    shift_initialized,
    prev_freq_idx,     \* the cache of shift_core(): -1, or the gear written last
    gear,              \* the gear of each core
    userspace,         \* the cores whose governor lets programs set the gear
    sem,               \* socket -> value of its semaphore
    linked             \* the sockets whose semaphore still has its name

place   == <<program, config, mask, cpu, my_core, my_socket, socket_rank, sem_name>>
shift   == <<shift_initialized, prev_freq_idx, gear, userspace>>
sems    == <<sem, linked>>
vars    == <<pc, place, todo, shift, sems>>

\* The cores of a socket that shift_socket() and its like reach.
CoresOn(s) == {config.map_socket_to_core[s][i] : i \in DOMAIN config.map_socket_to_core[s]}

Sockets == DOMAIN config.map_socket_to_core

Leader(r) == socket_rank[r] = 0

\* MPI_Comm_split: the ranks that opened the same socket.
comm_socket(r) == {q \in Ranks : sem_name[q] = sem_name[r]}

\* A barrier lets its ranks pass once each of them has come to it.
Barrier(ranks, at, past) == \A q \in ranks : pc[q] \in {at} \cup past

Goto(r, label) == pc' = [pc EXCEPT ![r] = label]

\* CPU_COUNT(&cpuset) == 1.
bound(r) == Cardinality(mask[r]) = 1

\* The first get_cpuid() of each rank, which the kernel runs on any core of its
\* mask; it fails by an assertion when the listing could not be parsed.
CpuChoices(masks) ==
    {c \in [Ranks -> config.cores \cap UNION {masks[r] : r \in Ranks}] : \A r \in Ranks : c[r] \in masks[r]}

core_found(core) == IF config.ok THEN get_cpuid(config, config.map_core_to_apicid[core]) ELSE core
socket_found(core) == IF config.ok THEN config.map_core_to_socket[core_found(core)] ELSE 0

FirstLabel == IF config.ok THEN "open" ELSE "abort"

Everywhere(value) == [r \in Ranks |-> value]

Init ==
    /\ program = 1
    /\ config \in {parse_proc_cpuinfo(listing) : listing \in CpuInfos}
    /\ pc = Everywhere(FirstLabel)
    /\ mask \in Masks(config)
    /\ cpu \in CpuChoices(mask)
    /\ my_core = [r \in Ranks |-> core_found(cpu[r])]
    /\ my_socket = [r \in Ranks |-> socket_found(cpu[r])]
    /\ sem_name = my_socket
    /\ socket_rank = Everywhere(-1) /\ todo = Everywhere({})
    /\ shift_initialized = Everywhere(FALSE) /\ prev_freq_idx = Everywhere(-1)
    /\ gear \in [config.cores -> {Fastest, Slowest}]
    /\ userspace = {}
    /\ sem = [s \in Sockets |-> 1]
    /\ linked = {}

\* A program ends at once with all of its ranks; the last one,
EndLast ==
    /\ program = Programs
    /\ pc' = Everywhere("killed")
    /\ UNCHANGED <<place, todo, shift, sems>>

\* or one after which the next starts on what it leaves behind: the semaphores
\* that have a name, the governors and the gears.
EndAndStartNext ==
    /\ program < Programs
    /\ program' = program + 1
    /\ pc' = Everywhere(FirstLabel)
    /\ mask' \in Masks(config)
    /\ cpu' \in CpuChoices(mask')
    /\ my_core' = [r \in Ranks |-> core_found(cpu'[r])]
    /\ my_socket' = [r \in Ranks |-> socket_found(cpu'[r])]
    /\ sem_name' = my_socket'
    /\ socket_rank' = Everywhere(-1) /\ todo' = Everywhere({})
    /\ shift_initialized' = Everywhere(FALSE) /\ prev_freq_idx' = Everywhere(-1)
    /\ UNCHANGED <<config, gear, userspace, sems>>

End == EndLast \/ EndAndStartNext

\* The launcher kills a program at any moment.
Kill == (\E r \in Ranks : pc[r] \notin {"done", "killed"}) /\ End

\* A failed assertion or MPI_Abort() of one rank ends the program too.
Abort(r) == pc[r] = "abort" /\ End

\* shm_open() and sem_open() create what is not there yet.
Open(r) ==
    /\ pc[r] = "open"
    /\ linked' = linked \cup {sem_name[r]}
    /\ sem' = IF sem_name[r] \in linked THEN sem ELSE [sem EXCEPT ![sem_name[r]] = 1]
    /\ Goto(r, "split")
    /\ UNCHANGED <<place, todo, shift>>

\* Both MPI_Comm_split calls, collective over the node: the ranks of a socket
\* are ordered by a key, the core of a rank that is bound, and by world rank.
split_key(r) == IF bound(r) THEN my_core[r] ELSE 0

before(q, r) == split_key(q) < split_key(r) \/ (split_key(q) = split_key(r) /\ q < r)

Split(r) ==
    /\ pc[r] = "split"
    /\ \A q \in Ranks : pc[q] # "open"
    /\ socket_rank' = [socket_rank EXCEPT ![r] =
          Cardinality({q \in comm_socket(r) : before(q, r)})]
    /\ Goto(r, "bind")
    /\ UNCHANGED <<program, config, mask, cpu, my_core, my_socket, sem_name, todo, shift, sems>>

\* sched_setaffinity(): the socket rank is taken as a core number; collapse
\* takes the first core of the mask that it sees.  The socket follows from the
\* core, the socket rank and the semaphore stay.
seen(r) == {c \in mask[r] : c < MASK_INTS}

bind_core(r) ==
    CASE bound(r)               -> cpu[r]
      [] ~bound(r) /\ ~Collapse -> socket_rank[r]
      [] ~bound(r) /\ Collapse  -> Min(seen(r))

Bind(r) ==
    /\ pc[r] = "bind"
    /\ ~bound(r) /\ Collapse => seen(r) # {}
    /\ cpu' = [cpu EXCEPT ![r] = bind_core(r)]
    /\ my_core' = [my_core EXCEPT
            ![r] = get_cpuid(config, config.map_core_to_apicid[bind_core(r)])]
    /\ my_socket' = [my_socket EXCEPT ![r] = config.map_core_to_socket[my_core'[r]]]
    /\ Goto(r, IF Leader(r) THEN "lock" ELSE "barrier1")
    /\ UNCHANGED <<program, config, mask, socket_rank, sem_name, todo, shift, sems>>

BindFails(r) ==
    /\ pc[r] = "bind"
    /\ ~bound(r) /\ Collapse /\ seen(r) = {}
    /\ Goto(r, "abort")
    /\ UNCHANGED <<place, todo, shift, sems>>

\* sem_wait().
\* (mutant: looks at the semaphore and does not take it)
Lock_open(r, from, to) ==
    /\ pc[r] = from
    /\ sem[sem_name[r]] > 0
    /\ Goto(r, to)
    /\ UNCHANGED <<place, todo, shift, sems>>

Lock(r, from, to) ==
    /\ pc[r] = from
    /\ sem[sem_name[r]] > 0
    /\ sem' = [sem EXCEPT ![sem_name[r]] = @ - 1]
    /\ Goto(r, to)
    /\ UNCHANGED <<place, todo, shift, linked>>

\* What the semaphore guards, ftruncate() or shm_unlink() of the shared
\* memory nobody maps, and sem_post().
Unlock_not(r, from, to) ==   \* (mutant: no sem_post)
    pc[r] = from /\ Goto(r, to) /\ UNCHANGED <<place, todo, shift, sems>>

Unlock(r, from, to) ==
    /\ pc[r] = from
    /\ sem' = [sem EXCEPT ![sem_name[r]] = @ + 1]
    /\ Goto(r, to)
    /\ UNCHANGED <<place, todo, shift, linked>>

\* shift_init_socket(): governor, lower and upper limit of every core of the
\* socket, and then, core by core, the gear.
\* (mutant: sets the own core up only)
Govern_own(r, from, to) ==
    /\ pc[r] = from
    /\ userspace' = userspace \cup {my_core[r]}
    /\ shift_initialized' = [shift_initialized EXCEPT ![r] = TRUE]
    /\ todo' = [todo EXCEPT ![r] = {my_core[r]}]
    /\ Goto(r, to)
    /\ UNCHANGED <<place, prev_freq_idx, gear, sems>>

Govern(r, from, to) ==
    /\ pc[r] = from
    /\ userspace' = userspace \cup CoresOn(my_socket[r])
    /\ shift_initialized' = [shift_initialized EXCEPT ![r] = TRUE]
    /\ todo' = [todo EXCEPT ![r] = CoresOn(my_socket[r])]
    /\ Goto(r, to)
    /\ UNCHANGED <<place, prev_freq_idx, gear, sems>>

\* shift_core(): the cache answers for the own core only.
shift_core(r, core, g) ==
    /\ prev_freq_idx' = IF core = my_core[r] THEN [prev_freq_idx EXCEPT ![r] = g]
                        ELSE prev_freq_idx
    /\ gear' = IF core = my_core[r] /\ g = prev_freq_idx[r] THEN gear
               ELSE [gear EXCEPT ![core] = g]

\* shift_socket().
ShiftSocket(r, at, g) ==
    /\ pc[r] = at /\ todo[r] # {}
    /\ shift_core(r, Min(todo[r]), g)
    /\ todo' = [todo EXCEPT ![r] = @ \ {Min(@)}]
    /\ UNCHANGED <<pc, place, shift_initialized, userspace, sems>>

ShiftSocketDone(r, at, to) ==
    /\ pc[r] = at /\ todo[r] = {}
    /\ Goto(r, to)
    /\ UNCHANGED <<place, todo, shift, sems>>

\* The first barrier of shm_setup, then the own core goes to the top gear.
PastBarrier1_open(r) == TRUE   \* (mutant: no barrier)

PastBarrier1(r) == Barrier(comm_socket(r), "barrier1", {"barrier2", "running", "finalize",
                           "reset", "shiftfast", "teardown", "unlink", "close", "done"})

ShiftFastest(r) ==
    /\ pc[r] = "barrier1"
    /\ PastBarrier1(r)
    /\ shift_initialized' = [shift_initialized EXCEPT ![r] = TRUE]
    /\ shift_core(r, my_core[r], Fastest)
    /\ Goto(r, "barrier2")
    /\ UNCHANGED <<place, todo, userspace, sems>>

\* The second barrier, and post_MPI_Init's own shift to the top gear.
Start(r) ==
    /\ pc[r] = "barrier2"
    /\ Barrier(comm_socket(r), "barrier2", {"running", "finalize", "reset", "shiftfast",
               "teardown", "unlink", "close", "done"})
    /\ shift_core(r, my_core[r], Fastest)
    /\ Goto(r, "running")
    /\ UNCHANGED <<place, todo, shift_initialized, userspace, sems>>

\* While the program runs a rank shifts its own core as Shim has it.
ShiftOwn(r) ==
    /\ pc[r] = "running"
    /\ \E g \in Gears : shift_core(r, my_core[r], g)
    /\ UNCHANGED <<pc, place, todo, shift_initialized, userspace, sems>>

Finalize(r) ==
    /\ pc[r] = "running"
    /\ Goto(r, "finalize")
    /\ UNCHANGED <<place, todo, shift, sems>>

\* PMPI_Barrier over MPI_COMM_WORLD.
FinalizeBarrier_open == TRUE   \* (mutant: no barrier)

FinalizeBarrier == Barrier(Ranks, "finalize", {"reset", "shiftfast", "teardown", "unlink", "close", "done"})

PastFinalize(r) ==
    /\ pc[r] = "finalize"
    /\ FinalizeBarrier
    /\ Goto(r, IF Leader(r) THEN "reset" ELSE "teardown")
    /\ UNCHANGED <<place, todo, shift, sems>>

\* sem_close(), and the leader takes the name away.
Close_follower(r) ==   \* (mutant: the ranks that are not the leader take the name away)
    /\ pc[r] = "close"
    /\ linked' = IF ~Leader(r) THEN linked \ {sem_name[r]} ELSE linked
    /\ Goto(r, "done")
    /\ UNCHANGED <<place, todo, shift, sem>>

Close(r) ==
    /\ pc[r] = "close"
    /\ linked' = IF Leader(r) THEN linked \ {sem_name[r]} ELSE linked
    /\ Goto(r, "done")
    /\ UNCHANGED <<place, todo, shift, sem>>

Step(r) ==
    \/ Open(r) \/ Split(r) \/ Bind(r) \/ BindFails(r) \/ Abort(r)
    \/ Lock(r, "lock", "resize") \/ Unlock(r, "resize", "govern")
    \/ Govern(r, "govern", "shiftslow")
    \/ ShiftSocket(r, "shiftslow", Slowest) \/ ShiftSocketDone(r, "shiftslow", "barrier1")
    \/ ShiftFastest(r) \/ Start(r)
    \/ PastFinalize(r)
    \/ Govern(r, "reset", "shiftfast")
    \/ ShiftSocket(r, "shiftfast", Fastest) \/ ShiftSocketDone(r, "shiftfast", "teardown")
    \/ Lock(r, "teardown", "unlink") \/ Unlock(r, "unlink", "close") \/ Close(r)

AllDone == (\A r \in Ranks : pc[r] \in {"done", "killed"}) /\ UNCHANGED vars

Next == (\E r \in Ranks : Step(r) \/ ShiftOwn(r) \/ Finalize(r)) \/ Kill \/ AllDone

\* Every rank runs on, and every rank finalizes: MPI requires it.
Spec == Init /\ [][Next]_vars /\ \A r \in Ranks : WF_vars(Step(r)) /\ WF_vars(Finalize(r))

-----------------------------------------------------------------------------

TypeOK ==
    /\ program \in 1 .. Programs
    /\ pc \in [Ranks -> {"open", "split", "bind", "abort", "lock", "resize", "govern",
                         "shiftslow", "barrier1", "barrier2", "running", "finalize", "reset",
                         "shiftfast", "teardown", "unlink", "close", "done", "killed"}]
    /\ cpu \in [Ranks -> config.cores] /\ my_core \in [Ranks -> config.cores]
    /\ socket_rank \in [Ranks -> Nat \cup {-1}]
    /\ config.ok => my_socket \in [Ranks -> Sockets] /\ sem_name \in [Ranks -> Sockets]
    /\ todo \in [Ranks -> SUBSET config.cores]
    /\ shift_initialized \in [Ranks -> BOOLEAN]
    /\ prev_freq_idx \in [Ranks -> Gears \cup {-1}]
    /\ gear \in [config.cores -> Gears]
    /\ userspace \subseteq config.cores
    /\ sem \in [Sockets -> {0, 1}]
    /\ linked \subseteq Sockets

\* Every rank knows the core it runs on, and with it its place in the table of
\* its socket: get_cpuid() inverts the APIC ids, whatever gaps they have and in
\* whatever order the listing deals cores to sockets.
FindsItsCore ==
    config.ok => \A r \in Ranks :
        LET place_in_row == config.map_core_to_per_socket_core[my_core[r]]
            row          == config.map_socket_to_core[my_socket[r]]
        IN  /\ my_core[r] = cpu[r]
            /\ place_in_row \in DOMAIN row => row[place_in_row] = my_core[r]

\* post_MPI_Init: "Start us in a known frequency": from then on the gear a rank
\* remembers is the gear its core runs in, so the shift to the top gear was not
\* skipped for a core that another rank had slowed, and no later shift is.
\* This also holds of a program that starts on what a killed one left.
StartsInKnownGear ==
    \A r \in Ranks :
        pc[r] = "running" => gear[my_core[r]] = prev_freq_idx[r]

\* pre_MPI_Finalize: "Leave us in a known frequency": when the last rank is
\* gone every core of every socket in use is in the top gear, those without a
\* rank of their own too, as far as the table of the socket reaches.
EndsInFastestGear ==
    (\A r \in Ranks : pc[r] = "done")
        => \A r \in Ranks : \A c \in CoresOn(my_socket[r]) : gear[c] = Fastest

\* A rank shifts a core only after its governor was set to userspace: the
\* assertion of shift_core() on shift_initialized never fails, and it stands
\* for what it is meant to, the work of the leader.  The one exception is a core
\* that a socket has beyond as many as socket 0 has.
GovernedBeforeShifted ==
    \A r \in Ranks :
        /\ pc[r] \in {"shiftslow", "barrier2", "running"} => shift_initialized[r]
        /\ shift_initialized[r] =>
              \/ my_core[r] \in userspace
              \/ config.map_core_to_per_socket_core[my_core[r]]
                    >= Cardinality({c \in config.cores : config.map_core_to_socket[c] = 0})

\* A core that no rank runs on is never left in a faster gear than the ranks'
\* own, where it could pull the clock of the socket up: while a program runs
\* such a core is in the slowest gear.
IdleCoresSlow ==
    (\A q \in Ranks : pc[q] = "running")
        => \A r \in Ranks : \A c \in CoresOn(my_socket[r]) \ {my_core[q] : q \in Ranks} :
              gear[c] = Slowest

\* A semaphore whose holder was killed: nobody is left to post it.
Lost(s) == sem[s] = 0 /\ ~\E r \in Ranks : sem_name[r] = s /\ pc[r] \in {"resize", "unlink"}

\* What a program that was killed inside the semaphore does to the next one: its
\* leader waits for ever, and none of the ranks on the socket gets past the
\* first barrier of the set-up, so nothing runs in a gear nobody chose.
LostSemaphoreHoldsSocket ==
    \A r \in Ranks :
        config.ok /\ Lost(sem_name[r])
            => pc[r] \in {"open", "split", "bind", "abort", "lock", "barrier1", "killed"}

\* Every program comes to an end, and nothing of it stays: the semaphores are
\* free and their names removed, so the next program starts from none.  Only a
\* program killed inside the semaphore keeps the next one from it, a program
\* killed anywhere else does not.
EndsClean ==
    <>[](\/ \A r \in Ranks : pc[r] = "killed"
         \/ \E r \in Ranks : Lost(sem_name[r])
         \/ \A r \in Ranks : pc[r] = "done" /\ sem_name[r] \notin linked /\ sem[sem_name[r]] = 1)

=============================================================================
