----------------------------- MODULE CpuTopology ----------------------------
(***************************************************************************)
(* How the library learns the shape of its node: parse_proc_cpuinfo() and  *)
(* get_cpuid() of cpuid.c.  A listing is the lines of /proc/cpuinfo that   *)
(* the parser looks at, each a key and a number, in the order of the file; *)
(* a line it does not look at changes nothing.                             *)
(***************************************************************************)
EXTENDS Integers, Sequences, FiniteSets, FiniteSetsExt, SequencesExt

CONSTANT APIC_IDS   \* how many numbers the initial APIC id of cpuid can tell apart (256)

ASSUME ApicAssumption == APIC_IDS \in Nat \ {0}

None == -1

NumbersOf(listing, key) ==
    {listing[i].number : i \in {j \in DOMAIN listing : listing[j].key = key}}

\* The first pass.
cores(listing) == Cardinality({i \in DOMAIN listing : listing[i].key = "processor"})
max_apicid(listing) == Max(NumbersOf(listing, "apicid") \cup {0})

\* The second pass.  A line speaks of the processor above it; one whose number
\* is not below the count (a node with a core off line) ends the parse, and so
\* does one that says where a processor is when there is none above it.
Assign(maps, line) ==
    LET here == maps.core IN
    IF maps.failed THEN maps ELSE
    CASE line.key = "processor"   -> [maps EXCEPT !.core = line.number,
                                        !.failed = line.number \notin DOMAIN maps.core_to_socket]
      [] line.key = "physical id" -> [maps EXCEPT !.failed = here = None,
                                        !.core_to_socket[here] = line.number]
      [] line.key = "core id"     -> [maps EXCEPT !.failed = here = None,
                                        !.core_to_local[here] = line.number]
      [] line.key = "apicid"      -> [maps EXCEPT !.apicid_to_core[line.number] = here,
                                                  !.core_to_apicid[here] = line.number]

\* What is known before the first line, and after each.
Unknown(listing) ==
    LET unknown == [c \in 0 .. cores(listing) - 1 |-> None]
    IN  [core |-> None, failed |-> FALSE, core_to_socket |-> unknown,
         core_to_local |-> unknown, core_to_apicid |-> unknown,
         apicid_to_core |-> [a \in 0 .. max_apicid(listing) |-> None]]

Read(listing) ==
    LET read[n \in 0 .. Len(listing)] ==
          IF n = 0 THEN Unknown(listing) ELSE Assign(read[n - 1], listing[n])
    IN  read

Maps(listing) == Read(listing)[Len(listing)]

On(maps, socket) == {c \in DOMAIN maps.core_to_socket : maps.core_to_socket[c] = socket}

\* The cores of a socket are numbered in order of their core number.
per_socket_core(maps, core) ==
    Cardinality({c \in On(maps, maps.core_to_socket[core]) : c < core})

\* map_socket_to_core[socket]: a row is as long as socket 0 has cores, and None
\* is an entry never written.  The cores of a larger socket are written past the
\* end of its row.  No loop reads them there, and the rows are filled in the
\* order they are allocated, so what is overwritten is the allocator's: at worst
\* a later call of it ends the program, as SocketSetup's Kill may at any moment.
Row_downwards(maps, socket) ==   \* (mutant: fills the row from the socket's last core)
    [i \in 0 .. Cardinality(On(maps, 0)) - 1 |->
        LET there == {c \in On(maps, socket) :
                        Cardinality(On(maps, socket)) - 1 - per_socket_core(maps, c) = i}
        IN  IF there = {} THEN None ELSE Min(there)]

Row(maps, socket) ==
    [i \in 0 .. Cardinality(On(maps, 0)) - 1 |->
        LET there == {c \in On(maps, socket) : per_socket_core(maps, c) = i}
        IN  IF there = {} THEN None ELSE Min(there)]

\* The parse fills config; after an error there is no map from sockets to
\* cores, and the assertion of get_cpuid() fails.
parse_proc_cpuinfo(listing) ==
    LET maps    == Maps(listing)
        sockets == Max({maps.core_to_socket[c] + 1 : c \in DOMAIN maps.core_to_socket} \cup {0})
    IN  [ok |-> ~maps.failed,
         cores |-> DOMAIN maps.core_to_socket,
         map_core_to_socket |-> maps.core_to_socket,
         map_apicid_to_core |-> maps.apicid_to_core,
         map_core_to_apicid |-> maps.core_to_apicid,
         map_core_to_per_socket_core |->
            [c \in DOMAIN maps.core_to_socket |-> per_socket_core(maps, c)],
         map_socket_to_core |-> [s \in 0 .. sockets - 1 |-> Row(maps, s)]]

\* get_cpuid(): the core that a process finds itself on.  The instruction
\* returns eight bits of the APIC id.
get_cpuid(config, apicid) == config.map_apicid_to_core[apicid % APIC_IDS]

-----------------------------------------------------------------------------
(* What the kernel writes.                                                 *)

Keys == {"processor", "physical id", "core id", "apicid"}

\* Line i speaks of processor c.
SpeaksOf(listing, i, c) ==
    \E j \in 1 .. i : /\ listing[j].key = "processor" /\ listing[j].number = c
                      /\ \A l \in j + 1 .. i : listing[l].key # "processor"

\* Each processor is listed, with its socket and an APIC id of its own; in what
\* order, and with what numbers, nothing is said.
WellFormed(listing) ==
    /\ listing \in Seq([key : Keys, number : Nat])
    /\ \A c \in 0 .. cores(listing) - 1, key \in {"physical id", "apicid"} :
          \E i \in DOMAIN listing : listing[i].key = key /\ SpeaksOf(listing, i, c)
    /\ \A i, j \in DOMAIN listing :
          /\ listing[i].key = "apicid" /\ listing[j].key = "apicid"
          /\ \/ listing[i].number = listing[j].number
             \/ \E c \in 0 .. cores(listing) - 1 : SpeaksOf(listing, i, c) /\ SpeaksOf(listing, j, c)
          => i = j

=============================================================================
