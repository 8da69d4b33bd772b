-------------------------- MODULE SocketSetupProofs --------------------------
(***************************************************************************)
(* The gears and the semaphores of a node whose ranks are bound to cores   *)
(* of their own, for any number of ranks, sockets, cores and programs.     *)
(***************************************************************************)
EXTENDS SocketSetup, FiniteSetTheorems, WellFoundedInduction, TLAPS

Labels == {"open", "split", "bind", "abort", "lock", "resize", "govern", "shiftslow", "barrier1",
           "barrier2", "running", "finalize", "reset", "shiftfast", "teardown", "unlink", "close",
           "done", "killed"}

\* The labels past the first barrier, and past that of MPI_Finalize.
PastFin == {"reset", "shiftfast", "teardown", "unlink", "close", "done"}
PastB1  == {"barrier2", "running", "finalize"} \cup PastFin

\* Each rank runs on a core of its mask, knows it, and opened its socket's
\* semaphore.
PlaceInv ==
    /\ mask \in Masks(config)
    /\ cpu \in [Ranks -> config.cores]
    /\ my_core = cpu
    /\ my_socket \in [Ranks -> Sockets]
    /\ sem_name = my_socket
    /\ \A r \in Ranks : cpu[r] \in mask[r] /\ my_socket[r] = config.map_core_to_socket[cpu[r]]

ShapeInv ==
    /\ pc \in [Ranks -> Labels]
    /\ socket_rank \in [Ranks -> Int]
    /\ todo \in [Ranks -> SUBSET config.cores]
    /\ prev_freq_idx \in [Ranks -> Gears \cup {-1}]
    /\ gear \in [config.cores -> Gears]
    /\ sem \in [Sockets -> {0, 1}]

\* Where the barriers and the splits keep the ranks; what only a leader does,
\* and who is one.
PhaseInv ==
    \A r \in Ranks :
        /\ pc[r] = "open" => \A q \in Ranks : pc[q] \in {"open", "split"}
        /\ pc[r] \notin {"open", "split", "killed"} =>
              (Leader(r) <=> \A q \in comm_socket(r) : ~before(q, r))
        /\ pc[r] \in {"lock", "resize", "govern", "shiftslow", "reset", "shiftfast"} => Leader(r)
        /\ pc[r] \in PastB1 => \A q \in comm_socket(r) : pc[q] \in {"barrier1"} \cup PastB1
        /\ pc[r] \in PastFin => \A q \in Ranks : pc[q] \in {"finalize"} \cup PastFin

\* The semaphore of a socket is taken by one rank at a time; where its holder
\* was killed the leader does not get to the first barrier.
LockInv ==
    \A r \in Ranks :
        /\ pc[r] \in {"resize", "unlink"} =>
              /\ sem[sem_name[r]] = 0
              /\ \A q \in comm_socket(r) : q # r => pc[q] \notin {"resize", "unlink"}
        /\ Lost(sem_name[r]) =>
              /\ pc[r] \in {"open", "split", "bind", "abort", "lock", "barrier1", "killed"}
              /\ pc[r] = "barrier1" => ~Leader(r)

\* Does the gear that r wrote last to its own core still stand.
Undisturbed(r) ==
    \/ pc[r] \in {"shiftslow", "barrier1", "barrier2", "running"}
    \/ pc[r] \in {"finalize", "reset", "shiftfast"} /\ Leader(r)

\* A rank that has written no gear yet.
Fresh(r) ==
    \/ pc[r] \in {"open", "split", "bind", "abort", "lock", "resize", "govern"}
    \/ pc[r] = "barrier1" /\ ~Leader(r)

GearInv ==
    \A r \in Ranks :
        /\ Fresh(r) => prev_freq_idx[r] = -1
        /\ pc[r] \in {"barrier2", "running"} => prev_freq_idx[r] # -1
        /\ Undisturbed(r) /\ prev_freq_idx[r] # -1 => gear[my_core[r]] = prev_freq_idx[r]

\* What a leader has done of a loop over the cores of its socket; it has done
\* all of it when it leaves the loop.
SocketInv ==
    \A r \in Ranks :
        /\ pc[r] \in {"shiftslow", "shiftfast"} => todo[r] \subseteq CoresOn(my_socket[r])
        /\ pc[r] \in {"barrier1", "barrier2", "running"} \cup (PastFin \ {"reset", "shiftfast"}) =>
              (Leader(r) => todo[r] = {})
        /\ Leader(r) /\ pc[r] \in {"shiftslow", "barrier1", "barrier2", "running"} =>
              \A c \in CoresOn(my_socket[r]) \ todo[r] :
                 \/ gear[c] = Slowest
                 \/ \E q \in comm_socket(r) : pc[q] \in PastB1 /\ my_core[q] = c
        /\ Leader(r) /\ pc[r] \in PastFin \ {"reset"} =>
              \A c \in CoresOn(my_socket[r]) \ todo[r] : gear[c] = Fastest

IInv ==
    /\ config \in {parse_proc_cpuinfo(listing) : listing \in CpuInfos}
    /\ ~config.ok => pc \in [Ranks -> {"abort", "killed"}]
    /\ config.ok => PlaceInv /\ ShapeInv /\ PhaseInv /\ LockInv /\ GearInv /\ SocketInv

-----------------------------------------------------------------------------
(* Least and greatest numbers.                                             *)

LEMMA LeastNat ==
    ASSUME NEW S \in SUBSET Nat, S # {}
    PROVE  \E x \in S : \A y \in S : x <= y
<1>1. \E x \in S : \A y \in S : ~(<<y, x>> \in OpToRel(<, Nat))
  BY NatLessThanWellFounded, WFMin
<1>2. ASSUME NEW x \in Nat, NEW y \in Nat, y < x PROVE <<y, x>> \in OpToRel(<, Nat)
  BY <1>2 DEF OpToRel
<1>3. \E x \in S : \A y \in S : ~(y < x)
  BY <1>1, <1>2
<1> QED
  BY <1>3

LEMMA LeastOf ==
    ASSUME NEW S \in SUBSET Nat, S # {}
    PROVE  Min(S) \in S /\ \A y \in S : Min(S) <= y
BY LeastNat DEF Min

\* The greatest of finitely many numbers.
LEMMA GreatestOf ==
    ASSUME NEW S \in SUBSET Nat, IsFiniteSet(S), S # {}
    PROVE  Max(S) \in S /\ \A y \in S : y <= Max(S)
<1> DEFINE HasMax(T) == \E x \in T : \A y \in T : x >= y
           Fine(T) == T \in SUBSET Nat /\ IsFiniteSet(T) /\ T # {}
           Bad == {n \in Nat : \E T : Fine(T) /\ Cardinality(T) = n /\ ~HasMax(T)}
<1>1. Bad = {}
  <2> SUFFICES ASSUME Bad # {} PROVE FALSE
    OBVIOUS
  <2>1. PICK n \in Bad : \A m \in Bad : n <= m
    <3>1. Bad \in SUBSET Nat
      OBVIOUS
    <3> HIDE DEF Bad
    <3> QED
      BY <3>1, LeastNat
  <2>2. PICK T : Fine(T) /\ Cardinality(T) = n /\ ~HasMax(T)
    OBVIOUS
  <2>3. PICK x \in T : x \in Nat
    BY <2>2
  <2> DEFINE R == T \ {x}
  <2>4. IsFiniteSet(R) /\ Cardinality(R) = n - 1 /\ n \in Nat /\ R \in SUBSET Nat
    BY <2>2, <2>3, FS_RemoveElement
  <2>5. R # {}
    <3> SUFFICES ASSUME R = {} PROVE FALSE
      OBVIOUS
    <3>1. T = {x}
      BY <2>3
    <3> QED
      BY <2>2, <2>3, <3>1
  <2>6. n - 1 \in Nat /\ n - 1 \notin Bad
    <3>1. n - 1 \in Nat
      BY <2>4, FS_CardinalityType
    <3>2. ~(n <= n - 1)
      BY <2>4
    <3> HIDE DEF Bad
    <3> QED
      BY <2>1, <3>1, <3>2
  <2>7. HasMax(R)
    BY <2>4, <2>5, <2>6
  <2>8. PICK y \in R : \A z \in R : y >= z
    BY <2>7
  <2>9. \A z \in T : z = x \/ (z \in R /\ y >= z)
    BY <2>8
  <2>10. x \in Nat /\ y \in Nat /\ y \in T
    BY <2>3, <2>4, <2>8
  <2>11. CASE y >= x
    <3>1. \A z \in T : y >= z
      BY <2>9, <2>11
    <3> QED
      BY <2>2, <2>10, <3>1
  <2>12. CASE x >= y
    <3>1. \A z \in T : x >= z
      <4> SUFFICES ASSUME NEW z \in T PROVE x >= z
        OBVIOUS
      <4>1. z \in Nat
        BY <2>2
      <4> QED
        BY <2>9, <2>10, <2>12, <4>1
    <3> QED
      BY <2>2, <2>3, <3>1
  <2> QED
    BY <2>10, <2>11, <2>12
<1>2. HasMax(S)
  <2>1. Cardinality(S) \in Nat /\ Cardinality(S) \notin Bad
    BY <1>1, FS_CardinalityType
  <2> QED
    BY <2>1
<1>3. Max(S) \in S /\ \A y \in S : Max(S) >= y
  BY <1>2 DEF Max
<1> QED
  BY <1>3

-----------------------------------------------------------------------------
(* What the parser finds in a listing.  The proof is by the first line     *)
(* after which what it knows would be wrong: there is none.                *)

LEMMA FiniteImage ==
    ASSUME NEW S, IsFiniteSet(S), NEW f, DOMAIN f = S, f = [x \in S |-> f[x]]
    PROVE  IsFiniteSet({f[x] : x \in S})
<1> DEFINE T == {f[x] : x \in S}
<1>1. f \in Surjection(S, T)
  BY DEF Surjection
<1> HIDE DEF T
<1>2. IsFiniteSet(T)
  BY <1>1, FS_Surjection
<1> QED
  BY <1>2 DEF T

LEMMA CoresCounted ==
    ASSUME NEW listing, WellFormed(listing)
    PROVE  /\ cores(listing) \in Nat /\ Len(listing) \in Nat
           /\ DOMAIN listing = 1 .. Len(listing)
           /\ \A i \in 1 .. Len(listing) : listing[i].key \in Keys /\ listing[i].number \in Nat
<1>1. listing \in Seq([key : Keys, number : Nat])
  BY DEF WellFormed
<1>2. Len(listing) \in Nat /\ DOMAIN listing = 1 .. Len(listing)
  BY <1>1
<1>3. \A i \in 1 .. Len(listing) : listing[i] \in [key : Keys, number : Nat]
  <2> DEFINE R == [key : Keys, number : Nat]
  <2>1. listing \in Seq(R)
    BY <1>1
  <2> HIDE DEF R
  <2>2. \A i \in 1 .. Len(listing) : listing[i] \in R
    BY <2>1
  <2> QED
    BY <2>2 DEF R
<1>4. IsFiniteSet(DOMAIN listing)
  BY <1>2, FS_Interval
<1>5. cores(listing) \in Nat
  BY <1>4, FS_Subset, FS_CardinalityType DEF cores
<1> QED
  BY <1>2, <1>3, <1>5

\* The table of APIC ids has a place for each that is listed.
LEMMA ApicidsFit ==
    ASSUME NEW listing, WellFormed(listing)
    PROVE  /\ max_apicid(listing) \in Nat
           /\ \A i \in DOMAIN listing : listing[i].key = "apicid" =>
                 listing[i].number \in 0 .. max_apicid(listing)
<1> DEFINE I == {j \in DOMAIN listing : listing[j].key = "apicid"}
           S == NumbersOf(listing, "apicid") \cup {0}
<1>1. IsFiniteSet(I)
  <2>1. IsFiniteSet(DOMAIN listing)
    BY CoresCounted, FS_Interval
  <2> QED
    BY <2>1, FS_Subset
<1>2. IsFiniteSet(NumbersOf(listing, "apicid"))
  <2> DEFINE f == [i \in I |-> listing[i].number]
  <2>1. NumbersOf(listing, "apicid") = {f[i] : i \in I}
    BY DEF NumbersOf
  <2>2. DOMAIN f = I /\ f = [i \in I |-> f[i]]
    OBVIOUS
  <2> HIDE DEF f, I
  <2> QED
    BY <1>1, <2>1, <2>2, FiniteImage
<1>3. IsFiniteSet(S) /\ S # {}
  BY <1>2, FS_AddElement
<1>4. S \in SUBSET Nat
  BY CoresCounted DEF NumbersOf
<1>5. \A i \in I : listing[i].number \in S
  BY DEF NumbersOf
<1>6. max_apicid(listing) = Max(S)
  BY DEF max_apicid
<1> HIDE DEF S
<1>7. Max(S) \in S /\ Max(S) \in Nat /\ \A y \in S : y <= Max(S)
  BY <1>3, <1>4, GreatestOf
<1>8. \A i \in I : listing[i].number \in 0 .. Max(S)
  <2> SUFFICES ASSUME NEW i \in I PROVE listing[i].number \in 0 .. Max(S)
    OBVIOUS
  <2>1. listing[i].number \in Nat /\ listing[i].number <= Max(S)
    BY <1>4, <1>5, <1>7
  <2> QED
    BY <1>7, <2>1
<1> QED
  BY <1>6, <1>7, <1>8

\* Reading ends: what is known after each line is what the line before left.
LEMMA ReadIs ==
    ASSUME NEW listing, Len(listing) \in Nat
    PROVE  Read(listing) = [n \in 0 .. Len(listing) |->
                              IF n = 0 THEN Unknown(listing)
                              ELSE Assign(Read(listing)[n - 1], listing[n])]
<1> DEFINE Is(f, m) == f = [n \in 0 .. m |-> IF n = 0 THEN Unknown(listing) ELSE Assign(f[n - 1], listing[n])]
           Bad == {m \in Nat : ~ \E f : Is(f, m)}
<1>1. ASSUME NEW m \in Nat, NEW f, Is(f, m)
      PROVE  \E g : Is(g, m + 1)
  <2> DEFINE g == [n \in 0 .. m + 1 |-> IF n = m + 1 THEN Assign(f[m], listing[m + 1]) ELSE f[n]]
  <2>1. \A n \in 0 .. m : g[n] = f[n]
    OBVIOUS
  <2>2. ASSUME NEW n \in 0 .. m + 1
        PROVE  g[n] = IF n = 0 THEN Unknown(listing) ELSE Assign(g[n - 1], listing[n])
    <3>1. CASE n = m + 1
      <4>1. m \in 0 .. m /\ n # 0 /\ n - 1 = m
        BY <3>1
      <4>2. g[m] = f[m]
        BY <2>1, <4>1
      <4>3. g[n] = Assign(f[m], listing[m + 1])
        BY <3>1
      <4> HIDE DEF g
      <4> QED
        BY <3>1, <4>1, <4>2, <4>3
    <3>2. CASE n # m + 1
      <4>1. n \in 0 .. m
        BY <3>2
      <4>2. g[n] = f[n] /\ f[n] = IF n = 0 THEN Unknown(listing) ELSE Assign(f[n - 1], listing[n])
        BY <1>1, <2>1, <4>1
      <4>3. n # 0 => g[n - 1] = f[n - 1]
        BY <2>1, <4>1
      <4> HIDE DEF g
      <4> QED
        BY <4>2, <4>3
    <3> QED
      BY <3>1, <3>2
  <2>3. g = [n \in 0 .. m + 1 |-> g[n]]
    OBVIOUS
  <2> HIDE DEF g
  <2>4. Is(g, m + 1)
    BY <2>2, <2>3
  <2> QED
    BY <2>4
<1>2. \E f : Is(f, 0)
  <2> DEFINE f == [n \in 0 .. 0 |-> Unknown(listing)]
  <2>1. Is(f, 0)
    OBVIOUS
  <2> QED
    BY <2>1
<1>3. Bad = {}
  <2> SUFFICES ASSUME Bad # {} PROVE FALSE
    OBVIOUS
  <2>1. PICK m \in Bad : \A k \in Bad : m <= k
    <3>1. Bad \in SUBSET Nat
      OBVIOUS
    <3> HIDE DEF Bad
    <3> QED
      BY <3>1, LeastNat
  <2>2. m \in Nat /\ m # 0
    BY <1>2
  <2>3. m - 1 \in Nat /\ m - 1 \notin Bad
    <3>1. m - 1 \in Nat /\ ~(m <= m - 1)
      BY <2>2
    <3> HIDE DEF Bad
    <3> QED
      BY <2>1, <3>1
  <2>4. PICK f : Is(f, m - 1)
    BY <2>3
  <2>5. \E g : Is(g, m)
    <3>1. m - 1 + 1 = m
      BY <2>2
    <3> HIDE DEF Is
    <3>2. \E g : Is(g, m - 1 + 1)
      BY <1>1, <2>3, <2>4
    <3> QED
      BY <3>1, <3>2
  <2> QED
    BY <2>1, <2>2, <2>5
<1>4. \E f : Is(f, Len(listing))
  BY <1>3
<1>5. Read(listing) = CHOOSE f : Is(f, Len(listing))
  BY DEF Read
<1> HIDE DEF Is
<1>6. Is(Read(listing), Len(listing))
  BY <1>4, <1>5
<1> QED
  BY <1>6 DEF Is

\* What the parser knows after n lines of a listing.
TablesOf(Cores, Apicids) ==
    [core : Int, failed : BOOLEAN, core_to_socket : [Cores -> Int], core_to_local : [Cores -> Int],
     core_to_apicid : [Cores -> Int], apicid_to_core : [Apicids -> Int]]

TablesType(listing) == TablesOf(0 .. cores(listing) - 1, 0 .. max_apicid(listing))

Known(listing, n, maps) ==
    /\ \A c \in Nat : SpeaksOf(listing, n, c) => maps.core = c
    /\ maps.core = None \/ (maps.core \in 0 .. cores(listing) - 1 /\ SpeaksOf(listing, n, maps.core))
    /\ \A i \in 1 .. n, c \in 0 .. cores(listing) - 1 : SpeaksOf(listing, i, c) =>
          /\ listing[i].key = "physical id" => maps.core_to_socket[c] \in Nat
          /\ listing[i].key = "apicid" =>
                /\ maps.core_to_apicid[c] = listing[i].number
                /\ maps.apicid_to_core[listing[i].number] = c

ReadInv(listing, n) ==
    LET maps == Read(listing)[n]
    IN  maps \in TablesType(listing) /\ (maps.failed \/ Known(listing, n, maps))

LEMMA SpeaksNext ==
    ASSUME NEW listing, NEW n \in Nat, NEW c
    PROVE  /\ ~SpeaksOf(listing, 0, c)
           /\ SpeaksOf(listing, n + 1, c) <=>
                 IF listing[n + 1].key = "processor" THEN listing[n + 1].number = c
                 ELSE SpeaksOf(listing, n, c)
<1>1. ~SpeaksOf(listing, 0, c)
  BY DEF SpeaksOf
<1>2. CASE listing[n + 1].key = "processor"
  <2>1. SpeaksOf(listing, n + 1, c) => listing[n + 1].number = c
    <3> SUFFICES ASSUME NEW j \in 1 .. n + 1, listing[j].number = c,
                        \A l \in j + 1 .. n + 1 : listing[l].key # "processor"
                 PROVE  listing[n + 1].number = c
      BY DEF SpeaksOf
    <3>1. ~(n + 1 \in j + 1 .. n + 1)
      BY <1>2
    <3>2. j = n + 1
      BY <3>1
    <3> QED
      BY <3>2
  <2>2. listing[n + 1].number = c => SpeaksOf(listing, n + 1, c)
    <3>1. n + 1 \in 1 .. n + 1 /\ \A l \in n + 1 + 1 .. n + 1 : FALSE
      OBVIOUS
    <3> QED
      BY <1>2, <3>1 DEF SpeaksOf
  <2> QED
    BY <1>1, <1>2, <2>1, <2>2
<1>3. CASE listing[n + 1].key # "processor"
  <2>1. ASSUME SpeaksOf(listing, n + 1, c) PROVE SpeaksOf(listing, n, c)
    <3>1. PICK j \in 1 .. n + 1 : /\ listing[j].key = "processor" /\ listing[j].number = c
                                  /\ \A l \in j + 1 .. n + 1 : listing[l].key # "processor"
      BY <2>1 DEF SpeaksOf
    <3>2. j \in 1 .. n /\ \A l \in j + 1 .. n : l \in j + 1 .. n + 1
      BY <1>3, <3>1
    <3> QED
      BY <3>1, <3>2 DEF SpeaksOf
  <2>2. ASSUME SpeaksOf(listing, n, c) PROVE SpeaksOf(listing, n + 1, c)
    <3>1. PICK j \in 1 .. n : /\ listing[j].key = "processor" /\ listing[j].number = c
                              /\ \A l \in j + 1 .. n : listing[l].key # "processor"
      BY <2>2 DEF SpeaksOf
    <3>2. j \in 1 .. n + 1 /\ \A l \in j + 1 .. n + 1 : l = n + 1 \/ l \in j + 1 .. n
      OBVIOUS
    <3> QED
      BY <1>3, <3>1, <3>2 DEF SpeaksOf
  <2> QED
    BY <1>1, <1>3, <2>1, <2>2
<1> QED
  BY <1>2, <1>3

LEMMA AssignKnown ==
    ASSUME NEW listing, WellFormed(listing), NEW n \in Nat, n < Len(listing),
           NEW m \in TablesType(listing), m.failed \/ Known(listing, n, m)
    PROVE  LET t == Assign(m, listing[n + 1])
           IN  t \in TablesType(listing) /\ (t.failed \/ Known(listing, n + 1, t))
<1> DEFINE line == listing[n + 1]
           here == m.core
           t == Assign(m, line)
           C == 0 .. cores(listing) - 1
           A == 0 .. max_apicid(listing)
           T == TablesOf(C, A)
<1>1. /\ n + 1 \in DOMAIN listing
      /\ line.key \in Keys /\ line.number \in Nat /\ line.number \in Int
      /\ DOMAIN listing = 1 .. Len(listing) /\ Len(listing) \in Nat
  BY CoresCounted
<1>2. m \in T /\ TablesType(listing) = T
  BY DEF TablesType
<1>3. None \notin C /\ None \in Int /\ C \subseteq Nat
  BY CoresCounted DEF None
<1>4. ASSUME ~m.failed
      PROVE  /\ \A c \in Nat : SpeaksOf(listing, n, c) => here = c
             /\ here = None \/ (here \in C /\ SpeaksOf(listing, n, here))
             /\ \A i \in 1 .. n, c \in C : SpeaksOf(listing, i, c) =>
                   /\ listing[i].key = "physical id" => m.core_to_socket[c] \in Nat
                   /\ listing[i].key = "apicid" =>
                         /\ m.core_to_apicid[c] = listing[i].number
                         /\ m.apicid_to_core[listing[i].number] = c
  BY <1>4 DEF Known
<1>5. \A i \in 1 .. n + 1 : i \in 1 .. n \/ i = n + 1
  OBVIOUS
<1>6. \A c : SpeaksOf(listing, n + 1, c) <=>
          IF line.key = "processor" THEN line.number = c ELSE SpeaksOf(listing, n, c)
  BY SpeaksNext
<1>7. ASSUME NEW i \in 1 .. n, NEW c \in C, SpeaksOf(listing, i, c),
             listing[i].key = "apicid", line.key = "apicid"
      PROVE  listing[i].number # line.number /\ ~SpeaksOf(listing, n + 1, c)
  <2>1. i \in DOMAIN listing /\ i # n + 1
    BY <1>1
  <2> QED
    BY <1>1, <1>7, <2>1 DEF WellFormed
<1>8. line.key = "apicid" => line.number \in A
  BY <1>1, ApicidsFit
<1>9. \A i \in 1 .. n : listing[i].key = "apicid" => listing[i].number \in A
  BY <1>1, ApicidsFit
<1>10. ASSUME NEW z, ~m.failed, ~z.failed, line.key # "processor", z.core = here,
              \A i \in 1 .. n + 1, c \in C : SpeaksOf(listing, i, c) =>
                   /\ listing[i].key = "physical id" => z.core_to_socket[c] \in Nat
                   /\ listing[i].key = "apicid" =>
                         /\ z.core_to_apicid[c] = listing[i].number
                         /\ z.apicid_to_core[listing[i].number] = c
       PROVE  Known(listing, n + 1, z)
  BY <1>4, <1>6, <1>10 DEF Known
<1> HIDE DEF line, C, A
<1>11. CASE m.failed
  <2>1. t = m
    BY <1>11 DEF Assign
  <2> HIDE DEF t
  <2> QED
    BY <1>2, <1>11, <2>1 DEF line, t
<1>12. ASSUME ~m.failed, line.key = "processor"
       PROVE  t \in T /\ (t.failed \/ Known(listing, n + 1, t))
  <2>1. t = [m EXCEPT !.core = line.number, !.failed = line.number \notin C]
    BY <1>2, <1>12 DEF Assign, TablesOf
  <2>2. t \in T
    BY <1>1, <1>2, <2>1 DEF TablesOf
  <2>3. /\ t.core = line.number /\ t.core_to_socket = m.core_to_socket
        /\ t.core_to_apicid = m.core_to_apicid /\ t.apicid_to_core = m.apicid_to_core
        /\ t.failed <=> line.number \notin C
    BY <1>2, <2>1 DEF TablesOf
  <2> HIDE DEF t
  <2>4. \A c : SpeaksOf(listing, n + 1, c) <=> c = line.number
    BY <1>6, <1>12
  <2>5. ASSUME ~t.failed, NEW i \in 1 .. n + 1, NEW c \in C, SpeaksOf(listing, i, c)
        PROVE  /\ listing[i].key = "physical id" => t.core_to_socket[c] \in Nat
               /\ listing[i].key = "apicid" =>
                     /\ t.core_to_apicid[c] = listing[i].number
                     /\ t.apicid_to_core[listing[i].number] = c
    <3>1. i \in 1 .. n \/ listing[i].key \notin {"physical id", "apicid"}
      BY <1>5, <1>12 DEF line
    <3>2. ASSUME i \in 1 .. n
          PROVE  /\ listing[i].key = "physical id" => m.core_to_socket[c] \in Nat
                 /\ listing[i].key = "apicid" =>
                       /\ m.core_to_apicid[c] = listing[i].number
                       /\ m.apicid_to_core[listing[i].number] = c
      BY <1>4, <1>12, <2>5, <3>2
    <3> QED
      BY <2>3, <3>1, <3>2
  <2>6. ~t.failed => Known(listing, n + 1, t)
    BY <2>3, <2>4, <2>5 DEF Known, C
  <2> QED
    BY <2>2, <2>6
<1>13. ASSUME ~m.failed, line.key = "physical id"
       PROVE  t \in T /\ (t.failed \/ Known(listing, n + 1, t))
  <2>1. t = [m EXCEPT !.failed = (here = None), !.core_to_socket[here] = line.number]
    BY <1>13 DEF Assign
  <2>2. [m.core_to_socket EXCEPT ![here] = line.number] \in [C -> Int]
    BY <1>1, <1>2 DEF TablesOf
  <2>3. /\ t.core = m.core /\ t.core_to_socket = [m.core_to_socket EXCEPT ![here] = line.number]
        /\ t.core_to_apicid = m.core_to_apicid /\ t.apicid_to_core = m.apicid_to_core
        /\ t.failed <=> here = None
    BY <1>2, <2>1 DEF TablesOf
  <2>4. t \in T
    BY <1>2, <2>1, <2>2 DEF TablesOf
  <2> HIDE DEF t
  <2>5. \A c \in C : t.core_to_socket[c] = IF c = here THEN line.number ELSE m.core_to_socket[c]
    BY <1>2, <2>3 DEF TablesOf
  <2>6. ASSUME NEW i \in 1 .. n + 1, NEW c \in C, SpeaksOf(listing, i, c)
        PROVE  /\ listing[i].key = "physical id" => t.core_to_socket[c] \in Nat
               /\ listing[i].key = "apicid" =>
                     /\ t.core_to_apicid[c] = listing[i].number
                     /\ t.apicid_to_core[listing[i].number] = c
    <3>1. CASE i \in 1 .. n
      <4>1. /\ listing[i].key = "physical id" => m.core_to_socket[c] \in Nat
            /\ listing[i].key = "apicid" =>
                  /\ m.core_to_apicid[c] = listing[i].number
                  /\ m.apicid_to_core[listing[i].number] = c
        BY <1>4, <1>13, <2>6, <3>1
      <4> QED
        BY <1>1, <2>3, <2>5, <4>1
    <3>2. CASE i = n + 1
      <4>1. c = here
        BY <1>3, <1>4, <1>6, <1>13, <2>6, <3>2
      <4> QED
        BY <1>1, <1>13, <2>5, <3>2, <4>1 DEF line
    <3> QED
      BY <1>5, <3>1, <3>2
  <2>7. ~t.failed => Known(listing, n + 1, t)
    BY <1>10, <1>13, <2>3, <2>6
  <2> QED
    BY <2>4, <2>7
<1>14. ASSUME ~m.failed, line.key = "core id"
       PROVE  t \in T /\ (t.failed \/ Known(listing, n + 1, t))
  <2>1. t = [m EXCEPT !.failed = (here = None), !.core_to_local[here] = line.number]
    BY <1>14 DEF Assign
  <2>2. [m.core_to_local EXCEPT ![here] = line.number] \in [C -> Int]
    BY <1>1, <1>2 DEF TablesOf
  <2>3. /\ t.core = m.core /\ t.core_to_socket = m.core_to_socket
        /\ t.core_to_apicid = m.core_to_apicid /\ t.apicid_to_core = m.apicid_to_core
        /\ t.failed <=> here = None
    BY <1>2, <2>1 DEF TablesOf
  <2>4. t \in T
    BY <1>2, <2>1, <2>2 DEF TablesOf
  <2> HIDE DEF t
  <2>5. ASSUME NEW i \in 1 .. n + 1, NEW c \in C, SpeaksOf(listing, i, c)
        PROVE  /\ listing[i].key = "physical id" => t.core_to_socket[c] \in Nat
               /\ listing[i].key = "apicid" =>
                     /\ t.core_to_apicid[c] = listing[i].number
                     /\ t.apicid_to_core[listing[i].number] = c
    <3>1. i \in 1 .. n \/ listing[i].key \notin {"physical id", "apicid"}
      BY <1>5, <1>14 DEF line
    <3>2. ASSUME i \in 1 .. n
          PROVE  /\ listing[i].key = "physical id" => m.core_to_socket[c] \in Nat
                 /\ listing[i].key = "apicid" =>
                       /\ m.core_to_apicid[c] = listing[i].number
                       /\ m.apicid_to_core[listing[i].number] = c
      BY <1>4, <1>14, <2>5, <3>2
    <3> QED
      BY <2>3, <3>1, <3>2
  <2>6. ~t.failed => Known(listing, n + 1, t)
    BY <1>10, <1>14, <2>3, <2>5
  <2> QED
    BY <2>4, <2>6
<1>15. ASSUME ~m.failed, line.key = "apicid"
       PROVE  t \in T /\ (t.failed \/ Known(listing, n + 1, t))
  <2>1. t = [m EXCEPT !.apicid_to_core[line.number] = here, !.core_to_apicid[here] = line.number]
    BY <1>15 DEF Assign
  <2>2. /\ [m.core_to_apicid EXCEPT ![here] = line.number] \in [C -> Int]
        /\ [m.apicid_to_core EXCEPT ![line.number] = here] \in [A -> Int]
    BY <1>1, <1>2 DEF TablesOf
  <2>3. /\ t.core = m.core /\ t.core_to_socket = m.core_to_socket /\ t.failed = m.failed
        /\ t.core_to_apicid = [m.core_to_apicid EXCEPT ![here] = line.number]
        /\ t.apicid_to_core = [m.apicid_to_core EXCEPT ![line.number] = here]
    BY <1>2, <2>1 DEF TablesOf
  <2>4. t \in T
    BY <1>2, <2>1, <2>2 DEF TablesOf
  <2> HIDE DEF t
  <2>5. /\ \A c \in C : t.core_to_apicid[c] = IF c = here THEN line.number ELSE m.core_to_apicid[c]
        /\ \A a \in A : t.apicid_to_core[a] = IF a = line.number THEN here ELSE m.apicid_to_core[a]
    BY <1>2, <2>3 DEF TablesOf
  <2>6. ASSUME NEW i \in 1 .. n + 1, NEW c \in C, SpeaksOf(listing, i, c)
        PROVE  /\ listing[i].key = "physical id" => t.core_to_socket[c] \in Nat
               /\ listing[i].key = "apicid" =>
                     /\ t.core_to_apicid[c] = listing[i].number
                     /\ t.apicid_to_core[listing[i].number] = c
    <3>1. ASSUME i \in 1 .. n, listing[i].key = "apicid"
          PROVE  t.core_to_apicid[c] = listing[i].number /\ t.apicid_to_core[listing[i].number] = c
      <4>1. listing[i].number # line.number /\ ~SpeaksOf(listing, n + 1, c)
        BY <1>7, <1>15, <2>6, <3>1
      <4>2. c # here
        BY <1>3, <1>4, <1>6, <1>15, <4>1
      <4>3. m.core_to_apicid[c] = listing[i].number /\ m.apicid_to_core[listing[i].number] = c
        BY <1>4, <1>15, <2>6, <3>1
      <4> QED
        BY <1>9, <2>5, <3>1, <4>1, <4>2, <4>3
    <3>2. ASSUME i = n + 1
          PROVE  t.core_to_apicid[c] = listing[i].number /\ t.apicid_to_core[listing[i].number] = c
      <4>1. c = here
        BY <1>3, <1>4, <1>6, <1>15, <2>6, <3>2
      <4> QED
        BY <1>8, <1>15, <2>5, <3>2, <4>1 DEF line
    <3>3. i \in 1 .. n /\ listing[i].key = "physical id" => t.core_to_socket[c] \in Nat
      BY <1>4, <1>15, <2>3, <2>6
    <3>4. i = n + 1 => listing[i].key = "apicid"
      BY <1>15 DEF line
    <3> QED
      BY <1>5, <3>1, <3>2, <3>3, <3>4
  <2>7. Known(listing, n + 1, t)
    BY <1>10, <1>15, <2>3, <2>6
  <2> QED
    BY <2>4, <2>7
<1>16. t \in T /\ (t.failed \/ Known(listing, n + 1, t))
  BY <1>1, <1>2, <1>11, <1>12, <1>13, <1>14, <1>15 DEF Keys, line
<1> QED
  BY <1>2, <1>16 DEF line

LEMMA ReadKnown ==
    ASSUME NEW listing, WellFormed(listing)
    PROVE  ReadInv(listing, Len(listing))
<1> DEFINE Bad == {n \in 0 .. Len(listing) : ~ReadInv(listing, n)}
<1>1. Len(listing) \in Nat /\ cores(listing) \in Nat
  BY CoresCounted
<1>2. \A n \in 0 .. Len(listing) : Read(listing)[n] =
          IF n = 0 THEN Unknown(listing) ELSE Assign(Read(listing)[n - 1], listing[n])
  BY <1>1, ReadIs
<1>3. ReadInv(listing, 0)
  <2>1. Read(listing)[0] = Unknown(listing)
    BY <1>1, <1>2
  <2>2. Unknown(listing) \in TablesType(listing) /\ Unknown(listing).core = None
    BY DEF Unknown, TablesType, TablesOf, None
  <2>3. Known(listing, 0, Unknown(listing))
    BY <2>2, SpeaksNext DEF Known
  <2> QED
    BY <2>1, <2>2, <2>3 DEF ReadInv
<1>4. ASSUME NEW n \in Nat, n < Len(listing), ReadInv(listing, n)
      PROVE  ReadInv(listing, n + 1)
  <2>1. n + 1 \in 0 .. Len(listing) /\ n + 1 # 0 /\ n + 1 - 1 = n
    BY <1>1, <1>4
  <2>2. Read(listing)[n + 1] = Assign(Read(listing)[n], listing[n + 1])
    BY <1>2, <2>1
  <2> QED
    BY <1>4, <2>2, AssignKnown DEF ReadInv
<1>5. Bad = {}
  <2> SUFFICES ASSUME Bad # {} PROVE FALSE
    OBVIOUS
  <2>1. PICK n \in Bad : \A k \in Bad : n <= k
    <3>1. Bad \in SUBSET Nat
      OBVIOUS
    <3> HIDE DEF Bad
    <3> QED
      BY <3>1, LeastNat
  <2>2. n \in Nat /\ n <= Len(listing) /\ n # 0
    BY <1>1, <1>3
  <2>3. n - 1 \in Nat /\ n - 1 < Len(listing) /\ n - 1 + 1 = n /\ n - 1 \in 0 .. Len(listing)
    BY <1>1, <2>2
  <2>4. n - 1 \notin Bad
    <3>1. ~(n <= n - 1)
      BY <2>2
    <3> HIDE DEF Bad
    <3> QED
      BY <2>1, <3>1
  <2>5. ReadInv(listing, n - 1)
    BY <2>3, <2>4
  <2>6. ReadInv(listing, n - 1 + 1)
    BY <1>4, <2>3, <2>5
  <2> QED
    BY <2>1, <2>3, <2>6
<1> QED
  BY <1>1, <1>5

\* parse_proc_cpuinfo() (cpuid.c:71) of what the kernel writes, of any length and
\* in any order: looking a core's APIC id up gives the core, and its socket has a
\* row in the table of the sockets.
THEOREM ParseInverts ==
    ASSUME NEW listing, WellFormed(listing), NEW node, node = parse_proc_cpuinfo(listing), node.ok,
           DOMAIN node.map_apicid_to_core \subseteq 0 .. APIC_IDS - 1
    PROVE  /\ node.cores \subseteq Nat /\ IsFiniteSet(node.cores)
           /\ \A c \in node.cores :
                /\ get_cpuid(node, node.map_core_to_apicid[c]) = c
                /\ node.map_core_to_socket[c] \in DOMAIN node.map_socket_to_core
<1> DEFINE maps == Maps(listing)
           C == 0 .. cores(listing) - 1
           A == 0 .. max_apicid(listing)
           S == {maps.core_to_socket[c] + 1 : c \in C} \cup {0}
<1>1. cores(listing) \in Nat /\ Len(listing) \in Nat
  BY CoresCounted
<1>2. maps \in TablesType(listing) /\ (maps.failed \/ Known(listing, Len(listing), maps))
  BY ReadKnown DEF ReadInv, Maps
<1> HIDE DEF maps
<1>3. DOMAIN maps.core_to_socket = C /\ DOMAIN maps.apicid_to_core = A
      /\ \A c \in C : maps.core_to_socket[c] \in Int
  BY <1>2 DEF TablesType, TablesOf
<1>4. /\ node.ok = ~maps.failed /\ node.cores = C
      /\ node.map_core_to_socket = maps.core_to_socket
      /\ node.map_apicid_to_core = maps.apicid_to_core
      /\ node.map_core_to_apicid = maps.core_to_apicid
      /\ DOMAIN node.map_socket_to_core = 0 .. Max(S) - 1
  BY <1>3 DEF parse_proc_cpuinfo, maps
<1>5. C \subseteq Nat /\ IsFiniteSet(C)
  <2>1. 0 \in Int /\ cores(listing) - 1 \in Int
    BY <1>1
  <2>2. IsFiniteSet(C)
    BY <2>1, FS_Interval
  <2> QED
    BY <1>1, <2>2
<1>6. Known(listing, Len(listing), maps)
  BY <1>2, <1>4
<1>7. ASSUME NEW c \in C
      PROVE  get_cpuid(node, node.map_core_to_apicid[c]) = c
  <2>1. PICK i \in DOMAIN listing : listing[i].key = "apicid" /\ SpeaksOf(listing, i, c)
    BY DEF WellFormed
  <2> DEFINE a == listing[i].number
  <2>2. maps.core_to_apicid[c] = a /\ maps.apicid_to_core[a] = c
    BY <1>6, <2>1, CoresCounted DEF Known
  <2>3. a \in A
    BY <2>1, ApicidsFit
  <2> HIDE DEF a
  <2>4. a \in 0 .. APIC_IDS - 1
    BY <1>3, <1>4, <2>3
  <2>5. a % APIC_IDS = a
    BY <2>4, ApicAssumption
  <2> QED
    BY <1>4, <2>2, <2>5 DEF get_cpuid
<1>8. \A c \in C : maps.core_to_socket[c] \in Nat
  <2> SUFFICES ASSUME NEW c \in C PROVE maps.core_to_socket[c] \in Nat
    OBVIOUS
  <2>1. PICK i \in DOMAIN listing : listing[i].key = "physical id" /\ SpeaksOf(listing, i, c)
    BY DEF WellFormed
  <2> QED
    BY <1>6, <2>1, CoresCounted DEF Known
<1>9. S \in SUBSET Nat /\ S # {} /\ IsFiniteSet(S)
  <2>1. IsFiniteSet({maps.core_to_socket[c] + 1 : c \in C})
    <3> DEFINE f == [c \in C |-> maps.core_to_socket[c] + 1]
    <3>1. {maps.core_to_socket[c] + 1 : c \in C} = {f[c] : c \in C}
      OBVIOUS
    <3>2. DOMAIN f = C /\ f = [c \in C |-> f[c]]
      OBVIOUS
    <3> HIDE DEF f, C
    <3> QED
      BY <1>5, <3>1, <3>2, FiniteImage
  <2> QED
    BY <1>8, <2>1, FS_AddElement
<1>10. \A c \in C : maps.core_to_socket[c] + 1 \in S
  OBVIOUS
<1> HIDE DEF S
<1>11. Max(S) \in S /\ \A y \in S : y <= Max(S)
  BY <1>9, GreatestOf
<1>12. \A c \in C : maps.core_to_socket[c] \in 0 .. Max(S) - 1
  <2> SUFFICES ASSUME NEW c \in C PROVE maps.core_to_socket[c] \in 0 .. Max(S) - 1
    OBVIOUS
  <2>1. maps.core_to_socket[c] \in Nat /\ maps.core_to_socket[c] + 1 <= Max(S) /\ Max(S) \in Nat
    BY <1>8, <1>9, <1>10, <1>11
  <2> QED
    BY <2>1
<1> QED
  BY <1>4, <1>5, <1>7, <1>12

-----------------------------------------------------------------------------
(* The cores of a socket, and its leader.                                  *)

\* The table of the sockets, for any listing: as far as the row of a socket is
\* written it holds cores of that socket, and a core whose place is in the row is
\* there.  per_socket_core() numbers the cores of a socket without gaps or
\* repetition, in whatever order the listing deals them.
RowHolds(node, s) ==
    /\ DOMAIN node.map_socket_to_core[s]
         = 0 .. Cardinality({c \in node.cores : node.map_core_to_socket[c] = 0}) - 1
    /\ \A i \in DOMAIN node.map_socket_to_core[s] :
          node.map_socket_to_core[s][i] # None =>
             /\ node.map_socket_to_core[s][i] \in node.cores
             /\ node.map_core_to_socket[node.map_socket_to_core[s][i]] = s
    /\ \A c \in node.cores :
          LET place_in_row == node.map_core_to_per_socket_core[c]
          IN  /\ place_in_row \in Nat
              /\ node.map_core_to_socket[c] = s
                 /\ place_in_row \in DOMAIN node.map_socket_to_core[s]
                    => node.map_socket_to_core[s][place_in_row] = c

LEMMA Rows ==
    ASSUME NEW listing, NEW node, node = parse_proc_cpuinfo(listing),
           node.cores \subseteq Nat, IsFiniteSet(node.cores),
           NEW s \in DOMAIN node.map_socket_to_core
    PROVE  RowHolds(node, s)
<1> DEFINE maps == Maps(listing)
           row == node.map_socket_to_core[s]
           place_of(c) == per_socket_core(maps, c)
           Placed(i) == {c \in On(maps, s) : place_of(c) = i}
<1>1. /\ node.cores = DOMAIN maps.core_to_socket
      /\ node.map_core_to_socket = maps.core_to_socket
      /\ node.map_core_to_per_socket_core = [c \in node.cores |-> per_socket_core(maps, c)]
      /\ row = Row(maps, s)
  BY DEF parse_proc_cpuinfo
<1> HIDE DEF maps
<1>2. \A t : On(maps, t) = {c \in node.cores : node.map_core_to_socket[c] = t}
  BY <1>1 DEF On
<1>3. row = [i \in 0 .. Cardinality(On(maps, 0)) - 1 |->
               IF Placed(i) = {} THEN None ELSE Min(Placed(i))]
  BY <1>1 DEF Row
<1>4. ASSUME NEW c \in node.cores
      PROVE  place_of(c) \in Nat
  <2> DEFINE E == {d \in On(maps, maps.core_to_socket[c]) : d < c}
  <2>1. E \subseteq node.cores
    BY <1>2
  <2>2. Cardinality(E) \in Nat
    BY <2>1, FS_Subset, FS_CardinalityType
  <2> QED
    BY <2>2 DEF per_socket_core
<1>5. ASSUME NEW c \in On(maps, s), NEW d \in On(maps, s), c < d
      PROVE  place_of(c) # place_of(d)
  <2> DEFINE E(x) == {e \in On(maps, s) : e < x}
  <2>1. /\ c \in Nat /\ d \in Nat /\ On(maps, s) \subseteq Nat /\ On(maps, s) \subseteq node.cores
        /\ maps.core_to_socket[c] = s /\ maps.core_to_socket[d] = s
    BY <1>1, <1>2
  <2>2. place_of(c) = Cardinality(E(c)) /\ place_of(d) = Cardinality(E(d))
    BY <2>1 DEF per_socket_core
  <2>3. E(c) \subseteq E(d) \ {c} /\ c \in E(d) /\ E(d) \subseteq node.cores
    BY <1>5, <2>1
  <2>4. IsFiniteSet(E(d)) /\ IsFiniteSet(E(d) \ {c})
    BY <2>3, FS_Subset
  <2>5. Cardinality(E(d) \ {c}) = Cardinality(E(d)) - 1
    BY <2>3, <2>4, FS_RemoveElement
  <2>6. Cardinality(E(c)) <= Cardinality(E(d) \ {c})
    BY <2>3, <2>4, FS_Subset
  <2>7. IsFiniteSet(E(c))
    BY <2>3, <2>4, FS_Subset
  <2>8. Cardinality(E(c)) \in Nat /\ Cardinality(E(d)) \in Nat
    BY <2>4, <2>7, FS_CardinalityType
  <2> HIDE DEF E, place_of
  <2> QED
    BY <2>2, <2>5, <2>6, <2>8
<1>6. ASSUME NEW c \in On(maps, s)
      PROVE  Placed(place_of(c)) = {c}
  <2>1. On(maps, s) \subseteq Nat
    BY <1>2
  <2>2. \A d \in On(maps, s) : place_of(d) = place_of(c) => ~(d < c) /\ ~(c < d)
    BY <1>5
  <2> HIDE DEF place_of
  <2>3. \A d \in On(maps, s) : place_of(d) = place_of(c) => d = c
    BY <2>1, <2>2
  <2> QED
    BY <2>3
<1>7. DOMAIN row = 0 .. Cardinality({c \in node.cores : node.map_core_to_socket[c] = 0}) - 1
  BY <1>2, <1>3
<1>8. ASSUME NEW i \in DOMAIN row, row[i] # None
      PROVE  row[i] \in node.cores /\ node.map_core_to_socket[row[i]] = s
  <2>1. Placed(i) # {} /\ row[i] = Min(Placed(i))
    BY <1>3, <1>8
  <2>2. Placed(i) \in SUBSET Nat
    BY <1>2
  <2>3. row[i] \in Placed(i)
    BY <2>1, <2>2, LeastOf
  <2> QED
    BY <1>2, <2>3
<1>9. ASSUME NEW c \in node.cores
      PROVE  /\ node.map_core_to_per_socket_core[c] = place_of(c)
             /\ node.map_core_to_socket[c] = s /\ place_of(c) \in DOMAIN row => row[place_of(c)] = c
  <2>1. node.map_core_to_per_socket_core[c] = place_of(c)
    BY <1>1
  <2>2. ASSUME node.map_core_to_socket[c] = s, place_of(c) \in DOMAIN row
        PROVE  row[place_of(c)] = c
    <3>1. Placed(place_of(c)) = {c} /\ c \in Nat
      BY <1>2, <1>6, <2>2
    <3>2. row[place_of(c)] = Min({c})
      BY <1>3, <2>2, <3>1
    <3>3. Min({c}) \in {c}
      BY <3>1, LeastOf
    <3> QED
      BY <3>2, <3>3
  <2> QED
    BY <2>1, <2>2
<1> HIDE DEF row, place_of
<1>10. \A c \in node.cores :
          /\ node.map_core_to_per_socket_core[c] \in Nat
          /\ node.map_core_to_socket[c] = s /\ node.map_core_to_per_socket_core[c] \in DOMAIN row
                => row[node.map_core_to_per_socket_core[c]] = c
  BY <1>4, <1>9
<1> QED
  BY <1>7, <1>8, <1>10 DEF row, RowHolds

\* What BoundApart says of the node the program is on.
LEMMA Topology ==
    ASSUME BoundApart, config \in {parse_proc_cpuinfo(listing) : listing \in CpuInfos}, config.ok
    PROVE  /\ config.cores \subseteq Nat /\ IsFiniteSet(config.cores)
           /\ \A c \in config.cores :
                /\ get_cpuid(config, config.map_core_to_apicid[c]) = c
                /\ config.map_core_to_socket[c] \in Sockets
                /\ core_found(c) = c
                /\ socket_found(c) = config.map_core_to_socket[c]
           /\ \A s \in Sockets : \A c \in CoresOn(s) :
                c \in config.cores /\ config.map_core_to_socket[c] = s
           /\ \A masks \in Masks(config) :
                /\ masks \in [Ranks -> SUBSET config.cores]
                /\ \A r \in Ranks : Collapse \/ Cardinality(masks[r]) = 1
                /\ \A r, q \in Ranks : r # q => masks[r] \cap masks[q] = {}
                /\ \A r \in Ranks : \A c, d \in masks[r] :
                      config.map_core_to_socket[c] = config.map_core_to_socket[d]
<1>0. PICK listing \in CpuInfos : config = parse_proc_cpuinfo(listing)
  OBVIOUS
<1>1. /\ config.cores \subseteq Nat /\ IsFiniteSet(config.cores)
      /\ \A c \in config.cores :
           /\ get_cpuid(config, config.map_core_to_apicid[c]) = c
           /\ config.map_core_to_socket[c] \in Sockets
  <2>1. WellFormed(listing)
    BY <1>0 DEF BoundApart
  <2>2. DOMAIN config.map_apicid_to_core \subseteq 0 .. APIC_IDS - 1
    BY <1>0, TopologyAssumption
  <2> QED
    BY <1>0, <2>1, <2>2, ParseInverts DEF Sockets
<1>2. \A s \in Sockets : \A c \in CoresOn(s) :
         c \in config.cores /\ config.map_core_to_socket[c] = s
  <2> SUFFICES ASSUME NEW s \in Sockets, NEW i \in DOMAIN config.map_socket_to_core[s]
               PROVE  /\ config.map_socket_to_core[s][i] \in config.cores
                      /\ config.map_core_to_socket[config.map_socket_to_core[s][i]] = s
    BY DEF CoresOn
  <2>2. config.map_socket_to_core[s][i] # None
    BY <1>0, TopologyAssumption DEF Sockets
  <2> QED
    <3>1. RowHolds(config, s)
      BY <1>0, <1>1, Rows DEF Sockets
    <3> QED
      BY <2>2, <3>1 DEF RowHolds
<1>3. \A masks \in Masks(config) :
         /\ masks \in [Ranks -> SUBSET config.cores]
         /\ \A r \in Ranks : Collapse \/ Cardinality(masks[r]) = 1
         /\ \A r, q \in Ranks : r # q => masks[r] \cap masks[q] = {}
         /\ \A r \in Ranks : \A c, d \in masks[r] :
               config.map_core_to_socket[c] = config.map_core_to_socket[d]
  BY <1>0 DEF BoundApart
<1> QED
  BY <1>1, <1>2, <1>3 DEF core_found, socket_found

\* A core whose place is in the row of its socket is reached by shift_socket().
LEMMA Reached ==
    ASSUME BoundApart, config \in {parse_proc_cpuinfo(listing) : listing \in CpuInfos}, config.ok,
           NEW c \in config.cores
    PROVE  LET s == config.map_core_to_socket[c]
               place_in_row == config.map_core_to_per_socket_core[c]
           IN  /\ place_in_row \in DOMAIN config.map_socket_to_core[s]
                     => config.map_socket_to_core[s][place_in_row] = c
               /\ \/ c \in CoresOn(s)
                  \/ place_in_row >= Cardinality({d \in config.cores : config.map_core_to_socket[d] = 0})
<1> DEFINE s == config.map_core_to_socket[c]
           place_in_row == config.map_core_to_per_socket_core[c]
           length == Cardinality({d \in config.cores : config.map_core_to_socket[d] = 0})
<1>1. config.cores \subseteq Nat /\ IsFiniteSet(config.cores) /\ s \in Sockets
  BY Topology
<1>2. PICK listing \in CpuInfos : config = parse_proc_cpuinfo(listing)
  OBVIOUS
<1>3. /\ DOMAIN config.map_socket_to_core[s] = 0 .. length - 1 /\ place_in_row \in Nat
      /\ place_in_row \in DOMAIN config.map_socket_to_core[s]
            => config.map_socket_to_core[s][place_in_row] = c
  <2>1. RowHolds(config, s)
    BY <1>1, <1>2, Rows DEF Sockets
  <2> QED
    BY <2>1 DEF RowHolds
<1>4. length \in Nat
  BY <1>1, FS_Subset, FS_CardinalityType
<1>5. place_in_row \in DOMAIN config.map_socket_to_core[s] => c \in CoresOn(s)
  BY <1>3 DEF CoresOn
<1> HIDE DEF s, place_in_row, length
<1>6. c \in CoresOn(s) \/ place_in_row >= length
  BY <1>3, <1>4, <1>5
<1> QED
  BY <1>3, <1>6 DEF s, place_in_row, length

\* No two ranks of a socket are both first in its order.
LEMMA OneLeader ==
    ASSUME my_core \in [Ranks -> Nat], NEW r \in Ranks, NEW q \in Ranks, sem_name[r] = sem_name[q],
           \A p \in comm_socket(r) : ~before(p, r),
           \A p \in comm_socket(q) : ~before(p, q)
    PROVE  r = q
<1>1. ~before(q, r) /\ ~before(r, q)
  BY DEF comm_socket
<1>2. split_key(r) \in Nat /\ split_key(q) \in Nat /\ r \in Nat /\ q \in Nat
  BY NodeAssumption DEF split_key
<1> QED
  BY <1>1, <1>2 DEF before

\* Some rank of a socket is.
LEMMA SomeLeader ==
    ASSUME my_core \in [Ranks -> Nat], NEW r \in Ranks
    PROVE  \E l \in comm_socket(r) : \A p \in comm_socket(l) : ~before(p, l)
<1> DEFINE S == comm_socket(r)
           keys == {split_key(q) : q \in S}
           first == {q \in S : split_key(q) = Min(keys)}
<1>1. S \subseteq Nat /\ r \in S /\ \A q \in S : split_key(q) \in Nat
  BY NodeAssumption DEF comm_socket, split_key
<1>2. keys \in SUBSET Nat /\ keys # {}
  BY <1>1
<1>3. Min(keys) \in keys /\ \A k \in keys : Min(keys) <= k
  BY <1>2, LeastOf
<1>4. first \in SUBSET Nat /\ first # {}
  BY <1>1, <1>3
<1>5. Min(first) \in first /\ \A q \in first : Min(first) <= q
  BY <1>4, LeastOf
<1> DEFINE l == Min(first)
<1>6. l \in S /\ split_key(l) = Min(keys) /\ comm_socket(l) = S
  BY <1>5 DEF comm_socket
<1>7. ASSUME NEW p \in S PROVE ~before(p, l)
  <2>1. split_key(l) <= split_key(p) /\ split_key(l) \in Nat /\ split_key(p) \in Nat
        /\ p \in Nat /\ l \in Nat
    BY <1>1, <1>3, <1>6
  <2>2. split_key(p) = split_key(l) => l <= p
    BY <1>5, <1>6
  <2> HIDE DEF l
  <2> QED
    BY <2>1, <2>2 DEF before
<1> HIDE DEF l, S
<1>8. \A p \in comm_socket(l) : ~before(p, l)
  BY <1>6, <1>7
<1> QED
  BY <1>6, <1>8 DEF S

-----------------------------------------------------------------------------
(* A program starts.                                                       *)

\* With every rank about to open its semaphore, nothing has been promised yet.
LEMMA FreshInv ==
    ASSUME pc = Everywhere("open"), prev_freq_idx = Everywhere(-1)
    PROVE  PhaseInv /\ LockInv /\ GearInv /\ SocketInv
<1>1. \A r \in Ranks : pc[r] = "open" /\ prev_freq_idx[r] = -1
  BY DEF Everywhere
<1>2. PhaseInv
  BY <1>1 DEF PhaseInv, PastB1, PastFin
<1>3. LockInv
  BY <1>1 DEF LockInv
<1>4. GearInv
  BY <1>1 DEF GearInv, Undisturbed, Fresh
<1>5. SocketInv
  BY <1>1 DEF SocketInv, PastFin
<1> QED
  BY <1>2, <1>3, <1>4, <1>5

\* A program that ended promises nothing more, and what it left in the cores and
\* the semaphores is of the right kind.
LEMMA KilledInv ==
    ASSUME pc = Everywhere("killed")
    PROVE  PhaseInv /\ LockInv /\ GearInv /\ SocketInv
<1>1. \A r \in Ranks : pc[r] = "killed"
  BY DEF Everywhere
<1>2. PhaseInv
  BY <1>1 DEF PhaseInv, PastB1, PastFin
<1>3. LockInv
  BY <1>1 DEF LockInv
<1>4. GearInv
  BY <1>1 DEF GearInv, Undisturbed, Fresh
<1>5. SocketInv
  BY <1>1 DEF SocketInv, PastFin
<1> QED
  BY <1>2, <1>3, <1>4, <1>5

\* Each rank finds the core it is on.
LEMMA FoundPlaces ==
    ASSUME BoundApart, config \in {parse_proc_cpuinfo(listing) : listing \in CpuInfos}, config.ok,
           NEW masks \in Masks(config), NEW chosen \in CpuChoices(masks)
    PROVE  /\ chosen \in [Ranks -> config.cores]
           /\ [r \in Ranks |-> core_found(chosen[r])] = chosen
           /\ [r \in Ranks |-> socket_found(chosen[r])] \in [Ranks -> Sockets]
           /\ \A r \in Ranks : /\ chosen[r] \in masks[r]
                               /\ socket_found(chosen[r]) = config.map_core_to_socket[chosen[r]]
<1>1. chosen \in [Ranks -> config.cores] /\ \A r \in Ranks : chosen[r] \in masks[r]
  BY DEF CpuChoices
<1>2. \A c \in config.cores : /\ core_found(c) = c
                              /\ socket_found(c) = config.map_core_to_socket[c]
                              /\ config.map_core_to_socket[c] \in Sockets
  BY Topology
<1> QED
  BY <1>1, <1>2

LEMMA InitIInv == ASSUME BoundApart PROVE Init => IInv
<1> SUFFICES ASSUME Init PROVE IInv
  OBVIOUS
<1>1. config \in {parse_proc_cpuinfo(listing) : listing \in CpuInfos}
  BY DEF Init
<1>2. ASSUME ~config.ok PROVE pc \in [Ranks -> {"abort", "killed"}]
  BY <1>2 DEF Init, FirstLabel, Everywhere
<1>3. ASSUME config.ok PROVE PlaceInv /\ ShapeInv /\ PhaseInv /\ LockInv /\ GearInv /\ SocketInv
  <2>1. PlaceInv
    <3>1. /\ mask \in Masks(config) /\ cpu \in CpuChoices(mask)
          /\ my_core = [r \in Ranks |-> core_found(cpu[r])]
          /\ my_socket = [r \in Ranks |-> socket_found(cpu[r])]
          /\ sem_name = my_socket
      BY DEF Init
    <3>2. /\ cpu \in [Ranks -> config.cores]
          /\ [r \in Ranks |-> core_found(cpu[r])] = cpu
          /\ [r \in Ranks |-> socket_found(cpu[r])] \in [Ranks -> Sockets]
          /\ \A r \in Ranks : /\ cpu[r] \in mask[r]
                              /\ socket_found(cpu[r]) = config.map_core_to_socket[cpu[r]]
      BY <1>1, <1>3, <3>1, FoundPlaces
    <3> QED
      BY <3>1, <3>2 DEF PlaceInv
  <2>2. pc = Everywhere("open") /\ prev_freq_idx = Everywhere(-1)
    BY <1>3 DEF Init, FirstLabel
  <2>3. ShapeInv
    <3>1. Fastest \in Gears /\ Slowest \in Gears
      BY NodeAssumption DEF Gears
    <3> QED
      BY <2>2, <3>1 DEF Init, ShapeInv, Everywhere, Labels
  <2> QED
    BY <2>1, <2>2, <2>3, FreshInv
<1> QED
  BY <1>1, <1>2, <1>3 DEF IInv

LEMMA EndIInv == ASSUME BoundApart, IInv, End PROVE IInv'
<1>1. config \in {parse_proc_cpuinfo(listing) : listing \in CpuInfos} /\ config' = config
  BY DEF IInv, End, EndLast, EndAndStartNext, place
<1>2. ASSUME ~config.ok PROVE pc' \in [Ranks -> {"abort", "killed"}]
  BY <1>2 DEF End, EndLast, EndAndStartNext, FirstLabel, Everywhere
<1>3. ASSUME config.ok
      PROVE  (PlaceInv /\ ShapeInv /\ PhaseInv /\ LockInv /\ GearInv /\ SocketInv)'
  <2>0. PlaceInv /\ ShapeInv
    BY <1>3 DEF IInv
  <2>1. CASE EndLast
    <3>1. pc' = Everywhere("killed") /\ UNCHANGED <<place, todo, shift, sems>>
      BY <2>1 DEF EndLast
    <3>2. PlaceInv'
      BY <2>0, <3>1 DEF PlaceInv, place, Sockets
    <3>3. ShapeInv'
      BY <2>0, <3>1 DEF ShapeInv, place, shift, sems, Everywhere, Labels, Sockets
    <3>4. (pc = Everywhere("killed"))'
      BY <3>1 DEF Everywhere
    <3>5. (PhaseInv /\ LockInv /\ GearInv /\ SocketInv)'
      BY <3>4, KilledInv, PTL
    <3> QED
      BY <3>2, <3>3, <3>5
  <2>2. CASE EndAndStartNext
    <3>1. /\ mask' \in Masks(config) /\ cpu' \in CpuChoices(mask')
          /\ my_core' = [r \in Ranks |-> core_found(cpu'[r])]
          /\ my_socket' = [r \in Ranks |-> socket_found(cpu'[r])]
          /\ sem_name' = my_socket'
          /\ pc' = Everywhere("open") /\ prev_freq_idx' = Everywhere(-1)
          /\ socket_rank' = Everywhere(-1) /\ todo' = Everywhere({})
          /\ UNCHANGED <<config, gear, sem>>
      BY <1>3, <2>2 DEF EndAndStartNext, FirstLabel, sems
    <3>2. /\ cpu' \in [Ranks -> config.cores]
          /\ [r \in Ranks |-> core_found(cpu'[r])] = cpu'
          /\ [r \in Ranks |-> socket_found(cpu'[r])] \in [Ranks -> Sockets]
          /\ \A r \in Ranks : /\ cpu'[r] \in mask'[r]
                              /\ socket_found(cpu'[r]) = config.map_core_to_socket[cpu'[r]]
      BY <1>1, <1>3, <3>1, FoundPlaces
    <3>3. PlaceInv'
      BY <3>1, <3>2 DEF PlaceInv, Sockets
    <3>4. ShapeInv'
      BY <2>0, <3>1 DEF ShapeInv, Everywhere, Labels, Sockets
    <3>5. (pc = Everywhere("open") /\ prev_freq_idx = Everywhere(-1))'
      BY <3>1 DEF Everywhere
    <3>6. (PhaseInv /\ LockInv /\ GearInv /\ SocketInv)'
      BY <3>5, FreshInv, PTL
    <3> QED
      BY <3>3, <3>4, <3>6
  <2> QED
    BY <2>1, <2>2 DEF End
<1> QED
  BY <1>1, <1>2, <1>3 DEF IInv

-----------------------------------------------------------------------------
(* A rank takes a step.                                                    *)

\* Everything a rank does but fail, which ends the program.
Act(r) ==
    \/ Open(r) \/ Split(r) \/ Bind(r) \/ BindFails(r)
    \/ Lock(r, "lock", "resize") \/ Unlock(r, "resize", "govern")
    \/ Govern(r, "govern", "shiftslow")
    \/ ShiftSocket(r, "shiftslow", Slowest) \/ ShiftSocketDone(r, "shiftslow", "barrier1")
    \/ ShiftFastest(r) \/ Start(r) \/ ShiftOwn(r) \/ Finalize(r)
    \/ PastFinalize(r)
    \/ Govern(r, "reset", "shiftfast")
    \/ ShiftSocket(r, "shiftfast", Fastest) \/ ShiftSocketDone(r, "shiftfast", "teardown")
    \/ Lock(r, "teardown", "unlink") \/ Unlock(r, "unlink", "close") \/ Close(r)

LEMMA NextCases == [Next]_vars => (\E r \in Ranks : Act(r)) \/ End \/ UNCHANGED vars
<1>1. ASSUME NEW r \in Ranks, Step(r) \/ ShiftOwn(r) \/ Finalize(r) PROVE Act(r) \/ End
  BY <1>1 DEF Step, Act, Abort
<1> QED
  BY <1>1 DEF Next, Kill, AllDone

\* What each step leaves alone, where it takes its rank and on what condition.
\* The rank's bind is the only step that moves it to another core.
Frame(r) ==
    /\ UNCHANGED <<config, mask, my_socket, sem_name>>
    /\ pc' = [pc EXCEPT ![r] = pc'[r]]
    /\ my_core' = [my_core EXCEPT ![r] = my_core'[r]]
    /\ socket_rank' = [socket_rank EXCEPT ![r] = socket_rank'[r]]
    /\ todo' = [todo EXCEPT ![r] = todo'[r]]
    /\ prev_freq_idx' = [prev_freq_idx EXCEPT ![r] = prev_freq_idx'[r]]
    /\ my_core' # my_core => pc[r] = "bind"
    /\ socket_rank' # socket_rank => pc[r] = "split"

Moves(r) ==
    \/ pc[r] = "open" /\ pc'[r] = "split"
    \/ /\ pc[r] = "split" /\ pc'[r] = "bind" /\ \A q \in Ranks : pc[q] # "open"
       /\ socket_rank'[r] = Cardinality({q \in comm_socket(r) : before(q, r)})
    \/ pc[r] = "bind" /\ pc'[r] = "abort"
    \/ pc[r] = "bind" /\ pc'[r] = "lock" /\ Leader(r)
    \/ pc[r] = "bind" /\ pc'[r] = "barrier1" /\ ~Leader(r)
    \/ pc[r] = "lock" /\ pc'[r] = "resize"
    \/ pc[r] = "resize" /\ pc'[r] = "govern"
    \/ pc[r] = "govern" /\ pc'[r] = "shiftslow"
    \/ pc[r] = "shiftslow" /\ pc'[r] \in {"shiftslow", "barrier1"}
    \/ pc[r] = "barrier1" /\ pc'[r] = "barrier2" /\ PastBarrier1(r)
    \/ pc[r] = "barrier2" /\ pc'[r] = "running"
    \/ pc[r] = "running" /\ pc'[r] \in {"running", "finalize"}
    \/ pc[r] = "finalize" /\ pc'[r] = "reset" /\ FinalizeBarrier /\ Leader(r)
    \/ pc[r] = "finalize" /\ pc'[r] = "teardown" /\ FinalizeBarrier /\ ~Leader(r)
    \/ pc[r] = "reset" /\ pc'[r] = "shiftfast"
    \/ pc[r] = "shiftfast" /\ pc'[r] \in {"shiftfast", "teardown"}
    \/ pc[r] = "teardown" /\ pc'[r] = "unlink"
    \/ pc[r] = "unlink" /\ pc'[r] = "close"
    \/ pc[r] = "close" /\ pc'[r] = "done"

\* The core a rank binds to is one of its mask, so it is on the same socket.
LEMMA BindPlace ==
    ASSUME BoundApart, IInv, config.ok, NEW r \in Ranks, Bind(r)
    PROVE  /\ my_socket' = my_socket
           /\ cpu' = [cpu EXCEPT ![r] = bind_core(r)]
           /\ my_core' = [my_core EXCEPT ![r] = bind_core(r)]
           /\ bind_core(r) \in mask[r] /\ bind_core(r) \in config.cores
<1>1. PlaceInv /\ config \in {parse_proc_cpuinfo(listing) : listing \in CpuInfos}
  BY DEF IInv
<1>2. /\ mask \in [Ranks -> SUBSET config.cores] /\ config.cores \subseteq Nat
      /\ Collapse \/ bound(r)
      /\ \A c, d \in mask[r] : config.map_core_to_socket[c] = config.map_core_to_socket[d]
      /\ \A c \in config.cores : get_cpuid(config, config.map_core_to_apicid[c]) = c
  BY <1>1, Topology DEF PlaceInv, bound
<1>3. bind_core(r) \in mask[r]
  <2>1. CASE bound(r)
    BY <1>1, <2>1 DEF PlaceInv, bind_core
  <2>2. CASE ~bound(r) /\ Collapse
    <3>1. seen(r) \in SUBSET Nat /\ seen(r) # {} /\ seen(r) \subseteq mask[r]
      BY <1>2, <2>2 DEF seen, Bind
    <3>2. Min(seen(r)) \in seen(r)
      BY <3>1, LeastOf
    <3> QED
      BY <2>2, <3>1, <3>2 DEF bind_core
  <2> QED
    BY <1>2, <2>1, <2>2
<1>4. bind_core(r) \in config.cores
  BY <1>2, <1>3
<1>5. my_core' = [my_core EXCEPT ![r] = bind_core(r)] /\ cpu' = [cpu EXCEPT ![r] = bind_core(r)]
  BY <1>2, <1>4 DEF Bind
<1>6. my_core'[r] = bind_core(r)
  BY <1>1, <1>5 DEF PlaceInv
<1>7. my_socket' = [my_socket EXCEPT ![r] = config.map_core_to_socket[bind_core(r)]]
  BY <1>6 DEF Bind
<1>8. config.map_core_to_socket[bind_core(r)] = my_socket[r]
  BY <1>1, <1>2, <1>3 DEF PlaceInv
<1>9. my_socket' = my_socket
  BY <1>1, <1>7, <1>8 DEF PlaceInv
<1> QED
  BY <1>3, <1>4, <1>5, <1>9

LEMMA ActFrame ==
    ASSUME BoundApart, IInv, config.ok, NEW r \in Ranks, Act(r)
    PROVE  Frame(r) /\ Moves(r) /\ pc'[r] \in Labels
<1>1. PlaceInv /\ ShapeInv
  BY DEF IInv
<1>2. /\ pc \in [Ranks -> Labels] /\ my_core \in [Ranks -> config.cores]
      /\ socket_rank \in [Ranks -> Int] /\ todo \in [Ranks -> SUBSET config.cores]
      /\ prev_freq_idx \in [Ranks -> Gears \cup {-1}]
  BY <1>1 DEF PlaceInv, ShapeInv
<1> USE DEF Frame, Moves, Labels, Goto, place, shift, sems
<1>3. CASE Open(r)
  BY <1>2, <1>3 DEF Open
<1>4. CASE Split(r)
  BY <1>2, <1>4 DEF Split
<1>5. CASE Bind(r)
  BY <1>2, <1>5, BindPlace DEF Bind
<1>6. CASE BindFails(r)
  BY <1>2, <1>6 DEF BindFails
<1>7. CASE Lock(r, "lock", "resize") \/ Lock(r, "teardown", "unlink")
  BY <1>2, <1>7 DEF Lock
<1>8. CASE Unlock(r, "resize", "govern") \/ Unlock(r, "unlink", "close")
  BY <1>2, <1>8 DEF Unlock
<1>9. CASE Govern(r, "govern", "shiftslow") \/ Govern(r, "reset", "shiftfast")
  BY <1>2, <1>9 DEF Govern
<1>10. CASE ShiftSocket(r, "shiftslow", Slowest) \/ ShiftSocket(r, "shiftfast", Fastest)
  BY <1>2, <1>10 DEF ShiftSocket, shift_core
<1>11. CASE ShiftSocketDone(r, "shiftslow", "barrier1") \/ ShiftSocketDone(r, "shiftfast", "teardown")
  BY <1>2, <1>11 DEF ShiftSocketDone
<1>12. CASE ShiftFastest(r)
  BY <1>2, <1>12 DEF ShiftFastest, shift_core
<1>13. CASE Start(r)
  BY <1>2, <1>13 DEF Start, shift_core
<1>14. CASE ShiftOwn(r)
  BY <1>2, <1>14 DEF ShiftOwn, shift_core
<1>15. CASE Finalize(r)
  BY <1>2, <1>15 DEF Finalize
<1>16. CASE PastFinalize(r)
  BY <1>2, <1>16 DEF PastFinalize
<1>17. CASE Close(r)
  BY <1>2, <1>17 DEF Close
<1> QED
  BY <1>3, <1>4, <1>5, <1>6, <1>7, <1>8, <1>9, <1>10, <1>11, <1>12, <1>13, <1>14, <1>15,
     <1>16, <1>17 DEF Act

\* The order of the ranks of a socket does not change when one of them binds:
\* a rank with a key of its own stays where it is.
LEMMA PlaceStep ==
    ASSUME BoundApart, IInv, config.ok, NEW r \in Ranks, Act(r)
    PROVE  PlaceInv' /\ \A q \in Ranks : split_key(q)' = split_key(q)
<1>1. PlaceInv
  BY DEF IInv
<1>2. CASE Bind(r)
  <2>1. /\ my_socket' = my_socket /\ UNCHANGED <<config, mask, sem_name>>
        /\ cpu' = [cpu EXCEPT ![r] = bind_core(r)]
        /\ my_core' = [my_core EXCEPT ![r] = bind_core(r)]
        /\ bind_core(r) \in mask[r] /\ bind_core(r) \in config.cores
    BY <1>2, BindPlace DEF Bind
  <2>2. config \in {parse_proc_cpuinfo(listing) : listing \in CpuInfos}
    BY DEF IInv
  <2>3. \A c, d \in mask[r] : config.map_core_to_socket[c] = config.map_core_to_socket[d]
    BY <1>1, <2>2, Topology DEF PlaceInv
  <2>4. PlaceInv'
    BY <1>1, <2>1, <2>3 DEF PlaceInv, Sockets
  <2>5. bound(r) => bind_core(r) = my_core[r]
    BY <1>1 DEF PlaceInv, bind_core
  <2>6. \A q \in Ranks : split_key(q)' = split_key(q)
    BY <1>1, <2>1, <2>5 DEF PlaceInv, split_key, bound
  <2> QED
    BY <2>4, <2>6
<1>3. CASE ~Bind(r)
  <2>1. UNCHANGED <<config, mask, cpu, my_core, my_socket, sem_name>>
    BY <1>3 DEF Act, Open, Split, BindFails, Lock, Unlock, Govern, ShiftSocket, ShiftSocketDone,
       ShiftFastest, Start, ShiftOwn, Finalize, PastFinalize, Close, place
  <2> QED
    BY <1>1, <2>1 DEF PlaceInv, split_key, bound, Sockets
<1> QED
  BY <1>2, <1>3

\* A rank is the leader of its socket if none of the socket comes before it.
LEMMA LeaderIsFirst ==
    ASSUME IsFiniteSet(Ranks), NEW r \in Ranks, Moves(r), pc[r] = "split"
    PROVE  socket_rank'[r] = 0 <=> \A q \in comm_socket(r) : ~before(q, r)
<1> DEFINE S == {q \in comm_socket(r) : before(q, r)}
<1>1. S \subseteq Ranks
  BY DEF comm_socket
<1>2. IsFiniteSet(S)
  BY <1>1, FS_Subset
<1>3. Cardinality(S) = 0 <=> S = {}
  BY <1>2, FS_EmptySet
<1>4. socket_rank'[r] = Cardinality(S)
  BY DEF Moves
<1>5. S = {} <=> \A q \in comm_socket(r) : ~before(q, r)
  OBVIOUS
<1> QED
  BY <1>3, <1>4, <1>5

LEMMA PhaseStep ==
    ASSUME BoundApart, IInv, config.ok, NEW r \in Ranks, Act(r)
    PROVE  PhaseInv'
<1>1. Frame(r) /\ Moves(r) /\ pc'[r] \in Labels
  BY ActFrame
<1>2. PlaceInv /\ ShapeInv /\ PhaseInv
  BY DEF IInv
<1>3. pc \in [Ranks -> Labels] /\ socket_rank \in [Ranks -> Int]
  BY <1>2 DEF ShapeInv
<1>4. \A q \in Ranks : q # r => pc'[q] = pc[q] /\ socket_rank'[q] = socket_rank[q]
  BY <1>1, <1>3 DEF Frame
<1>5. \A q \in Ranks : comm_socket(q)' = comm_socket(q)
  BY <1>1 DEF Frame, comm_socket
<1>6. \A p, q \in Ranks : before(p, q)' = before(p, q)
  BY PlaceStep DEF before
<1> SUFFICES ASSUME NEW q \in Ranks
             PROVE  /\ pc'[q] = "open" => \A p \in Ranks : pc'[p] \in {"open", "split"}
                    /\ pc'[q] \notin {"open", "split", "killed"} =>
                          (socket_rank'[q] = 0 <=> \A p \in comm_socket(q) : ~before(p, q))
                    /\ pc'[q] \in {"lock", "resize", "govern", "shiftslow", "reset", "shiftfast"}
                          => socket_rank'[q] = 0
                    /\ pc'[q] \in PastB1 =>
                          \A p \in comm_socket(q) : pc'[p] \in {"barrier1"} \cup PastB1
                    /\ pc'[q] \in PastFin =>
                          \A p \in Ranks : pc'[p] \in {"finalize"} \cup PastFin
  BY <1>5, <1>6 DEF PhaseInv, Leader, comm_socket
<1>7. pc'[q] = "open" => \A p \in Ranks : pc'[p] \in {"open", "split"}
  BY <1>1, <1>2, <1>4 DEF PhaseInv, Moves
<1>8. pc'[q] \notin {"open", "split", "killed"} =>
         (socket_rank'[q] = 0 <=> \A p \in comm_socket(q) : ~before(p, q))
  <2>1. CASE q # r
    BY <1>2, <1>4, <2>1 DEF PhaseInv, Leader
  <2>2. CASE q = r /\ pc[r] = "split"
    BY <1>1, <2>2, NodeAssumption, LeaderIsFirst
  <2>3. CASE q = r /\ pc[r] # "split"
    <3>1. socket_rank' = socket_rank
      BY <1>1, <2>3 DEF Frame
    <3> QED
      BY <1>1, <1>2, <2>3, <3>1 DEF PhaseInv, Leader, Moves
  <2> QED
    BY <2>1, <2>2, <2>3
<1>9. pc'[q] \in {"lock", "resize", "govern", "shiftslow", "reset", "shiftfast"}
         => socket_rank'[q] = 0
  <2>1. CASE q # r
    BY <1>2, <1>4, <2>1 DEF PhaseInv, Leader
  <2>2. CASE q = r
    BY <1>1, <1>2, <2>2 DEF PhaseInv, Leader, Moves, Frame
  <2> QED
    BY <2>1, <2>2
<1>10. pc'[q] \in PastB1 => \A p \in comm_socket(q) : pc'[p] \in {"barrier1"} \cup PastB1
  <2> SUFFICES ASSUME pc'[q] \in PastB1, NEW p \in Ranks, sem_name[p] = sem_name[q]
               PROVE  pc'[p] \in {"barrier1"} \cup PastB1
    BY DEF comm_socket
  <2>1. pc[p] \in {"barrier1"} \cup PastB1
    <3>1. CASE pc[q] \in PastB1
      BY <1>2, <3>1 DEF PhaseInv, comm_socket
    <3>2. CASE pc[q] \notin PastB1
      <4>1. q = r /\ pc[r] = "barrier1" /\ PastBarrier1(r)
        BY <1>1, <1>4, <3>2 DEF Moves, PastB1, PastFin
      <4> QED
        BY <4>1 DEF PastBarrier1, Barrier, comm_socket, PastB1, PastFin
    <3> QED
      BY <3>1, <3>2
  <2> QED
    BY <1>1, <1>4, <2>1 DEF Moves, PastB1, PastFin
<1>11. pc'[q] \in PastFin => \A p \in Ranks : pc'[p] \in {"finalize"} \cup PastFin
  <2> SUFFICES ASSUME pc'[q] \in PastFin, NEW p \in Ranks
               PROVE  pc'[p] \in {"finalize"} \cup PastFin
    OBVIOUS
  <2>1. pc[p] \in {"finalize"} \cup PastFin
    <3>1. CASE pc[q] \in PastFin
      BY <1>2, <3>1 DEF PhaseInv
    <3>2. CASE pc[q] \notin PastFin
      <4>1. FinalizeBarrier
        BY <1>1, <1>4, <3>2 DEF Moves, PastFin
      <4> QED
        BY <4>1 DEF FinalizeBarrier, Barrier, PastFin
    <3> QED
      BY <3>1, <3>2
  <2>2. q # r => pc'[q] = pc[q]
    BY <1>4
  <2>3. p = r /\ pc[p] = "finalize" => pc'[p] \in {"reset", "teardown"}
    BY <1>1 DEF Moves
  <2> QED
    BY <1>1, <1>4, <2>1 DEF Moves, PastFin
<1> QED
  BY <1>7, <1>8, <1>9, <1>10, <1>11


-----------------------------------------------------------------------------
(* The semaphores.                                                         *)

LEMMA SemStep ==
    ASSUME NEW r \in Ranks, Act(r)
    PROVE  \/ sem' = sem /\ pc[r] \notin {"lock", "teardown", "resize", "unlink"}
           \/ pc[r] = "open" /\ sem' = [sem EXCEPT ![sem_name[r]] = 1]
           \/ /\ pc[r] \in {"lock", "teardown"} /\ sem[sem_name[r]] > 0
              /\ sem' = [sem EXCEPT ![sem_name[r]] = @ - 1]
           \/ pc[r] \in {"resize", "unlink"} /\ sem' = [sem EXCEPT ![sem_name[r]] = @ + 1]
<1> QED
  BY DEF Act, Open, Split, Bind, BindFails, Lock, Unlock, Govern, ShiftSocket, ShiftSocketDone,
     ShiftFastest, Start, ShiftOwn, Finalize, PastFinalize, Close, sems

LEMMA LockStep ==
    ASSUME BoundApart, IInv, config.ok, NEW r \in Ranks, Act(r)
    PROVE  LockInv' /\ sem' \in [Sockets -> {0, 1}]
<1>1. Frame(r) /\ Moves(r) /\ pc'[r] \in Labels
  BY ActFrame
<1>2. PlaceInv /\ ShapeInv /\ PhaseInv /\ LockInv
  BY DEF IInv
<1>3. /\ pc \in [Ranks -> Labels] /\ socket_rank \in [Ranks -> Int]
      /\ sem \in [Sockets -> {0, 1}] /\ sem_name \in [Ranks -> Sockets]
  BY <1>2 DEF ShapeInv, PlaceInv
<1>4. \A q \in Ranks : q # r => pc'[q] = pc[q] /\ socket_rank'[q] = socket_rank[q]
  BY <1>1, <1>3 DEF Frame
<1>5. sem_name' = sem_name
  BY <1>1 DEF Frame
<1> DEFINE s == sem_name[r]
           Inside(q) == pc[q] \in {"resize", "unlink"}
<1>6. s \in Sockets
  BY <1>3
<1>7. \A q \in Ranks : Inside(q) =>
         /\ sem[sem_name[q]] = 0
         /\ \A p \in Ranks : p # q /\ Inside(p) => sem_name[p] # sem_name[q]
  BY <1>2 DEF LockInv, comm_socket
<1>8. /\ sem'[s] \in {0, 1} /\ sem' \in [Sockets -> {0, 1}]
      /\ \A t \in Sockets : t # s => sem'[t] = sem[t]
  <2>1. pc[r] \in {"resize", "unlink"} => sem[s] = 0
    BY <1>7
  <2>2. sem[s] \in {0, 1}
    BY <1>3, <1>6
  <2>3. sem' = sem \/ \E v \in {0, 1} : sem' = [sem EXCEPT ![s] = v]
    BY <2>1, <2>2, SemStep
  <2> HIDE DEF s
  <2> QED
    BY <1>3, <1>6, <2>3
<1>9. /\ pc[r] \in {"lock", "teardown"} => sem[s] = 1 /\ sem'[s] = 0
      /\ pc[r] \in {"resize", "unlink"} => sem[s] = 0 /\ sem'[s] = 1
      /\ pc[r] \notin {"lock", "teardown", "resize", "unlink"} => sem'[s] \in {sem[s], 1}
      /\ pc[r] \notin {"lock", "teardown", "resize", "unlink", "open"} => sem' = sem
  <2>1. pc[r] \in {"resize", "unlink"} => sem[s] = 0
    BY <1>7
  <2>2. sem[s] \in {0, 1}
    BY <1>3, <1>6
  <2> HIDE DEF s
  <2> QED
    BY <1>3, <1>6, <2>1, <2>2, SemStep DEF s
<1> HIDE DEF s
<1> SUFFICES ASSUME NEW q \in Ranks
             PROVE  /\ pc'[q] \in {"resize", "unlink"} =>
                          /\ sem'[sem_name[q]] = 0
                          /\ \A p \in Ranks : sem_name[p] = sem_name[q] /\ p # q
                                => pc'[p] \notin {"resize", "unlink"}
                    /\ Lost(sem_name[q])' =>
                          /\ pc'[q] \in {"open", "split", "bind", "abort", "lock", "barrier1", "killed"}
                          /\ pc'[q] = "barrier1" => socket_rank'[q] # 0
  BY <1>5, <1>8 DEF LockInv, comm_socket, Leader
<1>10. ASSUME pc'[q] \in {"resize", "unlink"}
       PROVE  /\ sem'[sem_name[q]] = 0
              /\ \A p \in Ranks : sem_name[p] = sem_name[q] /\ p # q
                    => pc'[p] \notin {"resize", "unlink"}
  <2>1. CASE q = r
    <3>1. pc[r] \in {"lock", "teardown"}
      BY <1>1, <1>10, <2>1 DEF Moves
    <3> QED
      BY <1>4, <1>7, <1>9, <2>1, <3>1 DEF s
  <2>2. CASE q # r
    <3>1. Inside(q) /\ sem[sem_name[q]] = 0
      BY <1>4, <1>7, <1>10, <2>2
    <3>2. pc[r] # "open"
      BY <1>2, <3>1 DEF PhaseInv
    <3>3. sem_name[q] = s => pc[r] \notin {"lock", "teardown", "resize", "unlink"}
      BY <1>7, <1>9, <2>2, <3>1 DEF s
    <3>4. sem'[sem_name[q]] = 0
      BY <1>3, <1>8, <1>9, <3>1, <3>2, <3>3
    <3>5. sem_name[q] = s => pc'[r] \notin {"resize", "unlink"}
      BY <1>1, <3>3 DEF Moves
    <3> QED
      BY <1>4, <1>7, <3>1, <3>4, <3>5 DEF s
  <2> QED
    BY <2>1, <2>2
<1>11. ASSUME Lost(sem_name[q])'
       PROVE  /\ pc'[q] \in {"open", "split", "bind", "abort", "lock", "barrier1", "killed"}
              /\ pc'[q] = "barrier1" => socket_rank'[q] # 0
  <2>1. /\ sem'[sem_name[q]] = 0
        /\ \A p \in Ranks : sem_name[p] = sem_name[q] => pc'[p] \notin {"resize", "unlink"}
    BY <1>5, <1>11 DEF Lost
  <2>2. Lost(sem_name[q])
    <3>1. CASE sem_name[q] # s
      BY <1>3, <1>4, <1>8, <2>1, <3>1 DEF Lost, s
    <3>2. CASE sem_name[q] = s
      <4>1. pc[r] \notin {"resize", "unlink"}
        BY <1>9, <2>1, <3>2
      <4>2. pc[r] \notin {"lock", "teardown"}
        BY <1>1, <2>1, <3>2 DEF Moves, s
      <4>3. sem[s] = 0
        BY <1>9, <2>1, <3>2, <4>1, <4>2
      <4>4. \A p \in Ranks : sem_name[p] = s => pc[p] \notin {"resize", "unlink"}
        BY <1>4, <2>1, <3>2, <4>1
      <4> QED
        BY <3>2, <4>3, <4>4 DEF Lost
    <3> QED
      BY <3>1, <3>2
  <2>3. /\ pc[q] \in {"open", "split", "bind", "abort", "lock", "barrier1", "killed"}
        /\ pc[q] = "barrier1" => socket_rank[q] # 0
    BY <1>2, <2>2 DEF LockInv, Leader
  <2>4. CASE q # r
    BY <1>4, <2>3, <2>4
  <2>5. CASE q = r
    <3>1. pc[r] # "lock"
      BY <1>1, <2>1, <2>5 DEF Moves
    <3>2. CASE pc[r] = "barrier1"
      <4>1. PastBarrier1(r)
        BY <1>1, <3>2 DEF Moves
      <4>2. config \in {parse_proc_cpuinfo(listing) : listing \in CpuInfos}
        BY DEF IInv
      <4>3. my_core \in [Ranks -> Nat]
        BY <1>2, <4>2, Topology DEF PlaceInv
      <4>4. PICK l \in comm_socket(r) : \A p \in comm_socket(l) : ~before(p, l)
        BY <4>3, SomeLeader
      <4>5. l \in Ranks /\ sem_name[l] = sem_name[q] /\ pc[l] \in {"barrier1"} \cup PastB1
        BY <2>5, <4>1 DEF PastBarrier1, Barrier, comm_socket, PastB1, PastFin
      <4>6. Leader(l)
        BY <1>2, <4>4, <4>5 DEF PhaseInv, PastB1, PastFin
      <4>7. /\ pc[l] \in {"open", "split", "bind", "abort", "lock", "barrier1", "killed"}
            /\ pc[l] = "barrier1" => ~Leader(l)
        BY <1>2, <2>2, <4>5 DEF LockInv
      <4> QED
        BY <4>5, <4>6, <4>7 DEF PastB1, PastFin
    <3>3. CASE pc[r] # "barrier1"
      <4>1. pc[r] = "bind" => socket_rank' = socket_rank
        BY <1>1 DEF Frame
      <4> QED
        BY <1>1, <2>3, <2>5, <3>1, <3>3, <4>1 DEF Moves, Leader
    <3> QED
      BY <3>2, <3>3
  <2> QED
    BY <2>4, <2>5
<1> QED
  BY <1>10, <1>11


-----------------------------------------------------------------------------
(* The gears.                                                              *)

\* A step writes no gear, or the gear of the rank's own core, or that of one of
\* the cores that a leader has still to do.
Rests(r) ==
    /\ UNCHANGED <<gear, prev_freq_idx>>
    /\ pc[r] \notin {"barrier1", "barrier2"}
    /\ todo'[r] = IF pc[r] \in {"govern", "reset"} THEN CoresOn(my_socket[r]) ELSE todo[r]
    /\ pc[r] \in {"shiftslow", "shiftfast"} => pc'[r] # pc[r] /\ todo[r] = {}

WritesOwn(r, g) ==
    /\ pc[r] \in {"barrier1", "barrier2", "running"} /\ pc'[r] \in {"barrier2", "running"}
    /\ gear' = [gear EXCEPT ![my_core[r]] = g]
    /\ prev_freq_idx' = [prev_freq_idx EXCEPT ![r] = g]
    /\ todo' = todo

WritesNext(r, c, g) ==
    /\ pc[r] \in {"shiftslow", "shiftfast"} /\ pc' = pc
    /\ c \in todo[r] /\ todo'[r] = todo[r] \ {c}
    /\ g = IF pc[r] = "shiftslow" THEN Slowest ELSE Fastest
    /\ gear' = [gear EXCEPT ![c] = g]
    /\ prev_freq_idx' = IF c = my_core[r] THEN [prev_freq_idx EXCEPT ![r] = g] ELSE prev_freq_idx

\* The cache skips a write only where the core is in that gear already.
LEMMA CacheIsTrue ==
    ASSUME IInv, config.ok, NEW r \in Ranks, NEW c \in config.cores, NEW g \in Gears,
           pc[r] \in {"barrier1", "barrier2", "running", "shiftslow", "shiftfast"},
           shift_core(r, c, g)
    PROVE  /\ gear' = [gear EXCEPT ![c] = g]
           /\ prev_freq_idx' = IF c = my_core[r] THEN [prev_freq_idx EXCEPT ![r] = g]
                               ELSE prev_freq_idx
<1>1. PlaceInv /\ ShapeInv /\ PhaseInv /\ GearInv
  BY DEF IInv
<1>2. Undisturbed(r)
  BY <1>1 DEF PhaseInv, Undisturbed
<1>3. g # -1 /\ gear \in [config.cores -> Gears]
  BY <1>1, NodeAssumption DEF Gears, ShapeInv
<1>4. c = my_core[r] /\ g = prev_freq_idx[r] => gear[c] = g
  BY <1>1, <1>2, <1>3 DEF GearInv
<1> QED
  BY <1>3, <1>4 DEF shift_core

LEMMA Writes ==
    ASSUME BoundApart, IInv, config.ok, NEW r \in Ranks, Act(r)
    PROVE  \/ Rests(r)
           \/ \E g \in Gears : WritesOwn(r, g)
           \/ \E c \in config.cores, g \in Gears : WritesNext(r, c, g)
<1>1. PlaceInv /\ ShapeInv /\ config \in {parse_proc_cpuinfo(listing) : listing \in CpuInfos}
  BY DEF IInv
<1>2. /\ pc \in [Ranks -> Labels] /\ my_core[r] \in config.cores
      /\ todo \in [Ranks -> SUBSET config.cores] /\ config.cores \subseteq Nat
      /\ Fastest \in Gears /\ Slowest \in Gears
  BY <1>1, Topology, NodeAssumption DEF PlaceInv, ShapeInv, Gears
<1>3. CASE Open(r) \/ Split(r) \/ BindFails(r) \/ Finalize(r) \/ Close(r)
  BY <1>2, <1>3 DEF Open, Split, BindFails, Finalize, Close, Rests, place, shift, sems
<1>4. CASE Bind(r)
  BY <1>4 DEF Bind, Rests, shift
<1>5. CASE PastFinalize(r)
  BY <1>5 DEF PastFinalize, Rests, shift
<1>6. CASE Lock(r, "lock", "resize") \/ Lock(r, "teardown", "unlink")
  BY <1>6 DEF Lock, Rests, shift
<1>7. CASE Unlock(r, "resize", "govern") \/ Unlock(r, "unlink", "close")
  BY <1>7 DEF Unlock, Rests, shift
<1>8. CASE Govern(r, "govern", "shiftslow") \/ Govern(r, "reset", "shiftfast")
  BY <1>2, <1>8 DEF Govern, Rests
<1>9. CASE ShiftSocketDone(r, "shiftslow", "barrier1") \/ ShiftSocketDone(r, "shiftfast", "teardown")
  BY <1>2, <1>9 DEF ShiftSocketDone, Rests, Goto, shift
<1>10. CASE ShiftFastest(r)
  <2>1. /\ gear' = [gear EXCEPT ![my_core[r]] = Fastest]
        /\ prev_freq_idx' = [prev_freq_idx EXCEPT ![r] = Fastest]
    BY <1>2, <1>10, CacheIsTrue DEF ShiftFastest
  <2>2. pc[r] = "barrier1" /\ pc'[r] = "barrier2" /\ todo' = todo
    BY <1>2, <1>10 DEF ShiftFastest, Goto
  <2> QED
    BY <1>2, <2>1, <2>2 DEF WritesOwn
<1>11. CASE Start(r)
  <2>1. /\ gear' = [gear EXCEPT ![my_core[r]] = Fastest]
        /\ prev_freq_idx' = [prev_freq_idx EXCEPT ![r] = Fastest]
    BY <1>2, <1>11, CacheIsTrue DEF Start
  <2>2. pc[r] = "barrier2" /\ pc'[r] = "running" /\ todo' = todo
    BY <1>2, <1>11 DEF Start, Goto
  <2> QED
    BY <1>2, <2>1, <2>2 DEF WritesOwn
<1>12. CASE ShiftOwn(r)
  <2>1. PICK g \in Gears : shift_core(r, my_core[r], g)
    BY <1>12 DEF ShiftOwn
  <2>2. /\ gear' = [gear EXCEPT ![my_core[r]] = g]
        /\ prev_freq_idx' = [prev_freq_idx EXCEPT ![r] = g]
    BY <1>2, <1>12, <2>1, CacheIsTrue DEF ShiftOwn
  <2>3. pc[r] = "running" /\ pc'[r] = "running" /\ todo' = todo
    BY <1>12 DEF ShiftOwn
  <2> QED
    BY <2>2, <2>3 DEF WritesOwn
<1>13. CASE ShiftSocket(r, "shiftslow", Slowest) \/ ShiftSocket(r, "shiftfast", Fastest)
  <2> DEFINE g == IF pc[r] = "shiftslow" THEN Slowest ELSE Fastest
             c == Min(todo[r])
  <2>1. /\ pc[r] \in {"shiftslow", "shiftfast"} /\ pc' = pc /\ todo[r] # {}
        /\ shift_core(r, c, g)
        /\ todo' = [todo EXCEPT ![r] = todo[r] \ {c}]
    BY <1>13 DEF ShiftSocket
  <2>2. todo[r] \in SUBSET Nat /\ todo[r] \subseteq config.cores /\ g \in Gears
    BY <1>2
  <2>3. c \in todo[r] /\ c \in config.cores
    BY <2>1, <2>2, LeastOf
  <2> HIDE DEF c, g
  <2>4. todo'[r] = todo[r] \ {c}
    BY <1>2, <2>1
  <2>5. /\ gear' = [gear EXCEPT ![c] = g]
        /\ prev_freq_idx' = IF c = my_core[r] THEN [prev_freq_idx EXCEPT ![r] = g]
                            ELSE prev_freq_idx
    BY <2>1, <2>2, <2>3, CacheIsTrue
  <2>6. WritesNext(r, c, g)
    BY <2>1, <2>3, <2>4, <2>5 DEF WritesNext, g
  <2> QED
    BY <2>2, <2>3, <2>6
<1> QED
  BY <1>3, <1>4, <1>5, <1>6, <1>7, <1>8, <1>9, <1>10, <1>11, <1>12, <1>13 DEF Act


LEMMA ShapeStep ==
    ASSUME BoundApart, IInv, config.ok, NEW r \in Ranks, Act(r)
    PROVE  ShapeInv'
<1>1. PlaceInv /\ ShapeInv /\ config \in {parse_proc_cpuinfo(listing) : listing \in CpuInfos}
  BY DEF IInv
<1>2. Frame(r) /\ Moves(r) /\ pc'[r] \in Labels
  BY ActFrame
<1>3. config' = config /\ Sockets' = Sockets /\ sem' \in [Sockets -> {0, 1}]
  BY <1>2, LockStep DEF Frame, Sockets
<1>4. pc' \in [Ranks -> Labels]
  BY <1>1, <1>2 DEF Frame, ShapeInv
<1>5. socket_rank' \in [Ranks -> Int]
  <2>1. CASE pc[r] = "split"
    <3>1. {q \in comm_socket(r) : before(q, r)} \subseteq Ranks
      BY DEF comm_socket
    <3>2. Cardinality({q \in comm_socket(r) : before(q, r)}) \in Nat
      BY <3>1, NodeAssumption, FS_Subset, FS_CardinalityType
    <3>3. socket_rank'[r] \in Int
      BY <1>2, <2>1, <3>2 DEF Moves
    <3> QED
      BY <1>1, <1>2, <3>3 DEF Frame, ShapeInv
  <2>2. CASE pc[r] # "split"
    BY <1>1, <1>2, <2>2 DEF Frame, ShapeInv
  <2> QED
    BY <2>1, <2>2
<1>6. CoresOn(my_socket[r]) \subseteq config.cores /\ my_core[r] \in config.cores
  BY <1>1, Topology DEF PlaceInv
<1>7. todo[r] \subseteq config.cores
  BY <1>1 DEF ShapeInv
<1>8. /\ todo'[r] \subseteq config.cores
      /\ prev_freq_idx' \in [Ranks -> Gears \cup {-1}]
      /\ gear' \in [config.cores -> Gears]
  <2>1. CASE Rests(r)
    BY <1>1, <1>6, <1>7, <2>1 DEF ShapeInv, Rests
  <2>2. CASE \E g \in Gears : WritesOwn(r, g)
    BY <1>1, <1>6, <1>7, <2>2 DEF ShapeInv, WritesOwn
  <2>3. CASE \E c \in config.cores, g \in Gears : WritesNext(r, c, g)
    BY <1>1, <1>6, <1>7, <2>3 DEF ShapeInv, WritesNext
  <2> QED
    BY <2>1, <2>2, <2>3, Writes
<1>9. todo' \in [Ranks -> SUBSET config.cores]
  BY <1>1, <1>2, <1>8 DEF Frame, ShapeInv
<1> QED
  BY <1>3, <1>4, <1>5, <1>8, <1>9 DEF ShapeInv

\* Two ranks of a socket that are both its leader are one.
LEMMA SameLeader ==
    ASSUME BoundApart, IInv, config.ok, NEW q \in Ranks, NEW r \in Ranks,
           Leader(q), Leader(r), my_socket[q] = my_socket[r],
           pc[q] \notin {"open", "split", "killed"}, pc[r] \notin {"open", "split", "killed"}
    PROVE  q = r
<1>1. PlaceInv /\ PhaseInv /\ config \in {parse_proc_cpuinfo(listing) : listing \in CpuInfos}
  BY DEF IInv
<1>2. my_core \in [Ranks -> Nat]
  BY <1>1, Topology DEF PlaceInv
<1>3. sem_name[q] = sem_name[r]
  BY <1>1 DEF PlaceInv
<1>4. /\ \A p \in comm_socket(q) : ~before(p, q)
      /\ \A p \in comm_socket(r) : ~before(p, r)
  BY <1>1 DEF PhaseInv
<1> QED
  BY <1>2, <1>3, <1>4, OneLeader

\* Each rank has its core to itself, and a leader's loop stays on its socket.
LEMMA Apart ==
    ASSUME BoundApart, IInv, config.ok, NEW q \in Ranks, NEW r \in Ranks
    PROVE  /\ q # r => my_core[q] # my_core[r]
           /\ my_core[q] \in config.cores
           /\ \A c \in CoresOn(my_socket[r]) :
                 /\ c = my_core[q] => my_socket[q] = my_socket[r]
                 /\ c \in CoresOn(my_socket[q]) => my_socket[q] = my_socket[r]
           /\ pc[r] \in {"shiftslow", "shiftfast"} =>
                 Leader(r) /\ todo[r] \subseteq CoresOn(my_socket[r])
           /\ my_socket[q] = my_socket[r] <=> q \in comm_socket(r)
<1>1. /\ PlaceInv /\ PhaseInv /\ SocketInv
      /\ config \in {parse_proc_cpuinfo(listing) : listing \in CpuInfos}
  BY DEF IInv
<1>2. /\ \A p, l \in Ranks : p # l => mask[p] \cap mask[l] = {}
      /\ \A s \in Sockets : \A c \in CoresOn(s) : config.map_core_to_socket[c] = s
  BY <1>1, Topology DEF PlaceInv
<1>3. /\ my_core[q] \in mask[q] /\ my_core[r] \in mask[r]
      /\ my_core[q] \in config.cores
      /\ my_socket[q] = config.map_core_to_socket[my_core[q]]
      /\ my_socket[q] \in Sockets /\ my_socket[r] \in Sockets
      /\ sem_name = my_socket
  BY <1>1 DEF PlaceInv
<1>4. q # r => my_core[q] # my_core[r]
  BY <1>2, <1>3
<1>5. \A c \in CoresOn(my_socket[r]) :
         /\ c = my_core[q] => my_socket[q] = my_socket[r]
         /\ c \in CoresOn(my_socket[q]) => my_socket[q] = my_socket[r]
  BY <1>2, <1>3
<1>6. pc[r] \in {"shiftslow", "shiftfast"} =>
         Leader(r) /\ todo[r] \subseteq CoresOn(my_socket[r])
  BY <1>1 DEF PhaseInv, SocketInv
<1>7. my_socket[q] = my_socket[r] <=> q \in comm_socket(r)
  BY <1>3 DEF comm_socket
<1> QED
  BY <1>3, <1>4, <1>5, <1>6, <1>7

\* While a leader is in one of its loops no other rank of its socket counts on
\* the gear it is in: before the first barrier none has set one, after that of
\* MPI_Finalize none cares.
LEMMA LoopDisturbsNobody ==
    ASSUME BoundApart, IInv, config.ok, NEW q \in Ranks, NEW r \in Ranks, q # r,
           pc[r] \in {"shiftslow", "shiftfast"}, my_socket[q] = my_socket[r],
           Undisturbed(q)
    PROVE  prev_freq_idx[q] = -1
<1>1. PhaseInv /\ GearInv
  BY DEF IInv
<1>2. Leader(r) /\ q \in comm_socket(r) /\ r \in comm_socket(q)
  BY Apart
<1>3. ~Leader(q)
  BY <1>2, SameLeader DEF Undisturbed
<1>4. pc[q] \in {"barrier1", "barrier2", "running"}
  BY <1>1, <1>3 DEF Undisturbed, PhaseInv
<1>5. pc[q] = "barrier1"
  <2>1. CASE pc[r] = "shiftslow"
    BY <1>1, <1>2, <1>4, <2>1 DEF PhaseInv, PastB1, PastFin
  <2>2. CASE pc[r] = "shiftfast"
    BY <1>1, <1>4, <2>2 DEF PhaseInv, PastFin
  <2> QED
    BY <2>1, <2>2
<1> QED
  BY <1>1, <1>3, <1>5 DEF GearInv, Fresh


LEMMA GearStep ==
    ASSUME BoundApart, IInv, config.ok, NEW r \in Ranks, Act(r)
    PROVE  GearInv'
<1>1. PlaceInv /\ ShapeInv /\ PhaseInv /\ GearInv
  BY DEF IInv
<1>2. Frame(r) /\ Moves(r) /\ pc'[r] \in Labels
  BY ActFrame
<1>3. /\ pc \in [Ranks -> Labels] /\ socket_rank \in [Ranks -> Int]
      /\ my_core \in [Ranks -> config.cores] /\ gear \in [config.cores -> Gears]
      /\ prev_freq_idx \in [Ranks -> Gears \cup {-1}]
  BY <1>1 DEF PlaceInv, ShapeInv
<1>4. /\ \A q \in Ranks : q # r =>
            /\ pc'[q] = pc[q] /\ socket_rank'[q] = socket_rank[q]
            /\ my_core'[q] = my_core[q] /\ prev_freq_idx'[q] = prev_freq_idx[q]
      /\ pc[r] # "split" => socket_rank'[r] = socket_rank[r]
      /\ pc[r] # "bind" => my_core'[r] = my_core[r]
  BY <1>2, <1>3 DEF Frame
<1>5. \A g \in Gears : g # -1
  BY NodeAssumption DEF Gears
<1> SUFFICES ASSUME NEW q \in Ranks
             PROVE  /\ Fresh(q)' => prev_freq_idx'[q] = -1
                    /\ pc'[q] \in {"barrier2", "running"} => prev_freq_idx'[q] # -1
                    /\ Undisturbed(q)' /\ prev_freq_idx'[q] # -1
                          => gear'[my_core'[q]] = prev_freq_idx'[q]
  BY DEF GearInv
<1>6. /\ Fresh(q) => prev_freq_idx[q] = -1
      /\ pc[q] \in {"barrier2", "running"} => prev_freq_idx[q] # -1
      /\ Undisturbed(q) /\ prev_freq_idx[q] # -1 => gear[my_core[q]] = prev_freq_idx[q]
  BY <1>1 DEF GearInv
<1>7. CASE q # r
  <2>1. (Undisturbed(q)' <=> Undisturbed(q)) /\ (Fresh(q)' <=> Fresh(q))
    BY <1>4, <1>7 DEF Undisturbed, Fresh, Leader
  <2>2. Undisturbed(q) /\ prev_freq_idx[q] # -1 => gear'[my_core[q]] = gear[my_core[q]]
    <3> SUFFICES ASSUME Undisturbed(q), prev_freq_idx[q] # -1
                 PROVE  gear'[my_core[q]] = gear[my_core[q]]
      OBVIOUS
    <3>1. CASE Rests(r)
      BY <3>1 DEF Rests
    <3>2. CASE \E g \in Gears : WritesOwn(r, g)
      BY <1>3, <1>7, <3>2, Apart DEF WritesOwn
    <3>3. CASE \E c \in config.cores, g \in Gears : WritesNext(r, c, g)
      <4>1. PICK c \in config.cores : \E g \in Gears : WritesNext(r, c, g)
        BY <3>3
      <4>2. pc[r] \in {"shiftslow", "shiftfast"} /\ c \in CoresOn(my_socket[r])
        BY <4>1, Apart DEF WritesNext
      <4>3. c # my_core[q]
        BY <1>7, <4>2, Apart, LoopDisturbsNobody
      <4> QED
        BY <1>3, <4>1, <4>3 DEF WritesNext
    <3> QED
      BY <3>1, <3>2, <3>3, Writes
  <2> QED
    BY <1>4, <1>6, <1>7, <2>1, <2>2
<1>8. CASE q = r
  <2>1. CASE Rests(r)
    <3>1. gear' = gear /\ prev_freq_idx' = prev_freq_idx /\ pc[r] \notin {"barrier1", "barrier2"}
      BY <2>1 DEF Rests
    <3>2. pc[r] = "shiftslow" => Leader(r)
      BY <1>1 DEF PhaseInv
    <3>3. Undisturbed(r)' => Undisturbed(r) \/ Fresh(r)
      BY <1>2, <1>4, <3>1 DEF Moves, Undisturbed, Fresh, Leader
    <3>4. Undisturbed(r)' => my_core'[r] = my_core[r] \/ Fresh(r)
      BY <1>4 DEF Fresh
    <3>5. Fresh(r)' => Fresh(r)
      BY <1>2, <1>4, <3>1, <3>2 DEF Moves, Fresh, Leader
    <3>6. pc'[r] \in {"barrier2", "running"} => prev_freq_idx[r] # -1
      BY <1>2, <1>6, <1>8, <3>1 DEF Moves
    <3> QED
      BY <1>6, <1>8, <3>1, <3>3, <3>4, <3>5, <3>6
  <2>2. CASE \E g \in Gears : WritesOwn(r, g)
    <3>1. PICK g \in Gears : WritesOwn(r, g)
      BY <2>2
    <3>2. prev_freq_idx'[r] = g /\ gear'[my_core[r]] = g /\ my_core'[r] = my_core[r]
          /\ pc'[r] \in {"barrier2", "running"}
      BY <1>3, <1>4, <3>1 DEF WritesOwn
    <3> QED
      BY <1>5, <1>8, <3>2 DEF Fresh
  <2>3. CASE \E c \in config.cores, g \in Gears : WritesNext(r, c, g)
    <3>1. PICK c \in config.cores : \E g \in Gears : WritesNext(r, c, g)
      BY <2>3
    <3>2. PICK g \in Gears : WritesNext(r, c, g)
      BY <3>1
    <3>3. pc'[r] = pc[r] /\ pc[r] \in {"shiftslow", "shiftfast"} /\ my_core'[r] = my_core[r]
      BY <1>4, <3>2 DEF WritesNext
    <3>4. Undisturbed(r) /\ ~Fresh(r)'
      BY <1>1, <3>3 DEF Undisturbed, Fresh, PhaseInv
    <3>5. CASE c = my_core[r]
      <4>1. prev_freq_idx'[r] = g /\ gear'[my_core[r]] = g
        BY <1>3, <3>2, <3>5 DEF WritesNext
      <4> QED
        BY <1>8, <3>3, <3>4, <4>1
    <3>6. CASE c # my_core[r]
      <4>1. prev_freq_idx' = prev_freq_idx /\ gear'[my_core[r]] = gear[my_core[r]]
        BY <1>3, <3>2, <3>6 DEF WritesNext
      <4> QED
        BY <1>6, <1>8, <3>3, <3>4, <4>1
    <3> QED
      BY <3>5, <3>6
  <2> QED
    BY <2>1, <2>2, <2>3, Writes
<1> QED
  BY <1>7, <1>8


\* A step of another rank to core c of a leader's socket is a write to its own.
LEMMA OthersWriteTheirOwn ==
    ASSUME BoundApart, IInv, config.ok, NEW q \in Ranks, NEW r \in Ranks, q # r, Act(r),
           Leader(q), pc[q] \notin {"open", "split", "killed"},
           NEW c \in CoresOn(my_socket[q]), gear'[c] # gear[c]
    PROVE  /\ pc[r] \in {"barrier1", "barrier2", "running"} /\ pc'[r] \in {"barrier2", "running"}
           /\ my_core[r] = c /\ r \in comm_socket(q)
<1>1. ShapeInv /\ PhaseInv
  BY DEF IInv
<1>2. gear \in [config.cores -> Gears]
  BY <1>1 DEF ShapeInv
<1>3. ~Rests(r)
  BY DEF Rests
<1>4. CASE \E g \in Gears : WritesOwn(r, g)
  <2>1. /\ pc[r] \in {"barrier1", "barrier2", "running"} /\ pc'[r] \in {"barrier2", "running"}
        /\ my_core[r] = c
    BY <1>2, <1>4, Apart DEF WritesOwn
  <2> QED
    BY <2>1, Apart
<1>5. CASE \E d \in config.cores, g \in Gears : WritesNext(r, d, g)
  <2>1. PICK d \in config.cores : \E g \in Gears : WritesNext(r, d, g)
    BY <1>5
  <2>2. pc[r] \in {"shiftslow", "shiftfast"} /\ d \in todo[r] /\ c = d
    BY <1>2, <2>1 DEF WritesNext
  <2>3. Leader(r) /\ c \in CoresOn(my_socket[r])
    BY <2>2, Apart
  <2>4. my_socket[q] = my_socket[r]
    BY <2>3, Apart
  <2> QED
    BY <2>2, <2>3, <2>4, SameLeader
<1> QED
  BY <1>3, <1>4, <1>5, Writes

LEMMA SocketStep ==
    ASSUME BoundApart, IInv, config.ok, NEW r \in Ranks, Act(r)
    PROVE  SocketInv'
<1>1. PlaceInv /\ ShapeInv /\ PhaseInv /\ SocketInv
  BY DEF IInv
<1>2. Frame(r) /\ Moves(r) /\ pc'[r] \in Labels
  BY ActFrame
<1>3. /\ pc \in [Ranks -> Labels] /\ socket_rank \in [Ranks -> Int]
      /\ my_core \in [Ranks -> config.cores] /\ gear \in [config.cores -> Gears]
      /\ todo \in [Ranks -> SUBSET config.cores]
  BY <1>1 DEF PlaceInv, ShapeInv
<1>4. /\ \A q \in Ranks : q # r =>
            /\ pc'[q] = pc[q] /\ (Leader(q)' <=> Leader(q))
            /\ my_core'[q] = my_core[q] /\ todo'[q] = todo[q]
      /\ pc[r] # "split" => (Leader(r)' <=> Leader(r))
      /\ pc[r] # "bind" => my_core'[r] = my_core[r]
      /\ my_socket' = my_socket
  BY <1>2, <1>3 DEF Frame, Leader
<1>5. /\ \A s : CoresOn(s)' = CoresOn(s)
      /\ \A q \in Ranks : comm_socket(q)' = comm_socket(q)
  BY <1>2 DEF Frame, CoresOn, comm_socket
<1>6. ASSUME NEW q \in Ranks, pc[q] \in PastB1
      PROVE  pc'[q] \in PastB1 /\ my_core'[q] = my_core[q]
  BY <1>2, <1>4, <1>6 DEF Moves, PastB1, PastFin
<1> SUFFICES ASSUME NEW q \in Ranks
             PROVE  /\ pc'[q] \in {"shiftslow", "shiftfast"} => todo'[q] \subseteq CoresOn(my_socket[q])
                    /\ pc'[q] \in {"barrier1", "barrier2", "running"}
                                     \cup (PastFin \ {"reset", "shiftfast"}) =>
                          (Leader(q)' => todo'[q] = {})
                    /\ Leader(q)' /\ pc'[q] \in {"shiftslow", "barrier1", "barrier2", "running"} =>
                          \A c \in CoresOn(my_socket[q]) \ todo'[q] :
                             \/ gear'[c] = Slowest
                             \/ \E p \in comm_socket(q) : pc'[p] \in PastB1 /\ my_core'[p] = c
                    /\ Leader(q)' /\ pc'[q] \in PastFin \ {"reset"} =>
                          \A c \in CoresOn(my_socket[q]) \ todo'[q] : gear'[c] = Fastest
  BY <1>4, <1>5 DEF SocketInv
<1>7. /\ pc[q] \in {"shiftslow", "shiftfast"} => todo[q] \subseteq CoresOn(my_socket[q])
      /\ pc[q] \in {"barrier1", "barrier2", "running"} \cup (PastFin \ {"reset", "shiftfast"}) =>
            (Leader(q) => todo[q] = {})
      /\ Leader(q) /\ pc[q] \in {"shiftslow", "barrier1", "barrier2", "running"} =>
            \A c \in CoresOn(my_socket[q]) \ todo[q] :
               \/ gear[c] = Slowest
               \/ \E p \in comm_socket(q) : pc[p] \in PastB1 /\ my_core[p] = c
      /\ Leader(q) /\ pc[q] \in PastFin \ {"reset"} =>
            \A c \in CoresOn(my_socket[q]) \ todo[q] : gear[c] = Fastest
  BY <1>1 DEF SocketInv
<1>8. \A c : (\E p \in comm_socket(q) : pc[p] \in PastB1 /\ my_core[p] = c)
                => \E p \in comm_socket(q) : pc'[p] \in PastB1 /\ my_core'[p] = c
  BY <1>6 DEF comm_socket
<1>9. CASE q # r
  <2>1. ASSUME Leader(q), pc[q] \in {"shiftslow", "barrier1", "barrier2", "running"},
               NEW c \in CoresOn(my_socket[q]) \ todo[q]
        PROVE  \/ gear'[c] = Slowest
               \/ \E p \in comm_socket(q) : pc'[p] \in PastB1 /\ my_core'[p] = c
    <3>1. CASE gear'[c] = gear[c]
      BY <1>7, <1>8, <2>1, <3>1
    <3>2. CASE gear'[c] # gear[c]
      <4>1. /\ pc[r] \in {"barrier1", "barrier2", "running"} /\ pc'[r] \in {"barrier2", "running"}
            /\ my_core[r] = c /\ r \in comm_socket(q)
        BY <1>9, <2>1, <3>2, OthersWriteTheirOwn
      <4>2. pc'[r] \in PastB1 /\ my_core'[r] = c
        BY <1>4, <4>1 DEF PastB1
      <4> QED
        BY <4>1, <4>2
    <3> QED
      BY <3>1, <3>2
  <2>2. ASSUME Leader(q), pc[q] \in PastFin \ {"reset"},
               NEW c \in CoresOn(my_socket[q]) \ todo[q]
        PROVE  gear'[c] = Fastest
    <3>1. pc[r] \in {"finalize"} \cup PastFin /\ pc[q] \notin {"open", "split", "killed"}
      BY <1>1, <2>2 DEF PhaseInv, PastFin
    <3>2. gear'[c] = gear[c]
      BY <1>9, <2>2, <3>1, OthersWriteTheirOwn DEF PastFin
    <3> QED
      BY <1>7, <2>2, <3>2
  <2> QED
    BY <1>4, <1>7, <1>9, <2>1, <2>2
<1>10. CASE q = r
  <2>1. CASE Rests(r)
    <3>1. gear' = gear /\ pc[r] \notin {"barrier1", "barrier2"}
          /\ (pc[r] \in {"govern", "reset"} => todo'[r] = CoresOn(my_socket[r]))
          /\ (pc[r] \notin {"govern", "reset"} => todo'[r] = todo[r])
          /\ (pc[r] \in {"shiftslow", "shiftfast"} => pc'[r] # pc[r] /\ todo[r] = {})
      BY <2>1 DEF Rests
    <3>2. pc'[r] \in {"shiftslow", "shiftfast"} => todo'[r] = CoresOn(my_socket[r])
      BY <1>2, <3>1 DEF Moves
    <3>3. pc'[r] \in {"barrier1", "barrier2", "running"} \cup (PastFin \ {"reset", "shiftfast"}) =>
             (Leader(r)' => todo'[r] = {})
      BY <1>2, <1>4, <1>7, <1>10, <3>1 DEF Moves, PastFin
    <3>4. Leader(r)' /\ pc'[r] \in {"shiftslow", "barrier1", "barrier2", "running"} =>
             \/ todo'[r] = CoresOn(my_socket[r])
             \/ /\ Leader(r) /\ todo'[r] = todo[r]
                /\ pc[r] \in {"shiftslow", "barrier1", "barrier2", "running"}
      BY <1>2, <1>4, <3>1 DEF Moves
    <3>5. Leader(r)' /\ pc'[r] \in PastFin \ {"reset"} =>
             \/ todo'[r] = CoresOn(my_socket[r])
             \/ Leader(r) /\ todo'[r] = todo[r] /\ pc[r] \in PastFin \ {"reset"}
      BY <1>2, <1>4, <3>1 DEF Moves, PastFin
    <3> QED
      BY <1>7, <1>8, <1>10, <3>1, <3>2, <3>3, <3>4, <3>5
  <2>2. CASE \E g \in Gears : WritesOwn(r, g)
    <3>1. PICK g \in Gears : WritesOwn(r, g)
      BY <2>2
    <3>2. /\ pc[r] \in {"barrier1", "barrier2", "running"} /\ pc'[r] \in {"barrier2", "running"}
          /\ \A c \in config.cores : c # my_core[r] => gear'[c] = gear[c]
          /\ todo'[r] = todo[r] /\ (Leader(r)' <=> Leader(r)) /\ my_core'[r] = my_core[r]
      BY <1>3, <1>4, <3>1 DEF WritesOwn
    <3>3. pc'[r] \in PastB1 /\ r \in comm_socket(r) /\ pc'[r] \notin PastFin
      BY <3>2 DEF PastB1, PastFin, comm_socket
    <3>4. CoresOn(my_socket[r]) \subseteq config.cores
      <4>1. config \in {parse_proc_cpuinfo(listing) : listing \in CpuInfos}
        BY DEF IInv
      <4> QED
        BY <1>1, <4>1, Topology DEF PlaceInv
    <3> QED
      BY <1>7, <1>8, <1>10, <3>2, <3>3, <3>4
  <2>3. CASE \E c \in config.cores, g \in Gears : WritesNext(r, c, g)
    <3>1. PICK c \in config.cores : \E g \in Gears : WritesNext(r, c, g)
      BY <2>3
    <3>2. /\ pc[r] \in {"shiftslow", "shiftfast"} /\ pc'[r] = pc[r]
          /\ todo'[r] = todo[r] \ {c}
          /\ gear'[c] = (IF pc[r] = "shiftslow" THEN Slowest ELSE Fastest)
          /\ \A d \in config.cores : d # c => gear'[d] = gear[d]
          /\ (Leader(r)' <=> Leader(r))
      BY <1>3, <1>4, <3>1 DEF WritesNext
    <3>3. CoresOn(my_socket[r]) \subseteq config.cores
      <4>1. config \in {parse_proc_cpuinfo(listing) : listing \in CpuInfos}
        BY DEF IInv
      <4> QED
        BY <1>1, <4>1, Topology DEF PlaceInv
    <3>4. CASE pc[r] = "shiftslow"
      BY <1>7, <1>8, <1>10, <3>2, <3>3, <3>4 DEF PastFin
    <3>5. CASE pc[r] = "shiftfast"
      BY <1>7, <1>10, <3>2, <3>3, <3>5 DEF PastFin
    <3> QED
      BY <3>2, <3>4, <3>5
  <2> QED
    BY <2>1, <2>2, <2>3, Writes
<1> QED
  BY <1>9, <1>10


-----------------------------------------------------------------------------
(* The invariant, and what follows from it.                                *)

LEMMA StepIInv == ASSUME BoundApart, IInv, [Next]_vars PROVE IInv'
<1>1. CASE \E r \in Ranks : Act(r)
  <2>1. PICK r \in Ranks : Act(r)
    BY <1>1
  <2>2. CASE config.ok
    <3>1. Frame(r)
      BY <2>1, <2>2, ActFrame
    <3>2. (PlaceInv /\ ShapeInv /\ PhaseInv /\ LockInv /\ GearInv /\ SocketInv)'
      BY <2>1, <2>2, PlaceStep, ShapeStep, PhaseStep, LockStep, GearStep, SocketStep
    <3> QED
      BY <2>2, <3>1, <3>2 DEF IInv, Frame
  <2>3. CASE ~config.ok
    <3>1. pc[r] \in {"abort", "killed"}
      BY <2>3 DEF IInv
    <3> QED
      BY <2>1, <3>1 DEF Act, Open, Split, Bind, BindFails, Lock, Unlock, Govern, ShiftSocket,
         ShiftSocketDone, ShiftFastest, Start, ShiftOwn, Finalize, PastFinalize, Close
  <2> QED
    BY <2>2, <2>3
<1>2. CASE End
  BY <1>2, EndIInv
<1>3. CASE UNCHANGED vars
  <2>1. UNCHANGED <<config, pc, mask, cpu, my_core, my_socket, socket_rank, sem_name, todo,
                    prev_freq_idx, gear, sem>>
    BY <1>3 DEF vars, place, shift, sems
  <2>2. PlaceInv => PlaceInv'
    BY <2>1 DEF PlaceInv, Sockets
  <2>3. ShapeInv => ShapeInv'
    BY <2>1 DEF ShapeInv, Sockets
  <2>4. PhaseInv => PhaseInv'
    BY <2>1 DEF PhaseInv, Leader, comm_socket, before, split_key, bound
  <2>5. LockInv => LockInv'
    BY <2>1 DEF LockInv, Lost, Leader, comm_socket
  <2>6. GearInv => GearInv'
    BY <2>1 DEF GearInv, Fresh, Undisturbed, Leader
  <2>7. SocketInv => SocketInv'
    BY <2>1 DEF SocketInv, CoresOn, comm_socket, Leader
  <2> QED
    BY <2>1, <2>2, <2>3, <2>4, <2>5, <2>6, <2>7 DEF IInv
<1> QED
  BY <1>1, <1>2, <1>3, NextCases

LEMMA Inductive == ASSUME BoundApart PROVE Spec => []IInv
<1>1. Init => IInv
  BY InitIInv
<1>2. IInv /\ [Next]_vars => IInv'
  BY StepIInv
<1> QED
  BY <1>1, <1>2, PTL DEF Spec

\* A socket with ranks past the splits has a leader, whom its ranks know.
LEMMA HasLeader ==
    ASSUME BoundApart, IInv, config.ok, NEW r \in Ranks,
           \A q \in Ranks : pc[q] \notin {"open", "split", "killed"}
    PROVE  \E l \in Ranks : Leader(l) /\ my_socket[l] = my_socket[r]
<1>1. PlaceInv /\ PhaseInv /\ config \in {parse_proc_cpuinfo(listing) : listing \in CpuInfos}
  BY DEF IInv
<1>2. my_core \in [Ranks -> Nat]
  BY <1>1, Topology DEF PlaceInv
<1>3. PICK l \in comm_socket(r) : \A p \in comm_socket(l) : ~before(p, l)
  BY <1>2, SomeLeader
<1>4. l \in Ranks /\ my_socket[l] = my_socket[r]
  BY <1>1, <1>3 DEF PlaceInv, comm_socket
<1> QED
  BY <1>1, <1>3, <1>4 DEF PhaseInv

\* "Start us in a known frequency" (post_MPI_Init): a rank that runs is in the
\* gear its cache names, whoever shifted its core before, for any number of
\* ranks, sockets and programs, also after programs that were killed.
THEOREM KnownGear == ASSUME BoundApart PROVE Spec => []StartsInKnownGear
<1>1. IInv => StartsInKnownGear
  <2> SUFFICES ASSUME IInv, NEW r \in Ranks, pc[r] = "running"
               PROVE  gear[my_core[r]] = prev_freq_idx[r]
    BY DEF StartsInKnownGear
  <2>1. GearInv
    BY DEF IInv
  <2> QED
    BY <2>1 DEF GearInv, Undisturbed
<1> QED
  BY <1>1, Inductive, PTL

\* "Leave us in a known frequency" (pre_MPI_Finalize): when the last rank is gone
\* its leader has put every core of the socket in the top gear, and no rank of
\* the socket has changed one since.
THEOREM FastestAtTheEnd == ASSUME BoundApart PROVE Spec => []EndsInFastestGear
<1>1. IInv => EndsInFastestGear
  <2> SUFFICES ASSUME IInv, \A r \in Ranks : pc[r] = "done",
                      NEW r \in Ranks, NEW c \in CoresOn(my_socket[r])
               PROVE  gear[c] = Fastest
    BY DEF EndsInFastestGear
  <2>1. config.ok
    BY DEF IInv
  <2>2. PICK l \in Ranks : Leader(l) /\ my_socket[l] = my_socket[r]
    BY <2>1, HasLeader
  <2>3. SocketInv /\ pc[l] = "done"
    BY <2>1 DEF IInv
  <2>4. pc[l] \in PastFin \ {"reset", "shiftfast"}
    BY <2>3 DEF PastFin
  <2>5. todo[l] = {}
    BY <2>2, <2>3, <2>4 DEF SocketInv
  <2>6. c \in CoresOn(my_socket[l]) \ todo[l]
    BY <2>2, <2>5
  <2> QED
    BY <2>2, <2>3, <2>4, <2>6 DEF SocketInv
<1> QED
  BY <1>1, Inductive, PTL

\* While the program runs a core of a socket in use that no rank runs on is in
\* the slowest gear, where the leader put it before the first barrier.
THEOREM IdleCoresStaySlow == ASSUME BoundApart PROVE Spec => []IdleCoresSlow
<1>1. IInv => IdleCoresSlow
  <2> SUFFICES ASSUME IInv, \A q \in Ranks : pc[q] = "running", NEW r \in Ranks,
                      NEW c \in CoresOn(my_socket[r]) \ {my_core[q] : q \in Ranks}
               PROVE  gear[c] = Slowest
    BY DEF IdleCoresSlow
  <2>1. config.ok
    BY DEF IInv
  <2>2. PICK l \in Ranks : Leader(l) /\ my_socket[l] = my_socket[r]
    BY <2>1, HasLeader
  <2>3. SocketInv /\ pc[l] = "running"
    BY <2>1 DEF IInv
  <2>4. todo[l] = {}
    BY <2>2, <2>3 DEF SocketInv
  <2>5. \/ gear[c] = Slowest
        \/ \E q \in comm_socket(l) : pc[q] \in PastB1 /\ my_core[q] = c
    BY <2>2, <2>3, <2>4 DEF SocketInv
  <2> QED
    BY <2>5 DEF comm_socket
<1> QED
  BY <1>1, Inductive, PTL

\* Behind a semaphore whose holder was killed no rank of the socket gets past
\* the first barrier: its leader cannot have come to it.
THEOREM LostSemaphoreHolds == ASSUME BoundApart PROVE Spec => []LostSemaphoreHoldsSocket
<1>1. IInv => LostSemaphoreHoldsSocket
  BY DEF IInv, LockInv, LostSemaphoreHoldsSocket
<1> QED
  BY <1>1, Inductive, PTL

\* Every rank knows the core it runs on, and its place in the row of its socket.
THEOREM CoreIsFound == ASSUME BoundApart PROVE Spec => []FindsItsCore
<1>1. IInv => FindsItsCore
  <2> SUFFICES ASSUME IInv, config.ok, NEW r \in Ranks
               PROVE  LET place_in_row == config.map_core_to_per_socket_core[my_core[r]]
                          row          == config.map_socket_to_core[my_socket[r]]
                      IN  /\ my_core[r] = cpu[r]
                          /\ place_in_row \in DOMAIN row => row[place_in_row] = my_core[r]
    BY DEF FindsItsCore
  <2>1. PlaceInv /\ config \in {parse_proc_cpuinfo(listing) : listing \in CpuInfos}
    BY DEF IInv
  <2>2. /\ my_core[r] = cpu[r] /\ my_core[r] \in config.cores
        /\ my_socket[r] = config.map_core_to_socket[my_core[r]]
    BY <2>1 DEF PlaceInv
  <2> QED
    BY <2>1, <2>2, Reached
<1> QED
  BY <1>1, Inductive, PTL

-----------------------------------------------------------------------------
(* Types and governors.  A core once governed stays so, a leader governs    *)
(* its socket before it comes to the first barrier, and nobody on its       *)
(* socket passes that before it.                                           *)

GovernedInv ==
    \A r \in Ranks :
        /\ ~config.ok => ~shift_initialized[r]
        /\ config.ok =>
              /\ shift_initialized[r] => CoresOn(my_socket[r]) \subseteq userspace
              /\ pc[r] \in {"shiftslow", "barrier1"} \cup PastB1 /\ Leader(r) =>
                    CoresOn(my_socket[r]) \subseteq userspace
              /\ pc[r] \in {"shiftslow", "barrier2", "running"} => shift_initialized[r]

FullInv == IInv /\ TypeOK /\ GovernedInv

LEMMA InitFull == ASSUME BoundApart PROVE Init => FullInv
<1> SUFFICES ASSUME Init PROVE TypeOK /\ GovernedInv
  BY InitIInv DEF FullInv
<1>1. IInv
  BY InitIInv
<1>2. /\ program = 1 /\ socket_rank = Everywhere(-1) /\ todo = Everywhere({})
      /\ shift_initialized = Everywhere(FALSE) /\ prev_freq_idx = Everywhere(-1)
      /\ gear \in [config.cores -> {Fastest, Slowest}] /\ userspace = {} /\ linked = {}
      /\ sem = [s \in Sockets |-> 1] /\ pc = Everywhere(FirstLabel)
      /\ cpu \in [Ranks -> config.cores]
      /\ my_core = [r \in Ranks |-> core_found(cpu[r])]
  BY DEF Init, CpuChoices
<1>3. Fastest \in Gears /\ Slowest \in Gears /\ 1 \in 1 .. Programs
  BY NodeAssumption DEF Gears
<1>4. my_core \in [Ranks -> config.cores]
  <2>1. CASE config.ok
    BY <1>1, <2>1 DEF IInv, PlaceInv
  <2>2. CASE ~config.ok
    BY <1>2, <2>2 DEF core_found
  <2> QED
    BY <2>1, <2>2
<1>5. config.ok => my_socket \in [Ranks -> Sockets] /\ sem_name \in [Ranks -> Sockets]
  BY <1>1 DEF IInv, PlaceInv
<1>6. TypeOK
  BY <1>2, <1>3, <1>4, <1>5 DEF TypeOK, Everywhere, FirstLabel
<1>7. GovernedInv
  BY <1>2 DEF GovernedInv, Everywhere, FirstLabel, PastB1, PastFin
<1> QED
  BY <1>6, <1>7

LEMMA EndFull == ASSUME BoundApart, FullInv, End PROVE TypeOK' /\ GovernedInv'
<1>0. IInv /\ TypeOK /\ GovernedInv /\ IInv'
  BY EndIInv DEF FullInv
<1>1. CASE EndLast
  <2>1. pc' = Everywhere("killed") /\ UNCHANGED <<place, todo, shift, sems>>
    BY <1>1 DEF EndLast
  <2>2. TypeOK'
    BY <1>0, <2>1 DEF TypeOK, place, shift, sems, Everywhere, Sockets
  <2>3. GovernedInv'
    BY <1>0, <2>1 DEF GovernedInv, place, shift, Everywhere, CoresOn, PastB1, PastFin
  <2> QED
    BY <2>2, <2>3
<1>2. CASE EndAndStartNext
  <2>1. /\ program < Programs /\ program' = program + 1 /\ pc' = Everywhere(FirstLabel)
        /\ cpu' \in [Ranks -> config.cores] /\ my_core' = [r \in Ranks |-> core_found(cpu'[r])]
        /\ socket_rank' = Everywhere(-1) /\ todo' = Everywhere({})
        /\ shift_initialized' = Everywhere(FALSE) /\ prev_freq_idx' = Everywhere(-1)
        /\ UNCHANGED <<config, gear, userspace, sem, linked>>
    BY <1>2 DEF EndAndStartNext, sems, CpuChoices
  <2>2. program' \in 1 .. Programs
    BY <1>0, <2>1, NodeAssumption DEF TypeOK
  <2>3. my_core' \in [Ranks -> config.cores]
    <3>1. CASE config.ok
      BY <1>0, <2>1, <3>1 DEF IInv, PlaceInv
    <3>2. CASE ~config.ok
      BY <2>1, <3>2 DEF core_found
    <3> QED
      BY <3>1, <3>2
  <2>4. config.ok => my_socket' \in [Ranks -> Sockets] /\ sem_name' \in [Ranks -> Sockets]
    BY <1>0, <2>1 DEF IInv, PlaceInv, Sockets
  <2>5. Sockets' = Sockets
    BY <2>1 DEF Sockets
  <2>6. TypeOK'
    BY <1>0, <2>1, <2>2, <2>3, <2>4, <2>5 DEF TypeOK, Everywhere, FirstLabel
  <2>7. GovernedInv'
    BY <2>1 DEF GovernedInv, Everywhere, FirstLabel, PastB1, PastFin
  <2> QED
    BY <2>6, <2>7
<1> QED
  BY <1>1, <1>2 DEF End

\* What each step governs.
LEMMA Governs ==
    ASSUME BoundApart, FullInv, config.ok, NEW r \in Ranks, Act(r)
    PROVE  /\ program' = program /\ userspace \subseteq userspace' /\ userspace' \subseteq config.cores
           /\ linked' \subseteq Sockets
           /\ socket_rank' = socket_rank \/ socket_rank'[r] \in Nat
           /\ \/ UNCHANGED <<userspace, shift_initialized>> /\ pc[r] \notin {"govern", "reset", "barrier1"}
              \/ /\ pc[r] \in {"govern", "reset"} /\ userspace' = userspace \cup CoresOn(my_socket[r])
                 /\ shift_initialized' = [shift_initialized EXCEPT ![r] = TRUE]
              \/ /\ pc[r] = "barrier1" /\ pc'[r] = "barrier2" /\ PastBarrier1(r)
                 /\ userspace' = userspace
                 /\ shift_initialized' = [shift_initialized EXCEPT ![r] = TRUE]
<1>1. /\ PlaceInv /\ config \in {parse_proc_cpuinfo(listing) : listing \in CpuInfos}
      /\ pc \in [Ranks -> Labels]
  BY DEF FullInv, IInv, ShapeInv
<1>2. /\ CoresOn(my_socket[r]) \subseteq config.cores
      /\ userspace \subseteq config.cores /\ linked \subseteq Sockets /\ sem_name[r] \in Sockets
  BY <1>1, Topology DEF PlaceInv, FullInv, TypeOK
<1>3. Cardinality({q \in comm_socket(r) : before(q, r)}) \in Nat
  <2>1. {q \in comm_socket(r) : before(q, r)} \subseteq Ranks
    BY DEF comm_socket
  <2> QED
    BY <2>1, NodeAssumption, FS_Subset, FS_CardinalityType
<1>4. socket_rank \in [Ranks -> Nat \cup {-1}]
  BY DEF FullInv, TypeOK
<1> USE DEF place, shift, sems, Goto
<1>5. CASE Open(r)
  BY <1>2, <1>5 DEF Open
<1>6. CASE Split(r)
  BY <1>2, <1>3, <1>4, <1>6 DEF Split
<1>7. CASE Bind(r) \/ BindFails(r)
  BY <1>2, <1>7 DEF Bind, BindFails
<1>8. CASE \/ Lock(r, "lock", "resize") \/ Unlock(r, "resize", "govern")
           \/ Lock(r, "teardown", "unlink") \/ Unlock(r, "unlink", "close")
  BY <1>2, <1>8 DEF Lock, Unlock
<1>9. CASE Govern(r, "govern", "shiftslow") \/ Govern(r, "reset", "shiftfast")
  BY <1>2, <1>9 DEF Govern
<1>10. CASE \/ ShiftSocket(r, "shiftslow", Slowest) \/ ShiftSocketDone(r, "shiftslow", "barrier1")
            \/ ShiftSocket(r, "shiftfast", Fastest) \/ ShiftSocketDone(r, "shiftfast", "teardown")
  BY <1>2, <1>10 DEF ShiftSocket, ShiftSocketDone
<1>11. CASE ShiftFastest(r)
  BY <1>1, <1>2, <1>11 DEF ShiftFastest
<1>12. CASE Start(r) \/ ShiftOwn(r) \/ Finalize(r) \/ PastFinalize(r)
  BY <1>2, <1>12 DEF Start, ShiftOwn, Finalize, PastFinalize
<1>13. CASE Close(r)
  BY <1>2, <1>13 DEF Close
<1> QED
  BY <1>5, <1>6, <1>7, <1>8, <1>9, <1>10, <1>11, <1>12, <1>13 DEF Act

\* Past the first barrier of a socket its leader has governed it.
LEMMA LeaderGoverned ==
    ASSUME BoundApart, FullInv, config.ok, NEW r \in Ranks, PastBarrier1(r)
    PROVE  CoresOn(my_socket[r]) \subseteq userspace
<1>1. PlaceInv /\ PhaseInv /\ config \in {parse_proc_cpuinfo(listing) : listing \in CpuInfos}
  BY DEF FullInv, IInv
<1>2. my_core \in [Ranks -> Nat]
  BY <1>1, Topology DEF PlaceInv
<1>3. PICK l \in comm_socket(r) : \A p \in comm_socket(l) : ~before(p, l)
  BY <1>2, SomeLeader
<1>4. l \in Ranks /\ my_socket[l] = my_socket[r]
  BY <1>1, <1>3 DEF PlaceInv, comm_socket
<1>5. pc[l] \in {"barrier1"} \cup PastB1
  BY <1>3 DEF PastBarrier1, Barrier, PastB1, PastFin
<1>6. Leader(l)
  BY <1>1, <1>3, <1>4, <1>5 DEF PhaseInv, PastB1, PastFin
<1> QED
  BY <1>4, <1>5, <1>6 DEF FullInv, GovernedInv

LEMMA ActFull ==
    ASSUME BoundApart, FullInv, config.ok, NEW r \in Ranks, Act(r)
    PROVE  TypeOK' /\ GovernedInv'
<1>1. Frame(r) /\ Moves(r) /\ pc'[r] \in Labels
  BY ActFrame DEF FullInv
<1>2. PlaceInv' /\ ShapeInv' /\ PlaceInv /\ ShapeInv /\ PhaseInv /\ TypeOK /\ GovernedInv
  BY PlaceStep, ShapeStep DEF FullInv, IInv
<1>3. /\ program' = program /\ userspace \subseteq userspace' /\ userspace' \subseteq config.cores
      /\ linked' \subseteq Sockets
      /\ socket_rank' = socket_rank \/ socket_rank'[r] \in Nat
      /\ \/ UNCHANGED <<userspace, shift_initialized>> /\ pc[r] \notin {"govern", "reset", "barrier1"}
         \/ /\ pc[r] \in {"govern", "reset"} /\ userspace' = userspace \cup CoresOn(my_socket[r])
            /\ shift_initialized' = [shift_initialized EXCEPT ![r] = TRUE]
         \/ /\ pc[r] = "barrier1" /\ pc'[r] = "barrier2" /\ PastBarrier1(r)
            /\ userspace' = userspace
            /\ shift_initialized' = [shift_initialized EXCEPT ![r] = TRUE]
  BY Governs
<1>4. /\ UNCHANGED <<config, my_socket, sem_name>> /\ Sockets' = Sockets
      /\ pc' \in [Ranks -> Labels] /\ \A q \in Ranks : q # r => pc'[q] = pc[q]
      /\ \A q \in Ranks : CoresOn(my_socket[q])' = CoresOn(my_socket[q])
  BY <1>1, <1>2 DEF Frame, Sockets, CoresOn, ShapeInv
<1>5. shift_initialized \in [Ranks -> BOOLEAN] /\ socket_rank \in [Ranks -> Nat \cup {-1}]
  BY <1>2 DEF TypeOK
<1>6. shift_initialized' \in [Ranks -> BOOLEAN]
  BY <1>3, <1>5
<1>7. socket_rank' \in [Ranks -> Nat \cup {-1}]
  <2>1. socket_rank' = [socket_rank EXCEPT ![r] = socket_rank'[r]]
    BY <1>1 DEF Frame
  <2> QED
    BY <1>3, <1>5, <2>1
<1>8. TypeOK'
  <2>1. program' \in 1 .. Programs
    BY <1>2, <1>3 DEF TypeOK
  <2> QED
    BY <1>2, <1>3, <1>4, <1>6, <1>7, <2>1 DEF TypeOK, PlaceInv, ShapeInv, Labels
<1>9. pc[r] # "split" => \A q \in Ranks : Leader(q)' <=> Leader(q)
  BY <1>1 DEF Frame, Leader
<1>10. \A q \in Ranks : q # r => (Leader(q)' <=> Leader(q))
  BY <1>1, <1>5 DEF Frame, Leader
<1>11. GovernedInv'
  <2> SUFFICES ASSUME NEW q \in Ranks
               PROVE  /\ shift_initialized'[q] => CoresOn(my_socket[q]) \subseteq userspace'
                      /\ pc'[q] \in {"shiftslow", "barrier1"} \cup PastB1 /\ Leader(q)' =>
                            CoresOn(my_socket[q]) \subseteq userspace'
                      /\ pc'[q] \in {"shiftslow", "barrier2", "running"} => shift_initialized'[q]
    BY <1>4 DEF GovernedInv
  <2>0. /\ shift_initialized[q] => CoresOn(my_socket[q]) \subseteq userspace
        /\ pc[q] \in {"shiftslow", "barrier1"} \cup PastB1 /\ Leader(q) =>
              CoresOn(my_socket[q]) \subseteq userspace
        /\ pc[q] \in {"shiftslow", "barrier2", "running"} => shift_initialized[q]
    BY <1>2 DEF GovernedInv
  <2>1. CASE q # r
    BY <1>3, <1>4, <1>5, <1>10, <2>0, <2>1
  <2>2. CASE q = r
    <3>1. CASE UNCHANGED <<userspace, shift_initialized>> /\ pc[r] \notin {"govern", "reset", "barrier1"}
      <4>1. /\ pc'[r] \in {"shiftslow", "barrier2", "running"} =>
                  pc[r] \in {"shiftslow", "barrier2", "running"}
            /\ pc'[r] \in {"shiftslow"} \cup PastB1 => pc[r] \in {"shiftslow"} \cup PastB1
            /\ pc'[r] = "barrier1" => pc[r] = "shiftslow" \/ (pc[r] = "bind" /\ ~Leader(r))
        BY <1>1, <3>1 DEF Moves, PastB1, PastFin
      <4>2. pc'[r] \in {"shiftslow", "barrier1"} \cup PastB1 => pc[r] # "split"
        BY <1>1 DEF Moves, PastB1, PastFin
      <4> QED
        BY <1>9, <2>0, <2>2, <3>1, <4>1, <4>2
    <3>2. CASE /\ pc[r] \in {"govern", "reset"} /\ userspace' = userspace \cup CoresOn(my_socket[r])
               /\ shift_initialized' = [shift_initialized EXCEPT ![r] = TRUE]
      BY <1>5, <2>2, <3>2
    <3>3. CASE /\ pc[r] = "barrier1" /\ pc'[r] = "barrier2" /\ PastBarrier1(r)
               /\ userspace' = userspace
               /\ shift_initialized' = [shift_initialized EXCEPT ![r] = TRUE]
      BY <1>5, <2>2, <3>3, LeaderGoverned
    <3> QED
      BY <1>3, <3>1, <3>2, <3>3
  <2> QED
    BY <2>1, <2>2
<1> QED
  BY <1>8, <1>11

LEMMA InductiveFull == ASSUME BoundApart PROVE Spec => []FullInv
<1>1. Init => FullInv
  BY InitFull
<1>2. FullInv /\ [Next]_vars => FullInv'
  <2> SUFFICES ASSUME FullInv, [Next]_vars PROVE TypeOK' /\ GovernedInv'
    BY StepIInv DEF FullInv
  <2>1. CASE \E r \in Ranks : Act(r)
    <3>1. PICK r \in Ranks : Act(r)
      BY <2>1
    <3>2. config.ok
      <4> SUFFICES ASSUME ~config.ok PROVE FALSE
        OBVIOUS
      <4>1. pc[r] \in {"abort", "killed"}
        BY DEF FullInv, IInv
      <4> QED
        BY <3>1, <4>1 DEF Act, Open, Split, Bind, BindFails, Lock, Unlock, Govern, ShiftSocket,
           ShiftSocketDone, ShiftFastest, Start, ShiftOwn, Finalize, PastFinalize, Close
    <3> QED
      BY <3>1, <3>2, ActFull
  <2>2. CASE End
    BY <2>2, EndFull
  <2>3. CASE UNCHANGED vars
    BY <2>3 DEF FullInv, TypeOK, GovernedInv, vars, place, shift, sems, Sockets, CoresOn, Leader
  <2> QED
    BY <2>1, <2>2, <2>3, NextCases
<1> QED
  BY <1>1, <1>2, PTL DEF Spec

\* Whatever a program that was killed has left behind.
THEOREM TypeCorrect == ASSUME BoundApart PROVE Spec => []TypeOK
<1>1. FullInv => TypeOK
  BY DEF FullInv
<1> QED
  BY <1>1, InductiveFull, PTL

\* No core is shifted before the leader of its socket has set its governor, but
\* for one that its socket has beyond as many as socket 0 has.
THEOREM GovernedFirst == ASSUME BoundApart PROVE Spec => []GovernedBeforeShifted
<1>1. FullInv => GovernedBeforeShifted
  <2> SUFFICES ASSUME FullInv, NEW r \in Ranks
               PROVE  /\ pc[r] \in {"shiftslow", "barrier2", "running"} => shift_initialized[r]
                      /\ shift_initialized[r] =>
                            \/ my_core[r] \in userspace
                            \/ config.map_core_to_per_socket_core[my_core[r]]
                                  >= Cardinality({c \in config.cores : config.map_core_to_socket[c] = 0})
    BY DEF GovernedBeforeShifted
  <2>1. CASE ~config.ok
    BY <2>1 DEF FullInv, IInv, GovernedInv
  <2>2. CASE config.ok
    <3>1. PlaceInv /\ config \in {parse_proc_cpuinfo(listing) : listing \in CpuInfos}
      BY <2>2 DEF FullInv, IInv
    <3>2. my_core[r] \in config.cores /\ my_socket[r] = config.map_core_to_socket[my_core[r]]
      BY <3>1 DEF PlaceInv
    <3>3. \/ my_core[r] \in CoresOn(my_socket[r])
          \/ config.map_core_to_per_socket_core[my_core[r]]
                >= Cardinality({c \in config.cores : config.map_core_to_socket[c] = 0})
      BY <2>2, <3>1, <3>2, Reached
    <3> QED
      BY <2>2, <3>3 DEF FullInv, GovernedInv
  <2> QED
    BY <2>1, <2>2
<1> QED
  BY <1>1, InductiveFull, PTL

-----------------------------------------------------------------------------
(* Nothing but a lost semaphore makes a program hang.                      *)

\* A program ends with all of its ranks.
EndsTogether == \A r, q \in Ranks : pc[r] = "killed" => pc[q] = "killed"

\* r can take a step: the guard of one of its actions holds.
CanGo(r) ==
    \/ pc[r] \in {"open", "bind", "resize", "govern", "shiftslow", "running",
                  "reset", "shiftfast", "unlink", "close"}
    \/ pc[r] = "split" /\ \A q \in Ranks : pc[q] # "open"
    \/ pc[r] = "abort" /\ (program = Programs \/ \E masks \in Masks(config) : CpuChoices(masks) # {})
    \/ pc[r] \in {"lock", "teardown"} /\ sem[sem_name[r]] > 0
    \/ pc[r] = "barrier1" /\ PastBarrier1(r)
    \/ pc[r] = "barrier2" /\ Barrier(comm_socket(r), "barrier2",
                                {"running", "finalize", "reset", "shiftfast", "teardown", "unlink", "close", "done"})
    \/ pc[r] = "finalize" /\ FinalizeBarrier

\* A rank waits for a semaphore whose holder was killed.
WaitsForTheDead == \E r \in Ranks : pc[r] = "lock" /\ Lost(sem_name[r])

SomeoneCanGo ==
    config.ok => \/ \A r \in Ranks : pc[r] \in {"done", "killed"}
                 \/ \E r \in Ranks : CanGo(r)
                 \/ WaitsForTheDead

LEMMA InductiveTogether == ASSUME BoundApart PROVE Spec => [](IInv /\ EndsTogether)
<1>1. Init => EndsTogether
  BY DEF Init, EndsTogether, Everywhere, FirstLabel
<1>2. IInv /\ EndsTogether /\ [Next]_vars => EndsTogether'
  <2> SUFFICES ASSUME IInv, EndsTogether, [Next]_vars PROVE EndsTogether'
    OBVIOUS
  <2>1. CASE \E r \in Ranks : Act(r)
    <3>1. PICK r \in Ranks : Act(r)
      BY <2>1
    <3>2. DOMAIN pc = Ranks
      BY DEF IInv, ShapeInv
    <3>3. \E label : label # "killed" /\ (pc' = [pc EXCEPT ![r] = label] \/ pc' = pc)
      <4>1. CASE PastFinalize(r)
        <5>1. \E label \in {"reset", "teardown"} : pc' = [pc EXCEPT ![r] = label]
          BY <4>1 DEF PastFinalize, Goto
        <5> QED
          BY <5>1
      <4>2. CASE Bind(r)
        <5>1. \E label \in {"lock", "barrier1"} : pc' = [pc EXCEPT ![r] = label]
          BY <4>2 DEF Bind, Goto
        <5> QED
          BY <5>1
      <4> QED
        BY <3>1, <4>1, <4>2 DEF Act, Open, Split, BindFails, Lock, Unlock, Govern, ShiftSocket,
           ShiftSocketDone, ShiftFastest, Start, ShiftOwn, Finalize, Close, Goto
    <3>4. pc[r] # "killed"
      BY <3>1 DEF Act, Open, Split, Bind, BindFails, Lock, Unlock, Govern, ShiftSocket,
         ShiftSocketDone, ShiftFastest, Start, ShiftOwn, Finalize, PastFinalize, Close
    <3> QED
      BY <3>2, <3>3, <3>4 DEF EndsTogether
  <2>2. CASE End
    BY <2>2 DEF End, EndLast, EndAndStartNext, EndsTogether, Everywhere, FirstLabel
  <2>3. CASE UNCHANGED vars
    BY <2>3 DEF vars, EndsTogether
  <2> QED
    BY <2>1, <2>2, <2>3, NextCases
<1>3. Spec => []EndsTogether
  BY <1>1, <1>2, Inductive, PTL DEF Spec
<1> QED
  BY <1>3, Inductive, PTL

\* shm_setup() and shm_teardown() (shm.c:81, shm.c:250): splits, semaphores and
\* three barriers, of the sockets and of the world, never leave all ranks of a
\* program waiting for each other.  What can hang it is only a semaphore that a
\* killed program has taken away with it.
THEOREM NoneStuck == ASSUME BoundApart PROVE Spec => []SomeoneCanGo
<1>1. IInv /\ EndsTogether => SomeoneCanGo
  <2> SUFFICES ASSUME IInv, EndsTogether, config.ok, ~WaitsForTheDead,
                      \A r \in Ranks : ~CanGo(r),
                      NEW z \in Ranks, pc[z] \notin {"done", "killed"}
               PROVE  FALSE
    BY DEF SomeoneCanGo
  <2>1. PlaceInv /\ ShapeInv /\ LockInv
    BY DEF IInv
  <2>2. \A r \in Ranks : pc[r] \in Labels /\ pc[r] # "killed"
    BY <2>1 DEF ShapeInv, EndsTogether
  <2>3. \A r \in Ranks : pc[r] \notin {"open", "bind", "resize", "govern", "shiftslow", "running",
                                       "reset", "shiftfast", "unlink", "close", "split"}
    BY DEF CanGo
  <2>4. \A r \in Ranks : pc[r] # "abort"
    <3> SUFFICES ASSUME NEW r \in Ranks, pc[r] = "abort" PROVE FALSE
      OBVIOUS
    <3>1. mask \in Masks(config) /\ cpu \in [Ranks -> config.cores] /\ \A q \in Ranks : cpu[q] \in mask[q]
      BY <2>1 DEF PlaceInv
    <3>2. cpu \in CpuChoices(mask)
      <4>1. \A q \in Ranks : cpu[q] \in config.cores \cap UNION {mask[p] : p \in Ranks}
        BY <3>1
      <4> QED
        BY <3>1, <4>1 DEF CpuChoices
    <3> QED
      BY <3>1, <3>2 DEF CanGo
  <2>5. \A r \in Ranks : pc[r] \notin {"lock", "teardown"}
    <3> SUFFICES ASSUME NEW r \in Ranks, pc[r] \in {"lock", "teardown"} PROVE FALSE
      OBVIOUS
    <3>1. sem[sem_name[r]] \in {0, 1}
      BY <2>1 DEF ShapeInv, PlaceInv
    <3>2. sem[sem_name[r]] = 0
      BY <3>1 DEF CanGo
    <3>3. Lost(sem_name[r])
      BY <2>3, <3>2 DEF Lost
    <3>4. pc[r] = "lock"
      BY <2>1, <3>3 DEF LockInv
    <3> QED
      BY <3>3, <3>4 DEF WaitsForTheDead
  <2>6. \A r \in Ranks : pc[r] \in {"barrier1", "barrier2", "finalize", "done"}
    BY <2>2, <2>3, <2>4, <2>5 DEF Labels
  <2>7. \A r \in Ranks : comm_socket(r) \subseteq Ranks
    BY DEF comm_socket
  <2>8. \A r \in Ranks : pc[r] # "barrier1"
    BY <2>6, <2>7 DEF CanGo, PastBarrier1, Barrier
  <2>9. \A r \in Ranks : pc[r] # "barrier2"
    BY <2>6, <2>7, <2>8 DEF CanGo, Barrier
  <2>10. \A r \in Ranks : pc[r] # "finalize"
    BY <2>6, <2>8, <2>9 DEF CanGo, FinalizeBarrier, Barrier
  <2> QED
    BY <2>6, <2>8, <2>9, <2>10
<1> QED
  BY <1>1, InductiveTogether, PTL

=============================================================================
