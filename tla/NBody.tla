------------------------------- MODULE NBody -------------------------------
(***************************************************************************)
(* The n-body solver written to show jitter off (jitter-reborn/mpibody).   *)
(* Every rank keeps all particles.  In a time step it decides from its own *)
(* copy who owns which particle, moves those it owns, and the ranks take   *)
(* turns at broadcasting what they moved: how long each message is, and    *)
(* which particles are in it, nobody is told.                              *)
(*                                                                         *)
(* MPI_Bcast synchronizes nobody: its root goes on at once, a receiver     *)
(* waits for the root, and a broadcast of nothing waits for nobody.  The   *)
(* all-reduce that jitter makes in some time steps is left out, which only *)
(* allows the ranks more.                                                  *)
(***************************************************************************)
EXTENDS Integers, Sequences, FiniteSets

CONSTANTS
    numProcs,
    numParticles,
    timeSteps,
    Positions,        \* of particles: vectors <<x, y, z>> of integers
    Center,           \* the splitPoint to begin with
    LoadBalanceFreqs  \* what the command line may ask for

ASSUME SizesAssumption ==
    /\ numProcs \in 1 .. 127      \* getOwner() returns a char
    /\ numParticles \in Nat \ {0} /\ timeSteps \in Nat \ {0}

ASSUME PositionsAssumption ==
    /\ Positions \subseteq Int \X Int \X Int /\ Positions # {}
    /\ Center \in Int \X Int \X Int
    /\ LoadBalanceFreqs \subseteq Int

Ranks == 0 .. numProcs - 1
Particles == 0 .. numParticles - 1
Axes == 1 .. 3

VARIABLES
    loadBalanceFreq,  \* -1: modulus, n > 0: median every n steps,
                      \* 0 or below -1: fixed split point
    pc,               \* per rank: "init", "step", "move", "exchange" or "done"
    step,             \* per rank
    turn,             \* per rank: the root of the broadcast it takes part in next
    particle,         \* per rank
    splitPoint,       \* per rank
    owner,            \* per rank: the array of simulate()
    partSend,         \* per rank: the particles it moved last, index -> position;
                      \* a message holds them by increasing index
    inbox,            \* inbox[s][r]: the broadcasts of s that r has not taken part in yet
    moves             \* history: how often each particle was moved

vars == <<loadBalanceFreq, pc, step, turn, particle, splitPoint, owner, partSend, inbox, moves>>

-----------------------------------------------------------------------------
(* The median of an array of numbers, by quickselect in place.             *)

Arrays == [Particles -> Int]

swap(a, i, j) == [a EXCEPT ![i] = a[j], ![j] = a[i]]

\* The loop of partition(), from where it comes to i: the first of a[left..right]
\* is the pivot, and waits at the end for its place.
Scans == {s \in [a : Arrays, right : Particles, pivotValue : Int, i : Particles, storeIndex : Particles] :
            s.storeIndex <= s.i /\ s.i <= s.right}

scan[s \in Scans] ==
    LET next == [s EXCEPT !.i = @ + 1]
    IN  IF s.i = s.right
        THEN [a |-> swap(s.a, s.right, s.storeIndex), pivotNewIndex |-> s.storeIndex]
        ELSE IF s.a[s.i] <= s.pivotValue
        THEN scan[[next EXCEPT !.a = swap(@, s.storeIndex, s.i), !.storeIndex = @ + 1]]
        ELSE scan[next]

partition(a, left, right) ==
    scan[[a |-> swap(a, left, right), right |-> right, pivotValue |-> a[left],
          i |-> left, storeIndex |-> left]]

\* Calls of selectKth and, with fewer of the array between left and right, turns
\* of its loop.
Selections == {s \in [a : Arrays, k : Particles, left : Particles, right : Particles] :
                 s.left <= s.k /\ s.k <= s.right}

selectKth[s \in Selections] ==
    LET p == partition(s.a, s.left, s.right)
        next == [s EXCEPT !.a = p.a]
    IN  IF s.k = p.pivotNewIndex THEN p.a[s.k]
        ELSE IF s.k < p.pivotNewIndex
        THEN selectKth[[next EXCEPT !.right = p.pivotNewIndex - 1]]
        ELSE selectKth[[next EXCEPT !.left = p.pivotNewIndex + 1]]

median(a) == selectKth[[a |-> a, k |-> numParticles \div 2, left |-> 0, right |-> numParticles - 1]]

\* (mutant: the array is filled once)
loadBalance_x(pts) == LET m == median([i \in Particles |-> pts[i][1]]) IN <<m, m, m>>

loadBalance(pts) ==
    LET on(x) == median([i \in Particles |-> pts[i][x]])
    IN  <<on(1), on(2), on(3)>>

-----------------------------------------------------------------------------

Octant(pt, split) ==
    LET below(x) == IF pt[x] < split[x] THEN 1 ELSE 0
    IN  4 * below(1) + 2 * below(2) + below(3)

getOwner_raw(i, pts, split) ==   \* (mutant: the octant is the rank)
    IF loadBalanceFreq = -1 THEN i % numProcs ELSE Octant(pts[i], split)

getOwner(i, pts, split) ==
    IF loadBalanceFreq = -1 THEN i % numProcs ELSE Octant(pts[i], split) % numProcs

numOwned_now(r, q) ==   \* (mutant: asks getOwner() again)
    Cardinality({i \in Particles : getOwner(i, particle[r], splitPoint[r]) = q})
numOwned(r, q) == Cardinality({i \in Particles : owner[r][i] = q})

\* Rank 0 scatters the particles and broadcasts all of them.
Init ==
    /\ loadBalanceFreq \in LoadBalanceFreqs
    /\ pc = [r \in Ranks |-> "init"]
    /\ step = [r \in Ranks |-> 0]
    /\ turn = [r \in Ranks |-> 0]
    /\ \E pts \in [Particles -> Positions] :
         /\ particle = [r \in Ranks |-> IF r = 0 THEN pts ELSE [i \in Particles |-> <<0, 0, 0>>]]
         /\ inbox = [s \in Ranks |-> [r \in Ranks |-> IF s = 0 /\ r # 0 THEN <<pts>> ELSE <<>>]]
    /\ splitPoint = [r \in Ranks |-> Center]
    /\ owner = [r \in Ranks |-> [i \in Particles |-> 0]]
    /\ partSend = [r \in Ranks |-> <<>>]
    /\ moves = [i \in Particles |-> 0]

initParticlesRandom(r) ==
    /\ pc[r] = "init"
    /\ IF r = 0 THEN UNCHANGED <<particle, inbox>>
       ELSE /\ inbox[0][r] # <<>>
            /\ particle' = [particle EXCEPT ![r] = Head(inbox[0][r])]
            /\ inbox' = [inbox EXCEPT ![0][r] = Tail(@)]
    /\ pc' = [pc EXCEPT ![r] = "step"]
    /\ UNCHANGED <<loadBalanceFreq, step, turn, splitPoint, owner, partSend, moves>>

\* The head of a time step.
Due_root(r) == r = 0 /\ loadBalanceFreq > 0 /\ step[r] % loadBalanceFreq = 0   \* (mutant: under !myRank)
Due(r) == loadBalanceFreq > 0 /\ step[r] % loadBalanceFreq = 0

Decide(r) ==
    /\ pc[r] = "step" /\ step[r] < timeSteps
    /\ splitPoint' = [splitPoint EXCEPT ![r] = IF Due(r) THEN loadBalance(particle[r]) ELSE @]
    /\ owner' = [owner EXCEPT ![r] = [i \in Particles |-> getOwner(i, particle[r], splitPoint'[r])]]
    /\ pc' = [pc EXCEPT ![r] = "move"]
    /\ UNCHANGED <<loadBalanceFreq, step, turn, particle, partSend, inbox, moves>>

\* A rank moves the particles it owns, to where the others attract them.
Owned(r) == {i \in Particles : owner[r][i] = r}

Move(r) ==
    /\ pc[r] = "move"
    /\ \E to \in [Owned(r) -> Positions] :
         /\ particle' = [particle EXCEPT ![r] =
                           [i \in Particles |-> IF i \in Owned(r) THEN to[i] ELSE @[i]]]
         /\ partSend' = [partSend EXCEPT ![r] = to]
    /\ moves' = [i \in Particles |-> moves[i] + IF i \in Owned(r) THEN 1 ELSE 0]
    /\ pc' = [pc EXCEPT ![r] = "exchange"]
    /\ UNCHANGED <<loadBalanceFreq, step, turn, splitPoint, owner, inbox>>

\* The broadcast of rank turn[r]; after the last one the time step is over.
Send(r) ==
    /\ turn[r] = r
    /\ inbox' = [inbox EXCEPT ![r] = [q \in Ranks |->
            IF q = r \/ numOwned(r, r) = 0 THEN @[q] ELSE Append(@[q], partSend[r])]]
    /\ UNCHANGED particle

\* The particle array of one that sprays the first n entries of a message (of
\* those there are: CountsMatch says there are n).
First(message, n) == {i \in DOMAIN message : Cardinality({j \in DOMAIN message : j < i}) < n}

Spray_others(pts, message, n) ==   \* (mutant: j = 1)
    [i \in Particles |-> IF i \in First(message, n) \ First(message, 1) THEN message[i] ELSE pts[i]]
Spray(pts, message, n) ==
    [i \in Particles |-> IF i \in First(message, n) THEN message[i] ELSE pts[i]]

Receive(r) ==
    LET q == turn[r]  n == numOwned(r, q)
    IN  /\ q # r
        /\ IF n = 0 THEN UNCHANGED <<particle, inbox>>
           ELSE /\ inbox[q][r] # <<>>
                /\ particle' = [particle EXCEPT ![r] = Spray(@, Head(inbox[q][r]), n)]
                /\ inbox' = [inbox EXCEPT ![q][r] = Tail(@)]

Exchange(r) ==
    /\ pc[r] = "exchange"
    /\ Send(r) \/ Receive(r)
    /\ IF turn[r] + 1 < numProcs
       THEN turn' = [turn EXCEPT ![r] = @ + 1] /\ UNCHANGED <<pc, step>>
       ELSE /\ turn' = [turn EXCEPT ![r] = 0]
            /\ step' = [step EXCEPT ![r] = @ + 1]
            /\ pc' = [pc EXCEPT ![r] = "step"]
    /\ UNCHANGED <<loadBalanceFreq, splitPoint, owner, partSend, moves>>

\* cleanUp() and MPI_Finalize, when the loop is over.
Finish(r) ==
    /\ pc[r] = "step" /\ step[r] = timeSteps
    /\ pc' = [pc EXCEPT ![r] = "done"]
    /\ UNCHANGED <<loadBalanceFreq, step, turn, particle, splitPoint, owner, partSend, inbox, moves>>

-----------------------------------------------------------------------------

Rank(r) ==
    \/ initParticlesRandom(r) \/ Decide(r) \/ Move(r)
    \/ Exchange(r) \/ Finish(r)

Next == \E r \in Ranks : Rank(r)

\* A rank that can go on does: nothing but a broadcast makes it wait.
Spec == Init /\ [][Next]_vars /\ \A r \in Ranks : WF_vars(Rank(r))

-----------------------------------------------------------------------------

\* Ranks that begin the same time step, at whatever time they get there, hold
\* the same particles and the same split point: they will name the same owners.
\* Nothing in the protocol tells a rank what the others decided.
ReplicasAgree ==
    \A r, q \in Ranks :
        pc[r] = "step" /\ pc[q] = "step" /\ step[r] = step[q] =>
            particle[r] = particle[q] /\ splitPoint[r] = splitPoint[q]

\* The two ends of a broadcast give MPI_Bcast the same count, which each has
\* worked out by itself, and it is of this time step's particles: MPI would fail
\* and mpiWrap() end the program, or a later step's message be taken for it.
CountsMatch ==
    \A r \in Ranks : LET q == turn[r] IN
        pc[r] = "exchange" /\ q # r /\ numOwned(r, q) > 0 /\ inbox[q][r] # <<>> =>
            DOMAIN Head(inbox[q][r]) = {i \in Particles : owner[r][i] = q}

\* No particle is left where it was in a time step, and none is moved by two
\* ranks: it has moved at least as often as any rank has gone round the loop,
\* and exactly that often once all are done.
MovedOncePerStep ==
    /\ \A r \in Ranks, i \in Particles : pc[r] = "step" => moves[i] >= step[r]
    /\ (\A r \in Ranks : pc[r] = "done") => \A i \in Particles : moves[i] = timeSteps

\* When a rank decides the owners in a step that loadBalance() began, at most
\* half of the particles are below its split point on each axis, and more than
\* half are not above it: selectKth() found the median, whatever the order of
\* the particles and however many are equal.
MedianSplits ==
    \A r \in Ranks, x \in Axes :
        pc[r] = "move" /\ loadBalanceFreq > 0 /\ step[r] % loadBalanceFreq = 0 =>
            LET up_to(bound) == Cardinality({i \in Particles : particle[r][i][x] <= bound})
            IN  up_to(splitPoint[r][x] - 1) <= numParticles \div 2 /\ up_to(splitPoint[r][x]) > numParticles \div 2

\* The run ends: no rank waits for a broadcast that is not coming.
Termination == <>(\A r \in Ranks : pc[r] = "done")

=============================================================================
