----------------------------- MODULE NBodyProofs ----------------------------
(***************************************************************************)
(* What is proved about the n-body solver: ranks that never tell each      *)
(* other their decisions follow one history.  The invariant says that      *)
(* there is one: for every time step the particles, the split point and    *)
(* the owners with which it begins, the same for all, and for every queue  *)
(* of broadcasts the steps they are of.  A rank is somewhere in that       *)
(* history, a message is a piece of it, and nobody gets past the turn of a *)
(* rank that has something to send before it was sent.                     *)
(***************************************************************************)
EXTENDS NBody, FiniteSetTheorems, WellFoundedInduction, TLAPS

\* For which steps r no longer takes part in the broadcast of s, all below this;
\* the broadcast of all particles before the first step counts as step -1.
Round(r, s) == step[r] + IF pc[r] = "exchange" /\ turn[r] > s THEN 1 ELSE 0
Past(r, s) == IF pc[r] = "init" THEN -1 ELSE Round(r, s)

\* The steps whose broadcast s has made, and those whose particles it has moved.
Sent(s) == Round(s, s)
Moved(s) == step[s] + IF pc[s] = "exchange" THEN 1 ELSE 0

\* Some rank has decided the owners of step k.
Named(k) == \E r \in Ranks : step[r] > k \/ (step[r] = k /\ pc[r] \in {"move", "exchange"})

Steps == 0 .. timeSteps - 1
Casts == -1 .. timeSteps - 1
Placings == [Particles -> Positions]

\* The particles of s in step k, and its message.
Of(O, k, s) == {i \in Particles : O[k][i] = s}
Message(P, O, k, s) == [i \in Of(O, k, s) |-> P[k + 1][i]]

DueIn(k) == loadBalanceFreq > 0 /\ k % loadBalanceFreq = 0

\* The history: the particles P[k] and the split point S[k] with which step k
\* begins, and the owners O[k] named in it.
History(P, S, O) ==
    /\ P \in [0 .. timeSteps -> Placings]
    /\ DOMAIN S = 0 .. timeSteps /\ S[0] = Center
    /\ O \in [Casts -> [Particles -> Ranks]] /\ O[-1] = [i \in Particles |-> 0]
    /\ \A k \in Steps : Named(k) =>
          /\ S[k + 1] = IF DueIn(k) THEN loadBalance(P[k]) ELSE S[k]
          /\ O[k] = [i \in Particles |-> getOwner(i, P[k], S[k + 1])]

Labels == {"init", "step", "move", "exchange", "done"}

Shape ==
    /\ loadBalanceFreq \in LoadBalanceFreqs
    /\ pc \in [Ranks -> Labels] /\ step \in [Ranks -> 0 .. timeSteps] /\ turn \in [Ranks -> Ranks]
    /\ DOMAIN particle = Ranks /\ DOMAIN splitPoint = Ranks
    /\ DOMAIN owner = Ranks /\ DOMAIN partSend = Ranks
    /\ DOMAIN inbox = Ranks /\ \A s \in Ranks : DOMAIN inbox[s] = Ranks
    /\ \A r \in Ranks :
          /\ pc[r] # "exchange" => turn[r] = 0
          /\ pc[r] = "init" => step[r] = 0
          /\ pc[r] \in {"move", "exchange"} => step[r] < timeSteps
          /\ pc[r] = "done" => step[r] = timeSteps

\* What r holds in the middle of the exchange of step k.
Mixed(P, O, k, r, t) ==
    [i \in Particles |-> IF O[k][i] = r \/ O[k][i] < t THEN P[k + 1][i] ELSE P[k][i]]

\* Where a rank is in the history.
Follows(P, S, O, r) ==
    /\ pc[r] = "init" => splitPoint[r] = Center /\ (r = 0 => particle[r] = P[0])
    /\ pc[r] \in {"step", "move", "done"} => particle[r] = P[step[r]]
    /\ pc[r] \in {"step", "done"} => splitPoint[r] = S[step[r]]
    /\ pc[r] \in {"move", "exchange"} => splitPoint[r] = S[step[r] + 1] /\ owner[r] = O[step[r]]
    /\ pc[r] = "exchange" =>
          /\ particle[r] = Mixed(P, O, step[r], r, turn[r])
          /\ partSend[r] = Message(P, O, step[r], r)

\* Nobody passes the turn of a rank that owns something before that rank has sent.
Waits(O) ==
    \A r, s \in Ranks, k \in Steps :
        r # s /\ k < Past(r, s) /\ Of(O, k, s) # {} => k < Sent(s)

\* The broadcasts that r has still to take part in: of the steps W[s][r].
Awaited(O, s, r) == {k \in Casts : Past(r, s) <= k /\ k < Sent(s) /\ Of(O, k, s) # {}}

Increasing(w) == \A m, n \in 1 .. Len(w) : m < n => w[m] < w[n]
Entries(w) == {w[n] : n \in 1 .. Len(w)}
Images(B, w) == [n \in 1 .. Len(w) |-> B[w[n]]]
Casting(P, O, s) == [k \in Casts |-> Message(P, O, k, s)]

Queued(P, O, W, s, r) ==
    /\ W[s][r] \in Seq(Casts) /\ Increasing(W[s][r])
    /\ Entries(W[s][r]) = Awaited(O, s, r)
    /\ inbox[s][r] = Images(Casting(P, O, s), W[s][r])

MovedBy(O, i) == {k \in Steps : k < Moved(O[k][i])}
MovesCounted(O) == moves = [i \in Particles |-> Cardinality(MovedBy(O, i))]

Replay(P, S, O, W) ==
    /\ Shape
    /\ History(P, S, O)
    /\ \A r \in Ranks : Follows(P, S, O, r)
    /\ Waits(O)
    /\ \A s, r \in Ranks : s # r => Queued(P, O, W, s, r)
    /\ MovesCounted(O)

IInv == \E P, S, O, W : Replay(P, S, O, W)

-----------------------------------------------------------------------------
(* Increasing sequences and their images.                                  *)

LEMMA CastsInt == Casts \subseteq Int
BY SizesAssumption DEF Casts

LEMMA HeadOfIncreasing ==
    ASSUME NEW w \in Seq(Casts), Increasing(w), NEW k \in Entries(w),
           \A j \in Entries(w) : k <= j
    PROVE  /\ w # <<>> /\ Head(w) = k
           /\ Tail(w) \in Seq(Casts) /\ Increasing(Tail(w))
           /\ Entries(Tail(w)) = Entries(w) \ {k}
<1>1. PICK n \in 1 .. Len(w) : k = w[n]
  BY DEF Entries
<1>2. Len(w) \in Nat /\ Len(w) >= 1 /\ w # <<>>
  BY <1>1
<1>3. w[1] \in Entries(w) /\ Head(w) = w[1]
  BY <1>2 DEF Entries
<1>4. \A m \in 1 .. Len(w) : w[m] \in Int
  <2>1. \A m \in 1 .. Len(w) : w[m] \in Casts
    OBVIOUS
  <2> QED
    BY <2>1, CastsInt
<1>5. n = 1
  <2>1. k <= w[1]
    BY <1>3
  <2>2. 1 \in 1 .. Len(w)
    BY <1>2
  <2>3. ~(1 < n)
    BY <1>1, <1>4, <2>1, <2>2 DEF Increasing
  <2> QED
    BY <1>1, <2>3
<1>6. /\ Tail(w) \in Seq(Casts) /\ Len(Tail(w)) = Len(w) - 1
      /\ \A m \in 1 .. Len(w) - 1 : Tail(w)[m] = w[m + 1]
  BY <1>2
<1>7. Increasing(Tail(w))
  <2> SUFFICES ASSUME NEW m \in 1 .. Len(w) - 1, NEW l \in 1 .. Len(w) - 1, m < l
               PROVE  w[m + 1] < w[l + 1]
    BY <1>6 DEF Increasing
  <2>1. m + 1 \in 1 .. Len(w) /\ l + 1 \in 1 .. Len(w) /\ m + 1 < l + 1
    BY <1>2
  <2> QED
    BY <2>1 DEF Increasing
<1>8. Entries(Tail(w)) \subseteq Entries(w) \ {k}
  <2> SUFFICES ASSUME NEW m \in 1 .. Len(w) - 1
               PROVE  w[m + 1] \in Entries(w) /\ w[m + 1] # k
    BY <1>6 DEF Entries
  <2>1. m + 1 \in 1 .. Len(w) /\ 1 \in 1 .. Len(w) /\ 1 < m + 1
    BY <1>2
  <2>2. w[1] < w[m + 1] /\ w[1] \in Int /\ w[m + 1] \in Int
    BY <1>4, <2>1 DEF Increasing
  <2> QED
    BY <1>1, <1>5, <2>1, <2>2 DEF Entries
<1>9. Entries(w) \ {k} \subseteq Entries(Tail(w))
  <2> SUFFICES ASSUME NEW m \in 1 .. Len(w), w[m] # k
               PROVE  w[m] \in Entries(Tail(w))
    BY DEF Entries
  <2>1. m - 1 \in 1 .. Len(w) - 1 /\ (m - 1) + 1 = m
    BY <1>1, <1>2, <1>5
  <2> QED
    BY <1>6, <2>1 DEF Entries
<1> QED
  BY <1>1, <1>2, <1>3, <1>5, <1>6, <1>7, <1>8, <1>9

LEMMA AppendIncreasing ==
    ASSUME NEW w \in Seq(Casts), Increasing(w), NEW k \in Casts, \A j \in Entries(w) : j < k
    PROVE  /\ Append(w, k) \in Seq(Casts) /\ Increasing(Append(w, k))
           /\ Entries(Append(w, k)) = Entries(w) \cup {k}
<1> DEFINE v == Append(w, k)
<1>1. /\ v \in Seq(Casts) /\ Len(w) \in Nat /\ Len(v) = Len(w) + 1 /\ v[Len(w) + 1] = k
      /\ \A m \in 1 .. Len(w) : v[m] = w[m]
  OBVIOUS
<1> HIDE DEF v
<1>2. Increasing(v)
  <2> SUFFICES ASSUME NEW m \in 1 .. Len(w) + 1, NEW n \in 1 .. Len(w) + 1, m < n
               PROVE  v[m] < v[n]
    BY <1>1 DEF Increasing
  <2>1. m \in 1 .. Len(w)
    BY <1>1
  <2>2. CASE n \in 1 .. Len(w)
    BY <1>1, <2>1, <2>2 DEF Increasing
  <2>3. CASE n = Len(w) + 1
    BY <1>1, <2>1, <2>3 DEF Entries
  <2> QED
    BY <1>1, <2>2, <2>3
<1>3. Entries(v) = Entries(w) \cup {k}
  <2>1. 1 .. Len(v) = 1 .. Len(w) \cup {Len(w) + 1}
    BY <1>1
  <2>2. \A x : x \in Entries(v) <=> \E m \in 1 .. Len(w) \cup {Len(w) + 1} : x = v[m]
    BY <2>1 DEF Entries
  <2> QED
    BY <1>1, <2>2 DEF Entries
<1> QED
  BY <1>1, <1>2, <1>3 DEF v

LEMMA ImagesOf ==
    ASSUME NEW w \in Seq(Casts), NEW B
    PROVE  /\ Images(B, w) = <<>> <=> w = <<>>
           /\ w # <<>> => Head(Images(B, w)) = B[Head(w)] /\ Tail(Images(B, w)) = Images(B, Tail(w))
           /\ \A k \in Casts : Append(Images(B, w), B[k]) = Images(B, Append(w, k))
<1> DEFINE v == Images(B, w)  All == {B[k] : k \in Casts}
<1>1. Len(w) \in Nat /\ \A n \in 1 .. Len(w) : w[n] \in Casts
  OBVIOUS
<1>2. v \in Seq(All) /\ Len(v) = Len(w) /\ \A n \in 1 .. Len(w) : v[n] = B[w[n]]
  BY <1>1 DEF Images
<1>3. v = <<>> <=> w = <<>>
  BY <1>1, <1>2
<1>4. ASSUME w # <<>>
      PROVE  Head(v) = B[Head(w)] /\ Tail(v) = Images(B, Tail(w))
  <2> HIDE DEF v
  <2>1. Len(w) >= 1
    BY <1>1, <1>4
  <2>2. Head(v) = B[Head(w)]
    BY <1>2, <1>3, <1>4, <2>1
  <2>3. /\ Tail(w) \in Seq(Casts) /\ Len(Tail(w)) = Len(w) - 1
        /\ \A n \in 1 .. Len(w) - 1 : Tail(w)[n] = w[n + 1]
    BY <1>4, <2>1
  <2> DEFINE u == Tail(v)  x == Tail(w)
  <2>4. u \in Seq(All) /\ Len(u) = Len(w) - 1 /\ \A n \in 1 .. Len(w) - 1 : u[n] = v[n + 1]
    BY <1>2, <1>3, <1>4, <2>1
  <2> HIDE DEF u, x
  <2>5. \A n \in 1 .. Len(w) - 1 : u[n] = B[x[n]]
    <3> SUFFICES ASSUME NEW n \in 1 .. Len(w) - 1
                 PROVE  u[n] = B[x[n]]
      OBVIOUS
    <3>1. n + 1 \in 1 .. Len(w)
      BY <1>1
    <3> QED
      BY <1>2, <2>3, <2>4, <3>1 DEF x
  <2>6. u = [n \in 1 .. Len(w) - 1 |-> B[x[n]]]
    BY <1>1, <2>4, <2>5
  <2> QED
    BY <2>2, <2>3, <2>6 DEF Images, u, x
<1>5. ASSUME NEW k \in Casts
      PROVE  Append(v, B[k]) = Images(B, Append(w, k))
  <2> DEFINE u == Append(v, B[k])  x == Append(w, k)
  <2>1. x \in Seq(Casts) /\ Len(x) = Len(w) + 1 /\ x[Len(w) + 1] = k /\ \A m \in 1 .. Len(w) : x[m] = w[m]
    OBVIOUS
  <2> HIDE DEF v
  <2>2. u \in Seq(All) /\ Len(u) = Len(w) + 1 /\ u[Len(w) + 1] = B[k] /\ \A m \in 1 .. Len(w) : u[m] = v[m]
    BY <1>2
  <2> HIDE DEF u, x
  <2>3. \A m \in 1 .. Len(w) + 1 : u[m] = B[x[m]]
    BY <1>1, <1>2, <2>1, <2>2
  <2>4. u = [m \in 1 .. Len(w) + 1 |-> B[x[m]]]
    BY <1>1, <2>2, <2>3
  <2> QED
    BY <2>1, <2>4 DEF Images, u, x
<1> QED
  BY <1>3, <1>4, <1>5

-----------------------------------------------------------------------------
(* The clocks of the exchange, and what each action does to them.          *)

LEMMA Types ==
    ASSUME Shape, NEW r \in Ranks
    PROVE  /\ r \in Nat /\ r < numProcs /\ numProcs \in Nat /\ 0 \in Ranks
           /\ timeSteps \in Nat /\ timeSteps >= 1 /\ step[r] \in Nat /\ step[r] <= timeSteps
           /\ turn[r] \in Ranks /\ turn[r] \in Nat /\ turn[r] < numProcs /\ pc[r] \in Labels
<1>1. /\ step[r] \in 0 .. timeSteps /\ turn[r] \in Ranks /\ pc[r] \in Labels
  BY DEF Shape
<1>2. Ranks = 0 .. numProcs - 1 /\ numProcs \in Nat /\ numProcs >= 1
  BY SizesAssumption DEF Ranks
<1>3. timeSteps \in Nat /\ timeSteps >= 1
  BY SizesAssumption
<1>4. r \in Nat /\ r < numProcs /\ 0 \in Ranks /\ turn[r] \in Nat /\ turn[r] < numProcs
  BY <1>1, <1>2
<1>5. step[r] \in Nat /\ step[r] <= timeSteps
  BY <1>1, <1>3
<1> QED
  BY <1>1, <1>2, <1>3, <1>4, <1>5

LEMMA Clocks ==
    ASSUME Shape, NEW r \in Ranks, NEW s \in Ranks
    PROVE  /\ Past(r, s) \in Int /\ Past(r, s) >= -1 /\ Sent(s) \in Nat /\ Moved(s) \in Nat
           /\ step[s] \in Nat /\ step[s] <= Sent(s) /\ Sent(s) <= Moved(s)
           /\ pc[r] = "init" => Past(r, s) = -1
           /\ pc[r] # "init" => step[r] <= Past(r, s)
           /\ \A k \in Nat : k < Past(r, s) \/ k < Sent(s) \/ k < Moved(s) => Named(k)
           /\ Sent(s) <= timeSteps /\ Moved(s) <= timeSteps
<1>1. /\ step[r] \in Nat /\ step[s] \in Nat /\ step[s] <= timeSteps /\ timeSteps \in Nat
      /\ turn[r] \in Int /\ turn[s] \in Int /\ r \in Int /\ s \in Int
      /\ pc[s] = "exchange" => step[s] < timeSteps
  BY Types DEF Shape
<1>2. Past(r, s) = -1 \/ Past(r, s) = step[r] \/ (pc[r] = "exchange" /\ Past(r, s) = step[r] + 1)
  BY <1>1 DEF Past, Round
<1>3. Sent(s) = step[s] \/ (pc[s] = "exchange" /\ Sent(s) = step[s] + 1)
  BY <1>1 DEF Sent, Round
<1>4. Moved(s) = IF pc[s] = "exchange" THEN step[s] + 1 ELSE step[s]
  BY <1>1 DEF Moved
<1>5. ASSUME NEW k \in Nat, k < Past(r, s) \/ k < Sent(s) \/ k < Moved(s)
      PROVE  Named(k)
  <2>1. k < step[r] \/ (pc[r] = "exchange" /\ k = step[r]) \/ k < step[s] \/ (pc[s] = "exchange" /\ k = step[s])
    BY <1>1, <1>2, <1>3, <1>4, <1>5
  <2> QED
    BY <1>1, <2>1 DEF Named
<1>6. /\ pc[r] = "init" => Past(r, s) = -1
      /\ pc[r] # "init" => step[r] <= Past(r, s)
  BY <1>1 DEF Past, Round
<1> QED
  BY <1>1, <1>2, <1>3, <1>4, <1>5, <1>6

\* An action of r other than Exchange(r) leaves the clocks alone, but for the
\* end of the initialisation and the particles moved.
Quiet(r) == initParticlesRandom(r) \/ Decide(r) \/ Move(r) \/ Finish(r)

LEMMA QuietShape ==
    ASSUME Shape, NEW r \in Ranks, Quiet(r)
    PROVE  Shape'
<1>1. /\ loadBalanceFreq' = loadBalanceFreq /\ step' = step /\ turn' = turn
      /\ \E x \in Labels :
            /\ pc' = [pc EXCEPT ![r] = x]
            /\ \/ pc[r] = "init" /\ x = "step"
               \/ pc[r] = "step" /\ x = "move" /\ step[r] < timeSteps
               \/ pc[r] = "move" /\ x = "exchange"
               \/ pc[r] = "step" /\ x = "done" /\ step[r] = timeSteps
  BY DEF Quiet, initParticlesRandom, Decide, Move, Finish, Labels
<1>2. /\ DOMAIN particle' = DOMAIN particle /\ DOMAIN splitPoint' = DOMAIN splitPoint
      /\ DOMAIN owner' = DOMAIN owner /\ DOMAIN partSend' = DOMAIN partSend
  BY DEF Quiet, initParticlesRandom, Decide, Move, Finish
<1>3. DOMAIN inbox' = Ranks /\ \A s \in Ranks : DOMAIN inbox'[s] = Ranks
  BY DEF Shape, Quiet, initParticlesRandom, Decide, Move, Finish
<1>4. \A q \in Ranks :
          /\ pc'[q] \in Labels
          /\ pc'[q] # "exchange" => turn[q] = 0
          /\ pc'[q] = "init" => step[q] = 0
          /\ pc'[q] \in {"move", "exchange"} => step[q] < timeSteps
          /\ pc'[q] = "done" => step[q] = timeSteps
  BY <1>1 DEF Shape
<1>5. pc' \in [Ranks -> Labels]
  BY <1>1 DEF Shape
<1> QED
  BY <1>1, <1>2, <1>3, <1>4, <1>5 DEF Shape

LEMMA QuietClocks ==
    ASSUME Shape, NEW r \in Ranks, Quiet(r)
    PROVE  /\ \A q \in Ranks : q # r => pc'[q] = pc[q]
           /\ \A s \in Ranks : Sent(s)' = Sent(s)
           /\ \A q, s \in Ranks : ~(q = r /\ pc[r] = "init") => Past(q, s)' = Past(q, s)
           /\ pc[r] = "init" => \A s \in Ranks : Past(r, s)' = 0
           /\ \A s \in Ranks : Moved(s)' = IF s = r /\ pc[r] = "move" THEN Moved(s) + 1 ELSE Moved(s)
           /\ \A k \in Int : Named(k)' <=> Named(k) \/ (pc[r] = "step" /\ pc'[r] = "move" /\ k = step[r])
<1>1. /\ loadBalanceFreq' = loadBalanceFreq /\ step' = step /\ turn' = turn
      /\ \E x \in Labels :
            /\ pc' = [pc EXCEPT ![r] = x]
            /\ \/ pc[r] = "init" /\ x = "step"
               \/ pc[r] = "step" /\ x = "move" /\ step[r] < timeSteps
               \/ pc[r] = "move" /\ x = "exchange"
               \/ pc[r] = "step" /\ x = "done" /\ step[r] = timeSteps
  BY DEF Quiet, initParticlesRandom, Decide, Move, Finish, Labels
<1>2. /\ \A q \in Ranks : step[q] \in Int /\ turn[q] \in Int /\ q \in Int /\ q >= 0
      /\ pc[r] # "exchange" /\ turn[r] = 0 /\ (pc[r] = "init" => step[r] = 0)
      /\ pc \in [Ranks -> Labels]
  BY <1>1, Types DEF Shape
<1>3. /\ \A q \in Ranks : q # r => pc'[q] = pc[q]
      /\ \/ pc[r] = "init" /\ pc'[r] = "step"
         \/ pc[r] = "step" /\ pc'[r] \in {"move", "done"}
         \/ pc[r] = "move" /\ pc'[r] = "exchange"
  BY <1>1, <1>2
<1>4. \A q, s \in Ranks : Round(q, s)' = Round(q, s)
  BY <1>1, <1>2, <1>3 DEF Round
<1>5. pc[r] = "init" => \A s \in Ranks : Round(r, s)' = 0
  BY <1>1, <1>2, <1>3 DEF Round
<1>6. /\ \A q, s \in Ranks : ~(q = r /\ pc[r] = "init") => Past(q, s)' = Past(q, s)
      /\ pc[r] = "init" => \A s \in Ranks : Past(r, s)' = 0
  BY <1>3, <1>4, <1>5 DEF Past
<1>7. \A s \in Ranks : Moved(s)' = IF s = r /\ pc[r] = "move" THEN Moved(s) + 1 ELSE Moved(s)
  BY <1>1, <1>2, <1>3 DEF Moved
<1>8. ASSUME NEW k \in Int
      PROVE  Named(k)' <=> Named(k) \/ (pc[r] = "step" /\ pc'[r] = "move" /\ k = step[r])
  BY <1>1, <1>2, <1>3 DEF Named
<1> QED
  BY <1>3, <1>4, <1>6, <1>7, <1>8 DEF Sent

\* An exchange gets r past the turn of one rank, which may be its own.
LEMMA ExchangeShape ==
    ASSUME Shape, NEW r \in Ranks, Exchange(r)
    PROVE  Shape'
<1>1. /\ pc[r] = "exchange" /\ loadBalanceFreq' = loadBalanceFreq
      /\ splitPoint' = splitPoint /\ owner' = owner /\ partSend' = partSend
      /\ \/ turn[r] + 1 < numProcs /\ turn' = [turn EXCEPT ![r] = @ + 1] /\ pc' = pc /\ step' = step
         \/ /\ turn' = [turn EXCEPT ![r] = 0] /\ step' = [step EXCEPT ![r] = @ + 1]
            /\ pc' = [pc EXCEPT ![r] = "step"]
  BY DEF Exchange
<1>2. DOMAIN particle' = Ranks /\ DOMAIN inbox' = Ranks /\ \A s \in Ranks : DOMAIN inbox'[s] = Ranks
  BY DEF Shape, Exchange, Send, Receive
<1>3. /\ \A q \in Ranks : turn[q] \in Ranks /\ pc[q] \in Labels /\ step[q] \in 0 .. timeSteps
      /\ timeSteps \in Nat /\ numProcs \in Nat /\ step[r] < timeSteps
      /\ 0 \in Ranks /\ (turn[r] + 1 < numProcs => turn[r] + 1 \in Ranks)
  <2>1. turn[r] \in Nat /\ numProcs \in Nat /\ 0 \in Ranks
    BY Types
  <2>2. turn[r] + 1 < numProcs => turn[r] + 1 \in Ranks
    BY <2>1 DEF Ranks
  <2>3. \A q \in Ranks : turn[q] \in Ranks /\ pc[q] \in Labels /\ step[q] \in 0 .. timeSteps
    BY DEF Shape
  <2> QED
    BY <1>1, <2>1, <2>2, <2>3, Types DEF Shape
<1>4. step[r] + 1 \in 0 .. timeSteps
  BY <1>3
<1>5. turn' \in [Ranks -> Ranks] /\ step' \in [Ranks -> 0 .. timeSteps] /\ pc' \in [Ranks -> Labels]
  BY <1>1, <1>3, <1>4 DEF Shape, Labels
<1>6. \A q \in Ranks :
          /\ pc'[q] # "exchange" => turn'[q] = 0
          /\ pc'[q] = "init" => step'[q] = 0
          /\ pc'[q] \in {"move", "exchange"} => step'[q] < timeSteps
          /\ pc'[q] = "done" => step'[q] = timeSteps
  BY <1>1 DEF Shape
<1> QED
  BY <1>1, <1>2, <1>5, <1>6 DEF Shape

LEMMA ExchangeClocks ==
    ASSUME Shape, NEW r \in Ranks, Exchange(r)
    PROVE  /\ \A q \in Ranks : q # r => pc'[q] = pc[q] /\ step'[q] = step[q] /\ turn'[q] = turn[q]
           /\ \A q, s \in Ranks : Past(q, s)' = IF q = r /\ s = turn[r] THEN step[r] + 1 ELSE Past(q, s)
           /\ Past(r, turn[r]) = step[r]
           /\ \A s \in Ranks : Sent(s)' = IF s = r /\ turn[r] = r THEN step[r] + 1 ELSE Sent(s)
           /\ turn[r] = r => Sent(r) = step[r]
           /\ \A s \in Ranks : Moved(s)' = Moved(s)
           /\ \A k \in Int : Named(k)' <=> Named(k)
<1>1. /\ pc[r] = "exchange"
      /\ \/ turn[r] + 1 < numProcs /\ turn' = [turn EXCEPT ![r] = @ + 1] /\ pc' = pc /\ step' = step
         \/ /\ turn[r] + 1 >= numProcs
            /\ turn' = [turn EXCEPT ![r] = 0] /\ step' = [step EXCEPT ![r] = @ + 1]
            /\ pc' = [pc EXCEPT ![r] = "step"]
  BY Types DEF Exchange
<1>2. /\ \A q \in Ranks : step[q] \in Int /\ turn[q] \in Int /\ q \in Int /\ q >= 0 /\ q < numProcs
      /\ pc \in [Ranks -> Labels] /\ turn[r] \in Ranks /\ numProcs \in Int
      /\ DOMAIN step = Ranks /\ DOMAIN turn = Ranks
  BY Types DEF Shape
<1>3. \A q \in Ranks : q # r => pc'[q] = pc[q] /\ step'[q] = step[q] /\ turn'[q] = turn[q]
  BY <1>1, <1>2
<1>4. \A s \in Ranks : Round(r, s)' = IF s = turn[r] THEN step[r] + 1 ELSE Round(r, s)
  <2>1. CASE turn[r] + 1 < numProcs
    BY <1>1, <1>2, <2>1 DEF Round
  <2>2. CASE turn[r] + 1 >= numProcs
    BY <1>1, <1>2, <2>2 DEF Round
  <2> QED
    BY <1>2, <2>1, <2>2
<1>5. \A q, s \in Ranks : q # r => Round(q, s)' = Round(q, s)
  BY <1>3 DEF Round
<1>6. Round(r, turn[r]) = step[r] /\ pc'[r] \in {"exchange", "step"}
  BY <1>1, <1>2 DEF Round
<1>7. \A q, s \in Ranks : Past(q, s)' = IF q = r /\ s = turn[r] THEN step[r] + 1 ELSE Past(q, s)
  BY <1>1, <1>3, <1>4, <1>5, <1>6 DEF Past
<1>8. Past(r, turn[r]) = step[r]
  BY <1>1, <1>6 DEF Past
<1>9. /\ \A s \in Ranks : Sent(s)' = IF s = r /\ turn[r] = r THEN step[r] + 1 ELSE Sent(s)
      /\ turn[r] = r => Sent(r) = step[r]
  BY <1>4, <1>5, <1>6 DEF Sent
<1>10. \A s \in Ranks : Moved(s)' = Moved(s)
  BY <1>1, <1>2, <1>3 DEF Moved
<1>11. ASSUME NEW k \in Int
       PROVE  Named(k)' <=> Named(k)
  <2>1. \A q \in Ranks : q # r =>
           (step'[q] > k \/ (step'[q] = k /\ pc'[q] \in {"move", "exchange"})
            <=> step[q] > k \/ (step[q] = k /\ pc[q] \in {"move", "exchange"}))
    BY <1>3
  <2>2. step'[r] > k \/ (step'[r] = k /\ pc'[r] \in {"move", "exchange"})
        <=> step[r] > k \/ (step[r] = k /\ pc[r] \in {"move", "exchange"})
    BY <1>1, <1>2
  <2> QED
    BY <2>1, <2>2 DEF Named
<1> QED
  BY <1>3, <1>7, <1>8, <1>9, <1>10, <1>11

-----------------------------------------------------------------------------
(* What a rank finds in a queue, and what it makes of it.                  *)

LEMMA ImagesSame ==
    ASSUME NEW w \in Seq(Casts), NEW B, NEW C, \A k \in Entries(w) : B[k] = C[k]
    PROVE  Images(B, w) = Images(C, w)
BY DEF Images, Entries

LEMMA OfFinite ==
    ASSUME NEW O, NEW k, NEW s
    PROVE  /\ Of(O, k, s) \subseteq Particles /\ IsFiniteSet(Of(O, k, s))
           /\ Cardinality(Of(O, k, s)) \in Nat
           /\ Cardinality(Of(O, k, s)) = 0 <=> Of(O, k, s) = {}
<1>1. IsFiniteSet(Particles)
  BY SizesAssumption, FS_Interval DEF Particles
<1>2. Of(O, k, s) \subseteq Particles
  BY DEF Of
<1> QED
  BY <1>1, <1>2, FS_Subset, FS_CardinalityType, FS_EmptySet

\* A rank counts the particles of the history's owners.
LEMMA CountsOwners ==
    ASSUME NEW P, NEW S, NEW O, NEW r \in Ranks, Follows(P, S, O, r), pc[r] \in {"move", "exchange"}
    PROVE  /\ \A q \in Ranks : numOwned(r, q) = Cardinality(Of(O, step[r], q))
           /\ Owned(r) = Of(O, step[r], r)
BY DEF Follows, numOwned, Owned, Of

\* All entries of a message are sprayed.
LEMMA FirstIsAll ==
    ASSUME NEW message, DOMAIN message \subseteq Particles
    PROVE  First(message, Cardinality(DOMAIN message)) = DOMAIN message
<1> DEFINE D == DOMAIN message
<1>1. IsFiniteSet(D)
  <2>1. IsFiniteSet(Particles)
    BY SizesAssumption, FS_Interval DEF Particles
  <2> QED
    BY <2>1, FS_Subset
<1> SUFFICES ASSUME NEW i \in D
             PROVE  Cardinality({j \in D : j < i}) < Cardinality(D)
  BY DEF First
<1> DEFINE E == {j \in D : j < i}
<1>2. E \subseteq D \ {i}
  <2>1. i \in Int
    BY SizesAssumption DEF Particles
  <2> QED
    BY <2>1
<1>3. IsFiniteSet(D \ {i}) /\ Cardinality(D \ {i}) = Cardinality(D) - 1
  BY <1>1, FS_RemoveElement
<1>4. Cardinality(E) <= Cardinality(D \ {i}) /\ IsFiniteSet(E)
  BY <1>2, <1>3, FS_Subset
<1>5. Cardinality(E) \in Nat /\ Cardinality(D) \in Nat
  BY <1>1, <1>4, FS_CardinalityType
<1> HIDE DEF E, D
<1>6. Cardinality(E) < Cardinality(D)
  BY <1>3, <1>4, <1>5
<1> QED
  BY <1>6 DEF E, D

\* The first broadcast in a queue is of the step its receiver is in, the sender
\* has sent it, and the rest of the queue is what is awaited after it.
Heads(P, O, W, q, r) ==
    /\ step[r] \in Steps /\ step[r] < Sent(q)
    /\ Head(inbox[q][r]) = Message(P, O, step[r], q)
    /\ Tail(inbox[q][r]) = Images(Casting(P, O, q), Tail(W[q][r]))
    /\ Tail(W[q][r]) \in Seq(Casts) /\ Increasing(Tail(W[q][r]))
    /\ Entries(Tail(W[q][r])) = Awaited(O, q, r) \ {step[r]}

LEMMA HeadIsOfThisStep ==
    ASSUME NEW P, NEW S, NEW O, NEW W, Replay(P, S, O, W), NEW r \in Ranks, NEW q \in Ranks,
           pc[r] = "exchange", turn[r] = q, q # r, Of(O, step[r], q) # {}, inbox[q][r] # <<>>
    PROVE  Heads(P, O, W, q, r)
<1>1. Shape /\ Queued(P, O, W, q, r)
  BY DEF Replay
<1> DEFINE w == W[q][r]
<1>2. /\ w \in Seq(Casts) /\ Increasing(w) /\ Entries(w) = Awaited(O, q, r)
      /\ inbox[q][r] = Images(Casting(P, O, q), w)
  BY <1>1 DEF Queued
<1>3. step[r] \in Steps /\ step[r] \in Casts
  <2>1. step[r] \in Nat /\ step[r] < timeSteps /\ timeSteps \in Nat
    BY <1>1, Types DEF Shape
  <2> QED
    BY <2>1 DEF Steps, Casts
<1>4. Past(r, q) = step[r]
  BY <1>1, Types DEF Past, Round
<1> HIDE DEF w
<1>5. w # <<>>
  BY <1>2, ImagesOf
<1>6. PICK j \in Casts : j \in Awaited(O, q, r)
  <2>1. Len(w) \in Nat /\ Len(w) >= 1
    BY <1>2, <1>5
  <2>2. w[1] \in Entries(w)
    BY <2>1 DEF Entries
  <2> QED
    BY <1>2, <2>2 DEF Awaited
<1>7. step[r] <= j /\ j < Sent(q)
  BY <1>4, <1>6 DEF Awaited
<1>8. step[r] < Sent(q)
  BY <1>1, <1>3, <1>7, CastsInt, Clocks
<1>9. step[r] \in Awaited(O, q, r)
  BY <1>1, <1>3, <1>4, <1>8, Types DEF Awaited
<1>10. \A i \in Entries(w) : step[r] <= i
  BY <1>2, <1>4 DEF Awaited
<1>11. /\ Head(w) = step[r] /\ Tail(w) \in Seq(Casts) /\ Increasing(Tail(w))
       /\ Entries(Tail(w)) = Entries(w) \ {step[r]}
  BY <1>2, <1>9, <1>10, HeadOfIncreasing
<1>12. /\ Head(inbox[q][r]) = Casting(P, O, q)[step[r]]
       /\ Tail(inbox[q][r]) = Images(Casting(P, O, q), Tail(w))
  BY <1>2, <1>5, <1>11, ImagesOf
<1>13. Casting(P, O, q)[step[r]] = Message(P, O, step[r], q)
  BY <1>3 DEF Casting
<1> QED
  BY <1>2, <1>3, <1>8, <1>11, <1>12, <1>13 DEF w, Heads

-----------------------------------------------------------------------------
(* Steps: the parts of the invariant that most actions leave alone.        *)

LEMMA HistoryStays ==
    ASSUME NEW P, NEW S, NEW O, History(P, S, O), loadBalanceFreq' = loadBalanceFreq,
           \A k \in Int : Named(k)' <=> Named(k)
    PROVE  History(P, S, O)'
<1>1. \A k : DueIn(k)' = DueIn(k)
  BY DEF DueIn
<1>2. \A i, pts, split : getOwner(i, pts, split)' = getOwner(i, pts, split)
  BY DEF getOwner
<1>3. Steps \subseteq Int
  BY SizesAssumption DEF Steps
<1>4. \A k \in Steps : Named(k)' <=> Named(k)
  BY <1>3
<1> QED
  BY <1>1, <1>2, <1>4 DEF History

LEMMA FollowsStays ==
    ASSUME NEW P, NEW S, NEW O, NEW q \in Ranks, Follows(P, S, O, q),
           pc'[q] = pc[q], step'[q] = step[q], turn'[q] = turn[q], particle'[q] = particle[q],
           splitPoint'[q] = splitPoint[q], owner'[q] = owner[q], partSend'[q] = partSend[q]
    PROVE  Follows(P, S, O, q)'
BY DEF Follows

LEMMA QueuedStays ==
    ASSUME NEW P, NEW O, NEW W, NEW s \in Ranks, NEW r \in Ranks, Queued(P, O, W, s, r),
           NEW P2, NEW O2, NEW W2, W2[s][r] = W[s][r], inbox'[s][r] = inbox[s][r],
           Awaited(O2, s, r)' = Awaited(O, s, r),
           \A k \in Awaited(O, s, r) : Message(P2, O2, k, s) = Message(P, O, k, s)
    PROVE  Queued(P2, O2, W2, s, r)'
<1>1. Awaited(O, s, r) \subseteq Casts
  BY DEF Awaited
<1>2. \A k \in Awaited(O, s, r) : Casting(P2, O2, s)[k] = Casting(P, O, s)[k]
  BY <1>1 DEF Casting
<1>3. Images(Casting(P2, O2, s), W[s][r]) = Images(Casting(P, O, s), W[s][r])
  BY <1>2, ImagesSame DEF Queued
<1> QED
  BY <1>3 DEF Queued

\* A clock that only r has advanced.
LEMMA AwaitedStays ==
    ASSUME NEW O, NEW s \in Ranks, NEW r \in Ranks, Past(r, s)' = Past(r, s), Sent(s)' = Sent(s)
    PROVE  Awaited(O, s, r)' = Awaited(O, s, r)
BY DEF Awaited

LEMMA CountsStay ==
    ASSUME NEW O, O \in [Casts -> [Particles -> Ranks]], MovesCounted(O), moves' = moves,
           \A s \in Ranks : Moved(s)' = Moved(s)
    PROVE  MovesCounted(O)'
<1>1. Steps \subseteq Casts
  BY SizesAssumption DEF Steps, Casts
<1>2. \A i \in Particles, k \in Steps : O[k][i] \in Ranks
  BY <1>1
<1>3. \A i \in Particles : MovedBy(O, i)' = MovedBy(O, i)
  BY <1>2 DEF MovedBy
<1> QED
  BY <1>3 DEF MovesCounted

-----------------------------------------------------------------------------

LEMMA StepInit ==
    ASSUME NEW P, NEW S, NEW O, NEW W, Replay(P, S, O, W), NEW r \in Ranks, initParticlesRandom(r)
    PROVE  IInv'
<1>1. /\ Shape /\ History(P, S, O) /\ Waits(O) /\ MovesCounted(O)
      /\ \A q \in Ranks : Follows(P, S, O, q)
      /\ \A s, q \in Ranks : s # q => Queued(P, O, W, s, q)
  BY DEF Replay
<1>2. /\ pc[r] = "init" /\ pc' = [pc EXCEPT ![r] = "step"]
      /\ UNCHANGED <<loadBalanceFreq, step, turn, splitPoint, owner, partSend, moves>>
      /\ Quiet(r)
  BY DEF initParticlesRandom, Quiet
<1>3. Shape'
  BY <1>1, <1>2, QuietShape
<1>4. /\ \A s \in Ranks : Sent(s)' = Sent(s) /\ Moved(s)' = Moved(s)
      /\ \A q, s \in Ranks : q # r => Past(q, s)' = Past(q, s)
      /\ \A s \in Ranks : Past(r, s) = -1 /\ Past(r, s)' = 0
      /\ \A k \in Int : Named(k)' <=> Named(k)
  BY <1>1, <1>2, QuietClocks, Clocks
<1>5. PICK W2 : W2 = [s \in Ranks |-> [q \in Ranks |->
                         IF s = 0 /\ q = r /\ r # 0 THEN Tail(W[s][q]) ELSE W[s][q]]]
  OBVIOUS
<1>6. History(P, S, O)'
  BY <1>1, <1>2, <1>4, HistoryStays
<1>7. /\ O[-1] = [i \in Particles |-> 0] /\ -1 \in Casts /\ Casts \subseteq Int
      /\ DOMAIN P[0] = Particles /\ P[0] = [i \in Particles |-> P[0][i]]
  <2>1. -1 \in Casts /\ 0 \in 0 .. timeSteps
    BY SizesAssumption DEF Casts
  <2> QED
    BY <1>1, <2>1, CastsInt DEF History, Placings
<1>8. \A s \in Ranks \ {0} : Of(O, -1, s) = {}
  BY <1>7 DEF Of
<1>9. Of(O, -1, 0) = Particles /\ Particles # {} /\ Message(P, O, -1, 0) = P[0]
  <2>1. Of(O, -1, 0) = Particles
    BY <1>7 DEF Of
  <2>2. 0 \in Particles
    BY SizesAssumption DEF Particles
  <2>3. (-1) + 1 = 0
    OBVIOUS
  <2> QED
    BY <1>7, <2>1, <2>2, <2>3 DEF Message
<1>10. ASSUME NEW s \in Ranks
       PROVE  Awaited(O, s, r)' = Awaited(O, s, r) \ {-1}
  BY <1>4, <1>7 DEF Awaited, Casts
<1>11. ASSUME NEW s \in Ranks \ {0}
       PROVE  Awaited(O, s, r)' = Awaited(O, s, r)
  <2>1. -1 \notin Awaited(O, s, r)
    BY <1>8 DEF Awaited
  <2> QED
    BY <1>10, <2>1
<1>12. ASSUME r = 0
       PROVE  Follows(P, S, O, r)' /\ \A s, q \in Ranks : s # q => Queued(P, O, W2, s, q)'
  <2>1. inbox' = inbox /\ particle' = particle
    BY <1>12 DEF initParticlesRandom
  <2>2. \A s, q \in Ranks : W2[s][q] = W[s][q]
    BY <1>5, <1>12
  <2>3. ASSUME NEW s \in Ranks, NEW q \in Ranks, s # q
        PROVE  Queued(P, O, W2, s, q)'
    <3>1. Awaited(O, s, q)' = Awaited(O, s, q)
      BY <1>4, <1>11, <1>12, <2>3, AwaitedStays
    <3> QED
      BY <1>1, <2>1, <2>2, <2>3, <3>1, QueuedStays
  <2>4. Follows(P, S, O, r)'
    <3>1. particle[r] = P[0] /\ splitPoint[r] = Center /\ step[r] = 0 /\ S[0] = Center
      BY <1>1, <1>2, <1>12 DEF Follows, Shape, History
    <3>2. pc'[r] = "step"
      BY <1>1, <1>2 DEF Shape
    <3> QED
      BY <1>2, <2>1, <3>1, <3>2 DEF Follows
  <2> QED
    BY <2>3, <2>4
<1>13. ASSUME r # 0
       PROVE  Follows(P, S, O, r)' /\ \A s, q \in Ranks : s # q => Queued(P, O, W2, s, q)'
  <2>1. /\ inbox[0][r] # <<>> /\ particle' = [particle EXCEPT ![r] = Head(inbox[0][r])]
        /\ inbox' = [inbox EXCEPT ![0][r] = Tail(@)]
    BY <1>13 DEF initParticlesRandom
  <2>2. 0 \in Ranks /\ DOMAIN inbox = Ranks /\ DOMAIN particle = Ranks /\ \A s \in Ranks : DOMAIN inbox[s] = Ranks
    BY <1>1, Types DEF Shape
  <2>3. /\ \A s, q \in Ranks : ~(s = 0 /\ q = r) => inbox'[s][q] = inbox[s][q]
        /\ inbox'[0][r] = Tail(inbox[0][r])
    BY <2>1, <2>2
  <2> DEFINE w == W[0][r]
  <2>4. /\ w \in Seq(Casts) /\ Increasing(w) /\ Entries(w) = Awaited(O, 0, r)
        /\ inbox[0][r] = Images(Casting(P, O, 0), w)
    BY <1>1, <1>13, <2>2 DEF Queued
  <2> HIDE DEF w
  <2>5. -1 \in Entries(w) /\ \A j \in Entries(w) : -1 <= j
    <3>1. -1 < Sent(0)
      BY <1>1, <2>2, Clocks
    <3> QED
      BY <1>4, <1>7, <1>9, <2>2, <2>4, <3>1 DEF Awaited
  <2>6. /\ w # <<>> /\ Head(w) = -1 /\ Tail(w) \in Seq(Casts) /\ Increasing(Tail(w))
        /\ Entries(Tail(w)) = Awaited(O, 0, r)'
    BY <1>10, <2>2, <2>4, <2>5, HeadOfIncreasing
  <2>7. Head(inbox[0][r]) = P[0] /\ Tail(inbox[0][r]) = Images(Casting(P, O, 0), Tail(w))
    <3>1. Casting(P, O, 0)[-1] = P[0]
      BY <1>7, <1>9 DEF Casting
    <3> QED
      BY <2>4, <2>6, <3>1, ImagesOf
  <2>8. W2[0][r] = Tail(w) /\ \A s, q \in Ranks : ~(s = 0 /\ q = r) => W2[s][q] = W[s][q]
    BY <1>5, <1>13, <2>2 DEF w
  <2>9. ASSUME NEW s \in Ranks, NEW q \in Ranks, s # q
        PROVE  Queued(P, O, W2, s, q)'
    <3>1. CASE s = 0 /\ q = r
      BY <2>3, <2>6, <2>7, <2>8, <3>1 DEF Queued
    <3>2. CASE ~(s = 0 /\ q = r)
      <4>1. Awaited(O, s, q)' = Awaited(O, s, q)
        BY <1>4, <1>11, <2>9, <3>2, AwaitedStays
      <4> QED
        BY <1>1, <2>3, <2>8, <2>9, <3>2, <4>1, QueuedStays
    <3> QED
      BY <3>1, <3>2
  <2>10. Follows(P, S, O, r)'
    <3>1. particle'[r] = P[0] /\ splitPoint[r] = Center /\ step[r] = 0 /\ S[0] = Center
      BY <1>1, <1>2, <2>1, <2>2, <2>7 DEF Follows, Shape, History
    <3>2. pc'[r] = "step"
      BY <1>1, <1>2 DEF Shape
    <3> QED
      BY <1>2, <3>1, <3>2 DEF Follows
  <2> QED
    BY <2>9, <2>10
<1>14. \A q \in Ranks : q # r => Follows(P, S, O, q)'
  <2>1. \A q \in Ranks : q # r => particle'[q] = particle[q]
    BY <1>1 DEF initParticlesRandom, Shape
  <2>2. \A q \in Ranks : q # r => pc'[q] = pc[q]
    BY <1>2
  <2> QED
    BY <1>1, <1>2, <2>1, <2>2, FollowsStays
<1>15. Waits(O)'
  <2> SUFFICES ASSUME NEW q \in Ranks, NEW s \in Ranks, NEW k \in Steps,
                      q # s, k < Past(q, s)', Of(O, k, s) # {}
               PROVE  k < Sent(s)'
    BY DEF Waits
  <2>1. k \in Int /\ k >= 0
    BY SizesAssumption DEF Steps
  <2>2. q # r
    BY <1>4, <2>1
  <2> QED
    BY <1>1, <1>4, <2>2 DEF Waits
<1>16. MovesCounted(O)'
  BY <1>1, <1>2, <1>4, CountsStay DEF History
<1> QED
  <2>1. Follows(P, S, O, r)' /\ \A s, q \in Ranks : s # q => Queued(P, O, W2, s, q)'
    BY <1>12, <1>13
  <2>2. Replay(P, S, O, W2)'
    BY <1>3, <1>6, <1>14, <1>15, <1>16, <2>1 DEF Replay
  <2> QED
    BY <2>2 DEF IInv

LEMMA StepFinish ==
    ASSUME NEW P, NEW S, NEW O, NEW W, Replay(P, S, O, W), NEW r \in Ranks, Finish(r)
    PROVE  IInv'
<1>1. /\ Shape /\ History(P, S, O) /\ Waits(O) /\ MovesCounted(O)
      /\ \A q \in Ranks : Follows(P, S, O, q)
      /\ \A s, q \in Ranks : s # q => Queued(P, O, W, s, q)
  BY DEF Replay
<1>2. /\ pc[r] = "step" /\ pc' = [pc EXCEPT ![r] = "done"]
      /\ UNCHANGED <<loadBalanceFreq, step, turn, particle, splitPoint, owner, partSend, inbox, moves>>
      /\ Quiet(r)
  BY DEF Finish, Quiet
<1>3. pc'[r] = "done" /\ \A q \in Ranks : q # r => pc'[q] = pc[q]
  BY <1>1, <1>2 DEF Shape
<1>4. /\ \A s \in Ranks : Sent(s)' = Sent(s) /\ Moved(s)' = Moved(s)
      /\ \A q, s \in Ranks : Past(q, s)' = Past(q, s)
      /\ \A k \in Int : Named(k)' <=> Named(k)
  BY <1>1, <1>2, <1>3, QuietClocks
<1>5. Shape' /\ History(P, S, O)' /\ MovesCounted(O)'
  <2>1. O \in [Casts -> [Particles -> Ranks]]
    BY <1>1 DEF History
  <2>2. Shape'
    BY <1>1, <1>2, QuietShape
  <2>3. History(P, S, O)'
    BY <1>1, <1>2, <1>4, HistoryStays
  <2>4. MovesCounted(O)'
    BY <1>1, <1>2, <1>4, <2>1, CountsStay
  <2> QED
    BY <2>2, <2>3, <2>4
<1>6. ASSUME NEW q \in Ranks
      PROVE  Follows(P, S, O, q)'
  <2>1. CASE q # r
    BY <1>1, <1>2, <1>3, <2>1, FollowsStays
  <2>2. CASE q = r
    BY <1>1, <1>2, <1>3, <2>2 DEF Follows
  <2> QED
    BY <2>1, <2>2
<1>7. Waits(O)'
  BY <1>1, <1>4 DEF Waits
<1>8. ASSUME NEW s \in Ranks, NEW q \in Ranks, s # q
      PROVE  Queued(P, O, W, s, q)'
  <2>1. Awaited(O, s, q)' = Awaited(O, s, q)
    BY <1>4, AwaitedStays
  <2> QED
    BY <1>1, <1>2, <1>8, <2>1, QueuedStays
<1> QED
  BY <1>5, <1>6, <1>7, <1>8 DEF Replay, IInv

LEMMA OwnerIsRank ==
    ASSUME NEW i \in Particles, NEW pts, NEW split, loadBalanceFreq \in LoadBalanceFreqs
    PROVE  getOwner(i, pts, split) \in Ranks
<1>1. numProcs \in Nat /\ numProcs >= 1 /\ i \in Int
  BY SizesAssumption DEF Particles
<1>2. ASSUME NEW n \in Int
      PROVE  n % numProcs \in Ranks
  BY <1>1 DEF Ranks
<1>3. Octant(pts[i], split) \in Int
  BY DEF Octant
<1>4. i % numProcs \in Ranks /\ Octant(pts[i], split) % numProcs \in Ranks
  BY <1>1, <1>2, <1>3
<1> QED
  BY <1>4 DEF getOwner

LEMMA StepDecide ==
    ASSUME NEW P, NEW S, NEW O, NEW W, Replay(P, S, O, W), NEW r \in Ranks, Decide(r)
    PROVE  IInv'
<1>1. /\ Shape /\ History(P, S, O) /\ Waits(O) /\ MovesCounted(O)
      /\ \A q \in Ranks : Follows(P, S, O, q)
      /\ \A s, q \in Ranks : s # q => Queued(P, O, W, s, q)
  BY DEF Replay
<1>2. /\ pc[r] = "step" /\ pc' = [pc EXCEPT ![r] = "move"] /\ step[r] < timeSteps
      /\ UNCHANGED <<loadBalanceFreq, step, turn, particle, partSend, inbox, moves>>
      /\ splitPoint' = [splitPoint EXCEPT ![r] = IF Due(r) THEN loadBalance(particle[r]) ELSE @]
      /\ owner' = [owner EXCEPT ![r] = [i \in Particles |-> getOwner(i, particle[r], splitPoint'[r])]]
      /\ Quiet(r)
  BY DEF Decide, Quiet
<1>3. /\ pc'[r] = "move"
      /\ \A q \in Ranks : q # r => pc'[q] = pc[q] /\ splitPoint'[q] = splitPoint[q] /\ owner'[q] = owner[q]
  BY <1>1, <1>2 DEF Shape
<1>4. PICK k : k = step[r]
  OBVIOUS
<1>5. k \in Steps /\ k \in Casts /\ k \in Int /\ k + 1 \in 0 .. timeSteps /\ k \in 0 .. timeSteps
  BY <1>1, <1>2, <1>4, Types DEF Steps, Casts
<1>6. particle[r] = P[k] /\ splitPoint[r] = S[k]
  BY <1>1, <1>2, <1>4 DEF Follows
<1>7. splitPoint'[r] = IF DueIn(k) THEN loadBalance(P[k]) ELSE S[k]
  BY <1>1, <1>2, <1>4, <1>6 DEF Shape, Due, DueIn
<1>8. owner'[r] = [i \in Particles |-> getOwner(i, P[k], splitPoint'[r])]
  BY <1>1, <1>2, <1>6 DEF Shape
<1>9. owner'[r] \in [Particles -> Ranks]
  BY <1>1, <1>8, OwnerIsRank DEF Shape
<1>10. PICK S2 : S2 = [S EXCEPT ![k + 1] = splitPoint'[r]]
  OBVIOUS
<1>11. PICK O2 : O2 = [O EXCEPT ![k] = owner'[r]]
  OBVIOUS
<1>12. /\ S2[k + 1] = splitPoint'[r] /\ O2[k] = owner'[r]
       /\ DOMAIN S2 = 0 .. timeSteps /\ O2 \in [Casts -> [Particles -> Ranks]]
       /\ \A j \in Casts : j # k => O2[j] = O[j]
       /\ \A j \in 0 .. timeSteps : j # k + 1 => S2[j] = S[j]
  BY <1>1, <1>5, <1>9, <1>10, <1>11 DEF History
<1>13. Named(k) => O2[k] = O[k] /\ S2[k + 1] = S[k + 1]
  <2> SUFFICES ASSUME Named(k)
               PROVE  O2[k] = O[k] /\ S2[k + 1] = S[k + 1]
    OBVIOUS
  <2>1. /\ S[k + 1] = IF DueIn(k) THEN loadBalance(P[k]) ELSE S[k]
        /\ O[k] = [i \in Particles |-> getOwner(i, P[k], S[k + 1])]
    BY <1>1, <1>5 DEF History
  <2> QED
    BY <1>7, <1>8, <1>12, <2>1
<1>14. /\ \A s \in Ranks : Sent(s)' = Sent(s) /\ Moved(s)' = Moved(s)
       /\ \A q, s \in Ranks : Past(q, s)' = Past(q, s)
       /\ \A j \in Int : Named(j)' <=> Named(j) \/ j = k
  BY <1>1, <1>2, <1>3, <1>4, QuietClocks
<1>15. \A j \in Casts : j = -1 \/ Named(j) => O2[j] = O[j]
  BY <1>5, <1>12, <1>13 DEF Steps
<1>16. Steps \subseteq Nat /\ Steps \subseteq Casts /\ Casts \subseteq {-1} \cup Nat
  BY SizesAssumption DEF Steps, Casts
<1>17. Shape'
  BY <1>1, <1>2, QuietShape
<1>18. History(P, S2, O2)'
  <2>1. S2[0] = Center
    <3>1. 0 \in 0 .. timeSteps /\ 0 # k + 1
      BY <1>5, SizesAssumption DEF Steps
    <3> QED
      BY <1>1, <1>12, <3>1 DEF History
  <2>2. O2[-1] = [i \in Particles |-> 0]
    BY <1>1, <1>5, <1>12, SizesAssumption DEF History, Steps, Casts
  <2>3. ASSUME NEW j \in Steps, Named(j)'
        PROVE  /\ S2[j + 1] = IF DueIn(j) THEN loadBalance(P[j]) ELSE S2[j]
               /\ O2[j] = [i \in Particles |-> getOwner(i, P[j], S2[j + 1])]
    <3>1. j \in Int /\ j \in 0 .. timeSteps /\ j + 1 \in 0 .. timeSteps
      BY SizesAssumption DEF Steps
    <3>2. CASE j = k
      <4>1. S2[k] = S[k]
        BY <1>5, <1>12
      <4> QED
        BY <1>7, <1>8, <1>12, <3>2, <4>1
    <3>3. CASE j # k
      <4>1. Named(j)
        BY <1>14, <2>3, <3>1, <3>3
      <4>2. S2[j + 1] = S[j + 1] /\ O2[j] = O[j]
        BY <1>5, <1>12, <1>16, <3>1, <3>3
      <4>3. S2[j] = S[j]
        <5>1. j = k + 1 => Named(k)
          BY <1>1, <1>5, <4>1, Types DEF Named
        <5> QED
          BY <1>12, <1>13, <3>1, <5>1
      <4> QED
        BY <1>1, <4>1, <4>2, <4>3 DEF History
    <3> QED
      BY <3>2, <3>3
  <2>4. /\ \A j : DueIn(j)' = DueIn(j)
        /\ \A i, pts, split : getOwner(i, pts, split)' = getOwner(i, pts, split)
    BY <1>2 DEF DueIn, getOwner
  <2>5. P \in [0 .. timeSteps -> Placings]
    BY <1>1 DEF History
  <2> QED
    BY <1>12, <2>1, <2>2, <2>3, <2>4, <2>5 DEF History
<1>19. ASSUME NEW q \in Ranks, q # r
       PROVE  Follows(P, S2, O2, q)'
  <2>1. step[q] \in Int /\ step[q] \in 0 .. timeSteps
    BY <1>1, Types
  <2>2. S2[step[q]] = S[step[q]]
    <3>1. step[q] = k + 1 => Named(k)
      BY <1>5, <2>1 DEF Named
    <3> QED
      BY <1>12, <1>13, <2>1, <3>1
  <2>3. ASSUME pc[q] \in {"move", "exchange"}
        PROVE  S2[step[q] + 1] = S[step[q] + 1] /\ O2[step[q]] = O[step[q]]
    <3>1. Named(step[q]) /\ step[q] \in Casts /\ step[q] + 1 \in 0 .. timeSteps
      BY <1>1, <2>1, <2>3, SizesAssumption DEF Named, Shape, Casts
    <3>2. O2[step[q]] = O[step[q]]
      BY <1>15, <3>1
    <3>3. CASE step[q] = k
      BY <1>13, <3>1, <3>2, <3>3
    <3>4. CASE step[q] # k
      BY <1>5, <1>12, <2>1, <3>1, <3>2, <3>4
    <3> QED
      BY <3>3, <3>4
  <2>4. /\ pc'[q] = pc[q] /\ step' = step /\ turn' = turn /\ particle' = particle
        /\ splitPoint'[q] = splitPoint[q] /\ owner'[q] = owner[q] /\ partSend' = partSend
    BY <1>2, <1>3, <1>19
  <2>5. Follows(P, S, O, q)
    BY <1>1
  <2> QED
    BY <2>2, <2>3, <2>4, <2>5 DEF Follows, Mixed, Message, Of
<1>20. Follows(P, S2, O2, r)'
  BY <1>2, <1>3, <1>4, <1>6, <1>12 DEF Follows
<1>21. Waits(O2)'
  <2> SUFFICES ASSUME NEW q \in Ranks, NEW s \in Ranks, NEW j \in Steps,
                      q # s, j < Past(q, s), Of(O2, j, s) # {}
               PROVE  j < Sent(s)
    BY <1>14 DEF Waits
  <2>1. Named(j)
    BY <1>1, <1>16, Clocks
  <2>2. Of(O2, j, s) = Of(O, j, s)
    BY <1>15, <1>16, <2>1 DEF Of
  <2> QED
    BY <1>1, <2>2 DEF Waits
<1>22. ASSUME NEW s \in Ranks, NEW q \in Ranks, s # q
       PROVE  Queued(P, O2, W, s, q)'
  <2>1. ASSUME NEW j \in Casts, j < Sent(s)
        PROVE  Of(O2, j, s) = Of(O, j, s)
    <3>1. j = -1 \/ Named(j)
      BY <1>1, <1>16, <2>1, Clocks
    <3> QED
      BY <1>15, <3>1 DEF Of
  <2>2. Awaited(O2, s, q)' = Awaited(O, s, q)
    BY <1>14, <2>1 DEF Awaited
  <2>3. \A j \in Awaited(O, s, q) : Message(P, O2, j, s) = Message(P, O, j, s)
    BY <2>1 DEF Awaited, Message
  <2> QED
    BY <1>1, <1>2, <1>22, <2>2, <2>3, QueuedStays
<1>23. MovesCounted(O2)'
  <2>1. ASSUME NEW i \in Particles
        PROVE  MovedBy(O2, i)' = MovedBy(O, i)
    <3>1. \A j \in Steps : O[j][i] \in Ranks /\ O2[j][i] \in Ranks
      BY <1>1, <1>12, <1>16 DEF History
    <3>2. ASSUME NEW j \in Steps
          PROVE  j < Moved(O2[j][i]) <=> j < Moved(O[j][i])
      <4>1. j < Moved(O2[j][i]) \/ j < Moved(O[j][i]) => Named(j)
        BY <1>1, <1>16, <3>1, Clocks
      <4> QED
        BY <1>15, <1>16, <4>1
    <3>3. \A j \in Steps : Moved(O2[j][i])' = Moved(O2[j][i])
      BY <1>14, <3>1
    <3> QED
      BY <3>2, <3>3 DEF MovedBy
  <2> QED
    BY <1>1, <1>2, <2>1 DEF MovesCounted
<1>24. Replay(P, S2, O2, W)'
  BY <1>17, <1>18, <1>19, <1>20, <1>21, <1>22, <1>23 DEF Replay
<1> QED
  BY <1>24 DEF IInv

LEMMA StepMove ==
    ASSUME NEW P, NEW S, NEW O, NEW W, Replay(P, S, O, W), NEW r \in Ranks, Move(r)
    PROVE  IInv'
<1>1. /\ Shape /\ History(P, S, O) /\ Waits(O) /\ MovesCounted(O)
      /\ \A q \in Ranks : Follows(P, S, O, q)
      /\ \A s, q \in Ranks : s # q => Queued(P, O, W, s, q)
  BY DEF Replay
<1>2. PICK k : k = step[r]
  OBVIOUS
<1>3. /\ pc[r] = "move" /\ pc' = [pc EXCEPT ![r] = "exchange"]
      /\ UNCHANGED <<loadBalanceFreq, step, turn, splitPoint, owner, inbox>>
      /\ moves' = [i \in Particles |-> moves[i] + IF i \in Owned(r) THEN 1 ELSE 0]
      /\ Quiet(r)
  BY DEF Move, Quiet
<1>4. Owned(r) = Of(O, k, r) /\ particle[r] = P[k] /\ splitPoint[r] = S[k + 1] /\ owner[r] = O[k]
  BY <1>1, <1>2, <1>3, CountsOwners DEF Follows
<1>5. PICK to \in [Of(O, k, r) -> Positions] :
         /\ particle' = [particle EXCEPT ![r] =
                           [i \in Particles |-> IF i \in Of(O, k, r) THEN to[i] ELSE @[i]]]
         /\ partSend' = [partSend EXCEPT ![r] = to]
  <2>1. PICK to \in [Owned(r) -> Positions] :
           /\ particle' = [particle EXCEPT ![r] =
                             [i \in Particles |-> IF i \in Owned(r) THEN to[i] ELSE @[i]]]
           /\ partSend' = [partSend EXCEPT ![r] = to]
    BY DEF Move
  <2>2. Owned(r) = Of(O, k, r)
    BY <1>4
  <2> QED
    BY <2>1, <2>2
<1>6. /\ pc'[r] = "exchange" /\ particle'[r] = [i \in Particles |-> IF i \in Of(O, k, r) THEN to[i] ELSE P[k][i]]
      /\ partSend'[r] = to
      /\ \A q \in Ranks : q # r => pc'[q] = pc[q] /\ particle'[q] = particle[q] /\ partSend'[q] = partSend[q]
  BY <1>1, <1>3, <1>4, <1>5 DEF Shape
<1>7. k \in Steps /\ k \in Nat /\ k < timeSteps /\ k \in Casts /\ k + 1 \in 0 .. timeSteps /\ k \in 0 .. timeSteps
  BY <1>1, <1>2, <1>3, Types DEF Steps, Casts, Shape
<1>8. PICK P2 : P2 = [P EXCEPT ![k + 1] = [i \in Particles |->
                         IF i \in Of(O, k, r) THEN to[i] ELSE P[k + 1][i]]]
  OBVIOUS
<1>9. P \in [0 .. timeSteps -> Placings] /\ O \in [Casts -> [Particles -> Ranks]]
  BY <1>1 DEF History
<1>10. /\ \A j \in 0 .. timeSteps : j # k + 1 => P2[j] = P[j]
       /\ P2[k + 1] = [i \in Particles |-> IF i \in Of(O, k, r) THEN to[i] ELSE P[k + 1][i]]
  BY <1>7, <1>8, <1>9
<1>11. P2 \in [0 .. timeSteps -> Placings]
  <2>1. P[k + 1] \in [Particles -> Positions]
    BY <1>7, <1>9 DEF Placings
  <2>2. P2[k + 1] \in Placings
    BY <1>10, <2>1 DEF Placings
  <2> QED
    BY <1>8, <1>9, <1>10, <2>2
<1>12. Of(O, k, r) = {} => P2[k + 1] = P[k + 1]
  <2>1. P[k + 1] = [i \in Particles |-> P[k + 1][i]]
    BY <1>7, <1>9 DEF Placings
  <2> QED
    BY <1>10, <2>1
<1>13. \A i \in Particles : O[k][i] # r => P2[k + 1][i] = P[k + 1][i]
  BY <1>10 DEF Of
<1>14. /\ \A s \in Ranks : Sent(s)' = Sent(s)
       /\ \A s \in Ranks : Moved(s)' = IF s = r THEN Moved(s) + 1 ELSE Moved(s)
       /\ \A q, s \in Ranks : Past(q, s)' = Past(q, s)
       /\ \A j \in Int : Named(j)' <=> Named(j)
  BY <1>1, <1>3, QuietClocks
<1>15. Sent(r) = k /\ Moved(r) = k
  BY <1>2, <1>3, <1>7 DEF Sent, Round, Moved
\* Nobody but r needs to know yet.
<1>16. ASSUME NEW q \in Ranks, q # r, Of(O, k, r) # {}
       PROVE  Past(q, r) \in Int /\ Past(q, r) <= k /\ step[q] \in Nat /\ step[q] <= k
  <2>1. Past(q, r) \in Int /\ Past(q, r) <= k
    <3>1. ~(k < Past(q, r))
      BY <1>1, <1>7, <1>15, <1>16 DEF Waits
    <3> QED
      BY <1>1, <1>7, <3>1, Clocks
  <2>2. pc[q] = "init" => step[q] = 0
    BY <1>1 DEF Shape
  <2> QED
    BY <1>1, <1>7, <2>1, <2>2, Clocks, Types
<1>17. ASSUME NEW q \in Ranks
       PROVE  P2[step[q]] = P[step[q]]
  <2>1. step[q] \in 0 .. timeSteps
    BY <1>1, Types
  <2>2. CASE step[q] # k + 1
    BY <1>10, <2>1, <2>2
  <2>3. CASE step[q] = k + 1
    <3>1. q # r
      BY <1>2, <1>7, <2>3
    <3>2. Of(O, k, r) = {}
      BY <1>7, <1>16, <2>3, <3>1
    <3> QED
      BY <1>12, <2>3, <3>2
  <2> QED
    BY <2>2, <2>3
<1>18. ASSUME NEW j \in Steps, Named(j)
       PROVE  P2[j] = P[j]
  <2>1. j \in 0 .. timeSteps /\ j \in Nat
    BY SizesAssumption DEF Steps
  <2>2. CASE j # k + 1
    BY <1>10, <2>1, <2>2
  <2>3. CASE j = k + 1
    <3>1. PICK q \in Ranks : step[q] >= j
      BY <1>1, <1>18, <2>1, Types DEF Named
    <3>2. Of(O, k, r) = {}
      BY <1>1, <1>2, <1>7, <1>16, <2>3, <3>1, Types
    <3> QED
      BY <1>12, <2>3, <3>2
  <2> QED
    BY <2>2, <2>3
<1>19. Shape'
  BY <1>1, <1>3, QuietShape
<1>20. History(P2, S, O)'
  <2>1. /\ \A j : DueIn(j)' = DueIn(j)
        /\ \A i, pts, split : getOwner(i, pts, split)' = getOwner(i, pts, split)
    BY <1>3 DEF DueIn, getOwner
  <2>2. \A j \in Steps : Named(j)' <=> Named(j)
    BY <1>14, SizesAssumption DEF Steps
  <2>3. ASSUME NEW j \in Steps, Named(j)
        PROVE  /\ S[j + 1] = IF DueIn(j) THEN loadBalance(P2[j]) ELSE S[j]
               /\ O[j] = [i \in Particles |-> getOwner(i, P2[j], S[j + 1])]
    BY <1>1, <1>18, <2>3 DEF History
  <2> QED
    BY <1>1, <1>11, <2>1, <2>2, <2>3 DEF History
<1>21. ASSUME NEW q \in Ranks, q # r
       PROVE  Follows(P2, S, O, q)'
  <2>1. step[q] \in Int /\ step[q] \in 0 .. timeSteps /\ q \in Int /\ turn[q] \in Int /\ r \in Int
    BY <1>1, Types
  <2>2. P2[step[q]] = P[step[q]] /\ (pc[q] = "init" => P2[0] = P[0])
    <3>1. P2[0] = P[0]
      <4>1. 0 \in 0 .. timeSteps /\ 0 # k + 1
        BY <1>7, SizesAssumption
      <4> QED
        BY <1>10, <4>1
    <3> QED
      BY <1>17, <3>1
  <2>3. ASSUME pc[q] = "exchange"
        PROVE  /\ Mixed(P2, O, step[q], q, turn[q]) = Mixed(P, O, step[q], q, turn[q])
               /\ Message(P2, O, step[q], q) = Message(P, O, step[q], q)
    <3>1. ASSUME NEW i \in Particles, O[step[q]][i] = q \/ O[step[q]][i] < turn[q]
          PROVE  P2[step[q] + 1][i] = P[step[q] + 1][i]
      <4>1. step[q] < timeSteps /\ step[q] + 1 \in 0 .. timeSteps
        <5>1. step[q] < timeSteps /\ timeSteps \in Nat /\ step[q] \in Nat
          BY <1>1, <2>3, Types DEF Shape
        <5> QED
          BY <5>1
      <4>2. CASE step[q] # k
        BY <1>7, <1>10, <2>1, <4>1, <4>2
      <4>3. CASE step[q] = k
        <5>1. O[k][i] # r
          <6> SUFFICES ASSUME O[k][i] = r
                       PROVE  FALSE
            OBVIOUS
          <6>1. r < turn[q] /\ Of(O, k, r) # {}
            BY <1>21, <3>1, <4>3 DEF Of
          <6>2. Past(q, r) = k + 1
            BY <2>3, <4>3, <6>1 DEF Past, Round
          <6> QED
            BY <1>7, <1>16, <1>21, <6>1, <6>2
        <5> QED
          BY <1>13, <4>3, <5>1
      <4> QED
        BY <4>2, <4>3
    <3> QED
      BY <2>2, <3>1 DEF Mixed, Message, Of
  <2>4. /\ pc'[q] = pc[q] /\ step' = step /\ turn' = turn /\ particle'[q] = particle[q]
        /\ splitPoint' = splitPoint /\ owner' = owner /\ partSend'[q] = partSend[q]
    BY <1>3, <1>6, <1>21
  <2>5. Follows(P, S, O, q)
    BY <1>1
  <2> QED
    BY <2>2, <2>3, <2>4, <2>5 DEF Follows
<1>22. Follows(P2, S, O, r)'
  <2>1. turn[r] = 0 /\ P2[k] = P[k]
    BY <1>1, <1>2, <1>3, <1>17 DEF Shape
  <2>2. \A i \in Particles : O[k][i] \in Int /\ O[k][i] >= 0
    BY <1>7, <1>9, SizesAssumption DEF Ranks
  <2>3. particle'[r] = Mixed(P2, O, k, r, 0)
    BY <1>6, <1>10, <2>1, <2>2 DEF Mixed, Of
  <2>4. partSend'[r] = Message(P2, O, k, r)
    <3>1. \A i \in Of(O, k, r) : P2[k + 1][i] = to[i]
      BY <1>10 DEF Of
    <3>2. to = [i \in Of(O, k, r) |-> to[i]]
      BY <1>5
    <3> QED
      BY <1>6, <3>1, <3>2 DEF Message
  <2> QED
    BY <1>2, <1>3, <1>4, <1>6, <2>1, <2>3, <2>4 DEF Follows
<1>23. Waits(O)'
  BY <1>1, <1>14 DEF Waits
<1>24. ASSUME NEW s \in Ranks, NEW q \in Ranks, s # q
       PROVE  Queued(P2, O, W, s, q)'
  <2>1. Awaited(O, s, q)' = Awaited(O, s, q)
    BY <1>14, AwaitedStays
  <2>2. ASSUME NEW j \in Awaited(O, s, q)
        PROVE  Message(P2, O, j, s) = Message(P, O, j, s)
    <3>1. j \in Int /\ j < Sent(s) /\ j + 1 \in 0 .. timeSteps
      BY CastsInt, SizesAssumption DEF Awaited, Casts
    <3>2. ASSUME NEW i \in Of(O, j, s)
          PROVE  P2[j + 1][i] = P[j + 1][i]
      <4>1. CASE j # k
        BY <1>7, <1>10, <3>1, <4>1
      <4>2. CASE j = k
        <5>1. s # r
          BY <1>7, <1>15, <3>1, <4>2
        <5> QED
          BY <1>13, <4>2, <5>1 DEF Of
      <4> QED
        BY <4>1, <4>2
    <3> QED
      BY <3>2 DEF Message
  <2> QED
    BY <1>1, <1>3, <1>24, <2>1, <2>2, QueuedStays
<1>25. MovesCounted(O)'
  <2>1. ASSUME NEW i \in Particles
        PROVE  Cardinality(MovedBy(O, i)') = Cardinality(MovedBy(O, i)) + IF i \in Of(O, k, r) THEN 1 ELSE 0
    <3>1. \A j \in Steps : j \in Nat /\ O[j][i] \in Ranks
      BY <1>9, SizesAssumption DEF Steps, Casts
    <3>2. \A j \in Steps : Moved(O[j][i])' = IF O[j][i] = r THEN k + 1 ELSE Moved(O[j][i])
      BY <1>14, <1>15, <3>1
    <3>3. \A j \in Steps : O[j][i] = r => Moved(O[j][i]) = k
      BY <1>15
    <3>4. MovedBy(O, i)' = IF i \in Of(O, k, r) THEN MovedBy(O, i) \cup {k} ELSE MovedBy(O, i)
      <4>1. \A j \in Steps : j \in MovedBy(O, i)' <=> j < Moved(O[j][i])'
        BY DEF MovedBy
      <4>2. \A j \in Steps : j \in MovedBy(O, i)' <=>
               j \in MovedBy(O, i) \/ (j = k /\ O[k][i] = r)
        BY <1>7, <3>1, <3>2, <3>3, <4>1 DEF MovedBy
      <4> QED
        BY <1>7, <4>2 DEF MovedBy, Of
    <3>5. i \in Of(O, k, r) => k \notin MovedBy(O, i)
      BY <1>7, <3>3 DEF MovedBy, Of
    <3>6. IsFiniteSet(MovedBy(O, i))
      <4>1. IsFiniteSet(Steps) /\ MovedBy(O, i) \subseteq Steps
        BY SizesAssumption, FS_Interval DEF Steps, MovedBy
      <4> QED
        BY <4>1, FS_Subset
    <3>7. Cardinality(MovedBy(O, i)) \in Nat
      BY <3>6, FS_CardinalityType
    <3>8. Cardinality(MovedBy(O, i) \cup {k}) =
             IF k \in MovedBy(O, i) THEN Cardinality(MovedBy(O, i)) ELSE Cardinality(MovedBy(O, i)) + 1
      BY <3>6, FS_AddElement
    <3> QED
      BY <3>4, <3>5, <3>7, <3>8
  <2>2. \A i \in Particles : moves[i] = Cardinality(MovedBy(O, i))
    BY <1>1 DEF MovesCounted
  <2> QED
    BY <1>3, <1>4, <2>1, <2>2 DEF MovesCounted
<1>26. Replay(P2, S, O, W)'
  BY <1>19, <1>20, <1>21, <1>22, <1>23, <1>24, <1>25 DEF Replay
<1> QED
  BY <1>26 DEF IInv

\* Past the turn of q a rank also has what q has moved; past the last turn it
\* has the next step's particles.
LEMMA PastTurn ==
    ASSUME NEW P, NEW S, NEW O, Shape, History(P, S, O), NEW r \in Ranks, Follows(P, S, O, r),
           Exchange(r), particle'[r] = Mixed(P, O, step[r], r, turn[r] + 1)
    PROVE  Follows(P, S, O, r)'
<1>1. /\ pc[r] = "exchange" /\ splitPoint' = splitPoint /\ owner' = owner /\ partSend' = partSend
      /\ \/ turn[r] + 1 < numProcs /\ turn' = [turn EXCEPT ![r] = @ + 1] /\ pc' = pc /\ step' = step
         \/ /\ turn[r] + 1 >= numProcs
            /\ turn' = [turn EXCEPT ![r] = 0] /\ step' = [step EXCEPT ![r] = @ + 1]
            /\ pc' = [pc EXCEPT ![r] = "step"]
  BY Types DEF Exchange
<1>2. DOMAIN turn = Ranks /\ DOMAIN pc = Ranks /\ DOMAIN step = Ranks
  BY DEF Shape
<1>3. CASE turn[r] + 1 < numProcs
  <2>1. pc'[r] = "exchange" /\ turn'[r] = turn[r] + 1 /\ step'[r] = step[r]
    BY <1>1, <1>2, <1>3, Types
  <2> QED
    BY <1>1, <2>1 DEF Follows
<1>4. CASE turn[r] + 1 >= numProcs
  <2>1. pc'[r] = "step" /\ step'[r] = step[r] + 1
    BY <1>1, <1>2, <1>4, Types
  <2>2. step[r] \in Casts /\ step[r] + 1 \in 0 .. timeSteps /\ turn[r] + 1 = numProcs
    BY <1>1, <1>4, Types DEF Shape, Casts
  <2>3. \A i \in Particles : O[step[r]][i] < turn[r] + 1
    <3>1. \A i \in Particles : O[step[r]][i] \in Ranks
      BY <2>2 DEF History
    <3> QED
      BY <2>2, <3>1, Types
  <2>4. particle'[r] = P[step[r] + 1]
    <3>1. P[step[r] + 1] = [i \in Particles |-> P[step[r] + 1][i]]
      BY <2>2 DEF History, Placings
    <3> QED
      BY <2>3, <3>1 DEF Mixed
  <2> QED
    BY <1>1, <2>1, <2>4 DEF Follows
<1> QED
  BY <1>3, <1>4, Types

\* What any step of the exchange has to show beyond its queues.
LEMMA ExchangeReplay ==
    ASSUME NEW P, NEW S, NEW O, NEW W, Replay(P, S, O, W), NEW r \in Ranks, Exchange(r), NEW W2,
           particle'[r] = Mixed(P, O, step[r], r, turn[r] + 1),
           turn[r] # r /\ Of(O, step[r], turn[r]) # {} => step[r] < Sent(turn[r]),
           \A s, q \in Ranks : s # q => Queued(P, O, W2, s, q)'
    PROVE  IInv'
<1>1. /\ Shape /\ History(P, S, O) /\ Waits(O) /\ MovesCounted(O)
      /\ \A q \in Ranks : Follows(P, S, O, q)
  BY DEF Replay
<1>2. /\ UNCHANGED <<loadBalanceFreq, splitPoint, owner, partSend, moves>>
      /\ \A q \in Ranks : q # r => particle'[q] = particle[q]
  BY <1>1 DEF Exchange, Send, Receive, Shape
<1>3. /\ \A q \in Ranks : q # r => pc'[q] = pc[q] /\ step'[q] = step[q] /\ turn'[q] = turn[q]
      /\ \A q, s \in Ranks : Past(q, s)' = IF q = r /\ s = turn[r] THEN step[r] + 1 ELSE Past(q, s)
      /\ Past(r, turn[r]) = step[r]
      /\ \A s \in Ranks : Sent(s)' = IF s = r /\ turn[r] = r THEN step[r] + 1 ELSE Sent(s)
      /\ turn[r] = r => Sent(r) = step[r]
      /\ \A s \in Ranks : Moved(s)' = Moved(s)
      /\ \A k \in Int : Named(k)' <=> Named(k)
  BY <1>1, ExchangeClocks
<1>4. Shape'
  BY <1>1, ExchangeShape
<1>5. History(P, S, O)'
  BY <1>1, <1>2, <1>3, HistoryStays
<1>6. MovesCounted(O)'
  BY <1>1, <1>2, <1>3, CountsStay DEF History
<1>7. ASSUME NEW q \in Ranks
      PROVE  Follows(P, S, O, q)'
  <2>1. CASE q = r
    BY <1>1, <2>1, PastTurn
  <2>2. CASE q # r
    BY <1>1, <1>2, <1>3, <2>2, FollowsStays
  <2> QED
    BY <2>1, <2>2
<1>8. Waits(O)'
  <2> SUFFICES ASSUME NEW q \in Ranks, NEW s \in Ranks, NEW k \in Steps,
                      q # s, k < Past(q, s)', Of(O, k, s) # {}
               PROVE  k < Sent(s)'
    BY DEF Waits
  <2>1. k \in Nat /\ step[r] \in Nat /\ Sent(s) \in Nat /\ Past(q, s) \in Int
    BY <1>1, Types, Clocks, SizesAssumption DEF Steps
  <2>2. Sent(s) <= Sent(s)'
    BY <1>3, <2>1
  <2>3. k < Sent(s)
    <3>1. CASE k < Past(q, s)
      BY <1>1, <3>1 DEF Waits
    <3>2. CASE ~(k < Past(q, s))
      BY <1>3, <2>1, <3>2
    <3> QED
      BY <3>1, <3>2
  <2>4. Sent(s)' \in Nat
    BY <1>3, <2>1
  <2> QED
    BY <2>1, <2>2, <2>3, <2>4
<1>9. Replay(P, S, O, W2)'
  BY <1>4, <1>5, <1>6, <1>7, <1>8 DEF Replay
<1> QED
  BY <1>9 DEF IInv

LEMMA StepSend ==
    ASSUME NEW P, NEW S, NEW O, NEW W, Replay(P, S, O, W), NEW r \in Ranks, Exchange(r), Send(r)
    PROVE  IInv'
<1>1. /\ Shape /\ History(P, S, O) /\ Follows(P, S, O, r)
      /\ \A s, q \in Ranks : s # q => Queued(P, O, W, s, q)
  BY DEF Replay
<1>2. PICK k : k = step[r]
  OBVIOUS
<1>3. pc[r] = "exchange" /\ turn[r] = r
  BY DEF Exchange, Send
<1>4. k \in Nat /\ k \in Casts /\ k \in Steps
  BY <1>1, <1>2, <1>3, Types DEF Shape, Casts, Steps
<1>5. numOwned(r, r) = 0 <=> Of(O, k, r) = {}
  BY <1>1, <1>2, <1>3, CountsOwners, OfFinite
<1>6. /\ partSend[r] = Message(P, O, k, r) /\ particle[r] = Mixed(P, O, k, r, r)
  BY <1>1, <1>2, <1>3 DEF Follows
<1>7. inbox' = [inbox EXCEPT ![r] = [q \in Ranks |->
          IF q = r \/ Of(O, k, r) = {} THEN @[q] ELSE Append(@[q], partSend[r])]]
  BY <1>5 DEF Send
<1>8. /\ \A s, q \in Ranks : s # r => inbox'[s][q] = inbox[s][q]
      /\ \A q \in Ranks : q # r => inbox'[r][q] = IF Of(O, k, r) = {} THEN inbox[r][q]
                                                   ELSE Append(inbox[r][q], Message(P, O, k, r))
  BY <1>1, <1>6, <1>7 DEF Shape
<1>9. /\ \A q, s \in Ranks : q # s => Past(q, s)' = Past(q, s)
      /\ \A s \in Ranks : Sent(s)' = IF s = r THEN k + 1 ELSE Sent(s)
      /\ Sent(r) = k
  BY <1>1, <1>2, <1>3, ExchangeClocks
<1>10. PICK W2 : W2 = [s \in Ranks |-> [q \in Ranks |->
                         IF s # r \/ Of(O, k, r) = {} THEN W[s][q] ELSE Append(W[s][q], k)]]
  OBVIOUS
<1>11. ASSUME NEW s \in Ranks, NEW q \in Ranks, s # q
       PROVE  Queued(P, O, W2, s, q)'
  <2>1. CASE s # r
    <3>1. Awaited(O, s, q)' = Awaited(O, s, q)
      BY <1>9, <1>11, <2>1, AwaitedStays
    <3>2. W2[s][q] = W[s][q] /\ inbox'[s][q] = inbox[s][q]
      BY <1>8, <1>10, <2>1
    <3> QED
      BY <1>1, <1>11, <3>1, <3>2, QueuedStays
  <2>2. CASE s = r /\ Of(O, k, r) = {}
    <3>1. Awaited(O, s, q)' = Awaited(O, s, q)
      <4>1. \A j \in Casts : Of(O, j, s) # {} => (j < Sent(s)' <=> j < Sent(s))
        BY <1>4, <1>9, <2>2, CastsInt
      <4> QED
        BY <1>9, <1>11, <4>1 DEF Awaited
    <3>2. W2[s][q] = W[s][q] /\ inbox'[s][q] = inbox[s][q]
      BY <1>8, <1>10, <1>11, <2>2
    <3> QED
      BY <1>1, <1>11, <3>1, <3>2, QueuedStays
  <2>3. CASE s = r /\ Of(O, k, r) # {}
    <3> DEFINE w == W[r][q]
    <3>1. /\ w \in Seq(Casts) /\ Increasing(w) /\ Entries(w) = Awaited(O, r, q)
          /\ inbox[r][q] = Images(Casting(P, O, r), w)
      BY <1>1, <1>11, <2>3 DEF Queued
    <3>2. W2[r][q] = Append(w, k) /\ inbox'[r][q] = Append(inbox[r][q], Message(P, O, k, r))
      BY <1>8, <1>10, <1>11, <2>3
    <3> HIDE DEF w
    <3>3. \A j \in Entries(w) : j < k
      BY <1>9, <3>1 DEF Awaited
    <3>4. /\ Append(w, k) \in Seq(Casts) /\ Increasing(Append(w, k))
          /\ Entries(Append(w, k)) = Awaited(O, r, q) \cup {k}
      BY <1>4, <3>1, <3>3, AppendIncreasing
    <3>5. Awaited(O, r, q)' = Awaited(O, r, q) \cup {k}
      <4>1. Past(q, r) <= k /\ Past(q, r)' = Past(q, r)
        <5>1. Past(q, r) \in Int /\ ~(k < Past(q, r))
          BY <1>1, <1>4, <1>9, <1>11, <2>3, Clocks DEF Replay, Waits
        <5> QED
          BY <1>4, <1>9, <1>11, <2>3, <5>1
      <4>2. \A j \in Casts : j < Sent(r)' <=> j < Sent(r) \/ j = k
        BY <1>4, <1>9, CastsInt
      <4> QED
        BY <1>4, <2>3, <4>1, <4>2 DEF Awaited
    <3>6. inbox'[r][q] = Images(Casting(P, O, r), Append(w, k))
      <4>1. Casting(P, O, r)[k] = Message(P, O, k, r)
        BY <1>4 DEF Casting
      <4> QED
        BY <1>4, <3>1, <3>2, <4>1, ImagesOf
    <3> QED
      BY <2>3, <3>2, <3>4, <3>5, <3>6 DEF Queued
  <2> QED
    BY <2>1, <2>2, <2>3
<1>12. particle'[r] = Mixed(P, O, k, r, r + 1)
  <2>1. \A i \in Particles : O[k][i] \in Ranks /\ O[k][i] \in Int
    BY <1>1, <1>4, SizesAssumption DEF History, Ranks
  <2>2. \A i \in Particles : (O[k][i] = r \/ O[k][i] < r + 1) <=> (O[k][i] = r \/ O[k][i] < r)
    BY <1>1, <2>1, Types
  <2> QED
    BY <1>6, <2>2 DEF Send, Mixed
<1> QED
  BY <1>2, <1>3, <1>11, <1>12, ExchangeReplay

LEMMA StepReceive ==
    ASSUME NEW P, NEW S, NEW O, NEW W, Replay(P, S, O, W), NEW r \in Ranks, Exchange(r), Receive(r)
    PROVE  IInv'
<1>1. /\ Shape /\ History(P, S, O) /\ Follows(P, S, O, r)
      /\ \A s, q \in Ranks : s # q => Queued(P, O, W, s, q)
  BY DEF Replay
<1>2. PICK k : k = step[r]
  OBVIOUS
<1>3. PICK t \in Ranks : t = turn[r]
  BY <1>1, Types
<1>4. pc[r] = "exchange" /\ t # r
  BY <1>3 DEF Exchange, Receive
<1>5. k \in Nat /\ k \in Casts /\ k \in Steps /\ k < timeSteps
  BY <1>1, <1>2, <1>4, Types DEF Shape, Casts, Steps
<1>6. numOwned(r, t) = Cardinality(Of(O, k, t)) /\ (numOwned(r, t) = 0 <=> Of(O, k, t) = {})
  BY <1>1, <1>2, <1>4, CountsOwners, OfFinite
<1>7. particle[r] = Mixed(P, O, k, r, t)
  BY <1>1, <1>2, <1>3, <1>4 DEF Follows
<1>8. /\ \A s, q \in Ranks : ~(q = r /\ s = t) => Past(q, s)' = Past(q, s)
      /\ Past(r, t) = k /\ Past(r, t)' = k + 1
      /\ \A s \in Ranks : Sent(s)' = Sent(s)
  BY <1>1, <1>2, <1>3, <1>4, ExchangeClocks
<1>9. \A i \in Particles : O[k][i] \in Int /\ t \in Int
  BY <1>1, <1>5, SizesAssumption DEF History, Ranks
<1>10. PICK W2 : W2 = [s \in Ranks |-> [q \in Ranks |->
                         IF s # t \/ q # r \/ Of(O, k, t) = {} THEN W[s][q] ELSE Tail(W[s][q])]]
  OBVIOUS
<1>11. ASSUME Of(O, k, t) = {}
       PROVE  IInv'
  <2>1. particle' = particle /\ inbox' = inbox
    BY <1>3, <1>6, <1>11 DEF Receive
  <2>2. particle'[r] = Mixed(P, O, k, r, t + 1)
    <3>1. \A i \in Particles : O[k][i] # t
      BY <1>11 DEF Of
    <3>2. \A i \in Particles : O[k][i] < t + 1 <=> O[k][i] < t
      BY <1>9, <3>1
    <3> QED
      BY <1>7, <2>1, <3>2 DEF Mixed
  <2>3. ASSUME NEW s \in Ranks, NEW q \in Ranks, s # q
        PROVE  Queued(P, O, W2, s, q)'
    <3>1. Awaited(O, s, q)' = Awaited(O, s, q)
      <4>1. CASE ~(q = r /\ s = t)
        BY <1>8, <4>1, AwaitedStays
      <4>2. CASE q = r /\ s = t
        <5>1. \A j \in Casts : Of(O, j, s) # {} => (k + 1 <= j <=> k <= j)
          BY <1>5, <1>11, <4>2, CastsInt
        <5> QED
          BY <1>8, <4>2, <5>1 DEF Awaited
      <4> QED
        BY <4>1, <4>2
    <3>2. W2[s][q] = W[s][q]
      BY <1>10, <1>11
    <3> QED
      BY <1>1, <2>1, <2>3, <3>1, <3>2, QueuedStays
  <2> QED
    BY <1>2, <1>3, <1>11, <2>2, <2>3, ExchangeReplay
<1>12. ASSUME Of(O, k, t) # {}
       PROVE  IInv'
  <2>1. /\ inbox[t][r] # <<>>
        /\ particle' = [particle EXCEPT ![r] =
                          Spray(@, Head(inbox[t][r]), Cardinality(Of(O, k, t)))]
        /\ inbox' = [inbox EXCEPT ![t][r] = Tail(@)]
    BY <1>3, <1>6, <1>12 DEF Receive
  <2>2. /\ k < Sent(t) /\ Head(inbox[t][r]) = Message(P, O, k, t)
        /\ Tail(inbox[t][r]) = Images(Casting(P, O, t), Tail(W[t][r]))
        /\ Tail(W[t][r]) \in Seq(Casts) /\ Increasing(Tail(W[t][r]))
        /\ Entries(Tail(W[t][r])) = Awaited(O, t, r) \ {k}
    <3>1. turn[r] = t /\ Of(O, step[r], t) # {}
      BY <1>2, <1>3, <1>12
    <3>2. Heads(P, O, W, t, r)
      BY <1>3, <1>4, <2>1, <3>1, HeadIsOfThisStep
    <3> QED
      BY <1>2, <3>2 DEF Heads
  <2>3. /\ \A s, q \in Ranks : ~(s = t /\ q = r) => inbox'[s][q] = inbox[s][q]
        /\ inbox'[t][r] = Tail(inbox[t][r])
        /\ particle'[r] = Spray(particle[r], Message(P, O, k, t), Cardinality(Of(O, k, t)))
    BY <1>1, <2>1, <2>2 DEF Shape
  <2>4. First(Message(P, O, k, t), Cardinality(Of(O, k, t))) = Of(O, k, t)
    <3> DEFINE message == Message(P, O, k, t)
    <3>1. DOMAIN message = Of(O, k, t)
      BY DEF Message
    <3> HIDE DEF message
    <3>2. First(message, Cardinality(DOMAIN message)) = DOMAIN message
      BY <3>1, FirstIsAll, OfFinite
    <3> QED
      BY <3>1, <3>2 DEF message
  <2>5. particle'[r] = Mixed(P, O, k, r, t + 1)
    <3>1. particle'[r] = [i \in Particles |->
             IF i \in Of(O, k, t) THEN Message(P, O, k, t)[i] ELSE particle[r][i]]
      BY <2>3, <2>4 DEF Spray
    <3>2. \A i \in Of(O, k, t) : Message(P, O, k, t)[i] = P[k + 1][i]
      BY DEF Message
    <3>3. \A i \in Particles : O[k][i] < t + 1 <=> O[k][i] < t \/ i \in Of(O, k, t)
      BY <1>9 DEF Of
    <3> QED
      BY <1>7, <3>1, <3>2, <3>3 DEF Mixed
  <2>6. Awaited(O, t, r)' = Awaited(O, t, r) \ {k}
    <3>1. \A j \in Casts : k + 1 <= j <=> k <= j /\ j # k
      BY <1>5, CastsInt
    <3> QED
      BY <1>8, <3>1 DEF Awaited
  <2>7. ASSUME NEW s \in Ranks, NEW q \in Ranks, s # q
        PROVE  Queued(P, O, W2, s, q)'
    <3>1. CASE s = t /\ q = r
      <4>1. W2[s][q] = Tail(W[t][r])
        BY <1>10, <1>12, <3>1
      <4> QED
        BY <2>2, <2>3, <2>6, <3>1, <4>1 DEF Queued
    <3>2. CASE ~(s = t /\ q = r)
      <4>1. Awaited(O, s, q)' = Awaited(O, s, q)
        BY <1>8, <3>2, AwaitedStays
      <4>2. W2[s][q] = W[s][q]
        BY <1>10, <3>2
      <4> QED
        BY <1>1, <2>3, <2>7, <3>2, <4>1, <4>2, QueuedStays
    <3> QED
      BY <3>1, <3>2
  <2> QED
    BY <1>2, <1>3, <2>2, <2>5, <2>7, ExchangeReplay
<1> QED
  BY <1>11, <1>12

LEMMA StepStutter ==
    ASSUME NEW P, NEW S, NEW O, NEW W, Replay(P, S, O, W), UNCHANGED vars
    PROVE  IInv'
<1>1. /\ Shape /\ History(P, S, O) /\ Waits(O) /\ MovesCounted(O)
      /\ \A q \in Ranks : Follows(P, S, O, q)
      /\ \A s, q \in Ranks : s # q => Queued(P, O, W, s, q)
  BY DEF Replay
<1>2. UNCHANGED <<loadBalanceFreq, pc, step, turn, particle, splitPoint, owner, partSend, inbox, moves>>
  BY DEF vars
<1>3. /\ \A s \in Ranks : Sent(s)' = Sent(s) /\ Moved(s)' = Moved(s)
      /\ \A q, s \in Ranks : Past(q, s)' = Past(q, s)
      /\ \A k \in Int : Named(k)' <=> Named(k)
  BY <1>2 DEF Sent, Moved, Past, Round, Named
<1>4. Shape'
  BY <1>1, <1>2 DEF Shape
<1>5. History(P, S, O)'
  BY <1>1, <1>2, <1>3, HistoryStays
<1>6. MovesCounted(O)'
  <2>1. O \in [Casts -> [Particles -> Ranks]]
    BY <1>1 DEF History
  <2> QED
    BY <1>1, <1>2, <1>3, <2>1, CountsStay
<1>7. \A q \in Ranks : Follows(P, S, O, q)'
  BY <1>1, <1>2, FollowsStays
<1>8. Waits(O)'
  BY <1>1, <1>3 DEF Waits
<1>9. ASSUME NEW s \in Ranks, NEW q \in Ranks, s # q
      PROVE  Queued(P, O, W, s, q)'
  <2>1. Awaited(O, s, q)' = Awaited(O, s, q)
    BY <1>3, AwaitedStays
  <2> QED
    BY <1>1, <1>2, <1>9, <2>1, QueuedStays
<1> QED
  BY <1>4, <1>5, <1>6, <1>7, <1>8, <1>9 DEF Replay, IInv

-----------------------------------------------------------------------------
LEMMA InitIInv == Init => IInv
<1> SUFFICES ASSUME Init
             PROVE  IInv
  OBVIOUS
<1>1. PICK pts \in Placings :
         /\ particle = [r \in Ranks |-> IF r = 0 THEN pts ELSE [i \in Particles |-> <<0, 0, 0>>]]
         /\ inbox = [s \in Ranks |-> [r \in Ranks |-> IF s = 0 /\ r # 0 THEN <<pts>> ELSE <<>>]]
  BY DEF Init, Placings
<1>2. PICK P : P = [k \in 0 .. timeSteps |-> pts]
  OBVIOUS
<1>3. PICK S : S = [k \in 0 .. timeSteps |-> Center]
  OBVIOUS
<1>4. PICK O : O = [k \in Casts |-> [i \in Particles |-> 0]]
  OBVIOUS
<1>5. PICK W : W = [s \in Ranks |-> [r \in Ranks |-> IF s = 0 THEN <<-1>> ELSE <<>>]]
  OBVIOUS
<1>6. /\ 0 \in Ranks /\ 0 \in 0 .. timeSteps /\ -1 \in Casts /\ Casts \subseteq Int
      /\ Steps \subseteq Nat /\ numParticles >= 1 /\ Ranks \subseteq Nat
  BY SizesAssumption, CastsInt DEF Ranks, Casts, Steps
<1>7. Shape
  <2>1. /\ pc = [r \in Ranks |-> "init"] /\ step = [r \in Ranks |-> 0] /\ turn = [r \in Ranks |-> 0]
        /\ loadBalanceFreq \in LoadBalanceFreqs /\ DOMAIN splitPoint = Ranks
        /\ DOMAIN owner = Ranks /\ DOMAIN partSend = Ranks
    BY DEF Init
  <2> QED
    BY <1>1, <1>6, <2>1 DEF Shape, Labels
<1>8. /\ \A k \in Int : k >= 0 => ~Named(k)
      /\ \A r, s \in Ranks : Past(r, s) = -1 /\ Sent(s) = 0 /\ Moved(s) = 0
  BY <1>6 DEF Init, Named, Past, Sent, Round, Moved
<1>9. History(P, S, O)
  <2>1. \A k \in Steps : ~Named(k)
    BY <1>6, <1>8
  <2>2. P \in [0 .. timeSteps -> Placings]
    BY <1>1, <1>2
  <2>3. O \in [Casts -> [Particles -> Ranks]] /\ O[-1] = [i \in Particles |-> 0]
    BY <1>4, <1>6
  <2> QED
    BY <1>3, <1>6, <2>1, <2>2, <2>3 DEF History
<1>10. ASSUME NEW r \in Ranks
       PROVE  Follows(P, S, O, r)
  <2>1. pc[r] = "init" /\ splitPoint[r] = Center
    BY DEF Init
  <2> QED
    BY <1>1, <1>2, <1>6, <2>1 DEF Follows
<1>11. Waits(O)
  BY <1>6, <1>8 DEF Waits
<1>12. ASSUME NEW s \in Ranks, NEW r \in Ranks, s # r
       PROVE  Queued(P, O, W, s, r)
  <2>1. Of(O, -1, s) = IF s = 0 THEN Particles ELSE {}
    BY <1>4, <1>6 DEF Of
  <2>2. Particles # {}
    <3>1. 0 \in Particles
      BY SizesAssumption DEF Particles
    <3> QED
      BY <3>1
  <2>3. Awaited(O, s, r) = IF s = 0 THEN {-1} ELSE {}
    <3>1. \A k \in Casts : -1 <= k /\ (k < 0 <=> k = -1)
      BY SizesAssumption DEF Casts
    <3>2. Past(s, r) = -1 /\ Past(r, s) = -1 /\ Sent(s) = 0
      BY <1>8
    <3>3. \A k : k \in Awaited(O, s, r) <=> k = -1 /\ Of(O, -1, s) # {}
      BY <1>6, <3>1, <3>2 DEF Awaited
    <3> QED
      BY <2>1, <2>2, <3>3
  <2>4. CASE s = 0
    <3>1. inbox[s][r] = <<pts>> /\ W[s][r] = <<-1>>
      BY <1>1, <1>5, <1>12, <2>4
    <3>2. Casting(P, O, 0)[-1] = pts
      <4>1. Message(P, O, -1, 0) = [i \in Particles |-> P[0][i]]
        BY <2>1, <2>4 DEF Message
      <4>2. P[0] = pts /\ pts = [i \in Particles |-> pts[i]]
        BY <1>1, <1>2, <1>6 DEF Placings
      <4> QED
        BY <1>6, <4>1, <4>2 DEF Casting
    <3>3. Images(Casting(P, O, 0), <<-1>>) = <<pts>>
      BY <3>2 DEF Images
    <3>4. Entries(<<-1>>) = {-1} /\ Increasing(<<-1>>) /\ <<-1>> \in Seq(Casts)
      BY <1>6 DEF Entries, Increasing
    <3> QED
      BY <2>3, <2>4, <3>1, <3>3, <3>4 DEF Queued
  <2>5. CASE s # 0
    <3>1. inbox[s][r] = <<>> /\ W[s][r] = <<>>
      BY <1>1, <1>5, <2>5
    <3>2. Entries(<<>>) = {} /\ Increasing(<<>>) /\ <<>> \in Seq(Casts)
      BY DEF Entries, Increasing
    <3>3. Images(Casting(P, O, s), <<>>) = <<>>
      BY DEF Images
    <3> QED
      BY <2>3, <2>5, <3>1, <3>2, <3>3 DEF Queued
  <2> QED
    BY <2>4, <2>5
<1>13. MovesCounted(O)
  <2>1. ASSUME NEW i \in Particles
        PROVE  Cardinality(MovedBy(O, i)) = 0
    <3>1. \A k \in Steps : O[k][i] = 0
      BY <1>4, SizesAssumption DEF Steps, Casts
    <3>2. \A k \in Steps : Moved(O[k][i]) = 0 /\ k \in Nat
      BY <1>6, <1>8, <3>1
    <3>3. MovedBy(O, i) = {}
      BY <3>2 DEF MovedBy
    <3> QED
      BY <3>3, FS_EmptySet
  <2> QED
    BY <2>1 DEF MovesCounted, Init
<1>14. Replay(P, S, O, W)
  BY <1>7, <1>9, <1>10, <1>11, <1>12, <1>13 DEF Replay
<1> QED
  BY <1>14 DEF IInv

\* There is one history, and every rank is somewhere in it.
THEOREM OneHistory == Spec => []IInv
<1>1. Init => IInv
  BY InitIInv
<1>2. IInv /\ [Next]_vars => IInv'
  <2> SUFFICES ASSUME IInv, [Next]_vars
               PROVE  IInv'
    OBVIOUS
  <2>1. PICK P, S, O, W : Replay(P, S, O, W)
    BY DEF IInv
  <2>2. ASSUME NEW r \in Ranks, Rank(r)
        PROVE  IInv'
    <3>1. CASE initParticlesRandom(r)
      BY <2>1, <3>1, StepInit
    <3>2. CASE Decide(r)
      BY <2>1, <3>2, StepDecide
    <3>3. CASE Move(r)
      BY <2>1, <3>3, StepMove
    <3>4. CASE Exchange(r)
      <4>1. CASE Send(r)
        BY <2>1, <3>4, <4>1, StepSend
      <4>2. CASE Receive(r)
        BY <2>1, <3>4, <4>2, StepReceive
      <4> QED
        BY <3>4, <4>1, <4>2 DEF Exchange
    <3>5. CASE Finish(r)
      BY <2>1, <3>5, StepFinish
    <3> QED
      BY <2>2, <3>1, <3>2, <3>3, <3>4, <3>5 DEF Rank
  <2>3. CASE UNCHANGED vars
    BY <2>1, <2>3, StepStutter
  <2> QED
    BY <2>2, <2>3 DEF Next
<1> QED
  BY <1>1, <1>2, PTL DEF Spec

-----------------------------------------------------------------------------

\* The ranks that begin a time step hold the same particles and the same split
\* point, though nobody has told them: for any number of ranks and particles,
\* any positions and any way of balancing the load.
THEOREM CopiesAgree == Spec => []ReplicasAgree
<1>1. IInv => ReplicasAgree
  BY DEF IInv, Replay, Follows, ReplicasAgree
<1> QED
  BY <1>1, OneHistory, PTL

\* Both ends of a broadcast mean the same particles of the same time step.
THEOREM BroadcastsMatch == Spec => []CountsMatch
<1>1. IInv => CountsMatch
  <2> SUFFICES ASSUME IInv, NEW r \in Ranks, NEW q, q = turn[r],
                      pc[r] = "exchange", q # r, numOwned(r, q) > 0, inbox[q][r] # <<>>
               PROVE  DOMAIN Head(inbox[q][r]) = {i \in Particles : owner[r][i] = q}
    BY DEF CountsMatch
  <2>1. PICK P, S, O, W : Replay(P, S, O, W)
    BY DEF IInv
  <2>2. Follows(P, S, O, r) /\ q \in Ranks
    BY <2>1, Types DEF Replay
  <2>3. numOwned(r, q) = Cardinality(Of(O, step[r], q)) /\ owner[r] = O[step[r]]
    <3>1. numOwned(r, q) = Cardinality(Of(O, step[r], q))
      BY <2>2, CountsOwners
    <3>2. owner[r] = O[step[r]]
      BY <2>2 DEF Follows
    <3> QED
      BY <3>1, <3>2
  <2>4. Of(O, step[r], q) # {}
    BY <2>3, OfFinite
  <2>5. Head(inbox[q][r]) = Message(P, O, step[r], q)
    <3>1. Heads(P, O, W, q, r)
      BY <2>1, <2>2, <2>4, HeadIsOfThisStep
    <3> QED
      BY <3>1 DEF Heads
  <2> QED
    BY <2>3, <2>5 DEF Message, Of
<1> QED
  BY <1>1, OneHistory, PTL

\* Every particle is moved exactly once in every time step, by one rank.
THEOREM MovedOnce == Spec => []MovedOncePerStep
<1>1. IInv => MovedOncePerStep
  <2> SUFFICES ASSUME IInv
               PROVE  MovedOncePerStep
    OBVIOUS
  <2>1. PICK P, S, O, W : Replay(P, S, O, W)
    BY DEF IInv
  <2>2. Shape /\ Waits(O) /\ MovesCounted(O) /\ O \in [Casts -> [Particles -> Ranks]]
    BY <2>1 DEF Replay, History
  <2>3. IsFiniteSet(Steps) /\ Cardinality(Steps) = timeSteps /\ Steps \subseteq Nat /\ Steps \subseteq Casts
    BY SizesAssumption, FS_Interval DEF Steps, Casts
  <2>4. \A i \in Particles, k \in Steps : O[k][i] \in Ranks
    BY <2>2, <2>3
  <2>5. ASSUME NEW r \in Ranks, NEW i \in Particles, pc[r] = "step"
        PROVE  moves[i] >= step[r]
    <3>1. 0 .. step[r] - 1 \subseteq MovedBy(O, i)
      <4> SUFFICES ASSUME NEW k \in 0 .. step[r] - 1
                   PROVE  k \in Steps /\ k < Moved(O[k][i])
        BY DEF MovedBy
      <4>1. step[r] \in Nat /\ step[r] <= timeSteps /\ timeSteps \in Nat
        BY <2>2, Types
      <4>2. k \in Steps /\ k \in Nat /\ k < step[r]
        BY <4>1 DEF Steps
      <4> DEFINE s == O[k][i]
      <4>3. s \in Ranks /\ Of(O, k, s) # {}
        BY <2>4, <4>2 DEF Of
      <4> HIDE DEF s
      <4>4. Sent(s) \in Nat /\ Moved(s) \in Nat /\ step[s] <= Sent(s) /\ Sent(s) <= Moved(s)
            /\ Past(r, s) \in Int /\ step[r] <= Past(r, s) /\ step[s] \in Nat
        BY <2>2, <2>5, <4>3, Clocks
      <4>5. k < Sent(s)
        <5>1. CASE s = r
          BY <4>1, <4>2, <4>4, <5>1
        <5>2. CASE s # r
          <6>1. k < Past(r, s)
            BY <4>1, <4>2, <4>4
          <6> QED
            BY <2>2, <4>2, <4>3, <5>2, <6>1 DEF Waits
        <5> QED
          BY <5>1, <5>2
      <4>6. k < Moved(s)
        BY <4>2, <4>4, <4>5
      <4> QED
        BY <4>2, <4>6 DEF s
    <3>2. IsFiniteSet(MovedBy(O, i))
      BY <2>3, FS_Subset DEF MovedBy
    <3>3. Cardinality(0 .. step[r] - 1) <= Cardinality(MovedBy(O, i))
      BY <3>1, <3>2, FS_Subset
    <3>4. Cardinality(0 .. step[r] - 1) = step[r]
      <4>1. step[r] \in Nat
        BY <2>2, Types
      <4> QED
        BY <4>1, FS_Interval
    <3>5. moves[i] = Cardinality(MovedBy(O, i)) /\ Cardinality(MovedBy(O, i)) \in Nat
      BY <2>2, <3>2, FS_CardinalityType DEF MovesCounted
    <3> QED
      BY <2>2, <3>3, <3>4, <3>5, Types
  <2>6. ASSUME \A r \in Ranks : pc[r] = "done", NEW i \in Particles
        PROVE  moves[i] = timeSteps
    <3>1. \A r \in Ranks : Moved(r) = timeSteps
      BY <2>2, <2>6, Types DEF Moved, Shape
    <3>2. MovedBy(O, i) = Steps
      <4>1. \A k \in Steps : k < timeSteps
        BY SizesAssumption DEF Steps
      <4> QED
        BY <2>4, <3>1, <4>1 DEF MovedBy
    <3> QED
      BY <2>2, <2>3, <3>2 DEF MovesCounted
  <2> QED
    BY <2>5, <2>6 DEF MovedOncePerStep
<1> QED
  BY <1>1, OneHistory, PTL

-----------------------------------------------------------------------------
(* The median that loadBalance() finds.                                    *)

\* One turn of the loop of partition(), with f for the turns after it.
ScanTurn(f, s) ==
    LET next == [s EXCEPT !.i = @ + 1]
    IN  IF s.i = s.right
        THEN [a |-> swap(s.a, s.right, s.storeIndex), pivotNewIndex |-> s.storeIndex]
        ELSE IF s.a[s.i] <= s.pivotValue
        THEN f[[next EXCEPT !.a = swap(@, s.storeIndex, s.i), !.storeIndex = @ + 1]]
        ELSE f[next]

LEMMA LeastNat ==
    ASSUME NEW S \in SUBSET Nat, S # {}
    PROVE  \E x \in S : \A y \in S : x <= y
<1>1. \E x \in S : \A y \in S : ~(<<y, x>> \in OpToRel(<, Nat))
  BY NatLessThanWellFounded, WFMin
<1>2. ASSUME NEW x \in Nat, NEW y \in Nat, y < x PROVE <<y, x>> \in OpToRel(<, Nat)
  BY <1>2 DEF OpToRel
<1>3. \E x \in S : \A y \in S : ~(y < x)
  BY <1>1, <1>2
<1> QED
  BY <1>3

LEMMA SizeType == numParticles \in Nat \ {0} /\ Particles = 0 .. numParticles - 1 /\ Particles \subseteq Nat
BY SizesAssumption DEF Particles

LEMMA SwapType ==
    ASSUME NEW a \in Arrays, NEW i \in Particles, NEW j \in Particles
    PROVE  /\ swap(a, i, j) \in Arrays
           /\ swap(a, i, j)[j] = a[i] /\ swap(a, i, j)[i] = a[j]
           /\ \A n \in Particles : n # i /\ n # j => swap(a, i, j)[n] = a[n]
BY DEF swap, Arrays

\* The arguments of the next turn.
NextScan(s) ==
    LET next == [s EXCEPT !.i = @ + 1]
    IN  IF s.a[s.i] <= s.pivotValue
        THEN [next EXCEPT !.a = swap(@, s.storeIndex, s.i), !.storeIndex = @ + 1]
        ELSE next

LEMMA ScanFields ==
    ASSUME NEW s \in Scans
    PROVE  /\ s.a \in Arrays /\ s.right \in Particles /\ s.pivotValue \in Int
           /\ s.i \in Particles /\ s.storeIndex \in Particles
           /\ s.storeIndex <= s.i /\ s.i <= s.right
BY DEF Scans

LEMMA NextScanType ==
    ASSUME NEW s \in Scans, s.i # s.right
    PROVE  /\ NextScan(s) \in Scans
           /\ NextScan(s).i = s.i + 1 /\ NextScan(s).right = s.right
           /\ NextScan(s).pivotValue = s.pivotValue
           /\ s.a[s.i] <= s.pivotValue =>
                 NextScan(s).a = swap(s.a, s.storeIndex, s.i) /\ NextScan(s).storeIndex = s.storeIndex + 1
           /\ ~(s.a[s.i] <= s.pivotValue) => NextScan(s).a = s.a /\ NextScan(s).storeIndex = s.storeIndex
<1>1. s \in [a : Arrays, right : Particles, pivotValue : Int, i : Particles, storeIndex : Particles]
  BY DEF Scans
<1>2. s.i + 1 \in Particles /\ s.i + 1 <= s.right /\ s.storeIndex + 1 \in Particles
  BY ScanFields, SizeType
<1>3. swap(s.a, s.storeIndex, s.i) \in Arrays
  BY ScanFields, SwapType
<1>4. CASE s.a[s.i] <= s.pivotValue
  <2>1. NextScan(s) = [s EXCEPT !.i = s.i + 1, !.a = swap(s.a, s.storeIndex, s.i), !.storeIndex = s.storeIndex + 1]
    BY <1>1, <1>4 DEF NextScan
  <2> DEFINE t == NextScan(s)
  <2>2. t \in [a : Arrays, right : Particles, pivotValue : Int, i : Particles, storeIndex : Particles]
    BY <1>1, <1>2, <1>3, <2>1
  <2>3. /\ t.i = s.i + 1 /\ t.right = s.right /\ t.pivotValue = s.pivotValue
        /\ t.a = swap(s.a, s.storeIndex, s.i) /\ t.storeIndex = s.storeIndex + 1
    BY <1>1, <2>1
  <2>4. t.storeIndex <= t.i /\ t.i <= t.right
    BY <1>2, <2>3, ScanFields, SizeType
  <2> HIDE DEF t
  <2> QED
    BY <1>4, <2>2, <2>3, <2>4 DEF Scans, t
<1>5. CASE ~(s.a[s.i] <= s.pivotValue)
  <2>1. NextScan(s) = [s EXCEPT !.i = s.i + 1]
    BY <1>1, <1>5 DEF NextScan
  <2> QED
    BY <1>1, <1>2, <1>5, <2>1, ScanFields, SizeType DEF Scans
<1> QED
  BY <1>4, <1>5

ScanEnd(s) == [a |-> swap(s.a, s.right, s.storeIndex), pivotNewIndex |-> s.storeIndex]

LEMMA TurnIs ==
    ASSUME NEW f, NEW s
    PROVE  ScanTurn(f, s) = IF s.i = s.right THEN ScanEnd(s) ELSE f[NextScan(s)]
BY DEF ScanTurn, ScanEnd, NextScan

\* The loop ends: there is a function that the definition of scan describes.
LEMMA ScanIs == scan = [s \in Scans |-> ScanTurn(scan, s)]
<1> DEFINE Is(f) == f = [s \in Scans |-> ScanTurn(f, s)]
           Left(n) == {s \in Scans : s.right - s.i < n}
           IsUpTo(n, f) == f = [s \in Left(n) |-> ScanTurn(f, s)]
           Bad == {n \in Nat : ~ \E f : IsUpTo(n, f)}
<1>1. ASSUME NEW n \in Nat, NEW f, IsUpTo(n, f)
      PROVE  \E g : IsUpTo(n + 1, g)
  <2> DEFINE g == [s \in Left(n + 1) |-> ScanTurn(f, s)]
  <2>1. ASSUME NEW s \in Left(n + 1)
        PROVE  ScanTurn(g, s) = ScanTurn(f, s)
    <3>1. CASE s.i = s.right
      BY <3>1, TurnIs
    <3>2. CASE s.i # s.right
      <4> DEFINE t == NextScan(s)
      <4>1. t \in Scans /\ t.right = s.right /\ t.i = s.i + 1
        BY <3>2, NextScanType
      <4>2. t \in Left(n) /\ t \in Left(n + 1)
        BY <2>1, <4>1, ScanFields, SizeType
      <4>3. g[t] = ScanTurn(f, t) /\ f[t] = ScanTurn(f, t)
        BY <1>1, <4>2
      <4> HIDE DEF t, g
      <4> QED
        BY <3>2, <4>3, TurnIs DEF t
    <3> QED
      BY <3>1, <3>2
  <2> QED
    BY <2>1
<1>2. \E f : IsUpTo(0, f)
  <2>1. Left(0) = {}
    BY ScanFields, SizeType
  <2> QED
    BY <2>1
<1>3. Bad = {}
  <2> SUFFICES ASSUME Bad # {} PROVE FALSE
    OBVIOUS
  <2>1. PICK n \in Bad : \A m \in Bad : n <= m
    <3>1. Bad \in SUBSET Nat
      OBVIOUS
    <3> HIDE DEF Bad
    <3> QED
      BY <3>1, LeastNat
  <2>2. n \in Nat /\ n # 0
    BY <1>2
  <2>3. n - 1 \in Nat /\ n - 1 \notin Bad
    <3>1. n - 1 \in Nat /\ ~(n <= n - 1)
      BY <2>2
    <3> HIDE DEF Bad
    <3> QED
      BY <2>1, <3>1
  <2>4. PICK f : IsUpTo(n - 1, f)
    BY <2>3
  <2>5. \E g : IsUpTo(n, g)
    <3>1. n - 1 + 1 = n
      BY <2>2
    <3> HIDE DEF IsUpTo
    <3>2. \E g : IsUpTo(n - 1 + 1, g)
      BY <1>1, <2>3, <2>4
    <3> QED
      BY <3>1, <3>2
  <2> QED
    BY <2>1, <2>2, <2>5
<1>4. Left(numParticles) = Scans
  BY ScanFields, SizeType
<1>5. \E f : Is(f)
  <2>1. numParticles \notin Bad
    BY <1>3
  <2> QED
    BY <1>4, <2>1, SizeType
<1>6. scan = CHOOSE f : Is(f)
  BY DEF scan, ScanTurn
<1> HIDE DEF Is
<1>7. Is(scan)
  BY <1>5, <1>6
<1> QED
  BY <1>7 DEF Is

\* b is a with the elements between l and r rearranged.
Rearranged(a, b, l, r) ==
    \E e \in [Particles -> Particles] :
        /\ \A i, j \in Particles : e[i] = e[j] => i = j
        /\ \A i \in Particles : b[i] = a[e[i]]
        /\ \A i \in Particles : IF l <= i /\ i <= r THEN l <= e[i] /\ e[i] <= r ELSE e[i] = i

LEMMA RearrangedSame ==
    ASSUME NEW a, NEW l \in Particles, NEW r \in Particles
    PROVE  Rearranged(a, a, l, r)
<1> DEFINE e == [i \in Particles |-> i]
<1>1. e \in [Particles -> Particles]
  OBVIOUS
<1> QED
  BY <1>1 DEF Rearranged

LEMMA RearrangedTwice ==
    ASSUME NEW a, NEW b, NEW c, NEW l \in Particles, NEW r \in Particles,
           Rearranged(a, b, l, r), Rearranged(b, c, l, r)
    PROVE  Rearranged(a, c, l, r)
<1>1. PICK e \in [Particles -> Particles] :
        /\ \A i, j \in Particles : e[i] = e[j] => i = j
        /\ \A i \in Particles : b[i] = a[e[i]]
        /\ \A i \in Particles : IF l <= i /\ i <= r THEN l <= e[i] /\ e[i] <= r ELSE e[i] = i
  BY DEF Rearranged
<1>2. PICK d \in [Particles -> Particles] :
        /\ \A i, j \in Particles : d[i] = d[j] => i = j
        /\ \A i \in Particles : c[i] = b[d[i]]
        /\ \A i \in Particles : IF l <= i /\ i <= r THEN l <= d[i] /\ d[i] <= r ELSE d[i] = i
  BY DEF Rearranged
<1> DEFINE h == [i \in Particles |-> e[d[i]]]
<1>3. h \in [Particles -> Particles]
  OBVIOUS
<1>4. \A i \in Particles : d[i] \in Particles /\ h[i] = e[d[i]]
  OBVIOUS
<1> HIDE DEF h
<1>5. \A i, j \in Particles : h[i] = h[j] => i = j
  BY <1>1, <1>2, <1>4
<1>6. \A i \in Particles : c[i] = a[h[i]]
  BY <1>1, <1>2, <1>4
<1>7. \A i \in Particles : IF l <= i /\ i <= r THEN l <= h[i] /\ h[i] <= r ELSE h[i] = i
  BY <1>1, <1>2, <1>4
<1> QED
  BY <1>3, <1>5, <1>6, <1>7 DEF Rearranged

LEMMA SwapRearranges ==
    ASSUME NEW a \in Arrays, NEW l \in Particles, NEW r \in Particles,
           NEW i \in Particles, NEW j \in Particles,
           l <= i, i <= r, l <= j, j <= r
    PROVE  Rearranged(a, swap(a, i, j), l, r)
<1> DEFINE e == [n \in Particles |-> IF n = j THEN i ELSE IF n = i THEN j ELSE n]
<1>1. e \in [Particles -> Particles]
  OBVIOUS
<1>2. \A n \in Particles : e[n] = IF n = j THEN i ELSE IF n = i THEN j ELSE n
  OBVIOUS
<1> HIDE DEF e
<1>3. \A n \in Particles : swap(a, i, j)[n] = a[e[n]]
  BY <1>2 DEF swap, Arrays
<1>4. \A m, n \in Particles : e[m] = e[n] => m = n
  BY <1>2
<1>5. \A n \in Particles : IF l <= n /\ n <= r THEN l <= e[n] /\ e[n] <= r ELSE e[n] = n
  BY <1>2
<1> QED
  BY <1>1, <1>3, <1>4, <1>5 DEF Rearranged

\* The loop invariant of partition().
Parted(s, left) ==
    /\ left <= s.storeIndex
    /\ s.a[s.right] = s.pivotValue
    /\ \A j \in Particles : left <= j /\ j < s.storeIndex => s.a[j] <= s.pivotValue
    /\ \A j \in Particles : s.storeIndex <= j /\ j < s.i => s.a[j] > s.pivotValue

Split(a, p, left, right) ==
    /\ p.a \in Arrays /\ p.pivotNewIndex \in Particles
    /\ left <= p.pivotNewIndex /\ p.pivotNewIndex <= right
    /\ Rearranged(a, p.a, left, right)
    /\ \A j \in Particles : left <= j /\ j < p.pivotNewIndex => p.a[j] <= p.a[p.pivotNewIndex]
    /\ \A j \in Particles : p.pivotNewIndex < j /\ j <= right => p.a[j] > p.a[p.pivotNewIndex]

LEMMA ScanEndSplits ==
    ASSUME NEW s \in Scans, NEW left \in Particles, Parted(s, left), s.i = s.right
    PROVE  Split(s.a, ScanEnd(s), left, s.right)
<1> DEFINE b == swap(s.a, s.right, s.storeIndex)
<1>0. s.a \in Arrays /\ s.right \in Particles /\ s.storeIndex \in Particles
      /\ left <= s.storeIndex /\ s.storeIndex <= s.right
      /\ left \in Nat /\ s.right \in Nat /\ s.storeIndex \in Nat
  BY ScanFields, SizeType DEF Parted
<1>1. /\ b \in Arrays /\ b[s.storeIndex] = s.a[s.right] /\ b[s.right] = s.a[s.storeIndex]
      /\ \A n \in Particles : n # s.storeIndex /\ n # s.right => b[n] = s.a[n]
  BY <1>0 DEF swap, Arrays
<1>2. Rearranged(s.a, b, left, s.right)
  BY <1>0, SwapRearranges
<1>3. ScanEnd(s).a = b /\ ScanEnd(s).pivotNewIndex = s.storeIndex
  BY DEF ScanEnd
<1> HIDE DEF b
<1>4. b[s.storeIndex] = s.pivotValue
  BY <1>0, <1>1 DEF Parted
<1>5. \A j \in Particles : left <= j /\ j < s.storeIndex => b[j] <= s.pivotValue
  BY <1>0, <1>1, SizeType DEF Parted
<1>6. \A j \in Particles : s.storeIndex < j /\ j <= s.right => b[j] > s.pivotValue
  <2> SUFFICES ASSUME NEW j \in Particles, s.storeIndex < j, j <= s.right PROVE b[j] > s.pivotValue
    OBVIOUS
  <2>0. j \in Nat
    BY SizeType
  <2>1. CASE j = s.right
    BY <1>0, <1>1, <2>1 DEF Parted
  <2>2. CASE j # s.right
    BY <1>0, <1>1, <2>0, <2>2 DEF Parted
  <2> QED
    BY <2>1, <2>2
<1> QED
  BY <1>0, <1>1, <1>2, <1>3, <1>4, <1>5, <1>6 DEF Split

LEMMA ScanTurnParts ==
    ASSUME NEW s \in Scans, NEW left \in Particles, Parted(s, left), s.i # s.right
    PROVE  /\ Parted(NextScan(s), left)
           /\ Rearranged(s.a, NextScan(s).a, left, s.right)
<1> DEFINE t == NextScan(s)
<1>0. s.a \in Arrays /\ s.right \in Particles /\ s.storeIndex \in Particles /\ s.i \in Particles
      /\ left <= s.storeIndex /\ s.storeIndex <= s.i /\ s.i < s.right
      /\ left \in Nat /\ s.right \in Nat /\ s.storeIndex \in Nat /\ s.i \in Nat /\ s.pivotValue \in Int
  BY ScanFields, SizeType DEF Parted
<1>1. /\ t.i = s.i + 1 /\ t.right = s.right /\ t.pivotValue = s.pivotValue
      /\ s.a[s.i] <= s.pivotValue =>
            t.a = swap(s.a, s.storeIndex, s.i) /\ t.storeIndex = s.storeIndex + 1
      /\ ~(s.a[s.i] <= s.pivotValue) => t.a = s.a /\ t.storeIndex = s.storeIndex
  BY NextScanType
<1> HIDE DEF t
<1>2. CASE s.a[s.i] <= s.pivotValue
  <2>1. /\ t.a[s.i] = s.a[s.storeIndex] /\ t.a[s.storeIndex] = s.a[s.i]
        /\ \A n \in Particles : n # s.i /\ n # s.storeIndex => t.a[n] = s.a[n]
    <3>1. t.a = swap(s.a, s.storeIndex, s.i)
      BY <1>1, <1>2
    <3> QED
      BY <1>0, <3>1 DEF swap, Arrays
  <2>2. Rearranged(s.a, t.a, left, s.right)
    BY <1>0, <1>1, <1>2, SwapRearranges
  <2>3. t.a[t.right] = t.pivotValue /\ left <= t.storeIndex
    BY <1>0, <1>1, <1>2, <2>1 DEF Parted
  <2>4. \A j \in Particles : left <= j /\ j < t.storeIndex => t.a[j] <= t.pivotValue
    BY <1>0, <1>1, <1>2, <2>1, SizeType DEF Parted
  <2>5. \A j \in Particles : t.storeIndex <= j /\ j < t.i => t.a[j] > t.pivotValue
    <3> SUFFICES ASSUME NEW j \in Particles, t.storeIndex <= j, j < t.i PROVE t.a[j] > t.pivotValue
      OBVIOUS
    <3>0. j \in Nat /\ s.storeIndex < j /\ j <= s.i
      BY <1>0, <1>1, <1>2, SizeType
    <3>1. CASE j = s.i
      BY <1>0, <1>1, <2>1, <3>0, <3>1 DEF Parted
    <3>2. CASE j # s.i
      BY <1>0, <1>1, <2>1, <3>0, <3>2 DEF Parted
    <3> QED
      BY <3>1, <3>2
  <2> QED
    BY <2>2, <2>3, <2>4, <2>5 DEF Parted, t
<1>3. CASE ~(s.a[s.i] <= s.pivotValue)
  <2>1. s.a[s.i] > s.pivotValue
    BY <1>0, <1>3 DEF Arrays
  <2>2. Rearranged(s.a, t.a, left, s.right)
    BY <1>0, <1>1, <1>3, RearrangedSame
  <2>3. \A j \in Particles : t.storeIndex <= j /\ j < t.i => t.a[j] > t.pivotValue
    <3> SUFFICES ASSUME NEW j \in Particles, t.storeIndex <= j, j < t.i PROVE t.a[j] > t.pivotValue
      OBVIOUS
    <3>0. j \in Nat
      BY SizeType
    <3> QED
      BY <1>0, <1>1, <1>3, <2>1, <3>0 DEF Parted
  <2> QED
    BY <1>0, <1>1, <1>3, <2>2, <2>3 DEF Parted, t
<1> QED
  BY <1>2, <1>3

LEMMA ScanSplits ==
    ASSUME NEW left \in Particles
    PROVE  \A s \in Scans : Parted(s, left) => Split(s.a, scan[s], left, s.right)
<1> DEFINE Good(s) == Parted(s, left) => Split(s.a, scan[s], left, s.right)
           Bad == {n \in Nat : \E s \in Scans : s.right - s.i = n /\ ~Good(s)}
<1>1. ASSUME NEW s \in Scans, s.i # s.right, Good(NextScan(s)) PROVE Good(s)
  <2> SUFFICES ASSUME Parted(s, left) PROVE Split(s.a, scan[s], left, s.right)
    OBVIOUS
  <2> DEFINE t == NextScan(s)
             p == scan[t]
  <2>1. t \in Scans /\ t.right = s.right /\ Parted(t, left) /\ Rearranged(s.a, t.a, left, s.right)
    BY <1>1, NextScanType, ScanTurnParts
  <2>2. scan[s] = p
    BY <1>1, ScanIs, TurnIs
  <2>3. Split(t.a, p, left, s.right)
    BY <1>1, <2>1
  <2> HIDE DEF p, t
  <2>4. s.right \in Particles
    BY ScanFields
  <2>5. Rearranged(s.a, p.a, left, s.right)
    BY <2>1, <2>3, <2>4, RearrangedTwice DEF Split
  <2> QED
    BY <2>2, <2>3, <2>5 DEF Split
<1>2. ASSUME NEW s \in Scans, s.i = s.right PROVE Good(s)
  <2>1. scan[s] = ScanEnd(s)
    BY <1>2, ScanIs, TurnIs
  <2> QED
    BY <1>2, <2>1, ScanEndSplits
<1> HIDE DEF Good
<1>3. Bad = {}
  <2> SUFFICES ASSUME Bad # {} PROVE FALSE
    OBVIOUS
  <2>1. PICK n \in Bad : \A m \in Bad : n <= m
    <3>1. Bad \in SUBSET Nat
      OBVIOUS
    <3> HIDE DEF Bad
    <3> QED
      BY <3>1, LeastNat
  <2>2. PICK s \in Scans : s.right - s.i = n /\ ~Good(s)
    BY <2>1
  <2>3. s.i # s.right /\ ~Good(NextScan(s))
    BY <1>1, <1>2, <2>2
  <2>4. NextScan(s) \in Scans /\ NextScan(s).i = s.i + 1 /\ NextScan(s).right = s.right
    BY <2>3, NextScanType
  <2>5. n - 1 \in Nat /\ NextScan(s).right - NextScan(s).i = n - 1
    <3>1. s.right \in Nat /\ s.i \in Nat /\ n \in Nat
      BY <2>1, ScanFields, SizeType
    <3> QED
      BY <2>2, <2>3, <2>4, <3>1
  <2>6. n - 1 \in Bad
    BY <2>3, <2>4, <2>5
  <2> QED
    BY <2>1, <2>5, <2>6
<1>4. ASSUME NEW s \in Scans PROVE Good(s)
  <2>1. s.right - s.i \in Nat
    BY ScanFields, SizeType
  <2> QED
    BY <1>3, <2>1
<1> QED
  BY <1>4 DEF Good

LEMMA PartitionSplits ==
    ASSUME NEW a \in Arrays, NEW left \in Particles, NEW right \in Particles, left <= right
    PROVE  Split(a, partition(a, left, right), left, right)
<1> DEFINE s == [a |-> swap(a, left, right), right |-> right, pivotValue |-> a[left],
                 i |-> left, storeIndex |-> left]
<1>1. swap(a, left, right) \in Arrays /\ swap(a, left, right)[right] = a[left] /\ a[left] \in Int
  BY SwapType DEF Arrays
<1>0. left \in Nat /\ right \in Nat
  BY SizeType
<1>2. s \in Scans /\ s.a = swap(a, left, right) /\ s.right = right
  BY <1>0, <1>1 DEF Scans
<1>3. Parted(s, left)
  BY <1>0, <1>1, SizeType DEF Parted
<1>4. partition(a, left, right) = scan[s]
  BY DEF partition
<1>5. Rearranged(a, s.a, left, right)
  BY <1>0, <1>2, SwapRearranges
<1> HIDE DEF s
<1>6. Split(s.a, scan[s], left, right)
  BY <1>2, <1>3, ScanSplits
<1>7. Rearranged(a, scan[s].a, left, right)
  BY <1>5, <1>6, RearrangedTwice DEF Split
<1> QED
  BY <1>4, <1>6, <1>7 DEF Split

\* One turn of the loop of selectKth(), with f for the turns after it.
Pivoted(s) == partition(s.a, s.left, s.right)
Lower(s) == [s EXCEPT !.a = Pivoted(s).a, !.right = Pivoted(s).pivotNewIndex - 1]
Upper(s) == [s EXCEPT !.a = Pivoted(s).a, !.left = Pivoted(s).pivotNewIndex + 1]

SelectTurn(f, s) ==
    LET p == partition(s.a, s.left, s.right)
        next == [s EXCEPT !.a = p.a]
    IN  IF s.k = p.pivotNewIndex THEN p.a[s.k]
        ELSE IF s.k < p.pivotNewIndex
        THEN f[[next EXCEPT !.right = p.pivotNewIndex - 1]]
        ELSE f[[next EXCEPT !.left = p.pivotNewIndex + 1]]

LEMMA SelectFields ==
    ASSUME NEW s \in Selections
    PROVE  /\ s.a \in Arrays /\ s.k \in Particles /\ s.left \in Particles /\ s.right \in Particles
           /\ s.left <= s.k /\ s.k <= s.right
           /\ s.k \in Nat /\ s.left \in Nat /\ s.right \in Nat
BY SizeType DEF Selections

LEMMA PivotedSplits ==
    ASSUME NEW s \in Selections
    PROVE  /\ Split(s.a, Pivoted(s), s.left, s.right)
           /\ Pivoted(s).a \in Arrays /\ Pivoted(s).pivotNewIndex \in Particles
           /\ Pivoted(s).pivotNewIndex \in Nat
           /\ s.left <= Pivoted(s).pivotNewIndex /\ Pivoted(s).pivotNewIndex <= s.right
<1>1. Split(s.a, Pivoted(s), s.left, s.right)
  BY SelectFields, PartitionSplits DEF Pivoted
<1> QED
  BY <1>1, SizeType DEF Split

LEMMA SelectTurnIs ==
    ASSUME NEW f, NEW s \in Selections
    PROVE  /\ s.k = Pivoted(s).pivotNewIndex => SelectTurn(f, s) = Pivoted(s).a[s.k]
           /\ s.k < Pivoted(s).pivotNewIndex => SelectTurn(f, s) = f[Lower(s)]
           /\ s.k > Pivoted(s).pivotNewIndex => SelectTurn(f, s) = f[Upper(s)]
<1> DEFINE p == Pivoted(s)
           next == [s EXCEPT !.a = p.a]
<1>1. s \in [a : Arrays, k : Particles, left : Particles, right : Particles]
  BY DEF Selections
<1>2. [next EXCEPT !.right = p.pivotNewIndex - 1] = Lower(s)
  BY <1>1 DEF Lower
<1>3. [next EXCEPT !.left = p.pivotNewIndex + 1] = Upper(s)
  BY <1>1 DEF Upper
<1>4. SelectTurn(f, s) =
        IF s.k = p.pivotNewIndex THEN p.a[s.k]
        ELSE IF s.k < p.pivotNewIndex THEN f[Lower(s)] ELSE f[Upper(s)]
  BY <1>2, <1>3 DEF SelectTurn, Pivoted
<1>5. s.k \in Nat /\ p.pivotNewIndex \in Nat
  BY SelectFields, PivotedSplits
<1> HIDE DEF p, next
<1>6. s.k = p.pivotNewIndex => ~(s.k < p.pivotNewIndex) /\ ~(s.k > p.pivotNewIndex)
  BY <1>5
<1>7. s.k < p.pivotNewIndex => s.k # p.pivotNewIndex /\ ~(s.k > p.pivotNewIndex)
  BY <1>5
<1>8. s.k > p.pivotNewIndex => s.k # p.pivotNewIndex /\ ~(s.k < p.pivotNewIndex)
  BY <1>5
<1> QED
  BY <1>4, <1>6, <1>7, <1>8 DEF p

LEMMA NextSelectionType ==
    ASSUME NEW s \in Selections
    PROVE  /\ s.k < Pivoted(s).pivotNewIndex =>
                 /\ Lower(s) \in Selections
                 /\ Lower(s).a = Pivoted(s).a /\ Lower(s).k = s.k
                 /\ Lower(s).left = s.left /\ Lower(s).right = Pivoted(s).pivotNewIndex - 1
           /\ s.k > Pivoted(s).pivotNewIndex =>
                 /\ Upper(s) \in Selections
                 /\ Upper(s).a = Pivoted(s).a /\ Upper(s).k = s.k
                 /\ Upper(s).left = Pivoted(s).pivotNewIndex + 1 /\ Upper(s).right = s.right
<1> DEFINE p == Pivoted(s)
<1>1. s \in [a : Arrays, k : Particles, left : Particles, right : Particles]
  BY DEF Selections
<1>2. /\ p.a \in Arrays /\ p.pivotNewIndex \in Nat /\ p.pivotNewIndex \in Particles
      /\ s.left <= p.pivotNewIndex /\ p.pivotNewIndex <= s.right
  BY PivotedSplits
<1>3. ASSUME s.k < p.pivotNewIndex
      PROVE  p.pivotNewIndex - 1 \in Particles /\ s.k <= p.pivotNewIndex - 1
  BY <1>2, <1>3, SelectFields, SizeType
<1>4. ASSUME s.k > p.pivotNewIndex
      PROVE  p.pivotNewIndex + 1 \in Particles /\ p.pivotNewIndex + 1 <= s.k
  BY <1>2, <1>4, SelectFields, SizeType
<1> HIDE DEF p
<1>5. ASSUME s.k < p.pivotNewIndex
      PROVE  [s EXCEPT !.a = p.a, !.right = p.pivotNewIndex - 1] \in Selections
  BY <1>1, <1>2, <1>3, <1>5, SelectFields DEF Selections
<1>6. ASSUME s.k > p.pivotNewIndex
      PROVE  [s EXCEPT !.a = p.a, !.left = p.pivotNewIndex + 1] \in Selections
  BY <1>1, <1>2, <1>4, <1>6, SelectFields DEF Selections
<1>7. Lower(s) = [s EXCEPT !.a = p.a, !.right = p.pivotNewIndex - 1]
      /\ Upper(s) = [s EXCEPT !.a = p.a, !.left = p.pivotNewIndex + 1]
  BY DEF Lower, Upper, p
<1>8. ASSUME s.k < p.pivotNewIndex
      PROVE  /\ Lower(s) \in Selections
             /\ Lower(s).a = p.a /\ Lower(s).k = s.k
             /\ Lower(s).left = s.left /\ Lower(s).right = p.pivotNewIndex - 1
  BY <1>1, <1>5, <1>7, <1>8
<1>9. ASSUME s.k > p.pivotNewIndex
      PROVE  /\ Upper(s) \in Selections
             /\ Upper(s).a = p.a /\ Upper(s).k = s.k
             /\ Upper(s).left = p.pivotNewIndex + 1 /\ Upper(s).right = s.right
  BY <1>1, <1>6, <1>7, <1>9
<1> QED
  BY <1>8, <1>9 DEF p

\* Fewer elements are left between left and right after each turn.
LEMMA SelectShrinks ==
    ASSUME NEW s \in Selections, NEW n \in Nat, s.right - s.left < n + 1
    PROVE  /\ s.k < Pivoted(s).pivotNewIndex => Lower(s).right - Lower(s).left < n
           /\ s.k > Pivoted(s).pivotNewIndex => Upper(s).right - Upper(s).left < n
<1> DEFINE p == Pivoted(s)
<1>1. /\ p.pivotNewIndex \in Nat /\ s.left <= p.pivotNewIndex /\ p.pivotNewIndex <= s.right
      /\ s.left \in Nat /\ s.right \in Nat
  BY PivotedSplits, SelectFields
<1>2. s.k < p.pivotNewIndex => Lower(s).left = s.left /\ Lower(s).right = p.pivotNewIndex - 1
  BY NextSelectionType
<1>3. s.k > p.pivotNewIndex => Upper(s).left = p.pivotNewIndex + 1 /\ Upper(s).right = s.right
  BY NextSelectionType
<1> HIDE DEF p
<1>4. s.k < p.pivotNewIndex => Lower(s).right - Lower(s).left < n
  BY <1>1, <1>2
<1>5. s.k > p.pivotNewIndex => Upper(s).right - Upper(s).left < n
  BY <1>1, <1>3
<1> QED
  BY <1>4, <1>5 DEF p

\* quickselect ends: there is a function that the definition of selectKth describes.
LEMMA SelectIs == selectKth = [s \in Selections |-> SelectTurn(selectKth, s)]
<1> DEFINE Is(f) == f = [s \in Selections |-> SelectTurn(f, s)]
           Left(n) == {s \in Selections : s.right - s.left < n}
           IsUpTo(n, f) == f = [s \in Left(n) |-> SelectTurn(f, s)]
           Bad == {n \in Nat : ~ \E f : IsUpTo(n, f)}
<1>1. ASSUME NEW n \in Nat, NEW f, IsUpTo(n, f)
      PROVE  \E g : IsUpTo(n + 1, g)
  <2> DEFINE g == [s \in Left(n + 1) |-> SelectTurn(f, s)]
  <2>1. ASSUME NEW t \in Left(n) PROVE g[t] = f[t]
    <3>1. t.right - t.left < n + 1
      BY SelectFields
    <3> QED
      BY <1>1, <3>1
  <2>2. ASSUME NEW s \in Left(n + 1)
        PROVE  SelectTurn(g, s) = SelectTurn(f, s)
    <3>0. s \in Selections /\ s.right - s.left < n + 1
      OBVIOUS
    <3>1. CASE s.k = Pivoted(s).pivotNewIndex
      BY <3>0, <3>1, SelectTurnIs
    <3>2. CASE s.k < Pivoted(s).pivotNewIndex
      <4>1. Lower(s) \in Left(n)
        BY <3>0, <3>2, NextSelectionType, SelectShrinks
      <4>2. g[Lower(s)] = f[Lower(s)]
        BY <2>1, <4>1
      <4> HIDE DEF g
      <4> QED
        BY <3>0, <3>2, <4>2, SelectTurnIs
    <3>3. CASE s.k > Pivoted(s).pivotNewIndex
      <4>1. Upper(s) \in Left(n)
        BY <3>0, <3>3, NextSelectionType, SelectShrinks
      <4>2. g[Upper(s)] = f[Upper(s)]
        BY <2>1, <4>1
      <4> HIDE DEF g
      <4> QED
        BY <3>0, <3>3, <4>2, SelectTurnIs
    <3>4. s.k \in Nat /\ Pivoted(s).pivotNewIndex \in Nat
      BY <3>0, SelectFields, PivotedSplits
    <3> QED
      BY <3>1, <3>2, <3>3, <3>4
  <2> QED
    BY <2>2
<1>2. \E f : IsUpTo(0, f)
  <2>1. Left(0) = {}
    BY SelectFields
  <2> QED
    BY <2>1
<1>3. Bad = {}
  <2> SUFFICES ASSUME Bad # {} PROVE FALSE
    OBVIOUS
  <2>1. PICK n \in Bad : \A m \in Bad : n <= m
    <3>1. Bad \in SUBSET Nat
      OBVIOUS
    <3> HIDE DEF Bad
    <3> QED
      BY <3>1, LeastNat
  <2>2. n \in Nat /\ n # 0
    BY <1>2
  <2>3. n - 1 \in Nat /\ n - 1 \notin Bad
    <3>1. n - 1 \in Nat /\ ~(n <= n - 1)
      BY <2>2
    <3> HIDE DEF Bad
    <3> QED
      BY <2>1, <3>1
  <2>4. PICK f : IsUpTo(n - 1, f)
    BY <2>3
  <2>5. \E g : IsUpTo(n, g)
    <3>1. n - 1 + 1 = n
      BY <2>2
    <3> HIDE DEF IsUpTo
    <3>2. \E g : IsUpTo(n - 1 + 1, g)
      BY <1>1, <2>3, <2>4
    <3> QED
      BY <3>1, <3>2
  <2> QED
    BY <2>1, <2>2, <2>5
<1>4. Left(numParticles) = Selections
  BY SelectFields, SizeType
<1>5. \E f : Is(f)
  <2>1. numParticles \notin Bad
    BY <1>3
  <2> QED
    BY <1>4, <2>1, SizeType
<1>6. selectKth = CHOOSE f : Is(f)
  BY DEF selectKth, SelectTurn
<1> HIDE DEF Is
<1>7. Is(selectKth)
  BY <1>5, <1>6
<1> QED
  BY <1>7 DEF Is

\* The loop invariant of selectKth(): what is left of left is not above, and what
\* is right of right is not below, any element between.
Narrowed(s) ==
    /\ \A i, j \in Particles : i < s.left /\ s.left <= j => s.a[i] <= s.a[j]
    /\ \A i, j \in Particles : i <= s.right /\ s.right < j => s.a[i] <= s.a[j]

\* v is at place k of a rearrangement of a in which no element before k is above
\* it and none behind is below it.
InPlace(a, k, v) ==
    \E b \in Arrays :
        /\ Rearranged(a, b, 0, numParticles - 1)
        /\ b[k] = v
        /\ \A i \in Particles : i < k => b[i] <= v
        /\ \A i \in Particles : k < i => b[i] >= v

LEMMA SelectedHere ==
    ASSUME NEW s \in Selections, Narrowed(s), s.k = Pivoted(s).pivotNewIndex
    PROVE  InPlace(s.a, s.k, Pivoted(s).a[s.k])
<1> DEFINE b == Pivoted(s).a
           k == s.k
<1>0. /\ Split(s.a, Pivoted(s), s.left, s.right) /\ b \in Arrays /\ s.a \in Arrays
      /\ k \in Particles /\ k \in Nat /\ s.left \in Nat /\ s.right \in Nat
      /\ s.left \in Particles /\ s.right \in Particles
      /\ s.left <= k /\ k <= s.right
  BY PivotedSplits, SelectFields
<1>1. /\ Rearranged(s.a, b, s.left, s.right)
      /\ \A j \in Particles : s.left <= j /\ j < k => b[j] <= b[k]
      /\ \A j \in Particles : k < j /\ j <= s.right => b[j] > b[k]
  BY <1>0 DEF Split
<1> HIDE DEF b, k
<1>2. /\ \A i \in Particles : ~(s.left <= i /\ i <= s.right) => b[i] = s.a[i]
      /\ \A i \in Particles : s.left <= i /\ i <= s.right =>
            \E j \in Particles : s.left <= j /\ j <= s.right /\ b[i] = s.a[j]
  BY <1>1 DEF Rearranged
<1>3. \A i \in Particles : i \in Nat /\ b[i] \in Int
  BY <1>0, SizeType DEF Arrays
<1>4. PICK j \in Particles : s.left <= j /\ j <= s.right /\ b[k] = s.a[j]
  BY <1>0, <1>2
<1>5. ASSUME NEW i \in Particles, i < k PROVE b[i] <= b[k]
  <2>1. CASE s.left <= i
    BY <1>1, <1>5, <2>1
  <2>2. CASE i < s.left
    <3>1. b[i] = s.a[i]
      BY <1>0, <1>2, <1>3, <2>2
    <3>2. s.a[i] <= s.a[j]
      BY <1>4, <2>2 DEF Narrowed
    <3> QED
      BY <1>4, <3>1, <3>2
  <2>3. i \in Nat /\ s.left \in Nat
    BY <1>0, <1>3
  <2> QED
    BY <2>1, <2>2, <2>3
<1>6. ASSUME NEW i \in Particles, k < i PROVE b[i] >= b[k]
  <2>1. CASE i <= s.right
    BY <1>0, <1>1, <1>3, <1>6, <2>1
  <2>2. CASE s.right < i
    <3>1. b[i] = s.a[i]
      BY <1>0, <1>2, <1>3, <2>2
    <3>2. s.a[j] <= s.a[i]
      BY <1>4, <2>2 DEF Narrowed
    <3> QED
      BY <1>0, <1>3, <1>4, <3>1, <3>2
  <2>3. i \in Nat /\ s.right \in Nat
    BY <1>0, <1>3
  <2> QED
    BY <2>1, <2>2, <2>3
<1>7. Rearranged(s.a, b, 0, numParticles - 1)
  <2>1. PICK e \in [Particles -> Particles] :
          /\ \A m, n \in Particles : e[m] = e[n] => m = n
          /\ \A m \in Particles : b[m] = s.a[e[m]]
    BY <1>1 DEF Rearranged
  <2>2. \A m \in Particles : 0 <= m /\ m <= numParticles - 1 /\ 0 <= e[m] /\ e[m] <= numParticles - 1
    BY SizeType
  <2> QED
    BY <2>1, <2>2 DEF Rearranged
<1> QED
  BY <1>0, <1>5, <1>6, <1>7 DEF InPlace, b, k

LEMMA LowerNarrowed ==
    ASSUME NEW s \in Selections, Narrowed(s), s.k < Pivoted(s).pivotNewIndex
    PROVE  Narrowed(Lower(s))
<1> DEFINE b == Pivoted(s).a
           m == Pivoted(s).pivotNewIndex
           t == Lower(s)
<1>0. /\ b \in Arrays /\ s.a \in Arrays /\ Split(s.a, Pivoted(s), s.left, s.right)
      /\ m \in Particles /\ m \in Nat /\ s.left \in Nat /\ s.right \in Nat
      /\ s.left \in Particles /\ s.right \in Particles
      /\ s.left <= m /\ m <= s.right
      /\ t.a = b /\ t.left = s.left /\ t.right = m - 1
  BY PivotedSplits, SelectFields, NextSelectionType
<1>1. /\ Rearranged(s.a, b, s.left, s.right)
      /\ \A j \in Particles : s.left <= j /\ j < m => b[j] <= b[m]
      /\ \A j \in Particles : m < j /\ j <= s.right => b[j] > b[m]
  BY <1>0 DEF Split
<1> HIDE DEF b, m, t
<1>2. /\ \A i \in Particles : ~(s.left <= i /\ i <= s.right) => b[i] = s.a[i]
      /\ \A i \in Particles : s.left <= i /\ i <= s.right =>
            \E j \in Particles : s.left <= j /\ j <= s.right /\ b[i] = s.a[j]
  BY <1>1 DEF Rearranged
<1>3. \A i \in Particles : i \in Nat /\ b[i] \in Int
  BY <1>0, SizeType DEF Arrays
<1>4. ASSUME NEW i \in Particles, NEW j \in Particles, i < s.left, s.left <= j PROVE b[i] <= b[j]
  <2>1. b[i] = s.a[i]
    BY <1>0, <1>2, <1>3, <1>4
  <2>2. PICK l \in Particles : s.left <= l /\ b[j] = s.a[l]
    BY <1>0, <1>2, <1>3, <1>4
  <2> QED
    BY <1>4, <2>1, <2>2 DEF Narrowed
<1>5. ASSUME NEW i \in Particles, NEW j \in Particles, i <= s.right, s.right < j PROVE b[i] <= b[j]
  <2>1. b[j] = s.a[j]
    BY <1>0, <1>2, <1>3, <1>5
  <2>2. PICK l \in Particles : l <= s.right /\ b[i] = s.a[l]
    BY <1>0, <1>2, <1>3, <1>5
  <2> QED
    BY <1>5, <2>1, <2>2 DEF Narrowed
<1>6. ASSUME NEW i \in Particles, NEW j \in Particles, i < m, m <= j PROVE b[i] <= b[j]
  <2>0. /\ i \in Nat /\ j \in Nat /\ b[i] \in Int /\ b[j] \in Int /\ b[m] \in Int
    BY <1>0, <1>3
  <2>1. CASE i < s.left
    BY <1>0, <1>4, <1>6, <2>0, <2>1
  <2>2. CASE s.right < j
    BY <1>0, <1>5, <1>6, <2>0, <2>2
  <2>3. CASE s.left <= i /\ j <= s.right
    <3>1. b[i] <= b[m]
      BY <1>1, <1>6, <2>3
    <3>2. j = m \/ b[j] > b[m]
      BY <1>0, <1>1, <1>6, <2>0, <2>3
    <3> QED
      BY <2>0, <3>1, <3>2
  <2> QED
    BY <1>0, <2>0, <2>1, <2>2, <2>3
<1>7. \A i \in Particles : (i <= m - 1 <=> i < m) /\ (m - 1 < i <=> m <= i)
  BY <1>0, <1>3
<1>8. \A i, j \in Particles : i < t.left /\ t.left <= j => t.a[i] <= t.a[j]
  BY <1>0, <1>4
<1>9. \A i, j \in Particles : i <= t.right /\ t.right < j => t.a[i] <= t.a[j]
  BY <1>0, <1>6, <1>7
<1> QED
  BY <1>8, <1>9 DEF Narrowed, t

LEMMA UpperNarrowed ==
    ASSUME NEW s \in Selections, Narrowed(s), s.k > Pivoted(s).pivotNewIndex
    PROVE  Narrowed(Upper(s))
<1> DEFINE b == Pivoted(s).a
           m == Pivoted(s).pivotNewIndex
           t == Upper(s)
<1>0. /\ b \in Arrays /\ s.a \in Arrays /\ Split(s.a, Pivoted(s), s.left, s.right)
      /\ m \in Particles /\ m \in Nat /\ s.left \in Nat /\ s.right \in Nat
      /\ s.left \in Particles /\ s.right \in Particles
      /\ s.left <= m /\ m <= s.right
      /\ t.a = b /\ t.left = m + 1 /\ t.right = s.right
  BY PivotedSplits, SelectFields, NextSelectionType
<1>1. /\ Rearranged(s.a, b, s.left, s.right)
      /\ \A j \in Particles : s.left <= j /\ j < m => b[j] <= b[m]
      /\ \A j \in Particles : m < j /\ j <= s.right => b[j] > b[m]
  BY <1>0 DEF Split
<1> HIDE DEF b, m, t
<1>2. /\ \A i \in Particles : ~(s.left <= i /\ i <= s.right) => b[i] = s.a[i]
      /\ \A i \in Particles : s.left <= i /\ i <= s.right =>
            \E j \in Particles : s.left <= j /\ j <= s.right /\ b[i] = s.a[j]
  BY <1>1 DEF Rearranged
<1>3. \A i \in Particles : i \in Nat /\ b[i] \in Int
  BY <1>0, SizeType DEF Arrays
<1>4. ASSUME NEW i \in Particles, NEW j \in Particles, i < s.left, s.left <= j PROVE b[i] <= b[j]
  <2>1. b[i] = s.a[i]
    BY <1>0, <1>2, <1>3, <1>4
  <2>2. PICK l \in Particles : s.left <= l /\ b[j] = s.a[l]
    BY <1>0, <1>2, <1>3, <1>4
  <2> QED
    BY <1>4, <2>1, <2>2 DEF Narrowed
<1>5. ASSUME NEW i \in Particles, NEW j \in Particles, i <= s.right, s.right < j PROVE b[i] <= b[j]
  <2>1. b[j] = s.a[j]
    BY <1>0, <1>2, <1>3, <1>5
  <2>2. PICK l \in Particles : l <= s.right /\ b[i] = s.a[l]
    BY <1>0, <1>2, <1>3, <1>5
  <2> QED
    BY <1>5, <2>1, <2>2 DEF Narrowed
<1>6. ASSUME NEW i \in Particles, NEW j \in Particles, i <= m, m < j PROVE b[i] <= b[j]
  <2>0. /\ i \in Nat /\ j \in Nat /\ b[i] \in Int /\ b[j] \in Int /\ b[m] \in Int
    BY <1>0, <1>3
  <2>1. CASE i < s.left
    BY <1>0, <1>4, <1>6, <2>0, <2>1
  <2>2. CASE s.right < j
    BY <1>0, <1>5, <1>6, <2>0, <2>2
  <2>3. CASE s.left <= i /\ j <= s.right
    <3>1. i = m \/ b[i] <= b[m]
      BY <1>0, <1>1, <1>6, <2>0, <2>3
    <3>2. b[j] > b[m]
      BY <1>1, <1>6, <2>3
    <3> QED
      BY <2>0, <3>1, <3>2
  <2> QED
    BY <1>0, <2>0, <2>1, <2>2, <2>3
<1>7. \A i \in Particles : (i < m + 1 <=> i <= m) /\ (m + 1 <= i <=> m < i)
  BY <1>0, <1>3
<1>8. \A i, j \in Particles : i < t.left /\ t.left <= j => t.a[i] <= t.a[j]
  BY <1>0, <1>6, <1>7
<1>9. \A i, j \in Particles : i <= t.right /\ t.right < j => t.a[i] <= t.a[j]
  BY <1>0, <1>5
<1> QED
  BY <1>8, <1>9 DEF Narrowed, t

\* A turn rearranges, and what is in place after a rearrangement is in place.
LEMMA InPlaceBefore ==
    ASSUME NEW s \in Selections, NEW v, NEW k, InPlace(Pivoted(s).a, k, v)
    PROVE  InPlace(s.a, k, v)
<1> DEFINE b == Pivoted(s).a
           last == numParticles - 1
<1>0. b \in Arrays /\ s.a \in Arrays /\ Rearranged(s.a, b, s.left, s.right)
  BY PivotedSplits, SelectFields DEF Split
<1>1. PICK c \in Arrays :
        /\ Rearranged(b, c, 0, last)
        /\ c[k] = v
        /\ \A i \in Particles : i < k => c[i] <= v
        /\ \A i \in Particles : k < i => c[i] >= v
  BY DEF InPlace
<1> HIDE DEF b
<1>2. Rearranged(s.a, b, 0, last)
  <2>1. PICK e \in [Particles -> Particles] :
          /\ \A m, n \in Particles : e[m] = e[n] => m = n
          /\ \A m \in Particles : b[m] = s.a[e[m]]
    BY <1>0 DEF Rearranged
  <2>2. \A m \in Particles : 0 <= m /\ m <= last /\ 0 <= e[m] /\ e[m] <= last
    BY SizeType
  <2> QED
    BY <2>1, <2>2 DEF Rearranged
<1>3. 0 \in Particles /\ last \in Particles
  BY SizeType
<1> HIDE DEF last
<1>4. Rearranged(s.a, c, 0, last)
  BY <1>1, <1>2, <1>3, RearrangedTwice
<1> QED
  BY <1>1, <1>4 DEF InPlace, last

LEMMA SelectsInPlace == \A s \in Selections : Narrowed(s) => InPlace(s.a, s.k, selectKth[s])
<1> DEFINE Good(s) == Narrowed(s) => InPlace(s.a, s.k, selectKth[s])
           Bad == {n \in Nat : \E s \in Selections : s.right - s.left = n /\ ~Good(s)}
<1>1. ASSUME NEW s \in Selections, NEW n \in Nat, s.right - s.left < n + 1,
             \A t \in Selections : t.right - t.left < n => Good(t)
      PROVE  Good(s)
  <2> SUFFICES ASSUME Narrowed(s) PROVE InPlace(s.a, s.k, selectKth[s])
    OBVIOUS
  <2>0. selectKth[s] = SelectTurn(selectKth, s)
    BY SelectIs
  <2>1. CASE s.k = Pivoted(s).pivotNewIndex
    BY <2>0, <2>1, SelectTurnIs, SelectedHere
  <2>2. CASE s.k < Pivoted(s).pivotNewIndex
    <3> DEFINE t == Lower(s)
    <3>1. t \in Selections /\ t.a = Pivoted(s).a /\ t.k = s.k /\ t.right - t.left < n /\ Narrowed(t)
      BY <1>1, <2>2, NextSelectionType, SelectShrinks, LowerNarrowed
    <3>2. selectKth[s] = selectKth[t]
      BY <2>0, <2>2, SelectTurnIs
    <3> HIDE DEF t
    <3>3. InPlace(Pivoted(s).a, s.k, selectKth[s])
      BY <1>1, <3>1, <3>2
    <3> QED
      BY <3>3, InPlaceBefore
  <2>3. CASE s.k > Pivoted(s).pivotNewIndex
    <3> DEFINE t == Upper(s)
    <3>1. t \in Selections /\ t.a = Pivoted(s).a /\ t.k = s.k /\ t.right - t.left < n /\ Narrowed(t)
      BY <1>1, <2>3, NextSelectionType, SelectShrinks, UpperNarrowed
    <3>2. selectKth[s] = selectKth[t]
      BY <2>0, <2>3, SelectTurnIs
    <3> HIDE DEF t
    <3>3. InPlace(Pivoted(s).a, s.k, selectKth[s])
      BY <1>1, <3>1, <3>2
    <3> QED
      BY <3>3, InPlaceBefore
  <2>4. s.k \in Nat /\ Pivoted(s).pivotNewIndex \in Nat
    BY SelectFields, PivotedSplits
  <2> QED
    BY <2>1, <2>2, <2>3, <2>4
<1> HIDE DEF Good
<1>2. Bad = {}
  <2> SUFFICES ASSUME Bad # {} PROVE FALSE
    OBVIOUS
  <2>1. PICK n \in Bad : \A m \in Bad : n <= m
    <3>1. Bad \in SUBSET Nat
      OBVIOUS
    <3> HIDE DEF Bad
    <3> QED
      BY <3>1, LeastNat
  <2>2. PICK s \in Selections : s.right - s.left = n /\ ~Good(s)
    BY <2>1
  <2>3. ASSUME NEW t \in Selections, t.right - t.left < n PROVE Good(t)
    <3>1. t.right - t.left \in Nat /\ ~(n <= t.right - t.left)
      BY <2>1, <2>3, SelectFields
    <3>2. t.right - t.left \notin Bad
      <4> HIDE DEF Bad
      <4> QED
        BY <2>1, <3>1
    <3> QED
      BY <3>1, <3>2
  <2>4. n \in Nat /\ s.right - s.left < n + 1
    BY <2>1, <2>2
  <2> QED
    BY <1>1, <2>2, <2>3, <2>4
<1>3. ASSUME NEW s \in Selections PROVE Good(s)
  <2>1. s.right - s.left \in Nat
    BY SelectFields
  <2> QED
    BY <1>2, <2>1
<1> QED
  BY <1>3 DEF Good

-----------------------------------------------------------------------------

\* At most k elements of an array are below what is in place at k, and more than
\* k are not above it.
LEMMA PlaceCounts ==
    ASSUME NEW a \in Arrays, NEW k \in Particles, NEW v \in Int, InPlace(a, k, v)
    PROVE  /\ Cardinality({i \in Particles : a[i] <= v - 1}) <= k
           /\ Cardinality({i \in Particles : a[i] <= v}) > k
<1> DEFINE below == {i \in Particles : a[i] <= v - 1}
           rest == {i \in Particles : ~(a[i] <= v - 1)}
           upto == {i \in Particles : a[i] <= v}
           first == 0 .. k
           last == k .. numParticles - 1
<1>0. k \in Nat /\ \A i \in Particles : i \in Nat /\ a[i] \in Int
  BY SizeType DEF Arrays
<1>1. PICK b \in Arrays :
        /\ Rearranged(a, b, 0, numParticles - 1)
        /\ b[k] = v
        /\ \A i \in Particles : i < k => b[i] <= v
        /\ \A i \in Particles : k < i => b[i] >= v
  BY DEF InPlace
<1>2. PICK e \in [Particles -> Particles] :
        /\ \A i, j \in Particles : e[i] = e[j] => i = j
        /\ \A i \in Particles : b[i] = a[e[i]]
  BY <1>1 DEF Rearranged
<1>3. IsFiniteSet(Particles) /\ Cardinality(Particles) = numParticles
  BY SizeType, FS_Interval
<1>4. IsFiniteSet(below) /\ IsFiniteSet(rest) /\ IsFiniteSet(upto)
  BY <1>3, FS_Subset
<1>5. first \subseteq Particles /\ last \subseteq Particles
  BY <1>0, SizeType
<1>6. IsFiniteSet(first) /\ Cardinality(first) = k + 1
      /\ IsFiniteSet(last) /\ Cardinality(last) = numParticles - k
  BY <1>0, SizeType, FS_Interval
<1>7. \A i \in first : e[i] \in upto
  BY <1>0, <1>1, <1>2, <1>5
<1>8. \A i \in last : e[i] \in rest
  <2> SUFFICES ASSUME NEW i \in last PROVE ~(a[e[i]] <= v - 1)
    BY <1>5
  <2>1. b[i] >= v /\ b[i] = a[e[i]] /\ b[i] \in Int
    BY <1>0, <1>1, <1>2, <1>5 DEF Arrays
  <2> QED
    BY <2>1
<1>9. Cardinality(upto) >= k + 1
  <2> DEFINE f == [i \in first |-> e[i]]
  <2>1. f \in [first -> upto]
    BY <1>7
  <2>2. \A i, j \in first : f[i] = f[j] => i = j
    BY <1>2, <1>5
  <2> HIDE DEF f, first, upto
  <2>3. f \in Injection(first, upto)
    BY <2>1, <2>2 DEF Injection, IsInjective
  <2> QED
    BY <1>4, <1>6, <2>3, FS_Injection
<1>10. Cardinality(rest) >= numParticles - k
  <2> DEFINE f == [i \in last |-> e[i]]
  <2>1. f \in [last -> rest]
    BY <1>8
  <2>2. \A i, j \in last : f[i] = f[j] => i = j
    BY <1>2, <1>5
  <2> HIDE DEF f, last, rest
  <2>3. f \in Injection(last, rest)
    BY <2>1, <2>2 DEF Injection, IsInjective
  <2> QED
    BY <1>4, <1>6, <2>3, FS_Injection
<1>11. Cardinality(below) + Cardinality(rest) = numParticles
  <2>1. below \cup rest = Particles /\ below \cap rest = {}
    OBVIOUS
  <2> HIDE DEF below, rest
  <2>2. Cardinality(below \cap rest) = 0
    BY <2>1, FS_EmptySet
  <2>3. Cardinality(below \cup rest) = Cardinality(below) + Cardinality(rest) - Cardinality(below \cap rest)
    BY <1>4, FS_Union
  <2>4. Cardinality(below) \in Nat /\ Cardinality(rest) \in Nat
    BY <1>4, FS_CardinalityType
  <2>5. Cardinality(below \cup rest) = numParticles
    BY <1>3, <2>1
  <2> QED
    BY <2>2, <2>3, <2>4, <2>5
<1>12. Cardinality(below) \in Nat /\ Cardinality(rest) \in Nat /\ Cardinality(upto) \in Nat
  BY <1>4, FS_CardinalityType
<1> HIDE DEF below, rest, upto
<1>13. Cardinality(below) <= k /\ Cardinality(upto) > k
  <2>1. k \in Nat /\ numParticles \in Nat
    BY <1>0, SizeType
  <2> QED
    BY <1>9, <1>10, <1>11, <1>12, <2>1
<1> QED
  BY <1>13 DEF below, upto

LEMMA MedianIsMedian ==
    ASSUME NEW a \in Arrays
    PROVE  /\ median(a) \in Int
           /\ Cardinality({i \in Particles : a[i] <= median(a) - 1}) <= numParticles \div 2
           /\ Cardinality({i \in Particles : a[i] <= median(a)}) > numParticles \div 2
<1> DEFINE k == numParticles \div 2
           s == [a |-> a, k |-> k, left |-> 0, right |-> numParticles - 1]
<1>1. k \in Particles /\ 0 \in Particles /\ numParticles - 1 \in Particles
      /\ 0 <= k /\ k <= numParticles - 1
  BY SizeType
<1> HIDE DEF k
<1>2. s \in Selections /\ s.a = a /\ s.k = k /\ s.left = 0 /\ s.right = numParticles - 1
  BY <1>1 DEF Selections
<1>3. median(a) = selectKth[s]
  BY DEF median, k
<1> HIDE DEF s
<1>4. Narrowed(s)
  <2>1. \A i \in Particles : ~(i < 0) /\ ~(numParticles - 1 < i)
    BY SizeType
  <2> QED
    BY <1>2, <2>1 DEF Narrowed
<1>5. InPlace(a, k, median(a))
  BY <1>2, <1>3, <1>4, SelectsInPlace
<1>6. median(a) \in Int
  <2>1. PICK b \in Arrays : b[k] = median(a)
    BY <1>5 DEF InPlace
  <2> QED
    BY <1>1, <2>1 DEF Arrays
<1>7. /\ Cardinality({i \in Particles : a[i] <= median(a) - 1}) <= k
      /\ Cardinality({i \in Particles : a[i] <= median(a)}) > k
  BY <1>1, <1>5, <1>6, PlaceCounts
<1> QED
  BY <1>6, <1>7 DEF k

\* What loadBalance() returns is a median on each axis, of any particles.
LEMMA LoadBalanceSplits ==
    ASSUME NEW pts \in Placings, NEW x \in Axes
    PROVE  LET v == loadBalance(pts)[x]
           IN  /\ v \in Int
               /\ Cardinality({i \in Particles : pts[i][x] <= v - 1}) <= numParticles \div 2
               /\ Cardinality({i \in Particles : pts[i][x] <= v}) > numParticles \div 2
<1> DEFINE a == [i \in Particles |-> pts[i][x]]
<1>1. \A i \in Particles : pts[i] \in Int \X Int \X Int
  BY PositionsAssumption DEF Placings
<1>2. x = 1 \/ x = 2 \/ x = 3
  BY DEF Axes
<1>3. a \in Arrays /\ \A i \in Particles : a[i] = pts[i][x]
  BY <1>1, <1>2 DEF Arrays
<1>4. loadBalance(pts)[x] = median(a)
  BY <1>2 DEF loadBalance
<1> HIDE DEF a
<1>5. /\ median(a) \in Int
      /\ Cardinality({i \in Particles : a[i] <= median(a) - 1}) <= numParticles \div 2
      /\ Cardinality({i \in Particles : a[i] <= median(a)}) > numParticles \div 2
  BY <1>3, MedianIsMedian
<1>6. /\ {i \in Particles : pts[i][x] <= median(a) - 1} = {i \in Particles : a[i] <= median(a) - 1}
      /\ {i \in Particles : pts[i][x] <= median(a)} = {i \in Particles : a[i] <= median(a)}
  BY <1>3
<1> QED
  BY <1>4, <1>5, <1>6

\* MedianSplits of mpibody.c:182, for every array: a rank that is about to move
\* its particles split them by the median of where they are, so that at most half
\* of them are below on any axis, and more than half are not above.
THEOREM MedianFound == Spec => []MedianSplits
<1>1. IInv => MedianSplits
  <2> SUFFICES ASSUME IInv, NEW r \in Ranks, NEW x \in Axes,
                      pc[r] = "move", loadBalanceFreq > 0, step[r] % loadBalanceFreq = 0
               PROVE  /\ Cardinality({i \in Particles : particle[r][i][x] <= splitPoint[r][x] - 1})
                            <= numParticles \div 2
                      /\ Cardinality({i \in Particles : particle[r][i][x] <= splitPoint[r][x]})
                            > numParticles \div 2
    BY DEF MedianSplits
  <2>1. PICK P, S, O, W : Replay(P, S, O, W)
    BY DEF IInv
  <2> DEFINE k == step[r]
  <2>2. k \in Steps /\ k \in 0 .. timeSteps
    BY <2>1, Types DEF Replay, Shape, Steps
  <2>3. Named(k) /\ DueIn(k)
    BY DEF Named, DueIn
  <2>4. particle[r] = P[k] /\ splitPoint[r] = S[k + 1]
    BY <2>1 DEF Replay, Follows
  <2>5. S[k + 1] = loadBalance(P[k]) /\ P[k] \in Placings
    BY <2>1, <2>2, <2>3 DEF Replay, History
  <2> HIDE DEF k
  <2> QED
    BY <2>4, <2>5, LoadBalanceSplits
<1> QED
  BY <1>1, OneHistory, PTL

-----------------------------------------------------------------------------
(* Nobody waits for ever: the ranks do not all wait for each other.        *)

\* r can take a step: the guard of one of its actions holds.
CanGo(r) ==
    \/ pc[r] = "init" /\ (r = 0 \/ inbox[0][r] # <<>>)
    \/ pc[r] = "step"
    \/ pc[r] = "move"
    \/ pc[r] = "exchange" /\ LET q == turn[r] IN q = r \/ numOwned(r, q) = 0 \/ inbox[q][r] # <<>>

\* Until the run is over there is a rank that can go on, though the ranks name
\* owners, counts and roots of the broadcasts without asking each other.
SomeoneCanGo == (\A r \in Ranks : pc[r] = "done") \/ \E r \in Ranks : CanGo(r)

LEMMA NoLetterLost ==
    ASSUME NEW P, NEW S, NEW O, NEW W, Replay(P, S, O, W),
           NEW s \in Ranks, NEW r \in Ranks, s # r, inbox[s][r] = <<>>
    PROVE  Awaited(O, s, r) = {}
<1>1. W[s][r] \in Seq(Casts) /\ Entries(W[s][r]) = Awaited(O, s, r)
      /\ inbox[s][r] = Images(Casting(P, O, s), W[s][r])
  BY DEF Replay, Queued
<1>2. W[s][r] = <<>>
  BY <1>1, ImagesOf
<1>3. Len(W[s][r]) = 0
  BY <1>2
<1> QED
  BY <1>1, <1>3 DEF Entries

\* A rank that cannot go on waits for one in an earlier step, or in the same step
\* and not yet as far in the turns.
LEMMA WaitsForOneBehind ==
    ASSUME NEW P, NEW S, NEW O, NEW W, Replay(P, S, O, W),
           NEW r \in Ranks, ~CanGo(r), pc[r] # "done"
    PROVE  /\ pc[r] = "exchange" /\ pc[turn[r]] # "done"
           /\ pc[turn[r]] = "exchange" /\ ~CanGo(turn[r]) =>
                 step[turn[r]] < step[r] \/ (step[turn[r]] = step[r] /\ turn[turn[r]] < turn[r])
<1>0. Shape /\ O[-1] = [i \in Particles |-> 0] /\ O \in [Casts -> [Particles -> Ranks]]
  BY DEF Replay, History
<1>1. pc[r] \in Labels /\ 0 \in Ranks /\ r \in Nat
  BY <1>0, Types
<1>2. pc[r] # "init"
  <2> SUFFICES ASSUME pc[r] = "init" PROVE FALSE
    OBVIOUS
  <2>1. r # 0 /\ inbox[0][r] = <<>>
    BY DEF CanGo
  <2>2. Awaited(O, 0, r) = {}
    BY <1>1, <2>1, NoLetterLost
  <2>3. Past(r, 0) = -1 /\ Sent(0) \in Nat /\ -1 \in Casts
    BY <1>0, <1>1, SizesAssumption, Clocks DEF Casts
  <2>4. 0 \in Of(O, -1, 0)
    BY <1>0, SizesAssumption DEF Of, Particles
  <2>5. -1 \in Awaited(O, 0, r)
    BY <2>3, <2>4 DEF Awaited
  <2> QED
    BY <2>2, <2>5
<1>3. pc[r] = "exchange"
  BY <1>1, <1>2 DEF CanGo, Labels
<1> DEFINE q == turn[r]
           k == step[r]
<1>4. q # r /\ numOwned(r, q) # 0 /\ inbox[q][r] = <<>>
  BY <1>3 DEF CanGo
<1>5. /\ q \in Ranks /\ q \in Nat /\ r \in Nat /\ k \in Nat /\ k < timeSteps /\ timeSteps \in Nat
      /\ k \in Steps /\ k \in Casts /\ step[q] \in Nat /\ step[q] <= timeSteps /\ turn[q] \in Nat
      /\ pc[q] \in Labels
  <2>1. q \in Ranks /\ q \in Nat /\ r \in Nat /\ k \in Nat /\ k < timeSteps /\ timeSteps \in Nat
    BY <1>0, <1>3, Types DEF Shape
  <2>2. k \in Steps /\ k \in Casts
    BY <2>1 DEF Steps, Casts
  <2> QED
    BY <1>0, <2>1, <2>2, Types
<1>6. Awaited(O, q, r) = {}
  BY <1>4, <1>5, NoLetterLost
<1>7. Past(r, q) = k
  BY <1>3, <1>5 DEF Past, Round
<1>8. Of(O, k, q) # {}
  <2>1. owner[r] = O[k]
    BY <1>3 DEF Replay, Follows
  <2>2. numOwned(r, q) = Cardinality(Of(O, k, q))
    BY <2>1 DEF numOwned, Of
  <2> QED
    BY <1>4, <2>2, FS_EmptySet
<1>9. Sent(q) <= k
  <2>1. Sent(q) \in Nat
    BY <1>0, <1>5, Clocks
  <2> QED
    BY <1>5, <1>6, <1>7, <1>8, <2>1 DEF Awaited
<1>10. pc[q] # "done"
  <2>1. pc[q] = "done" => step[q] = timeSteps /\ Sent(q) = step[q]
    BY <1>0, <1>5 DEF Shape, Sent, Round
  <2> QED
    BY <1>5, <1>9, <2>1
<1>11. ASSUME pc[q] = "exchange", ~CanGo(q)
       PROVE  step[q] < k \/ (step[q] = k /\ turn[q] < q)
  <2>1. turn[q] # q
    BY <1>11 DEF CanGo
  <2>2. Sent(q) = step[q] + IF turn[q] > q THEN 1 ELSE 0
    BY <1>11 DEF Sent, Round
  <2> QED
    BY <1>5, <1>9, <2>1, <2>2
<1> QED
  BY <1>3, <1>10, <1>11

\* No circle of ranks waits for each other's broadcasts (mpibody.c:520): as long
\* as some rank is not done one of them can go on.
THEOREM NoneStuck == Spec => []SomeoneCanGo
<1>1. IInv => SomeoneCanGo
  <2> SUFFICES ASSUME IInv, \A r \in Ranks : ~CanGo(r), NEW z \in Ranks, pc[z] # "done"
               PROVE  FALSE
    BY DEF SomeoneCanGo
  <2>1. PICK P, S, O, W : Replay(P, S, O, W)
    BY DEF IInv
  <2>2. Shape
    BY <2>1 DEF Replay
  <2> DEFINE Waiting == {r \in Ranks : pc[r] # "done"}
             StepsOf == {step[r] : r \in Waiting}
  <2>3. \A r \in Waiting : /\ r \in Ranks /\ step[r] \in Nat /\ turn[r] \in Nat /\ turn[r] \in Waiting
                           /\ pc[r] = "exchange"
    <3> SUFFICES ASSUME NEW r \in Ranks, pc[r] # "done"
                 PROVE  /\ step[r] \in Nat /\ turn[r] \in Nat /\ turn[r] \in Ranks
                        /\ pc[turn[r]] # "done" /\ pc[r] = "exchange"
      OBVIOUS
    <3> QED
      BY <2>1, <2>2, Types, WaitsForOneBehind
  <2>4. \A r \in Waiting : step[turn[r]] < step[r] \/ (step[turn[r]] = step[r] /\ turn[turn[r]] < turn[r])
    BY <2>1, <2>3, WaitsForOneBehind
  <2>5. StepsOf \in SUBSET Nat /\ StepsOf # {}
    BY <2>3
  <2>6. PICK k \in StepsOf : \A j \in StepsOf : k <= j
    <3> HIDE DEF StepsOf
    <3> QED
      BY <2>5, LeastNat
  <2> DEFINE TurnsOf == {turn[r] : r \in {q \in Waiting : step[q] = k}}
  <2>7. TurnsOf \in SUBSET Nat /\ TurnsOf # {}
    BY <2>3, <2>6
  <2>8. PICK t \in TurnsOf : \A u \in TurnsOf : t <= u
    <3> HIDE DEF TurnsOf
    <3> QED
      BY <2>7, LeastNat
  <2>9. PICK r \in Waiting : step[r] = k /\ turn[r] = t
    BY <2>8
  <2> DEFINE q == turn[r]
  <2>10. q \in Waiting /\ step[q] \in StepsOf /\ step[q] \in Nat /\ turn[q] \in Nat
         /\ k \in Nat /\ t \in Nat
    BY <2>3, <2>5, <2>6, <2>7, <2>8, <2>9
  <2> HIDE DEF Waiting
  <2>11. k <= step[q]
    BY <2>6, <2>10
  <2>12. step[q] = k /\ turn[q] < t
    BY <2>4, <2>9, <2>10, <2>11
  <2>13. turn[q] \in TurnsOf
    BY <2>10, <2>12
  <2> QED
    BY <2>8, <2>10, <2>12, <2>13
<1> QED
  BY <1>1, OneHistory, PTL

=============================================================================
