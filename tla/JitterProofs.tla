---------------------------- MODULE JitterProofs ----------------------------
(***************************************************************************)
(* For any number of ranks, gears, programs and slacks, and each of the    *)
(* five versions of jitter: the static variables stay in range, a rank     *)
(* knows its gear, the busiest rank is not slowed, and an iteration longer *)
(* than all before it ends a gear that was too slow.                       *)
(***************************************************************************)
EXTENDS Jitter, SequenceTheorems, WellFoundedInduction, TLAPS

-----------------------------------------------------------------------------
(* The operators.                                                          *)

\* The least element of a set of natural numbers.
LEMMA MinIsLeast ==
    ASSUME NEW S \in SUBSET Nat, S # {}
    PROVE  /\ Min(S) \in S
           /\ \A y \in S : Min(S) <= y
<1>1. \E x \in S : \A y \in S : ~(<<y, x>> \in OpToRel(<, Nat))
  BY NatLessThanWellFounded, WFMin
<1>2. ASSUME NEW x \in Nat, NEW y \in Nat, y < x
      PROVE  <<y, x>> \in OpToRel(<, Nat)
  BY <1>2 DEF OpToRel
<1>3. \E x \in S : \A y \in S : ~(y < x)
  BY <1>1, <1>2
<1>4. \E x \in S : \A y \in S : x <= y
  BY <1>3
<1> QED
  BY <1>4 DEF Min

\* The greater of two natural numbers.
LEMMA MaxOfTwo ==
    ASSUME NEW a \in Nat, NEW b \in Nat
    PROVE  Max({a, b}) \in Nat /\ Max({a, b}) >= a /\ Max({a, b}) >= b /\ Max({a, b}) \in {a, b}
<1>1. \E x \in {a, b} : \A y \in {a, b} : x >= y
  OBVIOUS
<1> QED
  BY <1>1 DEF Max

\* The sum over a window, whose elements before the last are bounded.
LEMMA TotalBounded ==
    ASSUME NEW w, NEW n \in 1 .. 5, Len(w) = n, NEW top \in Nat,
           \A i \in 1 .. n : w[i] \in Nat,
           \A i \in 1 .. n - 1 : w[i] <= top
    PROVE  total(w) \in Nat /\ total(w) <= (n - 1) * top + w[n]
<1> DEFINE Sum(k) == CASE k = 0 -> 0
                       [] k = 1 -> w[1]
                       [] k = 2 -> w[1] + w[2]
                       [] k = 3 -> w[1] + w[2] + w[3]
                       [] k = 4 -> w[1] + w[2] + w[3] + w[4]
                       [] k = 5 -> w[1] + w[2] + w[3] + w[4] + w[5]
           Sums(f) == f = [k \in 0 .. n |-> IF k = 0 THEN 0 ELSE f[k - 1] + w[k]]
           upto == CHOOSE f : Sums(f)
<1>n. n \in Nat /\ n <= 5 /\ n >= 1
  OBVIOUS
<1>0. \A i \in 1 .. n : w[i] \in Nat
  OBVIOUS
<1>1. Sums([k \in 0 .. n |-> Sum(k)])
  <2>1. ASSUME NEW k \in 0 .. n
        PROVE  /\ Sum(k) = (IF k = 0 THEN 0 ELSE Sum(k - 1) + w[k])
               /\ k # 0 => k - 1 \in 0 .. n
    <3>1. k \in {0, 1, 2, 3, 4, 5} /\ k <= n /\ (k # 0 => k - 1 \in 0 .. n)
      BY <1>n, <2>1
    <3>2. CASE k = 0
      BY <3>2
    <3>3. CASE k = 1
      BY <1>0, <3>1, <3>3
    <3>4. CASE k = 2
      BY <1>0, <3>1, <3>4
    <3>5. CASE k = 3
      BY <1>0, <3>1, <3>5
    <3>6. CASE k = 4
      BY <1>0, <3>1, <3>6
    <3>7. CASE k = 5
      BY <1>0, <3>1, <3>7
    <3> QED
      BY <3>1, <3>2, <3>3, <3>4, <3>5, <3>6, <3>7
  <2> HIDE DEF Sum
  <2> QED
    BY <2>1
<1>2. Sums(upto)
  <2> HIDE DEF Sums, Sum
  <2> QED
    BY <1>1
<1>3. total(w) = upto[n]
  BY DEF total
<1> HIDE DEF Sum, upto
<1>4. upto[0] = 0 /\ \A k \in 1 .. n : upto[k] = upto[k - 1] + w[k]
  <2>0. upto = [k \in 0 .. n |-> IF k = 0 THEN 0 ELSE upto[k - 1] + w[k]]
    BY <1>2
  <2>1. /\ 0 \in 0 .. n /\ \A k \in 1 .. n : k \in 0 .. n /\ k # 0
        /\ upto = [k \in 0 .. n |-> IF k = 0 THEN 0 ELSE upto[k - 1] + w[k]]
    <3>1. n \in Nat
      OBVIOUS
    <3>2. 0 \in 0 .. n /\ \A k \in 1 .. n : k \in 0 .. n /\ k # 0
      BY ONLY <3>1
    <3> QED
      BY <2>0, <3>2
  <2>2. upto[0] = 0
    BY <2>1
  <2>3. ASSUME NEW k \in 1 .. n PROVE upto[k] = upto[k - 1] + w[k]
    <3>1. k \in 0 .. n /\ k # 0
      BY <2>1
    <3> QED
      BY <2>1, <3>1, Zenon
  <2> QED
    BY <2>2, <2>3
<1>5. upto[1] = w[1]
  BY <1>0, <1>4
<1>6. n >= 2 => upto[2] = w[1] + w[2]
  BY <1>0, <1>4, <1>5
<1>7. n >= 3 => upto[3] = w[1] + w[2] + w[3]
  BY <1>0, <1>4, <1>6
<1>8. n >= 4 => upto[4] = w[1] + w[2] + w[3] + w[4]
  <2> SUFFICES ASSUME n >= 4 PROVE upto[4] = w[1] + w[2] + w[3] + w[4]
    OBVIOUS
  <2>1. upto[4] = upto[3] + w[4]
    BY <1>4
  <2> QED
    BY <1>7, <2>1
<1>9. n >= 5 => upto[5] = w[1] + w[2] + w[3] + w[4] + w[5]
  BY <1>0, <1>4, <1>8
<1>10. n \in {1, 2, 3, 4, 5}
  <2> QED
    BY <1>n
<1>11. CASE n = 1
  BY <1>0, <1>3, <1>5, <1>11
<1>12. CASE n = 2
  <2>1. w[1] <= top
    BY <1>12
  <2>2. w[1] \in Nat /\ w[2] \in Nat
    BY <1>0, <1>12
  <2>3. total(w) = w[1] + w[2]
    BY <1>3, <1>6, <1>12
  <2>4. total(w) \in Nat /\ total(w) <= 1 * top + w[2]
    <3>1. top \in Nat
      OBVIOUS
    <3> QED
      BY ONLY <2>1, <2>2, <2>3, <3>1
  <2> QED
    BY <2>4, <1>12
<1>13. CASE n = 3
  <2>1. w[1] <= top /\ w[2] <= top
    BY <1>13
  <2>2. w[1] \in Nat /\ w[2] \in Nat /\ w[3] \in Nat
    BY <1>0, <1>13
  <2>3. total(w) = w[1] + w[2] + w[3]
    BY <1>3, <1>7, <1>13
  <2>4. total(w) \in Nat /\ total(w) <= 2 * top + w[3]
    <3>1. top \in Nat
      OBVIOUS
    <3> QED
      BY ONLY <2>1, <2>2, <2>3, <3>1
  <2> QED
    BY <2>4, <1>13
<1>14. CASE n = 4
  <2>1. w[1] <= top /\ w[2] <= top /\ w[3] <= top
    BY <1>14
  <2>2. w[1] \in Nat /\ w[2] \in Nat /\ w[3] \in Nat /\ w[4] \in Nat
    BY <1>0, <1>14
  <2>3. total(w) = w[1] + w[2] + w[3] + w[4]
    BY <1>3, <1>8, <1>14
  <2>4. total(w) \in Nat /\ total(w) <= 3 * top + w[4]
    <3>1. top \in Nat
      OBVIOUS
    <3> QED
      BY ONLY <2>1, <2>2, <2>3, <3>1
  <2> QED
    BY <2>4, <1>14
<1>15. CASE n = 5
  <2>1. w[1] <= top /\ w[2] <= top /\ w[3] <= top /\ w[4] <= top
    BY <1>15
  <2>2. w[1] \in Nat /\ w[2] \in Nat /\ w[3] \in Nat /\ w[4] \in Nat /\ w[5] \in Nat
    BY <1>0, <1>15
  <2>3. total(w) = w[1] + w[2] + w[3] + w[4] + w[5]
    BY <1>3, <1>9, <1>15
  <2>4. total(w) \in Nat /\ total(w) <= 4 * top + w[5]
    <3>1. top \in Nat
      OBVIOUS
    <3> QED
      BY ONLY <2>1, <2>2, <2>3, <3>1
  <2> QED
    BY <2>4, <1>15
<1> QED
  BY <1>10, <1>11, <1>12, <1>13, <1>14, <1>15

-----------------------------------------------------------------------------
(* The moves of a rank.                                                    *)

\* The biases are typed afresh, and nothing else changes.
LEMMA ResetBiasMove ==
    ASSUME NEW s \in Static, NEW h \in Nat
    PROVE  /\ reset_bias(s, h) \in Static
           /\ reset_bias(s, h).current_gear = s.current_gear
           /\ reset_bias(s, h).decreased = s.decreased
           /\ reset_bias(s, h).previous = s.previous
<1>1. [g \in Gears |-> 1] \in [Gears -> Nat] /\ [g \in Gears |-> 20 + h * g] \in [Gears -> Nat]
  <2>1. \A g \in Gears : 20 + h * g \in Nat
    BY RankAssumption DEF Gears
  <2> QED
    BY <2>1
<1> QED
  BY <1>1 DEF reset_bias, Static

LEMMA StayMove ==
    ASSUME NEW s \in Static
    PROVE  /\ Stay(s) \in Static
           /\ Stay(s).current_gear = s.current_gear
           /\ Stay(s).decreased = FALSE
           /\ Stay(s).previous = s.previous
  BY DEF Stay, Static

\* One gear up, from gear 0 none.
LEMMA SpeedUpMove ==
    ASSUME NEW s \in Static
    PROVE  /\ SpeedUp(s) \in Static
           /\ SpeedUp(s).current_gear = IF s.current_gear = 0 THEN 0 ELSE s.current_gear - 1
           /\ SpeedUp(s).previous = s.previous
<1>0. LOWEST_GEAR \in Nat /\ s.current_gear \in 0 .. LOWEST_GEAR /\ s.upshift \in [Gears -> Nat]
      /\ s.current_gear \in Gears
  BY RankAssumption DEF Static, Gears
<1>1. CASE s.current_gear = 0
  BY <1>1, StayMove DEF SpeedUp
<1>2. CASE s.current_gear # 0
  <2> DEFINE g == s.current_gear
             grown == Min({s.upshift[g] * BIAS, UPSHIFT_MAX})
  <2>1. {s.upshift[g] * BIAS, UPSHIFT_MAX} \in SUBSET Nat /\ {s.upshift[g] * BIAS, UPSHIFT_MAX} # {}
    BY <1>0 DEF BIAS, UPSHIFT_MAX
  <2>2. grown \in {s.upshift[g] * BIAS, UPSHIFT_MAX}
    BY <2>1, MinIsLeast
  <2>3. grown \in Nat
    BY <2>1, <2>2
  <2> HIDE DEF grown
  <2>4. SpeedUp(s) = [s EXCEPT !.current_gear = g - 1, !.upshift = [s.upshift EXCEPT ![g] = grown],
                               !.increased = TRUE, !.decreased = FALSE]
    BY <1>0, <1>2 DEF SpeedUp, Static, grown
  <2>5. [s.upshift EXCEPT ![g] = grown] \in [Gears -> Nat] /\ g - 1 \in Gears
    BY <1>0, <1>2, <2>3 DEF Gears
  <2> QED
    BY <1>2, <2>4, <2>5 DEF Static
<1> QED
  BY <1>1, <1>2

\* One gear down, from the lowest gear none.
LEMMA SlowDownMove ==
    ASSUME NEW s \in Static, NEW lowest \in Gears, s.current_gear <= lowest
    PROVE  /\ SlowDown(s, lowest) \in Static
           /\ SlowDown(s, lowest).current_gear <= lowest
           /\ SlowDown(s, lowest).previous = s.previous
<1>0. LOWEST_GEAR \in Nat /\ s.current_gear \in 0 .. LOWEST_GEAR /\ s.downshift \in [Gears -> Nat]
      /\ s.current_gear \in Gears /\ lowest \in 0 .. LOWEST_GEAR
  BY RankAssumption DEF Static, Gears
<1>1. CASE s.current_gear = lowest
  BY <1>1, <1>0, StayMove DEF SlowDown
<1>2. CASE s.current_gear # lowest
  <2> DEFINE g == s.current_gear
  <2>1. s.downshift[g] * BIAS \in Nat
    BY <1>0 DEF BIAS
  <2>2. SlowDown(s, lowest) = [s EXCEPT !.current_gear = g + 1,
                                        !.downshift = [s.downshift EXCEPT ![g] = s.downshift[g] * BIAS],
                                        !.increased = FALSE, !.decreased = TRUE]
    BY <1>0, <1>2 DEF SlowDown, Static
  <2>3. [s.downshift EXCEPT ![g] = s.downshift[g] * BIAS] \in [Gears -> Nat] /\ g + 1 \in Gears /\ g + 1 <= lowest
    <3>1. g \in Int /\ lowest \in Int /\ LOWEST_GEAR \in Int /\ 0 <= g /\ g <= lowest /\ g # lowest
          /\ lowest <= LOWEST_GEAR
      BY <1>0, <1>2
    <3>2. g + 1 \in 0 .. LOWEST_GEAR /\ g + 1 <= lowest
      BY ONLY <3>1
    <3>3. [s.downshift EXCEPT ![g] = s.downshift[g] * BIAS] \in [Gears -> Nat]
      BY <1>0, <2>1
    <3> QED
      BY <3>2, <3>3 DEF Gears
  <2> HIDE DEF g
  <2>4. SlowDown(s, lowest) \in Static
    BY <2>2, <2>3 DEF Static
  <2>5. SlowDown(s, lowest).current_gear = g + 1 /\ SlowDown(s, lowest).previous = s.previous
    BY <2>2 DEF Static
  <2> QED
    BY <2>3, <2>4, <2>5
<1> QED
  BY <1>1, <1>2

LEMMA ReturnMove ==
    ASSUME NEW s \in Static
    PROVE  /\ Return(s) \in Static
           /\ Return(s).current_gear = IF s.current_gear = 0 THEN 0 ELSE s.current_gear - 1
           /\ Return(s).previous = s.previous
<1>1. CASE s.current_gear = 0
  BY <1>1, StayMove DEF Return
<1>2. CASE s.current_gear # 0
  <2>1. SpeedUp(s) \in Static
    BY SpeedUpMove
  <2>2. Return(s) = [SpeedUp(s) EXCEPT !.SLACK = SpeedUp(s).SLACK + 20]
    BY <1>2 DEF Return
  <2> QED
    BY <1>2, <2>1, <2>2, SpeedUpMove DEF Static
<1> QED
  BY <1>1, <1>2

\* The mode and the version depend on the program alone, which stays.
LEMMA SameMode ==
    ASSUME program' = program
    PROVE  mode' = mode /\ version' = version /\ SHIFT' = SHIFT /\ MANUAL' = MANUAL
  BY DEF mode, version, mode_PROTO, mode_first, SHIFT, MANUAL

LEMMA ProgramType ==
    ASSUME program \in Programs
    PROVE  /\ program.version \in Versions /\ program.LOWEST \in Gears
           /\ program.SKIP \in Nat \ {0} /\ program.MANUAL_GEARS \in [Ranks -> Gears]
           /\ program.solution \in [Ranks -> SUBSET Gears] /\ program.via \in [Ranks -> Calls]
           /\ \A len \in program.lengths : len \in [Ranks -> Nat \ {0}]
           /\ version = "PROTO" => \A r \in Ranks : program.solution[r] \subseteq 0 .. program.LOWEST
<1>1. program \in Program
  BY ProgramAssumption
<1>2. version = "PROTO" => \A r \in Ranks : program.solution[r] \subseteq 0 .. program.LOWEST
  BY ProgramAssumption DEF version
<1> QED
  BY <1>1, <1>2 DEF Program

\* The four moves a decision chooses from, and the start over.
Moved(r, s, d, len, net) ==
    \/ d \in {Return(s), SpeedUp(s), Stay(s)}
    \/ d = SlowDown(s, program.LOWEST) /\ Loose(s, net)
    \/ d = Reset(s) /\ Resets(r, len)

LEMMA ClausesMove ==
    ASSUME NEW s, NEW net, NEW r, NEW len, NEW mispredicted
    PROVE  Moved(r, s, Clauses(s, mispredicted, net), len, net)
  BY DEF Clauses, Moved

\* In a version that starts over, it starts over when it should.
LEMMA DecideMove ==
    ASSUME program \in Programs, NEW r \in Ranks, NEW s \in Static, NEW len, NEW net,
           version # "new_ok"
    PROVE  LET d == Decide(r, s, len, net, FALSE)
           IN  Moved(r, s, d, len, net) /\ (Resets(r, len) => d = Reset(s))
<1>0. version \in {"working", "mpijack", "PROTO", "reborn"}
  BY ProgramType DEF version, Versions
<1>1. CASE version \in {"working", "mpijack"}
  <2>1. Decide(r, s, len, net, FALSE) = mpidummy_working(r, s, len, net)
    BY <1>1 DEF Decide
  <2>2. CASE Resets(r, len)
    BY <2>1, <2>2 DEF mpidummy_working, Moved
  <2>3. CASE ~Resets(r, len)
    BY <2>1, <2>3, ClausesMove DEF mpidummy_working
  <2> QED
    BY <2>2, <2>3
<1>2. CASE version = "PROTO"
  <2>1. Decide(r, s, len, net, FALSE) = mpidummy_PROTO(r, s, len, net) /\ ~Resets(r, len)
    BY <1>2 DEF Decide, Resets
  <2> QED
    BY <2>1, ClausesMove DEF mpidummy_PROTO
<1>3. CASE version = "reborn"
  <2>1. Decide(r, s, len, net, FALSE) = MPI_Pcontrol(r, s, len, net) /\ ~Resets(r, len)
    BY <1>3 DEF Decide, Resets
  <2> QED
    BY <2>1, ClausesMove DEF MPI_Pcontrol
<1> QED
  BY <1>0, <1>1, <1>2, <1>3

\* Starting over is starting in gear 0.
LEMMA ResetIsTop ==
    ASSUME NEW s \in Static
    PROVE  Reset(s) \in Static /\ Reset(s).current_gear = 0
<1>1. harder \in Nat /\ 0 \in Gears
  BY RankAssumption DEF harder, Gears
<1>2. reset_bias(s, harder) \in Static
  BY <1>1, ResetBiasMove
<1> QED
  BY <1>1, <1>2 DEF Reset, Static

\* What any of the moves keeps: a rank slows only if it waited longer than the
\* one that waited least.
LEMMA MovedKeeps ==
    ASSUME program \in Programs, NEW r \in Ranks, NEW s \in Static, NEW len, NEW net \in Int, NEW d,
           s.current_gear <= program.LOWEST, Moved(r, s, d, len, net)
    PROVE  /\ d \in Static /\ d.current_gear <= program.LOWEST
           /\ d.current_gear > s.current_gear => net > 0
<1>0. /\ s.current_gear \in Gears /\ program.LOWEST \in Gears /\ LOWEST_GEAR \in Nat
      /\ s.SLACK \in Nat /\ s.downshift \in [Gears -> Nat]
  BY RankAssumption, ProgramType DEF Static
<1>1. CASE d = Return(s)
  BY <1>0, <1>1, ReturnMove DEF Gears
<1>2. CASE d = SpeedUp(s)
  BY <1>0, <1>2, SpeedUpMove DEF Gears
<1>3. CASE d = Stay(s)
  <2>1. d \in Static /\ d.current_gear = s.current_gear
    BY <1>3, StayMove
  <2>2. s.current_gear \in Int
    BY <1>0 DEF Gears
  <2> QED
    BY <2>1, <2>2
<1>4. CASE d = SlowDown(s, program.LOWEST) /\ Loose(s, net)
  <2>1. d \in Static /\ d.current_gear <= program.LOWEST
    BY <1>0, <1>4, SlowDownMove
  <2>2. s.SLACK * s.downshift[s.current_gear] \in Nat
    BY <1>0
  <2>3. 20 * net > s.SLACK * s.downshift[s.current_gear]
    BY <1>4 DEF Loose
  <2>4. net > 0
    BY <2>2, <2>3
  <2> QED
    BY <2>1, <2>4
<1>5. CASE d = Reset(s)
  BY <1>0, <1>5, ResetIsTop DEF Gears
<1> QED
  BY <1>1, <1>2, <1>3, <1>4, <1>5 DEF Moved

\* A decision of any version keeps a rank within its gears, slows it only if it
\* waited longer than the one that waited least, and starts over in gear 0.
LEMMA DecideKeeps ==
    ASSUME program \in Programs, NEW r \in Ranks, NEW s \in Static, NEW len, NEW net \in Int,
           NEW garbage \in BOOLEAN, s.current_gear <= program.LOWEST
    PROVE  LET d == Decide(r, s, len, net, garbage)
           IN  /\ d \in Static /\ d.current_gear <= program.LOWEST
               /\ d.current_gear > s.current_gear => net > 0
               /\ Resets(r, len) => d.current_gear = 0
<1>1. CASE version = "new_ok"
  <2> DEFINE t == [s EXCEPT !.decreased = garbage]
             u == IF Resets(r, len) THEN Reset(t)
                  ELSE IF garbage /\ iter_base(r) # 0 /\ 100 * len > 105 * iter_base(r) THEN SpeedUp(t)
                  ELSE IF Loose(t, net) THEN SlowDown(t, program.LOWEST)
                  ELSE Stay(t)
  <2>1. Decide(r, s, len, net, garbage) = [u EXCEPT !.decreased = FALSE]
    BY <1>1 DEF Decide, mpidummy_new_ok
  <2>2. t \in Static /\ t.current_gear = s.current_gear
    BY DEF Static
  <2> HIDE DEF t
  <2>3. Moved(r, t, u, len, net) /\ (Resets(r, len) => u = Reset(t))
    BY DEF Moved
  <2> HIDE DEF u
  <2>4. /\ u \in Static /\ u.current_gear <= program.LOWEST
        /\ u.current_gear > t.current_gear => net > 0
    BY <2>2, <2>3, MovedKeeps
  <2>5. Resets(r, len) => u.current_gear = 0
    BY <2>2, <2>3, ResetIsTop
  <2> QED
    BY <2>1, <2>2, <2>4, <2>5 DEF Static
<1>2. CASE version # "new_ok"
  <2> DEFINE d == Decide(r, s, len, net, FALSE)
  <2>1. Decide(r, s, len, net, garbage) = d
    BY <1>2, ProgramType DEF Decide, Versions, version
  <2>2. Moved(r, s, d, len, net) /\ (Resets(r, len) => d = Reset(s))
    BY <1>2, DecideMove
  <2> HIDE DEF d
  <2> QED
    BY <2>1, <2>2, MovedKeeps, ResetIsTop
<1> QED
  BY <1>1, <1>2

-----------------------------------------------------------------------------
(* The inductive invariant.                                                *)

Measured ==
    /\ iter_wnd \in [Ranks -> Seq(Nat)]
    /\ longest \in [Ranks -> Nat]

\* A run that shifts stays within its slowest gear, whatever solution.txt says.
InReach == SHIFT => \A r \in Ranks : rank[r].current_gear <= program.LOWEST

\* Only a decision slows a rank, and none is made in the first iteration.
SlowedByDecision == \A r \in Ranks : rank[r].decreased => SHIFT /\ iteration # 0

\* What a window holds is no longer than the longest iteration of its rank, and
\* a window without an entry is that of a rank without an iteration.
WindowsKnown ==
    \A r \in Ranks :
        /\ \A i \in 1 .. Len(iter_wnd[r]) :
              iter_wnd[r][i] <= longest[r] \/ iter_wnd[r][i] <= rank[r].previous
        /\ longest[r] # 0 \/ rank[r].previous # 0 => iter_wnd[r] # <<>>

IInv == TypeOK /\ Measured /\ InReach /\ SlowedByDecision /\ WindowsKnown /\ KnowsItsGear

LEMMA InitIInv == Init => IInv
<1> SUFFICES ASSUME Init PROVE IInv
  OBVIOUS
<1>0. program \in Programs /\ LOWEST_GEAR \in Nat /\ program.LOWEST \in Gears /\ program.SKIP \in Nat \ {0}
  BY RankAssumption, ProgramType DEF Init
<1>1. initial \in Static
  BY <1>0 DEF initial, Static, Gears
<1>2. TypeOK
  BY <1>0, <1>1 DEF Init, TypeOK, WINDOW_SIZE
<1>3. Measured
  BY DEF Init, Measured
<1>4. InReach
  BY <1>0 DEF Init, InReach, initial, Gears
<1>5. SlowedByDecision
  BY DEF Init, SlowedByDecision, initial
<1>6. WindowsKnown
  BY DEF Init, WindowsKnown, initial
<1>7. KnowsItsGear
  BY DEF Init, KnowsItsGear, initial
<1> QED
  BY <1>2, <1>3, <1>4, <1>5, <1>6, <1>7 DEF IInv

\* What the first call of mpidummy_() does to a rank before anything is measured.
LEMMA BegunKeeps ==
    ASSUME IInv, NEW r \in Ranks
    PROVE  /\ begun(r) \in Static
           /\ begun(r).decreased = rank[r].decreased
           /\ begun(r).previous = rank[r].previous
           /\ SHIFT => begun(r).current_gear = rank[r].current_gear
<1>0. /\ program \in Programs /\ rank[r] \in Static /\ program.MANUAL_GEARS[r] \in Gears
      /\ harder \in Nat
  BY ProgramType DEF IInv, TypeOK, harder
<1> DEFINE s == IF SHIFT \/ version \notin {"PROTO", "reborn"} THEN reset_bias(rank[r], harder) ELSE rank[r]
<1>1. /\ s \in Static /\ s.decreased = rank[r].decreased /\ s.previous = rank[r].previous
      /\ s.current_gear = rank[r].current_gear
  BY <1>0, ResetBiasMove
<1> HIDE DEF s
<1>2. CASE iteration # 0
  BY <1>0, <1>2 DEF begun
<1>3. CASE iteration = 0 /\ MANUAL
  <2>1. begun(r) = [s EXCEPT !.current_gear = program.MANUAL_GEARS[r]]
    BY <1>3 DEF begun, s
  <2> QED
    BY <1>0, <1>1, <1>3, <2>1 DEF Static, SHIFT, MANUAL
<1>4. CASE iteration = 0 /\ ~MANUAL
  <2>1. begun(r) = s
    BY <1>4 DEF begun, s
  <2> QED
    BY <1>1, <2>1
<1> QED
  BY <1>2, <1>3, <1>4

\* The calls are counted, and wrapped above 4.
LEMMA CountedInRange ==
    ASSUME IInv
    PROVE  counted \in 1 .. 4 + program.SKIP /\ (counted = 1 => iteration = 0)
<1>0. program.SKIP \in Nat \ {0} /\ iteration \in 0 .. 4 + program.SKIP
  BY ProgramType DEF IInv, TypeOK
<1>1. CASE iteration + 1 < 5 + program.SKIP
  BY <1>0, <1>1 DEF counted
<1>2. CASE ~(iteration + 1 < 5 + program.SKIP)
  <2>1. iteration = 4 + program.SKIP
    BY <1>0, <1>2
  <2> QED
    BY <1>0, <1>2, <2>1 DEF counted
<1> QED
  BY <1>1, <1>2

\* A core that follows its rank.
LEMMA MovedFollows ==
    ASSUME IInv, NEW r \in Ranks, rank'[r] \in Static
    PROVE  /\ moved(r) \in Gears
           /\ core[r] = rank[r].current_gear => moved(r) = rank'[r].current_gear
  BY DEF IInv, TypeOK, Static, moved

LEMMA SkipIInv == ASSUME IInv, Skip PROVE IInv'
<1>0. /\ program \in Programs /\ UNCHANGED <<program, ended, prev_prev, iter_wnd, waited, longest>>
      /\ iteration' = counted /\ rank' = [r \in Ranks |-> begun(r)] /\ core' = [r \in Ranks |-> moved(r)]
      /\ ~ended
  BY DEF IInv, TypeOK, Skip, measures
<1>m. mode' = mode /\ version' = version /\ SHIFT' = SHIFT /\ MANUAL' = MANUAL
  BY <1>0, SameMode
<1>1. \A r \in Ranks : /\ rank'[r] = begun(r) /\ rank'[r] \in Static
                       /\ rank'[r].decreased = rank[r].decreased /\ rank'[r].previous = rank[r].previous
                       /\ SHIFT => rank'[r].current_gear = rank[r].current_gear
  BY <1>0, BegunKeeps
<1>2. TypeOK'
  <2>1. counted \in 0 .. 4 + program.SKIP
    BY <1>0, CountedInRange, ProgramType
  <2>2. \A r \in Ranks : moved(r) \in Gears
    BY <1>1, MovedFollows
  <2> QED
    BY <1>0, <1>1, <2>1, <2>2 DEF IInv, TypeOK
<1>3. Measured'
  BY <1>0 DEF IInv, Measured
<1>4. InReach'
  BY <1>0, <1>m, <1>1 DEF IInv, InReach
<1>5. SlowedByDecision'
  BY <1>0, <1>m, <1>1, CountedInRange DEF IInv, SlowedByDecision
<1>6. WindowsKnown'
  BY <1>0, <1>1 DEF IInv, WindowsKnown
<1>7. KnowsItsGear'
  <2> SUFFICES ASSUME SHIFT \/ MANUAL, NEW r \in Ranks, ~(version # "PROTO" /\ program.solution[r] # {})
               PROVE  core'[r] = rank'[r].current_gear
    BY <1>0, <1>m DEF KnowsItsGear
  <2>1. core[r] = rank[r].current_gear
    BY <1>0 DEF IInv, KnowsItsGear
  <2> QED
    BY <1>0, <1>1, <2>1, MovedFollows
<1> QED
  BY <1>2, <1>3, <1>4, <1>5, <1>6, <1>7 DEF IInv

LEMMA ChangeGearIInv == ASSUME IInv, NEW r \in Ranks, change_gear(r) PROVE IInv'
<1>0. /\ program \in Programs /\ UNCHANGED <<program, iteration, ended, prev_prev, iter_wnd, waited, longest>>
      /\ ~ended /\ SHIFT /\ rank \in [Ranks -> Static] /\ core \in [Ranks -> Gears]
  BY DEF IInv, TypeOK, change_gear, measures
<1>m. mode' = mode /\ version' = version /\ SHIFT' = SHIFT /\ MANUAL' = MANUAL
  BY <1>0, SameMode
<1>1. PICK g \in program.solution[r] :
        /\ core' = [core EXCEPT ![r] = g]
        /\ rank' = IF version = "PROTO" THEN [rank EXCEPT ![r].current_gear = g] ELSE rank
  BY DEF change_gear
<1>2. g \in Gears /\ (version = "PROTO" => g <= program.LOWEST) /\ program.solution[r] # {}
  <2>1. program.solution \in [Ranks -> SUBSET Gears]
    BY <1>0, ProgramType
  <2>2. g \in Gears
    BY <1>1, <2>1
  <2>3. version = "PROTO" => program.solution[r] \subseteq 0 .. program.LOWEST
    BY <1>0, ProgramType
  <2>4. g \in Int /\ program.LOWEST \in Int
    BY <1>0, <2>2, ProgramType, RankAssumption DEF Gears
  <2> QED
    BY <1>1, <2>2, <2>3, <2>4
<1>3. /\ rank' \in [Ranks -> Static]
      /\ \A q \in Ranks : /\ rank'[q].decreased = rank[q].decreased /\ rank'[q].previous = rank[q].previous
                          /\ rank'[q].current_gear = IF q = r /\ version = "PROTO" THEN g
                                                     ELSE rank[q].current_gear
  <2>1. CASE version = "PROTO"
    <3>1. rank' = [rank EXCEPT ![r] = [rank[r] EXCEPT !.current_gear = g]]
      BY <1>1, <2>1
    <3>2. [rank[r] EXCEPT !.current_gear = g] \in Static
      BY <1>0, <1>2 DEF Static
    <3> QED
      BY <1>0, <2>1, <3>1, <3>2 DEF Static
  <2>2. CASE version # "PROTO"
    BY <1>0, <1>1, <2>2
  <2> QED
    BY <2>1, <2>2
<1>4. TypeOK'
  BY <1>0, <1>1, <1>2, <1>3 DEF IInv, TypeOK
<1>5. Measured'
  BY <1>0 DEF IInv, Measured
<1>6. InReach'
  BY <1>0, <1>m, <1>2, <1>3 DEF IInv, InReach
<1>7. SlowedByDecision' /\ WindowsKnown'
  BY <1>0, <1>m, <1>3 DEF IInv, SlowedByDecision, WindowsKnown
<1>8. KnowsItsGear'
  <2> SUFFICES ASSUME NEW q \in Ranks, ~(version # "PROTO" /\ program.solution[q] # {})
               PROVE  core'[q] = rank'[q].current_gear
    BY <1>0, <1>m DEF KnowsItsGear
  <2>1. core[q] = rank[q].current_gear
    BY <1>0 DEF IInv, KnowsItsGear
  <2>2. q = r => version = "PROTO"
    BY <1>2
  <2> QED
    BY <1>0, <1>1, <1>3, <2>1, <2>2
<1> QED
  BY <1>4, <1>5, <1>6, <1>7, <1>8 DEF IInv

\* Cores are set to the gears given, or the run ends.
LEMMA ShiftsCores ==
    ASSUME IInv, NEW gears \in [Ranks -> Gears], NEW callers \in SUBSET Ranks, Shifts(gears, callers)
    PROVE  /\ core' \in [Ranks -> Gears]
           /\ core' = gears \/ (ended' /\ version = "reborn")
  BY DEF IInv, TypeOK, Shifts

\* What a reset by the program keeps of a rank.
LEMMA ResetAllIInv == ASSUME IInv, reset_all PROVE IInv'
<1>0. /\ program \in Programs /\ UNCHANGED <<program, iteration, prev_prev, iter_wnd, waited, longest>>
      /\ ~ended /\ SHIFT /\ rank \in [Ranks -> Static] /\ core \in [Ranks -> Gears] /\ 0 \in Gears
  BY RankAssumption DEF IInv, TypeOK, reset_all, measures, Gears
<1>m. mode' = mode /\ version' = version /\ SHIFT' = SHIFT /\ MANUAL' = MANUAL
  BY <1>0, SameMode
<1>1. /\ core' \in [Ranks -> Gears] /\ rank' \in [Ranks -> Static]
      /\ \A r \in Ranks :
           /\ rank'[r].decreased = rank[r].decreased /\ rank'[r].previous = rank[r].previous
           /\ rank'[r].current_gear \in {0, rank[r].current_gear}
           /\ ~ended' => \/ core'[r] = core[r] /\ rank'[r].current_gear = rank[r].current_gear
                         \/ core'[r] = rank'[r].current_gear
  <2> DEFINE s(r) == reset_bias(rank[r], 1)
  <2>1. \A r \in Ranks : /\ s(r) \in Static /\ s(r).current_gear = rank[r].current_gear
                         /\ s(r).decreased = rank[r].decreased /\ s(r).previous = rank[r].previous
    BY <1>0, ResetBiasMove
  <2>2. CASE rank' = [r \in Ranks |-> s(r)] /\ UNCHANGED <<core, ended>>
    <3> HIDE DEF s
    <3> QED
      BY <1>0, <2>1, <2>2
  <2>3. CASE rank' = [r \in Ranks |-> [s(r) EXCEPT !.current_gear = 0]] /\ Shifts([r \in Ranks |-> 0], Ranks)
    <3> HIDE DEF s
    <3>1. [r \in Ranks |-> 0] \in [Ranks -> Gears]
      BY <1>0
    <3>2. core' \in [Ranks -> Gears] /\ (~ended' => core' = [r \in Ranks |-> 0])
      BY <2>3, <3>1, ShiftsCores
    <3>3. \A r \in Ranks : /\ rank'[r] \in Static /\ rank'[r].current_gear = 0
                           /\ rank'[r].decreased = rank[r].decreased /\ rank'[r].previous = rank[r].previous
      BY <1>0, <2>1, <2>3 DEF Static
    <3> QED
      BY <2>3, <3>2, <3>3
  <2> QED
    BY <2>2, <2>3 DEF reset_all
<1>2. TypeOK'
  BY <1>0, <1>1 DEF IInv, TypeOK
<1>3. Measured'
  BY <1>0 DEF IInv, Measured
<1>4. InReach'
  <2>1. program.LOWEST >= 0
    BY <1>0, ProgramType, RankAssumption DEF Gears
  <2> QED
    BY <1>0, <1>m, <1>1, <2>1 DEF IInv, InReach
<1>5. SlowedByDecision' /\ WindowsKnown'
  BY <1>0, <1>m, <1>1 DEF IInv, SlowedByDecision, WindowsKnown
<1>6. KnowsItsGear'
  <2> SUFFICES ASSUME ~ended', NEW r \in Ranks, ~(version # "PROTO" /\ program.solution[r] # {})
               PROVE  core'[r] = rank'[r].current_gear
    BY <1>0, <1>m DEF KnowsItsGear
  <2>1. core[r] = rank[r].current_gear
    BY <1>0 DEF IInv, KnowsItsGear
  <2> QED
    BY <1>1, <2>1
<1> QED
  BY <1>2, <1>3, <1>4, <1>5, <1>6 DEF IInv

LEMMA FinalizeIInv == ASSUME IInv, MPI_Finalize PROVE IInv'
<1>0. /\ UNCHANGED <<program, iteration, rank, prev_prev, iter_wnd, waited, longest>>
      /\ ended' /\ ~ended
      /\ \/ core' = core
         \/ SHIFT /\ \E failed \in SUBSET Ranks :
                       core' = [r \in Ranks |-> IF r \in failed THEN core[r] ELSE 0]
  BY DEF MPI_Finalize, measures
<1>m. mode' = mode /\ version' = version /\ SHIFT' = SHIFT /\ MANUAL' = MANUAL
  BY <1>0, SameMode
<1>1. core' \in [Ranks -> Gears]
  BY <1>0, RankAssumption DEF IInv, TypeOK, Gears
<1>2. TypeOK' /\ Measured'
  BY <1>0, <1>1 DEF IInv, TypeOK, Measured
<1>3. InReach' /\ SlowedByDecision' /\ WindowsKnown'
  BY <1>0, <1>m DEF IInv, InReach, SlowedByDecision, WindowsKnown
<1>4. KnowsItsGear'
  BY <1>0, <1>m DEF IInv, KnowsItsGear
<1> QED
  BY <1>2, <1>3, <1>4 DEF IInv

\* The least share of an iteration that any rank spent waiting in calls that
\* the version times.
LEMMA LeastSlack ==
    ASSUME IInv, waited' \in [Ranks -> Slacks]
    PROVE  /\ \A r \in Ranks : measured(r) \in Nat /\ global_min_slack <= measured(r)
           /\ global_min_slack \in Nat
           /\ \E q \in Ranks : global_min_slack = measured(q)
<1> DEFINE M == {measured(r) : r \in Ranks}
<1>1. \A r \in Ranks : measured(r) \in Nat
  <2>1. \A r \in Ranks : waited'[r] \in Nat
    <3>1. Slacks \subseteq 0 .. 1000
      BY ProgramAssumption
    <3>2. \A x \in Slacks : x \in Nat
      BY <3>1
    <3>3. \A r \in Ranks : waited'[r] \in Slacks
      OBVIOUS
    <3> QED
      BY <3>2, <3>3
  <2> QED
    BY <2>1 DEF measured
<1>2. M \in SUBSET Nat /\ M # {}
  BY <1>1, RankAssumption
<1>3. Min(M) \in M /\ \A m \in M : Min(M) <= m
  <2> HIDE DEF M
  <2> QED
    BY <1>2, MinIsLeast
<1>4. global_min_slack = Min(M)
  BY DEF global_min_slack
<1> QED
  BY <1>1, <1>3, <1>4

\* What a rank decides when its iteration is measured.
LEMMA DecisionKeeps ==
    ASSUME IInv, waited' \in [Ranks -> Slacks], iteration' = counted,
           NEW r \in Ranks, NEW len \in Nat, NEW garbage \in BOOLEAN
    PROVE  LET d == decision(r, len, garbage)
           IN  /\ d \in Static
               /\ d.decreased => SHIFT
               /\ SHIFT => d.current_gear <= program.LOWEST
               /\ SHIFT /\ d.current_gear > rank[r].current_gear => measured(r) > global_min_slack
               /\ restart(r, len) => d.current_gear = 0
<1>0. program \in Programs /\ rank[r] \in Static
  BY DEF IInv, TypeOK
<1>1. CASE iteration' = 1 \/ ~SHIFT
  <2>1. decision(r, len, garbage) = begun(r) /\ ~restart(r, len)
    BY <1>1 DEF decision, restart
  <2>2. rank[r].current_gear \in Int
    BY <1>0, RankAssumption DEF Static, Gears
  <2> QED
    BY <2>1, <2>2, BegunKeeps DEF IInv, InReach, SlowedByDecision
<1>2. CASE iteration' # 1 /\ SHIFT
  <2> DEFINE net == measured(r) - global_min_slack
             d == Decide(r, rank[r], len, net, garbage)
  <2>1. decision(r, len, garbage) = d /\ (restart(r, len) => Resets(r, len))
    BY <1>2 DEF decision, restart
  <2>2. net \in Int /\ (net > 0 => measured(r) > global_min_slack)
    BY LeastSlack
  <2>3. rank[r].current_gear <= program.LOWEST
    BY <1>2 DEF IInv, InReach
  <2> HIDE DEF net
  <2>4. /\ d \in Static /\ d.current_gear <= program.LOWEST
        /\ d.current_gear > rank[r].current_gear => net > 0
        /\ Resets(r, len) => d.current_gear = 0
    BY <1>0, <2>2, <2>3, DecideKeeps
  <2> HIDE DEF d
  <2> QED
    BY <1>2, <2>1, <2>2, <2>4
<1> QED
  BY <1>1, <1>2

\* What an iteration does to each rank.
IterationOf(r, len) ==
    /\ len \in Nat \ {0}
    /\ iter_wnd'[r] = window(r, len)
    /\ rank'[r] \in Static /\ rank'[r].previous = len
    /\ \E garbage : rank'[r].current_gear = decision(r, len, garbage).current_gear
    /\ rank'[r].decreased => SHIFT
    /\ SHIFT => rank'[r].current_gear <= program.LOWEST
    /\ SHIFT /\ rank'[r].current_gear > rank[r].current_gear => measured(r) > global_min_slack
    /\ longest'[r] = Max({longest[r], rank[r].previous})
    /\ core[r] = rank[r].current_gear /\ ~(ended' /\ SHIFT) => core'[r] = rank'[r].current_gear

LEMMA IterateEffect ==
    ASSUME IInv, Iterate
    PROVE  /\ core' \in [Ranks -> Gears] /\ DOMAIN rank' = Ranks
           /\ DOMAIN iter_wnd' = Ranks /\ iter_wnd' = [r \in Ranks |-> iter_wnd'[r]]
           /\ rank' = [r \in Ranks |-> rank'[r]] /\ longest' = [r \in Ranks |-> longest'[r]]
           /\ \A r \in Ranks : \E len : IterationOf(r, len)
<1>0. /\ program \in Programs /\ iteration' = counted /\ waited' \in [Ranks -> Slacks]
      /\ longest' = [r \in Ranks |-> Max({longest[r], rank[r].previous})] /\ program' = program
  BY DEF IInv, TypeOK, Iterate
<1>1. PICK iter_length \in program.lengths, garbage \in uninitialized :
         /\ iter_wnd' = [r \in Ranks |-> window(r, iter_length[r])]
         /\ rank' = [r \in Ranks |->
               [decision(r, iter_length[r], garbage[r]) EXCEPT !.previous = iter_length[r]]]
         /\ LET gears == [r \in Ranks |-> IF restart(r, iter_length[r]) THEN 0 ELSE moved(r)]
            IN  Shifts(gears, {r \in Ranks : gears[r] # core[r]})
  BY DEF Iterate
<1> DEFINE d(r) == decision(r, iter_length[r], garbage[r])
           gear(r) == IF restart(r, iter_length[r]) THEN 0 ELSE moved(r)
           gears == [r \in Ranks |-> gear(r)]
<1>2. \A r \in Ranks : iter_length[r] \in Nat \ {0} /\ garbage[r] \in BOOLEAN
  <2>1. garbage \in [Ranks -> BOOLEAN]
    BY DEF uninitialized
  <2> QED
    BY <1>0, <2>1, ProgramType
<1>3. \A r \in Ranks :
        /\ d(r) \in Static
        /\ d(r).decreased => SHIFT
        /\ SHIFT => d(r).current_gear <= program.LOWEST
        /\ SHIFT /\ d(r).current_gear > rank[r].current_gear => measured(r) > global_min_slack
        /\ restart(r, iter_length[r]) => d(r).current_gear = 0
  BY <1>0, <1>2, DecisionKeeps
<1>s. Shifts(gears, {r \in Ranks : gears[r] # core[r]})
  BY <1>1
<1>r. rank' = [r \in Ranks |-> [d(r) EXCEPT !.previous = iter_length[r]]]
  BY <1>1
<1> HIDE DEF d
<1>4. \A r \in Ranks :
        /\ rank'[r] \in Static /\ rank'[r].previous = iter_length[r]
        /\ rank'[r].decreased = d(r).decreased /\ rank'[r].current_gear = d(r).current_gear
  BY <1>2, <1>3, <1>r DEF Static
<1>5. \A r \in Ranks : gear(r) \in Gears
                       /\ (core[r] = rank[r].current_gear => gear(r) = rank'[r].current_gear)
  BY <1>3, <1>4, MovedFollows, RankAssumption DEF Gears
<1> HIDE DEF gear
<1>6. core' \in [Ranks -> Gears] /\ (core' = gears \/ (ended' /\ version = "reborn"))
  <2>1. gears \in [Ranks -> Gears]
    BY <1>5
  <2> HIDE DEF gears
  <2> QED
    BY <1>s, <2>1, ShiftsCores
<1>7. version = "reborn" => SHIFT
  BY DEF SHIFT, mode
<1>8. ASSUME NEW r \in Ranks PROVE IterationOf(r, iter_length[r])
  <2>1. rank'[r].current_gear = decision(r, iter_length[r], garbage[r]).current_gear
    BY <1>4 DEF d
  <2> QED
    BY <1>0, <1>1, <1>2, <1>3, <1>4, <1>5, <1>6, <1>7, <2>1 DEF IterationOf
<1> QED
  BY <1>0, <1>1, <1>6, <1>8

\* The window after an iteration: its last entry is that iteration's, the others
\* were there before.
LEMMA WindowType ==
    ASSUME IInv, NEW r \in Ranks, NEW len \in Nat
    PROVE  LET w == window(r, len)
               n == Len(w)
           IN  /\ w \in Seq(Nat) /\ n >= 1 /\ n <= WINDOW_SIZE
               /\ w[n] = recorded(len)
               /\ \A i \in 1 .. n - 1 : \E j \in 1 .. Len(iter_wnd[r]) : w[i] = iter_wnd[r][j]
               /\ iter_wnd[r] # <<>> => n >= 2
<1> DEFINE old == iter_wnd[r]
           m == Len(old)
           longer == Append(old, recorded(len))
           k == Len(longer)
<1>0. old \in Seq(Nat) /\ m \in Nat /\ m <= 5 /\ recorded(len) \in Nat /\ (old # <<>> => m >= 1)
  <2>1. iter_wnd[r] \in Seq(Nat) /\ Len(iter_wnd[r]) <= 5
    BY DEF IInv, TypeOK, Measured, WINDOW_SIZE
  <2>2. recorded(len) \in Nat
    BY DEF recorded
  <2> QED
    BY <2>1, <2>2
<1>1. /\ longer \in Seq(Nat) /\ k = m + 1 /\ longer[m + 1] = recorded(len)
      /\ \A i \in 1 .. m : longer[i] = old[i]
  BY <1>0
<1>2. window(r, len) = IF k > 5 THEN Tail(longer) ELSE longer
  BY DEF window, WINDOW_SIZE
<1> HIDE DEF m, longer, k
<1>4. CASE k > 5
  <2> DEFINE w == Tail(longer)
  <2>1. m = 5 /\ window(r, len) = w
    BY <1>0, <1>1, <1>2, <1>4
  <2>2. longer # <<>> /\ Len(longer) = 6
    <3>1. Len(longer) = 6
      BY <1>1, <2>1 DEF k
    <3> QED
      BY <3>1
  <2>3. w \in Seq(Nat) /\ Len(w) = 5 /\ \A i \in 1 .. 5 : w[i] = longer[i + 1]
    <3>1. w \in Seq(Nat) /\ Len(w) = Len(longer) - 1 /\ \A i \in 1 .. Len(w) : w[i] = longer[i + 1]
      BY <1>1, <2>2, HeadTailProperties
    <3> HIDE DEF w
    <3> QED
      BY <2>2, <3>1
  <2> HIDE DEF w
  <2>4. \A i \in 1 .. 4 : i + 1 \in 1 .. m /\ w[i] = old[i + 1]
    <3>1. \A i \in 1 .. 4 : i + 1 \in 1 .. m
      BY <2>1
    <3>2. \A i \in 1 .. 4 : w[i] = longer[i + 1]
      BY <2>3
    <3> QED
      BY <1>1, <3>1, <3>2
  <2>5. w[5] = recorded(len)
    BY <1>1, <2>1, <2>3
  <2> HIDE DEF old
  <2>6. Len(w) <= WINDOW_SIZE /\ Len(w) >= 2 /\ 1 .. Len(w) - 1 = 1 .. 4
    BY <2>3 DEF WINDOW_SIZE
  <2>7. \A i \in 1 .. Len(w) - 1 : \E j \in 1 .. m : w[i] = old[j]
    BY <2>4, <2>6
  <2> QED
    BY <2>1, <2>3, <2>5, <2>6, <2>7 DEF m, old
<1>5. CASE ~(k > 5)
  <2>1. window(r, len) = longer /\ k >= 1 /\ k <= 5 /\ k - 1 = m
    <3>1. k = m + 1 /\ m \in Nat
      BY <1>0, <1>1
    <3> QED
      BY <1>2, <1>5, <3>1
  <2>2. \A i \in 1 .. k - 1 : \E j \in 1 .. m : longer[i] = old[j]
    BY <1>1, <2>1
  <2>3. longer[k] = recorded(len) /\ (old # <<>> => k >= 2)
    BY <1>0, <1>1
  <2> HIDE DEF old
  <2> QED
    BY <1>1, <2>1, <2>2, <2>3 DEF WINDOW_SIZE, m, old, k
<1> QED
  BY <1>4, <1>5

LEMMA IterateIInv == ASSUME IInv, Iterate PROVE IInv'
<1>0. /\ program \in Programs /\ program' = program /\ iteration' = counted /\ ~ended
      /\ rank \in [Ranks -> Static] /\ longest \in [Ranks -> Nat]
  BY DEF IInv, TypeOK, Measured, Iterate
<1>m. mode' = mode /\ version' = version /\ SHIFT' = SHIFT /\ MANUAL' = MANUAL
  BY <1>0, SameMode
<1>1. /\ core' \in [Ranks -> Gears]
      /\ iter_wnd' = [r \in Ranks |-> iter_wnd'[r]]
      /\ rank' = [r \in Ranks |-> rank'[r]] /\ longest' = [r \in Ranks |-> longest'[r]]
      /\ \A r \in Ranks : \E len : IterationOf(r, len)
  BY IterateEffect
<1>2. counted \in 0 .. 4 + program.SKIP /\ counted # 0
  BY <1>0, CountedInRange, ProgramType
<1>3. \A r \in Ranks : iter_wnd'[r] \in Seq(Nat) /\ Len(iter_wnd'[r]) <= WINDOW_SIZE
  <2> SUFFICES ASSUME NEW r \in Ranks PROVE iter_wnd'[r] \in Seq(Nat) /\ Len(iter_wnd'[r]) <= WINDOW_SIZE
    OBVIOUS
  <2>1. PICK len : IterationOf(r, len)
    BY <1>1
  <2>2. len \in Nat /\ iter_wnd'[r] = window(r, len)
    BY <2>1 DEF IterationOf
  <2>3. window(r, len) \in Seq(Nat) /\ Len(window(r, len)) <= WINDOW_SIZE
    BY <2>2, WindowType
  <2> QED
    BY <2>2, <2>3 DEF WINDOW_SIZE
<1>4. \A r \in Ranks : longest'[r] \in Nat /\ longest'[r] >= longest[r] /\ longest'[r] >= rank[r].previous
  <2> SUFFICES ASSUME NEW r \in Ranks
               PROVE  longest'[r] \in Nat /\ longest'[r] >= longest[r] /\ longest'[r] >= rank[r].previous
    OBVIOUS
  <2>1. longest'[r] = Max({longest[r], rank[r].previous})
    BY <1>1 DEF IterationOf
  <2>2. longest[r] \in Nat /\ rank[r].previous \in Nat
    BY <1>0 DEF Static
  <2> QED
    BY <2>1, <2>2, MaxOfTwo
<1>5. TypeOK'
  <2>1. rank' \in [Ranks -> Static]
    BY <1>1 DEF IterationOf
  <2> QED
    BY <1>0, <1>1, <1>2, <1>3, <2>1 DEF TypeOK
<1>6. Measured'
  BY <1>1, <1>3, <1>4 DEF Measured
<1>7. InReach'
  BY <1>0, <1>m, <1>1 DEF InReach, IterationOf
<1>8. SlowedByDecision'
  BY <1>0, <1>m, <1>1, <1>2 DEF SlowedByDecision, IterationOf
<1>9. WindowsKnown'
  <2> SUFFICES ASSUME NEW r \in Ranks
               PROVE  /\ \A i \in 1 .. Len(iter_wnd'[r]) :
                            iter_wnd'[r][i] <= longest'[r] \/ iter_wnd'[r][i] <= rank'[r].previous
                      /\ iter_wnd'[r] # <<>>
    BY DEF WindowsKnown
  <2>1. PICK len : IterationOf(r, len)
    BY <1>1
  <2>2. len \in Nat \ {0} /\ iter_wnd'[r] = window(r, len) /\ rank'[r].previous = len
    BY <2>1 DEF IterationOf
  <2> DEFINE w == iter_wnd'[r]
             n == Len(w)
  <2>3. /\ w \in Seq(Nat) /\ n >= 1 /\ w[n] = recorded(len)
        /\ \A i \in 1 .. n - 1 : \E j \in 1 .. Len(iter_wnd[r]) : w[i] = iter_wnd[r][j]
    <3>1. LET v == window(r, len)
          IN  /\ v \in Seq(Nat) /\ Len(v) >= 1 /\ v[Len(v)] = recorded(len)
              /\ \A i \in 1 .. Len(v) - 1 : \E j \in 1 .. Len(iter_wnd[r]) : v[i] = iter_wnd[r][j]
      BY <2>2, WindowType
    <3> QED
      BY <2>2, <3>1
  <2>4. recorded(len) <= len
    BY <2>2 DEF recorded
  <2>5. ASSUME NEW i \in 1 .. n PROVE w[i] <= longest'[r] \/ w[i] <= rank'[r].previous
    <3>0. n \in Nat
      BY <2>3
    <3>1. CASE i = n
      BY <2>2, <2>3, <2>4, <3>1
    <3>2. CASE i # n
      <4>1. i \in 1 .. n - 1
        BY <3>0, <3>2, <2>5
      <4>2. PICK j \in 1 .. Len(iter_wnd[r]) : w[i] = iter_wnd[r][j]
        BY <2>3, <4>1
      <4>3. w[i] <= longest[r] \/ w[i] <= rank[r].previous
        BY <4>2 DEF IInv, WindowsKnown
      <4>4. longest[r] \in Nat /\ rank[r].previous \in Nat /\ w[i] \in Nat
        <5>1. w[i] \in Nat
          BY <2>3, <2>5, ElementOfSeq
        <5> QED
          BY <1>0, <5>1 DEF Static
      <4> HIDE DEF w
      <4> QED
        BY <1>4, <4>3, <4>4
    <3> QED
      BY <3>1, <3>2
  <2>6. w # <<>>
    BY <2>3
  <2> QED
    BY <2>5, <2>6
<1>10. KnowsItsGear'
  <2> SUFFICES ASSUME SHIFT \/ MANUAL, ~(ended' /\ SHIFT), NEW r \in Ranks,
                      ~(version # "PROTO" /\ program.solution[r] # {})
               PROVE  core'[r] = rank'[r].current_gear
    BY <1>0, <1>m DEF KnowsItsGear
  <2>1. core[r] = rank[r].current_gear
    BY <1>0 DEF IInv, KnowsItsGear
  <2> QED
    BY <1>1, <2>1 DEF IterationOf
<1> QED
  BY <1>5, <1>6, <1>7, <1>8, <1>9, <1>10 DEF IInv

LEMMA NextIInv == IInv /\ [Next]_vars => IInv'
<1> SUFFICES ASSUME IInv, [Next]_vars PROVE IInv'
  OBVIOUS
<1>1. CASE UNCHANGED vars
  <2>0. UNCHANGED <<program, iteration, rank, prev_prev, iter_wnd, core, ended, waited, longest>>
    BY <1>1 DEF vars, measures
  <2>m. mode' = mode /\ version' = version /\ SHIFT' = SHIFT /\ MANUAL' = MANUAL
    BY <2>0, SameMode
  <2> QED
    BY <2>0, <2>m DEF IInv, TypeOK, Measured, InReach, SlowedByDecision, WindowsKnown, KnowsItsGear
<1> QED
  BY <1>1, SkipIInv, IterateIInv, ChangeGearIInv, ResetAllIInv, FinalizeIInv DEF Next

THEOREM Inductive == Spec => []IInv
  BY InitIInv, NextIInv, PTL DEF Spec

\* Whatever the iterations measure, the biases grew to and solution.txt lists, no
\* version leaves its gears.
THEOREM TypeCorrect == Spec => []TypeOK
<1>1. IInv => TypeOK
  BY DEF IInv
<1> QED
  BY <1>1, Inductive, PTL

\* mpidummy_() decides for the gear its core is in, in every mode, after resets
\* and first iterations, until a run that shifts ends.
THEOREM GearIsKnown == Spec => []KnowsItsGear
<1>1. IInv => KnowsItsGear
  BY DEF IInv
<1> QED
  BY <1>1, Inductive, PTL

-----------------------------------------------------------------------------
(* The action properties.                                                  *)

\* Only an iteration, of the actions of a run that shifts, moves the gear of a
\* rank without call sites down.
LEMMA OnlyIterateSlows ==
    ASSUME IInv, [Next]_vars, NEW r \in Ranks, SHIFT, program.solution[r] = {},
           rank'[r].current_gear > rank[r].current_gear
    PROVE  Iterate
<1>0. rank \in [Ranks -> Static] /\ rank[r].current_gear \in Nat
  <2>1. rank \in [Ranks -> Static]
    BY DEF IInv, TypeOK
  <2>2. rank[r].current_gear \in 0 .. LOWEST_GEAR
    BY <2>1 DEF Static, Gears
  <2> QED
    BY <2>1, <2>2
<1>1. CASE Skip
  <2>1. rank'[r] = begun(r)
    BY <1>1 DEF Skip
  <2> QED
    BY <1>0, <2>1, BegunKeeps
<1>2. ASSUME NEW q \in Ranks, change_gear(q) PROVE FALSE
  <2>1. q # r
    BY <1>2 DEF change_gear
  <2>2. rank'[r] = rank[r]
    BY <1>0, <1>2, <2>1 DEF change_gear
  <2> QED
    BY <1>0, <2>2
<1>3. CASE reset_all
  <2>1. reset_bias(rank[r], 1) \in Static /\ reset_bias(rank[r], 1).current_gear = rank[r].current_gear
    BY <1>0, ResetBiasMove
  <2>2. CASE rank'[r] = reset_bias(rank[r], 1)
    BY <1>0, <2>1, <2>2
  <2>3. CASE rank'[r] = [reset_bias(rank[r], 1) EXCEPT !.current_gear = 0]
    BY <1>0, <2>1, <2>3 DEF Static
  <2> QED
    BY <1>3, <2>2, <2>3 DEF reset_all
<1>4. CASE MPI_Finalize \/ UNCHANGED vars
  BY <1>0, <1>4 DEF MPI_Finalize, vars
<1> QED
  BY <1>1, <1>2, <1>3, <1>4 DEF Next

\* The rank the others wait for is never slowed: one that is slowed has waited
\* longer than another.
THEOREM BusiestKeepsItsGear == Spec => BusiestIsNotSlowed
<1> DEFINE Timed(q) == program.via[q] \notin (IF version \in {"PROTO", "reborn"} THEN {"Send"} ELSE {"Send", "Bcast"})
           A == \A r \in Ranks :
                  /\ rank'[r].current_gear > rank[r].current_gear
                  /\ program.solution[r] = {} /\ SHIFT
                  /\ \A q \in Ranks : Timed(q)
                  => \E q \in Ranks : waited'[q] < waited'[r]
<1>1. IInv /\ [Next]_vars => A
  <2> SUFFICES ASSUME IInv, [Next]_vars, NEW r \in Ranks, rank'[r].current_gear > rank[r].current_gear,
                      program.solution[r] = {}, SHIFT, \A q \in Ranks : Timed(q)
               PROVE  \E q \in Ranks : waited'[q] < waited'[r]
    OBVIOUS
  <2>1. Iterate
    BY OnlyIterateSlows
  <2>2. measured(r) > global_min_slack
    BY <2>1, IterateEffect DEF IterationOf
  <2>3. PICK q \in Ranks : global_min_slack = measured(q)
    BY <2>1, LeastSlack DEF Iterate
  <2>4. program \in Programs /\ \A p \in Ranks : program.via[p] \in Calls
    BY ProgramType DEF IInv, TypeOK
  <2>5. \A p \in Ranks : program.via[p] \in timed
    BY <2>4 DEF timed, timed_PROTO, timed_older, Calls
  <2>6. measured(r) = waited'[r] /\ measured(q) = waited'[q]
    <3>1. program' = program
      BY <2>1 DEF Iterate
    <3> QED
      BY <2>5 DEF measured
  <2>7. waited'[q] < waited'[r]
    BY <2>2, <2>3, <2>6
  <2> QED
    BY <2>7
<1>2. Spec => [][A]_vars
  BY <1>1, Inductive, PTL DEF Spec
<1> QED
  BY <1>2 DEF BusiestIsNotSlowed

\* An iteration longer by more than an eighth than all before it is longer than
\* THRESHOLD_ITER times the mean of a window that holds it and another.
LEMMA LongestIsAboveAverage ==
    ASSUME IInv, Iterate, NEW r \in Ranks, NEW len \in Nat \ {0}, iter_wnd'[r] = window(r, len),
           version # "reborn", longest'[r] = Max({longest[r], rank[r].previous}),
           longest'[r] # 0, 8 * len > 9 * longest'[r]
    PROVE  Above_average(r, len)
<1> DEFINE top == longest'[r]
<1>0. longest[r] \in Nat /\ rank[r].previous \in Nat
  BY DEF IInv, TypeOK, Measured, Static
<1>1. top \in Nat /\ top >= longest[r] /\ top >= rank[r].previous /\ top \in {longest[r], rank[r].previous}
  <2> DEFINE a == longest[r]
             b == rank[r].previous
  <2>1. a \in Nat /\ b \in Nat /\ top = Max({a, b})
    BY <1>0
  <2> HIDE DEF a, b, top
  <2>2. top \in Nat /\ top >= a /\ top >= b /\ top \in {a, b}
    BY <2>1, MaxOfTwo
  <2> QED
    BY <2>2 DEF a, b
<1>2. CASE iteration' < 5
  <2> HIDE DEF top
  <2>1. 100 * len > 105 * rank[r].previous
    BY <1>0, <1>1 DEF top
  <2> QED
    BY <1>2, <2>1 DEF Above_average
<1>3. CASE ~(iteration' < 5)
  <2> DEFINE w == iter_wnd'[r]
             n == Len(w)
  <2>1. /\ w \in Seq(Nat) /\ n >= 1 /\ n <= WINDOW_SIZE /\ w[n] = len
        /\ \A i \in 1 .. n - 1 : \E j \in 1 .. Len(iter_wnd[r]) : w[i] = iter_wnd[r][j]
        /\ n >= 2
    <3>1. iter_wnd[r] # <<>>
      BY <1>1 DEF IInv, WindowsKnown
    <3>2. recorded(len) = len
      BY DEF recorded
    <3>3. LET v == window(r, len)
          IN  /\ v \in Seq(Nat) /\ Len(v) >= 1 /\ Len(v) <= WINDOW_SIZE /\ v[Len(v)] = recorded(len)
              /\ \A i \in 1 .. Len(v) - 1 : \E j \in 1 .. Len(iter_wnd[r]) : v[i] = iter_wnd[r][j]
              /\ iter_wnd[r] # <<>> => Len(v) >= 2
      BY WindowType
    <3> QED
      BY <3>1, <3>2, <3>3
  <2>2. n \in Nat
    BY <2>1
  <2>3. \A i \in 1 .. n : w[i] \in Nat
    BY <2>1, ElementOfSeq
  <2>4. ASSUME NEW i \in 1 .. n - 1 PROVE w[i] <= top
    <3>1. PICK j \in 1 .. Len(iter_wnd[r]) : w[i] = iter_wnd[r][j]
      BY <2>1
    <3>2. w[i] <= longest[r] \/ w[i] <= rank[r].previous
      BY <3>1 DEF IInv, WindowsKnown
    <3>3. i \in 1 .. n
      BY <2>2
    <3>4. w[i] \in Nat
      BY <2>3, <3>3
    <3> HIDE DEF w, top
    <3> QED
      BY <1>0, <1>1, <3>2, <3>4
  <2> HIDE DEF w, top, n
  <2>5. n \in 2 .. 5 /\ Len(w) = n
    <3>1. n >= 2 /\ n <= 5
      BY <2>1 DEF WINDOW_SIZE, n
    <3>2. n \in 2 .. 5
      BY <2>2, <3>1
    <3> QED
      BY <3>2 DEF n
  <2>6. total(w) \in Nat /\ total(w) <= (n - 1) * top + w[n]
    <3>1. n \in 1 .. 5 /\ Len(w) = n /\ top \in Nat
      BY <1>1, <2>5
    <3>2. (\A i \in 1 .. n : w[i] \in Nat) /\ \A i \in 1 .. n - 1 : w[i] <= top
      BY <2>3, <2>4
    <3> QED
      BY <3>1, <3>2, TotalBounded
  <2>7. 100 * len * n > 105 * total(w)
    <3>0. 8 * len > 9 * top /\ top >= 0 /\ w[n] = len /\ n \in {2, 3, 4, 5}
      BY <1>1, <2>1, <2>5 DEF top
    <3> DEFINE T == total(w)
    <3> HIDE DEF T
    <3>1. T \in Nat /\ T <= (n - 1) * top + len
      BY <2>6, <3>0 DEF T
    <3>2. CASE n = 2
      BY <1>1, <3>0, <3>1, <3>2 DEF T
    <3>3. CASE n = 3
      BY <1>1, <3>0, <3>1, <3>3 DEF T
    <3>4. CASE n = 4
      BY <1>1, <3>0, <3>1, <3>4 DEF T
    <3>5. CASE n = 5
      BY <1>1, <3>0, <3>1, <3>5 DEF T
    <3> QED
      BY <3>0, <3>2, <3>3, <3>4, <3>5
  <2> QED
    BY <1>3, <2>5, <2>7 DEF Above_average, w, n
<1> QED
  BY <1>2, <1>3

\* In the versions that take the mean of their window, such an iteration makes a
\* rank that was slowed leave its gear for a faster one.
THEOREM LongestIsAnswered == Spec => LongestSpeedsUp
<1> DEFINE A == \A r \in Ranks :
                  /\ version \in {"working", "mpijack", "PROTO"} /\ measures' # measures /\ longest'[r] # 0
                  /\ rank[r].decreased /\ rank[r].current_gear # 0
                  /\ 8 * rank'[r].previous > 9 * longest'[r]
                  => rank'[r].current_gear < rank[r].current_gear
<1>1. IInv /\ [Next]_vars => A
  <2> SUFFICES ASSUME IInv, [Next]_vars, NEW r \in Ranks,
                      version \in {"working", "mpijack", "PROTO"}, measures' # measures, longest'[r] # 0,
                      rank[r].decreased, rank[r].current_gear # 0,
                      8 * rank'[r].previous > 9 * longest'[r]
               PROVE  rank'[r].current_gear < rank[r].current_gear
    OBVIOUS
  <2>0. program \in Programs /\ rank[r] \in Static /\ rank[r].current_gear \in Nat
    <3>1. program \in Programs /\ rank[r] \in Static
      BY DEF IInv, TypeOK
    <3>2. rank[r].current_gear \in 0 .. LOWEST_GEAR
      BY <3>1 DEF Static, Gears
    <3> QED
      BY <3>1, <3>2
  <2>1. Iterate
    BY DEF Next, Skip, change_gear, reset_all, MPI_Finalize, vars
  <2>2. PICK len : IterationOf(r, len)
    BY <2>1, IterateEffect
  <2>3. PICK garbage : rank'[r].current_gear = decision(r, len, garbage).current_gear
    BY <2>2 DEF IterationOf
  <2>4. Above_average(r, len)
    BY <2>1, <2>2, LongestIsAboveAverage DEF IterationOf
  <2>5. iteration' # 1 /\ SHIFT
    BY <2>1, CountedInRange DEF IInv, SlowedByDecision, Iterate
  <2> DEFINE d == Decide(r, rank[r], len, measured(r) - global_min_slack, garbage)
  <2>6. rank'[r].current_gear = d.current_gear
    BY <2>3, <2>5 DEF decision
  <2>7. d = Return(rank[r]) \/ d = Reset(rank[r])
    BY <2>4 DEF Decide, mpidummy_working, mpidummy_PROTO, Clauses
  <2>8. d.current_gear = 0 \/ d.current_gear = rank[r].current_gear - 1
    <3> HIDE DEF d
    <3> QED
      BY <2>0, <2>7, ReturnMove, ResetIsTop
  <2> QED
    BY <2>0, <2>6, <2>8
<1>2. Spec => [][A]_vars
  BY <1>1, Inductive, PTL DEF Spec
<1> QED
  BY <1>2 DEF LongestSpeedsUp

=============================================================================
