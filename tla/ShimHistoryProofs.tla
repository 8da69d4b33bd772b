-------------------------- MODULE ShimHistoryProofs --------------------------
(***************************************************************************)
(* What the ring of a task holds, and what is decided from it: the         *)
(* properties of Shim that tie schedule[] to the visits really made.       *)
(***************************************************************************)
EXTENDS ShimProofs, FiniteSetTheorems

\* The slot of the k-th visit before the latest.
slot(i, k) == (i + HistEntries - k) % HistEntries

\* That visit, if it was made.
Visit(visits, k) == IF k < Len(visits) THEN visits[Len(visits) - k] ELSE NoData

\* The ring eh holds visits, the latest of which is in the from-th slot.
Holds(eh, visits, from) ==
    \A k \in from .. HistEntries - 1 : eh.hist[slot(eh.index, k)] = Visit(visits, k - from)

-----------------------------------------------------------------------------
(* The arithmetic of the ring.                                             *)

LEMMA SlotValue ==
    ASSUME NEW i \in Slots, NEW k \in 0 .. HistEntries
    PROVE  /\ slot(i, k) \in Slots
           /\ k < HistEntries => slot(i, k) = IF k <= i THEN i - k ELSE i + HistEntries - k
           /\ k = HistEntries => slot(i, k) = i
<1>1. HistEntries \in Nat \ {0} /\ i \in Nat /\ k \in Nat /\ i < HistEntries /\ k <= HistEntries
  BY HistoryAssumption DEF Slots
<1>2. CASE k <= i /\ k < HistEntries
  <2>1. (i + HistEntries - k) % HistEntries = (i + HistEntries - k) - HistEntries
    BY <1>1, <1>2
  <2> QED
    BY <1>1, <1>2, <2>1 DEF slot, Slots
<1>3. CASE i < k \/ k = HistEntries
  <2>1. (i + HistEntries - k) % HistEntries = i + HistEntries - k
    BY <1>1, <1>3
  <2> QED
    BY <1>1, <1>3, <2>1 DEF slot, Slots
<1> QED
  BY <1>1, <1>2, <1>3

\* ind() reads the latest visit.
LEMMA LatestSlot == \A i \in Slots : slot(i, 0) = i
<1> SUFFICES ASSUME NEW i \in Slots PROVE slot(i, 0) = i
  OBVIOUS
<1>1. HistEntries \in Nat \ {0} /\ i \in Nat
  BY HistoryAssumption DEF Slots
<1>2. 0 \in 0 .. HistEntries /\ 0 < HistEntries /\ 0 <= i /\ i - 0 = i
  BY <1>1
<1>3. slot(i, 0) = IF 0 <= i THEN i - 0 ELSE i + HistEntries - 0
  BY <1>2, SlotValue
<1> QED
  BY <1>2, <1>3

\* Different visits are in different slots.
LEMMA SlotsDiffer ==
    ASSUME NEW i \in Slots, NEW k \in Slots, NEW l \in Slots, slot(i, k) = slot(i, l)
    PROVE  k = l
<1>1. HistEntries \in Nat \ {0} /\ i \in Nat /\ k \in Nat /\ l \in Nat
      /\ i < HistEntries /\ k < HistEntries /\ l < HistEntries
  BY HistoryAssumption DEF Slots
<1>2. /\ slot(i, k) = IF k <= i THEN i - k ELSE i + HistEntries - k
      /\ slot(i, l) = IF l <= i THEN i - l ELSE i + HistEntries - l
  <2>1. k \in 0 .. HistEntries /\ l \in 0 .. HistEntries
    BY <1>1
  <2> QED
    BY <1>1, <2>1, SlotValue
<1>3. (IF k <= i THEN i - k ELSE i + HistEntries - k)
        = (IF l <= i THEN i - l ELSE i + HistEntries - l)
  BY <1>2
<1> QED
  BY <1>1, <1>3

\* Every slot is that of some visit.
LEMMA SlotsAll ==
    ASSUME NEW i \in Slots, NEW s \in Slots
    PROVE  \E k \in Slots : slot(i, k) = s
<1> DEFINE k == IF s <= i THEN i - s ELSE i + HistEntries - s
<1>1. HistEntries \in Nat \ {0} /\ i \in Nat /\ s \in Nat /\ i < HistEntries /\ s < HistEntries
  BY HistoryAssumption DEF Slots
<1>2. k \in Slots /\ k \in 0 .. HistEntries /\ k < HistEntries
  BY <1>1 DEF Slots
<1>3. (IF k <= i THEN i - k ELSE i + HistEntries - k) = s
  BY <1>1
<1> HIDE DEF k
<1>4. slot(i, k) = s
  BY <1>2, <1>3, SlotValue
<1> QED
  BY <1>2, <1>4

\* Turning the ring makes every visit one older.
LEMMA TurnedSlot ==
    ASSUME NEW i \in Slots, NEW k \in 1 .. HistEntries
    PROVE  slot((i + 1) % HistEntries, k) = slot(i, k - 1)
<1> DEFINE j == (i + 1) % HistEntries
<1>1. HistEntries \in Nat \ {0} /\ i \in Nat /\ k \in Nat
      /\ i < HistEntries /\ 1 <= k /\ k <= HistEntries
  BY HistoryAssumption DEF Slots
<1>2. j = (IF i + 1 < HistEntries THEN i + 1 ELSE 0) /\ j \in Slots
  <2>1. CASE i + 1 < HistEntries
    BY <1>1, <2>1 DEF Slots
  <2>2. CASE i + 1 = HistEntries
    BY <1>1, <2>2 DEF Slots
  <2> QED
    BY <1>1, <2>1, <2>2
<1> HIDE DEF j
<1>3. slot(i, k - 1) = IF k - 1 <= i THEN i - (k - 1) ELSE i + HistEntries - (k - 1)
  <2>1. k - 1 \in 0 .. HistEntries /\ k - 1 < HistEntries
    BY <1>1
  <2> QED
    BY <2>1, SlotValue
<1>4. slot(j, k) = IF k < HistEntries
                   THEN IF k <= j THEN j - k ELSE j + HistEntries - k
                   ELSE j
  BY <1>1, <1>2, SlotValue
<1>5. slot(j, k) = slot(i, k - 1)
  BY <1>1, <1>2, <1>3, <1>4
<1> QED
  BY <1>5 DEF j

-----------------------------------------------------------------------------
(* What the parts of a wrapper do to a ring.                               *)

\* shim_pre_2 makes room for a visit and writes the half of it that is known;
\* indp() then reads the visit before.
LEMMA PreRing ==
    ASSUME NEW eh \in History, NEW visits, Holds(eh, visits, 0),
           NEW t \in Nat, NEW clock \in Nat
    PROVE  LET new == write_comp(rotate(eh), t, clock)
           IN  /\ Holds(new, visits, 1)
               /\ ind(new).comp = t /\ ind(new).clock = clock
               /\ indp(new).comm = Visit(visits, 0).comm
<1> DEFINE i == eh.index
           j == (i + 1) % HistEntries
           new == write_comp(rotate(eh), t, clock)
<1>1. eh.hist \in [Slots -> Entry] /\ i \in Slots
  BY DEF History
<1>2. j \in Slots
  BY <1>1, HistoryAssumption DEF Slots
<1>3. rotate(eh).hist = eh.hist /\ rotate(eh).index = j
  BY DEF rotate, History
<1>4. /\ new.index = j
      /\ new.hist = [eh.hist EXCEPT ![j] = [[@ EXCEPT !.comp = t] EXCEPT !.clock = clock]]
  BY <1>3 DEF write_comp, rotate, History
<1>5. eh.hist[j] \in Entry
  BY <1>1, <1>2
<1>6. /\ \A s \in Slots : s # j => new.hist[s] = eh.hist[s]
      /\ new.hist[j].comp = t /\ new.hist[j].clock = clock /\ new.hist[j].comm = eh.hist[j].comm
  BY <1>1, <1>2, <1>4, <1>5 DEF Entry
<1> HIDE DEF j, new
<1>7. \A k \in 1 .. HistEntries : slot(j, k) = slot(i, k - 1)
  BY <1>1, TurnedSlot DEF j
<1>8. Holds(new, visits, 1)
  <2> SUFFICES ASSUME NEW k \in 1 .. HistEntries - 1
               PROVE  new.hist[slot(j, k)] = Visit(visits, k - 1)
    BY <1>4 DEF Holds
  <2>1. k \in Slots /\ 0 \in Slots /\ k # 0 /\ k \in 0 .. HistEntries /\ 0 \in 0 .. HistEntries
        /\ k \in 1 .. HistEntries
    BY HistoryAssumption DEF Slots
  <2>2. slot(j, 0) = j /\ slot(j, k) \in Slots
    BY <1>2, <2>1, LatestSlot, SlotValue
  <2>3. slot(j, k) # j
    BY <1>2, <2>1, <2>2, SlotsDiffer
  <2>4. new.hist[slot(j, k)] = eh.hist[slot(i, k - 1)]
    BY <1>6, <1>7, <2>1, <2>2, <2>3
  <2>5. k - 1 \in 0 .. HistEntries - 1 /\ (k - 1) - 0 = k - 1
    BY HistoryAssumption
  <2> QED
    BY <2>4, <2>5 DEF Holds
<1>9. ind(new) = new.hist[j]
  BY <1>4 DEF ind
<1>10. indp(new).comm = eh.hist[i].comm
  <2>1. 1 \in 1 .. HistEntries /\ 1 \in 0 .. HistEntries /\ 1 - 1 = 0 /\ 0 \in 0 .. HistEntries
    BY HistoryAssumption
  <2>2. indp(new) = new.hist[slot(j, 1)]
    BY <1>4 DEF indp, slot
  <2>3. slot(j, 1) = i
    <3>1. slot(j, 1) = slot(i, 0)
      BY <1>7, <2>1
    <3>2. slot(i, 0) = i
      BY <1>1, LatestSlot
    <3> QED
      BY <3>1, <3>2
  <2> QED
    BY <1>1, <1>6, <2>2, <2>3
<1>11. eh.hist[i] = Visit(visits, 0)
  <2>1. 0 \in 0 .. HistEntries - 1 /\ 0 - 0 = 0 /\ 0 \in 0 .. HistEntries
    BY HistoryAssumption
  <2>2. slot(i, 0) = i
    BY <1>1, LatestSlot
  <2> QED
    BY <2>1, <2>2 DEF Holds
<1> QED
  BY <1>6, <1>8, <1>9, <1>10, <1>11 DEF new

\* Overwriting the current slot leaves the visits before it.
LEMMA OthersKept ==
    ASSUME NEW eh \in History, NEW visits, Holds(eh, visits, 1), NEW new,
           new.index = eh.index,
           \A s \in Slots : s # eh.index => new.hist[s] = eh.hist[s]
    PROVE  Holds(new, visits, 1)
<1> SUFFICES ASSUME NEW k \in 1 .. HistEntries - 1
             PROVE  new.hist[slot(eh.index, k)] = Visit(visits, k - 1)
  BY DEF Holds
<1>1. eh.index \in Slots
  BY DEF History
<1>2. k \in Slots /\ 0 \in Slots /\ k # 0 /\ k \in 0 .. HistEntries /\ 0 \in 0 .. HistEntries
  BY HistoryAssumption DEF Slots
<1>3. slot(eh.index, 0) = eh.index /\ slot(eh.index, k) \in Slots
  BY <1>1, <1>2, LatestSlot, SlotValue
<1>4. slot(eh.index, k) # eh.index
  <2>1. slot(eh.index, 0) # slot(eh.index, k)
    BY <1>1, <1>2, SlotsDiffer
  <2> QED
    BY <1>3, <2>1
<1>5. new.hist[slot(eh.index, k)] = eh.hist[slot(eh.index, k)]
  BY <1>3, <1>4
<1>6. eh.hist[slot(eh.index, k)] = Visit(visits, k - 1)
  BY DEF Holds
<1> QED
  BY <1>5, <1>6

\* The time since the epoch is forgotten and nothing else.
LEMMA ForgetRing ==
    ASSUME NEW eh \in History, NEW visits, Holds(eh, visits, 1)
    PROVE  /\ Holds(forget_epoch(eh), visits, 1)
           /\ ind(forget_epoch(eh)).comp = 1
           /\ ind(forget_epoch(eh)).clock = ind(eh).clock
<1> DEFINE i == eh.index
           new == forget_epoch(eh)
<1>1. eh.hist \in [Slots -> Entry] /\ i \in Slots /\ eh.hist[i] \in Entry
  BY DEF History
<1>2. /\ new.index = i
      /\ new.hist = [eh.hist EXCEPT ![i] = [[@ EXCEPT !.comp = 1] EXCEPT !.clock = eh.hist[i].clock]]
  BY DEF forget_epoch, write_comp, ind, History
<1>3. /\ \A s \in Slots : s # i => new.hist[s] = eh.hist[s]
      /\ new.hist[i].comp = 1 /\ new.hist[i].clock = eh.hist[i].clock
  BY <1>1, <1>2 DEF Entry
<1>4. Holds(new, visits, 1)
  BY <1>2, <1>3, OthersKept
<1> QED
  BY <1>2, <1>3, <1>4 DEF ind


\* A visit joins those remembered; the oldest makes room for it.
LEMMA VisitJoins ==
    ASSUME NEW visits \in Seq(Entry), Len(visits) <= HistEntries, NEW e \in Entry
    PROVE  LET longer == Append(visits, e)
               kept == IF Len(longer) > HistEntries THEN Tail(longer) ELSE longer
           IN  /\ Len(kept) \in 1 .. HistEntries
               /\ kept[Len(kept)] = e
               /\ \A j \in 1 .. Len(kept) :
                     kept[j] = e \/ \E l \in 1 .. Len(visits) : kept[j] = visits[l]
               /\ \A k \in 1 .. HistEntries - 1 : Visit(kept, k) = Visit(visits, k - 1)
<1> DEFINE longer == Append(visits, e)
           kept == IF Len(longer) > HistEntries THEN Tail(longer) ELSE longer
           n == Len(visits)
<1>1. n \in Nat /\ HistEntries \in Nat \ {0} /\ n <= HistEntries
  BY HistoryAssumption
<1>2. /\ longer \in Seq(Entry) /\ Len(longer) = n + 1 /\ longer[n + 1] = e
      /\ \A j \in 1 .. n : longer[j] = visits[j]
  OBVIOUS
<1> HIDE DEF longer, n
<1>3. CASE n = HistEntries
  <2>1. kept = Tail(longer) /\ longer # <<>>
    BY <1>1, <1>2, <1>3
  <2>2. Len(kept) = n /\ \A j \in 1 .. n : kept[j] = longer[j + 1]
    BY <1>1, <1>2, <2>1, HeadTailProperties
  <2> HIDE DEF kept
  <2>3. \A j \in 1 .. n : kept[j] = IF j = n THEN e ELSE visits[j + 1]
    BY <1>1, <1>2, <2>2
  <2>4. ASSUME NEW k \in 1 .. HistEntries - 1
        PROVE  Visit(kept, k) = Visit(visits, k - 1)
    <3>1. /\ k < n /\ k - 1 < n /\ n - k \in 1 .. n /\ n - k # n
          /\ (n - k) + 1 = n - (k - 1)
      BY <1>1, <1>3
    <3>2. Visit(kept, k) = kept[n - k]
      BY <2>2, <3>1 DEF Visit
    <3>3. Visit(visits, k - 1) = visits[n - (k - 1)]
      BY <3>1 DEF Visit, n
    <3> QED
      BY <2>3, <3>1, <3>2, <3>3
  <2>5. ASSUME NEW j \in 1 .. n, j # n PROVE j + 1 \in 1 .. n
    BY <1>1, <2>5
  <2>6. n \in 1 .. HistEntries /\ n \in 1 .. n
    BY <1>1, <1>3
  <2>7. \A j \in 1 .. n : kept[j] = e \/ \E l \in 1 .. n : kept[j] = visits[l]
    BY <2>3, <2>5
  <2> QED
    BY <2>2, <2>3, <2>4, <2>6, <2>7 DEF kept, longer, n
<1>4. CASE n # HistEntries
  <2>1. kept = longer
    BY <1>1, <1>2, <1>4
  <2> HIDE DEF kept
  <2>2. ASSUME NEW k \in 1 .. HistEntries - 1
        PROVE  Visit(kept, k) = Visit(visits, k - 1)
    <3>1. CASE k < n + 1
      <4>1. k - 1 < n /\ (n + 1) - k \in 1 .. n /\ (n + 1) - k = n - (k - 1)
        BY <1>1, <3>1
      <4> QED
        BY <1>2, <2>1, <3>1, <4>1 DEF Visit, n
    <3>2. CASE ~(k < n + 1)
      <4>1. ~(k - 1 < n)
        BY <1>1, <3>2
      <4> QED
        BY <1>2, <2>1, <3>2, <4>1 DEF Visit, n
    <3> QED
      BY <3>1, <3>2
  <2>3. \A j \in 1 .. n + 1 : j = n + 1 \/ j \in 1 .. n
    BY <1>1
  <2>4. \A j \in 1 .. n + 1 : kept[j] = e \/ \E l \in 1 .. n : kept[j] = visits[l]
    BY <1>2, <2>1, <2>3
  <2>5. n + 1 \in 1 .. HistEntries
    BY <1>1, <1>4
  <2> QED
    BY <1>2, <2>1, <2>2, <2>4, <2>5 DEF kept, longer, n
<1> QED
  BY <1>3, <1>4

\* shim_post_2 completes the visit in the ring and remembers it.
LEMMA PostRing ==
    ASSUME NEW eh \in History, NEW visits \in Seq(Entry), Len(visits) <= HistEntries,
           Holds(eh, visits, 1), NEW m \in Nat, NEW e \in Entry, e.comm = m,
           ind(eh).comp = e.comp, ind(eh).clock = e.clock,
           NEW kept, Len(kept) \in 1 .. HistEntries, kept[Len(kept)] = e,
           \A k \in 1 .. HistEntries - 1 : Visit(kept, k) = Visit(visits, k - 1)
    PROVE  Holds(write_comm(eh, m), kept, 0)
<1> DEFINE i == eh.index
           new == write_comm(eh, m)
<1>1. eh.hist \in [Slots -> Entry] /\ i \in Slots /\ eh.hist[i] \in Entry
  BY DEF History
<1>2. /\ new.index = i
      /\ new.hist = [eh.hist EXCEPT ![i] = [@ EXCEPT !.comm = m]]
  BY DEF write_comm, History
<1>3. /\ \A s \in Slots : s # i => new.hist[s] = eh.hist[s]
      /\ new.hist[i] = [eh.hist[i] EXCEPT !.comm = m]
  BY <1>1, <1>2
<1>4. new.hist[i] = e
  <2>1. eh.hist[i].comp = e.comp /\ eh.hist[i].clock = e.clock
    BY DEF ind
  <2> DEFINE visit == eh.hist[i]
  <2>2. visit \in Entry /\ visit.comp = e.comp /\ visit.clock = e.clock
    BY <1>1, <2>1
  <2> HIDE DEF visit
  <2>3. [visit EXCEPT !.comm = m] = e
    BY <2>2 DEF Entry
  <2> QED
    BY <1>3, <2>3 DEF visit
<1>5. Holds(new, visits, 1)
  BY <1>2, <1>3, OthersKept
<1> HIDE DEF new
<1>6. SUFFICES ASSUME NEW k \in 0 .. HistEntries - 1
               PROVE  new.hist[slot(i, k)] = Visit(kept, k)
  <2>1. \A k \in 0 .. HistEntries - 1 : k - 0 = k
    BY HistoryAssumption
  <2> QED
    BY <1>2, <1>6, <2>1 DEF Holds, new
<1>7. CASE k = 0
  <2>1. slot(i, 0) = i
    BY <1>1, LatestSlot
  <2>2. Visit(kept, 0) = kept[Len(kept)]
    BY HistoryAssumption DEF Visit
  <2> QED
    BY <1>4, <1>7, <2>1, <2>2
<1>8. CASE k # 0
  <2>1. k \in 1 .. HistEntries - 1
    BY <1>8, HistoryAssumption
  <2> QED
    BY <1>2, <1>5, <2>1 DEF Holds
<1> QED
  BY <1>7, <1>8

-----------------------------------------------------------------------------
(* What the scheduler reads in a ring between calls.                       *)

\* A settled ring has as many slots with data as there are visits, each that
\* of one visit.
LEMMA SettledRing ==
    ASSUME NEW eh \in History, NEW visits \in Seq(Entry), Len(visits) <= HistEntries,
           Holds(eh, visits, 0), \A k \in 1 .. Len(visits) : visits[k].comp # 0
    PROVE  /\ \A k \in 0 .. Len(visits) - 1 :
                 /\ slot(eh.index, k) \in Data(eh)
                 /\ eh.hist[slot(eh.index, k)] = visits[Len(visits) - k]
           /\ \A s \in Slots : \/ eh.hist[s] = NoData
                                \/ \E k \in 0 .. Len(visits) - 1 :
                                      s = slot(eh.index, k) /\ eh.hist[s] = visits[Len(visits) - k]
           /\ Cardinality(Data(eh)) = Len(visits)
<1> DEFINE i == eh.index
           n == Len(visits)
<1>1. n \in Nat /\ n <= HistEntries /\ HistEntries \in Nat \ {0} /\ i \in Slots
  BY HistoryAssumption DEF History
<1>2. ASSUME NEW k \in Slots
      PROVE  /\ slot(i, k) \in Slots
             /\ eh.hist[slot(i, k)] = IF k < n THEN visits[n - k] ELSE NoData
  <2>1. k \in 0 .. HistEntries - 1 /\ k \in 0 .. HistEntries /\ k - 0 = k
    BY <1>1 DEF Slots
  <2> QED
    BY <1>1, <2>1, SlotValue DEF Holds, Visit
<1>3. ASSUME NEW k \in 0 .. n - 1
      PROVE  slot(i, k) \in Data(eh) /\ eh.hist[slot(i, k)] = visits[n - k]
  <2>1. k \in Slots /\ k < n /\ n - k \in 1 .. n
    BY <1>1 DEF Slots
  <2> QED
    BY <1>2, <2>1 DEF Data
<1>4. ASSUME NEW s \in Slots
      PROVE  \/ eh.hist[s] = NoData
             \/ \E k \in 0 .. n - 1 : s = slot(i, k) /\ eh.hist[s] = visits[n - k]
  <2>1. PICK k \in Slots : slot(i, k) = s
    BY <1>1, SlotsAll
  <2>2. CASE k < n
    <3>1. k \in 0 .. n - 1
      BY <1>1, <2>2 DEF Slots
    <3> QED
      BY <1>3, <2>1, <3>1
  <2>3. CASE ~(k < n)
    BY <1>2, <2>1, <2>3
  <2> QED
    BY <2>2, <2>3
<1>5. Cardinality(Data(eh)) = n
  <2> DEFINE f == [k \in 1 .. n |-> slot(i, k - 1)]
  <2>1. \A k \in 1 .. n : k - 1 \in 0 .. n - 1 /\ k - 1 \in Slots
    BY <1>1 DEF Slots
  <2>2. f \in [1 .. n -> Data(eh)]
    BY <1>3, <2>1
  <2>3. ASSUME NEW a \in 1 .. n, NEW b \in 1 .. n, f[a] = f[b] PROVE a = b
    <3>1. slot(i, a - 1) = slot(i, b - 1)
      BY <2>3
    <3>2. a - 1 = b - 1
      BY <1>1, <2>1, <3>1, SlotsDiffer
    <3> QED
      BY <1>1, <3>2
  <2>4. ASSUME NEW s \in Data(eh) PROVE \E a \in 1 .. n : f[a] = s
    <3>1. s \in Slots /\ eh.hist[s] # NoData
      BY DEF Data, NoData
    <3>2. PICK k \in 0 .. n - 1 : s = slot(i, k)
      BY <1>4, <3>1
    <3>3. k + 1 \in 1 .. n /\ (k + 1) - 1 = k
      BY <1>1
    <3> QED
      BY <3>2, <3>3
  <2> HIDE DEF f
  <2>5. f \in Injection(1 .. n, Data(eh)) /\ f \in Surjection(1 .. n, Data(eh))
    BY <2>2, <2>3, <2>4 DEF Injection, Surjection, IsInjective
  <2>6. ExistsBijection(1 .. n, Data(eh))
    BY <2>5 DEF ExistsBijection, Bijection
  <2> QED
    BY <1>1, <2>6, FS_CountingElements
<1> QED
  BY <1>3, <1>4, <1>5

-----------------------------------------------------------------------------
(* The invariant.                                                          *)

\* A visit is in the making from shim_pre_2 to shim_post_2.
MidVisit == pc \in {"pmpi", "post_MPI_Init", "post_2"}

\* Every ring holds the visits of its task, and that of the current one has
\* turned already.
RingsInStep ==
    \A h \in Hashes : Holds(schedule[h], recent[h], IF MidVisit /\ h = current_hash THEN 1 ELSE 0)

\* No more visits are remembered than a ring has slots, and none has the time
\* since the epoch.
VisitsInStep ==
    \A h \in Hashes :
        /\ Len(recent[h]) <= HistEntries
        /\ \A k \in 1 .. Len(recent[h]) : recent[h][k].comp \in CompTimes \cup {1}

\* A task is known to follow another one only once it was seen.
FollowersSeen == \A h \in Hashes : following_entry[h] # 0 => recent[following_entry[h]] # <<>>

\* The current slot has the computation that was measured.
TimersInStep ==
    /\ MidVisit => /\ ind(schedule[current_hash]).comp = time_comp.elapsed
                   /\ ind(schedule[current_hash]).clock = time_comp.clock
    /\ pc = "post_2" \/ (pc = "pmpi" /\ op # "init") => time_comp.elapsed \in CompTimes \cup {1}

\* A computation was given the gear that the history of the predicted task,
\* unchanged since, still asks for.
ScheduledGear ==
    IF Andante /\ predicted # 0
    THEN schedule_computation(schedule[predicted], FASTEST_FREQ)
    ELSE FASTEST_FREQ

GearInStep == pc = "computing" => current_freq = ScheduledGear

HistInv ==
    /\ RingsInStep
    /\ VisitsInStep
    /\ FollowersSeen
    /\ TimersInStep
    /\ GearInStep
    /\ SlowsOnlyLongCalls

LEMMA InitHistInv == Init => HistInv
<1> SUFFICES ASSUME Init PROVE HistInv
  OBVIOUS
<1>1. RingsInStep
  <2> SUFFICES ASSUME NEW h \in Hashes PROVE Holds(schedule[h], recent[h], 0)
    BY DEF Init, RingsInStep, MidVisit
  <2>1. schedule[h] = EmptyHist /\ recent[h] = <<>>
    BY DEF Init
  <2>2. \A k \in 0 .. HistEntries - 1 : Visit(<<>>, k - 0) = NoData
    BY HistoryAssumption DEF Visit
  <2>3. 0 \in Slots /\ \A k \in 0 .. HistEntries - 1 : k \in 0 .. HistEntries
    BY HistoryAssumption DEF Slots
  <2>4. \A k \in 0 .. HistEntries - 1 : slot(0, k) \in Slots
    BY <2>3, SlotValue
  <2> QED
    BY <2>1, <2>2, <2>4 DEF Holds, EmptyHist
<1>2. VisitsInStep
  BY HistoryAssumption DEF Init, VisitsInStep
<1> QED
  BY <1>1, <1>2 DEF Init, HistInv, FollowersSeen, TimersInStep, MidVisit, GearInStep,
                    SlowsOnlyLongCalls

\* A part of a wrapper that neither begins nor ends a visit, and leaves the
\* timer of the computation alone while one is in the making.
LEMMA NoVisitStep ==
    ASSUME HistInv, UNCHANGED tasks, MidVisit' <=> MidVisit,
           MidVisit => UNCHANGED <<pc, op, time_comp>>,
           pc' = "pmpi" => (alarm' # "off" => alarm # "off"),
           pc' # "computing"
    PROVE  HistInv'
<1> USE DEF HistInv, tasks
<1>1. RingsInStep' /\ VisitsInStep' /\ FollowersSeen'
  BY DEF RingsInStep, VisitsInStep, FollowersSeen
<1>2. TimersInStep'
  BY DEF TimersInStep, MidVisit
<1>3. SlowsOnlyLongCalls'
  BY DEF SlowsOnlyLongCalls, MidVisit
<1> QED
  BY <1>1, <1>2, <1>3 DEF GearInStep

LEMMA NextHistInv == IInv /\ HistInv /\ [Next]_vars => HistInv'
<1> SUFFICES ASSUME IInv, HistInv, [Next]_vars PROVE HistInv'
  OBVIOUS
<1>a. TypeOK /\ CountersInStep /\ AlarmInStep /\ FirstCall
  BY DEF IInv
<1>b. /\ schedule \in [Hashes -> History] /\ current_hash \in Hashes
      /\ recent \in [Hashes -> Seq(Entry)] /\ Freq[core] \in Nat
      /\ time_comp \in [elapsed : Nat, clock : Nat] /\ time_comm \in Nat
  BY <1>a, ClockType DEF TypeOK
<1>0. /\ RingsInStep /\ VisitsInStep /\ FollowersSeen /\ TimersInStep /\ GearInStep
      /\ SlowsOnlyLongCalls
  BY DEF HistInv
<1>1. CASE pre_MPI_Init
  <2>1. UNCHANGED tasks /\ ~MidVisit /\ ~MidVisit' /\ pc' # "computing" /\ pc' # "pmpi"
    BY <1>1 DEF pre_MPI_Init, MidVisit
  <2> QED
    BY <2>1, NoVisitStep
<1>2. CASE post_MPI_Init
  <2>1. /\ pc = "post_MPI_Init" /\ pc' = "post_2"
        /\ time_comp' = [time_comp EXCEPT !.elapsed = 1]
        /\ schedule' = [schedule EXCEPT ![current_hash] = forget_epoch(@)]
        /\ UNCHANGED <<current_hash, following_entry, recent>>
    BY <1>2 DEF post_MPI_Init
  <2>2. Holds(schedule[current_hash], recent[current_hash], 1)
    BY <1>0, <1>b, <2>1 DEF RingsInStep, MidVisit
  <2>3. /\ schedule'[current_hash] = forget_epoch(schedule[current_hash])
        /\ \A h \in Hashes \ {current_hash} : schedule'[h] = schedule[h]
    BY <1>b, <2>1
  <2>4. /\ Holds(schedule'[current_hash], recent[current_hash], 1)
        /\ ind(schedule'[current_hash]).comp = 1
        /\ ind(schedule'[current_hash]).clock = ind(schedule[current_hash]).clock
    BY <1>b, <2>2, <2>3, ForgetRing
  <2>5. RingsInStep'
    BY <1>0, <2>1, <2>3, <2>4 DEF RingsInStep, MidVisit
  <2>6. TimersInStep'
    BY <1>0, <1>b, <2>1, <2>4 DEF TimersInStep, MidVisit
  <2> QED
    BY <1>0, <2>1, <2>5, <2>6 DEF HistInv, VisitsInStep, FollowersSeen, GearInStep,
                                  SlowsOnlyLongCalls
<1>3. CASE Call \/ MPI_Alltoall \/ MPI_AlltoallResumes \/ pre_MPI_Finalize
  <2>1. UNCHANGED tasks /\ ~MidVisit /\ ~MidVisit' /\ pc' # "computing" /\ pc' # "pmpi"
    BY <1>3 DEF Call, MPI_Alltoall, MPI_AlltoallResumes, pre_MPI_Finalize, Enter, MidVisit
  <2> QED
    BY <2>1, NoVisitStep
<1>4. CASE shim_pre_2
  <2>1. PICK h \in Sites, t \in (IF op = "init" THEN {EpochTime} ELSE CompTimes) :
          LET eh == write_comp(rotate(schedule[h]), t, Freq[core])
          IN  /\ time_comp' = [elapsed |-> t, clock |-> Freq[core]]
              /\ current_hash' = h
              /\ schedule' = [schedule EXCEPT ![h] = eh]
              /\ schedule_communication(h, eh)
    BY <1>4 DEF shim_pre_2
  <2> DEFINE eh == write_comp(rotate(schedule[h]), t, Freq[core])
  <2>2. pc = "pre_2" /\ pc' = "pmpi" /\ UNCHANGED <<op, following_entry, recent>>
        /\ alarm = "off"
    BY <1>4, <1>a DEF shim_pre_2, AlarmInStep
  <2>3. h \in Hashes /\ t \in Nat
    BY HashesAssumption, TimesAssumption
  <2>4. Holds(schedule[h], recent[h], 0)
    BY <1>0, <2>2, <2>3 DEF RingsInStep, MidVisit
  <2>5. /\ Holds(eh, recent[h], 1)
        /\ ind(eh).comp = t /\ ind(eh).clock = Freq[core]
        /\ indp(eh).comm = Visit(recent[h], 0).comm
    BY <1>b, <2>3, <2>4, PreRing
  <2> HIDE DEF eh
  <2>6. schedule'[h] = eh /\ \A x \in Hashes \ {h} : schedule'[x] = schedule[x]
    BY <1>b, <2>1, <2>3 DEF eh
  <2>7. RingsInStep'
    BY <1>0, <2>1, <2>2, <2>5, <2>6 DEF RingsInStep, MidVisit
  <2>8. TimersInStep'
    BY <2>1, <2>2, <2>5, <2>6 DEF TimersInStep, MidVisit
  <2>9. SlowsOnlyLongCalls'
    <3> SUFFICES ASSUME alarm' # "off"
                 PROVE  /\ h # 0 /\ recent[h] # <<>>
                        /\ Last(recent[h]).comm >= 2 * MinComm
      BY <2>1, <2>2 DEF SlowsOnlyLongCalls
    <3>1. h # 0 /\ WorthSlowing(eh)
      BY <2>1, <2>2 DEF schedule_communication, eh
    <3>2. Visit(recent[h], 0).comm >= 2 * MinComm
      BY <2>5, <3>1 DEF WorthSlowing
    <3>3. Len(recent[h]) \in Nat
      BY <1>b, <2>3
    <3>4. 0 < Len(recent[h])
      BY <3>2, <3>3, ThresholdAssumption DEF Visit, NoData
    <3>5. Visit(recent[h], 0) = Last(recent[h])
      BY <3>3, <3>4 DEF Visit, Last
    <3> QED
      BY <3>1, <3>2, <3>4, <3>5
  <2> QED
    BY <1>0, <2>2, <2>7, <2>8, <2>9 DEF HistInv, VisitsInStep, FollowersSeen, GearInStep
<1>5. CASE shim_pre_2_exits
  <2>1. UNCHANGED tasks /\ ~MidVisit /\ ~MidVisit' /\ pc' # "computing" /\ pc' # "pmpi"
    BY <1>5 DEF shim_pre_2_exits, MidVisit
  <2> QED
    BY <2>1, NoVisitStep
<1>6. CASE signal_handler
  <2>1. /\ UNCHANGED tasks /\ UNCHANGED <<pc, op, time_comp>> /\ pc # "computing"
        /\ alarm # "off"
    BY <1>6, <1>a DEF signal_handler, AlarmInStep
  <2> QED
    BY <2>1, NoVisitStep DEF MidVisit
<1>7. CASE shim_post_1
  <2>1. /\ pc = "pmpi" /\ pc' = IF op = "init" THEN "post_MPI_Init" ELSE "post_2"
        /\ UNCHANGED <<op, time_comp>> /\ UNCHANGED tasks
    BY <1>7 DEF shim_post_1
  <2> QED
    BY <1>0, <2>1 DEF HistInv, RingsInStep, VisitsInStep, FollowersSeen, TimersInStep,
                      GearInStep, SlowsOnlyLongCalls, MidVisit, tasks
<1>8. CASE shim_post_2
  <2> DEFINE c == current_hash
             e == [comp |-> time_comp.elapsed, comm |-> time_comm, clock |-> time_comp.clock]
             longer == Append(recent[c], e)
             kept == IF Len(longer) > HistEntries THEN Tail(longer) ELSE longer
  <2>1. /\ pc = "post_2" /\ pc' \in {"post_3", "log"}
        /\ schedule' = [schedule EXCEPT ![c] = write_comm(@, time_comm)]
        /\ recent' = [recent EXCEPT ![c] = kept]
        /\ UNCHANGED current_hash
        /\ following_entry' = IF previous_hash < 0 THEN following_entry
                              ELSE [following_entry EXCEPT ![previous_hash] = c]
    BY <1>8 DEF shim_post_2
  <2>2. /\ Holds(schedule[c], recent[c], 1) /\ Len(recent[c]) <= HistEntries
        /\ \A k \in 1 .. Len(recent[c]) : recent[c][k].comp \in CompTimes \cup {1}
    BY <1>0, <1>b, <2>1 DEF RingsInStep, VisitsInStep, MidVisit
  <2>3. /\ ind(schedule[c]).comp = e.comp /\ ind(schedule[c]).clock = e.clock
        /\ e.comp \in CompTimes \cup {1}
    BY <1>0, <2>1 DEF TimersInStep, MidVisit
  <2>4. e \in Entry /\ e.comm = time_comm /\ schedule[c] \in History /\ recent[c] \in Seq(Entry)
    BY <1>b DEF Entry
  <2> HIDE DEF e
  <2>5. /\ Len(kept) \in 1 .. HistEntries /\ kept[Len(kept)] = e
        /\ \A j \in 1 .. Len(kept) :
              kept[j] = e \/ \E l \in 1 .. Len(recent[c]) : kept[j] = recent[c][l]
        /\ \A k \in 1 .. HistEntries - 1 : Visit(kept, k) = Visit(recent[c], k - 1)
    BY <2>2, <2>4, VisitJoins
  <2> HIDE DEF kept
  <2>6. Holds(write_comm(schedule[c], time_comm), kept, 0)
    BY <1>b, <2>2, <2>3, <2>4, <2>5, PostRing
  <2>7. /\ schedule'[c] = write_comm(schedule[c], time_comm) /\ recent'[c] = kept
        /\ \A h \in Hashes \ {c} : schedule'[h] = schedule[h] /\ recent'[h] = recent[h]
    BY <1>b, <2>1
  <2>8. RingsInStep'
    BY <1>0, <2>1, <2>6, <2>7 DEF RingsInStep, MidVisit
  <2>9. VisitsInStep'
    <3>1. Len(kept) <= HistEntries
      BY <2>5, HistoryAssumption
    <3>2. ASSUME NEW j \in 1 .. Len(kept) PROVE kept[j].comp \in CompTimes \cup {1}
      BY <2>2, <2>3, <2>5, Zenon
    <3> QED
      BY <1>0, <2>7, <3>1, <3>2 DEF VisitsInStep
  <2>10. FollowersSeen'
    <3>1. kept # <<>>
      BY <2>5, HistoryAssumption
    <3>2. \A x \in Hashes : recent[x] # <<>> => recent'[x] # <<>>
      BY <2>7, <3>1
    <3>3. following_entry \in [Hashes -> Hashes]
      BY <1>a DEF TypeOK
    <3>4. \A h \in Hashes : following_entry'[h] \in {c, following_entry[h]}
      BY <2>1, <3>3
    <3> QED
      BY <1>0, <2>7, <3>1, <3>2, <3>3, <3>4 DEF FollowersSeen
  <2> QED
    BY <2>1, <2>8, <2>9, <2>10 DEF HistInv, TimersInStep, GearInStep, SlowsOnlyLongCalls, MidVisit
<1>9. CASE Log
  <2>1. UNCHANGED tasks /\ ~MidVisit /\ ~MidVisit' /\ pc' # "computing" /\ pc' # "pmpi"
    BY <1>9 DEF Log, MidVisit
  <2> QED
    BY <2>1, NoVisitStep
<1>10. CASE shim_post_3
  <2>1. /\ pc = "post_3" /\ pc' = "computing"
        /\ UNCHANGED <<config, schedule, following_entry, current_hash, recent>>
        /\ current_freq' = IF Andante /\ following_entry[current_hash] # 0
                           THEN schedule_computation(schedule[following_entry[current_hash]],
                                                     FASTEST_FREQ)
                           ELSE FASTEST_FREQ
    BY <1>10 DEF shim_post_3
  <2>2. GearInStep'
    BY <2>1 DEF GearInStep, ScheduledGear, predicted, Andante, config
  <2> QED
    BY <1>0, <2>1, <2>2 DEF HistInv, RingsInStep, VisitsInStep, FollowersSeen, TimersInStep,
                            SlowsOnlyLongCalls, MidVisit
<1>11. CASE Exited \/ UNCHANGED vars
  <2>1. UNCHANGED <<pc, op, alarm, time_comp, tasks, config, current_freq>>
    BY <1>11 DEF Exited, vars, timers, gears
  <2> QED
    BY <1>0, <2>1 DEF HistInv, RingsInStep, VisitsInStep, FollowersSeen, TimersInStep, GearInStep,
                      ScheduledGear, SlowsOnlyLongCalls, MidVisit, predicted, Andante, config, tasks
<1> QED
  BY <1>1, <1>2, <1>3, <1>4, <1>5, <1>6, <1>7, <1>8, <1>9, <1>10, <1>11 DEF Next

LEMMA HistInvariant == Spec => [](IInv /\ TopInv /\ HistInv)
<1>1. Init => IInv /\ TopInv /\ HistInv
  BY InitIInv, InitTopInv, InitHistInv
<1>2. IInv /\ TopInv /\ HistInv /\ [Next]_vars => IInv' /\ TopInv' /\ HistInv'
  BY NextIInv, NextTopInv, NextHistInv
<1> QED
  BY <1>1, <1>2, PTL DEF Spec

-----------------------------------------------------------------------------
(* The properties.                                                         *)

\* Fermata slows a call only if the same call took long the last time.
THEOREM OnlyLongCallsSlowed == Spec => []SlowsOnlyLongCalls
<1>1. HistInv => SlowsOnlyLongCalls
  BY DEF HistInv
<1> QED
  BY HistInvariant, <1>1, PTL

\* No visit that was remembered lasted no time, or as long as the epoch.
LEMMA VisitTimes ==
    ASSUME VisitsInStep, NEW h \in Hashes, NEW k \in 1 .. Len(recent[h])
    PROVE  recent[h][k].comp # 0 /\ recent[h][k].comp # EpochTime
<1>1. recent[h][k].comp \in CompTimes \cup {1}
  BY DEF VisitsInStep
<1> QED
  BY <1>1, TimesAssumption

\* What SettledRing says of the ring of any task between two calls.
LEMMA RingBetweenCalls ==
    ASSUME TypeOK, HistInv, ~MidVisit, NEW h \in Hashes
    PROVE  LET eh == schedule[h]
               visits == recent[h]
           IN  /\ eh \in History /\ visits \in Seq(Entry) /\ Len(visits) \in Nat
               /\ \A k \in 1 .. Len(visits) : visits[k].comp # EpochTime
               /\ \A k \in 0 .. Len(visits) - 1 :
                     /\ slot(eh.index, k) \in Data(eh)
                     /\ eh.hist[slot(eh.index, k)] = visits[Len(visits) - k]
               /\ \A s \in Slots : \/ eh.hist[s] = NoData
                                    \/ \E k \in 0 .. Len(visits) - 1 :
                                          /\ s = slot(eh.index, k)
                                          /\ eh.hist[s] = visits[Len(visits) - k]
               /\ Cardinality(Data(eh)) = Len(visits)
               /\ Holds(eh, visits, 0)
<1> DEFINE eh == schedule[h]
           visits == recent[h]
<1>1. eh \in History /\ visits \in Seq(Entry)
  BY DEF TypeOK
<1>2. Holds(eh, visits, 0)
  BY DEF HistInv, RingsInStep
<1>3. /\ Len(visits) <= HistEntries
      /\ \A k \in 1 .. Len(visits) : visits[k].comp # 0
      /\ \A k \in 1 .. Len(visits) : visits[k].comp # EpochTime
  <2>1. VisitsInStep
    BY DEF HistInv
  <2> QED
    BY <2>1, VisitTimes DEF VisitsInStep
<1> HIDE DEF eh, visits
<1>4. /\ \A k \in 0 .. Len(visits) - 1 :
            /\ slot(eh.index, k) \in Data(eh)
            /\ eh.hist[slot(eh.index, k)] = visits[Len(visits) - k]
      /\ \A s \in Slots : \/ eh.hist[s] = NoData
                           \/ \E k \in 0 .. Len(visits) - 1 :
                                 s = slot(eh.index, k) /\ eh.hist[s] = visits[Len(visits) - k]
      /\ Cardinality(Data(eh)) = Len(visits)
  BY <1>1, <1>2, <1>3, SettledRing
<1>5. Len(visits) \in Nat
  BY <1>1
<1> QED
  BY <1>1, <1>2, <1>3, <1>4, <1>5 DEF eh, visits

\* Between calls every ring holds the last visits of its task.
THEOREM RingsAreTrue == Spec => []RingHoldsRecentVisits
<1>1. IInv /\ HistInv => RingHoldsRecentVisits
  <2> SUFFICES ASSUME IInv, HistInv, pc \in {"post_3", "computing"}, NEW h \in Hashes
               PROVE  LET eh == schedule[h]
                          n  == Len(recent[h])
                      IN  /\ Cardinality(Data(eh)) = n
                          /\ \A k \in 0 .. n - 1 :
                               eh.hist[(eh.index + HistEntries - k) % HistEntries] = recent[h][n - k]
                          /\ \A s \in Slots : eh.hist[s].comp # EpochTime
    BY DEF RingHoldsRecentVisits
  <2> DEFINE eh == schedule[h]
             n  == Len(recent[h])
  <2>1. TypeOK /\ ~MidVisit
    BY DEF IInv, MidVisit
  <2>2. /\ n \in Nat /\ Cardinality(Data(eh)) = n
        /\ \A k \in 0 .. n - 1 : eh.hist[slot(eh.index, k)] = recent[h][n - k]
        /\ \A s \in Slots : \/ eh.hist[s] = NoData
                             \/ \E k \in 0 .. n - 1 : eh.hist[s] = recent[h][n - k]
        /\ \A k \in 1 .. n : recent[h][k].comp # EpochTime
    BY <2>1, RingBetweenCalls
  <2> HIDE DEF eh, n
  <2>3. ASSUME NEW s \in Slots PROVE eh.hist[s].comp # EpochTime
    <3>1. CASE eh.hist[s] = NoData
      BY <3>1, TimesAssumption DEF NoData
    <3>2. ASSUME NEW k \in 0 .. n - 1, eh.hist[s] = recent[h][n - k]
          PROVE  eh.hist[s].comp # EpochTime
      <4>1. n - k \in 1 .. n
        BY <2>2
      <4> QED
        BY <2>2, <3>2, <4>1
    <3> QED
      BY <2>2, <3>1, <3>2
  <2> QED
    BY <2>2, <2>3 DEF eh, n, slot
<1> QED
  BY HistInvariant, <1>1, PTL

\* The slots with data are the visits, and the latest slot is the last of them.
LEMMA RingIsVisits ==
    ASSUME TypeOK, HistInv, ~MidVisit, NEW h \in Hashes, recent[h] # <<>>
    PROVE  LET eh == schedule[h]
               visits == recent[h]
           IN  /\ ind(eh) = Last(visits)
               /\ Data(eh) # {}
               /\ \A k \in 1 .. Len(visits) : \E s \in Data(eh) : eh.hist[s] = visits[k]
               /\ \A s \in Data(eh) : \E k \in 1 .. Len(visits) : eh.hist[s] = visits[k]
<1> DEFINE eh == schedule[h]
           visits == recent[h]
           n == Len(visits)
<1>1. /\ eh \in History /\ visits \in Seq(Entry) /\ n \in Nat
      /\ \A k \in 0 .. n - 1 : /\ slot(eh.index, k) \in Data(eh)
                               /\ eh.hist[slot(eh.index, k)] = visits[n - k]
      /\ \A s \in Slots : \/ eh.hist[s] = NoData
                           \/ \E k \in 0 .. n - 1 : eh.hist[s] = visits[n - k]
  BY RingBetweenCalls
<1>2. 0 < n
  BY <1>1
<1>3. slot(eh.index, 0) = eh.index
  BY <1>1, LatestSlot DEF History
<1> HIDE DEF eh, n
<1>4. 0 \in 0 .. n - 1 /\ n - 0 = n
  BY <1>1, <1>2
<1>5. ind(eh) = visits[n] /\ eh.index \in Data(eh)
  BY <1>1, <1>3, <1>4 DEF ind
<1>6. ASSUME NEW k \in 1 .. n PROVE \E s \in Data(eh) : eh.hist[s] = visits[k]
  <2>1. n - k \in 0 .. n - 1 /\ n - (n - k) = k
    BY <1>1
  <2> QED
    BY <1>1, <2>1
<1>7. ASSUME NEW s \in Data(eh) PROVE \E k \in 1 .. n : eh.hist[s] = visits[k]
  <2>1. s \in Slots /\ eh.hist[s] # NoData
    BY DEF Data, NoData
  <2>2. PICK k \in 0 .. n - 1 : eh.hist[s] = visits[n - k]
    BY <1>1, <2>1
  <2>3. n - k \in 1 .. n
    BY <1>1
  <2> QED
    BY <2>2, <2>3
<1> QED
  BY <1>5, <1>6, <1>7 DEF eh, n, Last

\* A computation that was given a gear for a predicted task has the one that
\* the ring of that task asks for, and the task was seen.
LEMMA PredictedWasScheduled ==
    ASSUME TypeOK, HistInv, pc = "computing", Andante, predicted # 0
    PROVE  /\ current_freq = schedule_computation(schedule[predicted], FASTEST_FREQ)
           /\ predicted \in Hashes /\ recent[predicted] # <<>>
           /\ schedule[predicted] \in History
           /\ FASTEST_FREQ \in Gears
           /\ ~MidVisit
<1>1. predicted \in Hashes /\ FASTEST_FREQ \in Gears
  BY DEF TypeOK, predicted
<1>2. recent[predicted] # <<>>
  BY DEF HistInv, FollowersSeen, TypeOK, predicted
<1>3. current_freq = schedule_computation(schedule[predicted], FASTEST_FREQ)
  BY DEF HistInv, GearInStep, ScheduledGear
<1> QED
  BY <1>1, <1>2, <1>3 DEF TypeOK, MidVisit

\* A computation that is slowed was scheduled as a task with blocking time.
LEMMA SlowedWasScheduled ==
    ASSUME TypeOK, HistInv, pc = "computing", current_freq # FASTEST_FREQ
    PROVE  LET eh == schedule[predicted]
               visits == recent[predicted]
           IN  /\ Andante /\ predicted \in Hashes /\ FASTEST_FREQ \in Gears
               /\ current_freq = schedule_computation(eh, FASTEST_FREQ)
               /\ schedule_computation(eh, FASTEST_FREQ) # FASTEST_FREQ
               /\ ~OnCriticalPath(eh)
               /\ \A s \in Data(eh) : eh.hist[s].comp > MinComp
               /\ ind(eh) = Last(visits)
               /\ \A k \in 1 .. Len(visits) : \E s \in Data(eh) : eh.hist[s] = visits[k]
<1>1. Andante /\ predicted # 0
  BY DEF HistInv, GearInStep, ScheduledGear
<1>2. /\ current_freq = schedule_computation(schedule[predicted], FASTEST_FREQ)
      /\ predicted \in Hashes /\ recent[predicted] # <<>>
      /\ schedule[predicted] \in History /\ FASTEST_FREQ \in Gears /\ ~MidVisit
  BY <1>1, PredictedWasScheduled
<1>3. /\ ~OnCriticalPath(schedule[predicted])
      /\ \A s \in Data(schedule[predicted]) : schedule[predicted].hist[s].comp > MinComp
  BY <1>2, SlowedTaskIsLong
<1> QED
  BY <1>1, <1>2, <1>3, RingIsVisits

\* A task that was critical when last seen runs in the top gear, and so does
\* one too short to be worth a shift.
THEOREM CriticalTasksKeepUp == Spec => []CriticalTaskRunsFastest
<1>1. IInv /\ HistInv => CriticalTaskRunsFastest
  <2> SUFFICES ASSUME IInv, HistInv, pc = "computing", current_freq # FASTEST_FREQ
               PROVE  LET visits == recent[predicted]
                      IN  /\ Andante
                          /\ Last(visits).comm >= BlockingBuffer
                          /\ \A k \in 1 .. Len(visits) : visits[k].comp > MinComp
    BY DEF CriticalTaskRunsFastest
  <2> DEFINE eh == schedule[predicted]
             visits == recent[predicted]
  <2>1. TypeOK
    BY DEF IInv
  <2>2. /\ Andante /\ predicted \in Hashes /\ ~OnCriticalPath(eh)
        /\ \A s \in Data(eh) : eh.hist[s].comp > MinComp
        /\ ind(eh) = Last(visits)
        /\ \A k \in 1 .. Len(visits) : \E s \in Data(eh) : eh.hist[s] = visits[k]
    BY <2>1, SlowedWasScheduled
  <2>3. eh \in History
    BY <2>1, <2>2 DEF TypeOK
  <2>4. Last(visits).comm \in Nat
    <3>1. ind(eh) \in Entry
      BY <2>3 DEF ind, History
    <3> QED
      BY <2>2, <3>1 DEF Entry
  <2> HIDE DEF eh, visits
  <2>5. Last(visits).comm >= BlockingBuffer
    BY <2>2, <2>4, ThresholdAssumption DEF OnCriticalPath
  <2>6. \A k \in 1 .. Len(visits) : visits[k].comp > MinComp
    BY <2>2
  <2> QED
    BY <2>2, <2>5, <2>6 DEF visits
<1> QED
  BY HistInvariant, <1>1, PTL

\* Without miser the top gear is no slower than the nominal clock.
LEMMA TopGearAtLeastNominal ==
    ASSUME NEW flags, "MISER" \notin flags
    PROVE  Freq[TopGear(flags)] >= NominalClock
<1>1. 0 \in Gears /\ 1 \in Gears
  BY EnoughGears, GearsAssumption DEF Gears
<1>2. Freq[1] < Freq[0] /\ Freq[0] \in Nat /\ Freq[1] \in Nat
  BY <1>1, GearsAssumption
<1> QED
  BY <1>2 DEF TopGear, NominalClock

\* A slowed computation still meets the earliest end of its task that is
\* remembered, unless the algorithm is miser's.
THEOREM SlowedTasksAreInTime == Spec => []SlowedMeetsDeadline
<1>1. IInv /\ TopInv /\ HistInv => SlowedMeetsDeadline
  <2> SUFFICES ASSUME IInv, TopInv, HistInv, pc = "computing", current_freq # FASTEST_FREQ,
                      "MISER" \notin g_algo
               PROVE  Meets(current_freq, recent[predicted])
    BY DEF SlowedMeetsDeadline
  <2> DEFINE eh == schedule[predicted]
             visits == recent[predicted]
  <2>1. TypeOK
    BY DEF IInv
  <2>2. /\ predicted \in Hashes /\ FASTEST_FREQ \in Gears
        /\ current_freq = schedule_computation(eh, FASTEST_FREQ)
        /\ schedule_computation(eh, FASTEST_FREQ) # FASTEST_FREQ
        /\ ind(eh) = Last(visits)
        /\ \A k \in 1 .. Len(visits) : \E s \in Data(eh) : eh.hist[s] = visits[k]
    BY <2>1, SlowedWasScheduled
  <2>3. eh \in History
    BY <2>1, <2>2 DEF TypeOK
  <2>4. Freq[FASTEST_FREQ] >= NominalClock
    BY TopGearAtLeastNominal DEF TopInv
  <2> HIDE DEF eh, visits
  <2>5. \A s \in Data(eh) :
           ind(eh).comp * ind(eh).clock
             <= Freq[current_freq] * (eh.hist[s].comp + eh.hist[s].comm - BlockingBuffer)
    BY <2>2, <2>3, <2>4, SlowedTaskMeetsDeadline
  <2>6. Meets(current_freq, visits)
    BY <2>2, <2>5 DEF Meets
  <2> QED
    BY <2>6 DEF visits
<1> QED
  BY HistInvariant, <1>1, PTL

\* When the top gear runs at the nominal clock, no slower gear would do.
THEOREM NoSlowerGearMeets == Spec => []SlowestThatMeets
<1>1. IInv /\ HistInv => SlowestThatMeets
  <2> SUFFICES ASSUME IInv, HistInv, pc = "computing", Andante, predicted # 0,
                      Freq[FASTEST_FREQ] = NominalClock,
                      NEW gear \in Gears, gear > current_freq,
                      ~(Last(recent[predicted]).comm < BlockingBuffer),
                      ~(\E k \in 1 .. Len(recent[predicted]) : recent[predicted][k].comp <= MinComp)
               PROVE  ~Meets(gear, recent[predicted])
    BY DEF SlowestThatMeets
  <2> DEFINE eh == schedule[predicted]
             visits == recent[predicted]
  <2>1. TypeOK
    BY DEF IInv
  <2>2. /\ current_freq = schedule_computation(eh, FASTEST_FREQ)
        /\ predicted \in Hashes /\ visits # <<>> /\ eh \in History
        /\ FASTEST_FREQ \in Gears /\ ~MidVisit
    BY <2>1, PredictedWasScheduled
  <2>3. /\ ind(eh) = Last(visits) /\ Data(eh) # {}
        /\ \A s \in Data(eh) : \E k \in 1 .. Len(visits) : eh.hist[s] = visits[k]
    BY <2>1, <2>2, RingIsVisits
  <2> HIDE DEF eh
  <2>4. ~OnCriticalPath(eh)
    BY <2>3 DEF OnCriticalPath
  <2>5. ASSUME NEW s \in Data(eh)
        PROVE  /\ eh.hist[s].comp \in Nat /\ eh.hist[s].comm \in Nat
               /\ eh.hist[s].comp > MinComp
    <3>1. eh.hist[s].comp \in Nat /\ eh.hist[s].comm \in Nat
      BY <2>2 DEF Data, History, Entry
    <3>2. ~(eh.hist[s].comp <= MinComp)
      BY <2>3
    <3> QED
      BY <3>1, <3>2, ThresholdAssumption
  <2>6. PICK s \in Data(eh) :
          ind(eh).comp * ind(eh).clock
            > Freq[gear] * (eh.hist[s].comp + eh.hist[s].comm - BlockingBuffer)
    BY <2>2, <2>3, <2>4, <2>5, ScheduledGearIsSlowest
  <2>7. PICK k \in 1 .. Len(visits) : eh.hist[s] = visits[k]
    BY <2>3
  <2>8. Last(visits).comp * Last(visits).clock
          > Freq[gear] * (visits[k].comp + visits[k].comm - BlockingBuffer)
    BY <2>3, <2>6, <2>7
  <2>9. /\ Last(visits).comp * Last(visits).clock \in Int
        /\ Freq[gear] * (visits[k].comp + visits[k].comm - BlockingBuffer) \in Int
    <3>1. ind(eh).comp \in Nat /\ ind(eh).clock \in Nat
      <4>1. ind(eh) \in Entry
        BY <2>2 DEF ind, History
      <4> QED
        BY <4>1 DEF Entry
    <3>2. visits[k].comp \in Nat /\ visits[k].comm \in Nat /\ Freq[gear] \in Nat
      BY <2>5, <2>7, ClockType
    <3>3. Last(visits).comp \in Nat /\ Last(visits).clock \in Nat
      BY <2>3, <3>1
    <3>4. Last(visits).comp * Last(visits).clock \in Int
      BY <3>3
    <3> DEFINE end == visits[k].comp + visits[k].comm - BlockingBuffer
    <3>5. end \in Int
      BY <3>2, ThresholdAssumption
    <3> HIDE DEF end
    <3>6. Freq[gear] * end \in Int
      BY <3>2, <3>5
    <3> QED
      BY <3>4, <3>6 DEF end
  <2> QED
    BY <2>8, <2>9 DEF Meets
<1> QED
  BY HistInvariant, <1>1, PTL

=============================================================================
