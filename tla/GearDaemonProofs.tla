-------------------------- MODULE GearDaemonProofs --------------------------
(***************************************************************************)
(* For any number of clients, gears and installations, and over any        *)
(* network: the daemon and its clients keep their types, the daemon is a   *)
(* GearRegister, and a query of the older library tells a gear of its own  *)
(* time.  Without faults, a first answer does so in both libraries, and    *)
(* the core ends in the gear that some client asked for last.              *)
(***************************************************************************)
EXTENDS GearDaemon, FiniteSetTheorems, SequenceTheorems, TLAPS

\* The fields of an installation.
LEMMA SiteType ==
    ASSUME site \in Sites
    PROVE  /\ site.asked \subseteq Int /\ site.calls \in [Clients -> Nat]
           /\ site.buffer \in Nat \ {0} /\ site.retries \in Nat \ {0}
  BY DaemonAssumption

\* Delivering adds the datagram at the end or drops it.
LEMMA DeliverType ==
    ASSUME NEW S, NEW queue \in Seq(S), NEW m \in S
    PROVE  Deliver(queue, m) \in Seq(S)
  BY DEF Deliver

\* A queue without its ith element.
LEMMA RemoveAtElements ==
    ASSUME NEW S, NEW queue \in Seq(S), NEW i \in 1 .. Len(queue)
    PROVE  /\ RemoveAt(queue, i) \in Seq(S)
           /\ Len(RemoveAt(queue, i)) = Len(queue) - 1
           /\ \A j \in 1 .. Len(queue) - 1 :
                 RemoveAt(queue, i)[j] = IF j < i THEN queue[j] ELSE queue[j + 1]
<1> DEFINE before == SubSeq(queue, 1, i - 1)
           after  == SubSeq(queue, i + 1, Len(queue))
<1>0. Len(queue) \in Nat /\ i \in Nat /\ i >= 1 /\ i <= Len(queue)
  BY LenProperties
<1>1. /\ before \in Seq(S) /\ Len(before) = i - 1
      /\ \A j \in 1 .. i - 1 : before[j] = queue[j]
  <2>1. \A j \in 1 .. i - 1 : queue[j] \in S
    BY <1>0, ElementOfSeq
  <2> QED
    BY <1>0, <2>1, SubSeqProperties
<1>2. /\ after \in Seq(S) /\ Len(after) = Len(queue) - i
      /\ \A j \in 1 .. Len(queue) - i : after[j] = queue[i + j]
  <2>1. \A j \in i + 1 .. Len(queue) : queue[j] \in S
    BY <1>0, ElementOfSeq
  <2>2. /\ after \in Seq(S)
        /\ Len(after) = IF i + 1 <= Len(queue) THEN Len(queue) - (i + 1) + 1 ELSE 0
        /\ \A j \in 1 .. Len(queue) - (i + 1) + 1 : after[j] = queue[i + 1 + j - 1]
    BY <1>0, <2>1, SubSeqProperties
  <2> QED
    BY <1>0, <2>2
<1>3. /\ before \o after \in Seq(S)
      /\ Len(before \o after) = Len(queue) - 1
      /\ \A j \in 1 .. Len(queue) - 1 :
            (before \o after)[j] = IF j <= i - 1 THEN before[j] ELSE after[j - (i - 1)]
  <2> HIDE DEF before, after
  <2>1. /\ before \o after \in Seq(S)
        /\ Len(before \o after) = Len(before) + Len(after)
        /\ \A j \in 1 .. Len(before) + Len(after) :
              (before \o after)[j] = IF j <= Len(before) THEN before[j] ELSE after[j - Len(before)]
    BY <1>1, <1>2, ConcatProperties, ZenonT(30)
  <2>2. Len(before) = i - 1 /\ Len(after) = Len(queue) - i
    BY <1>1, <1>2
  <2>3. Len(before) + Len(after) = Len(queue) - 1
    BY <1>0, <2>2
  <2> QED
    BY <2>1, <2>2, <2>3
<1>4. RemoveAt(queue, i) = before \o after
  BY DEF RemoveAt
<1>5. ASSUME NEW j \in 1 .. Len(queue) - 1
      PROVE  (before \o after)[j] = IF j < i THEN queue[j] ELSE queue[j + 1]
  <2> HIDE DEF before, after
  <2>1. CASE j < i
    <3>1. j <= i - 1 /\ j \in 1 .. i - 1
      BY <1>0, <2>1
    <3> QED
      BY <1>1, <1>3, <2>1, <3>1
  <2>2. CASE ~(j < i)
    <3>1. ~(j <= i - 1) /\ j - (i - 1) \in 1 .. Len(queue) - i
      BY <1>0, <2>2
    <3>2. (before \o after)[j] = after[j - (i - 1)]
      BY <1>3, <3>1
    <3>3. after[j - (i - 1)] = queue[i + (j - (i - 1))]
      BY <1>2, <3>1
    <3>4. i + (j - (i - 1)) = j + 1
      BY <1>0
    <3> QED
      BY <2>2, <3>2, <3>3, <3>4
  <2> QED
    BY <2>1, <2>2
<1> QED
  BY <1>3, <1>4, <1>5

LEMMA RemoveAtType ==
    ASSUME NEW S, NEW queue \in Seq(S), NEW i \in 1 .. Len(queue)
    PROVE  /\ RemoveAt(queue, i) \in Seq(S)
           /\ \A j \in 1 .. Len(RemoveAt(queue, i)) :
                 \E k \in 1 .. Len(queue) : RemoveAt(queue, i)[j] = queue[k]
<1>1. Len(queue) \in Nat /\ i \in Nat /\ i >= 1 /\ i <= Len(queue)
  BY LenProperties
<1>2. ASSUME NEW j \in 1 .. Len(queue) - 1
      PROVE  \E k \in 1 .. Len(queue) : RemoveAt(queue, i)[j] = queue[k]
  <2>1. j \in 1 .. Len(queue) /\ j + 1 \in 1 .. Len(queue)
    BY <1>1
  <2>2. RemoveAt(queue, i)[j] = queue[j] \/ RemoveAt(queue, i)[j] = queue[j + 1]
    BY RemoveAtElements
  <2> QED
    BY <2>1, <2>2
<1> QED
  BY <1>2, RemoveAtElements

\* What is removed from a queue, or added to it, changes what is asked for as
\* one expects.
LEMMA AskedAfterRemoval ==
    ASSUME NEW S, NEW queue \in Seq(S), NEW i \in 1 .. Len(queue)
    PROVE  Asked(RemoveAt(queue, i)) \subseteq Asked(queue)
  BY RemoveAtType DEF Asked

LEMMA AskedAfterDelivery ==
    ASSUME NEW S, NEW queue \in Seq(S), NEW m \in S
    PROVE  \/ Asked(Deliver(queue, m)) = Asked(queue)
           \/ /\ m.type = "SSD_SET_SPEED" /\ m.gear \in Gears
              /\ Asked(Deliver(queue, m)) = Asked(queue) \cup {m.gear}
<1> DEFINE longer == Append(queue, m)
<1>1. CASE Deliver(queue, m) = queue
  BY <1>1
<1>2. CASE Deliver(queue, m) = longer
  <2>0. /\ Len(queue) \in Nat /\ Len(longer) = Len(queue) + 1
        /\ \A j \in 1 .. Len(queue) : longer[j] = queue[j]
        /\ longer[Len(queue) + 1] = m
    OBVIOUS
  <2> HIDE DEF longer
  <2>1. \A j : j \in 1 .. Len(longer) <=> j \in 1 .. Len(queue) \/ j = Len(queue) + 1
    BY <2>0
  <2>2. CASE m.type = "SSD_SET_SPEED" /\ m.gear \in Gears
    <3>1. Asked(longer) = Asked(queue) \cup {m.gear}
      BY <2>0, <2>1, <2>2 DEF Asked
    <3> QED
      BY <1>2, <2>2, <3>1
  <2>3. CASE ~(m.type = "SSD_SET_SPEED" /\ m.gear \in Gears)
    <3>1. Asked(longer) = Asked(queue)
      BY <2>0, <2>1, <2>3 DEF Asked
    <3> QED
      BY <1>2, <3>1
  <2> QED
    BY <2>2, <2>3
<1> QED
  BY <1>1, <1>2 DEF Deliver

-----------------------------------------------------------------------------

\* A call in progress is a request that has attempts left.
InProgress ==
    \A c \in Clients : waiting[c] => call[c] \in Queries /\ try[c] < site.retries

IInv == TypeOK /\ InProgress

LEMMA InitIInv == Init => IInv
<1> SUFFICES ASSUME Init PROVE IInv
  OBVIOUS
<1>1. site \in Sites /\ core \in Gears
  BY DEF Init
<1>2. 0 \in 0 .. site.retries /\ \A c \in Clients : 0 <= site.calls[c]
  BY <1>1, SiteType
<1>3. inbox \in Seq(Requests) /\ mail \in [Clients -> Seq(Answers)]
  BY DEF Init
<1> QED
  BY <1>1, <1>2, <1>3 DEF Init, IInv, TypeOK, InProgress

\* A request as a client sends it.
LEMMA RequestType ==
    ASSUME TypeOK, NEW c \in Clients, NEW nth \in Nat, NEW m \in Queries, Request(c, nth, m)
    PROVE  inbox' \in Seq(Requests)
<1>1. [from |-> Socket(c, nth), type |-> m.type, gear |-> m.gear] \in Requests
  BY DEF Socket, Queries, Requests
<1>2. inbox \in Seq(Requests)
  BY DEF TypeOK
<1> QED
  BY <1>1, <1>2, DeliverType DEF Request

LEMMA ReplyType ==
    ASSUME TypeOK, NEW from \in Clients \X Nat, NEW m \in Answers, Reply(from, m)
    PROVE  mail' \in [Clients -> Seq(Answers)]
<1>1. from[1] \in Clients /\ mail \in [Clients -> Seq(Answers)]
  BY DEF TypeOK
<1>2. Deliver(mail[from[1]], m) \in Seq(Answers)
  BY <1>1, DeliverType
<1> QED
  BY <1>1, <1>2 DEF Reply

LEMMA BeginIInv ==
    ASSUME IInv, NEW c \in Clients, NEW m \in Queries, Begin(c, m)
    PROVE  IInv'
<1>0. TypeOK /\ InProgress /\ site \in Sites /\ site' = site
  BY DEF IInv, TypeOK, Begin
<1>1. calls' \in [Clients -> Nat] /\ \A d \in Clients : calls'[d] <= site.calls[d]
  BY <1>0, SiteType DEF TypeOK, Begin
<1>2. inbox' \in Seq(Requests)
  BY <1>0, <1>1, RequestType DEF Begin
<1>3. mail' \in [Clients -> Seq(Answers)]
  BY <1>0 DEF TypeOK, Begin
<1>4. try' \in [Clients -> 0 .. site.retries] /\ waiting' \in [Clients -> BOOLEAN]
  BY <1>0, SiteType DEF TypeOK, Begin
<1>5. call' \in [Clients -> Queries \cup {Failed}]
  BY <1>0 DEF TypeOK, Begin
<1>6. seen' \in [Clients -> SUBSET Gears] /\ wanted' \in [Clients -> Gears \cup {-1}]
  BY <1>0 DEF TypeOK, Begin
<1>7. InProgress'
  <2> SUFFICES ASSUME NEW d \in Clients, waiting'[d]
               PROVE  call'[d] \in Queries /\ try'[d] < site.retries
    BY <1>0 DEF InProgress, Queries
  <2>1. CASE d = c
    BY <1>0, <2>1, SiteType DEF Begin, TypeOK
  <2>2. CASE d # c
    BY <1>0, <2>2 DEF Begin, TypeOK, InProgress
  <2> QED
    BY <2>1, <2>2
<1>8. UNCHANGED <<site, answer, daemon, timedOut>>
  BY DEF Begin
<1> QED
  BY <1>0, <1>1, <1>2, <1>3, <1>4, <1>5, <1>6, <1>7, <1>8
     DEF IInv, TypeOK, daemon, Queries, Requests

LEMMA NextIInv == IInv /\ [Next]_vars => IInv'
<1> SUFFICES ASSUME IInv, [Next]_vars PROVE IInv'
  OBVIOUS
<1>0. TypeOK /\ InProgress /\ site \in Sites
  BY DEF IInv, TypeOK
<1>a. ASSUME site' = site PROVE Queries' = Queries /\ Requests' = Requests
  BY <1>a DEF Queries, Requests
<1>1. ASSUME NEW c \in Clients, ss_setGearRemote(c) PROVE IInv'
  <2>1. PICK g \in site.asked : Begin(c, [type |-> "SSD_SET_SPEED", gear |-> g])
    BY <1>1 DEF ss_setGearRemote
  <2> QED
    BY <2>1, BeginIInv DEF Queries, Kinds
<1>2. ASSUME NEW c \in Clients, ss_getGearRemote(c) PROVE IInv'
  BY <1>2, BeginIInv DEF ss_getGearRemote, Queries, Kinds
<1>3. ASSUME NEW c \in Clients, Receive(c) PROVE IInv'
  <2>1. mail[c] \in Seq(Answers) /\ mail[c] # <<>>
    BY <1>0, <1>3 DEF TypeOK, Receive
  <2>2. Head(mail[c]) \in Answers /\ Tail(mail[c]) \in Seq(Answers)
    BY <2>1, HeadTailProperties
  <2>3. mail' \in [Clients -> Seq(Answers)]
    BY <1>0, <1>3, <2>2 DEF TypeOK, Receive
  <2>4. answer' \in [Clients -> Answers \cup {Failed}] /\ waiting' \in [Clients -> BOOLEAN]
    BY <1>0, <1>3, <2>2 DEF TypeOK, Receive, Return
  <2>5. UNCHANGED <<site, call, try, calls, inbox, daemon, past>>
    BY <1>3 DEF Receive
  <2>6. InProgress'
    BY <1>0, <1>3, <2>5 DEF InProgress, Receive, Return, TypeOK, Queries
  <2> QED
    BY <1>0, <2>3, <2>4, <2>5, <2>6, <1>a DEF IInv, TypeOK, daemon, past
<1>4. ASSUME NEW c \in Clients, Timeout(c) PROVE IInv'
  <2>0. /\ UNCHANGED <<site, call, calls, mail, daemon, seen, wanted>>
        /\ waiting[c] /\ try' = [try EXCEPT ![c] = @ + 1] /\ timedOut' = timedOut \cup {c}
    BY <1>4 DEF Timeout
  <2>1. try[c] \in 0 .. site.retries /\ try[c] < site.retries /\ site.retries \in Nat
    BY <1>0, <2>0, SiteType DEF TypeOK, InProgress
  <2>2. try' \in [Clients -> 0 .. site.retries] /\ try'[c] = try[c] + 1
    BY <1>0, <2>0, <2>1 DEF TypeOK
  <2>3. CASE try'[c] < site.retries
    <3>1. Request(c, calls[c], call[c]) /\ UNCHANGED <<waiting, answer>>
      BY <1>4, <2>3 DEF Timeout
    <3>2. inbox' \in Seq(Requests)
      BY <1>0, <2>0, <3>1, RequestType DEF TypeOK, InProgress
    <3>3. InProgress'
      BY <1>0, <2>0, <2>3, <3>1 DEF InProgress, TypeOK, Queries
    <3> QED
      BY <1>0, <2>0, <2>2, <3>1, <3>2, <3>3, <1>a DEF IInv, TypeOK, daemon
  <2>4. CASE ~(try'[c] < site.retries)
    <3>1. Return(c, Failed) /\ UNCHANGED inbox
      BY <1>4, <2>4 DEF Timeout
    <3>2. answer' \in [Clients -> Answers \cup {Failed}] /\ waiting' \in [Clients -> BOOLEAN]
      BY <1>0, <3>1 DEF TypeOK, Return
    <3>3. InProgress'
      BY <1>0, <2>0, <3>1 DEF InProgress, TypeOK, Queries, Return
    <3> QED
      BY <1>0, <2>0, <2>2, <3>1, <3>2, <3>3, <1>a DEF IInv, TypeOK, daemon
  <2> QED
    BY <2>3, <2>4
<1>5. ASSUME NEW c \in Clients, Interrupted(c) PROVE IInv'
  <2>1. answer' \in [Clients -> Answers \cup {Failed}] /\ waiting' \in [Clients -> BOOLEAN]
    BY <1>0, <1>5 DEF TypeOK, Interrupted, Return
  <2>2. /\ UNCHANGED <<site, call, try, calls, inbox, mail, daemon, seen, wanted>>
        /\ timedOut' = timedOut \cup {c}
    BY <1>5 DEF Interrupted
  <2>3. InProgress'
    BY <1>0, <1>5, <2>2 DEF InProgress, Interrupted, Return, TypeOK, Queries
  <2> QED
    BY <1>0, <2>1, <2>2, <2>3, <1>a DEF IInv, TypeOK, daemon
<1>6. CASE Serve
  <2>1. PICK i \in 1 .. Len(inbox) :
          (ServeSet(inbox[i]) \/ ServeGet(inbox[i])) /\ inbox' = RemoveAt(inbox, i)
    BY <1>6 DEF Serve
  <2>2. UNCHANGED <<site, client, core, past>> /\ pending = -1
    BY <1>6 DEF Serve
  <2>3. inbox \in Seq(Requests) /\ inbox[i] \in Requests
    BY <1>0, ElementOfSeq DEF TypeOK
  <2>4. inbox' \in Seq(Requests)
    BY <2>1, <2>3, RemoveAtType
  <2>5. inbox[i].from \in Clients \X Nat /\ inbox[i].gear \in Int
    BY <1>0, <2>3, SiteType DEF Requests
  <2>6. mail' \in [Clients -> Seq(Answers)] /\ pending' \in Gears \cup {-1}
    <3>1. CASE ServeSet(inbox[i])
      <4>1. valid(inbox[i].gear) => inbox[i].gear \in Gears
        BY <2>5, DaemonAssumption DEF valid, Gears
      <4>2. (IF valid(inbox[i].gear) THEN ACK(inbox[i].gear) ELSE NAK) \in Answers
        BY <4>1 DEF Answers, ACK, NAK
      <4> QED
        BY <1>0, <2>5, <3>1, <4>1, <4>2, ReplyType DEF ServeSet
    <3>2. CASE ServeGet(inbox[i])
      <4>1. ACK(core) \in Answers /\ NAK \in Answers
        BY <1>0 DEF TypeOK, Answers, ACK, NAK
      <4> QED
        BY <1>0, <2>2, <2>5, <3>2, <4>1, ReplyType DEF ServeGet
    <3> QED
      BY <2>1, <3>1, <3>2
  <2>7. InProgress'
    BY <1>0, <2>2 DEF InProgress, client, Queries
  <2> QED
    BY <1>0, <2>2, <2>4, <2>6, <2>7, <1>a DEF IInv, TypeOK, client, past
<1>7. CASE SetSpeed
  <2>1. core' \in Gears /\ pending' = -1
    BY <1>0, <1>7 DEF SetSpeed, TypeOK
  <2>2. seen' \in [Clients -> SUBSET Gears]
    BY <1>0, <1>7, <2>1 DEF SetSpeed, TypeOK
  <2>3. UNCHANGED <<site, client, inbox, mail, wanted, timedOut>>
    BY <1>7 DEF SetSpeed
  <2>4. InProgress'
    BY <1>0, <2>3 DEF InProgress, client, Queries
  <2> QED
    BY <1>0, <2>1, <2>2, <2>3, <2>4, <1>a DEF IInv, TypeOK, client
<1>8. CASE Lose \/ Duplicate
  <2>0. UNCHANGED <<site, client, daemon, past>>
    BY <1>8 DEF Lose, Duplicate
  <2>1. inbox \in Seq(Requests) /\ mail \in [Clients -> Seq(Answers)]
    BY <1>0 DEF TypeOK
  <2>2. inbox' \in Seq(Requests) /\ mail' \in [Clients -> Seq(Answers)]
    <3>1. CASE \E i \in 1 .. Len(inbox) : inbox' = RemoveAt(inbox, i) /\ UNCHANGED mail
      BY <2>1, <3>1, RemoveAtType
    <3>2. CASE /\ \E c \in Clients : \E i \in 1 .. Len(mail[c]) :
                    mail' = [mail EXCEPT ![c] = RemoveAt(@, i)]
               /\ UNCHANGED inbox
      <4>0. PICK c \in Clients : \E i \in 1 .. Len(mail[c]) :
              mail' = [mail EXCEPT ![c] = RemoveAt(@, i)]
        BY <3>2
      <4>1. PICK i \in 1 .. Len(mail[c]) : mail' = [mail EXCEPT ![c] = RemoveAt(@, i)]
        BY <4>0
      <4>2. RemoveAt(mail[c], i) \in Seq(Answers)
        BY <2>1, RemoveAtType
      <4> QED
        BY <2>1, <3>2, <4>1, <4>2
    <3>3. CASE \E i \in 1 .. Len(inbox) : inbox' = Deliver(inbox, inbox[i]) /\ UNCHANGED mail
      BY <2>1, <3>3, DeliverType, ElementOfSeq
    <3>4. CASE /\ \E c \in Clients : \E i \in 1 .. Len(mail[c]) :
                    mail' = [mail EXCEPT ![c] = Deliver(@, mail[c][i])]
               /\ UNCHANGED inbox
      <4>0. PICK c \in Clients : \E i \in 1 .. Len(mail[c]) :
              mail' = [mail EXCEPT ![c] = Deliver(@, mail[c][i])]
        BY <3>4
      <4>1. PICK i \in 1 .. Len(mail[c]) : mail' = [mail EXCEPT ![c] = Deliver(@, mail[c][i])]
        BY <4>0
      <4>2. Deliver(mail[c], mail[c][i]) \in Seq(Answers)
        BY <2>1, DeliverType, ElementOfSeq
      <4> QED
        BY <2>1, <3>4, <4>1, <4>2
    <3> QED
      BY <1>8, <3>1, <3>2, <3>3, <3>4 DEF Lose, Duplicate
  <2>3. InProgress'
    BY <1>0, <2>0 DEF InProgress, client, Queries
  <2> QED
    BY <1>0, <2>0, <2>2, <2>3, <1>a DEF IInv, TypeOK, client, daemon, past
<1>9. CASE Restart
  <2>1. inbox' \in Seq(Requests)
    BY <1>9 DEF Restart
  <2>2. UNCHANGED <<site, client, mail, core, past>> /\ pending' = -1
    BY <1>9 DEF Restart
  <2>3. InProgress'
    BY <1>0, <2>2 DEF InProgress, client, Queries
  <2> QED
    BY <1>0, <2>1, <2>2, <2>3, <1>a DEF IInv, TypeOK, client, past
<1>10. CASE UNCHANGED vars
  <2>1. InProgress'
    BY <1>0, <1>10 DEF InProgress, vars, client, Queries
  <2> QED
    BY <1>0, <1>10, <2>1, <1>a DEF IInv, TypeOK, vars, client, daemon, past
<1> QED
  BY <1>1, <1>2, <1>3, <1>4, <1>5, <1>6, <1>7, <1>8, <1>9, <1>10 DEF Next, Answered

LEMMA Inductive == Spec => []IInv
  BY InitIInv, NextIInv, PTL DEF Spec

\* Whatever the network does, only requests and answers are in the sockets, no
\* client counts more attempts than it has, and the core is in a gear that the
\* daemon knows.
THEOREM TypeCorrect == Spec => []TypeOK
<1>1. IInv => TypeOK
  BY DEF IInv
<1> QED
  BY Inductive, <1>1, PTL

-----------------------------------------------------------------------------
(* Which answers can be trusted.                                           *)

\* A call that was made has been counted.
Counted == \A c \in Clients : call[c] # Failed => calls[c] >= 1

\* The core's gear is one that every client has seen which made a call.
CoreSeen == \A c \in Clients : calls[c] >= 1 => core \in seen[c]

\* No request comes from the socket of a call that is still to be made.
SocketsUsed ==
    site.perCall => \A i \in 1 .. Len(inbox) : inbox[i].from[2] <= calls[inbox[i].from[1]]

From(c) == {i \in 1 .. Len(inbox) : inbox[i].from[1] = c}

\* On a network without faults a client that never timed out has sent its
\* request once: it is in the daemon's socket, or answered, or given up.
SentOnce ==
    site.faults = {} => \A c \in Clients \ timedOut :
        /\ Idle(c) => From(c) = {} /\ mail[c] = <<>>
        /\ Len(mail[c]) <= 1
        /\ \A i, j \in From(c) : i = j /\ mail[c] = <<>>

Trusted(c) == site.perCall \/ (site.faults = {} /\ c \notin timedOut)

\* What the daemon may still answer to the current socket of a client is the
\* current call, and an answer that is there tells a gear the core had in it.
OwnRequests(c) ==
    \A i \in 1 .. Len(inbox) : inbox[i].from = Socket(c, calls[c]) => inbox[i].type = call[c].type
OwnMail(c) ==
    call[c].type = "SSD_GET_SPEED" =>
        \A j \in 1 .. Len(mail[c]) : mail[c][j].type = "SSD_ACK" => mail[c][j].gear \in seen[c]
OwnAnswer(c) ==
    Idle(c) /\ call[c].type = "SSD_GET_SPEED" /\ answer[c].type = "SSD_ACK" => answer[c].gear \in seen[c]

OwnAnswers == \A c \in Clients : Trusted(c) => OwnRequests(c) /\ OwnMail(c) /\ OwnAnswer(c)

AnswersInv == Counted /\ CoreSeen /\ SocketsUsed /\ SentOnce /\ OwnAnswers

LEMMA InitAnswers == Init => AnswersInv
  BY DEF Init, AnswersInv, Counted, CoreSeen, SocketsUsed, SentOnce, OwnAnswers, OwnRequests, OwnMail,
         OwnAnswer, From, Idle, Failed

\* The datagrams in a queue after one was delivered to it.
LEMMA DeliverElements ==
    ASSUME NEW S, NEW queue \in Seq(S), NEW m \in S
    PROVE  /\ Len(Deliver(queue, m)) \in Nat /\ Len(queue) \in Nat
           /\ \A j \in 1 .. Len(Deliver(queue, m)) :
                 \/ j \in 1 .. Len(queue) /\ Deliver(queue, m)[j] = queue[j]
                 \/ j = Len(queue) + 1 /\ Deliver(queue, m)[j] = m
<1>1. CASE Deliver(queue, m) = queue
  BY <1>1
<1>2. CASE Deliver(queue, m) = Append(queue, m)
  <2>1. /\ Len(queue) \in Nat /\ Len(Append(queue, m)) = Len(queue) + 1
        /\ \A j \in 1 .. Len(queue) : Append(queue, m)[j] = queue[j]
        /\ Append(queue, m)[Len(queue) + 1] = m
    OBVIOUS
  <2> QED
    BY <1>2, <2>1
<1> QED
  BY <1>1, <1>2 DEF Deliver

\* A request as it gets into the daemon's socket.
LEMMA RequestElements ==
    ASSUME TypeOK, NEW c \in Clients, NEW nth \in Nat, NEW m \in Queries, Request(c, nth, m)
    PROVE  /\ Len(inbox) \in Nat /\ Len(inbox') \in Nat
           /\ \A j \in 1 .. Len(inbox') :
                 \/ j \in 1 .. Len(inbox) /\ inbox'[j] = inbox[j]
                 \/ /\ j = Len(inbox) + 1
                    /\ inbox'[j].from = Socket(c, nth) /\ inbox'[j].type = m.type /\ inbox'[j].gear = m.gear
<1> DEFINE request == [from |-> Socket(c, nth), type |-> m.type, gear |-> m.gear]
<1>1. request \in Requests /\ inbox \in Seq(Requests)
  BY DEF TypeOK, Socket, Queries, Requests
<1>2. /\ Len(Deliver(inbox, request)) \in Nat /\ Len(inbox) \in Nat
      /\ \A j \in 1 .. Len(Deliver(inbox, request)) :
            \/ j \in 1 .. Len(inbox) /\ Deliver(inbox, request)[j] = inbox[j]
            \/ j = Len(inbox) + 1 /\ Deliver(inbox, request)[j] = request
  BY <1>1, DeliverElements
<1>3. inbox' = Deliver(inbox, request)
  BY DEF Request
<1>4. request.from = Socket(c, nth) /\ request.type = m.type /\ request.gear = m.gear
  OBVIOUS
<1> QED
  BY <1>2, <1>3, <1>4

\* The senders of the requests about.
LEMMA SendersType ==
    ASSUME TypeOK, NEW i \in 1 .. Len(inbox)
    PROVE  /\ inbox[i] \in Requests /\ inbox[i].from[1] \in Clients /\ inbox[i].from[2] \in Nat
           /\ inbox[i].from = <<inbox[i].from[1], inbox[i].from[2]>>
<1>1. inbox[i] \in Requests
  BY ElementOfSeq DEF TypeOK
<1>2. inbox[i].from \in Clients \X Nat
  BY <1>1 DEF Requests
<1> QED
  BY <1>1, <1>2

\* A call begins with a socket that no request in the daemon's socket comes from, if
\* its client is to be trusted, and with no answer in its own.
LEMMA BeginAnswers ==
    ASSUME IInv, AnswersInv, NEW c \in Clients, NEW m \in Queries, Begin(c, m)
    PROVE  AnswersInv'
<1>0. /\ TypeOK /\ site' = site /\ core' = core /\ timedOut' = timedOut /\ answer' = answer /\ Idle(c)
      /\ core \in Gears /\ inbox \in Seq(Requests)
  BY DEF IInv, TypeOK, Begin, daemon
<1>c. /\ calls \in [Clients -> Nat] /\ calls' = [calls EXCEPT ![c] = @ + 1] /\ calls'[c] \in Nat
      /\ waiting' = [waiting EXCEPT ![c] = TRUE] /\ waiting \in [Clients -> BOOLEAN]
      /\ call' = [call EXCEPT ![c] = m] /\ call \in [Clients -> Queries \cup {Failed}]
      /\ seen' = [seen EXCEPT ![c] = {core}] /\ seen \in [Clients -> SUBSET Gears]
      /\ mail' = (IF site.perCall THEN [mail EXCEPT ![c] = <<>>] ELSE mail)
      /\ mail \in [Clients -> Seq(Answers)]
  BY <1>0 DEF TypeOK, Begin
<1>r. /\ Len(inbox) \in Nat /\ Len(inbox') \in Nat
      /\ \A j \in 1 .. Len(inbox') :
            \/ j \in 1 .. Len(inbox) /\ inbox'[j] = inbox[j]
            \/ j = Len(inbox) + 1 /\ inbox'[j].from = Socket(c, calls'[c]) /\ inbox'[j].type = m.type
  BY <1>0, <1>c, RequestElements DEF Begin
<1>f. \A i \in 1 .. Len(inbox) : inbox[i].from[1] \in Clients /\ inbox[i].from[2] \in Nat
  BY <1>0, SendersType
<1>s. /\ Socket(c, calls'[c])[1] = c
      /\ Socket(c, calls'[c])[2] = IF site.perCall THEN calls'[c] ELSE 0
      /\ \A d \in Clients : d # c => Socket(c, calls'[c]) # Socket(d, calls[d])
  BY DEF Socket
<1>1. Counted'
  BY <1>c DEF AnswersInv, Counted
<1>2. CoreSeen'
  BY <1>0, <1>c DEF AnswersInv, CoreSeen
<1>3. SocketsUsed'
  <2> SUFFICES ASSUME site.perCall, NEW j \in 1 .. Len(inbox')
               PROVE  inbox'[j].from[2] <= calls'[inbox'[j].from[1]]
    BY <1>0 DEF SocketsUsed
  <2>1. CASE j \in 1 .. Len(inbox) /\ inbox'[j] = inbox[j]
    <3>1. inbox[j].from[2] <= calls[inbox[j].from[1]]
      BY <2>1 DEF AnswersInv, SocketsUsed
    <3>2. calls[inbox[j].from[1]] <= calls'[inbox[j].from[1]]
      BY <1>c, <1>f, <2>1
    <3> QED
      BY <1>c, <1>f, <2>1, <3>1, <3>2
  <2>2. CASE inbox'[j].from = Socket(c, calls'[c])
    BY <1>c, <1>s, <2>2
  <2> QED
    BY <1>r, <2>1, <2>2
<1>4. SentOnce'
  <2> SUFFICES ASSUME site.faults = {}, NEW d \in Clients \ timedOut
               PROVE  /\ Idle(d)' => From(d)' = {} /\ mail'[d] = <<>>
                      /\ Len(mail'[d]) <= 1
                      /\ \A i, j \in From(d)' : i = j /\ mail'[d] = <<>>
    BY <1>0 DEF SentOnce
  <2>0. /\ Idle(d) => From(d) = {} /\ mail[d] = <<>>
        /\ Len(mail[d]) <= 1
        /\ \A i, j \in From(d) : i = j /\ mail[d] = <<>>
    BY DEF AnswersInv, SentOnce
  <2>1. CASE d = c
    <3>1. From(d) = {} /\ mail[d] = <<>>
      BY <1>0, <2>0, <2>1
    <3>2. \A i \in From(d)' : i = Len(inbox) + 1
      BY <1>r, <2>1, <3>1 DEF From
    <3>3. mail'[d] = <<>> /\ ~Idle(d)'
      BY <1>c, <2>1, <3>1 DEF Idle
    <3> QED
      BY <3>2, <3>3
  <2>2. CASE d # c
    <3>1. \A i \in From(d)' : i \in From(d)
      BY <1>r, <1>s, <2>2 DEF From
    <3>2. mail'[d] = mail[d] /\ waiting'[d] = waiting[d]
      BY <1>c, <2>2
    <3> QED
      BY <2>0, <3>1, <3>2 DEF Idle
  <2> QED
    BY <2>1, <2>2
<1>5. OwnAnswers'
  <2> SUFFICES ASSUME NEW d \in Clients, Trusted(d)
               PROVE  OwnRequests(d)' /\ OwnMail(d)' /\ OwnAnswer(d)'
    BY <1>0 DEF OwnAnswers, Trusted
  <2>0. OwnRequests(d) /\ OwnMail(d) /\ OwnAnswer(d)
    BY DEF AnswersInv, OwnAnswers
  <2>1. CASE d = c
    <3>1. mail'[c] = <<>>
      <4>1. CASE site.perCall
        BY <1>c, <4>1
      <4>2. CASE ~site.perCall
        BY <1>0, <1>c, <2>1, <4>2 DEF Trusted, AnswersInv, SentOnce
      <4> QED
        BY <4>1, <4>2
    <3>2. \A i \in 1 .. Len(inbox) : inbox[i].from # Socket(c, calls'[c])
      <4>1. CASE site.perCall
        <5> SUFFICES ASSUME NEW i \in 1 .. Len(inbox), inbox[i].from = Socket(c, calls'[c]) PROVE FALSE
          OBVIOUS
        <5>1. inbox[i].from[1] = c /\ inbox[i].from[2] = calls'[c]
          BY <1>s, <4>1
        <5>2. inbox[i].from[2] <= calls[c]
          BY <4>1, <5>1 DEF AnswersInv, SocketsUsed
        <5> QED
          BY <1>c, <5>1, <5>2
      <4>2. CASE ~site.perCall
        <5>1. From(c) = {}
          BY <1>0, <2>1, <4>2 DEF Trusted, AnswersInv, SentOnce
        <5>2. \A i \in 1 .. Len(inbox) : inbox[i].from[1] # c
          BY <5>1 DEF From
        <5> QED
          BY <1>s, <5>2
      <4> QED
        BY <4>1, <4>2
    <3>3. OwnRequests(c)'
      <4>1. Socket(c, calls[c])' = Socket(c, calls'[c]) /\ call'[c] = m
        BY <1>0, <1>c DEF Socket
      <4> QED
        BY <1>r, <3>2, <4>1 DEF OwnRequests
    <3>4. OwnMail(c)' /\ OwnAnswer(c)'
      BY <1>c, <3>1 DEF OwnMail, OwnAnswer, Idle
    <3> QED
      BY <2>1, <3>3, <3>4
  <2>2. CASE d # c
    <3>1. /\ mail'[d] = mail[d] /\ waiting'[d] = waiting[d] /\ calls'[d] = calls[d]
          /\ call'[d] = call[d] /\ seen'[d] = seen[d] /\ answer'[d] = answer[d]
      BY <1>0, <1>c, <2>2
    <3>2. Socket(d, calls[d])' = Socket(d, calls[d])
      BY <1>0, <3>1 DEF Socket
    <3>3. OwnRequests(d)'
      BY <1>r, <1>s, <2>0, <2>2, <3>1, <3>2 DEF OwnRequests
    <3> QED
      BY <2>0, <3>1, <3>3 DEF OwnMail, OwnAnswer, Idle
  <2> QED
    BY <2>1, <2>2
<1> QED
  BY <1>1, <1>2, <1>3, <1>4, <1>5 DEF AnswersInv

\* Repeating a request changes nothing for a socket of its own, and a client that
\* has timed out is no longer among the others.
LEMMA TimeoutAnswers ==
    ASSUME IInv, AnswersInv, NEW c \in Clients, Timeout(c)
    PROVE  AnswersInv'
<1>0. /\ TypeOK /\ UNCHANGED <<site, call, calls, mail, core, seen>> /\ timedOut' = timedOut \cup {c}
      /\ waiting[c] /\ call[c] \in Queries /\ calls[c] \in Nat /\ Len(inbox) \in Nat
      /\ waiting \in [Clients -> BOOLEAN] /\ answer \in [Clients -> Answers \cup {Failed}]
  BY DEF IInv, InProgress, TypeOK, Timeout, daemon
<1>w. /\ \A d \in Clients : d # c => waiting'[d] = waiting[d] /\ answer'[d] = answer[d]
      /\ (answer'[c] = answer[c] /\ waiting'[c]) \/ answer'[c] = Failed
      /\ \A d \in Clients : waiting'[d] => waiting[d]
  BY <1>0 DEF Timeout, Return
<1>r. \A j \in 1 .. Len(inbox') :
          \/ j \in 1 .. Len(inbox) /\ inbox'[j] = inbox[j]
          \/ j = Len(inbox) + 1 /\ inbox'[j].from = Socket(c, calls[c]) /\ inbox'[j].type = call[c].type
  <2>1. CASE Request(c, calls[c], call[c])
    BY <1>0, <2>1, RequestElements
  <2>2. CASE UNCHANGED inbox
    BY <2>2
  <2> QED
    BY <2>1, <2>2 DEF Timeout
<1>f. \A i \in 1 .. Len(inbox) : inbox[i].from[1] \in Clients /\ inbox[i].from[2] \in Nat
  BY <1>0, SendersType
<1>s. /\ Socket(c, calls[c])[1] = c
      /\ Socket(c, calls[c])[2] = IF site.perCall THEN calls[c] ELSE 0
      /\ \A d \in Clients : d # c => Socket(c, calls[c]) # Socket(d, calls[d])
      /\ \A d \in Clients : Socket(d, calls[d])' = Socket(d, calls[d])
  BY <1>0 DEF Socket
<1>1. Counted' /\ CoreSeen'
  BY <1>0, <1>w DEF AnswersInv, Counted, CoreSeen
<1>2. SocketsUsed'
  BY <1>0, <1>r, <1>s DEF AnswersInv, SocketsUsed
<1>3. SentOnce'
  <2> SUFFICES ASSUME site.faults = {}, NEW d \in Clients \ timedOut, d # c
               PROVE  /\ Idle(d)' => From(d)' = {} /\ mail'[d] = <<>>
                      /\ Len(mail'[d]) <= 1
                      /\ \A i, j \in From(d)' : i = j /\ mail'[d] = <<>>
    BY <1>0 DEF SentOnce
  <2>1. /\ Idle(d) => From(d) = {} /\ mail[d] = <<>>
        /\ Len(mail[d]) <= 1
        /\ \A i, j \in From(d) : i = j /\ mail[d] = <<>>
    BY DEF AnswersInv, SentOnce
  <2>2. \A i \in From(d)' : i \in From(d)
    BY <1>r, <1>s DEF From
  <2> QED
    BY <1>0, <1>w, <2>1, <2>2 DEF Idle
<1>4. OwnAnswers'
  <2> SUFFICES ASSUME NEW d \in Clients, Trusted(d)'
               PROVE  OwnRequests(d)' /\ OwnMail(d)' /\ OwnAnswer(d)'
    BY DEF OwnAnswers
  <2>1. OwnRequests(d) /\ OwnMail(d) /\ OwnAnswer(d)
    BY <1>0 DEF AnswersInv, OwnAnswers, Trusted
  <2>2. OwnRequests(d)'
    BY <1>0, <1>r, <1>s, <2>1 DEF OwnRequests
  <2>3. OwnMail(d)'
    BY <1>0, <2>1 DEF OwnMail
  <2>4. OwnAnswer(d)'
    BY <1>0, <1>w, <2>1 DEF OwnAnswer, Idle, Failed
  <2> QED
    BY <2>2, <2>3, <2>4
<1> QED
  BY <1>1, <1>2, <1>3, <1>4 DEF AnswersInv

\* Whatever is in the sockets after a step was there before it.
Elsewhere ==
    /\ \A i \in 1 .. Len(inbox') : \E k \in 1 .. Len(inbox) : inbox'[i] = inbox[k]
    /\ \A c \in Clients : \A i \in 1 .. Len(mail'[c]) :
          \E k \in 1 .. Len(mail[c]) : mail'[c][i] = mail[c][k]

\* A fault of the network.
LEMMA FaultAnswers ==
    ASSUME IInv, AnswersInv, Elsewhere, site.faults # {}, UNCHANGED <<site, client, core, past>>
    PROVE  AnswersInv'
<1>0. UNCHANGED <<call, waiting, answer, calls, seen, timedOut>>
  BY DEF client, past
<1>1. Counted' /\ CoreSeen' /\ SentOnce'
  BY <1>0 DEF AnswersInv, Counted, CoreSeen, SentOnce
<1>2. SocketsUsed'
  BY <1>0 DEF AnswersInv, SocketsUsed, Elsewhere
<1>3. ASSUME NEW c \in Clients, Trusted(c)
      PROVE  OwnRequests(c)' /\ OwnMail(c)' /\ OwnAnswer(c)'
  <2>1. OwnRequests(c) /\ OwnMail(c) /\ OwnAnswer(c)
    BY <1>3 DEF AnswersInv, OwnAnswers
  <2>2. Socket(c, calls[c])' = Socket(c, calls[c])
    BY <1>0 DEF Socket
  <2>3. OwnRequests(c)'
    BY <1>0, <2>1, <2>2 DEF OwnRequests, Elsewhere
  <2>4. OwnMail(c)'
    <3> SUFFICES ASSUME call[c].type = "SSD_GET_SPEED", NEW j \in 1 .. Len(mail'[c]),
                        mail'[c][j].type = "SSD_ACK"
                 PROVE  mail'[c][j].gear \in seen[c]
      BY <1>0 DEF OwnMail
    <3>1. PICK k \in 1 .. Len(mail[c]) : mail'[c][j] = mail[c][k]
      BY DEF Elsewhere
    <3> QED
      BY <2>1, <3>1 DEF OwnMail
  <2>5. OwnAnswer(c)'
    BY <1>0, <2>1 DEF OwnAnswer, Idle
  <2> QED
    BY <2>3, <2>4, <2>5
<1>4. OwnAnswers'
  BY <1>0, <1>3 DEF OwnAnswers, Trusted
<1> QED
  BY <1>1, <1>2, <1>4 DEF AnswersInv

\* An answer of the daemon: the request it answers is the current call of a
\* client to be trusted, which has seen the core's gear.
LEMMA ServeAnswers ==
    ASSUME IInv, AnswersInv, Serve
    PROVE  AnswersInv'
<1>0. /\ TypeOK /\ UNCHANGED <<site, call, waiting, answer, calls, core, seen, timedOut>>
      /\ inbox \in Seq(Requests) /\ Len(inbox) \in Nat /\ mail \in [Clients -> Seq(Answers)]
      /\ call \in [Clients -> Queries \cup {Failed}]
  BY DEF IInv, TypeOK, Serve, client, past
<1>1. PICK i \in 1 .. Len(inbox) :
        (ServeSet(inbox[i]) \/ ServeGet(inbox[i])) /\ inbox' = RemoveAt(inbox, i)
  BY DEF Serve
<1> DEFINE c == inbox[i].from[1]
<1>2. c \in Clients
  BY <1>0, SendersType
<1>3. /\ Len(inbox') = Len(inbox) - 1
      /\ \A j \in 1 .. Len(inbox) - 1 : inbox'[j] = IF j < i THEN inbox[j] ELSE inbox[j + 1]
  BY <1>0, <1>1, RemoveAtElements
<1>p. ASSUME NEW j \in 1 .. Len(inbox')
      PROVE  LET k == IF j < i THEN j ELSE j + 1
             IN  k \in 1 .. Len(inbox) /\ k # i /\ inbox'[j] = inbox[k]
  BY <1>0, <1>3
<1>e. \A j \in 1 .. Len(inbox') : \E k \in 1 .. Len(inbox) : inbox'[j] = inbox[k]
  BY <1>p
<1>4. PICK m : /\ Reply(inbox[i].from, m) /\ m \in Answers
               /\ inbox[i].type = "SSD_GET_SPEED" /\ m.type = "SSD_ACK" => m.gear = core
  <2>1. CASE ServeSet(inbox[i])
    <3>0. inbox[i] \in Requests /\ site \in Sites
      BY <1>0, SendersType DEF TypeOK
    <3>1. inbox[i].gear \in Int
      BY <3>0, SiteType DEF Requests
    <3>2. (IF valid(inbox[i].gear) THEN ACK(inbox[i].gear) ELSE NAK) \in Answers
      BY <3>1, DaemonAssumption DEF Answers, ACK, NAK, valid, Gears
    <3> QED
      BY <2>1, <3>2 DEF ServeSet
  <2>2. CASE ServeGet(inbox[i])
    BY <1>0, <2>2 DEF ServeGet, Answers, ACK, NAK, TypeOK
  <2> QED
    BY <1>1, <2>1, <2>2
<1>5. /\ \A d \in Clients : d # c => mail'[d] = mail[d]
      /\ mail'[c] = mail[c]
         \/ /\ inbox[i].from = Socket(c, calls[c])
            /\ mail'[c] = Deliver(mail[c], m)
  BY <1>0, <1>2, <1>4 DEF Reply
<1>6. \A j \in 1 .. Len(mail'[c]) :
          \/ j \in 1 .. Len(mail[c]) /\ mail'[c][j] = mail[c][j]
          \/ /\ inbox[i].from = Socket(c, calls[c])
             /\ j = Len(mail[c]) + 1 /\ mail'[c][j] = m
  <2>1. mail[c] \in Seq(Answers) /\ m \in Answers
    BY <1>0, <1>2, <1>4
  <2> HIDE DEF c
  <2>2. \A j \in 1 .. Len(Deliver(mail[c], m)) :
            \/ j \in 1 .. Len(mail[c]) /\ Deliver(mail[c], m)[j] = mail[c][j]
            \/ j = Len(mail[c]) + 1 /\ Deliver(mail[c], m)[j] = m
    BY <2>1, DeliverElements
  <2> QED
    BY <1>5, <2>2
<1>l. Len(mail'[c]) <= Len(mail[c]) + 1 /\ Len(mail[c]) \in Nat /\ Len(mail'[c]) \in Nat
  <2>1. mail[c] \in Seq(Answers) /\ m \in Answers
    BY <1>0, <1>2, <1>4
  <2> HIDE DEF c
  <2>2. Deliver(mail[c], m) \in {mail[c], Append(mail[c], m)}
    BY DEF Deliver
  <2>3. Len(Append(mail[c], m)) = Len(mail[c]) + 1 /\ Len(mail[c]) \in Nat
    BY <2>1
  <2> QED
    BY <1>5, <2>2, <2>3
<1> HIDE DEF c
<1>7. Counted' /\ CoreSeen'
  BY <1>0 DEF AnswersInv, Counted, CoreSeen
<1>8. SocketsUsed'
  BY <1>0, <1>e DEF AnswersInv, SocketsUsed
<1>9. SentOnce'
  <2> SUFFICES ASSUME site.faults = {}, NEW d \in Clients \ timedOut
               PROVE  /\ Idle(d)' => From(d)' = {} /\ mail'[d] = <<>>
                      /\ Len(mail'[d]) <= 1
                      /\ \A j, k \in From(d)' : j = k /\ mail'[d] = <<>>
    BY <1>0 DEF SentOnce
  <2>1. /\ Idle(d) => From(d) = {} /\ mail[d] = <<>>
        /\ Len(mail[d]) <= 1
        /\ \A j, k \in From(d) : j = k /\ mail[d] = <<>>
    BY DEF AnswersInv, SentOnce
  <2>2. CASE d = c
    <3>1. i \in From(d)
      BY <2>2 DEF From, c
    <3>2. ~Idle(d) /\ mail[d] = <<>>
      BY <2>1, <3>1
    <3>3. From(d)' = {}
      <4> SUFFICES ASSUME NEW j \in From(d)' PROVE FALSE
        OBVIOUS
      <4>1. PICK k \in 1 .. Len(inbox) : k # i /\ inbox'[j] = inbox[k]
        BY <1>p DEF From
      <4>2. k \in From(d)
        BY <4>1 DEF From
      <4> QED
        BY <2>1, <3>1, <4>1, <4>2
    <3>4. Len(mail'[d]) <= 1
      BY <1>l, <2>2, <3>2
    <3> QED
      BY <1>0, <3>2, <3>3, <3>4 DEF Idle
  <2>3. CASE d # c
    <3>1. mail'[d] = mail[d]
      BY <1>5, <2>3
    <3>2. \A j \in From(d)' : (IF j < i THEN j ELSE j + 1) \in From(d)
      BY <1>p DEF From
    <3>3. \A j \in From(d)' : j \in Nat
      BY DEF From
    <3>4. ASSUME NEW j \in From(d)', NEW k \in From(d)' PROVE j = k /\ mail'[d] = <<>>
      <4>1. (IF j < i THEN j ELSE j + 1) = (IF k < i THEN k ELSE k + 1) /\ mail[d] = <<>>
        BY <2>1, <3>2
      <4> QED
        BY <3>1, <3>3, <4>1
    <3>5. From(d) = {} => From(d)' = {}
      BY <3>2
    <3> QED
      BY <1>0, <2>1, <3>1, <3>4, <3>5 DEF Idle
  <2> QED
    BY <2>2, <2>3
<1>10. ASSUME NEW d \in Clients, Trusted(d)
       PROVE  OwnRequests(d)' /\ OwnMail(d)' /\ OwnAnswer(d)'
  <2>1. OwnRequests(d) /\ OwnMail(d) /\ OwnAnswer(d)
    BY <1>10 DEF AnswersInv, OwnAnswers
  <2>2. Socket(d, calls[d])' = Socket(d, calls[d])
    BY <1>0 DEF Socket
  <2>3. OwnRequests(d)'
    BY <1>0, <1>e, <2>1, <2>2 DEF OwnRequests
  <2>4. OwnAnswer(d)'
    BY <1>0, <2>1 DEF OwnAnswer, Idle
  <2>5. OwnMail(d)'
    <3> SUFFICES ASSUME call[d].type = "SSD_GET_SPEED", NEW j \in 1 .. Len(mail'[d]),
                        mail'[d][j].type = "SSD_ACK"
                 PROVE  mail'[d][j].gear \in seen[d]
      BY <1>0 DEF OwnMail
    <3>1. CASE j \in 1 .. Len(mail[d]) /\ mail'[d][j] = mail[d][j]
      BY <2>1, <3>1 DEF OwnMail
    <3>2. CASE d = c /\ inbox[i].from = Socket(c, calls[c]) /\ mail'[d][j] = m
      <4>1. inbox[i].type = "SSD_GET_SPEED"
        BY <2>1, <3>2 DEF OwnRequests
      <4>2. core \in seen[d]
        BY <1>0 DEF AnswersInv, Counted, CoreSeen, Failed
      <4> QED
        BY <1>4, <3>2, <4>1, <4>2
    <3> QED
      BY <1>5, <1>6, <3>1, <3>2
  <2> QED
    BY <2>3, <2>4, <2>5
<1>11. OwnAnswers'
  BY <1>0, <1>10 DEF OwnAnswers, Trusted
<1> QED
  BY <1>7, <1>8, <1>9, <1>11 DEF AnswersInv

LEMMA NextAnswers == IInv /\ AnswersInv /\ [Next]_vars => AnswersInv'
<1> SUFFICES ASSUME IInv, AnswersInv, [Next]_vars PROVE AnswersInv'
  OBVIOUS
<1>0. /\ TypeOK /\ inbox \in Seq(Requests) /\ mail \in [Clients -> Seq(Answers)]
      /\ answer \in [Clients -> Answers \cup {Failed}] /\ waiting \in [Clients -> BOOLEAN]
  BY DEF IInv, TypeOK
<1>1. ASSUME NEW c \in Clients, ss_setGearRemote(c) PROVE AnswersInv'
  <2>1. PICK g \in site.asked : Begin(c, [type |-> "SSD_SET_SPEED", gear |-> g])
    BY <1>1 DEF ss_setGearRemote
  <2> QED
    BY <2>1, BeginAnswers DEF Queries, Kinds
<1>2. ASSUME NEW c \in Clients, ss_getGearRemote(c) PROVE AnswersInv'
  BY <1>2, BeginAnswers DEF ss_getGearRemote, Queries, Kinds
<1>3. ASSUME NEW c \in Clients, Receive(c) PROVE AnswersInv'
  <2>0. /\ UNCHANGED <<site, call, calls, inbox, core, seen, timedOut>> /\ waiting[c]
        /\ mail[c] \in Seq(Answers) /\ mail[c] # <<>> /\ mail' = [mail EXCEPT ![c] = Tail(@)]
        /\ waiting' = [waiting EXCEPT ![c] = FALSE]
        /\ answer' = [answer EXCEPT ![c] = IF Head(mail[c]).type = "SSD_ACK" THEN Head(mail[c]) ELSE Failed]
    BY <1>0, <1>3 DEF Receive, Return, daemon, past
  <2>1. /\ Len(mail[c]) \in Nat \ {0} /\ Len(Tail(mail[c])) = Len(mail[c]) - 1
        /\ \A j \in 1 .. Len(mail[c]) - 1 : Tail(mail[c])[j] = mail[c][j + 1]
        /\ Head(mail[c]) = mail[c][1] /\ Tail(mail[c]) \in Seq(Answers)
    BY <2>0, HeadTailProperties
  <2>2. Counted' /\ CoreSeen' /\ SocketsUsed'
    BY <2>0 DEF AnswersInv, Counted, CoreSeen, SocketsUsed
  <2>3. SentOnce'
    <3> SUFFICES ASSUME site.faults = {}, NEW d \in Clients \ timedOut
                 PROVE  /\ Idle(d)' => From(d) = {} /\ mail'[d] = <<>>
                        /\ Len(mail'[d]) <= 1
                        /\ \A i, j \in From(d) : i = j /\ mail'[d] = <<>>
      BY <2>0 DEF SentOnce, From
    <3>1. /\ Idle(d) => From(d) = {} /\ mail[d] = <<>>
          /\ Len(mail[d]) <= 1
          /\ \A i, j \in From(d) : i = j /\ mail[d] = <<>>
      BY DEF AnswersInv, SentOnce
    <3>2. CASE d = c
      <4>1. From(d) = {}
        BY <2>0, <3>1, <3>2
      <4>2. mail'[d] = Tail(mail[c]) /\ Len(Tail(mail[c])) = 0
        BY <1>0, <2>0, <2>1, <3>1, <3>2
      <4>3. mail'[d] = <<>>
        BY <2>1, <4>2, EmptySeq
      <4>4. Len(mail'[d]) <= 1
        BY <4>2
      <4> QED
        BY <4>1, <4>3, <4>4
    <3>3. CASE d # c
      <4>1. mail'[d] = mail[d] /\ waiting'[d] = waiting[d]
        BY <1>0, <2>0, <3>3
      <4> QED
        BY <3>1, <4>1 DEF Idle
    <3> QED
      BY <3>2, <3>3
  <2>4. ASSUME NEW d \in Clients, Trusted(d)
        PROVE  OwnRequests(d)' /\ OwnMail(d)' /\ OwnAnswer(d)'
    <3>1. OwnRequests(d) /\ OwnMail(d) /\ OwnAnswer(d)
      BY <2>4 DEF AnswersInv, OwnAnswers
    <3>2. OwnRequests(d)'
      BY <2>0, <3>1 DEF OwnRequests, Socket
    <3>3. CASE d = c
      <4>1. OwnMail(d)'
        BY <1>0, <2>0, <2>1, <3>1, <3>3 DEF OwnMail
      <4>2. OwnAnswer(d)'
        <5> SUFFICES ASSUME call[c].type = "SSD_GET_SPEED", answer'[c].type = "SSD_ACK"
                     PROVE  answer'[c].gear \in seen[c]
          BY <2>0, <3>3 DEF OwnAnswer
        <5>1. answer'[c] = mail[c][1] /\ 1 \in 1 .. Len(mail[c])
          BY <1>0, <2>0, <2>1 DEF Failed
        <5> QED
          BY <3>1, <3>3, <5>1 DEF OwnMail
      <4> QED
        BY <3>2, <4>1, <4>2
    <3>4. CASE d # c
      <4>1. mail'[d] = mail[d] /\ waiting'[d] = waiting[d] /\ answer'[d] = answer[d]
        BY <1>0, <2>0, <3>4
      <4> QED
        BY <2>0, <3>1, <3>2, <4>1 DEF OwnMail, OwnAnswer, Idle
    <3> QED
      BY <3>3, <3>4
  <2>5. OwnAnswers'
    BY <2>0, <2>4 DEF OwnAnswers, Trusted
  <2> QED
    BY <2>2, <2>3, <2>5 DEF AnswersInv
<1>4. ASSUME NEW c \in Clients, Timeout(c) PROVE AnswersInv'
  BY <1>4, TimeoutAnswers
<1>5. ASSUME NEW c \in Clients, Interrupted(c) PROVE AnswersInv'
  <2>0. /\ UNCHANGED <<site, call, calls, inbox, mail, core, seen>> /\ site.faults # {}
        /\ timedOut' = timedOut \cup {c}
        /\ waiting' = [waiting EXCEPT ![c] = FALSE] /\ answer' = [answer EXCEPT ![c] = Failed]
    BY <1>5 DEF Interrupted, Return, daemon
  <2>1. Counted' /\ CoreSeen' /\ SocketsUsed' /\ SentOnce'
    BY <2>0 DEF AnswersInv, Counted, CoreSeen, SocketsUsed, SentOnce
  <2>2. ASSUME NEW d \in Clients, Trusted(d)
        PROVE  OwnRequests(d)' /\ OwnMail(d)' /\ OwnAnswer(d)'
    <3>1. OwnRequests(d) /\ OwnMail(d) /\ OwnAnswer(d)
      BY <2>2 DEF AnswersInv, OwnAnswers
    <3>2. OwnRequests(d)' /\ OwnMail(d)'
      BY <2>0, <3>1 DEF OwnRequests, OwnMail, Socket
    <3>3. OwnAnswer(d)'
      BY <1>0, <2>0, <3>1 DEF OwnAnswer, Idle, Failed
    <3> QED
      BY <3>2, <3>3
  <2>3. OwnAnswers'
    BY <2>0, <2>2 DEF OwnAnswers, Trusted
  <2> QED
    BY <2>1, <2>3 DEF AnswersInv
<1>6. CASE Serve
  BY <1>6, ServeAnswers
<1>7. CASE SetSpeed
  <2>0. /\ UNCHANGED <<site, call, waiting, answer, calls, inbox, mail, timedOut>>
        /\ seen' = [c \in Clients |-> seen[c] \cup {core'}]
    BY <1>7 DEF SetSpeed, client
  <2>1. Counted' /\ SocketsUsed' /\ SentOnce' /\ CoreSeen'
    BY <2>0 DEF AnswersInv, Counted, CoreSeen, SocketsUsed, SentOnce, From, Idle
  <2>2. ASSUME NEW d \in Clients, Trusted(d)
        PROVE  OwnRequests(d)' /\ OwnMail(d)' /\ OwnAnswer(d)'
    <3>1. OwnRequests(d) /\ OwnMail(d) /\ OwnAnswer(d)
      BY <2>2 DEF AnswersInv, OwnAnswers
    <3> QED
      BY <2>0, <3>1 DEF OwnRequests, OwnMail, OwnAnswer, Socket, Idle
  <2>3. OwnAnswers'
    BY <2>0, <2>2 DEF OwnAnswers, Trusted
  <2> QED
    BY <2>1, <2>3 DEF AnswersInv
<1>8. CASE Lose \/ Duplicate \/ Restart
  <2>1. site.faults # {} /\ UNCHANGED <<site, client, core, past>>
    BY <1>8 DEF Lose, Duplicate, Restart, daemon
  <2>2. Elsewhere
    <3>1. CASE \E i \in 1 .. Len(inbox) : inbox' = RemoveAt(inbox, i) /\ UNCHANGED mail
      <4>1. PICK i \in 1 .. Len(inbox) : inbox' = RemoveAt(inbox, i)
        BY <3>1
      <4>2. \A j \in 1 .. Len(RemoveAt(inbox, i)) :
              \E k \in 1 .. Len(inbox) : RemoveAt(inbox, i)[j] = inbox[k]
        BY <1>0, RemoveAtType
      <4> QED
        BY <3>1, <4>1, <4>2, Zenon DEF Elsewhere
    <3>2. CASE /\ \E c \in Clients : \E i \in 1 .. Len(mail[c]) :
                    mail' = [mail EXCEPT ![c] = RemoveAt(@, i)]
               /\ UNCHANGED inbox
      <4>0. PICK c \in Clients : \E i \in 1 .. Len(mail[c]) :
              mail' = [mail EXCEPT ![c] = RemoveAt(@, i)]
        BY <3>2
      <4>1. PICK i \in 1 .. Len(mail[c]) : mail' = [mail EXCEPT ![c] = RemoveAt(@, i)]
        BY <4>0
      <4>2. \A j \in 1 .. Len(RemoveAt(mail[c], i)) :
              \E k \in 1 .. Len(mail[c]) : RemoveAt(mail[c], i)[j] = mail[c][k]
        BY <1>0, RemoveAtType
      <4> QED
        <5>1. /\ \A d \in Clients : d # c => mail'[d] = mail[d]
              /\ \A j \in 1 .. Len(mail'[c]) : \E k \in 1 .. Len(mail[c]) : mail'[c][j] = mail[c][k]
          BY <1>0, <4>1, <4>2
        <5> QED
          BY <3>2, <5>1, Zenon DEF Elsewhere
    <3>3. CASE \E i \in 1 .. Len(inbox) : inbox' = Deliver(inbox, inbox[i]) /\ UNCHANGED mail
      BY <1>0, <3>3, DeliverElements, ElementOfSeq DEF Elsewhere
    <3>4. CASE /\ \E c \in Clients : \E i \in 1 .. Len(mail[c]) :
                    mail' = [mail EXCEPT ![c] = Deliver(@, mail[c][i])]
               /\ UNCHANGED inbox
      <4>0. PICK c \in Clients : \E i \in 1 .. Len(mail[c]) :
              mail' = [mail EXCEPT ![c] = Deliver(@, mail[c][i])]
        BY <3>4
      <4>1. PICK i \in 1 .. Len(mail[c]) : mail' = [mail EXCEPT ![c] = Deliver(@, mail[c][i])]
        BY <4>0
      <4>2. mail[c] \in Seq(Answers) /\ mail[c][i] \in Answers
        BY <1>0, ElementOfSeq
      <4>3. \A j \in 1 .. Len(Deliver(mail[c], mail[c][i])) :
              \E k \in 1 .. Len(mail[c]) : Deliver(mail[c], mail[c][i])[j] = mail[c][k]
        BY <4>2, DeliverElements
      <4> QED
        <5>1. /\ \A d \in Clients : d # c => mail'[d] = mail[d]
              /\ \A j \in 1 .. Len(mail'[c]) : \E k \in 1 .. Len(mail[c]) : mail'[c][j] = mail[c][k]
          BY <1>0, <4>1, <4>3
        <5> QED
          BY <3>4, <5>1, Zenon DEF Elsewhere
    <3>5. CASE inbox' = <<>> /\ UNCHANGED mail
      BY <3>5 DEF Elsewhere
    <3> QED
      BY <1>8, <3>1, <3>2, <3>3, <3>4, <3>5 DEF Lose, Duplicate, Restart
  <2> QED
    BY <2>1, <2>2, FaultAnswers
<1>9. CASE UNCHANGED vars
  BY <1>9 DEF vars, client, daemon, past, AnswersInv, Counted, CoreSeen, SocketsUsed, SentOnce, OwnAnswers,
              OwnRequests, OwnMail, OwnAnswer, Trusted, Socket, From, Idle
<1> QED
  BY <1>1, <1>2, <1>3, <1>4, <1>5, <1>6, <1>7, <1>8, <1>9 DEF Next, Answered

LEMMA AnswersInvariant == Spec => [](IInv /\ AnswersInv)
<1>1. Init => IInv /\ AnswersInv
  BY InitIInv, InitAnswers
<1>2. IInv /\ AnswersInv /\ [Next]_vars => IInv' /\ AnswersInv'
  BY NextIInv, NextAnswers
<1> QED
  BY <1>1, <1>2, PTL DEF Spec

\* Without faults, the query of a client none of whose attempts has timed out
\* returns a gear that the core had during the query.
THEOREM AnswersInTime == Spec => []FirstAnswersAreFresh
<1>1. AnswersInv => FirstAnswersAreFresh
  BY DEF AnswersInv, OwnAnswers, OwnAnswer, Trusted, FirstAnswersAreFresh, QueriesAreFresh
<1> QED
  BY AnswersInvariant, <1>1, PTL

\* With a socket for each call so does every query, over any network.
THEOREM AnswersOfOwnSocket == Spec => []OwnSocketTellsGear
<1>1. AnswersInv => OwnSocketTellsGear
  BY DEF AnswersInv, OwnAnswers, OwnAnswer, Trusted, OwnSocketTellsGear, QueriesAreFresh
<1> QED
  BY AnswersInvariant, <1>1, PTL

-----------------------------------------------------------------------------
(* The gear the core ends up in.                                           *)

\* The valid requests of a queue to set a gear; the core will be in the gear of
\* the last one when all is done that is in the daemon's socket and hands.
Sets(queue) == {i \in 1 .. Len(queue) : queue[i].type = "SSD_SET_SPEED" /\ queue[i].gear \in Gears}
EndsIn(g) ==
    \/ \E j \in Sets(inbox) : inbox[j].gear = g /\ \A k \in Sets(inbox) : k <= j
    \/ Sets(inbox) = {} /\ g = IF pending # -1 THEN pending ELSE core

WantedIsAsked ==
    \A c \in Clients :
        waiting[c] /\ call[c].type = "SSD_SET_SPEED" /\ call[c].gear \in Gears => wanted[c] = call[c].gear

\* The attempts of n calls of each client, and those used up: no more requests
\* than that are about.
Attempts(n) == Clients \X ((1 .. n) \X (0 .. site.retries - 1))
Used(n) ==
    {a \in Attempts(n) : \/ a[2][1] < calls[a[1]]
                         \/ a[2][1] = calls[a[1]] /\ a[2][2] <= try[a[1]]}

Enough(n) == n \in Nat /\ \A c \in Clients : site.calls[c] <= n

RequestsCounted ==
    site.faults = {} => \A n \in Nat : Enough(n) => Len(inbox) <= Cardinality(Used(n))

EndsAsWanted ==
    site.faults = {} /\ (\E c \in Clients : wanted[c] # -1) => \E c \in Clients : EndsIn(wanted[c])

OrderInv == Counted /\ WantedIsAsked /\ RequestsCounted /\ EndsAsWanted

LEMMA AttemptsFinite ==
    ASSUME RoomForAll, TypeOK, NEW n \in Nat
    PROVE  /\ IsFiniteSet(Attempts(n)) /\ Cardinality(Attempts(n)) = Cardinality(Clients) * (n * site.retries)
           /\ IsFiniteSet(Used(n)) /\ Cardinality(Used(n)) \in Nat
<1>1. site.retries \in Nat \ {0}
  BY SiteType DEF TypeOK
<1>2. IsFiniteSet(1 .. n) /\ Cardinality(1 .. n) = n
  BY FS_Interval
<1>3. IsFiniteSet(0 .. site.retries - 1) /\ Cardinality(0 .. site.retries - 1) = site.retries
  <2> DEFINE last == site.retries - 1
  <2>1. last \in Int /\ ~(0 > last) /\ last - 0 + 1 = site.retries /\ 0 \in Int
    BY <1>1
  <2> HIDE DEF last
  <2>2. IsFiniteSet(0 .. last) /\ Cardinality(0 .. last) = IF 0 > last THEN 0 ELSE last - 0 + 1
    BY <2>1, FS_Interval
  <2>3. IsFiniteSet(0 .. last) /\ Cardinality(0 .. last) = site.retries
    BY <2>1, <2>2
  <2> QED
    BY <2>3 DEF last
<1>4. /\ IsFiniteSet((1 .. n) \X (0 .. site.retries - 1))
      /\ Cardinality((1 .. n) \X (0 .. site.retries - 1)) = n * site.retries
  <2> DEFINE A == 1 .. n
             B == 0 .. site.retries - 1
  <2>1. IsFiniteSet(A) /\ Cardinality(A) = n /\ IsFiniteSet(B) /\ Cardinality(B) = site.retries
    BY <1>2, <1>3
  <2> HIDE DEF A, B
  <2>2. IsFiniteSet(A \X B) /\ Cardinality(A \X B) = n * site.retries
    BY <2>1, FS_Product
  <2> QED
    BY <2>2 DEF A, B
<1>5. IsFiniteSet(Attempts(n)) /\ Cardinality(Attempts(n)) = Cardinality(Clients) * (n * site.retries)
  BY <1>4, FS_Product DEF RoomForAll, Attempts
<1>6. Used(n) \in SUBSET Attempts(n)
  BY DEF Used
<1>7. IsFiniteSet(Used(n))
  BY <1>5, <1>6, FS_Subset
<1>8. Cardinality(Used(n)) \in Nat
  BY <1>7, FS_CardinalityType
<1> QED
  BY <1>5, <1>7, <1>8

\* An attempt that is still unused leaves room for its request, and using it up counts it.
LEMMA RequestFits ==
    ASSUME RoomForAll, TypeOK, TypeOK', site' = site, RequestsCounted, site.faults = {},
           NEW c \in Clients, NEW nth \in Nat, NEW m \in Queries, Request(c, nth, m),
           NEW k \in Nat, k < site.retries, nth \in 1 .. site.calls[c],
           \A n \in Nat : <<c, <<nth, k>>>> \notin Used(n),
           \A n \in Nat : Enough(n) => Used(n) \cup {<<c, <<nth, k>>>>} \subseteq Used(n)'
    PROVE  /\ inbox' = Append(inbox, [from |-> Socket(c, nth), type |-> m.type, gear |-> m.gear])
           /\ RequestsCounted'
<1> DEFINE a == <<c, <<nth, k>>>>
           request == [from |-> Socket(c, nth), type |-> m.type, gear |-> m.gear]
<1>0. /\ site \in Sites /\ inbox \in Seq(Requests) /\ Len(inbox) \in Nat /\ site.buffer \in Nat
      /\ site.retries \in Nat /\ site.calls \in [Clients -> Nat]
  <2>1. site \in Sites /\ inbox \in Seq(Requests)
    BY DEF TypeOK
  <2>2. Len(inbox) \in Nat
    BY <2>1
  <2> QED
    BY <2>1, <2>2, SiteType
<1>1. ASSUME NEW n \in Nat, Enough(n)
      PROVE  /\ Len(inbox) + 1 <= Cardinality(Used(n)')
             /\ Len(inbox) + 1 <= Cardinality(Attempts(n))
  <2>1. a \in Attempts(n)
    BY <1>0, <1>1 DEF Attempts, Enough
  <2>2. /\ IsFiniteSet(Attempts(n)) /\ IsFiniteSet(Used(n)) /\ Cardinality(Used(n)) \in Nat
        /\ Used(n) \in SUBSET Attempts(n) /\ a \notin Used(n)
    BY AttemptsFinite DEF Used
  <2>3. /\ IsFiniteSet(Used(n) \cup {a})
        /\ Cardinality(Used(n) \cup {a}) = Cardinality(Used(n)) + 1
    BY <2>2, FS_AddElement
  <2>4. Attempts(n)' = Attempts(n) /\ Used(n)' \in SUBSET Attempts(n)
    BY DEF Attempts, Used
  <2>5. IsFiniteSet(Used(n)') /\ Cardinality(Used(n) \cup {a}) <= Cardinality(Used(n)')
    BY <1>1, <2>2, <2>4, FS_Subset
  <2>6. Cardinality(Used(n)') <= Cardinality(Attempts(n)) /\ Cardinality(Attempts(n)) \in Nat
        /\ Cardinality(Used(n)') \in Nat
    BY <2>2, <2>4, <2>5, FS_Subset, FS_CardinalityType
  <2>7. Len(inbox) <= Cardinality(Used(n))
    BY <1>1 DEF RequestsCounted
  <2> HIDE DEF a
  <2> QED
    BY <1>0, <2>2, <2>3, <2>5, <2>6, <2>7
<1>2. Len(inbox) < site.buffer
  <2>0. PICK n \in 0 .. site.buffer :
             /\ \A d \in Clients : site.calls[d] <= n
             /\ Cardinality(Clients) * (n * site.retries) <= site.buffer
    BY <1>0, Zenon DEF RoomForAll
  <2>1. n \in Nat /\ Enough(n) /\ Cardinality(Clients) * (n * site.retries) <= site.buffer
    <3>1. n \in Nat
      BY <1>0
    <3> QED
      BY <2>0, <3>1 DEF Enough
  <2>2. Cardinality(Attempts(n)) <= site.buffer
    BY <2>1, AttemptsFinite
  <2>3. Len(inbox) + 1 <= Cardinality(Attempts(n)) /\ Cardinality(Attempts(n)) \in Nat
    BY <1>1, <2>1, AttemptsFinite, FS_CardinalityType DEF Enough
  <2> QED
    BY <1>0, <2>2, <2>3
<1>3. inbox' = Append(inbox, request)
  BY <1>2 DEF Request, Deliver
<1>4. Len(inbox') = Len(inbox) + 1
  <2>1. request \in Requests
    BY DEF Requests, Queries, Socket
  <2> QED
    BY <1>0, <1>3, <2>1
<1>5. RequestsCounted'
  BY <1>1, <1>4 DEF RequestsCounted, Enough
<1> QED
  BY <1>3, <1>5

LEMMA InitOrder == Init => OrderInv
<1> SUFFICES ASSUME Init PROVE OrderInv
  OBVIOUS
<1>1. Counted /\ WantedIsAsked
  BY DEF Init, Counted, WantedIsAsked
<1>2. RequestsCounted
  <2> SUFFICES ASSUME site.faults = {}, NEW n \in Nat, Enough(n)
               PROVE  0 <= Cardinality(Used(n))
    BY DEF Init, RequestsCounted
  <2>1. \A a \in Attempts(n) : a \notin Used(n)
    BY DEF Init, Used, Attempts
  <2>2. Used(n) = {}
    BY <2>1 DEF Used
  <2> QED
    BY <2>2, FS_EmptySet
<1>3. EndsAsWanted
  BY DEF Init, EndsAsWanted
<1> QED
  BY <1>1, <1>2, <1>3 DEF OrderInv

\* Adding a request at the end: if it sets a gear, the core ends in that one.
LEMMA EndsInAppended ==
    ASSUME inbox \in Seq(Requests), NEW m \in Requests, inbox' = Append(inbox, m),
           UNCHANGED <<pending, core>>
    PROVE  IF m.type = "SSD_SET_SPEED" /\ m.gear \in Gears THEN EndsIn(m.gear)'
           ELSE \A g : EndsIn(g) => EndsIn(g)'
<1>1. /\ Len(inbox) \in Nat /\ Len(inbox') = Len(inbox) + 1
      /\ \A j \in 1 .. Len(inbox) : inbox'[j] = inbox[j]
      /\ inbox'[Len(inbox) + 1] = m
  OBVIOUS
<1>2. \A j : j \in 1 .. Len(inbox') <=> j \in 1 .. Len(inbox) \/ j = Len(inbox) + 1
  BY <1>1
<1>3. CASE m.type = "SSD_SET_SPEED" /\ m.gear \in Gears
  <2>1. Len(inbox) + 1 \in Sets(inbox)' /\ \A k \in Sets(inbox)' : k <= Len(inbox) + 1
    BY <1>1, <1>3 DEF Sets
  <2> QED
    BY <1>1, <1>3, <2>1 DEF EndsIn
<1>4. CASE ~(m.type = "SSD_SET_SPEED" /\ m.gear \in Gears)
  <2>1. Sets(inbox)' = Sets(inbox)
    BY <1>1, <1>2, <1>4 DEF Sets
  <2>2. \A j \in Sets(inbox) : inbox'[j] = inbox[j]
    BY <1>1 DEF Sets
  <2> QED
    BY <1>4, <2>1, <2>2 DEF EndsIn
<1> QED
  BY <1>3, <1>4

\* A call begins: its gear becomes the one wanted, and the core ends in it.
LEMMA BeginOrder ==
    ASSUME RoomForAll, IInv, IInv', OrderInv, NEW c \in Clients, NEW m \in Queries, Begin(c, m),
           m.type = "SSD_GET_SPEED" => m.gear \notin Gears
    PROVE  OrderInv'
<1>0. /\ TypeOK /\ TypeOK' /\ site' = site /\ UNCHANGED <<pending, core>> /\ Idle(c)
      /\ calls \in [Clients -> Nat] /\ try \in [Clients -> 0 .. site.retries] /\ inbox \in Seq(Requests)
      /\ calls' = [calls EXCEPT ![c] = @ + 1] /\ calls[c] < site.calls[c]
      /\ try' = [try EXCEPT ![c] = 0] /\ waiting' = [waiting EXCEPT ![c] = TRUE]
      /\ call' = [call EXCEPT ![c] = m] /\ call \in [Clients -> Queries \cup {Failed}]
      /\ waiting \in [Clients -> BOOLEAN] /\ wanted \in [Clients -> Gears \cup {-1}]
      /\ wanted' = (IF m.gear \in Gears THEN [wanted EXCEPT ![c] = m.gear] ELSE wanted)
      /\ Request(c, calls[c] + 1, m)
      /\ site.retries \in Nat \ {0} /\ site.calls[c] \in Nat
  BY SiteType DEF IInv, TypeOK, Begin, daemon
<1>1. Counted'
  BY <1>0 DEF OrderInv, Counted
<1>2. WantedIsAsked'
  BY <1>0 DEF OrderInv, WantedIsAsked
<1> DEFINE request == [from |-> Socket(c, calls[c] + 1), type |-> m.type, gear |-> m.gear]
<1>3. site.faults = {} => RequestsCounted' /\ inbox' = Append(inbox, request)
  <2> SUFFICES ASSUME site.faults = {} PROVE RequestsCounted' /\ inbox' = Append(inbox, request)
    OBVIOUS
  <2>1. \A n \in Nat : <<c, <<calls[c] + 1, 0>>>> \notin Used(n)
    BY <1>0 DEF Used
  <2>2. ASSUME NEW n \in Nat, Enough(n)
        PROVE  Used(n) \cup {<<c, <<calls[c] + 1, 0>>>>} \subseteq Used(n)'
    <3>1. <<c, <<calls[c] + 1, 0>>>> \in Used(n)'
      BY <1>0, <2>2 DEF Used, Attempts, Enough
    <3>2. ASSUME NEW a \in Used(n) PROVE a \in Used(n)'
      <4>1. a \in Attempts(n) /\ a[1] \in Clients /\ a[2][1] \in Nat /\ a[2][2] \in Nat
        BY <1>0 DEF Used, Attempts
      <4>2. CASE a[1] = c
        BY <1>0, <4>1, <4>2 DEF Used, Attempts
      <4>3. CASE a[1] # c
        BY <1>0, <4>1, <4>3 DEF Used, Attempts
      <4> QED
        BY <4>2, <4>3
    <3> QED
      BY <3>1, <3>2
  <2>3. calls[c] + 1 \in Nat /\ calls[c] + 1 \in 1 .. site.calls[c] /\ 0 < site.retries
    BY <1>0
  <2> HIDE DEF request
  <2> QED
    BY <1>0, <2>1, <2>2, <2>3, RequestFits DEF OrderInv, request
<1>4. EndsAsWanted'
  <2> SUFFICES ASSUME site.faults = {}, \E d \in Clients : wanted'[d] # -1
               PROVE  \E d \in Clients : EndsIn(wanted[d])'
    BY <1>0 DEF EndsAsWanted
  <2>1. request \in Requests
    BY <1>0 DEF Requests, Queries, Socket
  <2>2. /\ inbox' = Append(inbox, request)
        /\ request.type = m.type /\ request.gear = m.gear /\ m.type \in Kinds
    BY <1>3 DEF Queries
  <2> HIDE DEF request
  <2>3. CASE m.type = "SSD_SET_SPEED" /\ m.gear \in Gears
    <3>1. EndsIn(m.gear)'
      BY <1>0, <2>1, <2>2, <2>3, EndsInAppended
    <3>2. wanted'[c] = m.gear
      BY <1>0, <2>3
    <3>3. EndsIn(wanted[c])'
      BY <3>1, <3>2 DEF EndsIn
    <3> QED
      BY <3>3
  <2>4. CASE ~(m.type = "SSD_SET_SPEED" /\ m.gear \in Gears)
    <3>1. \A g : EndsIn(g) => EndsIn(g)'
      BY <1>0, <2>1, <2>2, <2>4, EndsInAppended
    <3>2. wanted' = wanted
      BY <1>0, <2>2, <2>4 DEF Kinds
    <3>3. PICK d \in Clients : EndsIn(wanted[d])
      BY <3>2 DEF OrderInv, EndsAsWanted
    <3> QED
      BY <3>1, <3>2, <3>3 DEF EndsIn
  <2> QED
    BY <2>3, <2>4
<1> QED
  BY <1>0, <1>1, <1>2, <1>3, <1>4 DEF OrderInv, RequestsCounted

\* A request is repeated: the same gear is asked for once more, at the end.
LEMMA TimeoutOrder ==
    ASSUME RoomForAll, IInv, IInv', OrderInv, NEW c \in Clients, Timeout(c)
    PROVE  OrderInv'
<1>0. /\ TypeOK /\ TypeOK' /\ UNCHANGED <<site, call, calls, wanted, pending, core>>
      /\ waiting[c] /\ call[c] \in Queries /\ inbox \in Seq(Requests)
      /\ try \in [Clients -> 0 .. site.retries] /\ try' = [try EXCEPT ![c] = @ + 1]
      /\ calls[c] \in Nat /\ calls[c] <= site.calls[c]
      /\ site.retries \in Nat \ {0} /\ site.calls[c] \in Nat
      /\ waiting \in [Clients -> BOOLEAN] /\ Counted
  BY SiteType DEF IInv, InProgress, TypeOK, Timeout, daemon, OrderInv
<1>c. calls[c] \in 1 .. site.calls[c]
  <2>1. call[c] # Failed
    BY <1>0 DEF Queries, Kinds, Failed
  <2> QED
    BY <1>0, <2>1 DEF Counted
<1>1. Counted'
  BY <1>0 DEF Counted
<1>2. WantedIsAsked'
  BY <1>0 DEF OrderInv, WantedIsAsked, Timeout, Return
<1>u. \A n \in Nat : Used(n) \subseteq Used(n)'
  <2> SUFFICES ASSUME NEW n \in Nat, NEW a \in Used(n) PROVE a \in Used(n)'
    OBVIOUS
  <2>1. a \in Attempts(n) /\ a[1] \in Clients /\ a[2][1] \in Nat /\ a[2][2] \in Nat
    BY <1>0 DEF Used, Attempts
  <2>2. try[a[1]] <= try'[a[1]]
    BY <1>0, <2>1
  <2>3. try[a[1]] \in Int /\ try'[a[1]] \in Int
    BY <1>0, <2>1
  <2> QED
    BY <1>0, <2>1, <2>2, <2>3 DEF Used, Attempts
<1>3. CASE UNCHANGED inbox
  <2>1. RequestsCounted'
    <3> SUFFICES ASSUME site.faults = {}, NEW n \in Nat, Enough(n)
                 PROVE  Len(inbox) <= Cardinality(Used(n)')
      BY <1>0, <1>3 DEF RequestsCounted, Enough
    <3>1. Len(inbox) <= Cardinality(Used(n)) /\ Len(inbox) \in Nat
      BY <1>0 DEF OrderInv, RequestsCounted
    <3>2. IsFiniteSet(Attempts(n)) /\ Cardinality(Used(n)) \in Nat
      BY <1>0, AttemptsFinite
    <3>3. Used(n)' \in SUBSET Attempts(n)
      BY <1>0 DEF Used, Attempts
    <3>4. IsFiniteSet(Used(n)')
      BY <3>2, <3>3, FS_Subset
    <3>5. Cardinality(Used(n)) <= Cardinality(Used(n)') /\ Cardinality(Used(n)') \in Nat
      BY <1>u, <3>4, FS_Subset, FS_CardinalityType
    <3> QED
      BY <3>1, <3>2, <3>5
  <2>2. EndsAsWanted'
    BY <1>0, <1>3 DEF OrderInv, EndsAsWanted, EndsIn, Sets
  <2> QED
    BY <1>1, <1>2, <2>1, <2>2 DEF OrderInv
<1>4. CASE try'[c] < site.retries /\ Request(c, calls[c], call[c]) /\ site.faults = {}
  <2> DEFINE request == [from |-> Socket(c, calls[c]), type |-> call[c].type, gear |-> call[c].gear]
             k == try[c] + 1
  <2>1. k \in Nat /\ k < site.retries /\ \A n \in Nat : <<c, <<calls[c], k>>>> \notin Used(n)
    BY <1>0, <1>4 DEF Used
  <2>2. ASSUME NEW n \in Nat, Enough(n)
        PROVE  Used(n) \cup {<<c, <<calls[c], k>>>>} \subseteq Used(n)'
    <3>1. <<c, <<calls[c], k>>>> \in Used(n)'
      <4>1. <<c, <<calls[c], k>>>> \in Attempts(n)' /\ k <= try'[c] /\ calls'[c] = calls[c]
        BY <1>0, <1>c, <2>1, <2>2 DEF Attempts, Enough
      <4> QED
        BY <4>1 DEF Used
    <3> QED
      BY <1>u, <3>1
  <2> HIDE DEF request, k
  <2>3. RequestsCounted' /\ inbox' = Append(inbox, request)
    BY <1>0, <1>c, <1>4, <2>1, <2>2, RequestFits DEF OrderInv, request
  <2>4. /\ request \in Requests /\ request.type = call[c].type /\ request.gear = call[c].gear
    BY <1>0 DEF Requests, Queries, Socket, request
  <2>5. EndsAsWanted'
    <3> SUFFICES ASSUME \E d \in Clients : wanted[d] # -1
                 PROVE  \E d \in Clients : EndsIn(wanted[d])'
      BY <1>0 DEF EndsAsWanted
    <3>1. CASE call[c].type = "SSD_SET_SPEED" /\ call[c].gear \in Gears
      <4>1. EndsIn(call[c].gear)'
        BY <1>0, <2>3, <2>4, <3>1, EndsInAppended
      <4>2. wanted'[c] = call[c].gear /\ call'[c] = call[c]
        BY <1>0, <3>1 DEF OrderInv, WantedIsAsked
      <4>3. EndsIn(wanted[c])'
        BY <4>1, <4>2 DEF EndsIn
      <4> QED
        BY <4>3
    <3>2. CASE ~(call[c].type = "SSD_SET_SPEED" /\ call[c].gear \in Gears)
      <4>1. \A g : EndsIn(g) => EndsIn(g)'
        BY <1>0, <2>3, <2>4, <3>2, EndsInAppended
      <4>2. PICK d \in Clients : EndsIn(wanted[d])
        BY <1>4 DEF OrderInv, EndsAsWanted
      <4> QED
        BY <1>0, <4>1, <4>2 DEF EndsIn
    <3> QED
      BY <3>1, <3>2
  <2> QED
    BY <1>1, <1>2, <2>3, <2>5 DEF OrderInv
<1>5. CASE site.faults # {}
  BY <1>0, <1>1, <1>2, <1>5 DEF OrderInv, RequestsCounted, EndsAsWanted
<1> QED
  BY <1>3, <1>4, <1>5 DEF Timeout

\* The first request is taken: what was to come after it still does.
LEMMA ServeOrder ==
    ASSUME RoomForAll, IInv, OrderInv, Serve
    PROVE  OrderInv'
<1>0. /\ TypeOK /\ UNCHANGED <<site, call, waiting, calls, try, core, wanted>> /\ pending = -1
      /\ inbox \in Seq(Requests) /\ Len(inbox) \in Nat
  BY DEF IInv, TypeOK, Serve, client, past
<1>u. \A n \in Nat : Used(n)' = Used(n) /\ Enough(n)' = Enough(n)
  BY <1>0 DEF Used, Attempts, Enough
<1>1. Counted' /\ WantedIsAsked'
  BY <1>0 DEF OrderInv, Counted, WantedIsAsked
<1>2. CASE site.faults # {}
  BY <1>0, <1>1, <1>2 DEF OrderInv, RequestsCounted, EndsAsWanted
<1>3. CASE site.faults = {}
  <2>1. /\ 1 \in 1 .. Len(inbox) /\ inbox' = RemoveAt(inbox, 1)
        /\ ServeSet(inbox[1]) \/ ServeGet(inbox[1])
    BY <1>3 DEF Serve
  <2>2. /\ Len(inbox') = Len(inbox) - 1
        /\ \A j \in 1 .. Len(inbox) - 1 : inbox'[j] = inbox[j + 1]
    <3>1. /\ Len(RemoveAt(inbox, 1)) = Len(inbox) - 1
          /\ \A j \in 1 .. Len(inbox) - 1 :
                RemoveAt(inbox, 1)[j] = IF j < 1 THEN inbox[j] ELSE inbox[j + 1]
      BY <1>0, <2>1, RemoveAtElements
    <3>2. \A j \in 1 .. Len(inbox) - 1 : ~(j < 1)
      BY <1>0
    <3> QED
      BY <2>1, <3>1, <3>2
  <2>3. \A j : j \in Sets(inbox)' <=> j \in Nat \ {0} /\ j + 1 \in Sets(inbox)
    BY <1>0, <2>2 DEF Sets
  <2>4. IF 1 \in Sets(inbox) THEN pending' = inbox[1].gear ELSE pending' = -1
    <3>0. inbox[1] \in Requests /\ site \in Sites
      BY <1>0, <2>1, ElementOfSeq DEF TypeOK
    <3>1. inbox[1].gear \in Int
      BY <3>0, SiteType DEF Requests
    <3>2. valid(inbox[1].gear) <=> inbox[1].gear \in Gears
      BY <3>1, DaemonAssumption DEF valid, Gears
    <3> QED
      BY <1>0, <2>1, <3>2 DEF ServeSet, ServeGet, Sets
  <2>5. RequestsCounted'
    <3> SUFFICES ASSUME NEW n \in Nat, Enough(n)
                 PROVE  Len(inbox') <= Cardinality(Used(n))
      BY <1>u DEF RequestsCounted
    <3>1. Len(inbox) <= Cardinality(Used(n)) /\ Cardinality(Used(n)) \in Nat
      BY <1>0, <1>3, AttemptsFinite DEF OrderInv, RequestsCounted
    <3> QED
      BY <1>0, <2>2, <3>1
  <2>6. ASSUME NEW g, EndsIn(g), g # -1 PROVE EndsIn(g)'
    <3>1. CASE Sets(inbox) = {}
      <4>1. Sets(inbox)' = {} /\ pending' = -1 /\ g = core
        BY <1>0, <2>3, <2>4, <2>6, <3>1 DEF EndsIn
      <4> QED
        BY <1>0, <4>1 DEF EndsIn
    <3>2. CASE Sets(inbox) # {}
      <4>1. PICK j \in Sets(inbox) : inbox[j].gear = g /\ \A k \in Sets(inbox) : k <= j
        BY <2>6, <3>2 DEF EndsIn
      <4>2. CASE j = 1
        <5>1. \A k \in Sets(inbox) : k = 1
          BY <4>1, <4>2 DEF Sets
        <5>2. Sets(inbox)' = {}
          <6>1. \A k : k \notin Sets(inbox)'
            BY <2>3, <5>1
          <6> QED
            BY <6>1
        <5>3. pending' = g
          BY <2>4, <4>1, <4>2
        <5> QED
          BY <2>6, <5>2, <5>3 DEF EndsIn
      <4>3. CASE j # 1
        <5>1. j \in Nat /\ j > 1 /\ j \in 1 .. Len(inbox)
          BY <4>1, <4>3 DEF Sets
        <5>2. j - 1 \in Sets(inbox)' /\ inbox'[j - 1] = inbox[j]
          <6>1. (j - 1) + 1 = j /\ j - 1 \in Nat \ {0} /\ j - 1 \in 1 .. Len(inbox) - 1
            BY <1>0, <5>1
          <6>2. j - 1 \in Sets(inbox)'
            BY <2>3, <4>1, <6>1
          <6>3. inbox'[j - 1] = inbox[(j - 1) + 1]
            BY <2>2, <6>1
          <6> QED
            BY <6>1, <6>2, <6>3
        <5>3. \A k \in Sets(inbox)' : k <= j - 1
          BY <2>3, <4>1, <5>1
        <5> QED
          BY <4>1, <5>2, <5>3 DEF EndsIn
      <4> QED
        BY <4>2, <4>3
    <3> QED
      BY <3>1, <3>2
  <2>7. EndsAsWanted'
    <3> SUFFICES ASSUME \E d \in Clients : wanted[d] # -1
                 PROVE  \E d \in Clients : EndsIn(wanted[d])'
      BY <1>0 DEF EndsAsWanted
    <3>1. PICK d \in Clients : EndsIn(wanted[d])
      BY <1>3 DEF OrderInv, EndsAsWanted
    <3>2. wanted[d] # -1
      <4>1. core \in Nat /\ \A j \in Sets(inbox) : inbox[j].gear \in Nat
        BY <1>0 DEF TypeOK, Gears, Sets
      <4> QED
        BY <1>0, <3>1, <4>1 DEF EndsIn
    <3> QED
      BY <1>0, <2>6, <3>1, <3>2 DEF EndsIn
  <2> QED
    BY <1>1, <2>5, <2>7 DEF OrderInv
<1> QED
  BY <1>2, <1>3

LEMMA NextOrder == RoomForAll /\ IInv /\ OrderInv /\ [Next]_vars => OrderInv'
<1> SUFFICES ASSUME RoomForAll, IInv, OrderInv, [Next]_vars PROVE OrderInv'
  OBVIOUS
<1>0. TypeOK /\ IInv'
  BY NextIInv DEF IInv
<1>f. ASSUME UNCHANGED <<site, call, calls, try, wanted>>, \A c \in Clients : waiting'[c] => waiting[c]
      PROVE  /\ Counted' /\ WantedIsAsked'
             /\ UNCHANGED inbox => RequestsCounted'
             /\ UNCHANGED <<inbox, pending, core>> => EndsAsWanted'
  <2>1. Counted' /\ WantedIsAsked'
    BY <1>f DEF OrderInv, Counted, WantedIsAsked
  <2>2. UNCHANGED inbox => RequestsCounted'
    BY <1>f DEF OrderInv, RequestsCounted, Used, Attempts, Enough
  <2>3. UNCHANGED <<inbox, pending, core>> => EndsAsWanted'
    BY <1>f DEF OrderInv, EndsAsWanted, EndsIn, Sets
  <2> QED
    BY <2>1, <2>2, <2>3
<1>1. ASSUME NEW c \in Clients, ss_setGearRemote(c) PROVE OrderInv'
  <2>1. PICK g \in site.asked : Begin(c, [type |-> "SSD_SET_SPEED", gear |-> g])
    BY <1>1 DEF ss_setGearRemote
  <2> QED
    BY <1>0, <2>1, BeginOrder DEF Queries, Kinds
<1>2. ASSUME NEW c \in Clients, ss_getGearRemote(c) PROVE OrderInv'
  <2>1. -1 \notin Gears
    BY DaemonAssumption DEF Gears
  <2> QED
    BY <1>0, <1>2, <2>1, BeginOrder DEF ss_getGearRemote, Queries, Kinds
<1>3. ASSUME NEW c \in Clients, Receive(c) \/ Interrupted(c) PROVE OrderInv'
  BY <1>0, <1>3, <1>f DEF Receive, Interrupted, Return, daemon, past, OrderInv, TypeOK
<1>4. ASSUME NEW c \in Clients, Timeout(c) PROVE OrderInv'
  BY <1>0, <1>4, TimeoutOrder
<1>5. CASE Serve
  BY <1>5, ServeOrder
<1>6. CASE SetSpeed
  <2>1. UNCHANGED <<site, call, calls, try, waiting, inbox, wanted>> /\ pending # -1 /\ pending' = -1
    BY <1>6 DEF SetSpeed, client
  <2>2. EndsAsWanted'
    <3>1. site.faults = {} => core' = pending
      BY <1>6 DEF SetSpeed
    <3>2. ASSUME NEW g, EndsIn(g), core' = pending PROVE EndsIn(g)'
      BY <2>1, <3>2 DEF EndsIn, Sets
    <3> SUFFICES ASSUME site.faults = {}, \E d \in Clients : wanted[d] # -1
                 PROVE  \E d \in Clients : EndsIn(wanted[d])'
      BY <2>1 DEF EndsAsWanted
    <3>3. PICK d \in Clients : EndsIn(wanted[d])
      BY DEF OrderInv, EndsAsWanted
    <3>4. EndsIn(wanted[d])'
      BY <2>1, <3>1, <3>3 DEF EndsIn, Sets
    <3> QED
      BY <3>4
  <2> QED
    BY <1>f, <2>1, <2>2 DEF OrderInv
<1>7. CASE Lose \/ Duplicate \/ Restart
  <2>1. site.faults # {} /\ UNCHANGED <<site, call, calls, try, waiting, wanted>>
    BY <1>7 DEF Lose, Duplicate, Restart, client, past
  <2> QED
    BY <1>f, <2>1 DEF OrderInv, RequestsCounted, EndsAsWanted
<1>8. CASE UNCHANGED vars
  BY <1>8, <1>f DEF vars, client, daemon, past, OrderInv
<1> QED
  BY <1>1, <1>2, <1>3, <1>4, <1>5, <1>6, <1>7, <1>8 DEF Next, Answered

\* When all is quiet on a network without faults, and no datagram was dropped for
\* want of room, the core is in the gear that some client asked for last.
THEOREM LastSetTakesEffect == RoomForAll /\ Spec => []LastSetWins
<1> SUFFICES ASSUME RoomForAll PROVE Spec => []LastSetWins
  OBVIOUS
<1>1. Init => IInv /\ OrderInv
  BY InitIInv, InitOrder
<1>2. IInv /\ OrderInv /\ [Next]_vars => IInv' /\ OrderInv'
  BY NextIInv, NextOrder
<1>3. OrderInv => LastSetWins
  <2> SUFFICES ASSUME OrderInv, site.faults = {}, Quiet, \E c \in Clients : wanted[c] # -1
               PROVE  \E c \in Clients : core = wanted[c]
    BY DEF LastSetWins
  <2>1. PICK c \in Clients : EndsIn(wanted[c])
    BY DEF OrderInv, EndsAsWanted
  <2>2. Sets(inbox) = {} /\ pending = -1
    BY DEF Quiet, Sets
  <2> QED
    BY <2>1, <2>2 DEF EndsIn
<1> QED
  BY <1>1, <1>2, <1>3, PTL DEF Spec

-----------------------------------------------------------------------------
(* The daemon is a GearRegister.                                           *)

pendingGears == {pending} \ {-1}
asked == Asked(inbox) \cup pendingGears

\* What a step may do to the register: add a request of one gear, or take none
\* away without the core moving, or put the core in the gear in hand.
LEMMA NextRegister ==
    IInv /\ [Next]_vars => [Register!Ask \/ Register!TakeEffect \/ Register!Forget]_<<core, asked>>
<1> SUFFICES ASSUME IInv, [Next]_vars
             PROVE  \/ Register!Ask \/ Register!TakeEffect \/ Register!Forget
                    \/ UNCHANGED <<core, asked>>
  OBVIOUS
<1>0. TypeOK /\ inbox \in Seq(Requests) /\ InProgress
  BY DEF IInv, TypeOK
<1>f. ASSUME core' = core, asked' \subseteq asked PROVE Register!Forget
  BY <1>f DEF Register!Forget, asked, pendingGears
<1>r. ASSUME NEW c \in Clients, NEW nth \in Nat, NEW m \in Queries, Request(c, nth, m),
             UNCHANGED <<core, pending>>
      PROVE  Register!Ask \/ UNCHANGED <<core, asked>>
  <2> DEFINE request == [from |-> Socket(c, nth), type |-> m.type, gear |-> m.gear]
  <2>1. request \in Requests /\ request.gear = m.gear
    BY DEF Socket, Queries, Requests
  <2>2. inbox' = Deliver(inbox, request)
    BY <1>r DEF Request
  <2> HIDE DEF request
  <2>3. \/ Asked(inbox') = Asked(inbox)
        \/ m.gear \in Gears /\ Asked(inbox') = Asked(inbox) \cup {m.gear}
    BY <1>0, <2>1, <2>2, AskedAfterDelivery
  <2>4. CASE Asked(inbox') = Asked(inbox)
    BY <1>r, <2>4 DEF asked, pendingGears
  <2>5. CASE m.gear \in Gears /\ Asked(inbox') = Asked(inbox) \cup {m.gear}
    BY <1>r, <2>5 DEF Register!Ask, pendingGears
  <2> QED
    BY <2>3, <2>4, <2>5
<1>b. ASSUME NEW c \in Clients, NEW m \in Queries, Begin(c, m)
      PROVE  Register!Ask \/ UNCHANGED <<core, asked>>
  <2>1. calls'[c] \in Nat
    BY <1>0, <1>b DEF Begin, TypeOK
  <2> QED
    BY <1>b, <1>r, <2>1 DEF Begin, daemon
<1>1. ASSUME NEW c \in Clients, ss_setGearRemote(c) \/ ss_getGearRemote(c)
      PROVE  Register!Ask \/ UNCHANGED <<core, asked>>
  <2>1. CASE ss_setGearRemote(c)
    <3>1. PICK g \in site.asked : Begin(c, [type |-> "SSD_SET_SPEED", gear |-> g])
      BY <2>1 DEF ss_setGearRemote
    <3> QED
      BY <1>b, <3>1 DEF Queries, Kinds
  <2>2. CASE ss_getGearRemote(c)
    BY <1>b, <2>2 DEF ss_getGearRemote, Queries, Kinds
  <2> QED
    BY <1>1, <2>1, <2>2
<1>2. ASSUME NEW c \in Clients, Receive(c) \/ Interrupted(c)
      PROVE  UNCHANGED <<core, asked>>
  BY <1>2 DEF Receive, Interrupted, daemon, asked, pendingGears
<1>3. ASSUME NEW c \in Clients, Timeout(c)
      PROVE  Register!Ask \/ UNCHANGED <<core, asked>>
  <2>1. waiting[c] /\ UNCHANGED <<core, pending>>
    BY <1>3 DEF Timeout, daemon
  <2>2. CASE UNCHANGED inbox
    BY <2>1, <2>2 DEF asked, pendingGears
  <2>3. CASE Request(c, calls[c], call[c])
    BY <1>0, <1>r, <2>1, <2>3 DEF TypeOK, InProgress
  <2> QED
    BY <1>3, <2>2, <2>3 DEF Timeout
<1>4. CASE Serve
  <2>1. PICK i \in 1 .. Len(inbox) :
          (ServeSet(inbox[i]) \/ ServeGet(inbox[i])) /\ inbox' = RemoveAt(inbox, i)
    BY <1>4 DEF Serve
  <2>2. Asked(inbox') \subseteq Asked(inbox)
    BY <1>0, <2>1, AskedAfterRemoval
  <2>3. pendingGears' \subseteq Asked(inbox) \cup pendingGears
    <3>1. CASE ServeSet(inbox[i])
      <4>0. inbox[i] \in Requests /\ site \in Sites
        BY <1>0, ElementOfSeq DEF TypeOK
      <4>1. inbox[i].gear \in Int
        BY <4>0, SiteType DEF Requests
      <4>2. pending' # -1 => pending' = inbox[i].gear /\ inbox[i].gear \in Gears
        BY <3>1, <4>1, DaemonAssumption DEF ServeSet, valid, Gears
      <4> QED
        BY <3>1, <4>2 DEF ServeSet, Asked, pendingGears
    <3>2. CASE ServeGet(inbox[i])
      BY <3>2 DEF ServeGet, pendingGears
    <3> QED
      BY <2>1, <3>1, <3>2
  <2>4. core' = core
    BY <1>4 DEF Serve
  <2> QED
    BY <1>f, <2>2, <2>3, <2>4 DEF asked
<1>5. CASE SetSpeed
  <2>1. pendingGears' = {} /\ pending \in pendingGears /\ inbox' = inbox
    BY <1>5 DEF SetSpeed, pendingGears
  <2>2. asked' \subseteq asked
    BY <2>1 DEF asked
  <2>3. CASE core' = pending
    BY <2>1, <2>2, <2>3 DEF Register!TakeEffect, asked, pendingGears
  <2>4. CASE core' = core
    BY <1>f, <2>2, <2>4
  <2> QED
    BY <1>5, <2>3, <2>4 DEF SetSpeed
<1>6. CASE Lose
  <2>1. core' = core /\ pendingGears' = pendingGears
    BY <1>6 DEF Lose, daemon, pendingGears
  <2>2. Asked(inbox') \subseteq Asked(inbox)
    BY <1>0, <1>6, AskedAfterRemoval DEF Lose
  <2> QED
    BY <1>f, <2>1, <2>2 DEF asked
<1>7. CASE Duplicate
  <2>1. core' = core /\ pendingGears' = pendingGears
    BY <1>7 DEF Duplicate, daemon, pendingGears
  <2>2. Asked(inbox') \subseteq Asked(inbox)
    <3>1. ASSUME NEW i \in 1 .. Len(inbox), inbox' = Deliver(inbox, inbox[i])
          PROVE  Asked(inbox') \subseteq Asked(inbox)
      <4>1. inbox[i] \in Requests
        BY <1>0, ElementOfSeq
      <4>2. inbox[i].type = "SSD_SET_SPEED" /\ inbox[i].gear \in Gears
              => inbox[i].gear \in Asked(inbox)
        BY DEF Asked
      <4> QED
        BY <1>0, <3>1, <4>1, <4>2, AskedAfterDelivery
    <3> QED
      BY <1>7, <3>1 DEF Duplicate
  <2> QED
    BY <1>f, <2>1, <2>2 DEF asked
<1>8. CASE Restart
  <2>1. Asked(inbox') = {} /\ pendingGears' = {} /\ core' = core
    BY <1>8 DEF Restart, Asked, pendingGears
  <2> QED
    BY <1>f, <2>1 DEF asked
<1>9. CASE UNCHANGED vars
  BY <1>9 DEF vars, daemon, asked, pendingGears
<1> QED
  BY <1>1, <1>2, <1>3, <1>4, <1>5, <1>6, <1>7, <1>8, <1>9 DEF Next, Answered

\* Whatever is lost, repeated, reordered or forgotten, the gear of the core
\* changes only to a valid gear of a request that is still about.
THEOREM RegisterKept == Spec => SetsOnlyWhatWasAsked
<1>1. Init => core \in Gears /\ asked = {}
  BY DEF Init, asked, Asked, pendingGears
<1>2. IInv /\ [Next]_vars => [Register!Ask \/ Register!TakeEffect \/ Register!Forget]_<<core, asked>>
  BY NextRegister
<1> QED
  BY Inductive, <1>1, <1>2, PTL DEF Spec, SetsOnlyWhatWasAsked, Register!Spec, asked, pendingGears

=============================================================================
