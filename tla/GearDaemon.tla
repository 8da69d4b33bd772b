----------------------------- MODULE GearDaemon -----------------------------
(***************************************************************************)
(* The Simple Scaling Daemon of jitter-reborn/ssdaemon: one process per    *)
(* node that sets the gear (ssdaemon.c), the library calls of its clients  *)
(* (sscaling.c), and the datagrams between them (common.c).                *)
(*                                                                         *)
(* A call sends its request, waits for an answer and sends the request     *)
(* again when none came in time.  Nothing in a datagram says which request *)
(* it answers.  The library in use has one socket for all calls of its     *)
(* process; the older copy under z/ opens a new one in each call.          *)
(***************************************************************************)
EXTENDS Integers, SequencesExt

CONSTANTS
    Clients,
    numGears,
    Sites           \* the installations considered, records of
                    \*   asked    the gears that clients ask for, not all of them valid
                    \*   calls    bound: client -> how many calls it makes
                    \*   buffer   bound: the datagrams a socket holds; more are dropped
                    \*   faults   subset of {"lose", "duplicate", "reorder", "restart",
                    \*            "sysfs", "signal"}
                    \*   retries  RETRIES of sscaling.h
                    \*   perCall  is it the older library, with a socket per call?

ASSUME DaemonAssumption ==
    /\ numGears \in Nat \ {0}
    /\ \A s \in Sites :
          /\ s.asked \subseteq Int /\ s.calls \in [Clients -> Nat]
          /\ s.buffer \in Nat \ {0} /\ s.retries \in Nat \ {0} /\ s.perCall \in BOOLEAN

VARIABLES
    site,           \* the installation; it stays
    call,           \* client -> the call in progress, or the last one made
    waiting,        \* is it still in progress
    try,            \* the attempts it has used up
    answer,         \* what it returned: a message, or Failed
    calls,          \* how many calls the client has made
    inbox,          \* the daemon's socket: requests, with their senders
    mail,           \* client -> its socket: answers
    pending,        \* the gear whose ACK is sent and that is still to be set, or -1
    core,           \* the gear of the core
    seen,           \* history: client -> gears the core had since its call began
    wanted,         \* history: client -> the last valid gear it asked for, or -1
    timedOut        \* history: the clients of which an attempt has timed out

client == <<call, waiting, try, answer, calls>>
daemon == <<pending, core>>
past   == <<seen, wanted, timedOut>>
vars   == <<site, client, inbox, mail, daemon, past>>

Gears == 0 .. numGears - 1

Failed == [type |-> "none", gear |-> -1]
NAK == [type |-> "SSD_NAK", gear |-> -1]
ACK(g) == [type |-> "SSD_ACK", gear |-> g]

Idle(c) == ~waiting[c]

Init ==
    /\ site \in Sites
    /\ call = [c \in Clients |-> Failed]
    /\ waiting = [c \in Clients |-> FALSE]
    /\ try = [c \in Clients |-> 0]
    /\ answer = [c \in Clients |-> Failed]
    /\ calls = [c \in Clients |-> 0]
    /\ inbox = <<>> /\ mail = [c \in Clients |-> <<>>]
    /\ pending = -1 /\ core \in Gears
    /\ seen = [c \in Clients |-> {}]
    /\ wanted = [c \in Clients |-> -1]
    /\ timedOut = {}

\* A full socket drops the datagram, and sendMessage()'s result is not used.
Deliver(queue, m) == IF Len(queue) < site.buffer THEN Append(queue, m) ELSE queue

-----------------------------------------------------------------------------
(* The library.                                                            *)

\* The sender of a request is a socket: a client's, or that of one call of it.
Socket(c, nth) == <<c, IF site.perCall THEN nth ELSE 0>>

Request(c, nth, m) ==
    inbox' = Deliver(inbox, [from |-> Socket(c, nth), type |-> m.type, gear |-> m.gear])

Begin(c, m) ==
    /\ Idle(c) /\ calls[c] < site.calls[c]
    /\ call' = [call EXCEPT ![c] = m]
    /\ waiting' = [waiting EXCEPT ![c] = TRUE]
    /\ try' = [try EXCEPT ![c] = 0]
    /\ calls' = [calls EXCEPT ![c] = @ + 1]
    /\ Request(c, calls'[c], m)
    /\ mail' = IF site.perCall THEN [mail EXCEPT ![c] = <<>>] ELSE mail
    /\ seen' = [seen EXCEPT ![c] = {core}]
    /\ wanted' = IF m.gear \in Gears THEN [wanted EXCEPT ![c] = m.gear] ELSE wanted
    /\ UNCHANGED <<site, answer, daemon, timedOut>>

ss_setGearRemote(c) == \E g \in site.asked : Begin(c, [type |-> "SSD_SET_SPEED", gear |-> g])
ss_getGearRemote(c) == Begin(c, [type |-> "SSD_GET_SPEED", gear |-> -1])

Return(c, result) ==
    /\ answer' = [answer EXCEPT ![c] = result]
    /\ waiting' = [waiting EXCEPT ![c] = FALSE]

Receive_peek(c) ==   \* (mutant: the answer stays in the socket)
    /\ waiting[c] /\ mail[c] # <<>>
    /\ Return(c, IF Head(mail[c]).type = "SSD_ACK" THEN Head(mail[c]) ELSE Failed)
    /\ UNCHANGED <<site, call, try, calls, inbox, mail, daemon, past>>

\* Whatever datagram comes first is taken for the answer: 0 is returned for
\* an ACK, -1 for a NAK.
Receive(c) ==
    /\ waiting[c] /\ mail[c] # <<>>
    /\ Return(c, IF Head(mail[c]).type = "SSD_ACK" THEN Head(mail[c]) ELSE Failed)
    /\ mail' = [mail EXCEPT ![c] = Tail(@)]
    /\ UNCHANGED <<site, call, try, calls, inbox, daemon, past>>

\* TIMEOUT has passed without an answer: the same request again, or -1 after
\* the last attempt.
Timeout_forever(c) ==   \* (mutant: the attempts are not counted)
    /\ waiting[c] /\ mail[c] = <<>>
    /\ timedOut' = timedOut \cup {c}
    /\ Request(c, calls[c], call[c])
    /\ UNCHANGED <<site, client, mail, daemon, seen, wanted>>

Timeout(c) ==
    /\ waiting[c] /\ mail[c] = <<>>
    /\ timedOut' = timedOut \cup {c}
    /\ try' = [try EXCEPT ![c] = @ + 1]
    /\ IF try'[c] < site.retries
       THEN Request(c, calls[c], call[c]) /\ UNCHANGED <<waiting, answer>>
       ELSE Return(c, Failed) /\ UNCHANGED inbox
    /\ UNCHANGED <<site, call, calls, mail, daemon, seen, wanted>>

\* A signal interrupts select(), which is an error and not a timeout: the
\* call returns -1 at once.
Interrupted(c) ==
    /\ "signal" \in site.faults /\ waiting[c]
    /\ Return(c, Failed)
    /\ timedOut' = timedOut \cup {c}
    /\ UNCHANGED <<site, call, try, calls, inbox, mail, daemon, seen, wanted>>

-----------------------------------------------------------------------------
(* The daemon: one request after the other.                                *)

\* (mutants: the lowest gear is refused, one too many or any below is taken for valid)
valid_positive(g) == g > 0 /\ g < numGears
valid_past(g) == g >= 0 /\ g <= numGears

valid_below(g) == g < numGears

valid(g) == g >= 0 /\ g < numGears

\* Nobody reads the socket of a call that is over.
Reply_any(from, m) ==   \* (mutant: the answer finds the client by its host alone)
    mail' = [mail EXCEPT ![from[1]] = Deliver(@, m)]

Reply(from, m) ==
    mail' = IF from = Socket(from[1], calls[from[1]])
            THEN [mail EXCEPT ![from[1]] = Deliver(@, m)]
            ELSE mail

\* The request is answered first and the gear set afterwards, in SetSpeed.
ServeSet(m) ==
    /\ m.type = "SSD_SET_SPEED"
    /\ Reply(m.from, IF valid(m.gear) THEN ACK(m.gear) ELSE NAK)
    /\ pending' = IF valid(m.gear) THEN m.gear ELSE -1

\* getSpeed() reads the gear back, and may fail to.
ServeGet(m) ==
    /\ m.type = "SSD_GET_SPEED"
    /\ \/ Reply(m.from, ACK(core))
       \/ "sysfs" \in site.faults /\ Reply(m.from, NAK)
    /\ UNCHANGED pending

Serve ==
    /\ pending = -1
    /\ \E i \in 1 .. Len(inbox) :
          /\ i = 1 \/ "reorder" \in site.faults
          /\ ServeSet(inbox[i]) \/ ServeGet(inbox[i])
          /\ inbox' = RemoveAt(inbox, i)
    /\ UNCHANGED <<site, client, core, past>>

\* setSpeed(), whose failure nobody looks at.
SetSpeed ==
    /\ pending # -1
    /\ pending' = -1
    /\ \/ core' = pending
       \/ "sysfs" \in site.faults /\ UNCHANGED core
    /\ seen' = [c \in Clients |-> seen[c] \cup {core'}]
    /\ UNCHANGED <<site, client, inbox, mail, wanted, timedOut>>

-----------------------------------------------------------------------------
(* The network, and a daemon that is killed and started again.             *)

Lose ==
    /\ "lose" \in site.faults
    /\ \/ /\ \E i \in 1 .. Len(inbox) : inbox' = RemoveAt(inbox, i)
          /\ UNCHANGED mail
       \/ /\ \E c \in Clients : \E i \in 1 .. Len(mail[c]) :
                mail' = [mail EXCEPT ![c] = RemoveAt(@, i)]
          /\ UNCHANGED inbox
    /\ UNCHANGED <<site, client, daemon, past>>

Duplicate ==
    /\ "duplicate" \in site.faults
    /\ \/ /\ \E i \in 1 .. Len(inbox) : inbox' = Deliver(inbox, inbox[i])
          /\ UNCHANGED mail
       \/ /\ \E c \in Clients : \E i \in 1 .. Len(mail[c]) :
                mail' = [mail EXCEPT ![c] = Deliver(@, mail[c][i])]
          /\ UNCHANGED inbox
    /\ UNCHANGED <<site, client, daemon, past>>

Restart ==
    /\ "restart" \in site.faults
    /\ inbox' = <<>> /\ pending' = -1
    /\ UNCHANGED <<site, client, mail, core, past>>

Answered(c) == Receive(c) \/ Timeout(c) \/ Interrupted(c)

Next ==
    \/ \E c \in Clients : ss_setGearRemote(c) \/ ss_getGearRemote(c) \/ Answered(c)
    \/ Serve \/ SetSpeed
    \/ Lose \/ Duplicate \/ Restart

\* select() returns within TIMEOUT, with an answer or without.  Nothing is
\* assumed of the daemon and the network.
Spec == Init /\ [][Next]_vars /\ \A c \in Clients : WF_vars(Answered(c))

-----------------------------------------------------------------------------

Kinds    == {"SSD_SET_SPEED", "SSD_GET_SPEED"}
Queries  == [type : Kinds, gear : site.asked \cup {-1}]
Requests == [from : Clients \X Nat, type : Kinds, gear : site.asked \cup {-1}]
Answers  == [type : {"SSD_ACK"}, gear : Gears] \cup {NAK}

TypeOK ==
    /\ site \in Sites
    /\ call \in [Clients -> Queries \cup {Failed}]
    /\ waiting \in [Clients -> BOOLEAN]
    /\ try \in [Clients -> 0 .. site.retries]
    /\ answer \in [Clients -> Answers \cup {Failed}]
    /\ calls \in [Clients -> Nat] /\ \A c \in Clients : calls[c] <= site.calls[c]
    /\ inbox \in Seq(Requests)
    /\ mail \in [Clients -> Seq(Answers)]
    /\ pending \in Gears \cup {-1}
    /\ core \in Gears
    /\ seen \in [Clients -> SUBSET Gears]
    /\ wanted \in [Clients -> Gears \cup {-1}]
    /\ timedOut \subseteq Clients

Quiet == inbox = <<>> /\ pending = -1 /\ \A c \in Clients : Idle(c)

\* Between a client and the daemon of its own node datagrams stay in order and
\* are not lost.  When everything asked for is done, the core is in the gear
\* that some client asked for last, whatever calls were given up as timed out
\* and however often requests were repeated: no late repetition undoes a
\* later call.
LastSetWins ==
    site.faults = {} /\ Quiet /\ (\E c \in Clients : wanted[c] # -1)
        => \E c \in Clients : core = wanted[c]

\* The installations without faults have room in the daemon's socket for every
\* attempt of every call, so that no datagram is dropped.  The proof that
\* LastSetWins holds assumes this.
RoomForAll ==
    /\ IsFiniteSet(Clients)
    /\ \A s \in Sites : s.faults = {} =>
          \E n \in 0 .. s.buffer :
              /\ \A c \in Clients : s.calls[c] <= n
              /\ Cardinality(Clients) * (n * s.retries) <= s.buffer

QueriesAreFresh(clients) ==
    \A c \in clients :
        Idle(c) /\ call[c].type = "SSD_GET_SPEED" /\ answer[c].type = "SSD_ACK"
            => answer[c].gear \in seen[c]

\* As long as no attempt of a client has timed out, and the network keeps order,
\* what its query returns is a gear the core had during the query: an earlier
\* set is seen, and the answer is not another call's.
FirstAnswersAreFresh == site.faults = {} => QueriesAreFresh(Clients \ timedOut)

\* With a socket for each call this holds whatever is lost, repeated, delayed or
\* given up: a late answer goes to a socket that nobody reads.
OwnSocketTellsGear == site.perCall => QueriesAreFresh(Clients)

\* The daemon is a GearRegister over any network: the gear changes only to a
\* valid gear of a request that is in the daemon's socket or hands.
Asked(queue) ==
    {queue[i].gear : i \in {j \in 1 .. Len(queue) :
        queue[j].type = "SSD_SET_SPEED" /\ queue[j].gear \in Gears}}

Register == INSTANCE GearRegister WITH asked <- Asked(inbox) \cup ({pending} \ {-1})

SetsOnlyWhatWasAsked == Register!Spec

\* Whatever is lost, repeated or delayed, every call returns.
CallsReturn == \A c \in Clients : waiting[c] ~> Idle(c)

-----------------------------------------------------------------------------
(* What the repository says and the code does not do.                      *)

\* sscaling.c: a query tells the gear that the target is running in.
QueryTellsGear == QueriesAreFresh(Clients)

=============================================================================
