------------------------------- MODULE Jitter -------------------------------
(***************************************************************************)
(* Jitter, the predecessor of Adagio: once per iteration the program calls *)
(* mpidummy_() - MPI_Pcontrol(0) in the last version - and each rank moves *)
(* its gear by at most one according to its slack, the share of the        *)
(* iteration it spent waiting, beyond that of the busiest rank.  The       *)
(* MPI_Allreduce in there makes an iteration one step of all ranks.        *)
(*                                                                         *)
(* There are five versions: "reborn", jitter/impie.c, and the four under   *)
(* ssdaemon/mpijack-PROTO it was made from.  They differ in what they time,*)
(* in how they tell an iteration that took too long, and in whether        *)
(* mpidummy_() knows of the gears that change_gear() sets at the call      *)
(* sites listed in solution.txt.                                           *)
(***************************************************************************)
EXTENDS JitterGears, Sequences

CONSTANTS
    Programs,      \* what is run, see Program
    Slacks         \* what share of an iteration a rank may wait

Versions == {"new_ok", "working", "mpijack", "PROTO", "reborn"}
Words == {"SHIFT", "TRACE", "TRACE_SHIFT", "MANUAL", "SIMPLE"}
Calls == {"Recv", "Bcast", "Send"}

Program ==
    [version      : Versions,
     LOWEST       : Gears,                   \* 4 in reborn, 6 in the others
     config       : Seq(Words),              \* config.dat
     SKIP         : Nat \ {0},               \* iterations per decision, from options.dat
     MANUAL_GEARS : [Ranks -> Gears],
     solution     : [Ranks -> SUBSET Gears], \* the gears of the call sites a rank passes
     via          : [Ranks -> Calls],        \* the call a rank waits in
     resets       : SUBSET {"bias", "all"},  \* what the program asks jitter to reset
     lengths      : SUBSET [Ranks -> Nat \ {0}]]

ASSUME ProgramAssumption ==
    /\ Programs \subseteq Program
    /\ \A p \in Programs : p.config # <<>> /\ p.lengths # {}
    /\ \A p \in Programs : p.resets # {} => p.version \in {"PROTO", "reborn"}   \* the others have no such calls
    /\ \A p \in Programs : p.version = "PROTO" =>   \* solution.txt names gears of gear.c, whose slowest is LOWEST
          \A r \in Ranks : p.solution[r] \subseteq 0 .. p.LOWEST
    /\ Slacks \subseteq 0 .. 1000

VARIABLES
    program,
    iteration,     \* the calls of mpidummy_(), wrapped modulo SKIP above 4
    rank,          \* the static variables of each rank
    prev_prev,     \* prev_prev_iter_length
    iter_wnd,      \* what a rank's window holds, oldest first
    core,          \* the gear of each rank's core
    ended,
    waited,        \* history: the share each rank waited in its last iteration
    longest        \* history: its longest iteration before that one

measures == <<prev_prev, iter_wnd, waited, longest>>
vars == <<program, iteration, rank, core, ended, measures>>

version == program.version

\* PROTO reads every word of config.dat, and the last one that chooses a mode
\* wins; the others read the first word and know no manual mode.
mode_PROTO(words) ==
    LET modes == {i \in DOMAIN words : words[i] # "TRACE"}
    IN  IF modes = {} THEN "SIMPLE" ELSE words[Max(modes)]
mode_first(words) == IF Head(words) = "TRACE" THEN "SIMPLE" ELSE Head(words)

\* reborn reads no file.
mode ==
    CASE version = "reborn" -> "SHIFT"
      [] version = "PROTO"  -> mode_PROTO(program.config)
      [] OTHER              -> mode_first(program.config)

SHIFT == mode \in {"SHIFT", "TRACE_SHIFT"}
MANUAL == mode = "MANUAL"

\* The wrappers that add their time to total_wait_time; the older ones start
\* and stop no clock around MPI_Bcast, and no version does around MPI_Send.
timed_older == Calls \ {"Send", "Bcast"}
timed_PROTO_none == timed_older   \* (mutant: PROTO does not time MPI_Bcast either)
timed_PROTO == Calls \ {"Send"}
timed == IF version \in {"PROTO", "reborn"} THEN timed_PROTO ELSE timed_older

\* MPI_Init sets gear 0 if gears are to be set at all; "MANUAL" is a mode that
\* the older versions refuse.
Init ==
    /\ program \in Programs
    /\ MANUAL => version = "PROTO"
    /\ iteration = 0
    /\ rank = [r \in Ranks |-> initial]
    /\ prev_prev = [r \in Ranks |-> 0]
    /\ iter_wnd = [r \in Ranks |-> <<>>]
    /\ core \in [Ranks -> Gears]
    /\ SHIFT \/ MANUAL => core = [r \in Ranks |-> 0]
    /\ ended = FALSE
    /\ waited = [r \in Ranks |-> 0]
    /\ longest = [r \in Ranks |-> 0]

-----------------------------------------------------------------------------
(* One rank's decision, after s, on an iteration of the given length.      *)

\* iter_ratio is the length over this one, or THRESHOLD_ITER without one.
iter_base(r) ==
    IF prev_prev[r] = 0 THEN rank[r].previous ELSE Min({rank[r].previous, prev_prev[r]})

\* In reborn the sum runs over the slots that were not written, each of which holds
\* -1, and where there is none the length stands for the mean.
avg_iter_reborn(r, len) ==
    CASE iteration' < 5 -> rank[r].previous
      [] iteration' >= 5 /\ Len(iter_wnd'[r]) < WINDOW_SIZE -> -1
      [] OTHER -> len

total(w) == LET upto[n \in 0 .. Len(w)] == IF n = 0 THEN 0 ELSE upto[n - 1] + w[n] IN upto[Len(w)]

Above_average_unwritten(r, len) == 100 * len > 105 * avg_iter_reborn(r, len)   \* (mutant: as in reborn)

\* The length against THRESHOLD_ITER times avg_iter, the mean of the window.
Above_average(r, len) ==
    IF iteration' < 5 THEN 100 * len > 105 * rank[r].previous
    ELSE 100 * len * Len(iter_wnd'[r]) > 105 * total(iter_wnd'[r])

\* How much harder a slower gear is to leave, and the iter_ratio, in tenths,
\* from which everything starts over; PROTO has that clause in a comment
\* and reborn none.
harder == IF version \in {"new_ok", "working"} THEN 5 ELSE 1
Resets(r, len) ==
    /\ version \notin {"PROTO", "reborn"}
    /\ iter_base(r) # 0
    /\ 10 * len >= (IF version = "working" THEN 25 ELSE 15) * iter_base(r)

Reset(s) == [reset_bias(s, harder) EXCEPT !.current_gear = 0]

\* decreased_last_time is a local variable here, which nothing initializes.
mpidummy_new_ok(r, s, len, net, garbage) ==
    LET t == [s EXCEPT !.decreased = garbage]
        u == IF Resets(r, len) THEN Reset(t)
             ELSE IF garbage /\ iter_base(r) # 0 /\ 100 * len > 105 * iter_base(r) THEN SpeedUp(t)
             ELSE IF Loose(t, net) THEN SlowDown(t, program.LOWEST)
             ELSE Stay(t)
    IN  [u EXCEPT !.decreased = FALSE]

uninitialized == IF version = "new_ok" THEN [Ranks -> BOOLEAN] ELSE {[r \in Ranks |-> FALSE]}

\* The clauses the versions with a window share.
Clauses(s, mispredicted, net) ==
    IF s.decreased /\ mispredicted THEN Return(s)
    ELSE IF Loose(s, net) THEN SlowDown(s, program.LOWEST)
    ELSE IF Tight(s, net) THEN SpeedUp(s)
    ELSE Stay(s)

mpidummy_working(r, s, len, net) ==
    IF Resets(r, len) THEN Reset(s) ELSE Clauses(s, Above_average(r, len), net)

mpidummy_PROTO(r, s, len, net) == Clauses(s, Above_average(r, len), net)

MPI_Pcontrol(r, s, len, net) == Clauses(s, 100 * len > 105 * avg_iter_reborn(r, len), net)

Decide(r, s, len, net, garbage) ==
    CASE version = "new_ok" -> mpidummy_new_ok(r, s, len, net, garbage)
      [] version \in {"working", "mpijack"} -> mpidummy_working(r, s, len, net)
      [] version = "PROTO" -> mpidummy_PROTO(r, s, len, net)
      [] version = "reborn" -> MPI_Pcontrol(r, s, len, net)

-----------------------------------------------------------------------------
(* The actions.                                                            *)

\* The first iteration writes the biases and puts a manual rank in its gear.
begun(r) ==
    LET s == IF SHIFT \/ version \notin {"PROTO", "reborn"} THEN reset_bias(rank[r], harder) ELSE rank[r]
    IN  CASE iteration # 0 -> rank[r]
          [] iteration = 0 /\ MANUAL -> [s EXCEPT !.current_gear = program.MANUAL_GEARS[r]]
          [] OTHER -> s

moved(r) == IF rank'[r].current_gear = rank[r].current_gear THEN core[r] ELSE rank'[r].current_gear

\* Each rank sets its gear; in reborn ss_setGearEx() may fail, which exits, on
\* those that call it.
Shifts(gears, callers) ==
    \/ core' = gears /\ UNCHANGED ended
    \/ /\ version = "reborn"
       /\ \E failed \in SUBSET callers \ {{}} :
         /\ core' = [r \in Ranks |-> IF r \in failed THEN core[r] ELSE gears[r]]
         /\ ended' = TRUE

counted ==
    IF iteration + 1 < 5 + program.SKIP THEN iteration + 1 ELSE iteration + 1 - program.SKIP

\* mpidummy_() between two decisions.
Skip ==
    /\ ~ended
    /\ iteration' = counted
    /\ iteration' % program.SKIP # 0
    /\ rank' = [r \in Ranks |-> begun(r)]
    /\ core' = [r \in Ranks |-> moved(r)]
    /\ UNCHANGED <<program, ended, measures>>

\* total_wait_time over iter_length, and what the all-reduce leaves of it.
measured(r) == IF program.via[r] \in timed THEN waited'[r] ELSE 0
global_min_slack_none == 0   \* (mutant: without the all-reduce)
global_min_slack == Min({measured(r) : r \in Ranks})

\* Only whether a slot was written matters to reborn.
recorded(len) == IF version = "reborn" THEN 1 ELSE len

decision(r, len, garbage) ==
    IF iteration' = 1 \/ ~SHIFT THEN begun(r)
    ELSE Decide(r, rank[r], len, measured(r) - global_min_slack, garbage)

\* Starting over sets gear 0 whatever the gear was.
restart(r, len) == iteration' # 1 /\ SHIFT /\ Resets(r, len)

window(r, len) ==
    LET w == Append(iter_wnd[r], recorded(len)) IN IF Len(w) > WINDOW_SIZE THEN Tail(w) ELSE w

Iterate ==
    /\ ~ended
    /\ iteration' = counted
    /\ iteration' % program.SKIP = 0
    /\ waited' \in [Ranks -> Slacks]
    /\ \E iter_length \in program.lengths, garbage \in uninitialized :
         /\ iter_wnd' = [r \in Ranks |-> window(r, iter_length[r])]
         /\ rank' = [r \in Ranks |->
               [decision(r, iter_length[r], garbage[r]) EXCEPT !.previous = iter_length[r]]]
         /\ LET gears == [r \in Ranks |-> IF restart(r, iter_length[r]) THEN 0 ELSE moved(r)]
            IN  Shifts(gears, {r \in Ranks : gears[r] # core[r]})
    /\ prev_prev' = [r \in Ranks |-> rank[r].previous]
    /\ longest' = [r \in Ranks |-> Max({longest[r], rank[r].previous})]
    /\ UNCHANGED program

change_gear_apart(r) ==   \* (mutant: PROTO too keeps a current_gear of its own)
    /\ ~ended /\ SHIFT /\ version # "reborn"
    /\ \E new_gear \in program.solution[r] : core' = [core EXCEPT ![r] = new_gear]
    /\ UNCHANGED <<program, iteration, rank, ended, measures>>

\* The end of every wrapped call: a call site listed in solution.txt has a gear
\* of its own; reborn has that in a comment.  Only in PROTO is current_gear the variable mpidummy_() uses.
change_gear(r) ==
    /\ ~ended /\ SHIFT /\ version # "reborn"
    /\ \E new_gear \in program.solution[r] :
         /\ core' = [core EXCEPT ![r] = new_gear]
         /\ rank' = IF version = "PROTO" THEN [rank EXCEPT ![r].current_gear = new_gear] ELSE rank
    /\ UNCHANGED <<program, iteration, ended, measures>>

\* mpibody calls reset_bias(10) or reset_all() on every rank after it moved its
\* split point; both do nothing in a run that does not shift.
reset_all ==
    /\ ~ended /\ SHIFT
    /\ \/ /\ "bias" \in program.resets
          /\ rank' = [r \in Ranks |-> reset_bias(rank[r], 1)]
          /\ UNCHANGED <<core, ended>>
       \/ /\ "all" \in program.resets
          /\ rank' = [r \in Ranks |-> [reset_bias(rank[r], 1) EXCEPT !.current_gear = 0]]
          /\ Shifts([r \in Ranks |-> 0], Ranks)
    /\ UNCHANGED <<program, iteration, measures>>

\* Behind a barrier; only a run that shifts goes back to gear 0.  In reborn a
\* rank whose gear cannot be set exits, with the others past MPI_Finalize too.
MPI_Finalize ==
    /\ ~ended
    /\ ended' = TRUE
    /\ IF SHIFT
       THEN \E failed \in IF version = "reborn" THEN SUBSET Ranks ELSE {{}} :
              core' = [r \in Ranks |-> IF r \in failed THEN core[r] ELSE 0]
       ELSE UNCHANGED core
    /\ UNCHANGED <<program, iteration, rank, measures>>

Next == Skip \/ Iterate \/ (\E r \in Ranks : change_gear(r)) \/ reset_all \/ MPI_Finalize

\* The program goes on iterating or ends.
Spec == Init /\ [][Next]_vars /\ WF_vars(Skip \/ Iterate \/ MPI_Finalize)

-----------------------------------------------------------------------------

\* The static variables of every version stay in range: no gear beyond the
\* slowest one, whatever the biases grew to.
TypeOK ==
    /\ program \in Programs
    /\ iteration \in 0 .. 4 + program.SKIP
    /\ rank \in [Ranks -> Static]
    /\ \A r \in Ranks : Len(iter_wnd[r]) <= WINDOW_SIZE
    /\ core \in [Ranks -> Gears]

\* mpidummy_() decides for the gear its core is in, and a manual rank stays in
\* its own, if nothing but mpidummy_() shifts or it shares current_gear.
KnowsItsGear ==
    (SHIFT \/ MANUAL) /\ ~(ended /\ SHIFT) =>
        \A r \in Ranks :
            \/ core[r] = rank[r].current_gear
            \/ version # "PROTO" /\ program.solution[r] # {}

\* Where each rank waits in calls every version times, the rank that the others
\* wait for is never slowed by mpidummy_().
BusiestIsNotSlowed ==
    [][\A r \in Ranks :
         /\ rank'[r].current_gear > rank[r].current_gear
         /\ program.solution[r] = {} /\ SHIFT
         /\ \A q \in Ranks : program.via[q] \notin (IF version \in {"PROTO", "reborn"} THEN {"Send"} ELSE {"Send", "Bcast"})
         => \E q \in Ranks : waited'[q] < waited'[r]]_vars

\* THRESHOLD_ITER: "Speed up if misprediction exceeds this".  A rank that was
\* slowed, and whose next iteration is longer by more than that than every
\* iteration before it, speeds up.
MispredictionSpeedsUp ==
    [][\A r \in Ranks :
         /\ ~ended' /\ measures' # measures
         /\ rank[r].decreased /\ rank[r].current_gear # 0
         /\ 100 * rank'[r].previous > 105 * longest'[r]
         => rank'[r].current_gear < rank[r].current_gear]_vars

\* In the versions that take the mean of their window, an iteration longer by
\* more than an eighth than all before it makes a rank that was slowed leave its
\* gear for a faster one, with however few iterations in the window.
LongestSpeedsUp ==
    [][\A r \in Ranks :
         /\ version \in {"working", "mpijack", "PROTO"} /\ measures' # measures /\ longest'[r] # 0
         /\ rank[r].decreased /\ rank[r].current_gear # 0
         /\ 8 * rank'[r].previous > 9 * longest'[r]
         => rank'[r].current_gear < rank[r].current_gear]_vars

Biased(r) ==
    version \in {"PROTO", "reborn"} /\ program.solution[r] = {} /\ program.resets = {}

\* Whatever the iterations measure, the gears do not swing forever: where the
\* biases are never reset, the one against a repeated gear change wins.
GearSettles ==
    \A r \in Ranks : <>[][Biased(r) => rank'[r].current_gear = rank[r].current_gear]_vars

Watched(r) ==
    SHIFT /\ version # "new_ok" /\ program.solution[r] = {} /\ \A q \in Ranks : program.via[q] = "Recv"

\* A rank that turns into the busiest one and stays it has its core back in
\* gear 0, except in new_ok, which has no clause for that.
BusiestReturnsToTop ==
    \A r \in Ranks :
        <>[](\A q \in Ranks : waited[r] <= waited[q]) => <>[](ended \/ ~Watched(r) \/ core[r] = 0)

=============================================================================
