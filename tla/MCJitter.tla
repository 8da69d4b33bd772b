------------------------------ MODULE MCJitter ------------------------------
(* Values of the constants of Jitter for TLC.                              *)
EXTENDS Jitter

Alike(x) == [r \in Ranks |-> x]
First(x, y) == [r \in Ranks |-> IF r = 0 THEN x ELSE y]

\* Both ranks alike, or rank 0 delayed.
Delay(long) == {Alike(10), First(long, 10)}

Plain == [version |-> "PROTO", LOWEST |-> 1, config |-> <<"SHIFT">>, SKIP |-> 1,
          MANUAL_GEARS |-> Alike(0), solution |-> Alike({}), via |-> Alike("Recv"), resets |-> {},
          lengths |-> Delay(12)]

Reborn == [Plain EXCEPT !.version = "reborn", !.LOWEST = LOWEST_GEAR]

\* Delays beyond THRESHOLD_ITER, and those that make a version start over.
Delays == {<<"PROTO", 12>>, <<"working", 25>>, <<"mpijack", 15>>, <<"new_ok", 12>>, <<"new_ok", 15>>}
Delayed == {[Plain EXCEPT !.version = d[1], !.lengths = Delay(d[2])] : d \in Delays}

Skipping == {[Plain EXCEPT !.SKIP = 2]}

Resetting == {[Plain EXCEPT !.resets = {"bias"}, !.lengths = {Alike(10)}],
              [Plain EXCEPT !.version = "reborn", !.resets = {"all"}, !.lengths = {Alike(10)}]}

Even == [Plain EXCEPT !.lengths = {Alike(10)}]

Sites == {[Even EXCEPT !.version = v, !.solution = First({1}, {})] : v \in Versions}

Untimed == {[Even EXCEPT !.version = v, !.via = First("Bcast", "Recv")] : v \in Versions}

Configs == {<<"MANUAL">>, <<"SHIFT", "MANUAL">>, <<"MANUAL", "TRACE_SHIFT">>, <<"TRACE", "SHIFT">>, <<"SIMPLE">>}
Configured == {[Even EXCEPT !.version = v, !.config = c, !.MANUAL_GEARS = First(1, 0)] :
                 v \in Versions \ {"reborn"}, c \in Configs}

AllVersions == {Reborn} \cup Delayed \cup Skipping \cup Resetting \cup Sites \cup Untimed \cup Configured
RebornOnly == {Reborn}

=============================================================================
