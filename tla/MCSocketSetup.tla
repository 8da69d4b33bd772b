---------------------------- MODULE MCSocketSetup ---------------------------
(* Values of the constants of SocketSetup for TLC.                         *)
EXTENDS SocketSetup

Line(key, number) == [key |-> key, number |-> number]

\* The block of one processor in /proc/cpuinfo, and a listing of such blocks
\* from tuples <<processor, physical id, core id, apicid>>.
Block(p) == <<Line("processor", p[1]), Line("physical id", p[2]), Line("core id", p[3]),
              Line("apicid", p[4])>>
Listing(blocks) == FoldLeft(LAMBDA lines, p : lines \o Block(p), <<>>, blocks)

\* Two sockets of two cores, numbered socket by socket.
TwoByTwo == Listing(<< <<0, 0, 0, 0>>, <<1, 0, 1, 1>>, <<2, 1, 0, 2>>, <<3, 1, 1, 3>> >>)

\* Sockets numbered in turn, core and APIC ids with gaps: the Xeon of cpuid.h.
Alternating == Listing(<< <<0, 0, 0, 0>>, <<1, 1, 0, 5>>, <<2, 0, 9, 2>>, <<3, 1, 9, 7>> >>)

\* A core of socket 0 is switched off in the firmware.
Uneven == Listing(<< <<0, 0, 0, 0>>, <<1, 1, 0, 2>>, <<2, 1, 1, 3>>, <<3, 1, 2, 4>> >>)

\* Core 1 is off line: its number is missing.
OffLine == Listing(<< <<0, 0, 0, 0>>, <<2, 1, 0, 2>>, <<3, 1, 1, 3>> >>)

Nodes == {Alternating, Uneven, OffLine}
OneNode == {TwoByTwo}

\* The launcher binds three ranks to cores of their own (which rank has which
\* of the three makes no difference), or on the Xeon one of them to a socket:
\* collapse finds a core for it in {0, 2} and none in {1, 3}.
OwnCores == {[r \in Ranks |-> IF r < skipped THEN {r} ELSE {r + 1}] : skipped \in 0 .. 3}

Xeon == parse_proc_cpuinfo(Alternating)

OwnCoresOrSocket(node) ==
    OwnCores \cup IF node # Xeon THEN {}
                  ELSE {0 :> {0, 2} @@ 1 :> {1} @@ 2 :> {3}, 0 :> {0} @@ 1 :> {1, 3} @@ 2 :> {2}}

\* The launcher binds nobody.
AnyCore(node) == {[r \in Ranks |-> 0 .. 3]}

\* What the proofs ask of the launcher holds of this one.
ASSUME LauncherBinds == Collapse => BoundApart

=============================================================================
