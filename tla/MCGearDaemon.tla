---------------------------- MODULE MCGearDaemon ----------------------------
(* The installations that TLC considers.                                   *)
EXTENDS GearDaemon

EveryFault == {"lose", "duplicate", "reorder", "restart", "sysfs", "signal"}

Site(gears, budget, size, kinds, tries, own) ==
    [asked |-> gears, calls |-> budget, buffer |-> size, faults |-> kinds,
     retries |-> tries, perCall |-> own]

\* Two clients on the daemon's own node, with sockets that are never full.
Local == Site({0, 1}, <<2, 1>>, 8, {}, 2, FALSE)

\* A client of a remote daemon, and gears that the daemon does not have, on
\* either side of those it has.
Remote == Site({-2, 1, 2}, <<2, 0>>, 2, EveryFault, 5, FALSE)

\* The older library, on its own node and over the network.
OlderLocal  == Site({0, 1}, <<2, 1>>, 8, {}, 2, TRUE)
OlderRemote == Site({0, 1}, <<2, 0>>, 2, EveryFault, 2, TRUE)

AllSites == {Local, Remote, OlderLocal, OlderRemote}

\* What the proofs assume of the installations without faults holds of these.
ASSUME RoomIsThere == Sites = AllSites => RoomForAll

\* One client on the daemon's own node.
Lone == {Site({0, 1}, <<3, 0>>, 4, {}, 2, FALSE)}

=============================================================================
