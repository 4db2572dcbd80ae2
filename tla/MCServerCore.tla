---------------------------- MODULE MCServerCore ----------------------------
(***************************************************************************)
(* ServerCore for TLC.  Templates: "single" (one port of the range pool,   *)
(* no hook), "portless" (one fallback port, with a pre_start hook) and     *)
(* "overlay" (an address).  Each pool is one resource larger than a server *)
(* needs, so that pools run dry with two servers and a kept reservation.   *)
(***************************************************************************)
EXTENDS ServerCore, TLC

CONSTANTS c1, c2, c3, n1, n2

MCPool == {"fallback", "java"}
MCPort == 1 .. 3
MCRangeOf == [fallback |-> {1}, java |-> {2, 3}]
MCIP == 1 .. 2
MCTemplate == {"single", "portless", "overlay"}
\* The run with a faulty daemon leaves the hook to the overlay template.
FaultTemplate == {"single", "overlay"}
FaultPort == 1 .. 2
FaultRangeOf == [fallback |-> {}, java |-> {1, 2}]
MCDemand == [single   |-> [fallback |-> 0, java |-> 1],
             portless |-> [fallback |-> 0, java |-> 0],
             overlay  |-> [fallback |-> 0, java |-> 0]]
MCLoad == [single |-> 1, portless |-> 2, overlay |-> 1]
FaultDemand == [t \in FaultTemplate |-> MCDemand[t]]
FaultLoad == [t \in FaultTemplate |-> 1]
Symmetry == Permutations(ContainerID) \cup Permutations(ServerID)
IDSymmetry == Permutations(ContainerID)
=============================================================================
