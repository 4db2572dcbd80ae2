---------------------------- MODULE MCHostAgent ----------------------------
(***************************************************************************)
(* HostAgent for TLC: a workload that is assigned three times beside one that is *)
(* assigned once, and a workload alone.                                    *)
(***************************************************************************)
EXTENDS HostAgent

MCGenerations == [w1 |-> 3, w2 |-> 1]
MCWorkload == DOMAIN MCGenerations
MCAsksFor == [w1 |-> Operation, w2 |-> {"create"}]

OneGeneration == [w1 |-> 1]
OneWorkload == DOMAIN OneGeneration
OneAsksFor == [w1 |-> {"create"}]
=============================================================================
