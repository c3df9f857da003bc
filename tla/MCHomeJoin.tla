----------------------------- MODULE MCHomeJoin -----------------------------
(* Small instance of HomeJoin. *)
EXTENDS HomeJoin

CONSTANTS j1, j2, f1, f2, s1, s2

MCArgs ==
  {[server |-> s1, code |-> "c1", fabric |-> NoFabric],
   [server |-> s2, code |-> "c2", fabric |-> f2]}
MCLegacies ==
  {[kind |-> "none", server |-> s1, fabric |-> NoFabric],
   [kind |-> "damaged", server |-> s1, fabric |-> NoFabric],
   [kind |-> "partial", server |-> s1, fabric |-> f1],
   [kind |-> "whole", server |-> s1, fabric |-> f1]}
MCRosters == {NoFabric, f2}

\* The properties say nothing once a live lock was removed.
Small == ~usurped /\ starts[Sidecar] + starts[j1] + starts[j2] <= 3
=============================================================================
