---------------------------- MODULE DhcpElection ----------------------------
(***************************************************************************)
(* The election of DhcpCluster, without clients: what the nodes do by      *)
(* themselves, and that it comes to an end.                                *)
(***************************************************************************)
EXTENDS DhcpCluster

ASSUME NoClients == Macs = {} /\ MaxTime = 0

\* What the nodes do by themselves, without faults.
Server ==
  \/ \E i, j \in Nodes : Message(i, j) \/ Connection(i, j)
  \/ \E i \in Nodes : FinishElection(i)

\* Fairness: an event loop never stops taking events while it has any, a sleeping
\* timer thread wakes up, and attempt_connect runs every connect_timeout.
ElectionSpec == Spec /\ WF_vars(Server)

\* Without faults the election comes to an end: from some time on the highest
\* node leads and no other one tries.
EventuallyHighestLeads == <>[]HighestLeads
=============================================================================
