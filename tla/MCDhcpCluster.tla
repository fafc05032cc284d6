---------------------------- MODULE MCDhcpCluster ----------------------------
(***************************************************************************)
(* DhcpCluster for TLC, from the start of the nodes.                       *)
(***************************************************************************)
EXTENDS DhcpCluster, TLC

CONSTANT PoolSize

MCConfigPool == [start |-> 1, end |-> 1 + PoolSize]

NoConnection == {}
=============================================================================
