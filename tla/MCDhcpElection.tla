--------------------------- MODULE MCDhcpElection ---------------------------
(***************************************************************************)
(* DhcpElection for TLC: a pool of PoolSize addresses, and the connections *)
(* that may break.                                                         *)
(***************************************************************************)
EXTENDS DhcpElection, TLC

CONSTANT PoolSize

MCConfigPool == [start |-> 1, end |-> 1 + PoolSize]

NoConnection == {}

FirstConnection == {<<2, 1>>}
=============================================================================
