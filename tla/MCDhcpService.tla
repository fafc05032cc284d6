---------------------------- MODULE MCDhcpService ----------------------------
(***************************************************************************)
(* DhcpService for TLC: clients are interchangeable model values; the      *)
(* whole pool, and the shares two nodes get of it.                         *)
(***************************************************************************)
EXTENDS DhcpService, TLC

CONSTANT PoolSize

WholePool == [start |-> 1, end |-> 1 + PoolSize]

MCPools == {WholePool} \cup {Divide(WholePool, 2)[i] : i \in 1 .. 2}

Symmetry == Permutations(Macs)
=============================================================================
