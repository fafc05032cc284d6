---------------------------- MODULE MCDhcpLeases ----------------------------
(***************************************************************************)
(* DhcpLeases for TLC: a pool of PoolSize addresses, no faults, clients    *)
(* that are interchangeable.                                               *)
(***************************************************************************)
EXTENDS DhcpLeases, TLC

CONSTANT PoolSize

MCConfigPool == [start |-> 1, end |-> 1 + PoolSize]

NoConnection == {}

Symmetry == Permutations(Macs)
=============================================================================
