--------------------------- MODULE MCClientSession ---------------------------
(***************************************************************************)
(* ClientSession for TLC: PoolSize addresses.                              *)
(***************************************************************************)
EXTENDS ClientSession, TLC

CONSTANT PoolSize

MCPool == [start |-> 1, end |-> 1 + PoolSize]
=============================================================================
