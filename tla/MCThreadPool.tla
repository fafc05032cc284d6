---------------------------- MODULE MCThreadPool ----------------------------
(***************************************************************************)
(* ThreadPool for TLC: two callers, a pool of one to three workers.        *)
(***************************************************************************)
EXTENDS ThreadPool, TLC
=============================================================================
