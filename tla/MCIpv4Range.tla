----------------------------- MODULE MCIpv4Range -----------------------------
(***************************************************************************)
(* Checks the operators of Ipv4Range against their reference definitions   *)
(* over every small input. A state is one input; the system moves between  *)
(* inputs the way the program meets them: a configured network becomes     *)
(* the pool, the pool is divided anew, addresses are taken from it.        *)
(***************************************************************************)
EXTENDS Ipv4Range, FiniteSets

CONSTANT MaxParts         \* largest number of nodes a pool is divided among

ASSUME MaxPartsAssumption == MaxParts \in Nat \ {0}

VARIABLES ip, prefix,     \* the configured network
          range,          \* the pool being divided and scanned
          parts,          \* the number of nodes that share it
          cursor, taken   \* the scan position and the addresses held

vars == <<ip, prefix, range, parts, cursor, taken>>

Init ==
  /\ ip = 0 /\ prefix = AddressBits
  /\ range = [start |-> 0, end |-> 0]
  /\ parts = 1
  /\ cursor = 0
  /\ taken = {}

\* The program starts with some configuration.
Configure ==
  \E i \in 0 .. Word - 1, p \in 0 .. AddressBits, checked \in BOOLEAN :
    /\ range = [start |-> 0, end |-> 0]
    /\ ip' = i /\ prefix' = p
    /\ range' \in FromCidr(i, p, checked)
    /\ parts' \in 1 .. MaxParts
    /\ cursor' = range'.start
    /\ taken' = {}

\* The pool is replaced by one share of it, as on SetPool.
TakeShare ==
  \E i \in 1 .. parts :
    /\ range' = Divide(range, parts)[i]
    /\ cursor' = range'.start
    /\ UNCHANGED <<ip, prefix, parts, taken>>

\* An address is handed out and the cursor moves past it.
TakeAddress ==
  \E a \in FirstFree(range, cursor, taken) :
    /\ taken' = taken \cup {a}
    /\ cursor' = a + 1
    /\ UNCHANGED <<ip, prefix, range, parts>>

\* An address becomes free again.
GiveBack ==
  \E a \in taken :
    /\ taken' = taken \ {a}
    /\ UNCHANGED <<ip, prefix, range, parts, cursor>>

Next == Configure \/ TakeShare \/ TakeAddress \/ GiveBack

Spec == Init /\ [][Next]_vars
-----------------------------------------------------------------------------
\* The inputs are words, the range is one that Ipv4Range::new accepts, and the
\* cursor never leaves it: one past an address of the range is at most its end,
\* as the comment at dhcp.rs:203 claims, so that the scan starts in the range.
TypeOK ==
  /\ ip \in 0 .. Word - 1 /\ prefix \in 0 .. AddressBits
  /\ range \in Ranges /\ range.end < Word
  /\ parts \in 1 .. MaxParts
  /\ cursor \in range.start .. range.end
  /\ taken \subseteq 0 .. Word - 1

\* Dividing the pool among the nodes is a partition: the shares of two nodes
\* have no address in common and together they are the whole pool, however
\* the number of nodes compares with the number of addresses (dhcp.rs divide).
DivideIsPartition ==
  LET d == Divide(range, parts)
  IN  /\ \A i, j \in 1 .. parts :
           i # j => Addresses(d[i]) \cap Addresses(d[j]) = {}
      /\ UNION {Addresses(d[i]) : i \in 1 .. parts} = Addresses(range)

\* The scan wraps around: from any cursor that lies in the range it finds an
\* address exactly when one is free, and that address is in the range
\* (dhcp.rs iter_starting_at, as discover_lease uses it).
ScanFindsFreeAddress ==
  \A at \in range.start .. range.end :
    LET free == Addresses(range) \ taken
        found == FirstFree(range, at, taken)
    IN  /\ found \subseteq free
        /\ Cardinality(found) = (IF free = {} THEN 0 ELSE 1)

\* The pool of a network address: all the addresses of the network but the last
\* (the broadcast address), also for the topmost network, whose size overflows a
\* word on the way: there a build with overflow checks panics instead
\* (dhcp.rs from_cidr). An address with host bits set gives another range.
CidrPool ==
  LET size == 2 ^ (AddressBits - prefix)
      pool == {[start |-> ip, end |-> ip + size - 1]}
  IN  ip % size = 0 =>
        /\ FromCidr(ip, prefix, FALSE) = pool
        /\ FromCidr(ip, prefix, TRUE) = (IF ip + size = Word THEN {} ELSE pool)
=============================================================================
