------------------------------ MODULE Ipv4Range ------------------------------
(***************************************************************************)
(* The address pool of server-node/src/dhcp.rs (struct Ipv4Range): a       *)
(* half-open interval [start, end) of machine words, with the operations   *)
(* the server performs on it: building it from the configured network,     *)
(* dividing it among the nodes of the cluster and scanning it, from a      *)
(* cursor, for an address that nobody holds.                               *)
(***************************************************************************)
EXTENDS Integers

CONSTANT AddressBits      \* width of an address word, 32 in the program

ASSUME AddressBitsAssumption == AddressBits \in Nat \ {0}

Word == 2 ^ AddressBits   \* one more than the largest address

\* Ipv4Range::new asserts start <= end.
Ranges == {r \in [start : Nat, end : Nat] : r.start <= r.end}

Len32(r) == r.end - r.start

Addresses(r) == r.start .. r.end - 1

-----------------------------------------------------------------------------
(* Ipv4Range::divide: equal shares, the remainder goes to the last one.    *)

ShareStart(r, parts, i) == r.start + (i - 1) * (Len32(r) \div parts)

\* A wrong split: the remainder is never handed out.
DivideDroppingRemainder(r, parts) ==
  [i \in 1 .. parts |-> [start |-> ShareStart(r, parts, i),
                         end   |-> ShareStart(r, parts, i + 1)]]

Divide(r, parts) ==
  [i \in 1 .. parts |->
     [start |-> ShareStart(r, parts, i),
      end   |-> ShareStart(r, parts, i + 1)
                  + (IF i = parts THEN Len32(r) % parts ELSE 0)]]

-----------------------------------------------------------------------------
(* Ipv4Range::iter_starting_at: at .. end, then start .. at. The first     *)
(* address of that sequence that is not taken, as a set of at most one     *)
(* element. Nothing confines the scan to the range when the cursor "at"    *)
(* lies outside of it: the first leg then starts below the range, or the   *)
(* second runs past its end.                                               *)

Least(S) == {a \in S : \A b \in S : a <= b}

\* A wrong scan: it does not wrap around.
FirstFreeNoWrap(r, at, taken) == Least((at .. r.end - 1) \ taken)

\* A wrong scan: it includes the end of the range.
FirstFreeInclusive(r, at, taken) ==
  LET ahead == (at .. r.end) \ taken
  IN  IF ahead # {} THEN Least(ahead) ELSE Least((r.start .. at - 1) \ taken)

FirstFree(r, at, taken) ==
  LET ahead   == (at .. r.end - 1) \ taken
      wrapped == (r.start .. at - 1) \ taken
  IN  IF ahead # {} THEN Least(ahead) ELSE Least(wrapped)

-----------------------------------------------------------------------------
(* Ipv4Range::from_cidr, as a set of at most one range: empty when the     *)
(* program panics. "checked" tells a build with overflow checks (debug)    *)
(* from one without (release), where the sum wraps around.                 *)

CidrOverflows(ip, prefix) ==
  LET hosts == 2 ^ (AddressBits - prefix)
  IN  hosts = Word \/ ip + hosts >= Word

\* A wrong conversion: the broadcast address belongs to the pool.
FromCidrWithBroadcast(ip, prefix, checked) ==
  LET end == (ip + 2 ^ (AddressBits - prefix)) % Word
  IN  IF (checked /\ CidrOverflows(ip, prefix)) \/ end < ip
        THEN {}
        ELSE {[start |-> ip, end |-> end]}

FromCidr(ip, prefix, checked) ==
  LET end == (ip + 2 ^ (AddressBits - prefix) - 1) % Word
  IN  IF (checked /\ CidrOverflows(ip, prefix)) \/ end < ip
        THEN {}
        ELSE {[start |-> ip, end |-> end]}
=============================================================================
