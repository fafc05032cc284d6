----------------------------- MODULE AddressBook -----------------------------
(***************************************************************************)
(* What a DHCP service promises, whatever its data structures: an address  *)
(* that was granted to a client belongs to that client until the grant     *)
(* expires, and to nobody else meanwhile. A grant can be renewed, never    *)
(* shortened or withdrawn.                                                 *)
(***************************************************************************)
EXTENDS Integers

CONSTANTS Macs,           \* the clients
          Pool            \* the addresses that may be granted

VARIABLES book,           \* the grants in force, a set of [mac, addr, exp]
          now

vars == <<book, now>>

Grants == [mac : Macs, addr : Pool, exp : Nat]

Init == book = {} /\ now \in Nat

\* A new grant or a renewal: the address is not granted to another client. A
\* renewal replaces earlier grants of the address to the client or joins them.
Grant(l) ==
  /\ l.exp > now
  /\ \A k \in book : k.addr = l.addr => k.mac = l.mac /\ k.exp <= l.exp
  /\ \E old \in SUBSET {k \in book : k.addr = l.addr} : book' = (book \ old) \cup {l}
  /\ UNCHANGED now

\* Time passes, and grants expire.
Tick ==
  /\ now' > now /\ now' \in Nat
  /\ book' = {l \in book : l.exp > now'}

\* Somebody corrects what is known of one grant, in either direction: it may be
\* new, lengthened, shortened or ended. Other grants stay as they are.
Correct(l) ==
  /\ \A k \in book : k.addr = l.addr => k.mac = l.mac
  /\ \E old \in SUBSET {k \in book : k.addr = l.addr} :
       book' = (book \ old) \cup {k \in {l} : k.exp > now}
  /\ UNCHANGED now

Next == Tick \/ \E l \in book' \cap Grants : Grant(l)

Spec == Init /\ [][Next]_vars
-----------------------------------------------------------------------------
\* No address is granted to two clients at a time.
NoDoubleGrant == \A k, l \in book : k.addr = l.addr => k.mac = l.mac

\* A grant lasts at least until it expires.
Keeps ==
  \A k \in book : k.exp > now' =>
    \E l \in book' : l.mac = k.mac /\ l.addr = k.addr /\ l.exp >= k.exp

GrantsLast == [][Keeps]_vars
=============================================================================
