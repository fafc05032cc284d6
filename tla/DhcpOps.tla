------------------------------- MODULE DhcpOps -------------------------------
(***************************************************************************)
(* The operations of dhcp.rs, struct Service, as operators on a service    *)
(* record                                                                  *)
(*    [pool, leases, pending, next]                                        *)
(* whose lease tables are sets of [mac, addr, exp]. An operation whose     *)
(* result the code reads off the order of its vectors ("find" returns the  *)
(* first match) is a set of outcomes, one for every match. An optional     *)
(* result is a set of at most one element. Two entries of a vector that    *)
(* agree in all three fields count once.                                   *)
(***************************************************************************)
EXTENDS Ipv4Range

CONSTANT LeaseTime        \* config.lease_time

ASSUME LeaseTimeAssumption == LeaseTime \in Nat

Lease(mac, addr, exp) == [mac |-> mac, addr |-> addr, exp |-> exp]

NewService(pool) ==
  [pool |-> pool, leases |-> {}, pending |-> {}, next |-> pool.start]

\* The leases and offers a service knows, and the addresses they concern.
Held(s) == s.leases \cup s.pending

AddressesOf(S) == {l.addr : l \in S}

\* A wrong lookup: by the address alone.
MatchingAddress(S, mac, addr) == {l \in S : l.addr = addr}

Matching(S, mac, addr) == {l \in S : l.mac = mac /\ l.addr = addr}

\* Service::fresh_timestamp
FreshTimestamp(now) == now + LeaseTime

\* A wrong set_pool: the cursor stays in the old pool.
SetPoolKeepingCursor(s, pool) == [s EXCEPT !.pool = pool]

\* Service::set_pool
SetPool(s, pool) == [s EXCEPT !.pool = pool, !.next = pool.start]

\* A wrong add_lease: a lease of the same client replaces its other leases.
AddLeaseByClient(s, new) ==
  {[s EXCEPT !.leases = {l \in @ : l.mac # new.mac} \cup {new}]}

\* Service::add_lease: no check of who else holds the address.
AddLease(s, new) ==
  LET same == Matching(s.leases, new.mac, new.addr)
  IN  IF same = {}
        THEN {[s EXCEPT !.leases = @ \cup {new}]}
        ELSE {[s EXCEPT !.leases = (@ \ {l}) \cup {new}] : l \in same}

-----------------------------------------------------------------------------
(* Service::discover_lease                                                 *)

Unexpired(S, now) == {l \in S : l.exp > now}

\* A wrong prune: offers that were never confirmed stay forever.
PruneLeasesOnly(s, now) == [s EXCEPT !.leases = Unexpired(@, now)]

\* A wrong prune: an offer that was not confirmed before the next Discover is gone.
PruneOffers(s, now) == [s EXCEPT !.leases = Unexpired(@, now), !.pending = {}]

Prune(s, now) ==
  [s EXCEPT !.leases = Unexpired(@, now), !.pending = Unexpired(@, now)]

\* A wrong search: pending offers are not looked at.
FreeAddressesIgnoringOffers(s) == FirstFree(s.pool, s.next, AddressesOf(s.leases))

FreeAddresses(s) == FirstFree(s.pool, s.next, AddressesOf(Held(s)))

OfferOf(s, mac, addr, now) ==
  LET lease == Lease(mac, addr, FreshTimestamp(now))
  IN  [svc   |-> [s EXCEPT !.next = addr + 1, !.pending = @ \cup {lease}],
       offer |-> {lease}]

\* A wrong discover_lease: a client is not looked up.
DiscoverAnew(s, mac, now) ==
  LET pruned == Prune(s, now)
  IN  IF FreeAddresses(pruned) = {}
        THEN {[svc |-> pruned, offer |-> {}]}
        ELSE {OfferOf(pruned, mac, a, now) : a \in FreeAddresses(pruned)}

\* A client the table knows gets its lease back as it is, even an expired one,
\* and nothing is pruned. Otherwise the tables are pruned, also when the pool
\* turns out to be exhausted.
DiscoverLease(s, mac, now) ==
  LET known  == {l \in s.leases : l.mac = mac}
      pruned == Prune(s, now)
  IN  IF known # {}
        THEN {[svc |-> s, offer |-> {l}] : l \in known}
        ELSE IF FreeAddresses(pruned) = {}
          THEN {[svc |-> pruned, offer |-> {}]}
          ELSE {OfferOf(pruned, mac, a, now) : a \in FreeAddresses(pruned)}

-----------------------------------------------------------------------------
(* Service::commit_lease: a pending offer becomes a lease, else an existing *)
(* lease is renewed, else the request is denied. The expiry of the offer or *)
(* of the lease is not looked at.                                          *)

CommitLease(s, mac, addr, now) ==
  LET lease   == Lease(mac, addr, FreshTimestamp(now))
      offers  == Matching(s.pending, mac, addr)
      granted == Matching(s.leases, mac, addr)
  IN  IF offers # {}
        THEN {[svc |-> [s EXCEPT !.pending = @ \ {l}, !.leases = @ \cup {lease}],
               acked |-> {lease}] : l \in offers}
        ELSE IF granted # {}
          THEN {[svc |-> [s EXCEPT !.leases = (@ \ {l}) \cup {lease}],
                 acked |-> {lease}] : l \in granted}
          ELSE {[svc |-> s, acked |-> {}]}
=============================================================================
