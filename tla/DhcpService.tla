----------------------------- MODULE DhcpService -----------------------------
(***************************************************************************)
(* One node's DHCP service (server-node/src/dhcp.rs, struct Service) under *)
(* the calls the server makes: discover and commit for clients, set_pool   *)
(* and add_lease for peers. The service checks nothing of what peers tell  *)
(* it ("TODO: do some sanity checks", dhcp.rs:165), so what it guarantees  *)
(* rests on what they promise; PeerPromise states that contract. Whether   *)
(* the cluster keeps it is the question of module DhcpCluster.             *)
(***************************************************************************)
EXTENDS DhcpOps, FiniteSets

CONSTANTS Macs,           \* the clients
          Pools,          \* the pools the coordinator may assign
          MaxTime,        \* bound on the clock
          MaxAge          \* bound on how long ago what a peer tells has expired

ASSUME PoolsAssumption == Pools \subseteq Ranges /\ Pools # {}

VARIABLES svc,            \* the service record
          now             \* the clock (SystemTime::now)

vars == <<svc, now>>

PoolAddresses == UNION {Addresses(p) : p \in Pools}

Leases == [mac : Macs, addr : PoolAddresses, exp : Nat]

Init == (\E p \in Pools : svc = NewService(p)) /\ now = 0

\* Event::LeaseRequest at a node that serves
Discover(mac) ==
  /\ \E o \in DiscoverLease(svc, mac, now) : svc' = o.svc
  /\ UNCHANGED now

\* Event::ConfirmRequest at a node that serves; a client may ask for anything
Commit(mac, addr) ==
  /\ \E o \in CommitLease(svc, mac, addr, now) : svc' = o.svc
  /\ UNCHANGED now

\* Message::SetPool
AssignPool(p) ==
  /\ svc' = SetPool(svc, p)
  /\ UNCHANGED now

\* No address is promised to two clients.
OneClientEach(S) == \A k, l \in S : k.addr = l.addr => k.mac = l.mac

\* What the service relies on when a peer tells it of leases that will stand
\* beside those it knows: no address of theirs is promised to another client,
\* and the peer's clock is not ahead. Their news may be older than what is known.
PeerPromise(news, known) ==
  /\ \A l \in news : l.exp <= FreshTimestamp(now)
  /\ OneClientEach(news \cup known)

\* Message::Lease
LearnLease(l) ==
  /\ PeerPromise({l}, Held(svc))
  /\ svc' \in AddLease(svc, l)
  /\ UNCHANGED now

\* Message::LeaseTable: the longer table replaces the other as a whole. What was
\* leased here and is not in it is forgotten.
LearnTable(T) ==
  /\ PeerPromise(T, svc.pending)
  /\ svc' = [svc EXCEPT !.leases = IF Cardinality(@) < Cardinality(T) THEN T ELSE @]
  /\ UNCHANGED now

Tick == now < MaxTime /\ now' = now + 1 /\ UNCHANGED svc

\* What a peer may send: a lease, or a table with a lease of each of some addresses.
News == {Lease(mac, addr, exp) :
           mac \in Macs, addr \in PoolAddresses,
           exp \in (now - MaxAge .. FreshTimestamp(now)) \cap Nat}

Tables == UNION {{{f[a] : a \in D} : f \in {g \in [D -> News] : \A a \in D : g[a].addr = a}} :
                   D \in SUBSET PoolAddresses}

\* The service's own steps, and those it takes on a peer's word.
OwnStep ==
  \/ \E mac \in Macs : Discover(mac)
  \/ \E mac \in Macs, addr \in PoolAddresses : Commit(mac, addr)
  \/ \E p \in Pools : AssignPool(p)
  \/ Tick

Next ==
  \/ OwnStep
  \/ \E l \in News : LearnLease(l)
  \/ \E T \in Tables : LearnTable(T)

Spec == Init /\ [][Next]_vars
-----------------------------------------------------------------------------
TypeOK ==
  /\ now \in Nat
  /\ svc \in [pool : Pools, leases : SUBSET Leases, pending : SUBSET Leases, next : Nat]

\* An address is never promised to two clients: neither leased to both, nor
\* offered to one while it is leased or offered to another. Leases and offers
\* live in two tables, expire at different times and are pruned only by a
\* discover of an unknown client.
ExclusiveHolder == OneClientEach(Held(svc))

\* The cursor lies in the current pool, or the scan of the next discover would
\* leave it (see Ipv4Range, FirstFree), also right after the pool was replaced.
CursorInPool == svc.pool.start <= svc.next /\ svc.next <= svc.pool.end

\* A client is turned away only when every address of the pool is leased or on
\* offer, and the lease or offer has not expired. An offer takes its address out
\* of the pool until it expires, whether or not its client still wants it: a
\* client that asks again gets another address, and may exhaust the pool alone.
RefusedOnlyWhenFull ==
  \A mac \in Macs : \A o \in DiscoverLease(svc, mac, now) :
    o.offer = {} =>
      Addresses(svc.pool) \subseteq AddressesOf(Unexpired(Held(svc), now))

\* A new offer comes from the pool the coordinator assigned last.
OffersFromPool ==
  [][\A l \in svc'.pending \ svc.pending : l.addr \in Addresses(svc.pool)]_vars

\* Expiry times lie at most one lease time ahead.
BoundedLeases == \A l \in Held(svc) : l.exp <= FreshTimestamp(now)

\* The leases in force are an address book as far as the service's own steps go:
\* granted, renewed and expired, never withdrawn, shortened or granted twice. A
\* peer's lease may shorten or end the grant it is about and touches no other; a
\* peer's table may do anything, and forget grants in force.
Book == INSTANCE AddressBook WITH
  book <- Unexpired(svc.leases, now),
  Pool <- PoolAddresses

KeepsAddressBook ==
  /\ Book!Init
  /\ [][/\ OwnStep => [Book!Next]_(Book!vars)
        /\ \A l \in News : LearnLease(l) => Book!Correct(l)]_vars
=============================================================================
