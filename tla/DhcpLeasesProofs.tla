-------------------------- MODULE DhcpLeasesProofs --------------------------
(***************************************************************************)
(* DhcpLeases for any number of nodes and clients and any pool, as long as *)
(* nothing fails and clients confirm at the node that made the offer: an   *)
(* address is never granted twice, an Ack stands in the table of the node  *)
(* it came from, tables agree when the news has arrived, and together the  *)
(* nodes are one address book.                                             *)
(*                                                                         *)
(* None of these is inductive. No double grant rests on what one node      *)
(* keeps in order (Orderly) together with disjoint shares; the agreement   *)
(* of two tables, in the middle of everything, on what the receiver WILL   *)
(* know when it has handled the messages on their way (AfterNews): that is *)
(* what the sender knows now, expired leases apart.                        *)
(*                                                                         *)
(* The last theorem says how a cluster gets into the state from which      *)
(* these start: by any election that is over, as long as no client asked.  *)
(***************************************************************************)
EXTENDS DhcpLeases, DhcpClusterProofs

Own(i) == Addresses(svc[i].pool)

SameGrant(k, l) == k.mac = l.mac /\ k.addr = l.addr

\* The news of node i: leases of addresses of its share.
NewsOf(i) == {m \in [type : {"Lease"}, lease : Leases] : m.lease.addr \in Own(i)}

-----------------------------------------------------------------------------
(* What a table becomes with the news that is on its way to it.            *)

\* The last message about each grant.
LastNews(q) ==
  {q[n].lease : n \in {n \in 1 .. Len(q) :
                         \A m \in n + 1 .. Len(q) : ~SameGrant(q[m].lease, q[n].lease)}}

\* The part of the table "leases" that is about the addresses P, after the
\* messages q were handled.
AfterNews(leases, q, P) ==
  {k \in leases : k.addr \in P /\ \A n \in 1 .. Len(q) : ~SameGrant(q[n].lease, k)}
    \cup LastNews(q)

Replaced(leases, l) == {k \in leases : ~SameGrant(k, l)} \cup {l}

-----------------------------------------------------------------------------
(* The inductive invariant.                                                *)

\* No connection is made or lost and no election is under way.
Calm ==
  /\ up = Nodes /\ lost = {}
  /\ link = {p \in Nodes \X Nodes : p[1] # p[2]}
  /\ joining = [i \in Nodes |-> {}]
  /\ peers = [i \in Nodes |-> Nodes \ {i}]
  /\ timers = [i \in Nodes |-> 0]

\* A service that gives an address of its pool to one client at a time.
Orderly(s) ==
  /\ s \in Services
  /\ \A l \in s.pending : l.addr \in Addresses(s.pool)
  /\ \A k \in s.leases, l \in s.pending : k.addr # l.addr
  /\ \A k, l \in s.pending : k.addr = l.addr => k = l
  /\ \A k, l \in s.leases : k.addr = l.addr /\ k.addr \in Addresses(s.pool) => k = l
  /\ \A k, l \in s.leases : SameGrant(k, l) => k = l

SharesDisjoint == \A i, j \in Nodes : i # j => Own(i) \cap Own(j) = {}

\* Every lease known anywhere is of an address of someone's share.
LeasesOwned == \A i \in Nodes : \A l \in svc[i].leases : \E k \in Nodes : l.addr \in Own(k)

Channels ==
  /\ chan = [p \in Nodes \X Nodes |-> chan[p]]
  /\ \A i, j \in Nodes : chan[<<i, j>>] \in Seq(NewsOf(i))
  /\ \A i \in Nodes : chan[<<i, i>>] = <<>>

\* When j has handled what i sent, it knows what i knows of the share of i.
InStep(i, j) ==
  Unexpired(AfterNews(svc[j].leases, chan[<<i, j>>], Own(i)), now)
    = Unexpired({k \in svc[i].leases : k.addr \in Own(i)}, now)

Nodewise ==
  /\ svc = [i \in Nodes |-> svc[i]]
  /\ \A i \in Nodes : Orderly(svc[i])

\* A lease a client holds an Ack for has not expired, and its node has it.
AcksStand ==
  \A l \in acked : l.exp > now /\ \E i \in Nodes : l \in svc[i].leases /\ l.addr \in Own(i)

LInv ==
  /\ Calm
  /\ now \in Nat
  /\ Nodewise
  /\ SharesDisjoint
  /\ LeasesOwned
  /\ Channels
  /\ \A i, j \in Nodes : i # j => InStep(i, j)
  /\ LeaseTime > 0 => AcksStand

-----------------------------------------------------------------------------
(* News that is sent, and news that is handled.                            *)

\* A sent message is the last word on its grant.
LEMMA AfterSending ==
  ASSUME NEW X, NEW q \in Seq(X), NEW m \in X, NEW T, NEW P
  PROVE  AfterNews(T, q \o <<m>>, P) = Replaced(AfterNews(T, q, P), m.lease)
<1> DEFINE r == q \o <<m>>
           l == m.lease
<1>1. /\ Len(q) \in Nat /\ Len(r) = Len(q) + 1
      /\ \A n \in 1 .. Len(q) : r[n] = q[n]
      /\ r[Len(q) + 1] = m
  BY Appended
<1> HIDE DEF r
<1>2. ASSUME NEW k
      PROVE  (\A n \in 1 .. Len(r) : ~SameGrant(r[n].lease, k))
               <=> ~SameGrant(l, k) /\ \A n \in 1 .. Len(q) : ~SameGrant(q[n].lease, k)
  BY <1>1
<1>3. ASSUME NEW k
      PROVE  k \in LastNews(r) <=> k = l \/ (k \in LastNews(q) /\ ~SameGrant(k, l))
  <2>1. ASSUME NEW n \in 1 .. Len(q)
        PROVE  (\A i \in n + 1 .. Len(r) : ~SameGrant(r[i].lease, r[n].lease))
                 <=> /\ ~SameGrant(l, q[n].lease)
                     /\ \A i \in n + 1 .. Len(q) : ~SameGrant(q[i].lease, q[n].lease)
    <3>1. ASSUME NEW i \in n + 1 .. Len(r)
          PROVE  i = Len(q) + 1 \/ i \in n + 1 .. Len(q)
      BY <1>1
    <3>2. \A i \in n + 1 .. Len(q) : i \in n + 1 .. Len(r) /\ r[i] = q[i]
      BY <1>1
    <3>3. Len(q) + 1 \in n + 1 .. Len(r) /\ r[n] = q[n]
      BY <1>1
    <3> QED BY <1>1, <3>1, <3>2, <3>3
  <2>2. k \in LastNews(r) <=>
          \E n \in 1 .. Len(r) :
            k = r[n].lease /\ \A i \in n + 1 .. Len(r) : ~SameGrant(r[i].lease, r[n].lease)
    BY DEF LastNews
  <2>3. k \in LastNews(q) <=>
          \E n \in 1 .. Len(q) :
            k = q[n].lease /\ \A i \in n + 1 .. Len(q) : ~SameGrant(q[i].lease, q[n].lease)
    BY DEF LastNews
  <2>4. \A i \in Len(q) + 1 + 1 .. Len(r) : FALSE
    BY <1>1
  <2>5. \A n : n \in 1 .. Len(r) <=> n \in 1 .. Len(q) \/ n = Len(q) + 1
    BY <1>1
  <2>6. ASSUME k \in LastNews(r) PROVE k = l \/ (k \in LastNews(q) /\ ~SameGrant(k, l))
    <3>1. PICK n \in 1 .. Len(r) :
            k = r[n].lease /\ \A i \in n + 1 .. Len(r) : ~SameGrant(r[i].lease, r[n].lease)
      BY <2>2, <2>6
    <3>2. CASE n = Len(q) + 1
      BY <1>1, <3>1, <3>2
    <3>3. CASE n \in 1 .. Len(q)
      <4>1. /\ ~SameGrant(l, q[n].lease) /\ k = q[n].lease
            /\ \A i \in n + 1 .. Len(q) : ~SameGrant(q[i].lease, q[n].lease)
        BY <1>1, <2>1, <3>1, <3>3
      <4>2. ~SameGrant(k, l)
        BY <4>1 DEF SameGrant
      <4> QED BY <2>3, <3>3, <4>1, <4>2
    <3> QED BY <2>5, <3>2, <3>3
  <2>7. ASSUME k = l PROVE k \in LastNews(r)
    BY <1>1, <2>2, <2>4, <2>5, <2>7
  <2>8. ASSUME k \in LastNews(q), ~SameGrant(k, l) PROVE k \in LastNews(r)
    <3>1. PICK n \in 1 .. Len(q) :
            k = q[n].lease /\ \A i \in n + 1 .. Len(q) : ~SameGrant(q[i].lease, q[n].lease)
      BY <2>3, <2>8
    <3>2. ~SameGrant(l, q[n].lease)
      BY <2>8, <3>1 DEF SameGrant
    <3>3. k = r[n].lease /\ n \in 1 .. Len(r)
      BY <1>1, <2>5, <3>1
    <3> QED BY <2>1, <2>2, <3>1, <3>2, <3>3
  <2> QED BY <2>6, <2>7, <2>8
<1>4. \A k : SameGrant(k, l) <=> SameGrant(l, k)
  BY DEF SameGrant
<1>5. ASSUME NEW k
      PROVE  k \in AfterNews(T, r, P) <=> k \in Replaced(AfterNews(T, q, P), l)
  BY <1>2, <1>3, <1>4 DEF AfterNews, Replaced
<1> QED BY <1>5 DEF r

\* Handling a message puts into the table what was to be expected of it.
LEMMA AfterHandling ==
  ASSUME NEW X, NEW q \in Seq(X), q # <<>>, NEW T, NEW P, Head(q).lease.addr \in P
  PROVE  AfterNews(Replaced(T, Head(q).lease), Tail(q), P) = AfterNews(T, q, P)
<1> DEFINE r == Tail(q)
           l == Head(q).lease
<1>1. /\ Len(q) \in Nat /\ Len(q) > 0 /\ Len(r) = Len(q) - 1
      /\ q[1].lease = l
      /\ \A n \in 1 .. Len(r) : r[n] = q[n + 1]
  BY Taking
<1> HIDE DEF r
<1>2. l.addr \in P
  OBVIOUS
<1> HIDE DEF l
<1>3. \A n : n \in 1 .. Len(q) <=> n = 1 \/ (n \in Nat /\ n - 1 \in 1 .. Len(r))
  BY <1>1
<1>4. \A n \in 1 .. Len(r) : n + 1 \in 1 .. Len(q)
  BY <1>1
<1>5. ASSUME NEW k
      PROVE  (\A n \in 1 .. Len(q) : ~SameGrant(q[n].lease, k))
               <=> ~SameGrant(l, k) /\ \A n \in 1 .. Len(r) : ~SameGrant(r[n].lease, k)
  <2>1. ASSUME NEW n \in 1 .. Len(q), n # 1
        PROVE  n - 1 \in 1 .. Len(r) /\ r[n - 1] = q[n]
    BY <1>1, <2>1
  <2>2. 1 \in 1 .. Len(q)
    BY <1>1
  <2> QED BY <1>1, <1>4, <2>1, <2>2
<1>6. ASSUME NEW k
      PROVE  k \in LastNews(q) <=>
               \/ k \in LastNews(r)
               \/ k = l /\ \A n \in 1 .. Len(r) : ~SameGrant(r[n].lease, l)
  <2>1. ASSUME NEW n \in 1 .. Len(r)
        PROVE  (\A i \in n + 1 .. Len(r) : ~SameGrant(r[i].lease, r[n].lease))
                 <=> \A i \in n + 1 + 1 .. Len(q) : ~SameGrant(q[i].lease, q[n + 1].lease)
    <3>1. \A i \in n + 1 .. Len(r) : i + 1 \in n + 1 + 1 .. Len(q) /\ r[i] = q[i + 1]
      BY <1>1
    <3>2. \A i \in n + 1 + 1 .. Len(q) : i - 1 \in n + 1 .. Len(r) /\ r[i - 1] = q[i]
      BY <1>1
    <3>3. r[n] = q[n + 1]
      BY <1>1
    <3> QED BY <3>1, <3>2, <3>3
  <2>2. (\A i \in 1 + 1 .. Len(q) : ~SameGrant(q[i].lease, q[1].lease))
          <=> \A n \in 1 .. Len(r) : ~SameGrant(r[n].lease, l)
    <3>1. \A i \in 1 .. Len(r) : i + 1 \in 1 + 1 .. Len(q) /\ r[i] = q[i + 1]
      BY <1>1
    <3>2. \A i \in 1 + 1 .. Len(q) : i - 1 \in 1 .. Len(r) /\ r[i - 1] = q[i]
      BY <1>1
    <3> QED BY <1>1, <3>1, <3>2
  <2>3. k \in LastNews(r) <=>
          \E n \in 1 .. Len(r) :
            k = r[n].lease /\ \A i \in n + 1 .. Len(r) : ~SameGrant(r[i].lease, r[n].lease)
    BY DEF LastNews
  <2>4. k \in LastNews(q) <=>
          \E n \in 1 .. Len(q) :
            k = q[n].lease /\ \A i \in n + 1 .. Len(q) : ~SameGrant(q[i].lease, q[n].lease)
    BY DEF LastNews
  <2>5. ASSUME k \in LastNews(q)
        PROVE  \/ k \in LastNews(r)
               \/ k = l /\ \A n \in 1 .. Len(r) : ~SameGrant(r[n].lease, l)
    <3>1. PICK n \in 1 .. Len(q) :
            k = q[n].lease /\ \A i \in n + 1 .. Len(q) : ~SameGrant(q[i].lease, q[n].lease)
      BY <2>4, <2>5
    <3>2. CASE n = 1
      BY <1>1, <2>2, <3>1, <3>2
    <3>3. CASE n # 1
      <4> DEFINE h == n - 1
      <4>1. h \in 1 .. Len(r) /\ h + 1 = n /\ r[h] = q[n]
        BY <1>1, <3>3
      <4> HIDE DEF h
      <4> QED BY <2>1, <2>3, <3>1, <4>1
    <3> QED BY <3>2, <3>3
  <2>6. ASSUME k \in LastNews(r) PROVE k \in LastNews(q)
    <3>1. PICK n \in 1 .. Len(r) :
            k = r[n].lease /\ \A i \in n + 1 .. Len(r) : ~SameGrant(r[i].lease, r[n].lease)
      BY <2>3, <2>6
    <3>2. n + 1 \in 1 .. Len(q) /\ r[n] = q[n + 1]
      BY <1>1, <1>4
    <3> QED BY <2>1, <2>4, <3>1, <3>2
  <2>7. ASSUME k = l, \A n \in 1 .. Len(r) : ~SameGrant(r[n].lease, l)
        PROVE  k \in LastNews(q)
    <3>1. 1 \in 1 .. Len(q)
      BY <1>1
    <3> QED BY <1>1, <2>2, <2>4, <2>7, <3>1
  <2> QED BY <2>5, <2>6, <2>7
<1>7. \A k : SameGrant(k, l) <=> SameGrant(l, k)
  BY DEF SameGrant
<1>8. ASSUME NEW k
      PROVE  k \in AfterNews(Replaced(T, l), r, P) <=> k \in AfterNews(T, q, P)
  <2>1. (\A n \in 1 .. Len(r) : ~SameGrant(r[n].lease, l)) => ~(\E n \in 1 .. Len(r) : SameGrant(r[n].lease, l))
    OBVIOUS
  <2> QED BY <1>2, <1>5, <1>6, <1>7, <2>1 DEF AfterNews, Replaced
<1> QED BY <1>8 DEF r, l

\* What is not about P does not matter, and neither does an expired lease.
LEMMA AfterNewsOfPart ==
  ASSUME NEW S, NEW T, NEW q, NEW P, \A k : k.addr \in P => (k \in S <=> k \in T)
  PROVE  AfterNews(S, q, P) = AfterNews(T, q, P)
BY DEF AfterNews

LEMMA AfterNewsOfUnexpired ==
  ASSUME NEW S, NEW T, NEW q, NEW P, NEW t, Unexpired(S, t) = Unexpired(T, t)
  PROVE  Unexpired(AfterNews(S, q, P), t) = Unexpired(AfterNews(T, q, P), t)
<1>1. \A k : k.exp > t => (k \in S <=> k \in T)
  BY DEF Unexpired
<1> QED BY <1>1 DEF AfterNews, Unexpired

LEMMA AfterNoNews ==
  ASSUME NEW T, NEW P
  PROVE  AfterNews(T, <<>>, P) = {k \in T : k.addr \in P}
<1>1. LastNews(<<>>) = {}
  BY DEF LastNews
<1> QED BY <1>1 DEF AfterNews

-----------------------------------------------------------------------------
(* What an operation does to an orderly service.                           *)

LEMMA OrderlyFacts ==
  ASSUME NEW s, Orderly(s)
  PROVE  /\ s \in Raw
         /\ s.pool \in Pools /\ s.leases \in SUBSET Leases /\ s.pending \in SUBSET Leases
         /\ \A t : Prune(s, t) = [pool |-> s.pool, leases |-> Unexpired(s.leases, t),
                                  pending |-> Unexpired(s.pending, t), next |-> s.next]
<1>1. s \in Raw
  BY ServiceFacts DEF Orderly
<1>2. ASSUME NEW t
      PROVE  Prune(s, t) = [pool |-> s.pool, leases |-> Unexpired(s.leases, t),
                            pending |-> Unexpired(s.pending, t), next |-> s.next]
  <2> DEFINE q == [s EXCEPT !.leases = Unexpired(s.leases, t)]
  <2>1. q = [pool |-> s.pool, leases |-> Unexpired(s.leases, t),
             pending |-> s.pending, next |-> s.next]
    BY <1>1 DEF Raw
  <2>2. Prune(s, t) = [q EXCEPT !.pending = Unexpired(s.pending, t)]
    BY DEF Prune
  <2> HIDE DEF q
  <2> QED BY <2>1, <2>2
<1> QED BY <1>1, <1>2 DEF Raw

LEMMA PruneOrderly ==
  ASSUME NEW s, Orderly(s), NEW t \in Nat
  PROVE  Orderly(Prune(s, t))
<1>1. Prune(s, t) = [pool |-> s.pool, leases |-> Unexpired(s.leases, t),
                     pending |-> Unexpired(s.pending, t), next |-> s.next]
  BY OrderlyFacts
<1>2. Prune(s, t) \in Services
  BY PruneType DEF Orderly
<1>3. Unexpired(s.leases, t) \subseteq s.leases /\ Unexpired(s.pending, t) \subseteq s.pending
  BY DEF Unexpired
<1> QED BY <1>1, <1>2, <1>3 DEF Orderly

\* The address that is offered is of the pool, and nobody holds it.
LEMMA OfferOrderly ==
  ASSUME NEW s, Orderly(s), NEW mac \in Macs, NEW t \in Nat, NEW a \in FreeAddresses(s)
  PROVE  /\ Orderly(OfferOf(s, mac, a, t).svc)
         /\ OfferOf(s, mac, a, t).svc.pool = s.pool
         /\ OfferOf(s, mac, a, t).svc.leases = s.leases
<1> DEFINE new == Lease(mac, a, FreshTimestamp(t))
           q   == [s EXCEPT !.next = a + 1]
           o   == OfferOf(s, mac, a, t).svc
<1>1. s \in Raw /\ s.pool \in Pools /\ s.next \in s.pool.start .. s.pool.end
  BY ServiceFacts, PoolFacts DEF Raw, Orderly
<1>2. a \in Addresses(s.pool) /\ a \notin AddressesOf(Held(s))
  BY <1>1, PoolFacts, ScanStaysInRange DEF FreeAddresses
<1>3. o \in Services
  BY OfferType DEF Orderly
<1>4. new.addr = a
  BY DEF Lease
<1>5. o = [q EXCEPT !.pending = @ \cup {new}]
  BY DEF OfferOf
<1>6. q = [pool |-> s.pool, leases |-> s.leases, pending |-> s.pending, next |-> a + 1]
  BY <1>1 DEF Raw
<1> HIDE DEF q, new
<1>7. o.pool = s.pool /\ o.leases = s.leases /\ o.pending = s.pending \cup {new}
  BY <1>5, <1>6
<1>8. \A k \in s.leases \cup s.pending : k.addr # a
  BY <1>2 DEF AddressesOf, Held
<1> HIDE DEF o
<1>9. Orderly(o)
  BY <1>2, <1>3, <1>4, <1>7, <1>8 DEF Orderly
<1> QED BY <1>7, <1>9 DEF o

LEMMA DiscoverOrderly ==
  ASSUME NEW s, Orderly(s), NEW mac \in Macs, NEW t \in Nat, NEW o \in DiscoverLease(s, mac, t)
  PROVE  /\ Orderly(o.svc) /\ o.svc.pool = s.pool
         /\ o.svc.leases \subseteq s.leases
         /\ Unexpired(o.svc.leases, t) = Unexpired(s.leases, t)
<1>1. CASE \E l \in s.leases : o = [svc |-> s, offer |-> {l}]
  BY <1>1
<1> DEFINE p == Prune(s, t)
<1>2. /\ Orderly(p) /\ p.pool = s.pool
      /\ p.leases = Unexpired(s.leases, t)
  BY PruneOrderly, OrderlyFacts
<1>3. CASE o = [svc |-> p, offer |-> {}]
  BY <1>2, <1>3 DEF Unexpired
<1>4. CASE \E a \in FreeAddresses(p) : o = OfferOf(p, mac, a, t)
  <2>1. Orderly(o.svc) /\ o.svc.pool = p.pool /\ o.svc.leases = p.leases
    BY <1>2, <1>4, OfferOrderly
  <2> QED BY <1>2, <2>1 DEF Unexpired
<1> QED BY <1>1, <1>3, <1>4 DEF DiscoverLease

\* A commit moves the one offer, or replaces the one lease, of the address.
LEMMA CommitOrderly ==
  ASSUME NEW s, Orderly(s), NEW mac \in Macs, NEW addr \in Addresses(s.pool), NEW t \in Nat,
         NEW o \in CommitLease(s, mac, addr, t), NEW l \in o.acked
  PROVE  /\ Orderly(o.svc) /\ o.svc.pool = s.pool
         /\ l = Lease(mac, addr, t + LeaseTime) /\ l \in Leases
         /\ o.svc.leases = Replaced(s.leases, l)
<1> DEFINE new == Lease(mac, addr, FreshTimestamp(t))
           committed(k) == [s EXCEPT !.pending = @ \ {k}, !.leases = @ \cup {new}]
           renewed(k) == [s EXCEPT !.leases = (@ \ {k}) \cup {new}]
<1>1. addr \in Addresses(ConfigPool)
  BY OrderlyFacts, PoolFacts
<1>2. new \in Leases /\ new = Lease(mac, addr, t + LeaseTime) /\ new.mac = mac /\ new.addr = addr
  BY <1>1, LeaseType DEF Lease, FreshTimestamp
<1>3. s \in Raw
  BY OrderlyFacts
<1>4. o.svc \in Services
  BY <1>1, CommitType DEF Orderly
<1>5. CASE \E k \in Matching(s.pending, mac, addr) : o = [svc |-> committed(k), acked |-> {new}]
  <2>0. PICK k \in Matching(s.pending, mac, addr) : o = [svc |-> committed(k), acked |-> {new}]
    BY <1>5, Zenon
  <2>1. k \in s.pending /\ k.mac = mac /\ k.addr = addr /\ o.svc = committed(k) /\ l = new
    <3> HIDE DEF committed, new
    <3> QED BY <2>0 DEF Matching
  <2> DEFINE q == [s EXCEPT !.pending = @ \ {k}]
  <2>2. q = [pool |-> s.pool, leases |-> s.leases, pending |-> s.pending \ {k}, next |-> s.next]
    BY <1>3 DEF Raw
  <2>3. committed(k) = [q EXCEPT !.leases = @ \cup {new}]
    OBVIOUS
  <2> HIDE DEF q, new, committed
  <2>4. /\ o.svc.pool = s.pool /\ o.svc.pending = s.pending \ {k}
        /\ o.svc.leases = s.leases \cup {new}
    BY <2>1, <2>2, <2>3
  <2>5. \A j \in s.leases : j.addr # addr
    BY <2>1 DEF Orderly
  <2>6. Replaced(s.leases, new) = s.leases \cup {new}
    BY <1>2, <2>5 DEF Replaced, SameGrant
  <2>7. \A j \in s.pending \ {k} : j.addr # addr
    BY <2>1 DEF Orderly
  <2>8. Orderly(o.svc)
    BY <1>2, <1>4, <2>4, <2>5, <2>7 DEF Orderly, SameGrant
  <2> QED BY <1>2, <2>1, <2>4, <2>6, <2>8
<1>6. CASE \E k \in Matching(s.leases, mac, addr) : o = [svc |-> renewed(k), acked |-> {new}]
  <2>0. PICK k \in Matching(s.leases, mac, addr) : o = [svc |-> renewed(k), acked |-> {new}]
    BY <1>6, Zenon
  <2>1. k \in s.leases /\ k.mac = mac /\ k.addr = addr /\ o.svc = renewed(k) /\ l = new
    <3> HIDE DEF renewed, new
    <3> QED BY <2>0 DEF Matching
  <2> HIDE DEF new
  <2>2. /\ o.svc.pool = s.pool /\ o.svc.pending = s.pending
        /\ o.svc.leases = (s.leases \ {k}) \cup {new}
    BY <1>3, <2>1 DEF Raw
  <2>3. \A j \in s.leases \ {k} : j.addr # addr
    BY <2>1 DEF Orderly
  <2>4. Replaced(s.leases, new) = (s.leases \ {k}) \cup {new}
    BY <1>2, <2>1, <2>3 DEF Replaced, SameGrant
  <2>5. \A j \in s.pending : j.addr # addr
    BY <2>1 DEF Orderly
  <2>6. Orderly(o.svc)
    BY <1>2, <1>4, <2>2, <2>3, <2>5 DEF Orderly, SameGrant
  <2> QED BY <1>2, <2>1, <2>2, <2>4, <2>6
<1>7. CASE o = [svc |-> s, acked |-> {}]
  BY <1>7
<1>8. o \in {[svc |-> committed(k), acked |-> {new}] : k \in Matching(s.pending, mac, addr)}
            \cup {[svc |-> renewed(k), acked |-> {new}] : k \in Matching(s.leases, mac, addr)}
            \cup {[svc |-> s, acked |-> {}]}
  BY Zenon DEF CommitLease
<1> QED BY <1>5, <1>6, <1>7, <1>8

\* What is learnt from another node is of an address of no concern here.
LEMMA AddOrderly ==
  ASSUME NEW s, Orderly(s), NEW l \in Leases, l.addr \notin Addresses(s.pool),
         NEW s2 \in AddLease(s, l)
  PROVE  /\ Orderly(s2) /\ s2.pool = s.pool
         /\ s2.leases = Replaced(s.leases, l)
<1>1. s \in Raw /\ s2 \in Services
  BY OrderlyFacts, AddLeaseType DEF Orderly
<1>2. /\ s2.pool = s.pool /\ s2.pending = s.pending
      /\ s2.leases = Replaced(s.leases, l)
  <2>1. CASE Matching(s.leases, l.mac, l.addr) = {}
    <3>1. s2 = [s EXCEPT !.leases = @ \cup {l}]
      BY <2>1 DEF AddLease
    <3>2. Replaced(s.leases, l) = s.leases \cup {l}
      BY <2>1 DEF Matching, Replaced, SameGrant
    <3> QED BY <1>1, <3>1, <3>2 DEF Raw
  <2>2. CASE Matching(s.leases, l.mac, l.addr) # {}
    <3>1. PICK k \in Matching(s.leases, l.mac, l.addr) :
            s2 = [s EXCEPT !.leases = (@ \ {k}) \cup {l}]
      BY <2>2 DEF AddLease
    <3>2. k \in s.leases /\ SameGrant(k, l)
      BY <3>1 DEF Matching, SameGrant
    <3>3. \A j \in s.leases : SameGrant(j, l) <=> j = k
      BY <3>2 DEF Orderly, SameGrant
    <3>4. Replaced(s.leases, l) = (s.leases \ {k}) \cup {l}
      BY <3>3 DEF Replaced
    <3> QED BY <1>1, <3>1, <3>4 DEF Raw
  <2> QED BY <2>1, <2>2
<1>3. \A k \in s2.leases : k = l \/ (k \in s.leases /\ ~SameGrant(k, l))
  BY <1>2 DEF Replaced
<1>4. \A k, j \in s2.leases : SameGrant(k, j) => k = j
  BY <1>3 DEF Orderly, SameGrant
<1>5. \A k, j \in s2.leases : k.addr = j.addr /\ k.addr \in Addresses(s2.pool) => k = j
  BY <1>2, <1>3 DEF Orderly
<1>6. \A k \in s2.leases, j \in s2.pending : k.addr # j.addr
  BY <1>2, <1>3 DEF Orderly
<1>7. Orderly(s2)
  BY <1>1, <1>2, <1>4, <1>5, <1>6 DEF Orderly
<1> QED BY <1>2, <1>7

-----------------------------------------------------------------------------
(* The steps of the cluster.                                               *)

LEMMA ExpiredLater ==
  ASSUME NEW S \in SUBSET Leases, NEW T \in SUBSET Leases, NEW t \in Nat, NEW u \in Nat, t <= u,
         Unexpired(S, t) = Unexpired(T, t)
  PROVE  Unexpired(S, u) = Unexpired(T, u)
<1>1. \A k \in Leases : k.exp \in Nat
  BY DEF Leases
<1>2. \A k \in Leases : k.exp > u => k.exp > t
  BY <1>1
<1>3. \A k \in Leases : k.exp > t => (k \in S <=> k \in T)
  BY DEF Unexpired
<1> QED BY <1>2, <1>3 DEF Unexpired

LEMMA AfterNewsType ==
  ASSUME NEW i \in Nodes, NEW T \in SUBSET Leases, NEW q \in Seq(NewsOf(i)), NEW P
  PROVE  AfterNews(T, q, P) \in SUBSET Leases
<1>1. ASSUME NEW n \in 1 .. Len(q) PROVE q[n].lease \in Leases
  <2>1. q[n] \in NewsOf(i)
    BY ElementOfSeq
  <2> QED BY <2>1 DEF NewsOf
<1> QED BY <1>1 DEF AfterNews, LastNews

LEMMA CalmKept ==
  ASSUME Calm, UNCHANGED <<netVars, peers, timers>>
  PROVE  Calm'
BY DEF Calm, netVars

\* Nobody is assigned another share.
LEMMA PoolsKept ==
  ASSUME LInv, \A k \in Nodes : svc'[k].pool = svc[k].pool
  PROVE  /\ \A k \in Nodes : Own(k)' = Own(k) /\ NewsOf(k)' = NewsOf(k)
         /\ SharesDisjoint'
<1>1. \A k \in Nodes : Own(k)' = Own(k)
  BY DEF Own
<1> QED BY <1>1 DEF NewsOf, SharesDisjoint, LInv

\* A step that sends and handles nothing, and drops at most expired leases.
LEMMA PruningKeeps ==
  ASSUME LInv, UNCHANGED <<netVars, peers, timers, chan>>, Nodewise',
         now' \in Nat, now <= now',
         acked' \in SUBSET acked, LeaseTime > 0 => \A l \in acked' : l.exp > now',
         \A k \in Nodes : /\ svc'[k].pool = svc[k].pool
                          /\ svc'[k].leases \subseteq svc[k].leases
                          /\ Unexpired(svc'[k].leases, now) = Unexpired(svc[k].leases, now)
  PROVE  LInv'
<1>1. Calm'
  BY CalmKept DEF LInv
<1>2. SharesDisjoint' /\ \A k \in Nodes : Own(k)' = Own(k) /\ NewsOf(k)' = NewsOf(k)
  BY PoolsKept
<1>3. LeasesOwned'
  BY <1>2 DEF LeasesOwned, LInv
<1>4. Channels'
  BY <1>2 DEF Channels, LInv
<1>5. ASSUME NEW i \in Nodes, NEW j \in Nodes, i # j
      PROVE  InStep(i, j)'
  <2> DEFINE q == chan[<<i, j>>]
             P == Own(i)
             A(T) == AfterNews(T, q, P)
             B(S) == {k \in S : k.addr \in P}
  <2>1. q \in Seq(NewsOf(i)) /\ now \in Nat
    BY DEF LInv, Channels
  <2>2. /\ svc[i].leases \in SUBSET Leases /\ svc[j].leases \in SUBSET Leases
        /\ svc'[i].leases \in SUBSET Leases /\ svc'[j].leases \in SUBSET Leases
    BY OrderlyFacts DEF LInv, Nodewise
  <2>3. Unexpired(A(svc'[j].leases), now) = Unexpired(A(svc[j].leases), now)
    BY AfterNewsOfUnexpired
  <2>4. Unexpired(B(svc'[i].leases), now) = Unexpired(B(svc[i].leases), now)
    <3>1. \A k : k.exp > now => (k \in svc'[i].leases <=> k \in svc[i].leases)
      BY DEF Unexpired
    <3> QED BY <3>1 DEF Unexpired
  <2>5. Unexpired(A(svc[j].leases), now) = Unexpired(B(svc[i].leases), now)
    BY <1>5 DEF LInv, InStep
  <2>6. A(svc'[j].leases) \in SUBSET Leases /\ B(svc'[i].leases) \in SUBSET Leases
    BY <2>1, <2>2, AfterNewsType
  <2> HIDE DEF A, B
  <2>7. Unexpired(A(svc'[j].leases), now') = Unexpired(B(svc'[i].leases), now')
    BY <2>1, <2>3, <2>4, <2>5, <2>6, ExpiredLater
  <2> QED BY <1>2, <2>7 DEF InStep, A, B
<1>6. ASSUME LeaseTime > 0 PROVE AcksStand'
  <2> SUFFICES ASSUME NEW l \in acked'
               PROVE  l.exp > now' /\ \E i \in Nodes : l \in svc'[i].leases /\ l.addr \in Own(i)'
    BY DEF AcksStand
  <2>1. PICK i \in Nodes : l \in svc[i].leases /\ l.addr \in Own(i)
    BY <1>6 DEF LInv, AcksStand
  <2>2. l.exp > now
    BY <1>6 DEF LInv, AcksStand
  <2>3. l \in svc'[i].leases
    BY <2>1, <2>2 DEF Unexpired
  <2> QED BY <1>2, <1>6, <2>1, <2>3
<1>7. \A i, j \in Nodes : i # j => InStep(i, j)'
  BY <1>5
<1> QED BY <1>1, <1>2, <1>3, <1>4, <1>6, <1>7 DEF LInv

LEMMA LeaseMsgFacts ==
  ASSUME NEW l \in Leases, NEW i, l.addr \in Own(i)
  PROVE  LeaseMsg(l) \in NewsOf(i) /\ LeaseMsg(l).lease = l
BY DEF LeaseMsg, NewsOf

\* The news of a confirmed lease goes to every other node, and to no one else.
LEMMA NewsGoesToAll ==
  ASSUME Calm, UNCHANGED link, chan = [p \in Nodes \X Nodes |-> chan[p]],
         NEW i \in Nodes, NEW m, chan' = Post(chan, i, ToAll(peers[i], m))
  PROVE  /\ chan' = [p \in Nodes \X Nodes |-> chan'[p]]
         /\ \A b \in Nodes : b # i => chan'[<<i, b>>] = chan[<<i, b>>] \o <<m>>
         /\ \A a, b \in Nodes : a # i \/ b = i => chan'[<<a, b>>] = chan[<<a, b>>]
<1>1. chan' = [p \in Nodes \X Nodes |-> chan'[p]]
  BY DEF Post
<1>2. ASSUME NEW b \in Nodes, b # i
      PROVE  chan'[<<i, b>>] = chan[<<i, b>>] \o <<m>>
  <2>1. <<i, b>> \in link' /\ ToAll(peers[i], m)[b] = <<m>>
    BY <1>2 DEF Calm, ToAll
  <2> QED BY <2>1 DEF Post
<1>3. ASSUME NEW a \in Nodes, NEW b \in Nodes, a # i \/ b = i
      PROVE  chan'[<<a, b>>] = chan[<<a, b>>]
  <2>1. ~(a = i /\ <<a, b>> \in link')
    BY <1>3 DEF Calm
  <2> QED BY <2>1 DEF Post
<1> QED BY <1>1, <1>2, <1>3

\* Replacing what is known of one grant, in a table that is looked at for others.
LEMMA ReplacedElsewhere ==
  ASSUME NEW T, NEW l, NEW P, l.addr \notin P
  PROVE  \A k : k.addr \in P => (k \in Replaced(T, l) <=> k \in T)
BY DEF Replaced, SameGrant

LEMMA ReplacedUnexpired ==
  ASSUME NEW S, NEW T, NEW l, NEW t, Unexpired(S, t) = Unexpired(T, t)
  PROVE  Unexpired(Replaced(S, l), t) = Unexpired(Replaced(T, l), t)
<1>1. \A k : k.exp > t => (k \in S <=> k \in T)
  BY DEF Unexpired
<1> QED BY <1>1 DEF Replaced, Unexpired

LEMMA ReplacedPart ==
  ASSUME NEW S, NEW l, NEW P, l.addr \in P
  PROVE  {k \in Replaced(S, l) : k.addr \in P} = Replaced({k \in S : k.addr \in P}, l)
BY DEF Replaced

\* The node whose share it is grants a lease and sends the news.
LEMMA ConfirmSteps ==
  ASSUME LInv, NEW i \in Nodes, NEW mac \in Macs, NEW addr \in Own(i), ConfirmRequest(i, mac, addr)
  PROVE  LInv'
<1>1. PICK o \in CommitLease(svc[i], mac, addr, now) : \E k \in o.acked :
        /\ svc' = [svc EXCEPT ![i] = o.svc]
        /\ acked' = {a \in acked : a.mac # mac \/ a.addr # addr} \cup {k}
        /\ chan' = Post(chan, i, ToAll(peers[i], LeaseMsg(k)))
  BY DEF ConfirmRequest
<1>2. PICK l \in o.acked :
        /\ svc' = [svc EXCEPT ![i] = o.svc]
        /\ acked' = {a \in acked : a.mac # mac \/ a.addr # addr} \cup {l}
        /\ chan' = Post(chan, i, ToAll(peers[i], LeaseMsg(l)))
  BY <1>1
<1>3. Orderly(svc[i]) /\ now \in Nat /\ now' = now
  BY DEF LInv, Nodewise, ConfirmRequest
<1>4. /\ Orderly(o.svc) /\ o.svc.pool = svc[i].pool
      /\ l = Lease(mac, addr, now + LeaseTime) /\ l \in Leases
      /\ o.svc.leases = Replaced(svc[i].leases, l)
  BY <1>3, CommitOrderly DEF Own
<1>5. l.mac = mac /\ l.addr = addr /\ l.addr \in Own(i) /\ l.exp = now + LeaseTime
  BY <1>4 DEF Lease
<1>6. /\ Nodewise'
      /\ svc'[i] = o.svc /\ \A k \in Nodes \ {i} : svc'[k] = svc[k]
  BY <1>2, <1>4 DEF LInv, Nodewise
<1>7. \A k \in Nodes : svc'[k].pool = svc[k].pool
  BY <1>4, <1>6
<1>8. SharesDisjoint' /\ \A k \in Nodes : Own(k)' = Own(k) /\ NewsOf(k)' = NewsOf(k)
  BY <1>7, PoolsKept
<1>9. Calm'
  BY CalmKept DEF LInv, ConfirmRequest, electVars
<1> DEFINE m == LeaseMsg(l)
<1>10. m \in NewsOf(i) /\ m.lease = l
  BY <1>4, <1>5, LeaseMsgFacts
<1>11. /\ chan' = [p \in Nodes \X Nodes |-> chan'[p]]
       /\ \A b \in Nodes : b # i => chan'[<<i, b>>] = chan[<<i, b>>] \o <<m>>
       /\ \A a, b \in Nodes : a # i \/ b = i => chan'[<<a, b>>] = chan[<<a, b>>]
  BY <1>2, NewsGoesToAll DEF LInv, Channels, ConfirmRequest, netVars
<1> HIDE DEF m
<1>12. Channels'
  <2>1. ASSUME NEW a \in Nodes, NEW b \in Nodes
        PROVE  chan'[<<a, b>>] \in Seq(NewsOf(a))
    <3>1. chan[<<a, b>>] \in Seq(NewsOf(a))
      BY DEF LInv, Channels
    <3>2. CASE a = i /\ b # i
      <4>1. m \in NewsOf(a) /\ chan'[<<a, b>>] = chan[<<a, b>>] \o <<m>>
        BY <1>10, <1>11, <3>2
      <4> QED BY <3>1, <4>1, Appended
    <3>3. CASE a # i \/ b = i
      BY <1>11, <3>1, <3>3
    <3> QED BY <3>2, <3>3
  <2>2. \A a \in Nodes : chan'[<<a, a>>] = <<>>
    BY <1>11 DEF LInv, Channels
  <2> QED BY <1>8, <1>11, <2>1, <2>2 DEF Channels
<1>13. LeasesOwned'
  <2>1. ASSUME NEW a \in Nodes, NEW k \in svc'[a].leases
        PROVE  \E b \in Nodes : k.addr \in Own(b)
    <3>1. CASE k = l
      BY <1>5, <3>1
    <3>2. CASE k \in svc[a].leases
      BY <3>2 DEF LInv, LeasesOwned
    <3>3. k = l \/ k \in svc[a].leases
      BY <1>4, <1>6 DEF Replaced
    <3> QED BY <3>1, <3>2, <3>3
  <2> QED BY <1>8, <2>1 DEF LeasesOwned
<1>14. ASSUME NEW a \in Nodes, NEW b \in Nodes, a # b
       PROVE  InStep(a, b)'
  <2> DEFINE q == chan[<<a, b>>]
             P == Own(a)
             B(S) == {k \in S : k.addr \in P}
  <2>0. Unexpired(AfterNews(svc[b].leases, q, P), now) = Unexpired(B(svc[a].leases), now)
    BY <1>14 DEF LInv, InStep
  <2>1. q \in Seq(NewsOf(a))
    BY DEF LInv, Channels
  <2>2. SUFFICES Unexpired(AfterNews(svc'[b].leases, chan'[<<a, b>>], P), now)
                   = Unexpired(B(svc'[a].leases), now)
    BY <1>3, <1>8 DEF InStep
  <2>3. CASE a = i
    <3>1. chan'[<<a, b>>] = q \o <<m>> /\ svc'[b] = svc[b]
      BY <1>6, <1>11, <1>14, <2>3
    <3>2. AfterNews(svc[b].leases, q \o <<m>>, P) = Replaced(AfterNews(svc[b].leases, q, P), l)
      <4>1. m \in NewsOf(a)
        BY <1>10, <2>3
      <4> HIDE DEF q, P
      <4>2. AfterNews(svc[b].leases, q \o <<m>>, P) = Replaced(AfterNews(svc[b].leases, q, P), m.lease)
        BY <2>1, <4>1, AfterSending
      <4> QED BY <1>10, <4>2
    <3>3. B(svc'[a].leases) = Replaced(B(svc[a].leases), l)
      <4>1. svc'[a].leases = Replaced(svc[a].leases, l) /\ l.addr \in P
        BY <1>4, <1>5, <1>6, <2>3
      <4> HIDE DEF P
      <4> QED BY <4>1, ReplacedPart
    <3> HIDE DEF q, P, B
    <3> QED BY <2>0, <3>1, <3>2, <3>3, ReplacedUnexpired
  <2>4. CASE a # i
    <3>1. chan'[<<a, b>>] = q /\ svc'[a] = svc[a]
      BY <1>6, <1>11, <2>4
    <3>2. l.addr \notin P
      BY <1>5, <2>4 DEF LInv, SharesDisjoint
    <3>3. svc'[b].leases = svc[b].leases \/ svc'[b].leases = Replaced(svc[b].leases, l)
      BY <1>4, <1>6
    <3>4. \A k : k.addr \in P => (k \in svc'[b].leases <=> k \in svc[b].leases)
      BY <3>2, <3>3, ReplacedElsewhere
    <3>5. AfterNews(svc'[b].leases, q, P) = AfterNews(svc[b].leases, q, P)
      BY <3>4, AfterNewsOfPart
    <3> QED BY <2>0, <3>1, <3>5
  <2> QED BY <2>3, <2>4
<1>15. ASSUME LeaseTime > 0 PROVE AcksStand'
  <2> SUFFICES ASSUME NEW k \in acked'
               PROVE  k.exp > now /\ \E a \in Nodes : k \in svc'[a].leases /\ k.addr \in Own(a)
    BY <1>3, <1>8 DEF AcksStand
  <2>1. CASE k = l
    <3>1. k \in svc'[i].leases
      BY <1>4, <1>6, <2>1 DEF Replaced
    <3>2. now + LeaseTime > now
      BY <1>3, <1>15, LeaseTimeAssumption
    <3> QED BY <1>5, <2>1, <3>1, <3>2
  <2>2. CASE k \in acked /\ (k.mac # mac \/ k.addr # addr)
    <3>1. ~SameGrant(k, l)
      BY <1>5, <2>2 DEF SameGrant
    <3>2. k.exp > now
      BY <1>15, <2>2 DEF LInv, AcksStand
    <3>3. PICK a \in Nodes : k \in svc[a].leases /\ k.addr \in Own(a)
      BY <1>15, <2>2 DEF LInv, AcksStand
    <3>4. k \in svc'[a].leases
      BY <1>4, <1>6, <3>1, <3>3 DEF Replaced
    <3> QED BY <3>2, <3>3, <3>4
  <2> QED BY <1>2, <2>1, <2>2
<1>16. \A a, b \in Nodes : a # b => InStep(a, b)'
  BY <1>14
<1> QED BY <1>3, <1>6, <1>8, <1>9, <1>12, <1>13, <1>15, <1>16 DEF LInv

\* Another node handles the news.
LEMMA HandleLeaseSteps ==
  ASSUME LInv, NEW i \in Nodes, NEW j \in Nodes, HandleLease(i, j)
  PROVE  LInv'
<1> DEFINE news == chan[<<j, i>>]
           l == Head(news).lease
<1>1. /\ news # <<>> /\ chan' = [chan EXCEPT ![<<j, i>>] = Tail(@)]
      /\ news \in Seq(NewsOf(j))
      /\ i # j
  BY DEF HandleLease, Receives, Taken, LInv, Channels
<1>2. Head(news) \in NewsOf(j) /\ Tail(news) \in Seq(NewsOf(j))
  BY <1>1, Taking
<1>3. l \in Leases /\ l.addr \in Own(j) /\ l.addr \notin Own(i)
  BY <1>1, <1>2 DEF NewsOf, LInv, SharesDisjoint
<1>4. PICK s \in AddLease(svc[i], l) : svc' = [svc EXCEPT ![i] = s]
  BY DEF HandleLease
<1>5. Orderly(s) /\ s.pool = svc[i].pool /\ s.leases = Replaced(svc[i].leases, l)
  BY <1>3, <1>4, AddOrderly DEF LInv, Nodewise, Own
<1>6. Nodewise' /\ svc'[i] = s /\ \A k \in Nodes \ {i} : svc'[k] = svc[k]
  BY <1>4, <1>5 DEF LInv, Nodewise
<1>7. \A k \in Nodes : svc'[k].pool = svc[k].pool
  BY <1>5, <1>6
<1>8. SharesDisjoint' /\ \A k \in Nodes : Own(k)' = Own(k) /\ NewsOf(k)' = NewsOf(k)
  BY <1>7, PoolsKept
<1>9. Calm' /\ now' = now /\ acked' = acked
  BY CalmKept DEF LInv, HandleLease, electVars, clientVars
<1>10. /\ chan' = [p \in Nodes \X Nodes |-> chan'[p]]
       /\ chan'[<<j, i>>] = Tail(news)
       /\ \A a, b \in Nodes : a # j \/ b # i => chan'[<<a, b>>] = chan[<<a, b>>]
  BY <1>1 DEF LInv, Channels
<1>11. Channels'
  <2>1. ASSUME NEW a \in Nodes, NEW b \in Nodes
        PROVE  chan'[<<a, b>>] \in Seq(NewsOf(a))
    BY <1>2, <1>10 DEF LInv, Channels
  <2>2. \A a \in Nodes : chan'[<<a, a>>] = <<>>
    BY <1>1, <1>10 DEF LInv, Channels
  <2> QED BY <1>8, <1>10, <2>1, <2>2 DEF Channels
<1>12. LeasesOwned'
  <2>1. ASSUME NEW a \in Nodes, NEW k \in svc'[a].leases
        PROVE  \E b \in Nodes : k.addr \in Own(b)
    <3>1. CASE k = l
      BY <1>3, <3>1
    <3>2. CASE k \in svc[a].leases
      BY <3>2 DEF LInv, LeasesOwned
    <3>3. k = l \/ k \in svc[a].leases
      BY <1>5, <1>6 DEF Replaced
    <3> QED BY <3>1, <3>2, <3>3
  <2> QED BY <1>8, <2>1 DEF LeasesOwned
<1>13. ASSUME NEW a \in Nodes, NEW b \in Nodes, a # b
       PROVE  InStep(a, b)'
  <2> DEFINE q == chan[<<a, b>>]
             P == Own(a)
             B(S) == {k \in S : k.addr \in P}
  <2>0. Unexpired(AfterNews(svc[b].leases, q, P), now) = Unexpired(B(svc[a].leases), now)
    BY <1>13 DEF LInv, InStep
  <2>1. SUFFICES Unexpired(AfterNews(svc'[b].leases, chan'[<<a, b>>], P), now)
                   = Unexpired(B(svc'[a].leases), now)
    BY <1>8, <1>9 DEF InStep
  <2>2. B(svc'[a].leases) = B(svc[a].leases)
    <3>1. CASE a = i
      <4>1. svc'[a].leases = Replaced(svc[a].leases, l) /\ l.addr \notin P
        BY <1>3, <1>5, <1>6, <3>1
      <4> HIDE DEF l, P
      <4>2. \A k : k.addr \in P => (k \in svc'[a].leases <=> k \in svc[a].leases)
        BY <4>1, ReplacedElsewhere
      <4> QED BY <4>2
    <3>2. CASE a # i
      BY <1>6, <3>2
    <3> QED BY <3>1, <3>2
  <2>3. AfterNews(svc'[b].leases, chan'[<<a, b>>], P) = AfterNews(svc[b].leases, q, P)
    <3>1. CASE a = j /\ b = i
      <4>1. svc'[b].leases = Replaced(svc[b].leases, l) /\ chan'[<<a, b>>] = Tail(news) /\ q = news
        BY <1>5, <1>6, <1>10, <3>1
      <4>2. Head(news).lease.addr \in P
        BY <1>3, <3>1
      <4>3. AfterNews(Replaced(svc[b].leases, Head(news).lease), Tail(news), P)
              = AfterNews(svc[b].leases, news, P)
        BY <1>1, <4>2, AfterHandling
      <4> QED BY <4>1, <4>3
    <3>2. CASE a # j /\ b = i
      <4>1. chan'[<<a, b>>] = q /\ svc'[b].leases = Replaced(svc[b].leases, l)
        BY <1>5, <1>6, <1>10, <3>2
      <4>2. l.addr \notin P
        BY <1>3, <3>2 DEF LInv, SharesDisjoint
      <4> HIDE DEF l, P, q
      <4>3. \A k : k.addr \in P => (k \in svc'[b].leases <=> k \in svc[b].leases)
        BY <4>1, <4>2, ReplacedElsewhere
      <4> QED BY <4>1, <4>3, AfterNewsOfPart
    <3>3. CASE b # i
      BY <1>6, <1>10, <3>3
    <3> QED BY <3>1, <3>2, <3>3
  <2> QED BY <2>0, <2>2, <2>3
<1>14. ASSUME LeaseTime > 0 PROVE AcksStand'
  <2> SUFFICES ASSUME NEW k \in acked
               PROVE  k.exp > now /\ \E a \in Nodes : k \in svc'[a].leases /\ k.addr \in Own(a)
    BY <1>8, <1>9 DEF AcksStand
  <2>1. k.exp > now
    BY <1>14 DEF LInv, AcksStand
  <2>2. PICK a \in Nodes : k \in svc[a].leases /\ k.addr \in Own(a)
    BY <1>14 DEF LInv, AcksStand
  <2>3. k \in svc'[a].leases
    <3>1. CASE a = i
      <4>1. k \in Replaced(svc[i].leases, l) <=> k \in svc[i].leases
        BY <1>3, <2>2, <3>1, ReplacedElsewhere
      <4> QED BY <1>5, <1>6, <2>2, <3>1, <4>1
    <3>2. CASE a # i
      BY <1>6, <2>2, <3>2
    <3> QED BY <3>1, <3>2
  <2> QED BY <2>1, <2>2, <2>3
<1>15. \A a, b \in Nodes : a # b => InStep(a, b)'
  BY <1>13
<1>16. now' \in Nat
  BY <1>9 DEF LInv
<1> QED BY <1>6, <1>8, <1>9, <1>11, <1>12, <1>14, <1>15, <1>16 DEF LInv

-----------------------------------------------------------------------------
(* The invariant.                                                          *)

\* Nothing fails, and a client confirms at the node whose share the address is of.
Undisturbed == ~Roaming /\ MayCrash = {} /\ MayBreak = {}

\* The shares of the coordinator (1) and of the others, in whatever order.
LEMMA SharesOfInit ==
  ASSUME StableInit
  PROVE  /\ svc = [i \in Nodes |-> svc[i]]
         /\ \A i \in Nodes : svc[i].pool \in Pools /\ svc[i] = NewService(svc[i].pool)
         /\ SharesDisjoint
<1> DEFINE others == Nodes \ {Coordinator}
           parts  == Cardinality(others) + 1
<1>1. PICK order \in Orders(others) :
        svc = [i \in Nodes |-> NewService(Share(others, IF i = Coordinator THEN 1 ELSE order[i]))]
  BY DEF StableInit, Stable
<1> DEFINE nth(i) == IF i = Coordinator THEN 1 ELSE order[i]
<1>2. parts \in Nat /\ parts > 0
  BY CountNodes
<1>3. /\ order \in [others -> 2 .. parts]
      /\ \A a, b \in others : order[a] = order[b] => a = b
  BY DEF Orders
<1> HIDE DEF parts
<1>4. \A i \in Nodes : nth(i) \in 1 .. parts
  BY <1>2, <1>3
<1>5. \A i, j \in Nodes : i # j => nth(i) # nth(j)
  BY <1>2, <1>3
<1>6. \A i \in Nodes : svc[i] = NewService(Share(others, nth(i)))
  BY <1>1
<1> HIDE DEF nth, others
<1>7. \A i \in Nodes : svc[i].pool = Share(others, nth(i)) /\ svc[i] = NewService(svc[i].pool)
  <2>1. \A p : NewService(p).pool = p
    BY DEF NewService
  <2> QED BY <1>6, <2>1
<1>8. \A i \in Nodes : Share(others, nth(i)) \in Pools
  BY <1>4, ShareIsPool DEF parts, others
<1>9. ASSUME NEW i \in Nodes, NEW j \in Nodes, i # j
      PROVE  Own(i) \cap Own(j) = {}
  <2>1. Own(i) = Addresses(Divide(ConfigPool, parts)[nth(i)])
    BY <1>7 DEF Own, Share, parts
  <2>2. Own(j) = Addresses(Divide(ConfigPool, parts)[nth(j)])
    BY <1>7 DEF Own, Share, parts
  <2>3. nth(i) \in 1 .. parts /\ nth(j) \in 1 .. parts /\ nth(i) # nth(j)
    BY <1>4, <1>5, <1>9
  <2> QED BY <1>2, <2>1, <2>2, <2>3, ConfigPoolAssumption, DivideDisjoint
<1> QED BY <1>1, <1>7, <1>8, <1>9 DEF SharesDisjoint

LEMMA InitLInv == StableInit => LInv
<1> SUFFICES ASSUME StableInit PROVE LInv
  OBVIOUS
<1>1. Calm /\ now = 0 /\ acked = {} /\ chan = [p \in Nodes \X Nodes |-> <<>>]
  BY DEF StableInit, Stable, Calm
<1>2. /\ svc = [i \in Nodes |-> svc[i]] /\ SharesDisjoint
      /\ \A i \in Nodes : svc[i].pool \in Pools /\ svc[i] = NewService(svc[i].pool)
  BY SharesOfInit
<1>3. ASSUME NEW i \in Nodes
      PROVE  Orderly(svc[i]) /\ svc[i].leases = {}
  <2> DEFINE p == svc[i].pool
  <2>1. /\ p \in Pools
        /\ svc[i] = [pool |-> p, leases |-> {}, pending |-> {}, next |-> p.start]
    BY <1>2 DEF NewService
  <2> HIDE DEF p
  <2>2. svc[i] \in Services /\ svc[i].leases = {} /\ svc[i].pending = {}
    BY <2>1, PoolFacts, ServiceFacts DEF Raw
  <2> QED BY <2>2 DEF Orderly
<1>4. Nodewise /\ LeasesOwned /\ AcksStand
  BY <1>1, <1>2, <1>3 DEF Nodewise, LeasesOwned, AcksStand
<1>5. Channels
  BY <1>1, EmptySeq DEF Channels
<1>6. ASSUME NEW i \in Nodes, NEW j \in Nodes
      PROVE  InStep(i, j)
  <2>1. AfterNews(svc[j].leases, <<>>, Own(i)) = {}
    BY <1>3, AfterNoNews
  <2> QED BY <1>1, <1>3, <2>1 DEF InStep
<1> QED BY <1>1, <1>2, <1>4, <1>5, <1>6 DEF LInv

LEMMA LeaseRequestSteps ==
  ASSUME LInv, NEW i \in Nodes, NEW mac \in Macs, LeaseRequest(i, mac)
  PROVE  LInv'
<1>1. PICK o \in DiscoverLease(svc[i], mac, now) : svc' = [svc EXCEPT ![i] = o.svc]
  BY DEF LeaseRequest
<1>2. Orderly(svc[i]) /\ now \in Nat
  BY DEF LInv, Nodewise
<1>3. /\ Orderly(o.svc) /\ o.svc.pool = svc[i].pool
      /\ o.svc.leases \subseteq svc[i].leases
      /\ Unexpired(o.svc.leases, now) = Unexpired(svc[i].leases, now)
  BY <1>1, <1>2, DiscoverOrderly
<1>4. Nodewise' /\ svc'[i] = o.svc /\ \A k \in Nodes \ {i} : svc'[k] = svc[k]
  BY <1>1, <1>3 DEF LInv, Nodewise
<1>5. \A k \in Nodes : /\ svc'[k].pool = svc[k].pool
                       /\ svc'[k].leases \subseteq svc[k].leases
                       /\ Unexpired(svc'[k].leases, now) = Unexpired(svc[k].leases, now)
  BY <1>3, <1>4
<1>6. UNCHANGED <<netVars, peers, timers, chan, now, acked>>
  BY DEF LeaseRequest, electVars, clientVars
<1>7. LeaseTime > 0 => \A l \in acked' : l.exp > now'
  BY <1>6 DEF LInv, AcksStand
<1> QED BY <1>2, <1>4, <1>5, <1>6, <1>7, PruningKeeps

LEMMA TickSteps == ASSUME LInv, Tick PROVE LInv'
<1>1. UNCHANGED <<netVars, peers, timers, chan, svc>> /\ now' = now + 1 /\ acked' = Unexpired(acked, now')
  BY DEF Tick, electVars
<1>2. now \in Nat /\ now' \in Nat /\ now <= now' /\ Nodewise'
  BY <1>1 DEF LInv, Nodewise
<1>3. acked' \in SUBSET acked /\ \A l \in acked' : l.exp > now'
  BY <1>1 DEF Unexpired
<1> QED BY <1>1, <1>2, <1>3, PruningKeeps

LEMMA StutterSteps == ASSUME LInv, UNCHANGED vars PROVE LInv'
<1>1. UNCHANGED <<netVars, peers, timers, chan, svc, now, acked>>
  BY DEF vars, netVars
<1>2. now' \in Nat /\ now <= now' /\ Nodewise'
  BY <1>1 DEF LInv, Nodewise
<1>3. LeaseTime > 0 => \A l \in acked' : l.exp > now'
  BY <1>1 DEF LInv, AcksStand
<1> QED BY <1>1, <1>2, <1>3, PruningKeeps

\* No connection, election or fault: what the other steps need is not there.
LEMMA OnlyLeases ==
  ASSUME Undisturbed, LInv, Next
  PROVE  \/ \E i, j \in Nodes : HandleLease(i, j)
         \/ \E i \in Nodes, mac \in Macs : LeaseRequest(i, mac)
         \/ \E i \in Nodes, mac \in Macs : \E addr \in Own(i) : ConfirmRequest(i, mac, addr)
         \/ Tick
<1>1. ASSUME NEW i \in Nodes, NEW j \in Nodes, NEW type, Receives(i, j, type)
      PROVE  type = "Lease"
  <2>1. chan[<<j, i>>] \in Seq(NewsOf(j)) /\ chan[<<j, i>>] # <<>>
    BY <1>1 DEF LInv, Channels, Receives
  <2>2. Head(chan[<<j, i>>]) \in NewsOf(j)
    BY <2>1, Taking
  <2> QED BY <1>1, <2>2 DEF Receives, NewsOf
<1>2. ASSUME NEW i \in Nodes, NEW j \in Nodes, Message(i, j)
      PROVE  HandleLease(i, j)
  BY <1>1, <1>2 DEF Message, HandleElection, ElectionPanics, HandleOkay, HandleCoordinator,
                    HandleLeaseTable, HandleSetPool
<1>3. ASSUME NEW i \in Nodes, NEW j \in Nodes
      PROVE  ~Connection(i, j)
  <2>1. i # j => j \in peers[i]
    BY DEF LInv, Calm
  <2>2. i > j => i # j
    BY NodesAssumption
  <2>3. ~CanConnect(i, j)
    BY <2>1, <2>2 DEF CanConnect
  <2>4. joining[i] = {} /\ lost = {}
    BY DEF LInv, Calm
  <2> QED BY <2>3, <2>4 DEF Connection, Handshake, HandshakePanics, Establish, RemovePeer
<1>4. ASSUME NEW i \in Nodes
      PROVE  ~FinishElection(i)
  BY DEF FinishElection, LInv, Calm
<1>5. ~Fault
  BY DEF Undisturbed, Fault, Crash, Restart, Break, HandshakeFails, LInv, Calm
<1>6. ASSUME NEW i \in Nodes, Client(i)
      PROVE  \/ \E mac \in Macs : LeaseRequest(i, mac)
             \/ \E mac \in Macs : \E addr \in Own(i) : ConfirmRequest(i, mac, addr)
  BY <1>6 DEF Client, Asked, Own, Undisturbed
<1> QED BY <1>2, <1>3, <1>4, <1>5, <1>6 DEF Next

LEMMA NextLInv == ASSUME Undisturbed, LInv, [Next]_vars PROVE LInv'
<1>1. CASE Next
  BY <1>1, OnlyLeases, HandleLeaseSteps, LeaseRequestSteps, ConfirmSteps, TickSteps
<1>2. CASE UNCHANGED vars
  BY <1>2, StutterSteps
<1> QED BY <1>1, <1>2

LEMMA LeasesInvariance == ASSUME Undisturbed PROVE LeasesSpec => []LInv
<1>1. LInv /\ [Next]_vars => LInv'
  BY NextLInv
<1> QED BY <1>1, InitLInv, PTL DEF LeasesSpec

-----------------------------------------------------------------------------
LEMMA LInvRecorded == ASSUME LInv, LeaseTime > 0 PROVE AckIsRecorded
BY DEF LInv, AcksStand, AckIsRecorded, Own

LEMMA LInvNoDoubleGrant == ASSUME LInv, LeaseTime > 0 PROVE NoDoubleGrant
<1> SUFFICES ASSUME NEW k \in acked, NEW l \in acked, k.addr = l.addr PROVE k.mac = l.mac
  BY DEF NoDoubleGrant
<1>1. PICK i \in Nodes : k \in svc[i].leases /\ k.addr \in Own(i)
  BY DEF LInv, AcksStand
<1>2. PICK j \in Nodes : l \in svc[j].leases /\ l.addr \in Own(j)
  BY DEF LInv, AcksStand
<1>3. i = j
  BY <1>1, <1>2 DEF LInv, SharesDisjoint
<1>4. k = l
  BY <1>1, <1>2, <1>3 DEF LInv, Nodewise, Orderly, Own
<1> QED BY <1>4

LEMMA LInvAgree == LInv => TablesAgree
<1> SUFFICES ASSUME LInv, \A p \in Nodes \X Nodes : chan[p] = <<>>
             PROVE  \A i, j \in Nodes : Unexpired(svc[i].leases, now) = Unexpired(svc[j].leases, now)
  BY Zenon DEF TablesAgree
<1> SUFFICES \A i, j \in Nodes : \A l \in Unexpired(svc[i].leases, now) :
               l \in Unexpired(svc[j].leases, now)
  <2> DEFINE inForce(i) == Unexpired(svc[i].leases, now)
  <2> HIDE DEF inForce
  <2>1. (\A i, j \in Nodes : \A l \in inForce(i) : l \in inForce(j))
          => \A i, j \in Nodes : inForce(i) = inForce(j)
    OBVIOUS
  <2> QED BY <2>1, Zenon DEF inForce
<1> TAKE i, j \in Nodes
<1> TAKE l \in Unexpired(svc[i].leases, now)
<1>1. ASSUME NEW a \in Nodes, NEW b \in Nodes, l.addr \in Own(a)
      PROVE  l \in svc[a].leases <=> l \in svc[b].leases
  <2>1. CASE a = b
    BY <2>1
  <2>2. CASE a # b
    <3>1. chan[<<a, b>>] = <<>>
      OBVIOUS
    <3>2. Unexpired(AfterNews(svc[b].leases, chan[<<a, b>>], Own(a)), now)
            = Unexpired({k \in svc[a].leases : k.addr \in Own(a)}, now)
      BY <2>2 DEF LInv, InStep
    <3>4. AfterNews(svc[b].leases, <<>>, Own(a)) = {k \in svc[b].leases : k.addr \in Own(a)}
      BY AfterNoNews
    <3>5. Unexpired({k \in svc[b].leases : k.addr \in Own(a)}, now)
            = Unexpired({k \in svc[a].leases : k.addr \in Own(a)}, now)
      BY <3>1, <3>2, <3>4
    <3>3. l.exp > now
      BY DEF Unexpired
    <3> QED BY <1>1, <3>3, <3>5 DEF Unexpired
  <2> QED BY <2>1, <2>2
<1>2. l \in svc[i].leases /\ l.exp > now
  BY DEF Unexpired
<1>3. PICK a \in Nodes : l.addr \in Own(a)
  BY <1>2 DEF LInv, LeasesOwned
<1>4. l \in svc[j].leases
  BY <1>1, <1>2, <1>3
<1> QED BY <1>2, <1>4 DEF Unexpired

\* No two clients hold an unexpired Ack for one address (server.rs:327), however
\* many nodes grant leases from their shares (dhcp.rs:109, 132), as long as
\* nothing fails. A lease time of 0 would let a lease be pruned in the second it
\* is acknowledged.
THEOREM NeverGrantedTwice ==
  ASSUME Undisturbed, LeaseTime > 0
  PROVE  LeasesSpec => []NoDoubleGrant
BY LeasesInvariance, LInvNoDoubleGrant, PTL

\* An acknowledged lease stands, with that expiry, at the node whose share the
\* address is from, until it expires: no request, news or pruning (dhcp.rs:82,
\* 132, 165) takes it away or changes it.
THEOREM AcksAreRecorded ==
  ASSUME Undisturbed, LeaseTime > 0
  PROVE  LeasesSpec => []AckIsRecorded
BY LeasesInvariance, LInvRecorded, PTL

\* "Every node should have a consistent lease table state" (doc/design.md:39):
\* whenever no news of leases (server.rs:441) is on its way, all nodes have the
\* same leases in force.
THEOREM TablesComeToAgree ==
  ASSUME Undisturbed
  PROVE  LeasesSpec => []TablesAgree
BY LeasesInvariance, LInvAgree, PTL

-----------------------------------------------------------------------------
(* The cluster as an address book.                                         *)

\* No lease of a node's own runs longer than one granted now.
Dated ==
  \A i \in Nodes : \A l \in OwnLeases(i) : l.exp \in Nat /\ l.exp <= now + LeaseTime

LEMMA InForce ==
  \A k : k \in LeasesInForce <=> \E i \in Nodes : k \in OwnLeases(i) /\ k.exp > now
BY DEF LeasesInForce, Unexpired

\* Node i granted l: it is news to no other node's own leases, and replaces the
\* grant of that address, which was the same client's.
Granted(i, l) ==
  /\ now' = now
  /\ l \in Leases /\ l.addr \in Own(i) /\ l.exp = now + LeaseTime
  /\ OwnLeases(i)' = Replaced(OwnLeases(i), l)
  /\ \A k \in Nodes \ {i} : OwnLeases(k)' = OwnLeases(k)
  /\ \A k \in OwnLeases(i) : k.addr = l.addr => k.mac = l.mac

\* Expired leases were pruned, or nothing happened.
Pruned ==
  /\ now' = now
  /\ \A k \in Nodes : /\ OwnLeases(k)' \subseteq OwnLeases(k)
                      /\ Unexpired(OwnLeases(k)', now) = Unexpired(OwnLeases(k), now)

LEMMA ConfirmGrants ==
  ASSUME LInv, NEW i \in Nodes, NEW mac \in Macs, NEW addr \in Own(i), ConfirmRequest(i, mac, addr)
  PROVE  \E l \in Leases : Granted(i, l)
<1>1. PICK o \in CommitLease(svc[i], mac, addr, now) : \E l \in o.acked : svc' = [svc EXCEPT ![i] = o.svc]
  BY DEF ConfirmRequest
<1>2. PICK l \in o.acked : svc' = [svc EXCEPT ![i] = o.svc]
  BY <1>1
<1>3. Orderly(svc[i]) /\ now \in Nat /\ now' = now
  BY DEF LInv, Nodewise, ConfirmRequest
<1>4. /\ Orderly(o.svc) /\ o.svc.pool = svc[i].pool
      /\ l = Lease(mac, addr, now + LeaseTime) /\ l \in Leases
      /\ o.svc.leases = Replaced(svc[i].leases, l)
  BY <1>3, CommitOrderly DEF Own
<1>5. l.mac = mac /\ l.addr = addr /\ l.addr \in Own(i) /\ l.exp = now + LeaseTime
  BY <1>4 DEF Lease
<1>6. svc'[i] = o.svc /\ \A k \in Nodes \ {i} : svc'[k] = svc[k]
  BY <1>2 DEF LInv, Nodewise
<1>7. OwnLeases(i)' = Replaced(OwnLeases(i), l)
  BY <1>4, <1>5, <1>6 DEF OwnLeases, Own, Replaced
<1>8. \A k \in Nodes \ {i} : OwnLeases(k)' = OwnLeases(k)
  BY <1>6 DEF OwnLeases
<1>9. ASSUME NEW k \in OwnLeases(i), k.addr = l.addr PROVE k.mac = l.mac
  <2>1. CASE SameGrant(k, l)
    BY <2>1 DEF SameGrant
  <2>2. CASE ~SameGrant(k, l)
    <3>1. k \in o.svc.leases /\ l \in o.svc.leases
      BY <1>4, <2>2 DEF OwnLeases, Replaced
    <3>2. k = l
      BY <1>4, <1>5, <1>9, <3>1 DEF Orderly, Own
    <3> QED BY <3>2
  <2> QED BY <2>1, <2>2
<1> QED BY <1>3, <1>4, <1>5, <1>7, <1>8, <1>9 DEF Granted

\* News from another node is about no lease of this node's own.
LEMMA NewsIsOfOthers ==
  ASSUME LInv, NEW i \in Nodes, NEW j \in Nodes, HandleLease(i, j)
  PROVE  Pruned
<1> DEFINE news == chan[<<j, i>>]
           l == Head(news).lease
<1>1. news # <<>> /\ news \in Seq(NewsOf(j)) /\ i # j
  BY DEF HandleLease, Receives, LInv, Channels
<1>2. Head(news) \in NewsOf(j)
  BY <1>1, Taking
<1>3. l \in Leases /\ l.addr \in Own(j) /\ l.addr \notin Own(i)
  BY <1>1, <1>2 DEF NewsOf, LInv, SharesDisjoint
<1>4. PICK s \in AddLease(svc[i], l) : svc' = [svc EXCEPT ![i] = s]
  BY DEF HandleLease
<1>5. s.pool = svc[i].pool /\ s.leases = Replaced(svc[i].leases, l)
  BY <1>3, <1>4, AddOrderly DEF LInv, Nodewise, Own
<1>6. svc'[i] = s /\ \A k \in Nodes \ {i} : svc'[k] = svc[k]
  BY <1>4 DEF LInv, Nodewise
<1>7. now' = now
  BY DEF HandleLease, clientVars
<1> HIDE DEF l
<1>8. OwnLeases(i)' = OwnLeases(i)
  BY <1>3, <1>5, <1>6 DEF OwnLeases, Own, Replaced, SameGrant
<1>9. \A k \in Nodes : OwnLeases(k)' = OwnLeases(k)
  BY <1>6, <1>8 DEF OwnLeases
<1> QED BY <1>7, <1>9 DEF Pruned

LEMMA RequestPrunes ==
  ASSUME LInv, NEW i \in Nodes, NEW mac \in Macs, LeaseRequest(i, mac)
  PROVE  Pruned
<1>1. PICK o \in DiscoverLease(svc[i], mac, now) : svc' = [svc EXCEPT ![i] = o.svc]
  BY DEF LeaseRequest
<1>2. Orderly(svc[i]) /\ now \in Nat /\ now' = now
  BY DEF LInv, Nodewise, LeaseRequest, clientVars
<1>3. /\ o.svc.pool = svc[i].pool /\ o.svc.leases \subseteq svc[i].leases
      /\ Unexpired(o.svc.leases, now) = Unexpired(svc[i].leases, now)
  BY <1>1, <1>2, DiscoverOrderly
<1>4. svc'[i] = o.svc /\ \A k \in Nodes \ {i} : svc'[k] = svc[k]
  BY <1>1 DEF LInv, Nodewise
<1>5. ASSUME NEW k \in Nodes
      PROVE  /\ OwnLeases(k)' \subseteq OwnLeases(k)
             /\ Unexpired(OwnLeases(k)', now) = Unexpired(OwnLeases(k), now)
  <2>1. /\ svc'[k].pool = svc[k].pool /\ svc'[k].leases \subseteq svc[k].leases
        /\ Unexpired(svc'[k].leases, now) = Unexpired(svc[k].leases, now)
    BY <1>3, <1>4
  <2> QED BY <2>1 DEF OwnLeases, Unexpired
<1> QED BY <1>2, <1>5 DEF Pruned

\* Only a confirmation and time change what is in force.
LEMMA GrantsChange ==
  ASSUME Undisturbed, LInv, [Next]_vars
  PROVE  \/ Pruned
         \/ \E i \in Nodes : \E l \in Leases : Granted(i, l)
         \/ now' = now + 1 /\ \A k \in Nodes : OwnLeases(k)' = OwnLeases(k)
<1>1. CASE UNCHANGED vars
  BY <1>1 DEF vars, Pruned, OwnLeases
<1>2. CASE Tick
  BY <1>2 DEF Tick, OwnLeases
<1> QED BY <1>1, <1>2, OnlyLeases, NewsIsOfOthers, RequestPrunes, ConfirmGrants

LEMMA NextDated == ASSUME Undisturbed, LInv, Dated, [Next]_vars PROVE Dated'
<1>1. now \in Nat
  BY DEF LInv
<1>2. CASE Pruned
  BY <1>2 DEF Pruned, Dated
<1>3. ASSUME NEW i \in Nodes, NEW l \in Leases, Granted(i, l) PROVE Dated'
  BY <1>1, <1>3, LeaseTimeAssumption DEF Granted, Replaced, Dated
<1>4. CASE now' = now + 1 /\ \A k \in Nodes : OwnLeases(k)' = OwnLeases(k)
  BY <1>1, <1>4, LeaseTimeAssumption DEF Dated
<1> QED BY <1>2, <1>3, <1>4, GrantsChange

\* What a node grants, no client has from any other node: shares are disjoint.
LEMMA NextBook ==
  ASSUME Undisturbed, LeaseTime > 0, LInv, Dated, [Next]_vars
  PROVE  [Book!Next]_(Book!vars)
<1>1. now \in Nat
  BY DEF LInv
<1>2. \A k : k \in LeasesInForce' <=> \E i \in Nodes : k \in OwnLeases(i)' /\ k.exp > now'
  BY DEF LeasesInForce, Unexpired
<1>3. CASE Pruned
  <2>1. \A k : k \in LeasesInForce' <=> k \in LeasesInForce
    BY <1>2, <1>3, InForce DEF Pruned, Unexpired
  <2> QED BY <1>3, <2>1 DEF Pruned, Book!vars
<1>4. ASSUME NEW i \in Nodes, NEW l \in Leases, Granted(i, l) PROVE Book!Next
  <2> DEFINE old == {k \in LeasesInForce : SameGrant(k, l)}
  <2>1. l.exp > now /\ now' = now /\ l.exp = now + LeaseTime
    BY <1>1, <1>4, LeaseTimeAssumption DEF Granted
  <2>2. ASSUME NEW k \in LeasesInForce, k.addr = l.addr
        PROVE  k \in OwnLeases(i) /\ k.mac = l.mac /\ k.exp <= l.exp
    <3>1. PICK j \in Nodes : k \in OwnLeases(j)
      BY InForce
    <3>2. j = i
      BY <1>4, <2>2, <3>1 DEF Granted, OwnLeases, Own, LInv, SharesDisjoint
    <3> QED BY <1>4, <2>1, <2>2, <3>1, <3>2 DEF Granted, Dated
  <2>3. ASSUME NEW k
        PROVE  k \in LeasesInForce' <=> k \in (LeasesInForce \ old) \cup {l}
    <3>1. CASE k = l
      BY <1>2, <1>4, <2>1, <3>1 DEF Granted, Replaced
    <3>2. CASE k # l /\ SameGrant(k, l)
      <4>1. k \notin OwnLeases(i)'
        BY <1>4, <3>2 DEF Granted, Replaced
      <4>2. ASSUME NEW j \in Nodes \ {i} PROVE k \notin OwnLeases(j)'
        BY <1>4, <3>2 DEF Granted, OwnLeases, Own, SameGrant, LInv, SharesDisjoint
      <4> QED BY <1>2, <3>2, <4>1, <4>2
    <3>3. CASE k # l /\ ~SameGrant(k, l)
      <4>1. \A j \in Nodes : k \in OwnLeases(j)' <=> k \in OwnLeases(j)
        BY <1>4, <3>3 DEF Granted, Replaced
      <4> QED BY <1>2, <2>1, <3>3, <4>1, InForce
    <3> QED BY <3>1, <3>2, <3>3
  <2>4. /\ LeasesInForce' = (LeasesInForce \ old) \cup {l}
        /\ old \in SUBSET {k \in LeasesInForce : k.addr = l.addr}
    BY <2>3 DEF SameGrant
  <2> HIDE DEF old
  <2>5. Book!Grant(l)
    BY <2>1, <2>2, <2>4 DEF Book!Grant
  <2>6. l \in LeasesInForce' \cap Book!Grants
    BY <2>4 DEF Book!Grants, Leases
  <2> QED BY <2>5, <2>6 DEF Book!Next
<1>5. CASE now' = now + 1 /\ \A k \in Nodes : OwnLeases(k)' = OwnLeases(k)
  <2>1. \A k \in LeasesInForce : k.exp \in Nat
    BY InForce DEF Dated
  <2>2. ASSUME NEW k
        PROVE  k \in LeasesInForce' <=> k \in LeasesInForce /\ k.exp > now'
    <3>1. ASSUME NEW i \in Nodes, k \in OwnLeases(i), k.exp > now' PROVE k.exp > now
      BY <1>1, <1>5, <3>1 DEF Dated
    <3> QED BY <1>2, <1>5, <3>1, InForce
  <2>3. LeasesInForce' = {k \in LeasesInForce : k.exp > now'}
    BY <2>2
  <2>4. Book!Tick
    BY <1>1, <1>5, <2>3 DEF Book!Tick
  <2> QED BY <2>4 DEF Book!Next
<1> QED BY <1>3, <1>4, <1>5, GrantsChange

\* The nodes together, each with its share (server.rs:223) and its own table, are
\* one address book: what one of them grants (handle_confirm_request,
\* server.rs:397) stands until it expires, whatever is requested, learnt and
\* pruned at any node, is only lengthened, and no other node grants it.
THEOREM ClusterIsAddressBook ==
  ASSUME Undisturbed, LeaseTime > 0
  PROVE  LeasesSpec => ClusterKeepsAddressBook
<1>1. ASSUME StableInit PROVE LInv /\ Dated /\ Book!Init
  <2>1. PICK pool : svc = [i \in Nodes |-> NewService(pool[i])]
    <3>1. PICK order \in Orders(Nodes \ {Coordinator}) :
            svc = [i \in Nodes |->
              NewService(Share(Nodes \ {Coordinator}, IF i = Coordinator THEN 1 ELSE order[i]))]
      BY <1>1 DEF StableInit, Stable
    <3> DEFINE pool == [i \in Nodes |->
                 Share(Nodes \ {Coordinator}, IF i = Coordinator THEN 1 ELSE order[i])]
    <3>2. \A i \in Nodes : NewService(pool[i]) =
            NewService(Share(Nodes \ {Coordinator}, IF i = Coordinator THEN 1 ELSE order[i]))
      OBVIOUS
    <3> HIDE DEF pool
    <3>3. svc = [i \in Nodes |-> NewService(pool[i])]
      BY <3>1, <3>2, Zenon
    <3> QED BY <3>3
  <2>2. \A i \in Nodes : OwnLeases(i) = {}
    BY <2>1 DEF OwnLeases, NewService
  <2>3. \A k : k \notin LeasesInForce
    BY <2>2, InForce
  <2>4. now = 0
    BY <1>1 DEF StableInit
  <2> QED BY <1>1, <2>2, <2>3, <2>4, InitLInv DEF Dated, Book!Init
<1>2. LInv /\ Dated /\ [Next]_vars => LInv' /\ Dated'
  BY NextLInv, NextDated
<1>3. LInv /\ Dated /\ [Next]_vars => [Book!Next]_(Book!vars)
  BY NextBook
<1> QED BY <1>1, <1>2, <1>3, PTL DEF LeasesSpec, ClusterKeepsAddressBook, Book!Spec
-----------------------------------------------------------------------------
(* How a cluster gets here. Until a client asks, tables are empty, and the *)
(* cursor is where set_pool put it.                                        *)

NoRequests == \A i \in Nodes : ~Client(i)

\* A service without a promise.
Unused(s) == s = NewService(s.pool)

\* Messages that tell of no lease.
Leaseless == {m \in Messages : m.type # "Lease" /\ (m.type = "LeaseTable" => m.leases = {})}

CleanChan(c) == \A p \in Nodes \X Nodes : c[p] \in Seq(Leaseless)

Clean == acked = {} /\ (\A i \in Nodes : Unused(svc[i])) /\ CleanChan(chan)

LEMMA LeaselessMessages ==
  /\ Election \in Leaseless /\ Okay \in Leaseless
  /\ \A b \in BOOLEAN : CoordinatorMsg(b) \in Leaseless
  /\ \A p \in Pools : SetPoolMsg(p) \in Leaseless
  /\ LeaseTableMsg({}) \in Leaseless
<1>1. \A m \in Messages : m.type \notin {"Lease", "LeaseTable"} => m \in Leaseless
  BY DEF Leaseless
<1>2. LeaseTableMsg({}) \in Leaseless
  BY MessageTypes DEF Leaseless, LeaseTableMsg
<1> QED BY <1>1, <1>2, MessageTypes

LEMMA UnusedFields ==
  ASSUME NEW s, Unused(s)
  PROVE  /\ s = [pool |-> s.pool, leases |-> {}, pending |-> {}, next |-> s.pool.start]
         /\ s.leases = {}
BY DEF Unused, NewService

LEMMA NewIsUnused == ASSUME NEW p PROVE Unused(NewService(p))
<1>1. NewService(p).pool = p
  BY DEF NewService
<1> QED BY <1>1 DEF Unused

LEMMA SetPoolUnused ==
  ASSUME NEW s, Unused(s), NEW p
  PROVE  Unused(SetPool(s, p))
<1> DEFINE q == [s EXCEPT !.pool = p]
<1>1. q = [pool |-> p, leases |-> {}, pending |-> {}, next |-> s.pool.start]
  BY UnusedFields
<1>2. SetPool(s, p) = [q EXCEPT !.next = p.start]
  BY DEF SetPool
<1> HIDE DEF q
<1>3. SetPool(s, p) = NewService(p)
  BY <1>1, <1>2 DEF NewService
<1> QED BY <1>3, NewIsUnused

LEMMA PostClean ==
  ASSUME NEW ch, CleanChan(ch), NEW i \in Nodes, NEW mail, \A j \in Nodes : mail[j] \in Seq(Leaseless)
  PROVE  CleanChan(Post(ch, i, mail))
<1> SUFFICES ASSUME NEW p \in Nodes \X Nodes PROVE Post(ch, i, mail)[p] \in Seq(Leaseless)
  BY DEF CleanChan
<1>1. ch[p] \in Seq(Leaseless) /\ mail[p[2]] \in Seq(Leaseless)
  BY DEF CleanChan
<1>2. ch[p] \o mail[p[2]] \in Seq(Leaseless)
  BY <1>1, ConcatProperties
<1> QED BY <1>1, <1>2 DEF Post

LEMMA OneToAll ==
  ASSUME NEW ps, NEW m \in Leaseless, NEW j \in Nodes
  PROVE  ToAll(ps, m)[j] \in Seq(Leaseless)
<1>1. <<m>> \in Seq(Leaseless) /\ <<>> \in Seq(Leaseless)
  OBVIOUS
<1> QED BY <1>1 DEF ToAll

LEMMA OneTo ==
  ASSUME NEW k \in Nodes, NEW m \in Leaseless, NEW j \in Nodes
  PROVE  To(k, m)[j] \in Seq(Leaseless)
<1>1. <<m>> \in Seq(Leaseless) /\ <<>> \in Seq(Leaseless)
  OBVIOUS
<1> QED BY <1>1 DEF To, Nothing

LEMMA TakenClean ==
  ASSUME IInv, CleanChan(chan), NEW i \in Nodes, NEW j \in Nodes, NEW type, Receives(i, j, type)
  PROVE  CleanChan(Taken(i, j)) /\ Head(chan[<<j, i>>]) \in Leaseless
<1>1. chan[<<j, i>>] \in Seq(Leaseless) /\ chan[<<j, i>>] # <<>>
  BY DEF CleanChan, Receives
<1>2. Head(chan[<<j, i>>]) \in Leaseless /\ Tail(chan[<<j, i>>]) \in Seq(Leaseless)
  BY <1>1, HeadTailProperties
<1>3. chan = [p \in Nodes \X Nodes |-> chan[p]]
  BY DEF IInv, IsChan
<1> QED BY <1>2, <1>3 DEF CleanChan, Taken

LEMMA LeaderClean ==
  ASSUME IInv, Clean, NEW i \in Nodes, NEW ps \in SUBSET Nodes, NEW ch, CleanChan(ch),
         BecomeCoordinator(i, ps, ch)
  PROVE  CleanChan(chan') /\ \A k \in Nodes : Unused(svc'[k])
<1>1. PICK order \in Orders(ps) :
        /\ svc' = [svc EXCEPT ![i] = SetPool(@, Share(ps, 1))]
        /\ chan' = Post(ch, i, [j \in Nodes |-> IF j \in ps
             THEN <<CoordinatorMsg(HasMajority(ps)), SetPoolMsg(Share(ps, order[j]))>>
             ELSE <<>>])
  BY DEF BecomeCoordinator
<1> DEFINE mail == [j \in Nodes |-> IF j \in ps
             THEN <<CoordinatorMsg(HasMajority(ps)), SetPoolMsg(Share(ps, order[j]))>>
             ELSE <<>>]
<1>2. ASSUME NEW j \in Nodes PROVE mail[j] \in Seq(Leaseless)
  <2>1. ASSUME j \in ps PROVE Share(ps, order[j]) \in Pools
    <3>1. order[j] \in 2 .. Cardinality(ps) + 1 /\ Cardinality(ps) \in Nat
      BY <2>1, CountNodes DEF Orders
    <3>2. order[j] \in 1 .. Cardinality(ps) + 1
      BY <3>1
    <3> QED BY <3>2, ShareIsPool
  <2>2. HasMajority(ps) \in BOOLEAN
    BY DEF HasMajority
  <2>3. j \in ps => /\ CoordinatorMsg(HasMajority(ps)) \in Leaseless
                    /\ SetPoolMsg(Share(ps, order[j])) \in Leaseless
    BY <2>1, <2>2, LeaselessMessages
  <2>4. \A x, y \in Leaseless : <<x, y>> \in Seq(Leaseless)
    OBVIOUS
  <2>5. <<>> \in Seq(Leaseless)
    OBVIOUS
  <2> QED BY <2>3, <2>4, <2>5
<1>3. CleanChan(chan')
  <2> HIDE DEF mail
  <2>1. chan' = Post(ch, i, mail)
    BY <1>1 DEF mail
  <2> QED BY <1>2, <2>1, PostClean
<1>4. svc = [k \in Nodes |-> svc[k]]
  BY DEF IInv, Arrays
<1>5. ASSUME NEW k \in Nodes PROVE Unused(svc'[k])
  BY <1>1, <1>4, SetPoolUnused DEF Clean
<1> QED BY <1>3, <1>5

LEMMA ElectionClean ==
  ASSUME NEW i \in Nodes, NEW ps, NEW ch, CleanChan(ch), StartElection(i, ps, ch)
  PROVE  CleanChan(chan')
<1>1. \A j \in Nodes : ToAll({k \in ps : k > i}, Election)[j] \in Seq(Leaseless)
  BY OneToAll, LeaselessMessages
<1> QED BY <1>1, PostClean DEF StartElection

LEMMA HaltClean ==
  ASSUME IInv, Clean, NEW i \in Nodes, Halt(i)
  PROVE  Clean'
<1>1. svc = [k \in Nodes |-> svc[k]]
  BY DEF IInv, Arrays
<1>2. \A k \in Nodes : Unused(svc'[k])
  BY <1>1, NewIsUnused DEF Halt, Clean
<1>3. <<>> \in Seq(Leaseless)
  OBVIOUS
<1>4. CleanChan(chan')
  BY <1>3 DEF Halt, Clean, CleanChan
<1> QED BY <1>2, <1>4 DEF Halt, clientVars, Clean

\* Nothing but a client's request makes a lease or an offer.
LEMMA NextClean ==
  ASSUME IInv, Clean, [Next]_vars, [NoRequests]_vars
  PROVE  Clean'
<1>0. CASE UNCHANGED vars
  BY <1>0 DEF vars, Clean, CleanChan
<1> SUFFICES ASSUME Next, NoRequests PROVE Clean'
  BY <1>0
<1> USE LeaselessMessages
<1>1. /\ svc = [k \in Nodes |-> svc[k]]
      /\ peers \in [Nodes -> SUBSET Nodes]
      /\ acked = {} /\ CleanChan(chan)
      /\ \A k \in Nodes : Unused(svc[k]) /\ svc[k].leases = {}
  BY UnusedFields DEF IInv, Arrays, Clean
<1>2. UNCHANGED <<chan, svc, acked>> => Clean'
  BY <1>1 DEF Clean
<1>3. ASSUME acked' = acked, UNCHANGED svc, CleanChan(chan') PROVE Clean'
  BY <1>1, <1>3 DEF Clean
<1>4. ASSUME acked' = acked, NEW i \in Nodes, NEW ps \in SUBSET Nodes, NEW ch, CleanChan(ch),
             BecomeCoordinator(i, ps, ch)
      PROVE  Clean'
  BY <1>1, <1>4, LeaderClean DEF Clean
<1>5. ASSUME NEW i \in Nodes, NEW j \in Nodes
      PROVE  CleanChan(Post(chan, i, To(j, LeaseTableMsg(svc[i].leases))))
  <2>1. LeaseTableMsg(svc[i].leases) \in Leaseless
    BY <1>1
  <2>2. \A k \in Nodes : To(j, LeaseTableMsg(svc[i].leases))[k] \in Seq(Leaseless)
    BY <2>1, OneTo
  <2> QED BY <1>1, <2>2, PostClean
<1>6. ASSUME NEW i \in Nodes, NEW j \in Nodes, Message(i, j)
      PROVE  Clean'
  <2>1. \A type : Receives(i, j, type) => CleanChan(Taken(i, j)) /\ Head(chan[<<j, i>>]) \in Leaseless
    BY <1>1, TakenClean
  <2>2. CASE HandleElection(i, j)
    <3>1. \A k \in Nodes : To(j, Okay)[k] \in Seq(Leaseless)
      BY OneTo
    <3>2. CleanChan(Post(Taken(i, j), i, To(j, Okay)))
      BY <2>1, <2>2, <3>1, PostClean DEF HandleElection
    <3> QED BY <1>3, <2>2, <3>2, ElectionClean DEF HandleElection
  <2>3. CASE ElectionPanics(i, j)
    BY <2>3, HaltClean DEF ElectionPanics
  <2>4. CASE HandleOkay(i, j)
    BY <1>3, <2>1, <2>4 DEF HandleOkay, clientVars
  <2>5. CASE HandleCoordinator(i, j)
    <3>1. CleanChan(Taken(i, j))
      BY <2>1, <2>5 DEF HandleCoordinator
    <3>2. CleanChan(chan')
      BY <2>5, <3>1, ElectionClean DEF HandleCoordinator
    <3> QED BY <1>3, <2>5, <3>2 DEF HandleCoordinator, clientVars
  <2>6. CASE HandleLease(i, j)
    BY <2>1, <2>6 DEF HandleLease, Receives, Leaseless
  <2>7. CASE HandleLeaseTable(i, j)
    <3> DEFINE table == Head(chan[<<j, i>>]).leases
    <3>1. table = {}
      BY <2>1, <2>7 DEF HandleLeaseTable, Receives, Leaseless
    <3>2. svc' = [svc EXCEPT ![i].leases = IF Cardinality(@) < Cardinality(table) THEN table ELSE @]
      BY <2>7 DEF HandleLeaseTable
    <3>3. svc' = [svc EXCEPT ![i].leases = {}]
      <4> HIDE DEF table
      <4> QED BY <1>1, <3>1, <3>2
    <3>4. \A s : Unused(s) => [s EXCEPT !.leases = {}] = s
      BY UnusedFields
    <3>5. svc' = svc
      BY <1>1, <3>3, <3>4
    <3> QED BY <1>3, <2>1, <2>7, <3>5 DEF HandleLeaseTable, clientVars
  <2>8. CASE HandleSetPool(i, j)
    <3>1. \A k \in Nodes : Unused(svc'[k])
      BY <1>1, <2>8, SetPoolUnused DEF HandleSetPool
    <3> QED BY <1>1, <2>1, <2>8, <3>1 DEF HandleSetPool, clientVars, Clean
  <2> QED BY <1>6, <2>2, <2>3, <2>4, <2>5, <2>6, <2>7, <2>8 DEF Message
<1>7. ASSUME NEW i \in Nodes, NEW j \in Nodes, Connection(i, j)
      PROVE  Clean'
  <2>1. CASE Handshake(i, j)
    <3>1. CASE role[j] = "Coordinator"
      <4>1. peers[j] \cup {i} \in SUBSET Nodes
        BY <1>1
      <4> QED BY <1>4, <1>5, <2>1, <3>1, <4>1 DEF Handshake
    <3>2. CASE role[j] # "Coordinator"
      BY <1>3, <1>5, <2>1, <3>2 DEF Handshake
    <3> QED BY <3>1, <3>2
  <2>2. CASE HandshakePanics(i, j)
    BY <2>2, HaltClean DEF HandshakePanics
  <2>3. CASE Establish(i, j)
    BY <1>3, <1>5, <2>3, ElectionClean DEF Establish
  <2>4. CASE RemovePeer(i, j)
    <3> DEFINE rest == [chan EXCEPT ![<<j, i>>] = <<>>]
    <3>1. CleanChan(rest)
      <4>1. chan = [p \in Nodes \X Nodes |-> chan[p]]
        BY DEF IInv, IsChan
      <4>2. <<>> \in Seq(Leaseless)
        OBVIOUS
      <4> QED BY <1>1, <4>1, <4>2 DEF CleanChan
    <3>2. acked' = acked /\ peers[i] \ {j} \in SUBSET Nodes
      BY <1>1, <2>4 DEF RemovePeer
    <3> HIDE DEF rest
    <3>3. CASE BecomeCoordinator(i, peers[i] \ {j}, rest)
      BY <1>4, <3>1, <3>2, <3>3
    <3>4. CASE StartElection(i, peers[i] \ {j}, rest) /\ UNCHANGED svc
      BY <1>3, <3>1, <3>2, <3>4, ElectionClean
    <3>5. CASE chan' = rest /\ UNCHANGED svc
      BY <1>3, <3>1, <3>2, <3>5
    <3> QED BY <2>4, <3>3, <3>4, <3>5 DEF RemovePeer, rest
  <2> QED BY <1>7, <2>1, <2>2, <2>3, <2>4 DEF Connection
<1>8. ASSUME NEW i \in Nodes, FinishElection(i)
      PROVE  Clean'
  <2>1. peers[i] \in SUBSET Nodes
    BY <1>1
  <2> QED BY <1>1, <1>2, <1>4, <1>8, <2>1 DEF FinishElection, clientVars
<1>9. CASE Tick
  BY <1>1, <1>9 DEF Tick, Unexpired, Clean
<1>10. CASE Fault
  <2>1. ASSUME NEW i \in Nodes, Crash(i) PROVE Clean'
    BY <2>1, HaltClean DEF Crash
  <2>2. ASSUME NEW i \in Nodes, Restart(i) PROVE Clean'
    BY <1>2, <2>2 DEF Restart, clientVars
  <2>3. ASSUME NEW i \in Nodes, NEW j \in Nodes, Break(i, j) PROVE Clean'
    BY <1>2, <2>3 DEF Break, clientVars
  <2>4. ASSUME NEW i \in Nodes, NEW j \in Nodes, HandshakeFails(i, j) PROVE Clean'
    BY <1>1, <1>4, <2>4 DEF HandshakeFails, clientVars
  <2> QED BY <1>10, <2>1, <2>2, <2>3, <2>4 DEF Fault
<1> QED BY <1>6, <1>7, <1>8, <1>9, <1>10 DEF Next, NoRequests

LEMMA InitClean == Init => Clean
<1>1. <<>> \in Seq(Leaseless)
  OBVIOUS
<1> QED BY <1>1, NewIsUnused DEF Init, Clean, CleanChan

LEMMA CoordinatorIsTop ==
  ASSUME Cardinality(Nodes) > 1
  PROVE  Top(Coordinator)
BY HighestExists, FS_EmptySet DEF Coordinator, Top

LEMMA RestIsStable ==
  ASSUME Cardinality(Nodes) > 1, EInv(Coordinator), Clean,
         up = Nodes, Settled, Connected, timely
  PROVE  Stable
<1> DEFINE h == Coordinator
<1>1. Top(h) /\ h \in Nodes
  BY CoordinatorIsTop DEF Top
<1> HIDE DEF h
<1>2. IInv /\ Led(h) /\ Concluded(h) /\ Outcome(h)
  BY <1>1, ConcludedAtRest DEF EInv, h
<1>3. Whole /\ role[h] = "Coordinator"
  BY <1>2 DEF Concluded
<1>4. link = {p \in Nodes \X Nodes : p[1] # p[2]}
  <2>1. link \subseteq Nodes \X Nodes /\ \A i \in Nodes : <<i, i>> \notin link
    BY <1>2 DEF IInv, World, Led, Ends
  <2>2. \A i, j \in Nodes : i # j => <<i, j>> \in link
    BY <1>3 DEF Whole
  <2> QED BY <2>1, <2>2
<1>5. /\ lost = {}
      /\ joining = [i \in Nodes |-> {}]
      /\ peers = [i \in Nodes |-> Nodes \ {i}]
      /\ chan = [p \in Nodes \X Nodes |-> <<>>]
      /\ timers = [i \in Nodes |-> 0]
  BY <1>2, <1>3 DEF IInv, World, Arrays, IsChan, Whole, Settled, Quiet
<1>6. role = [i \in Nodes |-> IF i = h THEN "Coordinator" ELSE "Follower"]
  <2>1. HighestLeads
    BY <1>1, <1>2, LedElects DEF ElectsHighest
  <2>2. \A i \in Nodes : Highest(i) <=> i = h
    BY <1>1, NodesAssumption DEF Highest, Top
  <2> QED BY <1>2, <2>1, <2>2 DEF HighestLeads, IInv, Arrays
<1>7. /\ \A i \in Nodes : coord[i] = {h} /\ majority[i] = majority[h]
      /\ \E order \in Orders(Nodes \ {h}) : \A i \in Nodes :
           svc[i].pool = Share(Nodes \ {h}, IF i = h THEN 1 ELSE order[i])
  BY <1>1, <1>2, <1>3, OutcomeAtRest
<1>8. majority[h] = TRUE
  <2>1. Cardinality(peers[h]) = Cardinality(Nodes) - 1
    BY <1>1, <1>5, NodesAssumption, FS_RemoveElement
  <2>2. majority[h] = (2 * (Cardinality(peers[h]) + 1) > Cardinality(Nodes))
    BY <1>1, <1>2, <1>3 DEF IInv, CoordinatorKnowsItself
  <2>3. Cardinality(Nodes) \in Nat
    BY CountNodes
  <2>4. 2 * (Cardinality(peers[h]) + 1) > Cardinality(Nodes)
    BY <2>1, <2>3
  <2> QED BY <2>2, <2>4
<1>9. coord = [i \in Nodes |-> {h}] /\ majority = [i \in Nodes |-> TRUE]
  BY <1>2, <1>7, <1>8 DEF IInv, Arrays
<1>10. PICK order \in Orders(Nodes \ {h}) : \A i \in Nodes :
         svc[i].pool = Share(Nodes \ {h}, IF i = h THEN 1 ELSE order[i])
  BY <1>7
<1>11. svc = [i \in Nodes |-> NewService(Share(Nodes \ {h}, IF i = h THEN 1 ELSE order[i]))]
  <2>1. \A i \in Nodes : svc[i] = NewService(svc[i].pool)
    BY DEF Clean, Unused
  <2>2. svc = [i \in Nodes |-> svc[i]]
    BY <1>2 DEF IInv, Arrays
  <2> QED BY <1>10, <2>1, <2>2
<1> QED BY <1>4, <1>5, <1>6, <1>9, <1>11 DEF Stable, Clean, h

\* As long as no client asks, a cluster in which all nodes are up, connected and at
\* rest, its timers having been timely, is in the state from which LeasesSpec
\* starts: whatever connected, broke, crashed or was elected before, the highest
\* node leads, all know it and their majority, and the services are as set_pool
\* leaves them (server.rs:223, dhcp.rs:159).
THEOREM ElectionStabilizes ==
  ASSUME Cardinality(Nodes) > 1
  PROVE  Spec /\ [][NoRequests]_vars =>
           [](up = Nodes /\ Settled /\ Connected /\ timely => Stable)
<1>1. PICK h : h = Coordinator
  OBVIOUS
<1>2. Top(h)
  BY <1>1, CoordinatorIsTop
<1>3. Spec => []EInv(h)
  BY <1>2, Concluding
<1>4. Init => Clean
  BY InitClean
<1>5. EInv(h) /\ Clean /\ [Next]_vars /\ [NoRequests]_vars => Clean'
  BY NextClean DEF EInv
<1>6. EInv(h) /\ Clean => (up = Nodes /\ Settled /\ Connected /\ timely => Stable)
  BY <1>1, RestIsStable
<1> QED BY <1>3, <1>4, <1>5, <1>6, PTL DEF Spec
=============================================================================
