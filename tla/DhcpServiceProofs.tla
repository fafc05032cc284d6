-------------------------- MODULE DhcpServiceProofs --------------------------
(***************************************************************************)
(* DhcpService for every set of clients, pools and lease time: the type    *)
(* invariant, exclusive holders, the cursor, and the refinement of         *)
(* AddressBook.                                                            *)
(*                                                                         *)
(* The inductive invariant needs the cursor (without it a scan leaves the  *)
(* pool and the types are lost) and the bound on expiry times (without it  *)
(* a commit could shorten a grant).                                        *)
(***************************************************************************)
EXTENDS DhcpService, Ipv4RangeProofs

IInv == TypeOK /\ CursorInPool /\ ExclusiveHolder /\ BoundedLeases

-----------------------------------------------------------------------------
(* What one operation does to a service. "Good" gathers what the invariant *)
(* says of a service at a time.                                            *)

Good(s, t) ==
  /\ s \in [pool : Pools, leases : SUBSET Leases, pending : SUBSET Leases, next : Nat]
  /\ s.pool.start <= s.next /\ s.next <= s.pool.end
  /\ \A k, l \in Held(s) : k.addr = l.addr => k.mac = l.mac
  /\ \A l \in Held(s) : l.exp <= t + LeaseTime

LEMMA IInvIsGood == IInv <=> now \in Nat /\ Good(svc, now)
BY DEF IInv, TypeOK, CursorInPool, ExclusiveHolder, OneClientEach, BoundedLeases, Good, FreshTimestamp

\* A pool is a range, and its addresses are words.
LEMMA PoolFacts ==
  ASSUME NEW p \in Pools
  PROVE  /\ p \in Ranges /\ p.start \in Nat /\ p.end \in Nat /\ p.start <= p.end
         /\ Addresses(p) \subseteq PoolAddresses
         /\ \A a \in Addresses(p) : a \in Nat /\ p.start <= a /\ a < p.end
BY PoolsAssumption DEF Ranges, Addresses, PoolAddresses

\* Service::set_pool keeps the tables and puts the cursor into the new pool.
LEMMA SetPoolGood ==
  ASSUME NEW s, NEW t \in Nat, Good(s, t), NEW p \in Pools
  PROVE  Good(SetPool(s, p), t)
<1>1. SetPool(s, p) = [pool |-> p, leases |-> s.leases, pending |-> s.pending, next |-> p.start]
  <2> DEFINE q == [s EXCEPT !.pool = p]
  <2>1. q = [pool |-> p, leases |-> s.leases, pending |-> s.pending, next |-> s.next]
    BY DEF Good
  <2>2. SetPool(s, p) = [q EXCEPT !.next = p.start]
    BY DEF SetPool
  <2> HIDE DEF q
  <2> QED BY <2>1, <2>2
<1>2. Held(SetPool(s, p)) = Held(s)
  BY <1>1 DEF Held
<1> QED BY <1>1, <1>2, PoolFacts DEF Good

\* Pruning removes entries and changes nothing else.
LEMMA PruneGood ==
  ASSUME NEW s, NEW t \in Nat, Good(s, t)
  PROVE  /\ Good(Prune(s, t), t)
         /\ Prune(s, t) = [pool |-> s.pool, leases |-> Unexpired(s.leases, t),
                           pending |-> Unexpired(s.pending, t), next |-> s.next]
         /\ Held(Prune(s, t)) = Unexpired(Held(s), t)
<1>1. Prune(s, t) = [pool |-> s.pool, leases |-> Unexpired(s.leases, t),
                     pending |-> Unexpired(s.pending, t), next |-> s.next]
  <2> DEFINE q == [s EXCEPT !.leases = Unexpired(s.leases, t)]
  <2>1. q = [pool |-> s.pool, leases |-> Unexpired(s.leases, t),
             pending |-> s.pending, next |-> s.next]
    BY DEF Good
  <2>2. Prune(s, t) = [q EXCEPT !.pending = Unexpired(s.pending, t)]
    BY DEF Prune
  <2> HIDE DEF q
  <2> QED BY <2>1, <2>2
<1>2. Held(Prune(s, t)) = Unexpired(Held(s), t)
  BY <1>1 DEF Held, Unexpired
<1>3. /\ Unexpired(s.leases, t) \subseteq s.leases
      /\ Unexpired(s.pending, t) \subseteq s.pending
      /\ Unexpired(Held(s), t) \subseteq Held(s)
  BY DEF Unexpired
<1>4. Prune(s, t) \in [pool : Pools, leases : SUBSET Leases, pending : SUBSET Leases, next : Nat]
  BY <1>1, <1>3 DEF Good
<1> QED BY <1>1, <1>2, <1>3, <1>4 DEF Good

\* An offer is made from the pool, for an address nobody holds, to whom asked.
LEMMA OfferGood ==
  ASSUME NEW s, NEW t \in Nat, Good(s, t), NEW mac \in Macs, NEW a \in FreeAddresses(s)
  PROVE  /\ Good(OfferOf(s, mac, a, t).svc, t)
         /\ a \in Addresses(s.pool)
         /\ OfferOf(s, mac, a, t).svc =
              [pool |-> s.pool, leases |-> s.leases,
               pending |-> s.pending \cup {Lease(mac, a, t + LeaseTime)}, next |-> a + 1]
<1> DEFINE new == Lease(mac, a, t + LeaseTime)
           o   == OfferOf(s, mac, a, t).svc
<1>1. o = [pool |-> s.pool, leases |-> s.leases, pending |-> s.pending \cup {new}, next |-> a + 1]
  BY DEF Good, OfferOf, FreshTimestamp
<1>2. s.pool \in Pools /\ s.next \in s.pool.start .. s.pool.end
  BY PoolFacts DEF Good
<1>3. a \in Addresses(s.pool) /\ a \notin AddressesOf(Held(s))
  BY <1>2, PoolFacts, ScanStaysInRange DEF FreeAddresses
<1>4. a \in Nat /\ s.pool.start <= a + 1 /\ a + 1 <= s.pool.end /\ a \in PoolAddresses
  BY <1>2, <1>3, PoolFacts
<1>5. new \in Leases /\ new.mac = mac /\ new.addr = a /\ new.exp = t + LeaseTime
  BY <1>4, LeaseTimeAssumption DEF Lease, Leases
<1> HIDE DEF new
<1>6. o \in [pool : Pools, leases : SUBSET Leases, pending : SUBSET Leases, next : Nat]
  BY <1>1, <1>2, <1>4, <1>5 DEF Good
<1>7. Held(o) = Held(s) \cup {new}
  BY <1>1 DEF Held
<1>8. \A k \in Held(s) : k.addr # a
  BY <1>3 DEF AddressesOf
<1>9. \A k, l \in Held(o) : k.addr = l.addr => k.mac = l.mac
  BY <1>5, <1>7, <1>8 DEF Good
<1>10. \A l \in Held(o) : l.exp <= t + LeaseTime
  BY <1>5, <1>7, LeaseTimeAssumption DEF Good
<1>11. o.pool.start <= o.next /\ o.next <= o.pool.end
  BY <1>1, <1>4
<1>12. Good(o, t)
  BY <1>6, <1>9, <1>10, <1>11 DEF Good
<1> QED BY <1>1, <1>3, <1>12 DEF new

LEMMA DiscoverGood ==
  ASSUME NEW s, NEW t \in Nat, Good(s, t), NEW mac \in Macs,
         NEW o \in DiscoverLease(s, mac, t)
  PROVE  /\ Good(o.svc, t)
         /\ Unexpired(o.svc.leases, t) = Unexpired(s.leases, t)
         /\ o.svc.pool = s.pool
         /\ \A l \in o.svc.pending \ s.pending : l.addr \in Addresses(s.pool)
<1>1. CASE \E l \in s.leases : o = [svc |-> s, offer |-> {l}]
  BY <1>1
<1>2. CASE o = [svc |-> Prune(s, t), offer |-> {}]
  BY <1>2, PruneGood DEF Unexpired
<1>3. CASE \E a \in FreeAddresses(Prune(s, t)) : o = OfferOf(Prune(s, t), mac, a, t)
  <2>1. PICK a \in FreeAddresses(Prune(s, t)) : o = OfferOf(Prune(s, t), mac, a, t)
    BY <1>3
  <2> DEFINE p == Prune(s, t)
  <2>2. /\ Good(p, t)
        /\ p.pool = s.pool /\ p.leases = Unexpired(s.leases, t)
        /\ p.pending = Unexpired(s.pending, t)
    BY PruneGood
  <2> HIDE DEF p
  <2>3. /\ Good(o.svc, t)
        /\ a \in Addresses(p.pool)
        /\ o.svc = [pool |-> p.pool, leases |-> p.leases,
                    pending |-> p.pending \cup {Lease(mac, a, t + LeaseTime)}, next |-> a + 1]
    BY <2>1, <2>2, OfferGood DEF p
  <2>4. Lease(mac, a, t + LeaseTime).addr = a
    BY DEF Lease
  <2> QED BY <2>2, <2>3, <2>4 DEF Unexpired
<1> QED BY <1>1, <1>2, <1>3 DEF DiscoverLease

\* The step a service takes when it learns that a client has an address: the
\* table gains a lease and loses at most leases of that client and address.
Gains(s, s2, l, t) ==
  /\ l \in Leases /\ l.exp <= t + LeaseTime
  /\ \A k \in Held(s) : k.addr = l.addr => k.mac = l.mac
  /\ \E old \in SUBSET {k \in s.leases : k.addr = l.addr}, kept \in SUBSET s.pending :
       s2 = [pool |-> s.pool, leases |-> (s.leases \ old) \cup {l},
             pending |-> kept, next |-> s.next]

LEMMA GainsGood ==
  ASSUME NEW s, NEW s2, NEW t \in Nat, NEW l, Good(s, t), Gains(s, s2, l, t)
  PROVE  Good(s2, t)
<1>1. PICK old \in SUBSET {k \in s.leases : k.addr = l.addr}, kept \in SUBSET s.pending :
        s2 = [pool |-> s.pool, leases |-> (s.leases \ old) \cup {l},
              pending |-> kept, next |-> s.next]
  BY DEF Gains
<1>2. s2 \in [pool : Pools, leases : SUBSET Leases, pending : SUBSET Leases, next : Nat]
  BY <1>1 DEF Good, Gains
<1>3. Held(s2) \subseteq Held(s) \cup {l}
  BY <1>1 DEF Held
<1>4. \A k \in Held(s2) : k.exp <= t + LeaseTime
  BY <1>3 DEF Good, Gains
<1>5. \A j, k \in Held(s2) : j.addr = k.addr => j.mac = k.mac
  BY <1>3 DEF Good, Gains
<1> QED BY <1>1, <1>2, <1>4, <1>5 DEF Good

\* If it is the latest news of that address, that is a grant ...
LEMMA GainsGrants ==
  ASSUME NEW s, NEW s2, NEW t \in Nat, NEW l, Good(s, t), Gains(s, s2, l, t),
         \A k \in Held(s) : k.addr = l.addr => k.exp <= l.exp
  PROVE  \/ Unexpired(s2.leases, t) = Unexpired(s.leases, t)
         \/ /\ l \in Unexpired(s2.leases, t) /\ l \in Leases /\ l.exp > t
            /\ \A k \in Unexpired(s.leases, t) :
                 k.addr = l.addr => k.mac = l.mac /\ k.exp <= l.exp
            /\ \E old \in SUBSET {k \in Unexpired(s.leases, t) : k.addr = l.addr} :
                 Unexpired(s2.leases, t) = (Unexpired(s.leases, t) \ old) \cup {l}
<1>1. PICK old \in SUBSET {k \in s.leases : k.addr = l.addr}, kept \in SUBSET s.pending :
        s2 = [pool |-> s.pool, leases |-> (s.leases \ old) \cup {l},
              pending |-> kept, next |-> s.next]
  BY DEF Gains
<1>2. s2.leases = (s.leases \ old) \cup {l}
  BY <1>1
<1>3. l.exp \in Nat /\ \A k \in s.leases : k.exp \in Nat /\ k \in Held(s)
  BY DEF Good, Gains, Leases, Held
<1>4. CASE l.exp > t
  <2> DEFINE gone == old \cap Unexpired(s.leases, t)
  <2>1. gone \in SUBSET {k \in Unexpired(s.leases, t) : k.addr = l.addr}
    BY <1>1
  <2>2. Unexpired(s2.leases, t) = (Unexpired(s.leases, t) \ gone) \cup {l}
    BY <1>2, <1>4 DEF Unexpired
  <2>3. \A k \in Unexpired(s.leases, t) : k.addr = l.addr => k.mac = l.mac /\ k.exp <= l.exp
    BY <1>3 DEF Gains, Unexpired
  <2> HIDE DEF gone
  <2>4. l \in Leases
    BY DEF Gains
  <2> QED BY <1>4, <2>1, <2>2, <2>3, <2>4
<1>5. CASE l.exp <= t
  <2>1. \A k \in old : k.exp <= t
    BY <1>1, <1>3, <1>5 DEF Gains
  <2>2. Unexpired(s2.leases, t) = Unexpired(s.leases, t)
    BY <1>1, <1>2, <1>3, <1>5, <2>1 DEF Unexpired
  <2> QED BY <2>2
<1> QED BY <1>3, <1>4, <1>5

\* ... and a correction whatever its age.
Corrects(s, s2, l, t) ==
  /\ \A k \in Unexpired(s.leases, t) : k.addr = l.addr => k.mac = l.mac
  /\ \E old \in SUBSET {k \in Unexpired(s.leases, t) : k.addr = l.addr} :
       Unexpired(s2.leases, t) = (Unexpired(s.leases, t) \ old) \cup {k \in {l} : k.exp > t}

LEMMA GainsCorrects ==
  ASSUME NEW s, NEW s2, NEW t \in Nat, NEW l, Good(s, t), Gains(s, s2, l, t)
  PROVE  Corrects(s, s2, l, t)
<1>1. PICK old \in SUBSET {k \in s.leases : k.addr = l.addr}, kept \in SUBSET s.pending :
        s2 = [pool |-> s.pool, leases |-> (s.leases \ old) \cup {l},
              pending |-> kept, next |-> s.next]
  BY DEF Gains
<1>2. s2.leases = (s.leases \ old) \cup {l}
  BY <1>1
<1> DEFINE gone == old \cap Unexpired(s.leases, t)
<1>3. gone \in SUBSET {k \in Unexpired(s.leases, t) : k.addr = l.addr}
  BY <1>1
<1>4. Unexpired(s2.leases, t) = (Unexpired(s.leases, t) \ gone) \cup {k \in {l} : k.exp > t}
  BY <1>2 DEF Unexpired
<1>5. \A k \in Unexpired(s.leases, t) : k.addr = l.addr => k.mac = l.mac
  BY DEF Gains, Unexpired, Held
<1> HIDE DEF gone
<1> QED BY <1>3, <1>4, <1>5 DEF Corrects

\* Service::commit_lease grants or renews, or changes nothing.
LEMMA CommitGains ==
  ASSUME NEW s, NEW t \in Nat, Good(s, t), NEW mac \in Macs, NEW addr \in PoolAddresses,
         NEW o \in CommitLease(s, mac, addr, t)
  PROVE  o.svc = s \/ Gains(s, o.svc, Lease(mac, addr, t + LeaseTime), t)
<1> DEFINE new == Lease(mac, addr, t + LeaseTime)
<1>1. new \in Leases /\ new.mac = mac /\ new.addr = addr /\ new.exp = t + LeaseTime
  BY LeaseTimeAssumption DEF Lease, Leases
<1> HIDE DEF new
<1>2. CASE \E l \in Matching(s.pending, mac, addr) :
             o.svc = [s EXCEPT !.pending = @ \ {l}, !.leases = @ \cup {new}]
  <2>1. PICK l \in Matching(s.pending, mac, addr) :
             o.svc = [s EXCEPT !.pending = @ \ {l}, !.leases = @ \cup {new}]
    BY <1>2
  <2> DEFINE q == [s EXCEPT !.pending = @ \ {l}]
  <2>2. q = [pool |-> s.pool, leases |-> s.leases, pending |-> s.pending \ {l}, next |-> s.next]
    BY DEF Good
  <2>3. o.svc = [q EXCEPT !.leases = @ \cup {new}]
    BY <2>1
  <2> HIDE DEF q
  <2>4. o.svc = [pool |-> s.pool, leases |-> (s.leases \ {}) \cup {new},
                 pending |-> s.pending \ {l}, next |-> s.next]
    BY <2>2, <2>3
  <2>5. l \in Held(s) /\ l.mac = mac /\ l.addr = addr
    BY DEF Matching, Held
  <2>6. \A k \in Held(s) : k.addr = new.addr => k.mac = new.mac
    BY <1>1, <2>5 DEF Good
  <2>7. {} \in SUBSET {k \in s.leases : k.addr = new.addr} /\ s.pending \ {l} \in SUBSET s.pending
    OBVIOUS
  <2>8. new.exp <= t + LeaseTime
    BY <1>1, LeaseTimeAssumption
  <2>9. Gains(s, o.svc, new, t)
    BY <1>1, <2>4, <2>6, <2>7, <2>8 DEF Gains
  <2> QED BY <2>9 DEF new
<1>3. CASE \E l \in Matching(s.leases, mac, addr) :
             o.svc = [s EXCEPT !.leases = (@ \ {l}) \cup {new}]
  <2>1. PICK l \in Matching(s.leases, mac, addr) :
             o.svc = [s EXCEPT !.leases = (@ \ {l}) \cup {new}]
    BY <1>3
  <2>2. o.svc = [pool |-> s.pool, leases |-> (s.leases \ {l}) \cup {new},
                 pending |-> s.pending, next |-> s.next]
    BY <2>1 DEF Good
  <2>3. l \in Held(s) /\ l \in s.leases /\ l.mac = mac /\ l.addr = addr
    BY DEF Matching, Held
  <2>4. \A k \in Held(s) : k.addr = new.addr => k.mac = new.mac
    BY <1>1, <2>3 DEF Good
  <2>5. {l} \in SUBSET {k \in s.leases : k.addr = new.addr} /\ s.pending \in SUBSET s.pending
    BY <1>1, <2>3
  <2>6. new.exp <= t + LeaseTime
    BY <1>1, LeaseTimeAssumption
  <2>7. Gains(s, o.svc, new, t)
    BY <1>1, <2>2, <2>4, <2>5, <2>6 DEF Gains
  <2> QED BY <2>7 DEF new
<1>4. CASE o.svc = s
  BY <1>4
<1> DEFINE committed(l) == [s EXCEPT !.pending = @ \ {l}, !.leases = @ \cup {new}]
           renewed(l) == [s EXCEPT !.leases = (@ \ {l}) \cup {new}]
<1>5. o \in {[svc |-> committed(l), acked |-> {new}] : l \in Matching(s.pending, mac, addr)}
            \cup {[svc |-> renewed(l), acked |-> {new}] : l \in Matching(s.leases, mac, addr)}
            \cup {[svc |-> s, acked |-> {}]}
  BY Zenon DEF CommitLease, FreshTimestamp, new
<1>6. \/ \E l \in Matching(s.pending, mac, addr) : o.svc = committed(l)
      \/ \E l \in Matching(s.leases, mac, addr) : o.svc = renewed(l)
      \/ o.svc = s
  <2> HIDE DEF committed, renewed
  <2> QED BY <1>5
<1> QED BY <1>2, <1>3, <1>4, <1>6 DEF new

\* Service::add_lease gains the lease, when the peer keeps its promise.
LEMMA AddLeaseGains ==
  ASSUME NEW s, NEW t \in Nat, Good(s, t), NEW l \in Leases, l.exp <= t + LeaseTime,
         \A k \in Held(s) : k.addr = l.addr => k.mac = l.mac,
         NEW s2 \in AddLease(s, l)
  PROVE  Gains(s, s2, l, t)
<1>1. CASE s2 = [s EXCEPT !.leases = @ \cup {l}]
  <2>1. s2 = [pool |-> s.pool, leases |-> (s.leases \ {}) \cup {l},
              pending |-> s.pending, next |-> s.next]
    BY <1>1 DEF Good
  <2>2. {} \in SUBSET {k \in s.leases : k.addr = l.addr} /\ s.pending \in SUBSET s.pending
    OBVIOUS
  <2> QED BY <2>1, <2>2 DEF Gains
<1>2. CASE \E k \in Matching(s.leases, l.mac, l.addr) :
             s2 = [s EXCEPT !.leases = (@ \ {k}) \cup {l}]
  <2>1. PICK k \in Matching(s.leases, l.mac, l.addr) :
             s2 = [s EXCEPT !.leases = (@ \ {k}) \cup {l}]
    BY <1>2
  <2>2. s2 = [pool |-> s.pool, leases |-> (s.leases \ {k}) \cup {l},
              pending |-> s.pending, next |-> s.next]
    BY <2>1 DEF Good
  <2>3. {k} \in SUBSET {j \in s.leases : j.addr = l.addr} /\ s.pending \in SUBSET s.pending
    BY DEF Matching
  <2> QED BY <2>2, <2>3 DEF Gains
<1> QED BY <1>1, <1>2 DEF AddLease

\* The handlers of what peers tell.
LEMMA LearnLeaseGains ==
  ASSUME now \in Nat, Good(svc, now), NEW l \in News, LearnLease(l)
  PROVE  Gains(svc, svc', l, now) /\ now' = now
<1>1. l \in Leases
  BY DEF News, Lease, Leases
<1>2. l.exp <= now + LeaseTime /\ \A k \in Held(svc) : k.addr = l.addr => k.mac = l.mac
  BY DEF LearnLease, PeerPromise, OneClientEach, FreshTimestamp
<1> QED BY <1>1, <1>2, AddLeaseGains DEF LearnLease

LEMMA TablesAreNews == \A T \in Tables : T \subseteq News
BY DEF Tables

LEMMA LearnTableGood ==
  ASSUME now \in Nat, Good(svc, now), NEW T \in Tables, LearnTable(T)
  PROVE  now' = now /\ Good(svc', now) /\ svc'.pending = svc.pending
<1>1. T \subseteq Leases
  BY TablesAreNews DEF News, Lease, Leases
<1>2. PICK leases \in {svc.leases, T} :
        svc' = [pool |-> svc.pool, leases |-> leases, pending |-> svc.pending, next |-> svc.next]
  BY DEF LearnTable, Good
<1>3. CASE leases = svc.leases
  BY <1>2, <1>3 DEF LearnTable, Good
<1>4. CASE leases = T
  <2>1. svc' \in [pool : Pools, leases : SUBSET Leases, pending : SUBSET Leases, next : Nat]
    BY <1>1, <1>2, <1>4 DEF Good
  <2>2. Held(svc') = T \cup svc.pending
    BY <1>2, <1>4 DEF Held
  <2>3. \A k, l \in Held(svc') : k.addr = l.addr => k.mac = l.mac
    BY <2>2 DEF LearnTable, PeerPromise, OneClientEach
  <2>4. \A l \in Held(svc') : l.exp <= now + LeaseTime
    BY <2>2 DEF LearnTable, PeerPromise, FreshTimestamp, Good, Held
  <2> QED BY <1>2, <2>1, <2>3, <2>4 DEF LearnTable, Good
<1> QED BY <1>3, <1>4

-----------------------------------------------------------------------------
(* The inductive invariant, one step per action.                           *)

LEMMA InitIInv == Init => IInv
<1> SUFFICES ASSUME Init PROVE now \in Nat /\ Good(svc, now)
  BY IInvIsGood
<1>1. PICK p \in Pools : svc = NewService(p)
  BY DEF Init
<1>2. svc = [pool |-> p, leases |-> {}, pending |-> {}, next |-> p.start]
  BY <1>1 DEF NewService
<1>3. Held(svc) = {}
  BY <1>2 DEF Held
<1>4. p \in Ranges /\ p.start \in Nat /\ p.end \in Nat /\ p.start <= p.end
  BY PoolFacts
<1>5. svc \in [pool : Pools, leases : SUBSET Leases, pending : SUBSET Leases, next : Nat]
  BY <1>2, <1>4
<1>6. svc.pool.start <= svc.next /\ svc.next <= svc.pool.end
  BY <1>2, <1>4
<1> QED BY <1>3, <1>5, <1>6 DEF Good, Init

LEMMA NextIInv == IInv /\ [Next]_vars => IInv'
<1> SUFFICES ASSUME now \in Nat, Good(svc, now), [Next]_vars
             PROVE  now' \in Nat /\ Good(svc', now')
  BY IInvIsGood DEF IInv, TypeOK, CursorInPool, ExclusiveHolder, OneClientEach, BoundedLeases, Good,
                    FreshTimestamp
<1>1. ASSUME NEW mac \in Macs, Discover(mac) PROVE now' \in Nat /\ Good(svc', now')
  BY <1>1, DiscoverGood DEF Discover
<1>2. ASSUME NEW mac \in Macs, NEW addr \in PoolAddresses, Commit(mac, addr)
      PROVE  now' \in Nat /\ Good(svc', now')
  BY <1>2, CommitGains, GainsGood DEF Commit
<1>3. ASSUME NEW p \in Pools, AssignPool(p) PROVE now' \in Nat /\ Good(svc', now')
  BY <1>3, SetPoolGood DEF AssignPool
<1>4. ASSUME NEW l \in News, LearnLease(l) PROVE now' \in Nat /\ Good(svc', now')
  BY <1>4, LearnLeaseGains, GainsGood
<1>5. ASSUME NEW T \in Tables, LearnTable(T) PROVE now' \in Nat /\ Good(svc', now')
  BY <1>5, LearnTableGood
<1>6. CASE Tick
  BY <1>6, LeaseTimeAssumption DEF Tick, Good, Leases, Held
<1>7. CASE UNCHANGED vars
  BY <1>7 DEF vars
<1> QED BY <1>1, <1>2, <1>3, <1>4, <1>5, <1>6, <1>7 DEF Next, OwnStep

LEMMA Invariance == Spec => []IInv
BY InitIInv, NextIInv, PTL DEF Spec

\* The service record keeps its type: among others the addresses it offers and
\* leases stay addresses of some pool.
THEOREM TypeCorrect == Spec => []TypeOK
BY Invariance, PTL DEF IInv

\* No address is promised to two clients, for any number of clients and
\* addresses and any interleaving of clients, peers and pool changes.
THEOREM Exclusive == Spec => []ExclusiveHolder
BY Invariance, PTL DEF IInv

\* The cursor never leaves the pool, whatever pools are assigned.
THEOREM CursorStaysInPool == Spec => []CursorInPool
BY Invariance, PTL DEF IInv

\* Every new offer is an address of the pool assigned last.
THEOREM OffersComeFromPool == Spec => OffersFromPool
<1> DEFINE A == \A l \in svc'.pending \ svc.pending : l.addr \in Addresses(svc.pool)
<1>1. IInv /\ [Next]_vars => [A]_vars
  <2> SUFFICES ASSUME now \in Nat, Good(svc, now), Next PROVE A
    BY IInvIsGood
  <2>1. ASSUME NEW mac \in Macs, Discover(mac) PROVE A
    BY <2>1, DiscoverGood DEF Discover
  <2>2. ASSUME NEW mac \in Macs, NEW addr \in PoolAddresses, Commit(mac, addr) PROVE A
    <3>1. svc' = svc \/ Gains(svc, svc', Lease(mac, addr, now + LeaseTime), now)
      BY <2>2, CommitGains DEF Commit
    <3>2. svc'.pending \subseteq svc.pending
      BY <3>1 DEF Gains
    <3> QED BY <3>2
  <2>3. ASSUME NEW p \in Pools, AssignPool(p) PROVE A
    <3> DEFINE q == [svc EXCEPT !.pool = p]
    <3>1. q = [pool |-> p, leases |-> svc.leases, pending |-> svc.pending, next |-> svc.next]
      BY DEF Good
    <3>2. svc' = [q EXCEPT !.next = p.start]
      BY <2>3 DEF AssignPool, SetPool
    <3> HIDE DEF q
    <3>3. svc'.pending = svc.pending
      BY <3>1, <3>2
    <3> QED BY <3>3
  <2>4. ASSUME NEW l \in News, LearnLease(l) PROVE A
    BY <2>4, LearnLeaseGains DEF Gains
  <2>5. ASSUME NEW T \in Tables, LearnTable(T) PROVE A
    BY <2>5, LearnTableGood
  <2>6. CASE Tick
    BY <2>6 DEF Tick
  <2> QED BY <2>1, <2>2, <2>3, <2>4, <2>5, <2>6 DEF Next, OwnStep
<1> QED BY <1>1, Invariance, PTL DEF Spec, OffersFromPool

-----------------------------------------------------------------------------
(* The service's own steps implement the address book.                     *)

LEMMA InitBook == Init => Book!Init
BY DEF Init, Book!Init, NewService, Unexpired

LEMMA GainsBook ==
  ASSUME now \in Nat, Good(svc, now), now' = now, NEW l, Gains(svc, svc', l, now),
         \A k \in Held(svc) : k.addr = l.addr => k.exp <= l.exp
  PROVE  [Book!Next]_(Book!vars)
<1>1. CASE Unexpired(svc'.leases, now) = Unexpired(svc.leases, now)
  BY <1>1 DEF Book!vars
<1>2. CASE /\ l \in Unexpired(svc'.leases, now) /\ l \in Leases /\ l.exp > now
           /\ \A k \in Unexpired(svc.leases, now) :
                k.addr = l.addr => k.mac = l.mac /\ k.exp <= l.exp
           /\ \E old \in SUBSET {k \in Unexpired(svc.leases, now) : k.addr = l.addr} :
                Unexpired(svc'.leases, now) = (Unexpired(svc.leases, now) \ old) \cup {l}
  <2>1. Book!Grant(l)
    BY <1>2 DEF Book!Grant
  <2>2. l \in Unexpired(svc'.leases, now') \cap Book!Grants
    BY <1>2 DEF Book!Grants, Leases
  <2> QED BY <2>1, <2>2 DEF Book!Next
<1> QED BY <1>1, <1>2, GainsGrants

LEMMA OwnStepBook == IInv /\ OwnStep => [Book!Next]_(Book!vars)
<1> SUFFICES ASSUME now \in Nat, Good(svc, now), OwnStep PROVE [Book!Next]_(Book!vars)
  BY IInvIsGood
<1>1. ASSUME NEW mac \in Macs, Discover(mac) PROVE [Book!Next]_(Book!vars)
  BY <1>1, DiscoverGood DEF Discover, Book!vars
<1>2. ASSUME NEW mac \in Macs, NEW addr \in PoolAddresses, Commit(mac, addr)
      PROVE  [Book!Next]_(Book!vars)
  <2>1. svc' = svc \/ Gains(svc, svc', Lease(mac, addr, now + LeaseTime), now)
    BY <1>2, CommitGains DEF Commit
  <2>2. now' = now
    BY <1>2 DEF Commit
  <2>3. \A k \in Held(svc) : k.exp <= Lease(mac, addr, now + LeaseTime).exp
    BY DEF Good, Lease
  <2> QED BY <2>1, <2>2, <2>3, GainsBook DEF Book!vars
<1>3. ASSUME NEW p \in Pools, AssignPool(p) PROVE [Book!Next]_(Book!vars)
  <2> DEFINE q == [svc EXCEPT !.pool = p]
  <2>1. q = [pool |-> p, leases |-> svc.leases, pending |-> svc.pending, next |-> svc.next]
    BY DEF Good
  <2>2. svc' = [q EXCEPT !.next = p.start]
    BY <1>3 DEF AssignPool, SetPool
  <2> HIDE DEF q
  <2>3. svc'.leases = svc.leases /\ now' = now
    BY <1>3, <2>1, <2>2 DEF AssignPool
  <2> QED BY <2>3 DEF Book!vars
<1>4. CASE Tick
  <2>1. now' = now + 1 /\ svc' = svc
    BY <1>4 DEF Tick
  <2>2. \A l \in svc.leases : l.exp \in Nat
    BY DEF Good, Leases
  <2>3. Unexpired(svc'.leases, now') = {l \in Unexpired(svc.leases, now) : l.exp > now'}
    BY <2>1, <2>2 DEF Unexpired
  <2>4. Book!Tick
    BY <2>1, <2>3 DEF Book!Tick
  <2> QED BY <2>4 DEF Book!Next
<1> QED BY <1>1, <1>2, <1>3, <1>4 DEF OwnStep

LEMMA LearnLeaseBook ==
  ASSUME IInv, NEW l \in News, LearnLease(l)
  PROVE  Book!Correct(l)
<1>1. now \in Nat /\ Good(svc, now)
  BY IInvIsGood
<1>2. Gains(svc, svc', l, now) /\ now' = now
  BY <1>1, LearnLeaseGains
<1>3. Corrects(svc, svc', l, now)
  BY <1>1, <1>2, GainsCorrects
<1>4. Unexpired(svc.leases, now)' = Unexpired(svc'.leases, now)
  BY <1>2
<1> QED BY <1>2, <1>3, <1>4 DEF Corrects, Book!Correct

\* The leases in force behave as an address book, but for what peers tell:
\* whatever the tables, the cursor and the pruning do, no step of the service's
\* own withdraws or shortens a grant or makes a second one, and a peer's lease
\* changes the grant it is about alone.
THEOREM ImplementsAddressBook == Spec => KeepsAddressBook
<1>1. IInv /\ [Next]_vars =>
        [/\ OwnStep => [Book!Next]_(Book!vars)
         /\ \A l \in News : LearnLease(l) => Book!Correct(l)]_vars
  BY OwnStepBook, LearnLeaseBook
<1> QED BY <1>1, InitBook, Invariance, PTL DEF Spec, KeepsAddressBook

\* What an address book promises, step by step: Grant keeps or lengthens what it
\* replaces, and time ends only what has run out.
LEMMA BookKeeps ==
  ASSUME \A k \in Unexpired(svc.leases, now) : k.exp \in Nat, [Book!Next]_(Book!vars)
  PROVE  Book!Keeps
<1> DEFINE book == Unexpired(svc.leases, now)
<1>1. CASE Book!Tick
  BY <1>1 DEF Book!Tick, Book!Keeps
<1>2. ASSUME NEW l \in book' \cap Book!Grants, Book!Grant(l) PROVE Book!Keeps
  <2>1. PICK old \in SUBSET {k \in book : k.addr = l.addr} : book' = (book \ old) \cup {l}
    BY <1>2 DEF Book!Grant
  <2>2. \A k \in book : k.addr = l.addr => k.mac = l.mac /\ k.exp <= l.exp
    BY <1>2 DEF Book!Grant
  <2>3. l.exp \in Nat
    BY DEF Book!Grants
  <2> HIDE DEF book
  <2>4. \A k \in book : k.exp \in Nat
    BY DEF book
  <2>5. ASSUME NEW k \in book
        PROVE  \E m \in book' : m.mac = k.mac /\ m.addr = k.addr /\ m.exp >= k.exp
    <3>1. CASE k \in old
      BY <2>1, <2>2, <2>3, <2>4, <3>1
    <3>2. CASE k \notin old
      BY <2>1, <2>4, <3>2
    <3> QED BY <3>1, <3>2
  <2> QED BY <2>5 DEF Book!Keeps, book
<1>3. CASE UNCHANGED Book!vars
  BY <1>3 DEF Book!vars, Book!Keeps
<1> QED BY <1>1, <1>2, <1>3 DEF Book!Next

\* With that, no unexpired lease of an address is another client's, if peers keep
\* PeerPromise, and only a peer's word can end a lease before the time the client
\* was given: what is offered, leased, renewed or pruned here, the clock and a
\* new pool leave it in force.
THEOREM LeasesLast == Spec => []Book!NoDoubleGrant /\ [][OwnStep => Book!Keeps]_vars
<1>1. IInv => Book!NoDoubleGrant
  BY DEF IInv, ExclusiveHolder, OneClientEach, Held, Unexpired, Book!NoDoubleGrant
<1>2. IInv => \A k \in Unexpired(svc.leases, now) : k.exp \in Nat
  BY DEF IInv, TypeOK, Leases, Unexpired
<1>3. IInv /\ [Next]_vars => [OwnStep => Book!Keeps]_vars
  BY <1>2, OwnStepBook, BookKeeps
<1> QED BY <1>1, <1>3, Invariance, PTL DEF Spec

-----------------------------------------------------------------------------
(* Who is turned away.                                                     *)

\* A client is turned away only when every address of the pool is leased or
\* offered, and not expired: discover_lease prunes both tables before it scans,
\* and the scan, from a cursor in the pool, misses no address.
THEOREM RefusesOnlyWhenFull == Spec => []RefusedOnlyWhenFull
<1>1. IInv => RefusedOnlyWhenFull
  <2> SUFFICES ASSUME now \in Nat, Good(svc, now), NEW mac \in Macs,
                      NEW o \in DiscoverLease(svc, mac, now), o.offer = {}
               PROVE  Addresses(svc.pool) \subseteq AddressesOf(Unexpired(Held(svc), now))
    BY IInvIsGood DEF RefusedOnlyWhenFull
  <2> DEFINE p == Prune(svc, now)
  <2>1. FreeAddresses(p) = {}
    <3>1. CASE \E l \in svc.leases : o = [svc |-> svc, offer |-> {l}]
      BY <3>1
    <3>2. CASE \E a \in FreeAddresses(p) : o = OfferOf(p, mac, a, now)
      BY <3>2 DEF OfferOf
    <3> QED BY <3>1, <3>2 DEF DiscoverLease
  <2>2. p.pool = svc.pool /\ p.next = svc.next /\ Held(p) = Unexpired(Held(svc), now)
    BY PruneGood
  <2>3. svc.pool \in Ranges /\ svc.next \in svc.pool.start .. svc.pool.end
    BY PoolFacts DEF Good
  <2>4. FirstFree(svc.pool, svc.next, AddressesOf(Held(p))) = {}
    BY <2>1, <2>2 DEF FreeAddresses
  <2>5. Cardinality({}) = 0
    BY FS_EmptySet
  <2>6. Addresses(svc.pool) \ AddressesOf(Held(p)) = {}
    <3> DEFINE taken == AddressesOf(Held(p))
               free  == Addresses(svc.pool) \ taken
    <3> HIDE DEF p, taken
    <3>1. Cardinality(FirstFree(svc.pool, svc.next, taken)) = (IF free = {} THEN 0 ELSE 1)
      BY <2>3, ScanFindsFree
    <3>2. FirstFree(svc.pool, svc.next, taken) = {}
      BY <2>4 DEF taken
    <3> HIDE DEF free
    <3>3. free = {}
      BY <2>5, <3>1, <3>2
    <3> QED BY <3>3 DEF free, taken
  <2> QED BY <2>2, <2>6
<1> QED BY <1>1, Invariance, PTL
=============================================================================
