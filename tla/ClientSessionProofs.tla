------------------------- MODULE ClientSessionProofs -------------------------
(***************************************************************************)
(* ClientSession for any number of clients, connections and workers: the   *)
(* type invariant, that what a client takes for its lease is leased to it  *)
(* alone, as long as it thinks, that offers stand until they expire, and   *)
(* that a client that waits for its answers has one lease at most.         *)
(*                                                                         *)
(* The inductive invariant follows an address through a conversation: the  *)
(* Request, the event, the answer on the channel and the Ack that belong   *)
(* to a connection all speak of the client that reads it and of the        *)
(* address it waits for. For the last theorem a second invariant is added  *)
(* to it, about what the service knows of a client that waits.             *)
(***************************************************************************)
EXTENDS ClientSession, Ipv4RangeProofs, SequenceTheorems, FiniteSetTheorems

-----------------------------------------------------------------------------
(* The service.                                                            *)

\* What the invariant says of a service at a time.
Good(s, t) ==
  /\ s \in [pool : {Pool}, leases : SUBSET Leases, pending : SUBSET Leases, next : Nat]
  /\ s.next \in Pool.start .. Pool.end
  /\ \A k, l \in Held(s) : k.addr = l.addr => k.mac = l.mac
  /\ \A l \in Held(s) : l.exp <= t + LeaseTime

\* The address a is leased to c until then, or that time is over.
Covered(s, t, c, a, until) ==
  \/ until <= t
  \/ \E l \in s.leases : l.mac = c /\ l.addr = a /\ until <= l.exp

\* An offered lease is still known, or its time is over.
Backed(s, t, l) ==
  \/ l.exp <= t
  \/ \E k \in Held(s) : k.mac = l.mac /\ k.addr = l.addr /\ l.exp <= k.exp

\* What is leased stays leased, and what is offered stands.
Keeps(s, s2, t) ==
  /\ \A l \in s.leases :
       l.exp > t => \E k \in s2.leases : k.mac = l.mac /\ k.addr = l.addr /\ l.exp <= k.exp
  /\ \A l \in Held(s) :
       l.exp > t => \E k \in Held(s2) : k.mac = l.mac /\ k.addr = l.addr /\ l.exp <= k.exp

LEMMA KeepsCovered ==
  ASSUME NEW s, NEW s2, NEW t \in Nat, Good(s, t), Good(s2, t), Keeps(s, s2, t),
         NEW c, NEW a, NEW until \in Nat, Covered(s, t, c, a, until)
  PROVE  Covered(s2, t, c, a, until)
BY DEF Covered, Keeps, Good, Leases

LEMMA KeepsBacked ==
  ASSUME NEW s, NEW s2, NEW t \in Nat, Good(s, t), Good(s2, t), Keeps(s, s2, t),
         NEW l \in Leases, Backed(s, t, l)
  PROVE  Backed(s2, t, l)
<1>1. (\A k \in Held(s) : k.exp \in Nat) /\ (\A k \in Held(s2) : k.exp \in Nat) /\ l.exp \in Nat
  BY DEF Good, Held, Leases
<1> QED BY <1>1 DEF Backed, Keeps

LEMMA PoolFacts ==
  /\ Pool.start \in Nat /\ Pool.end \in Nat /\ Pool.start <= Pool.end
  /\ \A a \in Addresses(Pool) : a \in Nat /\ Pool.start <= a /\ a < Pool.end
BY PoolAssumption DEF Ranges, Addresses

LEMMA PruneGood ==
  ASSUME NEW s, NEW t \in Nat, Good(s, t)
  PROVE  /\ Good(Prune(s, t), t)
         /\ Prune(s, t) = [pool |-> Pool, leases |-> Unexpired(s.leases, t),
                           pending |-> Unexpired(s.pending, t), next |-> s.next]
<1>1. Prune(s, t) = [pool |-> Pool, leases |-> Unexpired(s.leases, t),
                     pending |-> Unexpired(s.pending, t), next |-> s.next]
  <2> DEFINE q == [s EXCEPT !.leases = Unexpired(s.leases, t)]
  <2>1. q = [pool |-> Pool, leases |-> Unexpired(s.leases, t),
             pending |-> s.pending, next |-> s.next]
    BY DEF Good
  <2>2. Prune(s, t) = [q EXCEPT !.pending = Unexpired(s.pending, t)]
    BY DEF Prune
  <2> HIDE DEF q
  <2> QED BY <2>1, <2>2
<1>2. /\ Unexpired(s.leases, t) \subseteq s.leases
      /\ Unexpired(s.pending, t) \subseteq s.pending
  BY DEF Unexpired
<1>3. Held(Prune(s, t)) \subseteq Held(s)
  BY <1>1, <1>2 DEF Held
<1>4. Prune(s, t) \in [pool : {Pool}, leases : SUBSET Leases, pending : SUBSET Leases, next : Nat]
  BY <1>1, <1>2 DEF Good
<1> QED BY <1>1, <1>3, <1>4 DEF Good

\* An offer is made from the pool, for an address nobody holds.
LEMMA OfferGood ==
  ASSUME NEW s, NEW t \in Nat, Good(s, t), NEW mac \in Macs, NEW a \in FreeAddresses(s)
  PROVE  /\ Good(OfferOf(s, mac, a, t).svc, t)
         /\ OfferOf(s, mac, a, t).svc.leases = s.leases
         /\ Held(OfferOf(s, mac, a, t).svc) = Held(s) \cup {Lease(mac, a, t + LeaseTime)}
         /\ OfferOf(s, mac, a, t).offer = {Lease(mac, a, t + LeaseTime)}
         /\ Lease(mac, a, t + LeaseTime) \in Leases
<1> DEFINE new == Lease(mac, a, t + LeaseTime)
           o   == OfferOf(s, mac, a, t)
<1>1. /\ o.svc = [pool |-> Pool, leases |-> s.leases,
                  pending |-> s.pending \cup {new}, next |-> a + 1]
      /\ o.offer = {new}
  BY DEF Good, OfferOf, FreshTimestamp
<1>2. s.pool = Pool /\ Pool \in Ranges
  BY PoolAssumption DEF Good
<1>3. a \in Addresses(Pool) /\ a \notin AddressesOf(Held(s))
  BY <1>2, ScanStaysInRange DEF FreeAddresses, Good
<1>4. a \in Nat /\ a + 1 \in Pool.start .. Pool.end
  BY <1>3, PoolFacts
<1>5. new \in Leases /\ new.mac = mac /\ new.addr = a /\ new.exp = t + LeaseTime
  BY <1>3, LeaseTimeAssumption DEF Lease, Leases
<1> HIDE DEF new, o
<1>6. o.svc \in [pool : {Pool}, leases : SUBSET Leases, pending : SUBSET Leases, next : Nat]
  BY <1>1, <1>4, <1>5 DEF Good
<1>7. Held(o.svc) = Held(s) \cup {new}
  BY <1>1 DEF Held
<1>8. \A k \in Held(s) : k.addr # a
  BY <1>3 DEF AddressesOf
<1>9. \A k, l \in Held(o.svc) : k.addr = l.addr => k.mac = l.mac
  BY <1>5, <1>7, <1>8 DEF Good
<1>10. \A l \in Held(o.svc) : l.exp <= t + LeaseTime
  BY <1>5, <1>7, LeaseTimeAssumption DEF Good
<1>11. o.svc.next \in Pool.start .. Pool.end
  BY <1>1, <1>4
<1>12. Good(o.svc, t)
  BY <1>6, <1>9, <1>10, <1>11 DEF Good
<1>13. o.svc.leases = s.leases /\ o.offer = {new}
  BY <1>1
<1> QED BY <1>5, <1>7, <1>12, <1>13 DEF new, o

\* An offer that may be sent: to be confirmed for at most the lease time.
Sendable(O, t) == O \in SUBSET Leases /\ \A l \in O : l.exp <= t + LeaseTime

LEMMA DiscoverGood ==
  ASSUME NEW s, NEW t \in Nat, Good(s, t), NEW mac \in Macs,
         NEW o \in DiscoverLease(s, mac, t)
  PROVE  /\ Good(o.svc, t) /\ Keeps(s, o.svc, t) /\ Sendable(o.offer, t)
         /\ \A l \in o.offer : Backed(o.svc, t, l)
<1>1. CASE \E l \in s.leases : o = [svc |-> s, offer |-> {l}]
  <2>1. PICK l \in s.leases : o = [svc |-> s, offer |-> {l}]
    BY <1>1
  <2>2. l \in Leases /\ l.exp <= t + LeaseTime
    BY DEF Good, Held
  <2>3. Keeps(s, s, t)
    BY DEF Keeps, Good, Held, Leases
  <2>4. Backed(s, t, l)
    BY <2>2 DEF Backed, Held, Leases
  <2> QED BY <2>1, <2>2, <2>3, <2>4 DEF Sendable
<1>2. Keeps(s, Prune(s, t), t)
  <2>1. \A l \in Held(s) : l.exp \in Nat /\ (l.exp > t => l \in Held(Prune(s, t)))
    BY PruneGood DEF Unexpired, Good, Held, Leases
  <2>2. \A l \in s.leases : l.exp \in Nat /\ (l.exp > t => l \in Prune(s, t).leases)
    BY PruneGood DEF Unexpired, Good, Leases
  <2> QED BY <2>1, <2>2 DEF Keeps
<1>3. CASE o = [svc |-> Prune(s, t), offer |-> {}]
  BY <1>2, <1>3, PruneGood DEF Sendable
<1>4. CASE \E a \in FreeAddresses(Prune(s, t)) : o = OfferOf(Prune(s, t), mac, a, t)
  <2>1. PICK a \in FreeAddresses(Prune(s, t)) : o = OfferOf(Prune(s, t), mac, a, t)
    BY <1>4
  <2>2. /\ Good(o.svc, t) /\ o.svc.leases = Prune(s, t).leases
        /\ o.offer = {Lease(mac, a, t + LeaseTime)}
        /\ Lease(mac, a, t + LeaseTime) \in Leases
    BY <2>1, PruneGood, OfferGood
  <2>3. Lease(mac, a, t + LeaseTime).exp = t + LeaseTime
    BY DEF Lease
  <2>4. Sendable(o.offer, t)
    BY <2>2, <2>3, LeaseTimeAssumption DEF Sendable
  <2>5. Held(o.svc) = Held(Prune(s, t)) \cup {Lease(mac, a, t + LeaseTime)}
    BY <2>1, PruneGood, OfferGood
  <2>6. Backed(o.svc, t, Lease(mac, a, t + LeaseTime))
    BY <2>3, <2>5, LeaseTimeAssumption DEF Backed
  <2>7. Keeps(s, o.svc, t)
    BY <1>2, <2>2, <2>5 DEF Keeps
  <2> QED BY <2>2, <2>4, <2>6, <2>7
<1> QED BY <1>1, <1>3, <1>4 DEF DiscoverLease

\* A request is denied, or confirmed by a lease of the full lease time.
LEMMA CommitGood ==
  ASSUME NEW s, NEW t \in Nat, Good(s, t), NEW mac, NEW a,
         NEW o \in CommitLease(s, mac, a, t)
  PROVE  /\ Good(o.svc, t) /\ Keeps(s, o.svc, t)
         /\ o.acked # {} => Covered(o.svc, t, mac, a, t + LeaseTime)
<1> DEFINE new == Lease(mac, a, t + LeaseTime)
           committed(l) == [s EXCEPT !.pending = @ \ {l}, !.leases = @ \cup {new}]
           renewed(l) == [s EXCEPT !.leases = (@ \ {l}) \cup {new}]
<1>1. new.mac = mac /\ new.addr = a /\ new.exp = t + LeaseTime
  BY DEF Lease
<1>2. \/ \E l \in Matching(s.pending, mac, a) : o.svc = committed(l)
      \/ \E l \in Matching(s.leases, mac, a) : o.svc = renewed(l)
      \/ o.svc = s /\ o.acked = {}
  <2>1. o \in {[svc |-> committed(l), acked |-> {new}] : l \in Matching(s.pending, mac, a)}
              \cup {[svc |-> renewed(l), acked |-> {new}] : l \in Matching(s.leases, mac, a)}
              \cup {[svc |-> s, acked |-> {}]}
    BY Zenon DEF CommitLease, FreshTimestamp, new
  <2> HIDE DEF committed, renewed
  <2> QED BY <2>1
<1>3. CASE o.svc = s /\ o.acked = {}
  BY <1>3 DEF Keeps, Good, Held, Leases
<1>4. ASSUME NEW l \in Held(s), l.mac = mac, l.addr = a,
             NEW old \in SUBSET s.leases, \A k \in old : k.mac = mac /\ k.addr = a,
             NEW kept \in SUBSET s.pending,
             \A k \in s.pending \ kept : k.mac = mac /\ k.addr = a,
             o.svc = [pool |-> Pool, leases |-> (s.leases \ old) \cup {new},
                      pending |-> kept, next |-> s.next]
      PROVE  Good(o.svc, t) /\ Keeps(s, o.svc, t) /\ Covered(o.svc, t, mac, a, t + LeaseTime)
  <2>1. new \in Leases
    BY <1>1, <1>4, LeaseTimeAssumption DEF Good, Held, Leases, Lease
  <2> HIDE DEF new
  <2>2. o.svc \in [pool : {Pool}, leases : SUBSET Leases, pending : SUBSET Leases, next : Nat]
    BY <1>4, <2>1 DEF Good
  <2>3. Held(o.svc) \subseteq Held(s) \cup {new}
    BY <1>4 DEF Held
  <2>4. \A j \in Held(s) : j.addr = a => j.mac = mac
    BY <1>4 DEF Good
  <2>5. \A j, k \in Held(o.svc) : j.addr = k.addr => j.mac = k.mac
    BY <1>1, <2>3, <2>4 DEF Good
  <2>6. \A k \in Held(o.svc) : k.exp <= t + LeaseTime
    BY <1>1, <2>3, LeaseTimeAssumption DEF Good
  <2>7. Good(o.svc, t)
    <3>1. o.svc.next = s.next
      BY <1>4
    <3> QED BY <2>2, <2>5, <2>6, <3>1 DEF Good
  <2>8. \A j \in Held(s) : j.exp \in Nat /\ j.exp <= t + LeaseTime
    BY DEF Good, Held, Leases
  <2>9. Keeps(s, o.svc, t)
    <3>1. \A j \in s.leases : j \in o.svc.leases \/ (j.mac = mac /\ j.addr = a)
      BY <1>4
    <3>2. \A j \in Held(s) : j \in Held(o.svc) \/ (j.mac = mac /\ j.addr = a)
      BY <1>4 DEF Held
    <3>3. new \in o.svc.leases /\ new \in Held(o.svc) /\ s.leases \subseteq Held(s)
      BY <1>4 DEF Held
    <3> QED BY <1>1, <2>8, <3>1, <3>2, <3>3 DEF Keeps
  <2>10. Covered(o.svc, t, mac, a, t + LeaseTime)
    BY <1>1, <1>4, LeaseTimeAssumption DEF Covered
  <2> QED BY <2>7, <2>9, <2>10
<1>5. CASE \E l \in Matching(s.pending, mac, a) : o.svc = committed(l)
  <2>1. PICK l \in Matching(s.pending, mac, a) : o.svc = committed(l)
    BY <1>5
  <2>2. o.svc = [pool |-> Pool, leases |-> s.leases \cup {new},
                 pending |-> s.pending \ {l}, next |-> s.next]
    <3> HIDE DEF new
    <3> DEFINE q == [s EXCEPT !.pending = @ \ {l}]
    <3>1. q = [pool |-> Pool, leases |-> s.leases, pending |-> s.pending \ {l}, next |-> s.next]
      BY DEF Good
    <3>2. o.svc = [q EXCEPT !.leases = @ \cup {new}]
      BY <2>1
    <3> HIDE DEF q
    <3> QED BY <3>1, <3>2
  <2>3. l \in Held(s) /\ l.mac = mac /\ l.addr = a
    BY DEF Matching, Held
  <2>4. /\ {} \in SUBSET s.leases /\ s.pending \ {l} \in SUBSET s.pending
        /\ s.leases \cup {new} = (s.leases \ {}) \cup {new}
        /\ s.pending \ (s.pending \ {l}) \subseteq {l}
    OBVIOUS
  <2> HIDE DEF new
  <2> QED BY <1>4, <2>2, <2>3, <2>4
<1>6. CASE \E l \in Matching(s.leases, mac, a) : o.svc = renewed(l)
  <2>1. PICK l \in Matching(s.leases, mac, a) : o.svc = renewed(l)
    BY <1>6
  <2>2. o.svc = [pool |-> Pool, leases |-> (s.leases \ {l}) \cup {new},
                 pending |-> s.pending, next |-> s.next]
    <3> HIDE DEF new
    <3> QED BY <2>1 DEF Good
  <2>3. l \in Held(s) /\ l.mac = mac /\ l.addr = a
    BY DEF Matching, Held
  <2>4. {l} \in SUBSET s.leases /\ s.pending \in SUBSET s.pending
    BY DEF Matching
  <2> HIDE DEF new
  <2> QED BY <1>4, <2>2, <2>3, <2>4
<1> HIDE DEF new, committed, renewed
<1> QED BY <1>2, <1>3, <1>5, <1>6

-----------------------------------------------------------------------------
(* The inductive invariant.                                                *)

Requests == [type : {"Discover"}, mac : Macs]
            \cup [type : {"Request"}, mac : Macs, addr : Addresses(Pool)]
Replies == [type : {"Offer"}, addr : Addresses(Pool), time : Nat] \cup [type : {"Ack", "Nack"}]
Events == [type : {"LeaseRequest"}, conn : Conns, mac : Macs]
          \cup [type : {"ConfirmRequest"}, conn : Conns, mac : Macs, addr : Addresses(Pool)]
Stages == {"unopened", "queued", "reading", "discovering", "offered", "confirming",
           "renewing", "done"}
Waiting == [phase : {"idle", "discovering", "requesting", "renewing"},
            conn : {{}} \cup {{k} : k \in Conns}, start : Nat, addr : Nat, time : Nat]
Entries == [mac : Macs, addr : Addresses(Pool), start : Nat, time : Nat]

Types ==
  /\ now \in Nat /\ majority \in BOOLEAN /\ flips \in Nat
  /\ events \in Seq(Events) /\ backlog \in Seq(Conns)
  /\ stage \in [Conns -> Stages]
  /\ inbox \in [Conns -> SUBSET Requests] /\ outbox \in [Conns -> SUBSET Replies]
  /\ reply \in [Conns -> {"none", "yes", "no", "dropped"}]
  /\ offer \in [Conns -> SUBSET Leases]
  /\ client \in [Macs -> Waiting] /\ held \subseteq Entries

\* Every conversation has a connection of its own, which has been opened.
Apart ==
  /\ \A c, d \in Macs : client[c].conn \cap client[d].conn # {} => c = d
  /\ \A c \in Macs, k \in Conns : k \in client[c].conn => stage[k] # "unopened"
  /\ \A k \in Conns : stage[k] = "unopened" =>
       inbox[k] = {} /\ outbox[k] = {} /\ reply[k] = "none"

\* The connections that no worker has taken are queued, once.
Queued ==
  /\ \A n \in DOMAIN backlog : stage[backlog[n]] = "queued"
  /\ \A m, n \in DOMAIN backlog : backlog[m] = backlog[n] => m = n

\* A worker that sent an event waits for its answer, and sends no other.
Waits ==
  /\ \A m, n \in DOMAIN events : events[m].conn = events[n].conn => m = n
  /\ \A n \in DOMAIN events :
       /\ reply[events[n].conn] = "none"
       /\ events[n].type = "LeaseRequest" => stage[events[n].conn] = "discovering"
       /\ events[n].type = "ConfirmRequest" =>
            stage[events[n].conn] \in {"confirming", "renewing"}

\* What is offered is known to the service, for the lease time at most.
Offers ==
  \A k \in Conns :
    /\ Sendable(offer[k], now) /\ \A l \in offer[k] : Backed(svc, now, l)
    /\ \A m \in outbox[k] : m.type = "Offer" => m.time <= LeaseTime

\* A client that waits for an Ack.
Asking(c) == client[c].phase \in {"requesting", "renewing"}

Granted(c) ==
  /\ Asking(c)
  /\ Covered(svc, now, c, client[c].addr, client[c].start + client[c].time)

Clients ==
  \A c \in Macs :
    /\ client[c].start <= now /\ client[c].time <= LeaseTime
    /\ Asking(c) => client[c].addr \in Addresses(Pool)

\* A conversation stays with its client and, once that asks, with its address.
Inboxes ==
  \A c \in Macs, k \in Conns : k \in client[c].conn => \A m \in inbox[k] :
    IF m.type = "Discover"
      THEN client[c].phase = "discovering" /\ stage[k] \in {"queued", "reading"} /\ m.mac = c
      ELSE Asking(c) /\ m.mac = c /\ m.addr = client[c].addr

Asked ==
  \A c \in Macs : \A n \in DOMAIN events :
    events[n].conn \in client[c].conn /\ events[n].type = "ConfirmRequest" =>
      Asking(c) /\ events[n].mac = c /\ events[n].addr = client[c].addr

Answered ==
  \A c \in Macs, k \in Conns : k \in client[c].conn =>
    /\ stage[k] \in {"queued", "reading", "discovering"} => outbox[k] = {}
    /\ stage[k] = "discovering" => client[c].phase = "discovering"
    /\ stage[k] \in {"confirming", "renewing"} /\ reply[k] = "yes" => Granted(c)
    /\ \A m \in outbox[k] :
         /\ m.type = "Offer" => client[c].phase = "discovering" /\ stage[k] \in {"offered", "done"}
         /\ m.type = "Ack" => Granted(c)

Kept ==
  \A b \in held :
    /\ b.start <= now /\ b.time <= LeaseTime
    /\ Covered(svc, now, b.mac, b.addr, b.start + b.time)

IInv ==
  /\ Types /\ Good(svc, now) /\ Apart /\ Queued /\ Waits /\ Offers
  /\ Clients /\ Inboxes /\ Asked /\ Answered /\ Kept
-----------------------------------------------------------------------------
(* Clients.                                                                *)

\* A conversation starts on a fresh connection: `state` is what the client waits
\* for, m what it says.
LEMMA OpenKeeps ==
  ASSUME IInv, NEW c \in Macs, NEW state \in Waiting, NEW m \in Requests, Open(c, state, m),
         state.time <= LeaseTime, m.mac = c,
         \/ m.type = "Discover" /\ state.phase = "discovering"
         \/ m.type = "Request" /\ state.phase = "renewing" /\ m.addr = state.addr
  PROVE  IInv'
<1>1. PICK k \in Conns \ Opened :
        /\ client[c] = Idle
        /\ client' = [client EXCEPT ![c] = [state EXCEPT !.conn = {k}, !.start = now]]
        /\ stage' = [stage EXCEPT ![k] = "queued"]
        /\ backlog' = Append(backlog, k)
        /\ inbox' = [inbox EXCEPT ![k] = {m}]
        /\ UNCHANGED <<svc, majority, now, events, outbox, reply, offer, held, flips>>
  BY DEF Open
<1> DEFINE new == [phase |-> state.phase, conn |-> {k}, start |-> now, addr |-> state.addr,
                   time |-> state.time]
<1>2. [state EXCEPT !.conn = {k}, !.start = now] = new
  <2> DEFINE q == [state EXCEPT !.conn = {k}]
  <2>1. q = [phase |-> state.phase, conn |-> {k}, start |-> state.start, addr |-> state.addr,
             time |-> state.time]
    BY DEF Waiting
  <2>2. [state EXCEPT !.conn = {k}, !.start = now] = [q EXCEPT !.start = now]
    OBVIOUS
  <2> HIDE DEF q
  <2> QED BY <2>1, <2>2
<1>3. new \in Waiting
  BY DEF IInv, Types, Waiting
<1>4. /\ client'[c] = new /\ \A d \in Macs : d # c => client'[d] = client[d]
      /\ stage'[k] = "queued" /\ \A j \in Conns : j # k => stage'[j] = stage[j]
      /\ inbox'[k] = {m} /\ \A j \in Conns : j # k => inbox'[j] = inbox[j]
  BY <1>1, <1>2 DEF IInv, Types
<1>5. stage[k] = "unopened" /\ outbox[k] = {} /\ reply[k] = "none"
  BY DEF IInv, Apart, Opened
<1>6. \A d \in Macs : d # c => k \notin client[d].conn
  BY <1>5 DEF IInv, Apart
<1>7. new.phase = state.phase /\ new.conn = {k} /\ new.start = now /\ new.addr = state.addr
      /\ new.time = state.time
  OBVIOUS
<1> HIDE DEF new
<1>8. Types'
  BY <1>1, <1>2, <1>3, AppendProperties DEF IInv, Types, Stages
<1>9. Apart'
  BY <1>1, <1>4, <1>5, <1>6, <1>7 DEF IInv, Apart
<1>10. Waits'
  BY <1>1, <1>4, <1>5 DEF IInv, Waits
<1>11. Good(svc, now)' /\ Offers' /\ Kept'
  BY <1>1 DEF IInv, Offers, Sendable, Backed, Kept, Good, Covered
<1>12. Clients'
  BY <1>1, <1>4, <1>7 DEF IInv, Clients, Asking, Types, Requests
<1>13. Inboxes'
  BY <1>1, <1>4, <1>6, <1>7 DEF IInv, Inboxes, Asking
<1>14. Asked'
  BY <1>1, <1>4, <1>5, <1>6, <1>7 DEF IInv, Asked, Waits, Asking
<1>15. Answered'
  BY <1>1, <1>4, <1>5, <1>6, <1>7 DEF IInv, Answered, Granted, Asking, Covered
<1>16. Queued'
  <2>1. /\ Len(backlog) \in Nat /\ DOMAIN backlog = 1 .. Len(backlog)
        /\ DOMAIN backlog' = 1 .. Len(backlog) + 1
        /\ backlog'[Len(backlog) + 1] = k
        /\ \A n \in DOMAIN backlog : backlog'[n] = backlog[n] /\ backlog[n] \in Conns
    BY <1>1, AppendProperties, LenProperties, ElementOfSeq DEF IInv, Types
  <2>2. \A n \in DOMAIN backlog : backlog[n] # k
    BY <1>5 DEF IInv, Queued
  <2>3. \A n \in DOMAIN backlog' : n \in DOMAIN backlog \/ n = Len(backlog) + 1
    BY <2>1
  <2> QED BY <1>4, <2>1, <2>2, <2>3 DEF IInv, Queued
<1> QED BY <1>8, <1>9, <1>10, <1>11, <1>12, <1>13, <1>14, <1>15, <1>16 DEF IInv

LEMMA QueryKeeps == ASSUME IInv, NEW c \in Macs, Query(c) PROVE IInv'
<1> DEFINE state == [Idle EXCEPT !.phase = "discovering"]
<1>1. state = [phase |-> "discovering", conn |-> {}, start |-> 0, addr |-> 0, time |-> 0]
  BY DEF Idle
<1>2. state \in Waiting /\ state.phase = "discovering" /\ state.time <= LeaseTime
  BY <1>1, LeaseTimeAssumption DEF Waiting
<1>3. Discover(c) \in Requests /\ Discover(c).mac = c /\ Discover(c).type = "Discover"
  BY DEF Discover, Requests
<1>4. Open(c, state, Discover(c))
  BY DEF Query
<1> HIDE DEF state
<1> QED BY <1>2, <1>3, <1>4, OpenKeeps

LEMMA RenewKeeps == ASSUME IInv, NEW c \in Macs, Renew(c) PROVE IInv'
<1>1. PICK b \in held :
        /\ b.mac = c
        /\ Open(c, [Idle EXCEPT !.phase = "renewing", !.addr = b.addr, !.time = b.time],
                Request(c, b.addr))
  BY DEF Renew
<1> DEFINE state == [phase |-> "renewing", conn |-> {}, start |-> 0, addr |-> b.addr,
                     time |-> b.time]
<1>2. [Idle EXCEPT !.phase = "renewing", !.addr = b.addr, !.time = b.time] = state
  <2> DEFINE p == [Idle EXCEPT !.phase = "renewing"]
             q == [p EXCEPT !.addr = b.addr]
  <2>1. p = [phase |-> "renewing", conn |-> {}, start |-> 0, addr |-> 0, time |-> 0]
    BY DEF Idle
  <2> HIDE DEF p
  <2>2. q = [phase |-> "renewing", conn |-> {}, start |-> 0, addr |-> b.addr, time |-> 0]
    BY <2>1
  <2> HIDE DEF q
  <2>3. [q EXCEPT !.time = b.time] = state
    BY <2>2
  <2>4. [Idle EXCEPT !.phase = "renewing", !.addr = b.addr, !.time = b.time]
          = [q EXCEPT !.time = b.time]
    BY DEF p, q
  <2> QED BY <2>3, <2>4
<1>3. b.addr \in Addresses(Pool) /\ b.addr \in Nat /\ b.time \in Nat /\ b.time <= LeaseTime
  BY PoolFacts DEF IInv, Types, Entries, Kept
<1>4. state \in Waiting /\ state.phase = "renewing" /\ state.addr = b.addr
      /\ state.time = b.time
  BY <1>3 DEF Waiting
<1>5. /\ Request(c, b.addr) \in Requests /\ Request(c, b.addr).type = "Request"
      /\ Request(c, b.addr).mac = c /\ Request(c, b.addr).addr = b.addr
  BY <1>3 DEF Request, Requests
<1>6. Open(c, state, Request(c, b.addr))
  BY <1>1, <1>2
<1> HIDE DEF state
<1> QED BY <1>3, <1>4, <1>5, <1>6, OpenKeeps

\* The client's side of a connection k and of its conversation in one record.
LEMMA ConversationFacts ==
  ASSUME IInv, NEW c \in Macs, NEW k, k \in client[c].conn
  PROVE  /\ k \in Conns /\ client[c].conn = {k} /\ stage[k] # "unopened"
         /\ \A d \in Macs : d # c => k \notin client[d].conn
         /\ client[c] \in Waiting
BY DEF IInv, Types, Waiting, Apart

LEMMA ReceiveOfferKeeps ==
  ASSUME IInv, NEW c \in Macs, NEW k \in Conns, ReceiveOffer(c, k)
  PROVE  IInv'
<1>1. PICK m \in outbox[k] :
        /\ client[c].conn = {k} /\ m.type = "Offer"
        /\ client' = [client EXCEPT ![c].phase = "requesting", ![c].addr = m.addr,
                                    ![c].time = m.time]
        /\ outbox' = [outbox EXCEPT ![k] = {}]
        /\ inbox' = [inbox EXCEPT ![k] = IF stage[k] = "done" THEN {} ELSE {Request(c, m.addr)}]
        /\ UNCHANGED <<svc, majority, now, events, workerVars, held, flips>>
  BY DEF ReceiveOffer, Answers
<1> DEFINE new == [phase |-> "requesting", conn |-> {k}, start |-> client[c].start,
                   addr |-> m.addr, time |-> m.time]
<1>2. client' = [client EXCEPT ![c] = new]
  <2> DEFINE b0 == client[c]
             b1 == [phase |-> "requesting", conn |-> {k}, start |-> b0.start,
                    addr |-> b0.addr, time |-> b0.time]
             b2 == [phase |-> "requesting", conn |-> {k}, start |-> b0.start,
                    addr |-> m.addr, time |-> b0.time]
             p == [client EXCEPT ![c].phase = "requesting"]
             q == [p EXCEPT ![c].addr = m.addr]
             r == [q EXCEPT ![c].time = m.time]
  <2>1. client' = r
    BY <1>1
  <2>2. client \in [Macs -> Waiting]
    BY DEF IInv, Types
  <2>3. [b0 EXCEPT !.phase = "requesting"] = b1
    <3>1. b0 \in Waiting /\ b0.conn = {k}
      BY <1>1, <2>2
    <3> HIDE DEF b0
    <3> QED BY <3>1 DEF Waiting
  <2>4. p = [client EXCEPT ![c] = [b0 EXCEPT !.phase = "requesting"]]
    OBVIOUS
  <2>5. [b1 EXCEPT !.addr = m.addr] = b2 /\ [b2 EXCEPT !.time = m.time] = new
    OBVIOUS
  <2> HIDE DEF b1, b2, new, p
  <2>6. p = [client EXCEPT ![c] = b1]
    BY <2>3, <2>4
  <2>7. q = [client EXCEPT ![c] = b2]
    <3>1. p[c] = b1
      BY <2>2, <2>6
    <3>2. q = [p EXCEPT ![c] = [b1 EXCEPT !.addr = m.addr]]
      BY <3>1
    <3> QED BY <2>2, <2>5, <2>6, <3>2
  <2> HIDE DEF q
  <2>8. r = [client EXCEPT ![c] = new]
    <3>1. q[c] = b2
      BY <2>2, <2>7
    <3>2. r = [q EXCEPT ![c] = [b2 EXCEPT !.time = m.time]]
      BY <3>1
    <3> QED BY <2>2, <2>5, <2>7, <3>2
  <2> QED BY <2>1, <2>8
<1>3. m \in Replies /\ m.addr \in Addresses(Pool) /\ m.addr \in Nat /\ m.time \in Nat
      /\ m.time <= LeaseTime
  BY <1>1, PoolFacts DEF IInv, Types, Replies, Offers
<1>4. new \in Waiting
  BY <1>3 DEF IInv, Types, Waiting
<1>5. /\ new.phase = "requesting" /\ new.conn = {k} /\ new.start = client[c].start
      /\ new.addr = m.addr /\ new.time = m.time
  OBVIOUS
<1> HIDE DEF new
<1>6. /\ client'[c] = new /\ \A d \in Macs : d # c => client'[d] = client[d]
      /\ outbox'[k] = {} /\ \A j \in Conns : j # k => outbox'[j] = outbox[j]
      /\ \A j \in Conns : j # k => inbox'[j] = inbox[j]
      /\ inbox'[k] \subseteq {Request(c, m.addr)}
  BY <1>1, <1>2 DEF IInv, Types
<1>7. k \in Conns /\ stage[k] # "unopened" /\ \A d \in Macs : d # c => k \notin client[d].conn
  BY <1>1, ConversationFacts
<1>8. client[c].phase = "discovering" /\ stage[k] \in {"offered", "done"}
  BY <1>1 DEF IInv, Answered
<1>9. /\ Request(c, m.addr) \in Requests /\ Request(c, m.addr).type = "Request"
      /\ Request(c, m.addr).mac = c /\ Request(c, m.addr).addr = m.addr
  BY <1>3 DEF Request, Requests
<1>10. /\ UNCHANGED <<svc, majority, now, events, backlog, stage, reply, offer, held, flips>>
  BY <1>1 DEF workerVars
<1>11. Types'
  <2>1. inbox' \in [Conns -> SUBSET Requests]
    BY <1>1, <1>9 DEF IInv, Types
  <2>2. outbox' \in [Conns -> SUBSET Replies]
    BY <1>1 DEF IInv, Types
  <2>3. client' \in [Macs -> Waiting]
    BY <1>2, <1>4 DEF IInv, Types
  <2> QED BY <1>10, <2>1, <2>2, <2>3 DEF IInv, Types
<1>12. Apart'
  <2>1. \A d \in Macs : client'[d].conn = client[d].conn
    BY <1>1, <1>5, <1>6
  <2>2. \A c1, d \in Macs : (client[c1].conn \cap client[d].conn # {})' => c1 = d
    BY <2>1 DEF IInv, Apart
  <2> QED BY <1>6, <1>7, <1>10, <2>1, <2>2 DEF IInv, Apart
<1>13. Queued' /\ Waits' /\ Good(svc, now)' /\ Kept'
  BY <1>10 DEF IInv, Queued, Waits, Good, Kept, Covered
<1>14. Offers'
  BY <1>6, <1>10 DEF IInv, Offers, Sendable, Backed
<1>15. Clients'
  BY <1>3, <1>5, <1>6, <1>10 DEF IInv, Clients, Asking
<1>16. Inboxes'
  BY <1>5, <1>6, <1>7, <1>9, <1>10 DEF IInv, Inboxes, Asking
<1>17. Asked'
  <2> SUFFICES ASSUME NEW d \in Macs, NEW n \in DOMAIN events,
                      events[n].conn \in client'[d].conn, events[n].type = "ConfirmRequest"
               PROVE  (Asking(d) /\ events[n].mac = d /\ events[n].addr = client[d].addr)'
    BY <1>10 DEF Asked
  <2>1. d # c
    BY <1>1, <1>5, <1>6, <1>8 DEF IInv, Asked, Asking
  <2> QED BY <1>6, <1>10, <2>1 DEF IInv, Asked, Asking
<1>18. Answered'
  <2> SUFFICES ASSUME NEW d \in Macs, NEW j \in Conns, j \in client'[d].conn
               PROVE  (/\ stage[j] \in {"queued", "reading", "discovering"} => outbox[j] = {}
                       /\ stage[j] = "discovering" => client[d].phase = "discovering"
                       /\ stage[j] \in {"confirming", "renewing"} /\ reply[j] = "yes" => Granted(d)
                       /\ \A l \in outbox[j] :
                            /\ l.type = "Offer" => /\ client[d].phase = "discovering"
                                                  /\ stage[j] \in {"offered", "done"}
                            /\ l.type = "Ack" => Granted(d))'
    BY DEF Answered
  <2>1. CASE d = c
    <3>1. j = k
      BY <1>5, <1>6, <2>1
    <3>2. stage'[j] \in {"offered", "done"} /\ outbox'[j] = {}
      BY <1>6, <1>8, <1>10, <3>1
    <3> QED BY <3>2
  <2>2. CASE d # c
    BY <1>6, <1>7, <1>10, <2>2 DEF IInv, Answered, Granted, Asking, Covered
  <2> QED BY <2>1, <2>2
<1> QED BY <1>11, <1>12, <1>13, <1>14, <1>15, <1>16, <1>17, <1>18 DEF IInv

\* A client that leaves has no conversation any more, and the others have theirs.
LEMMA LeaveKeeps ==
  ASSUME IInv, NEW c \in Macs, Leave(c), inbox' \in [Conns -> SUBSET Requests],
         \A j \in Conns : inbox'[j] \subseteq inbox[j],
         held' \subseteq Entries,
         \A b \in held' : /\ b.start <= now /\ b.time <= LeaseTime
                          /\ Covered(svc, now, b.mac, b.addr, b.start + b.time)
  PROVE  IInv'
<1>1. /\ client' = [client EXCEPT ![c] = Idle]
      /\ outbox' = [k \in Conns |-> IF k \in client[c].conn THEN {} ELSE outbox[k]]
      /\ UNCHANGED <<svc, majority, now, events, backlog, stage, reply, offer, flips>>
  BY DEF Leave, workerVars
<1>2. Idle \in Waiting /\ Idle.conn = {} /\ Idle.phase = "idle" /\ Idle.start = 0 /\ Idle.time = 0
  BY DEF Idle, Waiting
<1>3. /\ client'[c] = Idle /\ \A d \in Macs : d # c => client'[d] = client[d]
      /\ \A j \in Conns : outbox'[j] \subseteq outbox[j]
  BY <1>1 DEF IInv, Types
<1>4. Types'
  BY <1>1, <1>2, <1>3 DEF IInv, Types
<1>5. Apart'
  BY <1>1, <1>2, <1>3 DEF IInv, Apart
<1>6. Queued' /\ Waits' /\ Good(svc, now)'
  BY <1>1 DEF IInv, Queued, Waits, Good
<1>7. Offers' /\ Kept'
  BY <1>1, <1>3 DEF IInv, Offers, Sendable, Backed, Kept, Covered
<1>8. Clients'
  BY <1>1, <1>2, <1>3, LeaseTimeAssumption DEF IInv, Clients, Asking, Types
<1>9. Inboxes'
  <2> SUFFICES ASSUME NEW d \in Macs, NEW k \in client'[d].conn, NEW m \in inbox'[k]
               PROVE  IF m.type = "Discover"
                        THEN /\ client[d].phase = "discovering" /\ stage[k] \in {"queued", "reading"}
                             /\ m.mac = d /\ d # c
                        ELSE Asking(d) /\ m.mac = d /\ m.addr = client[d].addr /\ d # c
    BY <1>1, <1>3 DEF Inboxes, Asking
  <2>1. d # c /\ k \in client[d].conn
    BY <1>2, <1>3
  <2>2. k \in Conns
    BY <2>1, ConversationFacts
  <2> QED BY <2>1, <2>2 DEF IInv, Inboxes
<1>10. Asked'
  BY <1>1, <1>2, <1>3 DEF IInv, Asked, Asking
<1>11. Answered'
  <2> SUFFICES ASSUME NEW d \in Macs, NEW k \in client'[d].conn
               PROVE  (/\ stage[k] \in {"queued", "reading", "discovering"} => outbox[k] = {}
                       /\ stage[k] = "discovering" => client[d].phase = "discovering"
                       /\ stage[k] \in {"confirming", "renewing"} /\ reply[k] = "yes" => Granted(d)
                       /\ \A m \in outbox[k] :
                            /\ m.type = "Offer" => /\ client[d].phase = "discovering"
                                                  /\ stage[k] \in {"offered", "done"}
                            /\ m.type = "Ack" => Granted(d))'
    BY DEF Answered
  <2>1. d # c /\ k \in client[d].conn /\ client'[d] = client[d]
    BY <1>2, <1>3
  <2>2. k \in Conns /\ outbox'[k] = outbox[k]
    BY <1>1, <2>1, ConversationFacts
  <2> QED BY <1>1, <2>1, <2>2 DEF IInv, Answered, Granted, Asking, Covered
<1> QED BY <1>4, <1>5, <1>6, <1>7, <1>8, <1>9, <1>10, <1>11 DEF IInv

LEMMA ReceiveAckKeeps ==
  ASSUME IInv, NEW c \in Macs, NEW k \in Conns, ReceiveAck(c, k)
  PROVE  IInv'
<1> DEFINE b == EntryOf(c, client[c].start)
<1>1. PICK m \in outbox[k] : client[c].conn = {k} /\ m.type = "Ack"
  BY DEF ReceiveAck, Answers
<1>2. held' \subseteq held \cup {b} /\ Leave(c) /\ inbox' = inbox
  BY DEF ReceiveAck
<1>3. client[c] \in Waiting
  BY DEF IInv, Types
<1>4. Granted(c)
  BY <1>1 DEF IInv, Answered
<1>5. /\ b.mac = c /\ b.addr = client[c].addr /\ b.start = client[c].start
      /\ b.time = client[c].time /\ b \in Entries
  BY <1>3, <1>4 DEF EntryOf, Entries, Waiting, Granted, IInv, Clients
<1> HIDE DEF b
<1>6. /\ b.start <= now /\ b.time <= LeaseTime
      /\ Covered(svc, now, b.mac, b.addr, b.start + b.time)
  BY <1>4, <1>5 DEF Granted, IInv, Clients
<1> QED BY <1>2, <1>5, <1>6, LeaveKeeps DEF IInv, Types, Kept

LEMMA ReceiveNothingKeeps ==
  ASSUME IInv, NEW c \in Macs, NEW k \in Conns, ReceiveNothing(c, k)
  PROVE  IInv'
BY LeaveKeeps DEF ReceiveNothing, IInv, Types, Kept

LEMMA GiveUpKeeps == ASSUME IInv, NEW c \in Macs, GiveUp(c) PROVE IInv'
<1>1. PICK K : inbox' = [k \in Conns |-> IF k \in K THEN {} ELSE inbox[k]]
  BY DEF GiveUp
<1>2. Leave(c) /\ held' = held
  BY DEF GiveUp
<1>3. inbox' \in [Conns -> SUBSET Requests] /\ \A j \in Conns : inbox'[j] \subseteq inbox[j]
  BY <1>1 DEF IInv, Types
<1> QED BY <1>2, <1>3, LeaveKeeps DEF IInv, Types, Kept

-----------------------------------------------------------------------------
(* Workers.                                                                *)

\* The worker of a connection is past the queue.
LEMMA StageKeepsQueue ==
  ASSUME IInv, NEW k \in Conns, stage[k] # "queued", backlog' = backlog,
         \A j \in Conns : j # k => stage'[j] = stage[j]
  PROVE  Queued'
<1>1. \A n \in DOMAIN backlog : backlog[n] \in Conns
  BY ElementOfSeq, LenProperties DEF IInv, Types
<1> QED BY <1>1 DEF IInv, Queued

\* A worker sends an event for the message it has read, and waits.
LEMMA AskKeeps ==
  ASSUME IInv, NEW k \in Conns, NEW m \in inbox[k], NEW to, NEW e \in Events, Ask(k, to, e),
         e.conn = k, e.mac = m.mac,
         \/ /\ m.type = "Discover" /\ e.type = "LeaseRequest"
            /\ to = "discovering" /\ stage[k] = "reading"
         \/ /\ m.type = "Request" /\ e.type = "ConfirmRequest" /\ e.addr = m.addr
            /\ to \in {"confirming", "renewing"} /\ stage[k] \in {"reading", "offered"}
  PROVE  IInv'
<1>1. /\ stage' = [stage EXCEPT ![k] = to] /\ inbox' = [inbox EXCEPT ![k] = {}]
      /\ events' = Append(events, e) /\ reply' = [reply EXCEPT ![k] = "none"]
      /\ UNCHANGED <<svc, majority, now, backlog, outbox, offer, client, held, flips>>
  BY DEF Ask
<1>2. /\ stage'[k] = to /\ \A j \in Conns : j # k => stage'[j] = stage[j]
      /\ inbox'[k] = {} /\ \A j \in Conns : j # k => inbox'[j] = inbox[j]
      /\ reply'[k] = "none" /\ \A j \in Conns : j # k => reply'[j] = reply[j]
  BY <1>1 DEF IInv, Types
<1>3. /\ Len(events) \in Nat /\ DOMAIN events = 1 .. Len(events)
      /\ DOMAIN events' = 1 .. Len(events) + 1
      /\ events'[Len(events) + 1] = e
      /\ \A n \in DOMAIN events : events'[n] = events[n]
      /\ events' \in Seq(Events)
  BY <1>1, AppendProperties, LenProperties DEF IInv, Types
<1>4. \A n \in DOMAIN events : events[n] \in Events /\ events[n].conn \in Conns
  BY <1>3, ElementOfSeq DEF IInv, Types, Events
<1>5. \A n \in DOMAIN events : events[n].conn # k
  BY <1>4 DEF IInv, Waits, Events
<1>6. \A n \in DOMAIN events' : n \in DOMAIN events \/ n = Len(events) + 1
  BY <1>3
<1>7. Types'
  BY <1>1, <1>3 DEF IInv, Types, Stages
<1>8. Apart'
  BY <1>1, <1>2 DEF IInv, Apart
<1>9. Waits'
  <2>1. ASSUME NEW i \in DOMAIN events', NEW n \in DOMAIN events', events'[i].conn = events'[n].conn
        PROVE  i = n
    BY <1>3, <1>5, <1>6, <2>1 DEF IInv, Waits
  <2>2. ASSUME NEW n \in DOMAIN events'
        PROVE  /\ reply'[events'[n].conn] = "none"
               /\ events'[n].type = "LeaseRequest" => stage'[events'[n].conn] = "discovering"
               /\ events'[n].type = "ConfirmRequest" =>
                    stage'[events'[n].conn] \in {"confirming", "renewing"}
    <3>1. CASE n = Len(events) + 1
      BY <1>2, <1>3, <3>1
    <3>2. CASE n \in DOMAIN events
      BY <1>2, <1>3, <1>4, <1>5, <3>2 DEF IInv, Waits
    <3> QED BY <1>6, <3>1, <3>2
  <2> QED BY <2>1, <2>2 DEF Waits
<1>10. Good(svc, now)' /\ Offers' /\ Clients' /\ Kept'
  BY <1>1 DEF IInv, Good, Offers, Sendable, Backed, Clients, Asking, Kept, Covered
<1>11. Inboxes'
  BY <1>1, <1>2 DEF IInv, Inboxes, Asking
<1>12. Asked'
  <2> SUFFICES ASSUME NEW c \in Macs, NEW n \in DOMAIN events',
                      events'[n].conn \in client[c].conn, events'[n].type = "ConfirmRequest"
               PROVE  Asking(c) /\ events'[n].mac = c /\ events'[n].addr = client[c].addr
    BY <1>1 DEF Asked, Asking
  <2>1. CASE n = Len(events) + 1
    BY <1>3, <2>1 DEF IInv, Inboxes
  <2>2. CASE n \in DOMAIN events
    BY <1>3, <2>2 DEF IInv, Asked
  <2> QED BY <1>6, <2>1, <2>2
<1>13. Answered'
  <2> SUFFICES ASSUME NEW c \in Macs, NEW j \in Conns, j \in client[c].conn
               PROVE  (/\ stage[j] \in {"queued", "reading", "discovering"} => outbox[j] = {}
                       /\ stage[j] = "discovering" => client[c].phase = "discovering"
                       /\ stage[j] \in {"confirming", "renewing"} /\ reply[j] = "yes" => Granted(c)
                       /\ \A l \in outbox[j] :
                            /\ l.type = "Offer" => /\ client[c].phase = "discovering"
                                                  /\ stage[j] \in {"offered", "done"}
                            /\ l.type = "Ack" => Granted(c))'
    BY <1>1 DEF Answered
  <2>1. CASE j = k
    BY <1>1, <1>2, <2>1 DEF IInv, Answered, Inboxes, Granted, Asking, Covered
  <2>2. CASE j # k
    BY <1>1, <1>2, <2>2 DEF IInv, Answered, Granted, Asking, Covered
  <2> QED BY <2>1, <2>2
<1>14. Queued'
  BY <1>1, <1>2, StageKeepsQueue
<1> QED BY <1>7, <1>8, <1>9, <1>10, <1>11, <1>12, <1>13, <1>14 DEF IInv

LEMMA ReadDiscoverKeeps == ASSUME IInv, NEW k \in Conns, ReadDiscover(k) PROVE IInv'
<1>1. PICK m \in inbox[k] : /\ stage[k] = "reading" /\ m.type = "Discover"
                            /\ Ask(k, "discovering", LeaseRequest(k, m))
  BY DEF ReadDiscover, Messages
<1>2. m.mac \in Macs
  BY DEF IInv, Types, Requests
<1>3. /\ LeaseRequest(k, m) \in Events /\ LeaseRequest(k, m).conn = k
      /\ LeaseRequest(k, m).mac = m.mac /\ LeaseRequest(k, m).type = "LeaseRequest"
  BY <1>2 DEF LeaseRequest, Events
<1> QED BY <1>1, <1>3, AskKeeps

\* A Request is passed on as it was read.
LEMMA ConfirmKeeps ==
  ASSUME IInv, NEW k \in Conns, NEW m \in inbox[k], m.type = "Request",
         stage[k] \in {"reading", "offered"}, NEW to \in {"confirming", "renewing"},
         Ask(k, to, ConfirmRequest(k, m))
  PROVE  IInv'
<1>1. m.mac \in Macs /\ m.addr \in Addresses(Pool)
  BY DEF IInv, Types, Requests
<1>2. /\ ConfirmRequest(k, m) \in Events /\ ConfirmRequest(k, m).conn = k
      /\ ConfirmRequest(k, m).mac = m.mac /\ ConfirmRequest(k, m).type = "ConfirmRequest"
      /\ ConfirmRequest(k, m).addr = m.addr
  BY <1>1 DEF ConfirmRequest, Events
<1> QED BY <1>2, AskKeeps

LEMMA ReadRenewalKeeps == ASSUME IInv, NEW k \in Conns, ReadRenewal(k) PROVE IInv'
BY ConfirmKeeps DEF ReadRenewal, Messages

LEMMA ReadRequestKeeps == ASSUME IInv, NEW k \in Conns, ReadRequest(k) PROVE IInv'
BY ConfirmKeeps DEF ReadRequest, Messages

\* A connection has no event in the queue once its answer is there, or while its
\* worker reads.
LEMMA NoEvent ==
  ASSUME IInv, NEW k \in Conns,
         reply[k] # "none" \/ stage[k] \notin {"discovering", "confirming", "renewing"}
  PROVE  \A n \in DOMAIN events : events[n] \in Events /\ events[n].conn \in Conns \ {k}
<1>1. \A n \in DOMAIN events : events[n] \in Events /\ events[n].conn \in Conns
  BY ElementOfSeq, LenProperties DEF IInv, Types, Events
<1>2. \A n \in DOMAIN events : events[n].type \in {"LeaseRequest", "ConfirmRequest"}
  BY <1>1 DEF Events
<1> QED BY <1>1, <1>2 DEF IInv, Waits

\* A worker returns, and may write an answer before.
LEMMA FinishKeeps ==
  ASSUME IInv, NEW k \in Conns, Finish(k), stage[k] \notin {"unopened", "queued"},
         \A n \in DOMAIN events : events[n].conn \in Conns \ {k},
         outbox' \in [Conns -> SUBSET Replies],
         \A j \in Conns : j # k => outbox'[j] = outbox[j],
         \A m \in outbox'[k] :
           \/ m \in outbox[k] \/ m.type = "Nack"
           \/ m.type = "Ack" /\ \A c \in Macs : k \in client[c].conn => Granted(c)
  PROVE  IInv'
<1>1. /\ stage' = [stage EXCEPT ![k] = "done"] /\ inbox' = [inbox EXCEPT ![k] = {}]
      /\ reply' = [reply EXCEPT ![k] = "none"] /\ offer' = [offer EXCEPT ![k] = {}]
      /\ UNCHANGED <<svc, majority, now, events, backlog, client, held, flips>>
  BY DEF Finish
<1>2. /\ stage'[k] = "done" /\ \A j \in Conns : j # k => stage'[j] = stage[j]
      /\ inbox'[k] = {} /\ \A j \in Conns : j # k => inbox'[j] = inbox[j]
      /\ reply'[k] = "none" /\ \A j \in Conns : j # k => reply'[j] = reply[j]
      /\ offer'[k] = {} /\ \A j \in Conns : j # k => offer'[j] = offer[j]
  BY <1>1 DEF IInv, Types
<1>3. Types'
  BY <1>1 DEF IInv, Types, Stages
<1>4. Apart'
  BY <1>1, <1>2 DEF IInv, Apart
<1>5. Queued'
  BY <1>1, <1>2, StageKeepsQueue
<1>6. Waits'
  BY <1>1, <1>2 DEF IInv, Waits
<1>7. Offers'
  BY <1>1, <1>2 DEF IInv, Offers, Sendable, Backed
<1>8. Good(svc, now)' /\ Clients' /\ Kept'
  BY <1>1 DEF IInv, Good, Clients, Asking, Kept, Covered
<1>9. Inboxes' /\ Asked'
  BY <1>1, <1>2 DEF IInv, Inboxes, Asked, Asking
<1>10. Answered'
  <2> SUFFICES ASSUME NEW c \in Macs, NEW j \in Conns, j \in client[c].conn
               PROVE  (/\ stage[j] \in {"queued", "reading", "discovering"} => outbox[j] = {}
                       /\ stage[j] = "discovering" => client[c].phase = "discovering"
                       /\ stage[j] \in {"confirming", "renewing"} /\ reply[j] = "yes" => Granted(c)
                       /\ \A l \in outbox[j] :
                            /\ l.type = "Offer" => /\ client[c].phase = "discovering"
                                                  /\ stage[j] \in {"offered", "done"}
                            /\ l.type = "Ack" => Granted(c))'
    BY <1>1 DEF Answered
  <2>1. CASE j = k
    BY <1>1, <1>2, <2>1 DEF IInv, Answered, Granted, Asking, Covered
  <2>2. CASE j # k
    BY <1>1, <1>2, <2>2 DEF IInv, Answered, Granted, Asking, Covered
  <2> QED BY <2>1, <2>2
<1> QED BY <1>3, <1>4, <1>5, <1>6, <1>7, <1>8, <1>9, <1>10 DEF IInv

LEMMA ReadFailsKeeps == ASSUME IInv, NEW k \in Conns, ReadFails(k) PROVE IInv'
<1>1. \A n \in DOMAIN events : events[n].conn \in Conns \ {k}
  BY NoEvent DEF ReadFails
<1> QED BY <1>1, FinishKeeps DEF ReadFails, IInv, Types

\* The answer on the channel has come.
LEMMA AnswerKeeps ==
  ASSUME IInv, NEW k \in Conns, NEW m \in {Ack, Nack}, Write(k, m), Finish(k),
         stage[k] \in {"discovering", "confirming", "renewing"}, reply[k] # "none",
         m = Ack => stage[k] \in {"confirming", "renewing"} /\ reply[k] = "yes"
  PROVE  IInv'
<1>1. \A n \in DOMAIN events : events[n].conn \in Conns \ {k}
  BY NoEvent
<1>2. m \in Replies /\ m.type \in {"Ack", "Nack"} /\ (m.type = "Ack" => m = Ack)
  BY DEF Ack, Nack, Replies
<1>3. /\ outbox' \in [Conns -> SUBSET Replies] /\ outbox'[k] \subseteq {m}
      /\ \A j \in Conns : j # k => outbox'[j] = outbox[j]
  BY <1>2 DEF Write, IInv, Types
<1>4. m = Ack => \A c \in Macs : k \in client[c].conn => Granted(c)
  BY DEF IInv, Answered
<1> QED BY <1>1, <1>2, <1>3, <1>4, FinishKeeps

LEMMA SendAckKeeps == ASSUME IInv, NEW k \in Conns, SendAck(k) PROVE IInv'
BY AnswerKeeps DEF SendAck

LEMMA SendNackKeeps == ASSUME IInv, NEW k \in Conns, SendNack(k) PROVE IInv'
<1>1. Nack # Ack
  BY DEF Ack, Nack
<1> QED BY <1>1, AnswerKeeps DEF SendNack

LEMMA EndSilentlyKeeps == ASSUME IInv, NEW k \in Conns, EndSilently(k) PROVE IInv'
<1>1. \A n \in DOMAIN events : events[n].conn \in Conns \ {k}
  BY NoEvent DEF EndSilently
<1> QED BY <1>1, FinishKeeps DEF EndSilently, IInv, Types

LEMMA SendOfferKeeps == ASSUME IInv, NEW k \in Conns, SendOffer(k) PROVE IInv'
<1>1. PICK l \in offer[k] : Write(k, Offer(l.addr, Remaining(l)))
  BY DEF SendOffer
<1> DEFINE m == Offer(l.addr, Remaining(l))
<1>2. /\ stage' = [stage EXCEPT ![k] = "offered"] /\ stage[k] = "discovering" /\ reply[k] = "yes"
      /\ UNCHANGED <<svc, majority, now, events, backlog, inbox, reply, offer, client, held, flips>>
  BY DEF SendOffer
<1>3. l \in Leases /\ l.exp <= now + LeaseTime /\ now \in Nat
  BY DEF IInv, Types, Offers, Sendable, Backed
<1>4. Remaining(l) \in Nat /\ Remaining(l) <= LeaseTime
  BY <1>3, LeaseTimeAssumption DEF Remaining, Leases
<1>5. m \in Replies /\ m.type = "Offer" /\ m.time <= LeaseTime
  BY <1>3, <1>4 DEF Offer, Replies, Leases
<1> HIDE DEF m
<1>6. /\ outbox' \in [Conns -> SUBSET Replies] /\ outbox'[k] \subseteq {m}
      /\ \A j \in Conns : j # k => outbox'[j] = outbox[j]
  BY <1>1, <1>5 DEF Write, IInv, Types, m
<1>7. /\ stage'[k] = "offered" /\ \A j \in Conns : j # k => stage'[j] = stage[j]
  BY <1>2 DEF IInv, Types
<1>8. \A n \in DOMAIN events : events[n].conn \in Conns \ {k}
  BY <1>2, NoEvent
<1>9. Types'
  BY <1>2, <1>6 DEF IInv, Types, Stages
<1>10. Apart'
  BY <1>2, <1>6, <1>7 DEF IInv, Apart
<1>11. Queued'
  BY <1>2, <1>7, StageKeepsQueue
<1>12. Waits'
  BY <1>2, <1>7, <1>8 DEF IInv, Waits
<1>13. Offers'
  BY <1>2, <1>5, <1>6 DEF IInv, Offers, Sendable, Backed
<1>14. Good(svc, now)' /\ Clients' /\ Kept'
  BY <1>2 DEF IInv, Good, Clients, Asking, Kept, Covered
<1>15. Inboxes' /\ Asked'
  BY <1>2, <1>7 DEF IInv, Inboxes, Asked, Asking
<1>16. Answered'
  <2> SUFFICES ASSUME NEW c \in Macs, NEW j \in Conns, j \in client[c].conn
               PROVE  (/\ stage[j] \in {"queued", "reading", "discovering"} => outbox[j] = {}
                       /\ stage[j] = "discovering" => client[c].phase = "discovering"
                       /\ stage[j] \in {"confirming", "renewing"} /\ reply[j] = "yes" => Granted(c)
                       /\ \A h \in outbox[j] :
                            /\ h.type = "Offer" => /\ client[c].phase = "discovering"
                                                  /\ stage[j] \in {"offered", "done"}
                            /\ h.type = "Ack" => Granted(c))'
    BY <1>2 DEF Answered
  <2>1. CASE j = k
    BY <1>2, <1>5, <1>6, <1>7, <2>1 DEF IInv, Answered
  <2>2. CASE j # k
    BY <1>2, <1>6, <1>7, <2>2 DEF IInv, Answered, Granted, Asking, Covered
  <2> QED BY <2>1, <2>2
<1> QED BY <1>9, <1>10, <1>11, <1>12, <1>13, <1>14, <1>15, <1>16 DEF IInv

LEMMA TakeConnectionKeeps == ASSUME IInv, TakeConnection PROVE IInv'
<1> DEFINE k == Head(backlog)
<1>1. /\ backlog # <<>> /\ backlog' = Tail(backlog)
      /\ stage' = [stage EXCEPT ![k] = "reading"]
      /\ UNCHANGED <<svc, majority, now, events, inbox, outbox, reply, offer, client, held, flips>>
  BY DEF TakeConnection, streams
<1>2. /\ backlog \in Seq(Conns) /\ Len(backlog) \in Nat \ {0} /\ k \in Conns /\ k = backlog[1]
      /\ backlog' \in Seq(Conns) /\ DOMAIN backlog = 1 .. Len(backlog)
      /\ DOMAIN backlog' = 1 .. Len(backlog) - 1
      /\ \A n \in DOMAIN backlog' : backlog'[n] = backlog[n + 1] /\ backlog[n + 1] \in Conns
  BY <1>1, HeadTailProperties, EmptySeq, LenProperties, ElementOfSeq DEF IInv, Types
<1>3. \A n \in DOMAIN backlog' : n + 1 \in DOMAIN backlog /\ n + 1 # 1
  BY <1>2
<1>4. stage[k] = "queued" /\ \A n \in DOMAIN backlog' : backlog'[n] # k
  BY <1>2, <1>3 DEF IInv, Queued
<1> HIDE DEF k
<1>5. /\ stage'[k] = "reading" /\ \A j \in Conns : j # k => stage'[j] = stage[j]
  BY <1>1, <1>2 DEF IInv, Types
<1>6. Types'
  BY <1>1, <1>2 DEF IInv, Types, Stages
<1>7. Apart'
  BY <1>1, <1>2, <1>5 DEF IInv, Apart
<1>8. Queued'
  <2>1. \A n \in DOMAIN backlog' : stage'[backlog'[n]] = "queued"
    BY <1>2, <1>3, <1>4, <1>5 DEF IInv, Queued
  <2>2. ASSUME NEW i \in DOMAIN backlog', NEW n \in DOMAIN backlog', backlog'[i] = backlog'[n]
        PROVE  i = n
    <3>1. i + 1 = n + 1
      BY <1>2, <1>3, <2>2 DEF IInv, Queued
    <3> QED BY <1>2, <3>1
  <2> QED BY <2>1, <2>2 DEF Queued
<1>9. Waits'
  <2>1. \A n \in DOMAIN events : events[n].conn \in Conns \ {k}
    BY <1>2, <1>4, NoEvent
  <2> QED BY <1>1, <1>5, <2>1 DEF IInv, Waits
<1>10. Good(svc, now)' /\ Offers' /\ Clients' /\ Kept'
  BY <1>1 DEF IInv, Good, Offers, Sendable, Backed, Clients, Asking, Kept, Covered
<1>11. Inboxes' /\ Asked'
  BY <1>1, <1>2, <1>4, <1>5 DEF IInv, Inboxes, Asked, Asking
<1>12. Answered'
  <2> SUFFICES ASSUME NEW c \in Macs, NEW j \in Conns, j \in client[c].conn
               PROVE  (/\ stage[j] \in {"queued", "reading", "discovering"} => outbox[j] = {}
                       /\ stage[j] = "discovering" => client[c].phase = "discovering"
                       /\ stage[j] \in {"confirming", "renewing"} /\ reply[j] = "yes" => Granted(c)
                       /\ \A h \in outbox[j] :
                            /\ h.type = "Offer" => /\ client[c].phase = "discovering"
                                                  /\ stage[j] \in {"offered", "done"}
                            /\ h.type = "Ack" => Granted(c))'
    BY <1>1 DEF Answered
  <2>1. CASE j = k
    BY <1>1, <1>2, <1>4, <1>5, <2>1 DEF IInv, Answered
  <2>2. CASE j # k
    BY <1>1, <1>5, <2>2 DEF IInv, Answered, Granted, Asking, Covered
  <2> QED BY <2>1, <2>2
<1> QED BY <1>6, <1>7, <1>8, <1>9, <1>10, <1>11, <1>12 DEF IInv

-----------------------------------------------------------------------------
(* The main thread and the environment.                                    *)

\* The head of the queue is answered: what the service has leased it keeps, and
\* a confirmed request is covered for the lease time.
LEMMA RespondKeeps ==
  ASSUME IInv, events # <<>>, NEW e, e = Head(events),
         NEW r \in {"yes", "no", "dropped"}, Respond(e.conn, r),
         Good(svc', now), Keeps(svc, svc', now),
         offer' \in [Conns -> SUBSET Leases], \A j \in Conns : Sendable(offer'[j], now),
         \A j \in Conns : \A l \in offer'[j] : Backed(svc', now, l),
         e.type = "ConfirmRequest" /\ r = "yes" =>
           Covered(svc', now, e.mac, e.addr, now + LeaseTime)
  PROVE  IInv'
<1> DEFINE k == e.conn
<1>1. /\ reply' = [reply EXCEPT ![k] = r] /\ events' = Tail(events)
      /\ UNCHANGED <<majority, now, backlog, stage, inbox, outbox, client, held, flips>>
  BY DEF Respond, streams
<1>2. /\ events \in Seq(Events) /\ Len(events) \in Nat \ {0} /\ e \in Events /\ e = events[1]
      /\ events' \in Seq(Events) /\ DOMAIN events = 1 .. Len(events)
      /\ DOMAIN events' = 1 .. Len(events) - 1
      /\ \A n \in DOMAIN events' : events'[n] = events[n + 1] /\ events[n + 1] \in Events
  BY <1>1, HeadTailProperties, EmptySeq, LenProperties, ElementOfSeq DEF IInv, Types
<1>3. \A n \in DOMAIN events' : n + 1 \in DOMAIN events /\ n + 1 # 1
  BY <1>2
<1>4. k \in Conns /\ 1 \in DOMAIN events
  BY <1>2 DEF Events
<1>5. \A n \in DOMAIN events' : events'[n].conn \in Conns \ {k}
  BY <1>2, <1>3, <1>4 DEF IInv, Waits, Events
<1> HIDE DEF k
<1>6. reply'[k] = r /\ \A j \in Conns : j # k => reply'[j] = reply[j]
  BY <1>1, <1>4 DEF IInv, Types
<1>7. \A c \in Macs : client[c].start + client[c].time \in Nat
  BY DEF IInv, Types, Waiting
<1>8. ASSUME NEW c \in Macs, Granted(c) PROVE Granted(c)'
  BY <1>1, <1>7, <1>8, KeepsCovered DEF IInv, Types, Granted, Asking
<1>9. Types'
  BY <1>1, <1>2 DEF IInv, Types
<1>10. Apart'
  <2>1. stage[k] # "unopened"
    BY <1>2, <1>4 DEF IInv, Waits, Events, k
  <2> QED BY <1>1, <1>6, <2>1 DEF IInv, Apart
<1>11. Queued' /\ Clients'
  BY <1>1 DEF IInv, Queued, Clients, Asking
<1>12. Waits'
  <2>1. ASSUME NEW i \in DOMAIN events', NEW n \in DOMAIN events', events'[i].conn = events'[n].conn
        PROVE  i = n
    <3>1. i + 1 = n + 1
      BY <1>2, <1>3, <2>1 DEF IInv, Waits
    <3> QED BY <1>2, <3>1
  <2>2. \A n \in DOMAIN events' :
          /\ reply'[events'[n].conn] = "none"
          /\ events'[n].type = "LeaseRequest" => stage'[events'[n].conn] = "discovering"
          /\ events'[n].type = "ConfirmRequest" =>
               stage'[events'[n].conn] \in {"confirming", "renewing"}
    BY <1>1, <1>2, <1>3, <1>5, <1>6 DEF IInv, Waits
  <2> QED BY <2>1, <2>2 DEF Waits
<1>13. Good(svc, now)' /\ Offers'
  BY <1>1 DEF IInv, Offers
<1>14. Kept'
  BY <1>1, KeepsCovered DEF IInv, Types, Entries, Kept
<1>15. Inboxes'
  BY <1>1 DEF IInv, Inboxes, Asking
<1>16. Asked'
  BY <1>1, <1>2, <1>3 DEF IInv, Asked, Asking
<1>17. Answered'
  <2> SUFFICES ASSUME NEW c \in Macs, NEW j \in Conns, j \in client[c].conn
               PROVE  (/\ stage[j] \in {"queued", "reading", "discovering"} => outbox[j] = {}
                       /\ stage[j] = "discovering" => client[c].phase = "discovering"
                       /\ stage[j] \in {"confirming", "renewing"} /\ reply[j] = "yes" => Granted(c)
                       /\ \A h \in outbox[j] :
                            /\ h.type = "Offer" => /\ client[c].phase = "discovering"
                                                  /\ stage[j] \in {"offered", "done"}
                            /\ h.type = "Ack" => Granted(c))'
    BY <1>1 DEF Answered
  <2>1. stage[j] \in {"confirming", "renewing"} /\ reply'[j] = "yes" => Granted(c)'
    <3>1. CASE j # k
      BY <1>6, <1>8, <3>1 DEF IInv, Answered
    <3>2. CASE j = k /\ r = "yes" /\ stage[j] \in {"confirming", "renewing"}
      <4>1. e.type = "ConfirmRequest"
        BY <1>2, <1>4, <3>2 DEF IInv, Waits, Events, k
      <4>2. Asking(c) /\ e.mac = c /\ e.addr = client[c].addr
        BY <1>2, <1>4, <3>2, <4>1 DEF IInv, Asked, k
      <4>3. Covered(svc', now, c, client[c].addr, now + LeaseTime)
        BY <3>2, <4>1, <4>2
      <4>4. client[c].start + client[c].time <= now + LeaseTime
        BY LeaseTimeAssumption DEF IInv, Types, Waiting, Clients
      <4>5. \A l \in svc'.leases : l.exp \in Nat
        BY DEF Good, Leases
      <4>6. Covered(svc', now, c, client[c].addr, client[c].start + client[c].time)
        BY <1>7, <4>3, <4>4, <4>5, LeaseTimeAssumption DEF Covered, IInv, Types
      <4> QED BY <1>1, <4>2, <4>6 DEF Granted, Asking
    <3> QED BY <1>6, <3>1, <3>2
  <2> QED BY <1>1, <1>8, <2>1 DEF IInv, Answered
<1> QED BY <1>9, <1>10, <1>11, <1>12, <1>13, <1>14, <1>15, <1>16, <1>17 DEF IInv

\* A service keeps what it has when nothing is asked of it.
LEMMA KeepsItself == ASSUME IInv PROVE Keeps(svc, svc, now)
BY DEF IInv, Good, Keeps, Held, Leases

\* The head of the queue is an event of a connection.
LEMMA HeadEvent ==
  ASSUME IInv, events # <<>>
  PROVE  /\ Head(events) \in Events /\ Head(events).conn \in Conns /\ Head(events).mac \in Macs
BY HeadTailProperties DEF IInv, Types, Events

LEMMA HandleLeaseRequestKeeps == ASSUME IInv, NEW e, HandleLeaseRequest(e) PROVE IInv'
<1>1. events # <<>> /\ e = Head(events) /\ e.type = "LeaseRequest" /\ e.conn \in Conns /\ e.mac \in Macs
  BY HeadEvent DEF HandleLeaseRequest, Handles
<1>2. CASE Respond(e.conn, "dropped") /\ svc' = svc /\ offer' = offer
  <2>1. Good(svc', now) /\ Keeps(svc, svc', now)
    BY <1>2, KeepsItself DEF IInv
  <2> QED BY <1>1, <1>2, <2>1, RespondKeeps DEF IInv, Types, Offers
<1>3. ASSUME NEW o \in DiscoverLease(svc, e.mac, now), svc' = o.svc,
             offer' = [offer EXCEPT ![e.conn] = o.offer],
             Respond(e.conn, IF o.offer = {} THEN "dropped" ELSE "yes")
      PROVE  IInv'
  <2>1. /\ Good(o.svc, now) /\ Keeps(svc, o.svc, now) /\ Sendable(o.offer, now)
        /\ \A l \in o.offer : Backed(o.svc, now, l)
    BY <1>1, DiscoverGood DEF IInv, Types
  <2>2. offer' \in [Conns -> SUBSET Leases] /\ \A j \in Conns : Sendable(offer'[j], now)
    BY <1>1, <1>3, <2>1 DEF IInv, Types, Offers, Sendable, Backed
  <2>3. \A j \in Conns : \A l \in offer[j] : Backed(o.svc, now, l)
    BY <2>1, KeepsBacked DEF IInv, Types, Offers
  <2>4. \A j \in Conns : \A l \in offer'[j] : Backed(svc', now, l)
    BY <1>1, <1>3, <2>1, <2>3 DEF IInv, Types
  <2> QED BY <1>1, <1>3, <2>1, <2>2, <2>4, RespondKeeps
<1> QED BY <1>2, <1>3 DEF HandleLeaseRequest

LEMMA HandleConfirmRequestKeeps == ASSUME IInv, NEW e, HandleConfirmRequest(e) PROVE IInv'
<1>1. events # <<>> /\ e = Head(events) /\ e.type = "ConfirmRequest"
  BY DEF HandleConfirmRequest, Handles
<1>2. CASE Respond(e.conn, "dropped") /\ svc' = svc /\ offer' = offer
  <2>1. Good(svc', now) /\ Keeps(svc, svc', now)
    BY <1>2, KeepsItself DEF IInv
  <2> QED BY <1>1, <1>2, <2>1, RespondKeeps DEF IInv, Types, Offers
<1>3. ASSUME NEW o \in CommitLease(svc, e.mac, e.addr, now), svc' = o.svc, offer' = offer,
             Respond(e.conn, IF o.acked = {} THEN "no" ELSE "yes")
      PROVE  IInv'
  <2>1. /\ Good(o.svc, now) /\ Keeps(svc, o.svc, now)
        /\ o.acked # {} => Covered(o.svc, now, e.mac, e.addr, now + LeaseTime)
    BY CommitGood DEF IInv, Types
  <2>2. \A j \in Conns : \A l \in offer[j] : Backed(o.svc, now, l)
    BY <2>1, KeepsBacked DEF IInv, Types, Offers
  <2> QED BY <1>1, <1>3, <2>1, <2>2, RespondKeeps DEF IInv, Types, Offers
<1> QED BY <1>2, <1>3 DEF HandleConfirmRequest

LEMMA FlipKeeps == ASSUME IInv, Flip PROVE IInv'
BY DEF IInv, Flip, workerVars, streams, Types, Good, Apart, Queued, Waits, Offers, Sendable, Backed,
       Clients, Inboxes, Asked, Answered, Kept, Granted, Asking, Covered

\* As time passes, leases run out and what they cover is over.
LEMMA TickKeeps == ASSUME IInv, Tick PROVE IInv'
<1>1. /\ now' = now + 1 /\ now \in Nat /\ held' \subseteq held
      /\ UNCHANGED <<svc, majority, events, backlog, stage, reply, offer, inbox, outbox, client, flips>>
  BY DEF Tick, workerVars, streams, IInv, Types
<1>2. \A c, a, until : until \in Nat /\ Covered(svc, now, c, a, until) =>
        Covered(svc, now, c, a, until)'
  BY <1>1 DEF Covered
<1>3. Types' /\ Apart' /\ Queued' /\ Waits' /\ Inboxes' /\ Asked'
  BY <1>1 DEF IInv, Types, Apart, Queued, Waits, Inboxes, Asked, Asking
<1>4. Good(svc, now)'
  BY <1>1, LeaseTimeAssumption DEF IInv, Good, Held, Leases
<1>5. Offers'
  BY <1>1, LeaseTimeAssumption DEF IInv, Types, Offers, Sendable, Backed, Leases
<1>6. Clients'
  BY <1>1 DEF IInv, Types, Waiting, Clients, Asking
<1>7. Kept'
  BY <1>1, <1>2 DEF IInv, Types, Entries, Kept
<1>8. ASSUME NEW c \in Macs, Granted(c) PROVE Granted(c)'
  <2>1. client[c].start + client[c].time \in Nat
    BY DEF IInv, Types, Waiting
  <2> QED BY <1>1, <1>2, <1>8, <2>1 DEF Granted, Asking
<1>9. Answered'
  BY <1>1, <1>8 DEF IInv, Answered
<1> QED BY <1>3, <1>4, <1>5, <1>6, <1>7, <1>9 DEF IInv

-----------------------------------------------------------------------------
(* The theorems.                                                           *)

LEMMA InitIInv == Init => IInv
<1> SUFFICES ASSUME Init PROVE IInv
  OBVIOUS
<1>1. Idle \in Waiting /\ Idle.conn = {} /\ Idle.phase = "idle" /\ Idle.start = 0 /\ Idle.time = 0
  BY DEF Idle, Waiting
<1>2. /\ svc.pool = Pool /\ svc.leases = {} /\ svc.pending = {} /\ svc.next = Pool.start
      /\ svc \in [pool : {Pool}, leases : SUBSET Leases, pending : SUBSET Leases, next : Nat]
  BY PoolFacts DEF Init, NewService
<1>3. Good(svc, now)
  BY <1>2, PoolFacts DEF Good, Held
<1>4. events = <<>> /\ backlog = <<>> /\ DOMAIN events = {} /\ DOMAIN backlog = {}
      /\ events \in Seq(Events) /\ backlog \in Seq(Conns)
  BY EmptySeq DEF Init
<1>5. Types
  BY <1>1, <1>4 DEF Init, Types, Stages
<1>6. Apart /\ Queued /\ Waits
  BY <1>1, <1>4 DEF Init, Apart, Queued, Waits
<1>7. Offers /\ Kept
  BY DEF Init, Offers, Sendable, Backed, Kept
<1>8. Clients
  BY <1>1, LeaseTimeAssumption DEF Init, Clients, Asking
<1>9. Inboxes /\ Asked /\ Answered
  BY <1>1, <1>4 DEF Init, Inboxes, Asked, Answered
<1> QED BY <1>3, <1>5, <1>6, <1>7, <1>8, <1>9 DEF IInv

LEMMA NextIInv == IInv /\ [Next]_vars => IInv'
<1> SUFFICES ASSUME IInv, [Next]_vars PROVE IInv'
  OBVIOUS
<1>1. ASSUME NEW c \in Macs, Query(c) PROVE IInv'
  BY <1>1, QueryKeeps
<1>2. ASSUME NEW c \in Macs, Renew(c) PROVE IInv'
  BY <1>2, RenewKeeps
<1>3. ASSUME NEW c \in Macs, GiveUp(c) PROVE IInv'
  BY <1>3, GiveUpKeeps
<1>4. ASSUME NEW c \in Macs, Receive(c) PROVE IInv'
  BY <1>4, ReceiveOfferKeeps, ReceiveAckKeeps, ReceiveNothingKeeps DEF Receive
<1>5. CASE TakeConnection
  BY <1>5, TakeConnectionKeeps
<1>6. ASSUME NEW k \in Conns, Worker(k) PROVE IInv'
  BY <1>6, ReadDiscoverKeeps, ReadRenewalKeeps, ReadRequestKeeps, ReadFailsKeeps, SendOfferKeeps,
     SendAckKeeps, SendNackKeeps, EndSilentlyKeeps DEF Worker
<1>7. CASE Main
  BY <1>7, HandleLeaseRequestKeeps, HandleConfirmRequestKeeps DEF Main
<1>8. CASE Flip
  BY <1>8, FlipKeeps
<1>9. CASE Tick
  BY <1>9, TickKeeps
<1>10. CASE UNCHANGED vars
  BY <1>10 DEF IInv, vars, workerVars, streams, Types, Good, Apart, Queued, Waits, Offers, Sendable, Backed,
     Clients, Inboxes, Asked, Answered, Kept, Granted, Asking, Covered
<1> QED BY <1>1, <1>2, <1>3, <1>4, <1>5, <1>6, <1>7, <1>8, <1>9, <1>10 DEF Next, Serving

LEMMA IInvInvariant == Spec => []IInv
BY InitIInv, NextIInv, PTL DEF Spec

\* A client that waits follows one connection.
LEMMA OneConnection == ASSUME IInv, NEW c \in Macs
                       PROVE client[c].conn \subseteq Conns /\ Cardinality(client[c].conn) <= 1
<1>1. client[c].conn = {} \/ \E k \in Conns : client[c].conn = {k}
  <2>1. client[c].conn \in {{}} \cup {{k} : k \in Conns}
    BY DEF IInv, Types, Waiting
  <2> QED BY <2>1, Zenon
<1>2. CASE client[c].conn = {}
  BY <1>2, FS_EmptySet
<1>3. ASSUME NEW k \in Conns, client[c].conn = {k}
      PROVE  client[c].conn \subseteq Conns /\ Cardinality(client[c].conn) <= 1
  <2>1. Cardinality({k}) = 1
    BY FS_Singleton, Zenon
  <2> QED BY <1>3, <2>1
<1> QED BY <1>1, <1>2, <1>3

\* Type correctness: the state of every conversation, whatever connections are open
\* and whoever has given up, and a service whose leases are of its own pool.
THEOREM TypeCorrect == Spec => []TypeOK
<1>1. IInv => TypeOK
  BY OneConnection DEF IInv, Types, Good, Stages, Entries, TypeOK
<1> QED BY <1>1, IInvInvariant, PTL

\* What serve_client, the main thread and the client's table come to: however late an
\* answer, an address in a client's table is leased to it alone (dhcp.rs:218) for as
\* long as the client counts on it.
THEOREM HeldIsTheirs == Spec => []HeldIsLeased
<1>1. IInv => HeldIsLeased
  <2> SUFFICES ASSUME IInv, NEW b \in held, InForce(b, now)
               PROVE  /\ \E l \in svc.leases : l.mac = b.mac /\ l.addr = b.addr /\ l.exp >= b.start + b.time
                      /\ \A l \in svc.leases : l.addr = b.addr => l.mac = b.mac
    BY DEF HeldIsLeased
  <2>1. b.start \in Nat /\ b.time \in Nat /\ now \in Nat /\ now < b.start + b.time
    BY DEF IInv, Types, Entries, InForce
  <2>2. PICK l \in svc.leases : l.mac = b.mac /\ l.addr = b.addr /\ b.start + b.time <= l.exp
    BY <2>1 DEF IInv, Kept, Covered
  <2>3. \A j \in svc.leases : j.addr = b.addr => j.mac = b.mac
    BY <2>2 DEF IInv, Good, Held
  <2>4. l.exp \in Nat
    BY DEF IInv, Good, Leases
  <2> QED BY <2>1, <2>2, <2>3, <2>4
<1> QED BY <1>1, IInvInvariant, PTL

\* What an offer is worth: the address of an offer that a client reads is kept for it
\* until the offer expires, whatever other clients, or the same client on another
\* connection, ask the main thread in between.
THEOREM OffersAreKept == Spec => []OffersStand
<1>1. IInv => OffersStand
  <2> SUFFICES ASSUME IInv, NEW k \in Conns, NEW l \in offer[k], l.exp > now
               PROVE  Matching(Held(svc), l.mac, l.addr) # {}
    BY DEF OffersStand
  <2>1. l.exp \in Nat /\ now \in Nat /\ Backed(svc, now, l)
    BY DEF IInv, Types, Offers, Leases
  <2>2. PICK j \in Held(svc) : j.mac = l.mac /\ j.addr = l.addr
    BY <2>1 DEF Backed
  <2>3. j \in Matching(Held(svc), l.mac, l.addr)
    BY <2>2 DEF Matching
  <2> QED BY <2>3
<1> QED BY <1>1, IInvInvariant, PTL

-----------------------------------------------------------------------------
(* One lease for a client that waits for its answers.                      *)
(*                                                                         *)
(* What such a client asked for is served before it asks again, so that the *)
(* service knows no lease of it at another address than the one it is about *)
(* to be granted; and an address is never both leased and offered, so that  *)
(* confirming an offer adds no second lease of the address.                *)

Patient == Macs \ MayGiveUp

\* The client has no lease at another address.
OnlyAt(c, a) == \A l \in svc.leases : l.mac = c => l.addr = a

\* An address is offered once, and not while it is leased.
OfferedOnce(s) ==
  /\ \A l \in s.leases, p \in s.pending : l.addr # p.addr
  /\ \A p, q \in s.pending : p.addr = q.addr => p = q

\* Nothing waits on a connection that is not served; the last word is said at the end.
Closed ==
  \A k \in Conns :
    /\ stage[k] \in {"unopened", "done"} => inbox[k] = {}
    /\ stage[k] = "unopened" => offer[k] = {}
    /\ \A m \in outbox[k] : m.type # "Offer" => stage[k] = "done"

\* An event bears the name of the client whose connection it came from, and what a
\* patient client said came from the connection it follows.
Attributed ==
  /\ \A c \in Macs : \A n \in DOMAIN events :
       events[n].conn \in client[c].conn => events[n].mac = c
  /\ \A c \in Patient :
       /\ \A k \in Conns : \A m \in inbox[k] : m.mac = c => k \in client[c].conn
       /\ \A n \in DOMAIN events : events[n].mac = c => events[n].conn \in client[c].conn

\* A patient client has one lease, and asks for no other address than that.
Single ==
  \A c \in Patient :
    /\ \A l, m \in svc.leases : l.mac = c /\ m.mac = c => l = m
    /\ Asking(c) => OnlyAt(c, client[c].addr)
    /\ client[c].phase = "discovering" => \A k \in client[c].conn :
         /\ \A l \in offer[k] : OnlyAt(c, l.addr)
         /\ \A m \in outbox[k] : m.type = "Offer" => OnlyAt(c, m.addr)

JInv == OfferedOnce(svc) /\ Closed /\ Attributed /\ Single

\* Discovering gives away an address that was neither offered nor leased, to a client
\* without a lease, or the address that the client has.
LEMMA DiscoverOnce ==
  ASSUME NEW s, NEW t \in Nat, Good(s, t), OfferedOnce(s), NEW mac \in Macs,
         NEW o \in DiscoverLease(s, mac, t)
  PROVE  /\ OfferedOnce(o.svc) /\ o.svc.leases \subseteq s.leases
         /\ (\A l, m \in s.leases : l.mac = mac /\ m.mac = mac => l = m) =>
              \A l \in o.offer : \A m \in o.svc.leases : m.mac = mac => m.addr = l.addr
<1> DEFINE p == Prune(s, t)
<1>1. /\ Good(p, t) /\ p.leases = Unexpired(s.leases, t) /\ p.pending = Unexpired(s.pending, t)
  BY PruneGood
<1>2. p.leases \subseteq s.leases /\ p.pending \subseteq s.pending
  BY <1>1 DEF Unexpired
<1>3. OfferedOnce(p)
  BY <1>2 DEF OfferedOnce
<1> HIDE DEF p
<1>4. CASE \E l \in {m \in s.leases : m.mac = mac} : o = [svc |-> s, offer |-> {l}]
  BY <1>4
<1>5. CASE o = [svc |-> p, offer |-> {}]
  BY <1>2, <1>3, <1>5
<1>6. ASSUME NEW a \in FreeAddresses(p), o = OfferOf(p, mac, a, t), \A m \in s.leases : m.mac # mac
      PROVE  /\ OfferedOnce(o.svc) /\ o.svc.leases \subseteq s.leases
             /\ \A l \in o.offer : \A m \in o.svc.leases : m.mac = mac => m.addr = l.addr
  <2> DEFINE new == Lease(mac, a, t + LeaseTime)
  <2>1. o.svc.leases = p.leases /\ Held(o.svc) = Held(p) \cup {new} /\ new.addr = a
    <3>1. /\ OfferOf(p, mac, a, t).svc.leases = p.leases
          /\ Held(OfferOf(p, mac, a, t).svc) = Held(p) \cup {new}
      BY <1>1, OfferGood
    <3>2. new.addr = a
      BY DEF Lease
    <3> QED BY <1>6, <3>1, <3>2
  <2>2. o.svc.pending = p.pending \cup {new}
    BY <1>1, <1>6 DEF OfferOf, FreshTimestamp, Good
  <2> HIDE DEF new
  <2>3. \A k \in Held(p) : k.addr # a
    <3>1. p.pool = Pool /\ p.next \in Pool.start .. Pool.end
      BY <1>1 DEF Good
    <3>2. a \notin AddressesOf(Held(p))
      BY <3>1, PoolAssumption, ScanStaysInRange DEF FreeAddresses
    <3> QED BY <3>2 DEF AddressesOf
  <2>4. OfferedOnce(o.svc)
    BY <1>3, <2>1, <2>2, <2>3 DEF OfferedOnce, Held
  <2> QED BY <1>2, <1>6, <2>1, <2>4
<1>7. \/ \E l \in {m \in s.leases : m.mac = mac} : o = [svc |-> s, offer |-> {l}]
      \/ o = [svc |-> p, offer |-> {}]
      \/ \E a \in FreeAddresses(p) : o = OfferOf(p, mac, a, t) /\ \A m \in s.leases : m.mac # mac
  BY DEF DiscoverLease, p
<1> QED BY <1>4, <1>5, <1>6, <1>7

\* A confirmed client that had no lease at another address has this one.
LEMMA CommitOnce ==
  ASSUME NEW s, NEW t \in Nat, Good(s, t), OfferedOnce(s), NEW mac, NEW a,
         NEW o \in CommitLease(s, mac, a, t)
  PROVE  /\ OfferedOnce(o.svc)
         /\ \A l \in o.svc.leases : l \in s.leases \/ (l.mac = mac /\ l.addr = a)
         /\ /\ \A l, m \in s.leases : l.mac = mac /\ m.mac = mac => l = m
            /\ \A l \in s.leases : l.mac = mac => l.addr = a
            => \A l, m \in o.svc.leases : l.mac = mac /\ m.mac = mac => l = m
<1> DEFINE new == Lease(mac, a, t + LeaseTime)
           committed(l) == [s EXCEPT !.pending = @ \ {l}, !.leases = @ \cup {new}]
           renewed(l) == [s EXCEPT !.leases = (@ \ {l}) \cup {new}]
<1>1. new.mac = mac /\ new.addr = a
  BY DEF Lease
<1>2. \/ \E l \in Matching(s.pending, mac, a) : o.svc = committed(l)
      \/ /\ Matching(s.pending, mac, a) = {}
         /\ \E l \in Matching(s.leases, mac, a) : o.svc = renewed(l)
      \/ o.svc = s
  <2>1. \/ o \in {[svc |-> committed(l), acked |-> {new}] : l \in Matching(s.pending, mac, a)}
        \/ /\ Matching(s.pending, mac, a) = {}
           /\ o \in {[svc |-> renewed(l), acked |-> {new}] : l \in Matching(s.leases, mac, a)}
        \/ o \in {[svc |-> s, acked |-> {}]}
    BY Zenon DEF CommitLease, FreshTimestamp, new
  <2> HIDE DEF committed, renewed
  <2> QED BY <2>1
<1>3. CASE o.svc = s
  BY <1>3
<1>4. ASSUME NEW l \in Matching(s.pending, mac, a), o.svc = committed(l)
      PROVE  o.svc.pending = s.pending \ {l} /\ o.svc.leases = s.leases \cup {new}
  <2> HIDE DEF new
  <2> DEFINE q == [s EXCEPT !.pending = @ \ {l}]
  <2>1. q = [pool |-> Pool, leases |-> s.leases, pending |-> s.pending \ {l}, next |-> s.next]
    BY DEF Good
  <2>2. o.svc = [q EXCEPT !.leases = @ \cup {new}]
    BY <1>4
  <2> HIDE DEF q
  <2> QED BY <2>1, <2>2
<1>5. ASSUME NEW l \in Matching(s.leases, mac, a), o.svc = renewed(l)
      PROVE  o.svc.pending = s.pending /\ o.svc.leases = (s.leases \ {l}) \cup {new}
  <2> HIDE DEF new
  <2> QED BY <1>5 DEF Good
<1> HIDE DEF new, committed, renewed
<1>6. ASSUME NEW l \in Matching(s.pending, mac, a), o.svc = committed(l)
      PROVE  /\ OfferedOnce(o.svc)
             /\ \A k \in s.leases : k.addr # a
             /\ \A k \in o.svc.leases : k \in s.leases \/ k = new
  BY <1>1, <1>4, <1>6 DEF OfferedOnce, Matching
<1>7. ASSUME NEW l \in Matching(s.leases, mac, a), o.svc = renewed(l)
      PROVE  /\ OfferedOnce(o.svc)
             /\ l \in s.leases /\ l.mac = mac
             /\ \A k \in o.svc.leases : (k \in s.leases /\ k # l) \/ k = new
  <2>1. l \in s.leases /\ l.mac = mac /\ l.addr = a
    BY DEF Matching
  <2>2. OfferedOnce(o.svc)
    BY <1>1, <1>5, <1>7, <2>1 DEF OfferedOnce
  <2> QED BY <1>5, <1>7, <2>1, <2>2
<1>8. CASE \E l \in Matching(s.pending, mac, a) : o.svc = committed(l)
  BY <1>1, <1>6, <1>8
<1>9. CASE \E l \in Matching(s.leases, mac, a) : o.svc = renewed(l)
  BY <1>1, <1>7, <1>9
<1> QED BY <1>2, <1>3, <1>8, <1>9

\* A client that is not waiting opens a connection, and if it is to renew a lease, it
\* has no other one.
LEMMA OpenSingle ==
  ASSUME IInv, JInv, NEW c \in Macs, NEW state \in Waiting, NEW m, Open(c, state, m),
         m.mac = c,
         state.phase # "discovering" /\ c \in Patient => OnlyAt(c, state.addr)
  PROVE  JInv'
<1>1. PICK k \in Conns \ Opened :
        /\ client[c] = Idle
        /\ client' = [client EXCEPT ![c] = [state EXCEPT !.conn = {k}, !.start = now]]
        /\ stage' = [stage EXCEPT ![k] = "queued"]
        /\ inbox' = [inbox EXCEPT ![k] = {m}]
        /\ UNCHANGED <<svc, majority, now, events, outbox, reply, offer, held, flips>>
  BY DEF Open
<1> DEFINE new == [phase |-> state.phase, conn |-> {k}, start |-> now, addr |-> state.addr,
                   time |-> state.time]
<1>2. [state EXCEPT !.conn = {k}, !.start = now] = new
  <2> DEFINE q == [state EXCEPT !.conn = {k}]
  <2>1. q = [phase |-> state.phase, conn |-> {k}, start |-> state.start, addr |-> state.addr,
             time |-> state.time]
    BY DEF Waiting
  <2>2. [state EXCEPT !.conn = {k}, !.start = now] = [q EXCEPT !.start = now]
    OBVIOUS
  <2> HIDE DEF q
  <2> QED BY <2>1, <2>2
<1>3. /\ client'[c] = new /\ \A d \in Macs : d # c => client'[d] = client[d]
      /\ stage'[k] = "queued" /\ \A j \in Conns : j # k => stage'[j] = stage[j]
      /\ inbox'[k] = {m} /\ \A j \in Conns : j # k => inbox'[j] = inbox[j]
  BY <1>1, <1>2 DEF IInv, Types
<1>4. new.phase = state.phase /\ new.conn = {k} /\ new.addr = state.addr /\ client[c].conn = {}
  BY <1>1 DEF Idle
<1> HIDE DEF new
<1>5. stage[k] = "unopened" /\ outbox[k] = {} /\ offer[k] = {}
  BY DEF IInv, Apart, Opened, JInv, Closed
<1>6. \A n \in DOMAIN events : events[n].conn \in Conns \ {k}
  BY <1>5, NoEvent
<1>7. OfferedOnce(svc)' /\ Closed'
  BY <1>1, <1>3, <1>5 DEF JInv, OfferedOnce, Closed
<1>8. Attributed'
  BY <1>1, <1>3, <1>4, <1>6 DEF JInv, Attributed, Patient
<1>9. Single'
  BY <1>1, <1>3, <1>4, <1>5 DEF JInv, Single, Patient, Asking, OnlyAt
<1> QED BY <1>7, <1>8, <1>9 DEF JInv

LEMMA QuerySingle == ASSUME IInv, JInv, NEW c \in Macs, Query(c) PROVE JInv'
<1> DEFINE state == [Idle EXCEPT !.phase = "discovering"]
<1>1. state = [phase |-> "discovering", conn |-> {}, start |-> 0, addr |-> 0, time |-> 0]
  BY DEF Idle
<1>2. state \in Waiting /\ state.phase = "discovering"
  BY <1>1 DEF Waiting
<1>3. Discover(c).mac = c /\ Open(c, state, Discover(c))
  BY DEF Discover, Query
<1> HIDE DEF state
<1> QED BY <1>2, <1>3, OpenSingle

\* A lease that is in the client's table is one that the service knows.
LEMMA RenewSingle == ASSUME IInv, JInv, NEW c \in Macs, Renew(c) PROVE JInv'
<1>1. PICK b \in held :
        /\ b.mac = c /\ InForce(b, now)
        /\ Open(c, [Idle EXCEPT !.phase = "renewing", !.addr = b.addr, !.time = b.time],
                Request(c, b.addr))
  BY DEF Renew
<1> DEFINE state == [phase |-> "renewing", conn |-> {}, start |-> 0, addr |-> b.addr,
                     time |-> b.time]
<1>2. [Idle EXCEPT !.phase = "renewing", !.addr = b.addr, !.time = b.time] = state
  <2> DEFINE p == [Idle EXCEPT !.phase = "renewing"]
             q == [p EXCEPT !.addr = b.addr]
  <2>1. p = [phase |-> "renewing", conn |-> {}, start |-> 0, addr |-> 0, time |-> 0]
    BY DEF Idle
  <2> HIDE DEF p
  <2>2. q = [phase |-> "renewing", conn |-> {}, start |-> 0, addr |-> b.addr, time |-> 0]
    BY <2>1
  <2> HIDE DEF q
  <2>3. [q EXCEPT !.time = b.time] = state
    BY <2>2
  <2>4. [Idle EXCEPT !.phase = "renewing", !.addr = b.addr, !.time = b.time]
          = [q EXCEPT !.time = b.time]
    BY DEF p, q
  <2> QED BY <2>3, <2>4
<1>3. /\ b.addr \in Nat /\ b.time \in Nat /\ b.start \in Nat /\ now \in Nat
      /\ now < b.start + b.time
  BY <1>1, PoolFacts DEF IInv, Types, Entries, InForce
<1>4. state \in Waiting /\ state.addr = b.addr
  BY <1>3 DEF Waiting
<1>5. \E l \in svc.leases : l.mac = c /\ l.addr = b.addr
  BY <1>1, <1>3 DEF IInv, Kept, Covered
<1>6. c \in Patient => OnlyAt(c, b.addr)
  BY <1>5 DEF JInv, Single, OnlyAt
<1>7. Request(c, b.addr).mac = c /\ Open(c, state, Request(c, b.addr))
  BY <1>1, <1>2 DEF Request
<1> HIDE DEF state
<1> QED BY <1>4, <1>6, <1>7, OpenSingle

LEMMA ReceiveOfferSingle ==
  ASSUME IInv, JInv, NEW c \in Macs, NEW k \in Conns, ReceiveOffer(c, k)
  PROVE  JInv'
<1>1. PICK m \in outbox[k] :
        /\ client[c].conn = {k} /\ m.type = "Offer"
        /\ client' = [client EXCEPT ![c].phase = "requesting", ![c].addr = m.addr,
                                    ![c].time = m.time]
        /\ outbox' = [outbox EXCEPT ![k] = {}]
        /\ inbox' = [inbox EXCEPT ![k] = IF stage[k] = "done" THEN {} ELSE {Request(c, m.addr)}]
        /\ UNCHANGED <<svc, majority, now, events, backlog, stage, reply, offer, held, flips>>
  BY DEF ReceiveOffer, Answers, workerVars
<1>2. client[c].phase = "discovering" /\ stage[k] # "unopened"
  BY <1>1, ConversationFacts DEF IInv, Answered
<1>3. c \in Patient => OnlyAt(c, m.addr)
  BY <1>1, <1>2 DEF JInv, Single
<1>4. /\ client'[c].phase = "requesting" /\ client'[c].addr = m.addr /\ client'[c].conn = {k}
      /\ \A d \in Macs : d # c => client'[d] = client[d]
  BY <1>1 DEF IInv, Types, Waiting
<1>5. /\ outbox'[k] = {} /\ \A j \in Conns : j # k => outbox'[j] = outbox[j] /\ inbox'[j] = inbox[j]
      /\ inbox'[k] = IF stage[k] = "done" THEN {} ELSE {Request(c, m.addr)}
      /\ Request(c, m.addr).mac = c
  BY <1>1 DEF IInv, Types, Request
<1>6. OfferedOnce(svc)' /\ Closed'
  BY <1>1, <1>2, <1>5 DEF JInv, OfferedOnce, Closed
<1>7. Attributed'
  <2>1. \A d \in Macs : client'[d].conn = client[d].conn
    BY <1>1, <1>4
  <2>2. \A d \in Patient, j \in Conns : \A h \in inbox'[j] : h.mac = d => j \in client[d].conn
    BY <1>1, <1>5 DEF JInv, Attributed
  <2> QED BY <1>1, <2>1, <2>2 DEF JInv, Attributed, Patient
<1>8. Single'
  <2> SUFFICES ASSUME NEW d \in Patient
               PROVE  (/\ \A l, h \in svc.leases : l.mac = d /\ h.mac = d => l = h
                       /\ Asking(d) => OnlyAt(d, client[d].addr)
                       /\ client[d].phase = "discovering" => \A j \in client[d].conn :
                            /\ \A l \in offer[j] : OnlyAt(d, l.addr)
                            /\ \A h \in outbox[j] : h.type = "Offer" => OnlyAt(d, h.addr))'
    BY DEF Single
  <2>1. CASE d = c
    BY <1>1, <1>3, <1>4, <2>1 DEF JInv, Single, Asking, OnlyAt
  <2>2. CASE d # c
    <3>1. d \in Macs /\ client'[d] = client[d] /\ client[d].conn \subseteq Conns
      BY <1>4, <2>2, ConversationFacts DEF Patient
    <3>2. \A j \in client[d].conn : outbox'[j] \subseteq outbox[j]
      BY <1>5, <3>1
    <3>3. \A a : OnlyAt(d, a)' <=> OnlyAt(d, a)
      BY <1>1 DEF OnlyAt
    <3> QED BY <1>1, <3>1, <3>2, <3>3 DEF JInv, Single, Asking
  <2> QED BY <2>1, <2>2
<1> QED BY <1>6, <1>7, <1>8 DEF JInv

\* A patient client leaves when its worker has returned.
LEMMA LeaveSingle ==
  ASSUME IInv, JInv, NEW c \in Macs, Leave(c), \A j \in Conns : inbox'[j] \subseteq inbox[j],
         c \in Patient => \A k \in client[c].conn : stage[k] = "done"
  PROVE  JInv'
<1>1. /\ client' = [client EXCEPT ![c] = Idle]
      /\ outbox' = [k \in Conns |-> IF k \in client[c].conn THEN {} ELSE outbox[k]]
      /\ UNCHANGED <<svc, majority, now, events, backlog, stage, reply, offer, flips>>
  BY DEF Leave, workerVars
<1>2. /\ client'[c].conn = {} /\ client'[c].phase = "idle"
      /\ \A d \in Macs : d # c => client'[d] = client[d]
      /\ \A j \in Conns : outbox'[j] \subseteq outbox[j]
  BY <1>1 DEF IInv, Types, Idle
<1>3. OfferedOnce(svc)' /\ Closed'
  <2>1. OfferedOnce(svc)'
    BY <1>1 DEF JInv, OfferedOnce
  <2>2. Closed'
    BY <1>1, <1>2 DEF JInv, Closed
  <2> QED BY <2>1, <2>2
<1>4. Attributed'
  <2>1. \A d \in Macs, n \in DOMAIN events : events[n].conn \in client'[d].conn => events[n].mac = d
    BY <1>2 DEF JInv, Attributed
  <2>2. ASSUME NEW d \in Patient, NEW k \in Conns, NEW m \in inbox'[k], m.mac = d
        PROVE  k \in client'[d].conn
    <3>1. k \in client[d].conn /\ m \in inbox[k] /\ d \in Macs
      BY <2>2 DEF JInv, Attributed, Patient
    <3>2. d # c
      BY <3>1 DEF JInv, Closed
    <3> QED BY <1>2, <3>1, <3>2
  <2>3. ASSUME NEW d \in Patient, NEW n \in DOMAIN events, events[n].mac = d
        PROVE  events[n].conn \in client'[d].conn
    <3>1. events[n].conn \in client[d].conn /\ d \in Macs
      BY <2>3 DEF JInv, Attributed, Patient
    <3>2. events[n].conn \in Conns
      BY <3>1, ConversationFacts
    <3>3. d # c
      BY <3>1, <3>2, NoEvent
    <3> QED BY <1>2, <3>1, <3>3
  <2> QED BY <1>1, <2>1, <2>2, <2>3 DEF Attributed
<1>5. Single'
  <2> SUFFICES ASSUME NEW d \in Patient
               PROVE  (/\ \A l, h \in svc.leases : l.mac = d /\ h.mac = d => l = h
                       /\ Asking(d) => OnlyAt(d, client[d].addr)
                       /\ client[d].phase = "discovering" => \A j \in client[d].conn :
                            /\ \A l \in offer[j] : OnlyAt(d, l.addr)
                            /\ \A h \in outbox[j] : h.type = "Offer" => OnlyAt(d, h.addr))'
    BY DEF Single
  <2>1. CASE d = c
    BY <1>1, <1>2, <2>1 DEF JInv, Single, Asking
  <2>2. CASE d # c
    <3>1. d \in Macs /\ client'[d] = client[d] /\ client[d].conn \subseteq Conns
      BY <1>2, <2>2, ConversationFacts DEF Patient
    <3>2. \A j \in client[d].conn : outbox'[j] \subseteq outbox[j]
      BY <1>2, <3>1
    <3> QED BY <1>1, <3>1, <3>2 DEF JInv, Single, Asking, OnlyAt
  <2> QED BY <2>1, <2>2
<1> QED BY <1>3, <1>4, <1>5 DEF JInv

LEMMA ReceiveAnswerSingle ==
  ASSUME IInv, JInv, NEW c \in Macs, NEW k \in Conns, ReceiveAck(c, k) \/ ReceiveNothing(c, k)
  PROVE  JInv'
<1>1. Leave(c) /\ inbox' = inbox
  BY DEF ReceiveAck, ReceiveNothing
<1>2. client[c].conn = {k} /\ stage[k] = "done"
  <2>1. CASE \E m \in outbox[k] : client[c].conn = {k} /\ m.type \in {"Ack", "Nack"}
    BY <2>1 DEF JInv, Closed
  <2>2. CASE client[c].conn = {k} /\ stage[k] = "done"
    BY <2>2
  <2> QED BY <2>1, <2>2 DEF ReceiveAck, ReceiveNothing, Answers
<1> QED BY <1>1, <1>2, LeaveSingle

LEMMA GiveUpSingle == ASSUME IInv, JInv, NEW c \in Macs, GiveUp(c) PROVE JInv'
<1>1. PICK K : inbox' = [k \in Conns |-> IF k \in K THEN {} ELSE inbox[k]]
  BY DEF GiveUp
<1>2. Leave(c) /\ c \notin Patient
  BY DEF GiveUp, Patient
<1>3. \A j \in Conns : inbox'[j] \subseteq inbox[j]
  BY <1>1
<1> QED BY <1>2, <1>3, LeaveSingle

\* The event that a worker sends speaks of the client whose message it has read.
LEMMA AskSingle ==
  ASSUME IInv, JInv, NEW k \in Conns, NEW m \in inbox[k], NEW to, NEW e, Ask(k, to, e),
         e.conn = k, e.mac = m.mac, stage[k] \in {"reading", "offered"},
         to \in {"discovering", "confirming", "renewing"}
  PROVE  JInv'
<1>1. /\ stage' = [stage EXCEPT ![k] = to] /\ inbox' = [inbox EXCEPT ![k] = {}]
      /\ events' = Append(events, e)
      /\ UNCHANGED <<svc, majority, now, backlog, outbox, offer, client, held, flips>>
  BY DEF Ask
<1>2. /\ stage'[k] = to /\ \A j \in Conns : j # k => stage'[j] = stage[j]
      /\ inbox'[k] = {} /\ \A j \in Conns : j # k => inbox'[j] = inbox[j]
  BY <1>1 DEF IInv, Types
<1>3. /\ Len(events) \in Nat /\ DOMAIN events = 1 .. Len(events)
      /\ DOMAIN events' = 1 .. Len(events) + 1
      /\ events'[Len(events) + 1] = e
      /\ \A n \in DOMAIN events : events'[n] = events[n]
  BY <1>1, AppendProperties, LenProperties DEF IInv, Types
<1>4. \A n \in DOMAIN events' : n \in DOMAIN events \/ n = Len(events) + 1
  BY <1>3
<1>5. OfferedOnce(svc)' /\ Closed'
  <2>1. OfferedOnce(svc)'
    BY <1>1 DEF JInv, OfferedOnce
  <2>2. Closed'
    BY <1>1, <1>2 DEF JInv, Closed
  <2> QED BY <2>1, <2>2
<1>6. Attributed'
  <2>1. ASSUME NEW c \in Macs, NEW n \in DOMAIN events', events'[n].conn \in client[c].conn
        PROVE  events'[n].mac = c
    <3>1. CASE n = Len(events) + 1
      BY <1>3, <2>1, <3>1 DEF IInv, Inboxes
    <3>2. CASE n \in DOMAIN events
      BY <1>3, <2>1, <3>2 DEF JInv, Attributed
    <3> QED BY <1>4, <3>1, <3>2
  <2>2. ASSUME NEW c \in Patient, NEW n \in DOMAIN events', events'[n].mac = c
        PROVE  events'[n].conn \in client[c].conn
    <3>1. CASE n = Len(events) + 1
      BY <1>3, <2>2, <3>1 DEF JInv, Attributed
    <3>2. CASE n \in DOMAIN events
      BY <1>3, <2>2, <3>2 DEF JInv, Attributed
    <3> QED BY <1>4, <3>1, <3>2
  <2>3. \A c \in Patient : \A j \in Conns : \A h \in inbox'[j] : h.mac = c => j \in client[c].conn
    BY <1>2 DEF JInv, Attributed
  <2> QED BY <1>1, <2>1, <2>2, <2>3 DEF Attributed
<1>7. Single'
  BY <1>1 DEF JInv, Single, Asking, OnlyAt
<1> QED BY <1>5, <1>6, <1>7 DEF JInv

LEMMA ReadSingle ==
  ASSUME IInv, JInv, NEW k \in Conns, ReadDiscover(k) \/ ReadRenewal(k) \/ ReadRequest(k)
  PROVE  JInv'
<1>1. CASE ReadDiscover(k)
  BY <1>1, AskSingle DEF ReadDiscover, Messages, LeaseRequest
<1>2. CASE ReadRenewal(k)
  BY <1>2, AskSingle DEF ReadRenewal, Messages, ConfirmRequest
<1>3. CASE ReadRequest(k)
  BY <1>3, AskSingle DEF ReadRequest, Messages, ConfirmRequest
<1> QED BY <1>1, <1>2, <1>3

\* A worker's messages to its client: it returns with the last one, and before that it
\* offers the lease it was given to offer.
LEMMA WriteSingle ==
  ASSUME IInv, JInv, NEW k \in Conns, stage[k] \notin {"unopened", "done"},
         UNCHANGED <<svc, events, client>>,
         \A j \in Conns : /\ inbox'[j] \subseteq inbox[j] /\ offer'[j] \subseteq offer[j]
                          /\ j # k => stage'[j] = stage[j] /\ outbox'[j] = outbox[j],
         \/ /\ stage'[k] = "done" /\ inbox'[k] = {}
            /\ \A m \in outbox'[k] : m \in outbox[k] \/ m.type # "Offer"
         \/ /\ stage'[k] = "offered"
            /\ \A m \in outbox'[k] : m.type = "Offer" /\ \E l \in offer[k] : m.addr = l.addr
  PROVE  JInv'
<1>1. OfferedOnce(svc)'
  BY DEF JInv, OfferedOnce
<1>2. Closed'
  BY DEF JInv, Closed
<1>3. Attributed'
  BY DEF JInv, Attributed
<1>4. Single'
  <2> SUFFICES ASSUME NEW c \in Patient
               PROVE  (/\ \A l, h \in svc.leases : l.mac = c /\ h.mac = c => l = h
                       /\ Asking(c) => OnlyAt(c, client[c].addr)
                       /\ client[c].phase = "discovering" => \A j \in client[c].conn :
                            /\ \A l \in offer[j] : OnlyAt(c, l.addr)
                            /\ \A h \in outbox[j] : h.type = "Offer" => OnlyAt(c, h.addr))'
    BY DEF Single
  <2>1. \A a : OnlyAt(c, a)' <=> OnlyAt(c, a)
    BY DEF OnlyAt
  <2>2. ASSUME client[c].phase = "discovering", NEW j \in client[c].conn
        PROVE  /\ \A l \in offer'[j] : OnlyAt(c, l.addr)
               /\ \A h \in outbox'[j] : h.type = "Offer" => OnlyAt(c, h.addr)
    <3>1. j \in Conns
      BY ConversationFacts DEF Patient
    <3>2. /\ \A l \in offer[j] : OnlyAt(c, l.addr)
          /\ \A h \in outbox[j] : h.type = "Offer" => OnlyAt(c, h.addr)
      BY <2>2 DEF JInv, Single
    <3>3. \A l \in offer'[j] : OnlyAt(c, l.addr)
      BY <3>1, <3>2
    <3>4. \A h \in outbox'[j] : h.type = "Offer" =>
            h \in outbox[j] \/ \E l \in offer[j] : h.addr = l.addr
      BY <3>1
    <3> QED BY <3>2, <3>3, <3>4
  <2> QED BY <2>1, <2>2 DEF JInv, Single, Asking
<1> QED BY <1>1, <1>2, <1>3, <1>4 DEF JInv

LEMMA FinishSingle ==
  ASSUME IInv, JInv, NEW k \in Conns, Finish(k), stage[k] \notin {"unopened", "done"},
         outbox' = outbox \/ Write(k, Ack) \/ Write(k, Nack)
  PROVE  JInv'
<1>1. /\ stage' = [stage EXCEPT ![k] = "done"] /\ inbox' = [inbox EXCEPT ![k] = {}]
      /\ offer' = [offer EXCEPT ![k] = {}] /\ UNCHANGED <<svc, events, client>>
  BY DEF Finish
<1>2. Ack.type # "Offer" /\ Nack.type # "Offer"
  BY DEF Ack, Nack
<1>3. /\ \A j \in Conns : j # k => outbox'[j] = outbox[j]
      /\ \A m \in outbox'[k] : m \in outbox[k] \/ m.type # "Offer"
  BY <1>2 DEF Write, IInv, Types
<1>4. /\ stage'[k] = "done" /\ inbox'[k] = {}
      /\ \A j \in Conns : /\ inbox'[j] \subseteq inbox[j] /\ offer'[j] \subseteq offer[j]
                          /\ j # k => stage'[j] = stage[j]
  BY <1>1 DEF IInv, Types
<1> QED BY <1>1, <1>3, <1>4, WriteSingle

LEMMA SendOfferSingle == ASSUME IInv, JInv, NEW k \in Conns, SendOffer(k) PROVE JInv'
<1>1. PICK l \in offer[k] : Write(k, Offer(l.addr, Remaining(l)))
  BY DEF SendOffer
<1>2. /\ stage' = [stage EXCEPT ![k] = "offered"] /\ stage[k] = "discovering"
      /\ UNCHANGED <<svc, events, inbox, offer, client>>
  BY DEF SendOffer
<1>3. Offer(l.addr, Remaining(l)).type = "Offer" /\ Offer(l.addr, Remaining(l)).addr = l.addr
  BY DEF Offer
<1>4. /\ \A j \in Conns : j # k => outbox'[j] = outbox[j]
      /\ \A m \in outbox'[k] : m.type = "Offer" /\ m.addr = l.addr
  BY <1>1, <1>3 DEF Write, IInv, Types
<1>5. stage'[k] = "offered" /\ \A j \in Conns : j # k => stage'[j] = stage[j]
  BY <1>2 DEF IInv, Types
<1> QED BY <1>2, <1>4, <1>5, WriteSingle

LEMMA WorkerSingle == ASSUME IInv, JInv, NEW k \in Conns, Worker(k) PROVE JInv'
<1>1. CASE ReadDiscover(k) \/ ReadRenewal(k) \/ ReadRequest(k)
  BY <1>1, ReadSingle
<1>2. CASE SendOffer(k)
  BY <1>2, SendOfferSingle
<1>3. CASE ReadFails(k) \/ SendAck(k) \/ SendNack(k) \/ EndSilently(k)
  BY <1>3, FinishSingle DEF ReadFails, SendAck, SendNack, EndSilently
<1> QED BY <1>1, <1>2, <1>3 DEF Worker

LEMMA TakeConnectionSingle == ASSUME IInv, JInv, TakeConnection PROVE JInv'
<1> DEFINE k == Head(backlog)
<1>1. /\ backlog # <<>> /\ stage' = [stage EXCEPT ![k] = "reading"]
      /\ UNCHANGED <<svc, events, inbox, outbox, offer, client>>
  BY DEF TakeConnection, streams
<1>2. k \in Conns /\ stage[k] = "queued"
  <2>1. k \in Conns /\ k = backlog[1] /\ 1 \in DOMAIN backlog
    BY <1>1, HeadTailProperties, EmptySeq, LenProperties DEF IInv, Types
  <2> QED BY <2>1 DEF IInv, Queued
<1> HIDE DEF k
<1>3. stage'[k] = "reading" /\ \A j \in Conns : j # k => stage'[j] = stage[j]
  BY <1>1, <1>2 DEF IInv, Types
<1>4. Closed'
  BY <1>1, <1>2, <1>3 DEF JInv, Closed
<1> QED BY <1>1, <1>4 DEF JInv, OfferedOnce, Attributed, Single, Asking, OnlyAt

\* The head of the queue is answered: the events after it are left as they were.
LEMMA RespondAttributed ==
  ASSUME IInv, JInv, events # <<>>, NEW e, e = Head(events), NEW r, Respond(e.conn, r)
  PROVE  /\ Attributed' /\ UNCHANGED <<stage, inbox, outbox, client>>
         /\ 1 \in DOMAIN events /\ e = events[1]
         /\ e.conn \in Conns /\ e.mac \in Macs /\ e.type \in {"LeaseRequest", "ConfirmRequest"}
         /\ stage[e.conn] # "unopened"
<1>1. events' = Tail(events) /\ UNCHANGED <<stage, inbox, outbox, client>>
  BY DEF Respond, streams
<1>2. /\ Len(events) \in Nat \ {0} /\ e = events[1] /\ e \in Events
      /\ DOMAIN events = 1 .. Len(events) /\ DOMAIN events' = 1 .. Len(events) - 1
      /\ \A n \in DOMAIN events' : events'[n] = events[n + 1]
  BY <1>1, HeadTailProperties, EmptySeq, LenProperties DEF IInv, Types
<1>3. \A n \in DOMAIN events' : n + 1 \in DOMAIN events
  BY <1>2
<1>4. Attributed'
  BY <1>1, <1>2, <1>3 DEF JInv, Attributed
<1>5. e.conn \in Conns /\ e.mac \in Macs /\ e.type \in {"LeaseRequest", "ConfirmRequest"}
  BY <1>2 DEF Events
<1>6. 1 \in DOMAIN events
  BY <1>2
<1>7. stage[e.conn] # "unopened"
  BY <1>2, <1>5, <1>6 DEF IInv, Waits
<1> QED BY <1>1, <1>2, <1>4, <1>5, <1>6, <1>7

LEMMA HandleLeaseRequestSingle == ASSUME IInv, JInv, NEW e, HandleLeaseRequest(e) PROVE JInv'
<1> DEFINE k == e.conn
<1>1. events # <<>> /\ e = Head(events)
  BY DEF HandleLeaseRequest, Handles
<1>2. CASE Respond(k, "dropped") /\ svc' = svc /\ offer' = offer
  BY <1>1, <1>2, RespondAttributed DEF JInv, OfferedOnce, Closed, Single, Asking, OnlyAt
<1>3. ASSUME NEW o \in DiscoverLease(svc, e.mac, now), svc' = o.svc,
             offer' = [offer EXCEPT ![k] = o.offer], NEW r, Respond(k, r)
      PROVE  JInv'
  <2>1. /\ Attributed' /\ UNCHANGED <<stage, inbox, outbox, client>>
        /\ 1 \in DOMAIN events /\ e = events[1] /\ k \in Conns /\ e.mac \in Macs
        /\ stage[k] # "unopened"
    BY <1>1, <1>3, RespondAttributed
  <2>2. /\ OfferedOnce(svc') /\ svc'.leases \subseteq svc.leases
        /\ (\A l, m \in svc.leases : l.mac = e.mac /\ m.mac = e.mac => l = m) =>
              \A l \in o.offer : \A m \in svc'.leases : m.mac = e.mac => m.addr = l.addr
    <3>1. Good(svc, now) /\ now \in Nat /\ OfferedOnce(svc) /\ e.mac \in Macs
      BY <2>1 DEF IInv, Types, JInv
    <3> QED BY <1>3, <3>1, DiscoverOnce
  <2>3. offer'[k] = o.offer /\ \A j \in Conns : j # k => offer'[j] = offer[j]
    BY <1>3, <2>1 DEF IInv, Types
  <2>4. Closed'
    BY <2>1, <2>3 DEF JInv, Closed
  <2>5. Single'
    <3> SUFFICES ASSUME NEW c \in Patient
                 PROVE  (/\ \A l, h \in svc.leases : l.mac = c /\ h.mac = c => l = h
                         /\ Asking(c) => OnlyAt(c, client[c].addr)
                         /\ client[c].phase = "discovering" => \A j \in client[c].conn :
                              /\ \A l \in offer[j] : OnlyAt(c, l.addr)
                              /\ \A h \in outbox[j] : h.type = "Offer" => OnlyAt(c, h.addr))'
      BY DEF Single
    <3>1. \A a : OnlyAt(c, a) => OnlyAt(c, a)'
      BY <2>2 DEF OnlyAt
    <3>2. \A l, h \in svc.leases : l.mac = c /\ h.mac = c => l = h
      BY DEF JInv, Single
    <3>3. ASSUME client[c].phase = "discovering", NEW j \in client[c].conn
          PROVE  \A l \in offer'[j] : OnlyAt(c, l.addr)'
      <4>1. CASE j = k
        <5>1. e.mac = c
          BY <2>1, <3>3, <4>1 DEF JInv, Attributed, Patient
        <5> QED BY <2>2, <2>3, <3>2, <4>1, <5>1 DEF OnlyAt
      <4>2. CASE j # k
        <5>1. j \in Conns
          BY <3>3, ConversationFacts DEF Patient
        <5> QED BY <2>3, <3>1, <3>3, <4>2, <5>1 DEF JInv, Single
      <4> QED BY <4>1, <4>2
    <3>4. \A l, h \in svc'.leases : l.mac = c /\ h.mac = c => l = h
      BY <2>2, <3>2
    <3> QED BY <2>1, <3>1, <3>3, <3>4 DEF JInv, Single, Asking
  <2> QED BY <2>1, <2>2, <2>4, <2>5 DEF JInv
<1> QED BY <1>2, <1>3 DEF HandleLeaseRequest

\* A patient client is confirmed at the address it asks for, where all its leases are.
LEMMA HandleConfirmRequestSingle == ASSUME IInv, JInv, NEW e, HandleConfirmRequest(e) PROVE JInv'
<1> DEFINE k == e.conn
<1>1. events # <<>> /\ e = Head(events) /\ e.type = "ConfirmRequest"
  BY DEF HandleConfirmRequest, Handles
<1>2. CASE Respond(k, "dropped") /\ svc' = svc /\ offer' = offer
  BY <1>1, <1>2, RespondAttributed DEF JInv, OfferedOnce, Closed, Single, Asking, OnlyAt
<1>3. ASSUME NEW o \in CommitLease(svc, e.mac, e.addr, now), svc' = o.svc, offer' = offer,
             NEW r, Respond(k, r)
      PROVE  JInv'
  <2>1. /\ Attributed' /\ UNCHANGED <<stage, inbox, outbox, client>>
        /\ 1 \in DOMAIN events /\ e = events[1] /\ k \in Conns
    BY <1>1, <1>3, RespondAttributed
  <2>2. /\ OfferedOnce(svc')
        /\ \A l \in svc'.leases : l \in svc.leases \/ (l.mac = e.mac /\ l.addr = e.addr)
        /\ /\ \A l, m \in svc.leases : l.mac = e.mac /\ m.mac = e.mac => l = m
           /\ \A l \in svc.leases : l.mac = e.mac => l.addr = e.addr
           => \A l, m \in svc'.leases : l.mac = e.mac /\ m.mac = e.mac => l = m
    BY <1>3, CommitOnce DEF IInv, Types, JInv
  <2>3. Closed'
    BY <1>3, <2>1 DEF JInv, Closed
  <2>4. Single'
    <3> SUFFICES ASSUME NEW c \in Patient
                 PROVE  (/\ \A l, h \in svc.leases : l.mac = c /\ h.mac = c => l = h
                         /\ Asking(c) => OnlyAt(c, client[c].addr)
                         /\ client[c].phase = "discovering" => \A j \in client[c].conn :
                              /\ \A l \in offer[j] : OnlyAt(c, l.addr)
                              /\ \A h \in outbox[j] : h.type = "Offer" => OnlyAt(c, h.addr))'
      BY DEF Single
    <3>1. /\ \A l, h \in svc.leases : l.mac = c /\ h.mac = c => l = h
          /\ Asking(c) => OnlyAt(c, client[c].addr)
      BY DEF JInv, Single
    <3>2. CASE e.mac = c
      <4>1. k \in client[c].conn
        BY <2>1, <3>2 DEF JInv, Attributed
      <4>2. Asking(c) /\ e.addr = client[c].addr
        BY <1>1, <2>1, <4>1 DEF IInv, Asked, Patient
      <4>3. \A l \in svc'.leases : l.mac = c => l.addr = client[c].addr
        BY <2>2, <3>1, <4>2 DEF OnlyAt
      <4>4. \A l, h \in svc'.leases : l.mac = c /\ h.mac = c => l = h
        BY <2>2, <3>1, <3>2, <4>2 DEF OnlyAt
      <4> QED BY <2>1, <4>2, <4>3, <4>4 DEF Asking, OnlyAt
    <3>3. CASE e.mac # c
      <4>1. \A l \in svc'.leases : l.mac = c => l \in svc.leases
        BY <2>2, <3>3
      <4>2. \A a : OnlyAt(c, a) => OnlyAt(c, a)'
        BY <4>1 DEF OnlyAt
      <4> QED BY <1>3, <2>1, <3>1, <4>1, <4>2 DEF JInv, Single, Asking
    <3> QED BY <3>2, <3>3
  <2> QED BY <2>1, <2>2, <2>3, <2>4 DEF JInv
<1> QED BY <1>2, <1>3 DEF HandleConfirmRequest

LEMMA InitSingle == Init => JInv
<1> SUFFICES ASSUME Init PROVE JInv
  OBVIOUS
<1>1. svc.leases = {} /\ svc.pending = {} /\ DOMAIN events = {}
  BY EmptySeq DEF Init, NewService
<1>2. \A c \in Macs : client[c].phase = "idle" /\ client[c].conn = {}
  BY DEF Init, Idle
<1> QED BY <1>1, <1>2 DEF Init, JInv, OfferedOnce, Closed, Attributed, Single, Patient, Asking

LEMMA NextSingle == IInv /\ JInv /\ [Next]_vars => JInv'
<1> SUFFICES ASSUME IInv, JInv, [Next]_vars PROVE JInv'
  OBVIOUS
<1>1. ASSUME NEW c \in Macs, Query(c) \/ Renew(c) \/ GiveUp(c) PROVE JInv'
  BY <1>1, QuerySingle, RenewSingle, GiveUpSingle
<1>2. ASSUME NEW c \in Macs, Receive(c) PROVE JInv'
  BY <1>2, ReceiveOfferSingle, ReceiveAnswerSingle DEF Receive
<1>3. CASE TakeConnection
  BY <1>3, TakeConnectionSingle
<1>4. ASSUME NEW k \in Conns, Worker(k) PROVE JInv'
  BY <1>4, WorkerSingle
<1>5. CASE Main
  BY <1>5, HandleLeaseRequestSingle, HandleConfirmRequestSingle DEF Main
<1>6. CASE Flip \/ Tick \/ UNCHANGED vars
  <2>1. UNCHANGED <<svc, events, stage, inbox, outbox, offer, client>>
    BY <1>6 DEF Flip, Tick, vars, workerVars, streams
  <2> QED BY <2>1 DEF JInv, OfferedOnce, Closed, Attributed, Single, Asking, OnlyAt
<1> QED BY <1>1, <1>2, <1>3, <1>4, <1>5, <1>6 DEF Next, Serving

\* A client that waits for its answers never has two leases, so that it does not use up
\* the pool: not when its worker or the node keeps it waiting, when its lease expires
\* and is given away in the meantime, or when it renews one (dhcp.rs:175, 219).
THEOREM OneLeaseIsEnough == Spec => []OneLeaseEach
<1>1. IInv /\ JInv => OneLeaseEach
  <2> SUFFICES ASSUME JInv, NEW c \in Patient
               PROVE  Cardinality({l \in svc.leases : l.mac = c}) <= 1
    BY DEF OneLeaseEach, Patient
  <2> DEFINE L == {l \in svc.leases : l.mac = c}
  <2>1. \A l, m \in L : l = m
    BY DEF JInv, Single
  <2> HIDE DEF L
  <2>2. CASE L = {}
    <3>1. Cardinality(L) = 0
      BY <2>2, FS_EmptySet
    <3> QED BY <3>1 DEF L
  <2>3. CASE L # {}
    <3>1. PICK l \in L : TRUE
      BY <2>3
    <3>2. L = {l}
      BY <2>1, <3>1
    <3>3. Cardinality(L) = 1
      BY <3>2, FS_Singleton, Zenon
    <3> QED BY <3>3 DEF L
  <2> QED BY <2>2, <2>3
<1> QED BY <1>1, InitSingle, NextSingle, IInvInvariant, PTL DEF Spec
=============================================================================
