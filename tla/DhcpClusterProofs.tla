-------------------------- MODULE DhcpClusterProofs --------------------------
(***************************************************************************)
(* DhcpCluster for any number of nodes and clients, any pool and any       *)
(* faults: the type invariant, coordinators that know their majority,      *)
(* elections that have a timer, the assertion of handle_okay, and who      *)
(* leads, and with which pools, when an election is over.                  *)
(*                                                                         *)
(* The first inductive invariant, IInv, types every channel by its ends:   *)
(* an Election travels only upwards and an Okay only downwards. The        *)
(* assertion of one node's handler so rests on what the start_election of  *)
(* another sends.                                                          *)
(*                                                                         *)
(* The second, EInv(h), is about the highest node h. Led(h): whoever else  *)
(* leads or wants to, and is connected with h, will hear from it, by an    *)
(* Election that is on its way to h, an election of h, or a Coordinator    *)
(* message on its way back. And once the whole cluster is connected and    *)
(* h leads undisputed, Outcome(h): nobody else's orders are on their way,  *)
(* and with those that h has sent, in their order, every node ends up      *)
(* with h for its coordinator and with a share of its own. Only this needs *)
(* timely.                                                                 *)
(***************************************************************************)
EXTENDS DhcpCluster, Ipv4RangeProofs, FiniteSetTheorems, SequenceTheorems

\* What may travel on the channel p.
MessagesOn(p) ==
  {m \in Messages : /\ m.type = "Election" => p[1] < p[2]
                    /\ m.type = "Okay" => p[1] > p[2]}

IsChan(c) ==
  /\ c = [p \in Nodes \X Nodes |-> c[p]]
  /\ \A p \in Nodes \X Nodes : c[p] \in Seq(MessagesOn(p))

\* What node i may queue for its peers.
IsMail(i, mail) == \A j \in Nodes : mail[j] \in Seq(MessagesOn(<<i, j>>))

\* The types of what no handler's decision rests on.
World ==
  /\ up \subseteq Nodes
  /\ link \subseteq Nodes \X Nodes /\ lost \subseteq Nodes \X Nodes
  /\ joining \in [Nodes -> SUBSET Nodes]
  /\ now \in Nat /\ acked \subseteq Leases /\ faults \in Nat
  /\ timely \in BOOLEAN

\* The types of the nodes' states.
Arrays ==
  /\ peers \in [Nodes -> SUBSET Nodes]
  /\ role \in [Nodes -> Roles]
  /\ coord \in [Nodes -> SUBSET Nodes]
  /\ majority \in [Nodes -> BOOLEAN]
  /\ timers \in [Nodes -> Nat]
  /\ svc \in [Nodes -> Services]

IInv ==
  /\ World
  /\ Arrays
  /\ IsChan(chan)
  /\ CoordinatorKnowsItself
  /\ WaitingHasTimer

-----------------------------------------------------------------------------
(* Sets of nodes and shares of the pool.                                   *)

LEMMA CountNodes ==
  ASSUME NEW ps \in SUBSET Nodes
  PROVE  Cardinality(ps) \in Nat /\ Cardinality(Nodes) \in Nat
BY NodesAssumption, FS_Subset, FS_CardinalityType

\* The test of become_coordinator is a test for more than half.
LEMMA MajorityIsMoreThanHalf ==
  ASSUME NEW ps \in SUBSET Nodes
  PROVE  HasMajority(ps) <=> 2 * (Cardinality(ps) + 1) > Cardinality(Nodes)
<1> DEFINE c == Cardinality(ps)
           n == Cardinality(Nodes)
<1>1. c \in Nat /\ n \in Nat
  BY CountNodes
<1> HIDE DEF c, n
<1>2. c + 1 > n \div 2 <=> 2 * (c + 1) > n
  BY <1>1
<1> QED BY <1>2 DEF HasMajority, c, n

LEMMA ShareIsPool ==
  ASSUME NEW ps \in SUBSET Nodes, NEW n \in 1 .. Cardinality(ps) + 1
  PROVE  Share(ps, n) \in Pools
<1>1. Cardinality(ps) + 1 \in Nat /\ Cardinality(ps) + 1 > 0
  BY CountNodes
<1>2. /\ Share(ps, n) \in Ranges
      /\ ConfigPool.start <= Share(ps, n).start /\ Share(ps, n).end <= ConfigPool.end
  BY <1>1, ConfigPoolAssumption, DivideWithinPool DEF Share
<1> QED BY <1>2 DEF Pools

-----------------------------------------------------------------------------
(* Messages and channels.                                                  *)

LEMMA MessageTypes ==
  /\ Election \in Messages /\ Election.type = "Election"
  /\ Okay \in Messages /\ Okay.type = "Okay"
  /\ \A m \in BOOLEAN : CoordinatorMsg(m) \in Messages /\ CoordinatorMsg(m).type = "Coordinator"
  /\ \A l \in Leases : LeaseMsg(l) \in Messages /\ LeaseMsg(l).type = "Lease"
  /\ \A ls \in SUBSET Leases : LeaseTableMsg(ls) \in Messages /\ LeaseTableMsg(ls).type = "LeaseTable"
  /\ \A p \in Pools : SetPoolMsg(p) \in Messages /\ SetPoolMsg(p).type = "SetPool"
BY DEF Messages, Election, Okay, CoordinatorMsg, LeaseMsg, LeaseTableMsg, SetPoolMsg

LEMMA MessageFields ==
  ASSUME NEW m \in Messages
  PROVE  /\ m.type = "Coordinator" => m.majority \in BOOLEAN
         /\ m.type = "Lease" => m.lease \in Leases
         /\ m.type = "LeaseTable" => m.leases \in SUBSET Leases
         /\ m.type = "SetPool" => m.pool \in Pools
BY DEF Messages

LEMMA OneMessage ==
  ASSUME NEW p \in Nodes \X Nodes, NEW m \in MessagesOn(p)
  PROVE  <<m>> \in Seq(MessagesOn(p)) /\ <<>> \in Seq(MessagesOn(p))
OBVIOUS

LEMMA PostIsChan ==
  ASSUME NEW ch, IsChan(ch), NEW i \in Nodes, NEW mail, IsMail(i, mail)
  PROVE  IsChan(Post(ch, i, mail))
<1> DEFINE c == Post(ch, i, mail)
<1>1. c = [p \in Nodes \X Nodes |-> c[p]]
  BY DEF Post
<1>2. ASSUME NEW p \in Nodes \X Nodes
      PROVE  c[p] \in Seq(MessagesOn(p))
  <2>1. ch[p] \in Seq(MessagesOn(p))
    BY DEF IsChan
  <2>2. CASE p[1] = i /\ p \in link'
    <3>1. p = <<i, p[2]>> /\ p[2] \in Nodes
      BY <2>2
    <3>2. mail[p[2]] \in Seq(MessagesOn(p))
      BY <3>1 DEF IsMail
    <3>3. c[p] = ch[p] \o mail[p[2]]
      BY <2>2 DEF Post
    <3> QED BY <2>1, <3>2, <3>3, ConcatProperties
  <2>3. CASE ~(p[1] = i /\ p \in link')
    BY <2>1, <2>3 DEF Post
  <2> QED BY <2>2, <2>3
<1> HIDE DEF c
<1> QED BY <1>1, <1>2 DEF IsChan, c

LEMMA TakenIsChan ==
  ASSUME IsChan(chan), NEW i \in Nodes, NEW j \in Nodes, NEW type, Receives(i, j, type)
  PROVE  /\ IsChan(Taken(i, j))
         /\ Head(chan[<<j, i>>]) \in MessagesOn(<<j, i>>)
         /\ Head(chan[<<j, i>>]).type = type
<1> DEFINE q == <<j, i>>
<1>1. chan[q] \in Seq(MessagesOn(q)) /\ chan[q] # <<>>
  BY DEF IsChan, Receives
<1>2. Head(chan[q]) \in MessagesOn(q) /\ Tail(chan[q]) \in Seq(MessagesOn(q))
  BY <1>1, HeadTailProperties
<1>3. IsChan(Taken(i, j))
  BY <1>2 DEF IsChan, Taken
<1> QED BY <1>2, <1>3 DEF Receives

\* The queue of a lost connection is forgotten.
LEMMA EmptiedIsChan ==
  ASSUME IsChan(chan), NEW q \in Nodes \X Nodes
  PROVE  IsChan([chan EXCEPT ![q] = <<>>])
<1>1. <<>> \in Seq(MessagesOn(q))
  OBVIOUS
<1> QED BY <1>1 DEF IsChan

LEMMA ToAllIsMail ==
  ASSUME NEW i \in Nodes, NEW ps \in SUBSET Nodes, NEW m,
         \A j \in ps : m \in MessagesOn(<<i, j>>)
  PROVE  IsMail(i, ToAll(ps, m))
<1>1. ASSUME NEW j \in Nodes
      PROVE  ToAll(ps, m)[j] \in Seq(MessagesOn(<<i, j>>))
  <2>1. CASE j \in ps
    <3>1. m \in MessagesOn(<<i, j>>) /\ ToAll(ps, m)[j] = <<m>>
      BY <2>1 DEF ToAll
    <3> QED BY <3>1, OneMessage
  <2>2. CASE j \notin ps
    <3>1. ToAll(ps, m)[j] = <<>>
      BY <2>2 DEF ToAll
    <3> QED BY <3>1
  <2> QED BY <2>1, <2>2
<1> QED BY <1>1 DEF IsMail

LEMMA ToIsMail ==
  ASSUME NEW i \in Nodes, NEW k \in Nodes, NEW m \in MessagesOn(<<i, k>>)
  PROVE  IsMail(i, To(k, m))
<1>1. ASSUME NEW j \in Nodes
      PROVE  To(k, m)[j] \in Seq(MessagesOn(<<i, j>>))
  <2>1. CASE j = k
    <3>1. To(k, m)[j] = <<m>>
      BY <2>1 DEF To, Nothing
    <3> QED BY <2>1, <3>1, OneMessage
  <2>2. CASE j # k
    <3>1. To(k, m)[j] = <<>>
      BY <2>2 DEF To, Nothing
    <3> QED BY <3>1
  <2> QED BY <2>1, <2>2
<1> QED BY <1>1 DEF IsMail

\* Messages other than Election and Okay may go to anyone.
LEMMA AnyoneMayGet ==
  ASSUME NEW m \in Messages, m.type \notin {"Election", "Okay"}, NEW p
  PROVE  m \in MessagesOn(p)
BY DEF MessagesOn

-----------------------------------------------------------------------------
(* Services.                                                               *)

Raw == [pool : Pools, leases : SUBSET Leases, pending : SUBSET Leases, next : Nat]

LEMMA ServiceFacts ==
  ASSUME NEW s
  PROVE  s \in Services <=> s \in Raw /\ s.pool.start <= s.next /\ s.next <= s.pool.end
BY DEF Services, Raw

LEMMA PoolFacts ==
  ASSUME NEW p \in Pools
  PROVE  /\ p \in Ranges /\ p.start \in Nat /\ p.end \in Nat /\ p.start <= p.end
         /\ Addresses(p) \subseteq Addresses(ConfigPool)
         /\ \A a \in Addresses(p) : a \in Nat /\ p.start <= a /\ a < p.end
BY ConfigPoolAssumption DEF Pools, Ranges, Addresses

LEMMA NewServiceType == NewService(ConfigPool) \in Services
<1>1. ConfigPool \in Pools
  BY ConfigPoolAssumption DEF Pools, Ranges
<1>2. NewService(ConfigPool) =
        [pool |-> ConfigPool, leases |-> {}, pending |-> {}, next |-> ConfigPool.start]
  BY DEF NewService
<1> QED BY <1>1, <1>2, PoolFacts, ServiceFacts DEF Raw

LEMMA SetPoolType ==
  ASSUME NEW s \in Services, NEW p \in Pools
  PROVE  SetPool(s, p) \in Services
<1> DEFINE q == [s EXCEPT !.pool = p]
<1>1. s \in Raw
  BY ServiceFacts
<1>2. q = [pool |-> p, leases |-> s.leases, pending |-> s.pending, next |-> s.next]
  BY <1>1 DEF Raw
<1>3. SetPool(s, p) = [q EXCEPT !.next = p.start]
  BY DEF SetPool
<1> HIDE DEF q
<1>4. SetPool(s, p) = [pool |-> p, leases |-> s.leases, pending |-> s.pending, next |-> p.start]
  BY <1>2, <1>3
<1> QED BY <1>1, <1>4, PoolFacts, ServiceFacts DEF Raw

LEMMA TablesType ==
  ASSUME NEW s \in Services, NEW ls \in SUBSET Leases, NEW ps \in SUBSET Leases
  PROVE  [pool |-> s.pool, leases |-> ls, pending |-> ps, next |-> s.next] \in Services
BY ServiceFacts DEF Raw

LEMMA LeaseType ==
  ASSUME NEW mac \in Macs, NEW addr \in Addresses(ConfigPool), NEW t \in Nat
  PROVE  Lease(mac, addr, FreshTimestamp(t)) \in Leases
BY LeaseTimeAssumption DEF Lease, Leases, FreshTimestamp

LEMMA SetLeasesType ==
  ASSUME NEW s \in Services, NEW ls \in SUBSET Leases
  PROVE  [s EXCEPT !.leases = ls] \in Services
<1>1. [s EXCEPT !.leases = ls] =
        [pool |-> s.pool, leases |-> ls, pending |-> s.pending, next |-> s.next]
  BY ServiceFacts DEF Raw
<1>2. s.pending \in SUBSET Leases
  BY ServiceFacts DEF Raw
<1> QED BY <1>1, <1>2, TablesType

LEMMA AddLeaseType ==
  ASSUME NEW s \in Services, NEW l \in Leases, NEW s2 \in AddLease(s, l)
  PROVE  s2 \in Services
<1>1. s.leases \in SUBSET Leases
  BY ServiceFacts DEF Raw
<1>2. CASE s2 = [s EXCEPT !.leases = @ \cup {l}]
  BY <1>1, <1>2, SetLeasesType
<1>3. CASE \E k \in Matching(s.leases, l.mac, l.addr) :
             s2 = [s EXCEPT !.leases = (@ \ {k}) \cup {l}]
  BY <1>1, <1>3, SetLeasesType
<1> QED BY <1>2, <1>3 DEF AddLease

LEMMA PruneType ==
  ASSUME NEW s \in Services, NEW t \in Nat
  PROVE  Prune(s, t) \in Services
<1> DEFINE q == [s EXCEPT !.leases = Unexpired(s.leases, t)]
<1>1. s \in Raw
  BY ServiceFacts
<1>2. q = [pool |-> s.pool, leases |-> Unexpired(s.leases, t),
           pending |-> s.pending, next |-> s.next]
  BY <1>1 DEF Raw
<1>3. Prune(s, t) = [q EXCEPT !.pending = Unexpired(s.pending, t)]
  BY DEF Prune
<1> HIDE DEF q
<1>4. Prune(s, t) = [pool |-> s.pool, leases |-> Unexpired(s.leases, t),
                     pending |-> Unexpired(s.pending, t), next |-> s.next]
  BY <1>2, <1>3
<1>5. Unexpired(s.leases, t) \in SUBSET Leases /\ Unexpired(s.pending, t) \in SUBSET Leases
  BY <1>1 DEF Raw, Unexpired
<1> QED BY <1>4, <1>5, TablesType

LEMMA OfferType ==
  ASSUME NEW s \in Services, NEW mac \in Macs, NEW t \in Nat, NEW a \in FreeAddresses(s)
  PROVE  OfferOf(s, mac, a, t).svc \in Services
<1> DEFINE new == Lease(mac, a, FreshTimestamp(t))
           q   == [s EXCEPT !.next = a + 1]
<1>1. s \in Raw /\ s.pool \in Pools /\ s.next \in s.pool.start .. s.pool.end
  BY ServiceFacts, PoolFacts DEF Raw
<1>2. a \in Addresses(s.pool)
  BY <1>1, PoolFacts, ScanStaysInRange DEF FreeAddresses
<1>3. /\ a \in Addresses(ConfigPool) /\ a + 1 \in Nat
      /\ s.pool.start <= a + 1 /\ a + 1 <= s.pool.end
  BY <1>1, <1>2, PoolFacts
<1>4. new \in Leases
  BY <1>3, LeaseType
<1>5. q = [pool |-> s.pool, leases |-> s.leases, pending |-> s.pending, next |-> a + 1]
  BY <1>1 DEF Raw
<1>6. OfferOf(s, mac, a, t).svc = [q EXCEPT !.pending = @ \cup {new}]
  BY DEF OfferOf
<1> HIDE DEF q, new
<1>7. OfferOf(s, mac, a, t).svc =
        [pool |-> s.pool, leases |-> s.leases, pending |-> s.pending \cup {new}, next |-> a + 1]
  BY <1>5, <1>6
<1> QED BY <1>1, <1>3, <1>4, <1>7, ServiceFacts DEF Raw

LEMMA DiscoverType ==
  ASSUME NEW s \in Services, NEW mac \in Macs, NEW t \in Nat, NEW o \in DiscoverLease(s, mac, t)
  PROVE  o.svc \in Services
<1>1. CASE \E l \in s.leases : o = [svc |-> s, offer |-> {l}]
  BY <1>1
<1>2. CASE o = [svc |-> Prune(s, t), offer |-> {}]
  BY <1>2, PruneType
<1>3. CASE \E a \in FreeAddresses(Prune(s, t)) : o = OfferOf(Prune(s, t), mac, a, t)
  BY <1>3, PruneType, OfferType
<1> QED BY <1>1, <1>2, <1>3 DEF DiscoverLease

LEMMA CommitType ==
  ASSUME NEW s \in Services, NEW mac \in Macs, NEW addr \in Addresses(ConfigPool),
         NEW t \in Nat, NEW o \in CommitLease(s, mac, addr, t)
  PROVE  o.svc \in Services /\ o.acked \in SUBSET Leases
<1> DEFINE new == Lease(mac, addr, FreshTimestamp(t))
           committed(l) == [s EXCEPT !.pending = @ \ {l}, !.leases = @ \cup {new}]
           renewed(l) == [s EXCEPT !.leases = (@ \ {l}) \cup {new}]
<1>1. new \in Leases
  BY LeaseType
<1>2. s \in Raw
  BY ServiceFacts
<1>3. o \in {[svc |-> committed(l), acked |-> {new}] : l \in Matching(s.pending, mac, addr)}
            \cup {[svc |-> renewed(l), acked |-> {new}] : l \in Matching(s.leases, mac, addr)}
            \cup {[svc |-> s, acked |-> {}]}
  BY Zenon DEF CommitLease
<1> HIDE DEF new
<1>4. ASSUME NEW l PROVE committed(l) \in Services
  <2> DEFINE q == [s EXCEPT !.pending = @ \ {l}]
  <2>1. q = [pool |-> s.pool, leases |-> s.leases, pending |-> s.pending \ {l}, next |-> s.next]
    BY <1>2 DEF Raw
  <2>2. committed(l) = [q EXCEPT !.leases = @ \cup {new}]
    OBVIOUS
  <2> HIDE DEF q
  <2>3. committed(l) = [pool |-> s.pool, leases |-> s.leases \cup {new},
                        pending |-> s.pending \ {l}, next |-> s.next]
    BY <2>1, <2>2
  <2>4. s.leases \cup {new} \in SUBSET Leases /\ s.pending \ {l} \in SUBSET Leases
    BY <1>1, <1>2 DEF Raw
  <2> QED BY <2>3, <2>4, TablesType
<1>5. ASSUME NEW l PROVE renewed(l) \in Services
  <2>1. (s.leases \ {l}) \cup {new} \in SUBSET Leases
    BY <1>1, <1>2 DEF Raw
  <2> QED BY <2>1, SetLeasesType
<1> HIDE DEF committed, renewed
<1>6. \/ \E l \in Matching(s.pending, mac, addr) : o = [svc |-> committed(l), acked |-> {new}]
      \/ \E l \in Matching(s.leases, mac, addr) : o = [svc |-> renewed(l), acked |-> {new}]
      \/ o = [svc |-> s, acked |-> {}]
  BY <1>3
<1> QED BY <1>1, <1>4, <1>5, <1>6

-----------------------------------------------------------------------------
(* The pieces of the handlers.                                             *)

LEMMA BecomeCoordinatorEffect ==
  ASSUME Arrays, NEW i \in Nodes, NEW ps \in SUBSET Nodes, NEW ch, IsChan(ch),
         BecomeCoordinator(i, ps, ch)
  PROVE  /\ role' = [role EXCEPT ![i] = "Coordinator"]
         /\ coord' = [coord EXCEPT ![i] = {i}]
         /\ majority' = [majority EXCEPT ![i] = HasMajority(ps)]
         /\ svc' \in [Nodes -> Services]
         /\ IsChan(chan')
<1> DEFINE m == CoordinatorMsg(HasMajority(ps))
           mail(order) == [j \in Nodes |-> IF j \in ps
                             THEN <<m, SetPoolMsg(Share(ps, order[j]))>> ELSE <<>>]
<1>1. PICK order \in Orders(ps) :
        /\ role' = [role EXCEPT ![i] = "Coordinator"]
        /\ coord' = [coord EXCEPT ![i] = {i}]
        /\ majority' = [majority EXCEPT ![i] = HasMajority(ps)]
        /\ svc' = [svc EXCEPT ![i] = SetPool(@, Share(ps, 1))]
        /\ chan' = Post(ch, i, mail(order))
  BY DEF BecomeCoordinator
<1>2. Cardinality(ps) \in Nat
  BY CountNodes
<1>3. \A j \in ps : order[j] \in 1 .. Cardinality(ps) + 1
  BY <1>2 DEF Orders
<1>4. svc' \in [Nodes -> Services]
  <2>1. Share(ps, 1) \in Pools
    BY <1>2, ShareIsPool
  <2>2. SetPool(svc[i], Share(ps, 1)) \in Services
    BY <2>1, SetPoolType DEF Arrays
  <2> QED BY <1>1, <2>2 DEF Arrays
<1>5. m \in Messages /\ m.type \notin {"Election", "Okay"}
  <2>1. HasMajority(ps) \in BOOLEAN
    BY DEF HasMajority
  <2> QED BY <2>1, MessageTypes
<1> HIDE DEF m
<1>6. IsMail(i, mail(order))
  <2>1. ASSUME NEW j \in ps
        PROVE  <<m, SetPoolMsg(Share(ps, order[j]))>> \in Seq(MessagesOn(<<i, j>>))
    <3> DEFINE p == SetPoolMsg(Share(ps, order[j]))
    <3>1. p \in Messages /\ p.type \notin {"Election", "Okay"}
      BY <1>3, ShareIsPool, MessageTypes
    <3> HIDE DEF p
    <3>2. m \in MessagesOn(<<i, j>>) /\ p \in MessagesOn(<<i, j>>)
      BY <1>5, <3>1, AnyoneMayGet
    <3>3. <<m, p>> \in Seq(MessagesOn(<<i, j>>))
      BY <3>2
    <3> QED BY <3>3 DEF p
  <2>2. ASSUME NEW j \in Nodes
        PROVE  mail(order)[j] \in Seq(MessagesOn(<<i, j>>))
    BY <2>1
  <2> HIDE DEF mail
  <2> QED BY <2>2 DEF IsMail
<1> HIDE DEF mail
<1>7. IsChan(chan')
  BY <1>1, <1>6, PostIsChan
<1> QED BY <1>1, <1>4, <1>7

LEMMA StartElectionEffect ==
  ASSUME NEW i \in Nodes, NEW ps \in SUBSET Nodes, NEW ch, IsChan(ch),
         StartElection(i, ps, ch)
  PROVE  /\ role' = [role EXCEPT ![i] = "WaitingForElection"]
         /\ timers' = [timers EXCEPT ![i] = @ + 1]
         /\ IsChan(chan')
<1> DEFINE above == {j \in ps : j > i}
<1>1. \A j \in above : Election \in MessagesOn(<<i, j>>)
  BY MessageTypes, NodesAssumption DEF MessagesOn
<1>2. above \in SUBSET Nodes
  OBVIOUS
<1>3. IsMail(i, ToAll(above, Election))
  BY <1>1, <1>2, ToAllIsMail
<1> QED BY <1>3, PostIsChan DEF StartElection

\* The lease table goes to whoever is added.
LEMMA TablePosted ==
  ASSUME Arrays, IsChan(chan), NEW i \in Nodes, NEW j \in Nodes
  PROVE  IsChan(Post(chan, i, To(j, LeaseTableMsg(svc[i].leases))))
<1> DEFINE m == LeaseTableMsg(svc[i].leases)
<1>1. svc[i].leases \in SUBSET Leases
  BY ServiceFacts DEF Arrays, Raw
<1>2. m \in Messages /\ m.type \notin {"Election", "Okay"}
  BY <1>1, MessageTypes
<1> HIDE DEF m
<1>3. IsMail(i, To(j, m))
  BY <1>2, AnyoneMayGet, ToIsMail
<1> QED BY <1>3, PostIsChan DEF m

\* A step of node i that makes it coordinator of the peers ps.
LEMMA CoordinatorKeeps ==
  ASSUME IInv, NEW i \in Nodes, NEW ps \in SUBSET Nodes, NEW ch, IsChan(ch),
         BecomeCoordinator(i, ps, ch), peers' = [peers EXCEPT ![i] = ps],
         timers' \in [Nodes -> Nat], \A k \in Nodes \ {i} : timers'[k] = timers[k],
         World'
  PROVE  IInv'
<1>1. /\ role' = [role EXCEPT ![i] = "Coordinator"]
      /\ coord' = [coord EXCEPT ![i] = {i}]
      /\ majority' = [majority EXCEPT ![i] = HasMajority(ps)]
      /\ svc' \in [Nodes -> Services]
      /\ IsChan(chan')
  BY BecomeCoordinatorEffect DEF IInv
<1>2. HasMajority(ps) \in BOOLEAN
  BY DEF HasMajority
<1>3. Arrays'
  BY <1>1, <1>2 DEF IInv, Arrays, Roles
<1>4. CoordinatorKnowsItself'
  <2>1. ASSUME NEW k \in Nodes, role'[k] = "Coordinator"
        PROVE  /\ coord'[k] = {k}
               /\ majority'[k] = (2 * (Cardinality(peers'[k]) + 1) > Cardinality(Nodes))
    <3>1. CASE k = i
      <4>1. coord'[i] = {i} /\ majority'[i] = HasMajority(ps) /\ peers'[i] = ps
        BY <1>1 DEF IInv, Arrays
      <4>2. HasMajority(ps) = (2 * (Cardinality(ps) + 1) > Cardinality(Nodes))
        BY <1>2, MajorityIsMoreThanHalf
      <4> QED BY <3>1, <4>1, <4>2
    <3>2. CASE k # i
      <4>1. role[k] = "Coordinator" /\ coord'[k] = coord[k] /\ majority'[k] = majority[k]
              /\ peers'[k] = peers[k]
        BY <1>1, <2>1, <3>2 DEF IInv, Arrays
      <4> QED BY <4>1 DEF IInv, CoordinatorKnowsItself
    <3> QED BY <3>1, <3>2
  <2> QED BY <2>1 DEF CoordinatorKnowsItself
<1>5. WaitingHasTimer'
  BY <1>1 DEF IInv, WaitingHasTimer, Arrays
<1> QED BY <1>1, <1>3, <1>4, <1>5 DEF IInv

\* A step of node i that leaves it no coordinator, and in an election only with a
\* timer.
LEMMA OtherwiseKeeps ==
  ASSUME IInv, NEW i \in Nodes, IsChan(chan'), World', Arrays',
         role'[i] = "Coordinator" =>
           /\ role[i] = "Coordinator"
           /\ coord'[i] = coord[i] /\ majority'[i] = majority[i] /\ peers'[i] = peers[i],
         role'[i] = "WaitingForElection" => timers'[i] > 0,
         \A k \in Nodes \ {i} :
           /\ role'[k] = role[k] /\ coord'[k] = coord[k] /\ majority'[k] = majority[k]
           /\ peers'[k] = peers[k] /\ timers'[k] = timers[k]
  PROVE  IInv'
<1>1. CoordinatorKnowsItself'
  <2>1. ASSUME NEW k \in Nodes, role'[k] = "Coordinator"
        PROVE  /\ coord'[k] = {k}
               /\ majority'[k] = (2 * (Cardinality(peers'[k]) + 1) > Cardinality(Nodes))
    <3>1. role[k] = "Coordinator" /\ coord'[k] = coord[k] /\ majority'[k] = majority[k]
            /\ peers'[k] = peers[k]
      BY <2>1
    <3> QED BY <3>1 DEF IInv, CoordinatorKnowsItself
  <2> QED BY <2>1 DEF CoordinatorKnowsItself
<1>2. WaitingHasTimer'
  <2>1. ASSUME NEW k \in Nodes, role'[k] = "WaitingForElection"
        PROVE  timers'[k] > 0
    BY <2>1 DEF IInv, WaitingHasTimer
  <2> QED BY <2>1 DEF WaitingHasTimer
<1> QED BY <1>1, <1>2 DEF IInv

\* A step that changes neither roles nor what they rest on.
LEMMA RolesKept ==
  ASSUME IInv, IsChan(chan'), World', svc' \in [Nodes -> Services],
         UNCHANGED <<peers, electVars>>
  PROVE  IInv'
<1>1. Arrays'
  BY DEF IInv, Arrays, electVars
<1>2. CoordinatorKnowsItself' /\ WaitingHasTimer'
  BY DEF IInv, CoordinatorKnowsItself, WaitingHasTimer, electVars
<1> QED BY <1>1, <1>2 DEF IInv

\* A step of node i that starts an election among the peers ps.
LEMMA ElectionKeeps ==
  ASSUME IInv, NEW i \in Nodes, NEW ps \in SUBSET Nodes, NEW ch, IsChan(ch),
         StartElection(i, ps, ch), peers' = [peers EXCEPT ![i] = ps], World',
         coord' \in [Nodes -> SUBSET Nodes], majority' \in [Nodes -> BOOLEAN],
         \A k \in Nodes \ {i} : coord'[k] = coord[k] /\ majority'[k] = majority[k],
         UNCHANGED svc
  PROVE  IInv'
<1>1. /\ role' = [role EXCEPT ![i] = "WaitingForElection"]
      /\ timers' = [timers EXCEPT ![i] = @ + 1]
      /\ IsChan(chan')
  BY StartElectionEffect
<1>2. Arrays'
  BY <1>1 DEF IInv, Arrays, Roles
<1>3. /\ role'[i] = "WaitingForElection" /\ timers'[i] > 0
      /\ \A k \in Nodes \ {i} :
           role'[k] = role[k] /\ peers'[k] = peers[k] /\ timers'[k] = timers[k]
  BY <1>1 DEF IInv, Arrays
<1> QED BY <1>1, <1>2, <1>3, OtherwiseKeeps

LEMMA HaltKeeps ==
  ASSUME IInv, NEW i \in Nodes, Halt(i),
         joining' \in [Nodes -> SUBSET Nodes], lost' \subseteq Nodes \X Nodes, faults' \in Nat
  PROVE  IInv'
<1> USE DEF IInv
<1>1. World' /\ Arrays'
  BY NewServiceType DEF Halt, clientVars, World, Arrays, Roles
<1>2. IsChan(chan')
  <2>1. ASSUME NEW p \in Nodes \X Nodes
        PROVE  chan'[p] \in Seq(MessagesOn(p))
    BY EmptySeq DEF Halt, IsChan
  <2> QED BY <2>1 DEF Halt, IsChan
<1>3. CoordinatorKnowsItself'
  BY DEF Halt, CoordinatorKnowsItself, Arrays
<1>4. WaitingHasTimer'
  BY DEF Halt, WaitingHasTimer, Arrays
<1> QED BY <1>1, <1>2, <1>3, <1>4

-----------------------------------------------------------------------------
(* The steps.                                                              *)

LEMMA LostByType == ASSUME World, NEW i \in Nodes PROVE LostBy(i) \subseteq Nodes \X Nodes
BY DEF World, LostBy

LEMMA HandshakeKeeps ==
  ASSUME IInv, NEW i \in Nodes, NEW j \in Nodes, Handshake(i, j)
  PROVE  IInv'
<1> DEFINE ps == peers[j] \cup {i}
           table == Post(chan, j, To(i, LeaseTableMsg(svc[j].leases)))
<1>1. ps \in SUBSET Nodes /\ IsChan(table)
  BY TablePosted DEF IInv, Arrays
<1>2. World'
  BY DEF Handshake, JoinSucceeds, JoinFails, IInv, World
<1>3. peers' = [peers EXCEPT ![j] = ps]
  BY DEF Handshake
<1>4. CASE role[j] = "Coordinator"
  <2>1. BecomeCoordinator(j, ps, table) /\ UNCHANGED timers
    BY <1>4 DEF Handshake
  <2>2. timers' \in [Nodes -> Nat]
    BY <2>1 DEF IInv, Arrays
  <2> HIDE DEF ps, table
  <2> QED BY <1>1, <1>2, <1>3, <2>1, <2>2, CoordinatorKeeps
<1>5. CASE role[j] # "Coordinator"
  <2>1. chan' = table /\ UNCHANGED <<role, coord, majority, timers, svc>>
    BY <1>5 DEF Handshake
  <2> HIDE DEF table
  <2>2. Arrays'
    BY <1>1, <1>3, <2>1 DEF IInv, Arrays
  <2>3. /\ role'[j] # "Coordinator"
        /\ role'[j] = "WaitingForElection" => timers'[j] > 0
        /\ \A k \in Nodes \ {j} :
             /\ role'[k] = role[k] /\ coord'[k] = coord[k] /\ majority'[k] = majority[k]
             /\ peers'[k] = peers[k] /\ timers'[k] = timers[k]
    BY <1>3, <1>5, <2>1 DEF IInv, Arrays, WaitingHasTimer
  <2> QED BY <1>1, <1>2, <2>1, <2>2, <2>3, OtherwiseKeeps
<1> QED BY <1>4, <1>5

LEMMA HandshakeFailsKeeps ==
  ASSUME IInv, NEW i \in Nodes, NEW j \in Nodes, HandshakeFails(i, j)
  PROVE  IInv'
<1>1. World'
  BY DEF HandshakeFails, IInv, World, netVars, clientVars
<1>2. peers[j] \in SUBSET Nodes /\ peers' = [peers EXCEPT ![j] = peers[j]]
  BY DEF HandshakeFails, IInv, Arrays
<1>3. BecomeCoordinator(j, peers[j], chan) /\ timers' = timers /\ timers' \in [Nodes -> Nat]
  BY DEF HandshakeFails, IInv, Arrays
<1>4. IsChan(chan)
  BY DEF IInv
<1> QED BY <1>1, <1>2, <1>3, <1>4, CoordinatorKeeps

LEMMA HandshakePanicsKeeps ==
  ASSUME IInv, NEW i \in Nodes, NEW j \in Nodes, HandshakePanics(i, j)
  PROVE  IInv'
<1>1. LostBy(j) \subseteq Nodes \X Nodes
  BY LostByType DEF IInv
<1>2. joining' \in [Nodes -> SUBSET Nodes] /\ lost' \subseteq Nodes \X Nodes /\ faults' \in Nat
  BY <1>1 DEF HandshakePanics, IInv, World
<1>3. Halt(j)
  BY DEF HandshakePanics
<1> QED BY <1>2, <1>3, HaltKeeps

LEMMA EstablishKeeps ==
  ASSUME IInv, NEW i \in Nodes, NEW j \in Nodes, Establish(i, j)
  PROVE  IInv'
<1> DEFINE ps == peers[i] \cup {j}
           table == Post(chan, i, To(j, LeaseTableMsg(svc[i].leases)))
<1>1. ps \in SUBSET Nodes /\ IsChan(table)
  BY TablePosted DEF IInv, Arrays
<1>2. World'
  BY DEF Establish, IInv, World
<1>3. /\ StartElection(i, ps, table) /\ peers' = [peers EXCEPT ![i] = ps]
      /\ UNCHANGED <<coord, majority, svc>>
  BY DEF Establish
<1>4. coord' \in [Nodes -> SUBSET Nodes] /\ majority' \in [Nodes -> BOOLEAN]
  BY <1>3 DEF IInv, Arrays
<1> HIDE DEF ps, table
<1> QED BY <1>1, <1>2, <1>3, <1>4, ElectionKeeps

LEMMA RemovePeerKeeps ==
  ASSUME IInv, NEW i \in Nodes, NEW j \in Nodes, RemovePeer(i, j)
  PROVE  IInv'
<1> DEFINE ps == peers[i] \ {j}
           rest == [chan EXCEPT ![<<j, i>>] = <<>>]
<1>1. ps \in SUBSET Nodes /\ IsChan(rest)
  BY EmptiedIsChan DEF IInv, Arrays
<1>2. World'
  BY DEF RemovePeer, IInv, World
<1>3. peers' = [peers EXCEPT ![i] = ps]
  BY DEF RemovePeer
<1>4. CASE role[i] = "Coordinator" /\ BecomeCoordinator(i, ps, rest) /\ UNCHANGED timers
  <2>1. timers' \in [Nodes -> Nat]
    BY <1>4 DEF IInv, Arrays
  <2> HIDE DEF ps, rest
  <2> QED BY <1>1, <1>2, <1>3, <1>4, <2>1, CoordinatorKeeps
<1>5. CASE StartElection(i, ps, rest) /\ UNCHANGED <<coord, majority, svc>>
  <2>1. coord' \in [Nodes -> SUBSET Nodes] /\ majority' \in [Nodes -> BOOLEAN]
    BY <1>5 DEF IInv, Arrays
  <2> HIDE DEF ps, rest
  <2> QED BY <1>1, <1>2, <1>3, <1>5, <2>1, ElectionKeeps
<1>6. CASE role[i] # "Coordinator" /\ chan' = rest /\ UNCHANGED <<role, coord, majority, timers, svc>>
  <2> HIDE DEF rest
  <2>1. Arrays'
    BY <1>1, <1>3, <1>6 DEF IInv, Arrays
  <2>2. /\ role'[i] # "Coordinator"
        /\ role'[i] = "WaitingForElection" => timers'[i] > 0
        /\ \A k \in Nodes \ {i} :
             /\ role'[k] = role[k] /\ coord'[k] = coord[k] /\ majority'[k] = majority[k]
             /\ peers'[k] = peers[k] /\ timers'[k] = timers[k]
    BY <1>3, <1>6 DEF IInv, Arrays, WaitingHasTimer
  <2> QED BY <1>1, <1>2, <1>6, <2>1, <2>2, OtherwiseKeeps
<1>7. \/ role[i] = "Coordinator" /\ BecomeCoordinator(i, ps, rest) /\ UNCHANGED timers
      \/ StartElection(i, ps, rest) /\ UNCHANGED <<coord, majority, svc>>
      \/ role[i] # "Coordinator" /\ chan' = rest /\ UNCHANGED <<role, coord, majority, timers, svc>>
  BY Zenon DEF RemovePeer
<1> QED BY <1>4, <1>5, <1>6, <1>7

\* What a node does with an Election: the sender is lower, so it gets an Okay.
LEMMA HandleElectionKeeps ==
  ASSUME IInv, NEW i \in Nodes, NEW j \in Nodes, HandleElection(i, j)
  PROVE  IInv'
<1> DEFINE answered == Post(Taken(i, j), i, To(j, Okay))
<1>1. IsChan(Taken(i, j))
  BY TakenIsChan DEF IInv, HandleElection
<1>2. Okay \in MessagesOn(<<i, j>>)
  BY MessageTypes, NodesAssumption DEF MessagesOn, HandleElection
<1>3. IsChan(answered)
  BY <1>1, <1>2, ToIsMail, PostIsChan
<1>4. World'
  BY DEF HandleElection, IInv, World
<1>5. /\ StartElection(i, peers[i], answered)
      /\ peers[i] \in SUBSET Nodes /\ peers' = [peers EXCEPT ![i] = peers[i]]
      /\ UNCHANGED <<coord, majority, svc>>
  BY DEF HandleElection, IInv, Arrays
<1>6. coord' \in [Nodes -> SUBSET Nodes] /\ majority' \in [Nodes -> BOOLEAN]
  BY <1>5 DEF IInv, Arrays
<1> HIDE DEF answered
<1> QED BY <1>3, <1>4, <1>5, <1>6, ElectionKeeps

LEMMA ElectionPanicsKeeps ==
  ASSUME IInv, NEW i \in Nodes, NEW j \in Nodes, ElectionPanics(i, j)
  PROVE  IInv'
<1>1. LostBy(i) \subseteq Nodes \X Nodes
  BY LostByType DEF IInv
<1>2. joining' \in [Nodes -> SUBSET Nodes] /\ lost' \subseteq Nodes \X Nodes /\ faults' \in Nat
  BY <1>1 DEF ElectionPanics, IInv, World
<1>3. Halt(i)
  BY DEF ElectionPanics
<1> QED BY <1>2, <1>3, HaltKeeps

LEMMA HandleOkayKeeps ==
  ASSUME IInv, NEW i \in Nodes, NEW j \in Nodes, HandleOkay(i, j)
  PROVE  IInv'
<1>1. IsChan(chan')
  BY TakenIsChan DEF IInv, HandleOkay
<1>2. World' /\ Arrays'
  BY DEF HandleOkay, IInv, World, Arrays, Roles, netVars, clientVars
<1>3. /\ role'[i] = (IF role[i] = "WaitingForElection" THEN "Follower" ELSE role[i])
      /\ UNCHANGED <<coord, majority, peers, timers>>
      /\ \A k \in Nodes \ {i} : role'[k] = role[k]
  BY DEF HandleOkay, IInv, Arrays
<1> QED BY <1>1, <1>2, <1>3, OtherwiseKeeps

LEMMA HandleCoordinatorKeeps ==
  ASSUME IInv, NEW i \in Nodes, NEW j \in Nodes, HandleCoordinator(i, j)
  PROVE  IInv'
<1> DEFINE m == Head(chan[<<j, i>>]).majority
<1>1. IsChan(Taken(i, j)) /\ m \in BOOLEAN
  <2>1. Receives(i, j, "Coordinator")
    BY DEF HandleCoordinator
  <2>2. Head(chan[<<j, i>>]) \in Messages
    BY <2>1, TakenIsChan DEF IInv, MessagesOn
  <2> QED BY <2>1, <2>2, TakenIsChan, MessageFields DEF IInv
<1>2. World'
  BY DEF HandleCoordinator, IInv, World, netVars, clientVars
<1>3. /\ coord' = [coord EXCEPT ![i] = {j}] /\ majority' = [majority EXCEPT ![i] = m]
      /\ UNCHANGED <<peers, svc>>
  BY DEF HandleCoordinator
<1> HIDE DEF m
<1>4. /\ coord' \in [Nodes -> SUBSET Nodes] /\ majority' \in [Nodes -> BOOLEAN]
      /\ \A k \in Nodes \ {i} : coord'[k] = coord[k] /\ majority'[k] = majority[k]
  BY <1>1, <1>3 DEF IInv, Arrays
<1>5. CASE StartElection(i, peers[i], Taken(i, j))
  <2>1. peers[i] \in SUBSET Nodes /\ peers' = [peers EXCEPT ![i] = peers[i]]
    BY <1>3 DEF IInv, Arrays
  <2> QED BY <1>1, <1>2, <1>3, <1>4, <1>5, <2>1, ElectionKeeps
<1>6. CASE role' = [role EXCEPT ![i] = "Follower"] /\ chan' = Taken(i, j) /\ UNCHANGED timers
  <2>1. Arrays'
    BY <1>3, <1>4, <1>6 DEF IInv, Arrays, Roles
  <2>2. role'[i] = "Follower" /\ \A k \in Nodes \ {i} : role'[k] = role[k]
    BY <1>6 DEF IInv, Arrays
  <2> QED BY <1>1, <1>2, <1>3, <1>4, <1>6, <2>1, <2>2, OtherwiseKeeps
<1> QED BY <1>5, <1>6 DEF HandleCoordinator

LEMMA FinishElectionKeeps ==
  ASSUME IInv, NEW i \in Nodes, FinishElection(i)
  PROVE  IInv'
<1>1. World'
  BY DEF FinishElection, IInv, World, netVars, clientVars
<1>2. timers' \in [Nodes -> Nat] /\ \A k \in Nodes \ {i} : timers'[k] = timers[k]
  BY DEF FinishElection, IInv, Arrays
<1>3. CASE BecomeCoordinator(i, peers[i], chan)
  <2>1. peers[i] \in SUBSET Nodes /\ peers' = [peers EXCEPT ![i] = peers[i]] /\ IsChan(chan)
    BY DEF FinishElection, IInv, Arrays
  <2> QED BY <1>1, <1>2, <1>3, <2>1, CoordinatorKeeps
<1>4. CASE role[i] # "WaitingForElection" /\ UNCHANGED <<role, coord, majority, svc, chan>>
  <2>1. UNCHANGED peers /\ IsChan(chan')
    BY <1>4 DEF FinishElection, IInv
  <2>2. Arrays'
    BY <1>2, <1>4, <2>1 DEF IInv, Arrays
  <2> QED BY <1>1, <1>2, <1>4, <2>1, <2>2, OtherwiseKeeps
<1> QED BY <1>3, <1>4 DEF FinishElection

LEMMA LeaseRequestKeeps ==
  ASSUME IInv, NEW i \in Nodes, NEW mac \in Macs, LeaseRequest(i, mac)
  PROVE  IInv'
<1>1. PICK o \in DiscoverLease(svc[i], mac, now) : svc' = [svc EXCEPT ![i] = o.svc]
  BY DEF LeaseRequest
<1>2. svc[i] \in Services /\ now \in Nat
  BY DEF IInv, Arrays, World
<1>3. o.svc \in Services
  BY <1>2, DiscoverType
<1>4. svc' \in [Nodes -> Services]
  BY <1>1, <1>3 DEF IInv, Arrays
<1>5. World' /\ IsChan(chan') /\ UNCHANGED <<peers, electVars>>
  BY DEF LeaseRequest, IInv, World, netVars, clientVars
<1> QED BY <1>4, <1>5, RolesKept

LEMMA ConfirmRequestKeeps ==
  ASSUME IInv, NEW i \in Nodes, NEW mac \in Macs, NEW addr \in Addresses(ConfigPool),
         ConfirmRequest(i, mac, addr)
  PROVE  IInv'
<1>1. PICK o \in CommitLease(svc[i], mac, addr, now) : \E k \in o.acked :
        /\ svc' = [svc EXCEPT ![i] = o.svc]
        /\ acked' = {a \in acked : a.mac # mac \/ a.addr # addr} \cup {k}
        /\ chan' = Post(chan, i, ToAll(peers[i], LeaseMsg(k)))
  BY DEF ConfirmRequest
<1>2. PICK l \in o.acked :
        /\ svc' = [svc EXCEPT ![i] = o.svc]
        /\ acked' = {a \in acked : a.mac # mac \/ a.addr # addr} \cup {l}
        /\ chan' = Post(chan, i, ToAll(peers[i], LeaseMsg(l)))
  BY <1>1
<1>3. svc[i] \in Services /\ now \in Nat /\ peers[i] \in SUBSET Nodes /\ IsChan(chan)
  BY DEF IInv, Arrays, World
<1>4. o.svc \in Services /\ l \in Leases
  BY <1>3, CommitType
<1>5. svc' \in [Nodes -> Services]
  BY <1>2, <1>4 DEF IInv, Arrays
<1>6. IsChan(chan')
  <2>1. LeaseMsg(l) \in Messages /\ LeaseMsg(l).type \notin {"Election", "Okay"}
    BY <1>4, MessageTypes
  <2>2. IsMail(i, ToAll(peers[i], LeaseMsg(l)))
    BY <1>3, <2>1, AnyoneMayGet, ToAllIsMail
  <2> QED BY <1>2, <1>3, <2>2, PostIsChan
<1>7. World' /\ UNCHANGED <<peers, electVars>>
  BY <1>2, <1>4 DEF ConfirmRequest, IInv, World, netVars
<1> QED BY <1>5, <1>6, <1>7, RolesKept

LEMMA HandleLeaseKeeps ==
  ASSUME IInv, NEW i \in Nodes, NEW j \in Nodes, HandleLease(i, j)
  PROVE  IInv'
<1>1. Receives(i, j, "Lease") /\ chan' = Taken(i, j)
  BY DEF HandleLease
<1>2. IsChan(chan') /\ Head(chan[<<j, i>>]).lease \in Leases
  BY <1>1, TakenIsChan, MessageFields DEF IInv, MessagesOn
<1>3. PICK t \in AddLease(svc[i], Head(chan[<<j, i>>]).lease) : svc' = [svc EXCEPT ![i] = t]
  BY DEF HandleLease
<1>4. svc[i] \in Services
  BY DEF IInv, Arrays
<1>5. t \in Services
  BY <1>2, <1>4, AddLeaseType
<1>6. svc' \in [Nodes -> Services]
  BY <1>3, <1>5 DEF IInv, Arrays
<1>7. World' /\ UNCHANGED <<peers, electVars>>
  BY DEF HandleLease, IInv, World, netVars, clientVars
<1> QED BY <1>2, <1>6, <1>7, RolesKept

LEMMA HandleLeaseTableKeeps ==
  ASSUME IInv, NEW i \in Nodes, NEW j \in Nodes, HandleLeaseTable(i, j)
  PROVE  IInv'
<1> DEFINE table == Head(chan[<<j, i>>]).leases
           won == IF Cardinality(svc[i].leases) < Cardinality(table) THEN table ELSE svc[i].leases
<1>1. Receives(i, j, "LeaseTable") /\ chan' = Taken(i, j)
  BY DEF HandleLeaseTable
<1>2. IsChan(chan') /\ table \in SUBSET Leases
  BY <1>1, TakenIsChan, MessageFields DEF IInv, MessagesOn
<1>3. svc[i] \in Services /\ svc[i].leases \in SUBSET Leases
  BY ServiceFacts DEF IInv, Arrays, Raw
<1>4. svc' = [svc EXCEPT ![i] = [svc[i] EXCEPT !.leases = won]]
  BY DEF HandleLeaseTable, IInv, Arrays
<1>5. won \in SUBSET Leases
  BY <1>2, <1>3
<1> HIDE DEF won
<1>6. [svc[i] EXCEPT !.leases = won] \in Services
  BY <1>3, <1>5, SetLeasesType
<1>7. svc' \in [Nodes -> Services]
  BY <1>4, <1>6 DEF IInv, Arrays
<1>8. World' /\ UNCHANGED <<peers, electVars>>
  BY DEF HandleLeaseTable, IInv, World, netVars, clientVars
<1> QED BY <1>2, <1>7, <1>8, RolesKept

LEMMA HandleSetPoolKeeps ==
  ASSUME IInv, NEW i \in Nodes, NEW j \in Nodes, HandleSetPool(i, j)
  PROVE  IInv'
<1> DEFINE pool == Head(chan[<<j, i>>]).pool
<1>1. Receives(i, j, "SetPool") /\ chan' = Taken(i, j)
  BY DEF HandleSetPool
<1>2. IsChan(chan') /\ pool \in Pools
  BY <1>1, TakenIsChan, MessageFields DEF IInv, MessagesOn
<1>3. svc' = [svc EXCEPT ![i] = SetPool(svc[i], pool)]
  BY DEF HandleSetPool
<1> HIDE DEF pool
<1>4. svc[i] \in Services /\ SetPool(svc[i], pool) \in Services
  BY <1>2, SetPoolType DEF IInv, Arrays
<1>5. svc' \in [Nodes -> Services]
  BY <1>3, <1>4 DEF IInv, Arrays
<1>6. World' /\ UNCHANGED <<peers, electVars>>
  BY DEF HandleSetPool, IInv, World, netVars, clientVars
<1> QED BY <1>2, <1>5, <1>6, RolesKept

\* Time and the environment, a crash apart, touch no node's state.
LEMMA EnvironmentKeeps ==
  ASSUME IInv,
         \/ Tick
         \/ \E i \in Nodes : Restart(i)
         \/ \E i, j \in Nodes : Break(i, j)
  PROVE  IInv'
<1>1. CASE Tick
  <2>1. World'
    BY <1>1 DEF Tick, IInv, World, netVars, Unexpired
  <2>2. IsChan(chan') /\ svc' \in [Nodes -> Services] /\ UNCHANGED <<peers, electVars>>
    BY <1>1 DEF Tick, IInv, Arrays
  <2> QED BY <2>1, <2>2, RolesKept
<1>2. CASE \E i \in Nodes : Restart(i)
  <2>1. World'
    BY <1>2 DEF Restart, IInv, World, clientVars
  <2>2. IsChan(chan') /\ svc' \in [Nodes -> Services] /\ UNCHANGED <<peers, electVars>>
    BY <1>2 DEF Restart, IInv, Arrays
  <2> QED BY <2>1, <2>2, RolesKept
<1>3. CASE \E i, j \in Nodes : Break(i, j)
  <2>1. World'
    BY <1>3 DEF Break, IInv, World, clientVars
  <2>2. IsChan(chan') /\ svc' \in [Nodes -> Services] /\ UNCHANGED <<peers, electVars>>
    BY <1>3 DEF Break, IInv, Arrays
  <2> QED BY <2>1, <2>2, RolesKept
<1> QED BY <1>1, <1>2, <1>3

LEMMA CrashKeeps ==
  ASSUME IInv, NEW i \in Nodes, Crash(i)
  PROVE  IInv'
<1>1. LostBy(i) \subseteq Nodes \X Nodes
  BY LostByType DEF IInv
<1>2. joining' \in [Nodes -> SUBSET Nodes] /\ lost' \subseteq Nodes \X Nodes /\ faults' \in Nat
  BY <1>1 DEF Crash, IInv, World
<1>3. Halt(i)
  BY DEF Crash
<1> QED BY <1>2, <1>3, HaltKeeps

-----------------------------------------------------------------------------
(* The invariant.                                                          *)

LEMMA InitIInv == Init => IInv
<1> SUFFICES ASSUME Init PROVE IInv
  OBVIOUS
<1>1. World
  BY DEF Init, World
<1>2. Arrays
  BY NewServiceType DEF Init, Arrays, Roles
<1>3. IsChan(chan)
  <2>1. \A p \in Nodes \X Nodes : chan[p] \in Seq(MessagesOn(p))
    BY EmptySeq DEF Init
  <2> QED BY <2>1 DEF Init, IsChan
<1>4. CoordinatorKnowsItself /\ WaitingHasTimer
  BY DEF Init, CoordinatorKnowsItself, WaitingHasTimer
<1> QED BY <1>1, <1>2, <1>3, <1>4 DEF IInv

LEMMA NextIInv == IInv /\ [Next]_vars => IInv'
<1> SUFFICES ASSUME IInv, [Next]_vars PROVE IInv'
  OBVIOUS
<1>1. CASE \E i, j \in Nodes : Message(i, j)
  <2>1. PICK i \in Nodes, j \in Nodes : Message(i, j)
    BY <1>1
  <2> QED BY <2>1, HandleElectionKeeps, ElectionPanicsKeeps, HandleOkayKeeps,
             HandleCoordinatorKeeps, HandleLeaseKeeps, HandleLeaseTableKeeps,
             HandleSetPoolKeeps DEF Message
<1>2. CASE \E i, j \in Nodes : Connection(i, j)
  <2>1. PICK i \in Nodes, j \in Nodes : Connection(i, j)
    BY <1>2
  <2> QED BY <2>1, HandshakeKeeps, HandshakePanicsKeeps, EstablishKeeps, RemovePeerKeeps
          DEF Connection
<1>3. CASE \E i \in Nodes : FinishElection(i)
  BY <1>3, FinishElectionKeeps
<1>4. CASE \E i \in Nodes : Client(i)
  <2>1. PICK i \in Nodes : Client(i)
    BY <1>4
  <2>2. Asked(i) \subseteq Addresses(ConfigPool)
    <3>1. svc[i].pool \in Pools
      BY ServiceFacts DEF IInv, Arrays, Raw
    <3> QED BY <3>1, PoolFacts DEF Asked
  <2> QED BY <2>1, <2>2, LeaseRequestKeeps, ConfirmRequestKeeps DEF Client
<1>5. CASE Fault
  <2>1. \/ \E i \in Nodes : Crash(i)
        \/ \E i \in Nodes : Restart(i)
        \/ \E i, j \in Nodes : Break(i, j)
        \/ \E i, j \in Nodes : HandshakeFails(i, j)
    BY <1>5 DEF Fault
  <2> QED BY <2>1, CrashKeeps, EnvironmentKeeps, HandshakeFailsKeeps
<1>6. CASE Tick
  BY <1>6, EnvironmentKeeps
<1>7. CASE UNCHANGED vars
  <2>1. World' /\ IsChan(chan') /\ svc' \in [Nodes -> Services] /\ UNCHANGED <<peers, electVars>>
    BY <1>7 DEF vars, IInv, World, Arrays, electVars
  <2> QED BY <2>1, RolesKept
<1> QED BY <1>1, <1>2, <1>3, <1>4, <1>5, <1>6, <1>7 DEF Next

LEMMA Invariance == Spec => []IInv
BY InitIInv, NextIInv, PTL DEF Spec

-----------------------------------------------------------------------------
LEMMA SeqOfMore ==
  ASSUME NEW A, NEW B, A \subseteq B, NEW s \in Seq(A)
  PROVE  s \in Seq(B)
OBVIOUS

LEMMA IInvTypes == IInv => TypeOK
<1> SUFFICES ASSUME IInv PROVE TypeOK
  OBVIOUS
<1>1. ASSUME NEW p \in Nodes \X Nodes
      PROVE  chan[p] \in Seq(Messages)
  <2>1. MessagesOn(p) \subseteq Messages /\ chan[p] \in Seq(MessagesOn(p))
    BY DEF IInv, IsChan, MessagesOn
  <2> QED BY <2>1, SeqOfMore
<1>2. chan \in [Nodes \X Nodes -> Seq(Messages)]
  BY <1>1 DEF IInv, IsChan
<1> QED BY <1>2 DEF IInv, World, Arrays, TypeOK

LEMMA IInvEnds == IInv => ElectionFromLower /\ OkayFromHigher
<1> SUFFICES ASSUME IInv PROVE ElectionFromLower /\ OkayFromHigher
  OBVIOUS
<1>1. ASSUME NEW i \in Nodes, NEW j \in Nodes, NEW k \in 1 .. Len(chan[<<i, j>>])
      PROVE  /\ chan[<<i, j>>][k].type = "Election" => i < j
             /\ chan[<<i, j>>][k].type = "Okay" => i > j
  <2>1. chan[<<i, j>>] \in Seq(MessagesOn(<<i, j>>))
    BY DEF IInv, IsChan
  <2>2. chan[<<i, j>>][k] \in MessagesOn(<<i, j>>)
    BY <2>1, ElementOfSeq
  <2> QED BY <2>2 DEF MessagesOn
<1> QED BY <1>1 DEF ElectionFromLower, OkayFromHigher, InTransit

\* Every state is of the stated types: shares lie in the configured pool, cursors
\* in the current share, and messages carry what their handlers expect.
THEOREM TypeCorrect == Spec => []TypeOK
BY Invariance, IInvTypes, PTL

\* A coordinator knows that it is one and whether it reaches more than half of
\* the nodes, whatever happened to its connections (server.rs:226, 290, 321).
THEOREM CoordinatorsCount == Spec => []CoordinatorKnowsItself
<1>1. IInv => CoordinatorKnowsItself
  BY DEF IInv
<1> QED BY <1>1, Invariance, PTL

\* A node in an election has a timer that has yet to fire, however many timers of
\* earlier elections are running (server.rs:346, 366).
THEOREM ElectionsAreTimed == Spec => []WaitingHasTimer
<1>1. IInv => WaitingHasTimer
  BY DEF IInv
<1> QED BY <1>1, Invariance, PTL

\* The assertion of handle_okay (server.rs:466) never fails, and the senders of
\* Election that handle_election would ignore (server.rs:455) do not exist.
THEOREM AssertionHolds == Spec => [](ElectionFromLower /\ OkayFromHigher)
BY Invariance, IInvEnds, PTL

-----------------------------------------------------------------------------
(* Sequences of messages.                                                  *)

LEMMA Appended ==
  ASSUME NEW X, NEW q \in Seq(X), NEW m \in X
  PROVE  /\ q \o <<m>> \in Seq(X)
         /\ Len(q \o <<m>>) = Len(q) + 1
         /\ \A n \in 1 .. Len(q) : (q \o <<m>>)[n] = q[n]
         /\ (q \o <<m>>)[Len(q) + 1] = m
OBVIOUS

LEMMA Taking ==
  ASSUME NEW X, NEW q \in Seq(X), q # <<>>
  PROVE  /\ Head(q) \in X /\ Tail(q) \in Seq(X)
         /\ Len(q) \in Nat /\ Len(Tail(q)) = Len(q) - 1
         /\ Len(q) > 0 /\ Head(q) = q[1]
         /\ \A n \in 1 .. Len(q) - 1 : Tail(q)[n] = q[n + 1]
OBVIOUS

LEMMA OrdersAreMail ==
  ASSUME NEW i \in Nodes, NEW ps \in SUBSET Nodes, NEW order \in Orders(ps)
  PROVE  IsMail(i, [j \in Nodes |-> IF j \in ps
           THEN <<CoordinatorMsg(HasMajority(ps)), SetPoolMsg(Share(ps, order[j]))>> ELSE <<>>])
<1> DEFINE m == CoordinatorMsg(HasMajority(ps))
           mail == [j \in Nodes |-> IF j \in ps
                      THEN <<m, SetPoolMsg(Share(ps, order[j]))>> ELSE <<>>]
<1>1. \A j \in ps : order[j] \in 1 .. Cardinality(ps) + 1
  BY CountNodes DEF Orders
<1>2. m \in Messages /\ m.type \notin {"Election", "Okay"}
  <2>1. HasMajority(ps) \in BOOLEAN
    BY DEF HasMajority
  <2> QED BY <2>1, MessageTypes
<1> HIDE DEF m
<1>3. ASSUME NEW j \in ps
      PROVE  <<m, SetPoolMsg(Share(ps, order[j]))>> \in Seq(MessagesOn(<<i, j>>))
  <2> DEFINE p == SetPoolMsg(Share(ps, order[j]))
  <2>1. p \in Messages /\ p.type \notin {"Election", "Okay"}
    BY <1>1, ShareIsPool, MessageTypes
  <2> HIDE DEF p
  <2>2. m \in MessagesOn(<<i, j>>) /\ p \in MessagesOn(<<i, j>>)
    BY <1>2, <2>1, AnyoneMayGet
  <2>3. <<m, p>> \in Seq(MessagesOn(<<i, j>>))
    BY <2>2
  <2> QED BY <2>3 DEF p
<1>4. ASSUME NEW j \in Nodes PROVE mail[j] \in Seq(MessagesOn(<<i, j>>))
  <2>1. CASE j \in ps
    BY <1>3, <2>1
  <2>2. CASE j \notin ps
    BY <2>2, EmptySeq
  <2> QED BY <2>1, <2>2
<1>5. IsMail(i, mail)
  <2> HIDE DEF mail
  <2> QED BY <1>4 DEF IsMail
<1> QED BY <1>5 DEF m

-----------------------------------------------------------------------------
(* Who leads when an election is over: its inductive invariant, for the    *)
(* highest node h.                                                         *)

Carries(q, types) == \E n \in 1 .. Len(q) : q[n].type \in types

\* No node is its own peer, connections have two ends, and a node that is down
\* has no peers.
Ends ==
  /\ \A i \in Nodes : i \notin peers[i] /\ <<i, i>> \notin link /\ <<i, i>> \notin lost
  /\ \A i \in Nodes : \A j \in joining[i] : j < i
  /\ \A i, j \in Nodes : <<i, j>> \in link => <<j, i>> \in link
  /\ \A i \in Nodes \ up : peers[i] = {}

\* With a peer, h leads or is about to: nobody's Okay sets it at rest.
Stands(h) == h \in up /\ peers[h] # {} => role[h] # "Follower"

\* Node i has h as a peer, and h has i.
Knows(i, h) ==
  /\ i \in up /\ h \in up /\ <<i, h>> \in link
  /\ h \in peers[i] /\ i \in peers[h]

\* Whoever leads or wants to, and knows h, will hear from h: h is in an election,
\* will be when it has the Election, or has told already.
Defers(i, h) ==
  Knows(i, h) /\ role[i] # "Follower" =>
    \/ role[h] = "WaitingForElection"
    \/ Carries(chan[<<i, h>>], {"Election"})
    \/ Carries(chan[<<h, i>>], {"Coordinator"})

\* All nodes run and are connected with each other.
Whole ==
  /\ up = Nodes /\ lost = {}
  /\ \A i \in Nodes : joining[i] = {} /\ peers[i] = Nodes \ {i}
  /\ \A i, j \in Nodes : i # j => <<i, j>> \in link

\* The whole cluster is led by h, and nothing on its way makes h start anew.
Concluded(h) ==
  /\ Whole
  /\ role[h] = "Coordinator"
  /\ \A i \in Nodes : ~Carries(chan[<<i, h>>], {"Election", "Coordinator"})

\* Nobody but h gives orders, and nobody gives orders to h.
OneVoice(h) ==
  \A i, j \in Nodes : i # h \/ j = h => ~Carries(chan[<<i, j>>], {"Coordinator", "SetPool"})

\* Every Coordinator message says b of the majority.
Says(q, b) == \A n \in 1 .. Len(q) : q[n].type = "Coordinator" => q[n].majority = b

\* Node i has h for its coordinator, or will have, and nothing else.
Obeys(i, h) ==
  LET q == chan[<<h, i>>]
  IN  /\ Says(q, majority[h])
      /\ Carries(q, {"Coordinator"}) \/ (coord[i] = {h} /\ majority[i] = majority[h])

\* The last SetPool message assigns p.
LastPool(q, p) ==
  \E n \in 1 .. Len(q) :
    /\ q[n].type = "SetPool" /\ q[n].pool = p
    /\ \A k \in n + 1 .. Len(q) : q[k].type # "SetPool"

\* The pool p is what node i has when it has handled what h sent.
Assigned(i, h, p) ==
  LET q == chan[<<h, i>>]
  IN  LastPool(q, p) \/ (~Carries(q, {"SetPool"}) /\ svc[i].pool = p)

Divided(h) ==
  \E order \in Orders(Nodes \ {h}) :
    /\ svc[h].pool = Share(Nodes \ {h}, 1)
    /\ \A i \in Nodes \ {h} : Assigned(i, h, Share(Nodes \ {h}, order[i]))

Outcome(h) == OneVoice(h) /\ Divided(h) /\ \A i \in Nodes \ {h} : Obeys(i, h)

Led(h) == Ends /\ Stands(h) /\ \A i \in Nodes \ {h} : Defers(i, h)

EInv(h) == IInv /\ Led(h) /\ (Concluded(h) /\ timely => Outcome(h))

\* The highest of all nodes.
Top(h) == h \in Nodes /\ \A i \in Nodes : i <= h

HighestIsUp == \E k \in up : \A i \in Nodes : i <= k

\* One node is the highest.
LEMMA HighestExists ==
  ASSUME Nodes # {}
  PROVE  \E h : Top(h)
<1> DEFINE n == Cardinality(Nodes)
<1>1. n \in Nat /\ ExistsBijection(1 .. n, Nodes)
  BY NodesAssumption, FS_CardinalityType
<1>2. PICK f \in Bijection(1 .. n, Nodes) : TRUE
  BY <1>1 DEF ExistsBijection
<1>3. f \in [1 .. n -> Nodes] /\ \A i \in Nodes : \E k \in 1 .. n : f[k] = i
  BY <1>2 DEF Bijection, Injection, Surjection
<1> DEFINE Best(m) == \E k \in 1 .. m : \A l \in 1 .. m : f[l] <= f[k]
           Bad == {m \in 1 .. n : ~Best(m)}
<1> HIDE DEF n
<1>4. Bad = {}
  <2>1. SUFFICES ASSUME Bad # {} PROVE FALSE
    OBVIOUS
  <2>2. Bad \in SUBSET Nat
    OBVIOUS
  <2> HIDE DEF Bad
  <2>3. PICK m \in Least(Bad) : TRUE
    BY <2>1, <2>2, LeastExists
  <2>4. m \in Bad /\ \A k \in Bad : m <= k
    BY <2>2, <2>3 DEF Least
  <2>5. m \in 1 .. n /\ ~Best(m)
    BY <2>4 DEF Bad
  <2>6. \A l \in 1 .. m : f[l] \in Nat
    <3>1. \A l \in 1 .. m : l \in 1 .. n
      BY <1>1, <2>5
    <3> QED BY <1>3, <3>1, NodesAssumption
  <2>7. CASE m = 1
    BY <2>5, <2>6, <2>7
  <2>8. CASE m # 1
    <3> DEFINE p == m - 1
    <3>1. p \in 1 .. n /\ p < m /\ p + 1 = m
      BY <1>1, <2>5, <2>8
    <3>2. p \notin Bad
      BY <2>4, <2>5, <3>1
    <3>3. PICK k \in 1 .. p : \A l \in 1 .. p : f[l] <= f[k]
      BY <3>1, <3>2 DEF Bad
    <3> HIDE DEF p
    <3>4. \A l \in 1 .. m : l \in 1 .. p \/ l = m
      BY <1>1, <2>5, <3>1
    <3>5. k \in 1 .. m /\ m \in 1 .. m
      BY <1>1, <2>5, <3>1
    <3>6. CASE f[m] <= f[k]
      BY <2>5, <3>3, <3>4, <3>5, <3>6
    <3>7. CASE ~(f[m] <= f[k])
      <4>1. \A l \in 1 .. m : f[l] <= f[m]
        BY <2>6, <3>3, <3>4, <3>5, <3>7
      <4> QED BY <2>5, <3>5, <4>1
    <3> QED BY <3>6, <3>7
  <2> QED BY <2>7, <2>8
<1>5. n \in 1 .. n
  BY <1>1, <1>3
<1>6. Best(n)
  BY <1>4, <1>5
<1>7. PICK k \in 1 .. n : \A l \in 1 .. n : f[l] <= f[k]
  BY <1>6
<1>8. Top(f[k])
  BY <1>3, <1>7 DEF Top
<1> QED BY <1>8

-----------------------------------------------------------------------------
(* What is on its way.                                                     *)

LEMMA CarriesAppended ==
  ASSUME NEW X, NEW q \in Seq(X), NEW r \in Seq(X), NEW types
  PROVE  Carries(q \o r, types) <=> Carries(q, types) \/ Carries(r, types)
<1> DEFINE s == q \o r
<1>1. /\ Len(q) \in Nat /\ Len(r) \in Nat /\ Len(s) = Len(q) + Len(r)
      /\ \A n \in 1 .. Len(q) : s[n] = q[n]
      /\ \A n \in 1 .. Len(r) : s[Len(q) + n] = r[n]
  OBVIOUS
<1> HIDE DEF s
<1>2. ASSUME Carries(s, types) PROVE Carries(q, types) \/ Carries(r, types)
  <2>1. PICK n \in 1 .. Len(s) : s[n].type \in types
    BY <1>2 DEF Carries
  <2>2. CASE n \in 1 .. Len(q)
    BY <1>1, <2>1, <2>2 DEF Carries
  <2>3. CASE n \notin 1 .. Len(q)
    <3> DEFINE k == n - Len(q)
    <3>1. k \in 1 .. Len(r) /\ Len(q) + k = n
      BY <1>1, <2>3
    <3> HIDE DEF k
    <3> QED BY <1>1, <2>1, <3>1 DEF Carries
  <2> QED BY <2>2, <2>3
<1>3. ASSUME Carries(q, types) PROVE Carries(s, types)
  BY <1>1, <1>3 DEF Carries
<1>4. ASSUME Carries(r, types) PROVE Carries(s, types)
  <2>1. PICK n \in 1 .. Len(r) : r[n].type \in types
    BY <1>4 DEF Carries
  <2>2. Len(q) + n \in 1 .. Len(s)
    BY <1>1
  <2> QED BY <1>1, <2>1, <2>2 DEF Carries
<1> QED BY <1>2, <1>3, <1>4 DEF s

LEMMA CarriesTaken ==
  ASSUME NEW X, NEW q \in Seq(X), q # <<>>, NEW types
  PROVE  Carries(q, types) <=> Head(q).type \in types \/ Carries(Tail(q), types)
<1> DEFINE r == Tail(q)
<1>1. /\ Len(q) \in Nat /\ Len(q) > 0 /\ Len(r) = Len(q) - 1
      /\ Head(q) = q[1] /\ \A n \in 1 .. Len(r) : r[n] = q[n + 1]
  BY Taking
<1> HIDE DEF r
<1>2. ASSUME Carries(q, types) PROVE Head(q).type \in types \/ Carries(r, types)
  <2>1. PICK n \in 1 .. Len(q) : q[n].type \in types
    BY <1>2 DEF Carries
  <2>2. CASE n = 1
    BY <1>1, <2>1, <2>2
  <2>3. CASE n # 1
    <3> DEFINE k == n - 1
    <3>1. k \in 1 .. Len(r) /\ k + 1 = n
      BY <1>1, <2>3
    <3> HIDE DEF k
    <3> QED BY <1>1, <2>1, <3>1 DEF Carries
  <2> QED BY <2>2, <2>3
<1>3. 1 \in 1 .. Len(q) /\ \A n \in 1 .. Len(r) : n + 1 \in 1 .. Len(q)
  BY <1>1
<1> QED BY <1>1, <1>2, <1>3 DEF Carries, r

LEMMA CarriesNothing == ASSUME NEW types PROVE ~Carries(<<>>, types)
BY DEF Carries

LEMMA CarriesOne ==
  ASSUME NEW m, NEW types
  PROVE  Carries(<<m>>, types) <=> m.type \in types
<1>1. Len(<<m>>) = 1 /\ <<m>>[1] = m
  OBVIOUS
<1> QED BY <1>1 DEF Carries

LEMMA CarriesTwo ==
  ASSUME NEW m, NEW k, NEW types
  PROVE  Carries(<<m, k>>, types) <=> m.type \in types \/ k.type \in types
<1>1. Len(<<m, k>>) = 2 /\ <<m, k>>[1] = m /\ <<m, k>>[2] = k
  OBVIOUS
<1> HIDE DEF Carries
<1>2. \A n : n \in 1 .. 2 <=> n = 1 \/ n = 2
  OBVIOUS
<1> QED BY <1>1, <1>2 DEF Carries

LEMMA CarriesPosted ==
  ASSUME NEW ch, IsChan(ch), NEW i \in Nodes, NEW mail, IsMail(i, mail),
         NEW p \in Nodes \X Nodes, NEW types
  PROVE  Carries(Post(ch, i, mail)[p], types) <=>
           \/ Carries(ch[p], types)
           \/ p[1] = i /\ p \in link' /\ Carries(mail[p[2]], types)
<1>1. CASE p[1] = i /\ p \in link'
  <2>1. p = <<i, p[2]>> /\ p[2] \in Nodes
    BY <1>1
  <2>2. ch[p] \in Seq(MessagesOn(p)) /\ mail[p[2]] \in Seq(MessagesOn(p))
    BY <2>1 DEF IsChan, IsMail
  <2>3. Post(ch, i, mail)[p] = ch[p] \o mail[p[2]]
    BY <1>1 DEF Post
  <2> QED BY <1>1, <2>2, <2>3, CarriesAppended
<1>2. CASE ~(p[1] = i /\ p \in link')
  <2>1. Post(ch, i, mail)[p] = ch[p]
    BY <1>2 DEF Post
  <2> QED BY <1>2, <2>1
<1> QED BY <1>1, <1>2

LEMMA CarriesToAll ==
  ASSUME NEW ps, NEW m, NEW j \in Nodes, NEW types
  PROVE  Carries(ToAll(ps, m)[j], types) <=> j \in ps /\ m.type \in types
<1>1. ToAll(ps, m)[j] = IF j \in ps THEN <<m>> ELSE <<>>
  BY DEF ToAll
<1> QED BY <1>1, CarriesOne, CarriesNothing

LEMMA CarriesTo ==
  ASSUME NEW i \in Nodes, NEW m, NEW j \in Nodes, NEW types
  PROVE  Carries(To(i, m)[j], types) <=> j = i /\ m.type \in types
<1>1. To(i, m)[j] = IF j = i THEN <<m>> ELSE <<>>
  BY DEF To, Nothing
<1> QED BY <1>1, CarriesOne, CarriesNothing

\* A message that is taken carries its type, and no other.
LEMMA TakenCarries ==
  ASSUME IsChan(chan), NEW i \in Nodes, NEW j \in Nodes, NEW type, Receives(i, j, type),
         NEW types, NEW p \in Nodes \X Nodes
  PROVE  /\ Carries(Taken(i, j)[p], types) => Carries(chan[p], types)
         /\ Carries(chan[p], types) =>
              Carries(Taken(i, j)[p], types) \/ (p = <<j, i>> /\ type \in types)
         /\ p = <<j, i>> /\ type \in types => Carries(chan[p], types)
<1> DEFINE q == chan[<<j, i>>]
<1>1. q \in Seq(MessagesOn(<<j, i>>)) /\ q # <<>> /\ Head(q).type = type
  BY DEF IsChan, Receives
<1>2. Carries(q, types) <=> type \in types \/ Carries(Tail(q), types)
  BY <1>1, CarriesTaken
<1>3. Taken(i, j)[p] = IF p = <<j, i>> THEN Tail(q) ELSE chan[p]
  BY DEF Taken, IsChan
<1> QED BY <1>2, <1>3

\* What start_election sends.
LEMMA ElectionCarried ==
  ASSUME NEW i \in Nodes, NEW ps \in SUBSET Nodes, NEW ch, IsChan(ch),
         StartElection(i, ps, ch), NEW types, NEW p \in Nodes \X Nodes
  PROVE  Carries(chan'[p], types) <=>
           \/ Carries(ch[p], types)
           \/ /\ p[1] = i /\ p \in link' /\ p[2] \in ps /\ p[2] > i
              /\ "Election" \in types
<1> DEFINE above == {j \in ps : j > i}
           mail == ToAll(above, Election)
<1>1. \A j \in above : Election \in MessagesOn(<<i, j>>)
  BY MessageTypes, NodesAssumption DEF MessagesOn
<1>2. IsMail(i, mail)
  <2>1. above \in SUBSET Nodes
    OBVIOUS
  <2> HIDE DEF above
  <2> QED BY <1>1, <2>1, ToAllIsMail
<1>3. chan' = Post(ch, i, mail) /\ p[2] \in Nodes
  BY DEF StartElection
<1>4. Carries(mail[p[2]], types) <=> p[2] \in above /\ "Election" \in types
  <2>1. Election.type = "Election"
    BY MessageTypes
  <2> HIDE DEF above
  <2> QED BY <1>3, <2>1, CarriesToAll
<1> HIDE DEF mail
<1>5. Carries(chan'[p], types) <=>
        Carries(ch[p], types) \/ (p[1] = i /\ p \in link' /\ Carries(mail[p[2]], types))
  BY <1>2, <1>3, CarriesPosted
<1> QED BY <1>4, <1>5

\* What become_coordinator sends.
LEMMA OrdersCarried ==
  ASSUME NEW i \in Nodes, NEW ps \in SUBSET Nodes, NEW ch, IsChan(ch),
         BecomeCoordinator(i, ps, ch), NEW types, NEW p \in Nodes \X Nodes
  PROVE  Carries(chan'[p], types) <=>
           \/ Carries(ch[p], types)
           \/ /\ p[1] = i /\ p \in link' /\ p[2] \in ps
              /\ "Coordinator" \in types \/ "SetPool" \in types
<1> DEFINE m == CoordinatorMsg(HasMajority(ps))
           mail(order) == [j \in Nodes |-> IF j \in ps
                             THEN <<m, SetPoolMsg(Share(ps, order[j]))>> ELSE <<>>]
<1>1. PICK order \in Orders(ps) : chan' = Post(ch, i, mail(order))
  BY DEF BecomeCoordinator
<1>2. IsMail(i, mail(order))
  BY <1>1, OrdersAreMail
<1>3. Carries(mail(order)[p[2]], types) <=>
        p[2] \in ps /\ ("Coordinator" \in types \/ "SetPool" \in types)
  <2> DEFINE k == SetPoolMsg(Share(ps, order[p[2]]))
  <2>1. m.type = "Coordinator" /\ k.type = "SetPool"
    BY DEF CoordinatorMsg, SetPoolMsg
  <2>2. mail(order)[p[2]] = IF p[2] \in ps THEN <<m, k>> ELSE <<>>
    OBVIOUS
  <2> HIDE DEF m, k, mail
  <2> QED BY <2>1, <2>2, CarriesTwo, CarriesNothing
<1> HIDE DEF mail
<1>4. Carries(chan'[p], types) <=>
        Carries(ch[p], types) \/ (p[1] = i /\ p \in link' /\ Carries(mail(order)[p[2]], types))
  BY <1>1, <1>2, CarriesPosted
<1> QED BY <1>3, <1>4

LEMMA ElectionReaches ==
  ASSUME NEW i \in Nodes, NEW ps \in SUBSET Nodes, NEW ch, IsChan(ch),
         StartElection(i, ps, ch), NEW k \in ps, k > i, <<i, k>> \in link'
  PROVE  Carries(chan'[<<i, k>>], {"Election"})
<1> DEFINE p == <<i, k>>
           types == {"Election"}
<1>1. p \in Nodes \X Nodes /\ p[1] = i /\ p \in link' /\ p[2] \in ps /\ p[2] > i
  OBVIOUS
<1>2. "Election" \in types
  OBVIOUS
<1> HIDE DEF p, types
<1>3. Carries(chan'[p], types) <=>
           \/ Carries(ch[p], types)
           \/ /\ p[1] = i /\ p \in link' /\ p[2] \in ps /\ p[2] > i
              /\ "Election" \in types
  BY <1>1, ElectionCarried
<1>4. Carries(chan'[p], types)
  BY <1>1, <1>2, <1>3
<1> QED BY <1>4 DEF p, types

LEMMA OrdersReach ==
  ASSUME NEW i \in Nodes, NEW ps \in SUBSET Nodes, NEW ch, IsChan(ch),
         BecomeCoordinator(i, ps, ch), NEW k \in ps, <<i, k>> \in link'
  PROVE  Carries(chan'[<<i, k>>], {"Coordinator"})
<1> DEFINE p == <<i, k>>
           types == {"Coordinator"}
<1>1. p \in Nodes \X Nodes /\ p[1] = i /\ p \in link' /\ p[2] \in ps
  OBVIOUS
<1>2. "Coordinator" \in types
  OBVIOUS
<1> HIDE DEF p, types
<1>3. Carries(chan'[p], types) <=>
           \/ Carries(ch[p], types)
           \/ /\ p[1] = i /\ p \in link' /\ p[2] \in ps
              /\ "Coordinator" \in types \/ "SetPool" \in types
  BY <1>1, OrdersCarried
<1>4. Carries(chan'[p], types)
  BY <1>1, <1>2, <1>3
<1> QED BY <1>4 DEF p, types

LEMMA OrdersReachNoOther ==
  ASSUME NEW i \in Nodes, NEW ps \in SUBSET Nodes, NEW ch, IsChan(ch),
         BecomeCoordinator(i, ps, ch), NEW j \in Nodes, NEW k \in Nodes, j # i \/ k \notin ps,
         NEW types, Carries(chan'[<<j, k>>], types)
  PROVE  Carries(ch[<<j, k>>], types)
<1> DEFINE p == <<j, k>>
<1>1. p \in Nodes \X Nodes /\ (p[1] # i \/ p[2] \notin ps) /\ Carries(chan'[p], types)
  OBVIOUS
<1> HIDE DEF p
<1>2. Carries(chan'[p], types) <=>
           \/ Carries(ch[p], types)
           \/ /\ p[1] = i /\ p \in link' /\ p[2] \in ps
              /\ "Coordinator" \in types \/ "SetPool" \in types
  BY <1>1, OrdersCarried
<1>3. Carries(ch[p], types)
  BY <1>1, <1>2
<1> QED BY <1>3 DEF p

-----------------------------------------------------------------------------
(* Steps that keep h in the lead.                                          *)

LEMMA EndsKept == ASSUME Ends, UNCHANGED <<up, link, lost, joining, peers>> PROVE Ends'
BY DEF Ends

LEMMA LedWaits ==
  ASSUME NEW h \in Nodes, Ends', role'[h] = "WaitingForElection"
  PROVE  Led(h)'
BY DEF Led, Stands, Defers

\* A step that changes nothing of the role of h and gives no node a reason to
\* doubt it.
LEMMA LedKept ==
  ASSUME NEW h \in Nodes, Led(h), Ends', role'[h] = role[h],
         h \in up' /\ peers'[h] # {} => h \in up /\ peers[h] # {},
         \A k \in Nodes \ {h} : Knows(k, h)' /\ role'[k] # "Follower" =>
           \/ Carries(chan'[<<k, h>>], {"Election"})
           \/ /\ Knows(k, h) /\ role[k] # "Follower"
              /\ Carries(chan[<<k, h>>], {"Election"}) => Carries(chan'[<<k, h>>], {"Election"})
              /\ Carries(chan[<<h, k>>], {"Coordinator"}) =>
                   Carries(chan'[<<h, k>>], {"Coordinator"})
  PROVE  Led(h)'
<1>1. Stands(h)'
  BY DEF Led, Stands
<1>2. ASSUME NEW k \in Nodes \ {h} PROVE Defers(k, h)'
  <2> SUFFICES ASSUME Knows(k, h)', role'[k] # "Follower"
               PROVE  \/ role'[h] = "WaitingForElection"
                      \/ Carries(chan'[<<k, h>>], {"Election"})
                      \/ Carries(chan'[<<h, k>>], {"Coordinator"})
    BY DEF Defers
  <2>1. Knows(k, h) /\ role[k] # "Follower" =>
          \/ role[h] = "WaitingForElection"
          \/ Carries(chan[<<k, h>>], {"Election"})
          \/ Carries(chan[<<h, k>>], {"Coordinator"})
    BY DEF Led, Defers
  <2> QED BY <2>1
<1> QED BY <1>1, <1>2 DEF Led

\* A step of node i that starts an election among the peers ps.
LEMMA ElectionLed ==
  ASSUME IInv, NEW h, Top(h), Led(h), Ends', NEW i \in Nodes, NEW ps \in SUBSET Nodes,
         NEW ch, IsChan(ch), StartElection(i, ps, ch),
         peers' = [peers EXCEPT ![i] = ps], UNCHANGED <<up, link>>,
         i # h => \A k \in Nodes \ {h, i} :
           /\ Carries(chan[<<k, h>>], {"Election"}) => Carries(ch[<<k, h>>], {"Election"})
           /\ Carries(chan[<<h, k>>], {"Coordinator"}) => Carries(ch[<<h, k>>], {"Coordinator"})
  PROVE  Led(h)'
<1>1. h \in Nodes /\ \A k \in Nodes : k <= h
  BY DEF Top
<1>2. /\ role'[i] = "WaitingForElection"
      /\ \A k \in Nodes \ {i} : role'[k] = role[k] /\ peers'[k] = peers[k]
      /\ peers'[i] = ps
  BY DEF StartElection, IInv, Arrays
<1>3. CASE i = h
  BY <1>1, <1>2, <1>3, LedWaits
<1>4. CASE i # h
  <2>1. ASSUME NEW k \in Nodes \ {h, i}
        PROVE  /\ Knows(k, h)' => Knows(k, h)
               /\ Carries(chan[<<k, h>>], {"Election"}) => Carries(chan'[<<k, h>>], {"Election"})
               /\ Carries(chan[<<h, k>>], {"Coordinator"}) =>
                    Carries(chan'[<<h, k>>], {"Coordinator"})
    <3>1. Knows(k, h)' => Knows(k, h)
      BY <1>1, <1>2, <1>4 DEF Knows
    <3>2. /\ Carries(ch[<<k, h>>], {"Election"}) => Carries(chan'[<<k, h>>], {"Election"})
          /\ Carries(ch[<<h, k>>], {"Coordinator"}) => Carries(chan'[<<h, k>>], {"Coordinator"})
      BY <1>1, ElectionCarried
    <3> QED BY <1>4, <3>1, <3>2
  <2>2. Knows(i, h)' => Carries(chan'[<<i, h>>], {"Election"})
    <3>1. SUFFICES ASSUME Knows(i, h)' PROVE Carries(chan'[<<i, h>>], {"Election"})
      OBVIOUS
    <3>2. <<i, h>> \in link' /\ h \in ps /\ h > i
      BY <1>1, <1>2, <1>4, <3>1, NodesAssumption DEF Knows
    <3> QED BY <3>2, ElectionReaches
  <2>3. role'[h] = role[h] /\ peers'[h] = peers[h] /\ up' = up
    BY <1>1, <1>2, <1>4
  <2>4. \A k \in Nodes \ {h, i} : role'[k] = role[k]
    BY <1>2
  <2>5. ASSUME NEW k \in Nodes \ {h}, Knows(k, h)', role'[k] # "Follower"
        PROVE  \/ Carries(chan'[<<k, h>>], {"Election"})
               \/ /\ Knows(k, h) /\ role[k] # "Follower"
                  /\ Carries(chan[<<k, h>>], {"Election"}) =>
                       Carries(chan'[<<k, h>>], {"Election"})
                  /\ Carries(chan[<<h, k>>], {"Coordinator"}) =>
                       Carries(chan'[<<h, k>>], {"Coordinator"})
    BY <2>1, <2>2, <2>4, <2>5
  <2> QED BY <1>1, <2>3, <2>5, LedKept
<1> QED BY <1>3, <1>4

\* A step of node i that makes it the coordinator of peers it had.
LEMMA OrdersLed ==
  ASSUME IInv, NEW h, Top(h), Led(h), Ends', NEW i \in Nodes, NEW ps \in SUBSET peers[i],
         NEW ch, IsChan(ch), BecomeCoordinator(i, ps, ch), role[i] # "Follower",
         peers' = [peers EXCEPT ![i] = ps], UNCHANGED <<up, link>>,
         \A k \in Nodes \ {h} : Knows(k, h)' =>
           /\ Carries(chan[<<k, h>>], {"Election"}) => Carries(ch[<<k, h>>], {"Election"})
           /\ Carries(chan[<<h, k>>], {"Coordinator"}) => Carries(ch[<<h, k>>], {"Coordinator"})
  PROVE  Led(h)'
<1>1. h \in Nodes /\ ps \in SUBSET Nodes
  BY DEF Top, IInv, Arrays
<1>2. /\ role'[i] = "Coordinator" /\ peers'[i] = ps
      /\ \A k \in Nodes \ {i} : role'[k] = role[k] /\ peers'[k] = peers[k]
  BY DEF BecomeCoordinator, IInv, Arrays
<1>3. CASE i = h
  <2>1. Stands(h)'
    BY <1>2, <1>3 DEF Stands
  <2>2. ASSUME NEW k \in Nodes \ {h}, Knows(k, h)'
        PROVE  Carries(chan'[<<h, k>>], {"Coordinator"})
    <3>1. <<i, k>> \in link' /\ k \in ps
      BY <1>1, <1>2, <1>3, <2>2 DEF Knows, Ends
    <3> QED BY <1>1, <1>3, <3>1, OrdersReach
  <2>3. \A k \in Nodes \ {h} : Defers(k, h)'
    BY <2>2 DEF Defers
  <2> QED BY <2>1, <2>3 DEF Led
<1>4. CASE i # h
  <2>1. ASSUME NEW k \in Nodes \ {h}, Knows(k, h)', role'[k] # "Follower"
        PROVE  /\ Knows(k, h) /\ role[k] # "Follower"
               /\ Carries(chan[<<k, h>>], {"Election"}) => Carries(chan'[<<k, h>>], {"Election"})
               /\ Carries(chan[<<h, k>>], {"Coordinator"}) =>
                    Carries(chan'[<<h, k>>], {"Coordinator"})
    <3>1. Knows(k, h) /\ role[k] # "Follower"
      BY <1>1, <1>2, <1>4, <2>1 DEF Knows
    <3>2. /\ Carries(ch[<<k, h>>], {"Election"}) => Carries(chan'[<<k, h>>], {"Election"})
          /\ Carries(ch[<<h, k>>], {"Coordinator"}) => Carries(chan'[<<h, k>>], {"Coordinator"})
      BY <1>1, OrdersCarried
    <3> QED BY <2>1, <3>1, <3>2
  <2>2. role'[h] = role[h] /\ peers'[h] = peers[h] /\ up' = up
    BY <1>1, <1>2, <1>4
  <2> QED BY <1>1, <2>1, <2>2, LedKept
<1> QED BY <1>3, <1>4

\* A node that ends takes its messages and connections with it.
LEMMA HaltLed ==
  ASSUME IInv, NEW h \in Nodes, Led(h), Ends', NEW i \in Nodes, Halt(i)
  PROVE  Led(h)'
<1>1. /\ i \notin up' /\ up' \subseteq up /\ link' \subseteq link
      /\ \A k \in Nodes \ {i} : role'[k] = role[k] /\ peers'[k] = peers[k]
  BY DEF Halt, IInv, Arrays
<1>2. ASSUME NEW k \in Nodes, NEW j \in Nodes \ {i}
      PROVE  chan'[<<k, j>>] = chan[<<k, j>>]
  BY DEF Halt
<1>3. CASE i = h
  BY <1>1, <1>3 DEF Led, Stands, Defers, Knows
<1>4. CASE i # h
  <2>1. ASSUME NEW k \in Nodes \ {h}, Knows(k, h)', role'[k] # "Follower"
        PROVE  /\ Knows(k, h) /\ role[k] # "Follower"
               /\ chan'[<<k, h>>] = chan[<<k, h>>] /\ chan'[<<h, k>>] = chan[<<h, k>>]
    <3>1. k # i
      BY <1>1, <2>1 DEF Knows
    <3> QED BY <1>1, <1>2, <1>4, <2>1, <3>1 DEF Knows
  <2>2. role'[h] = role[h] /\ peers'[h] = peers[h]
    BY <1>1, <1>4
  <2> QED BY <1>1, <2>1, <2>2, LedKept
<1> QED BY <1>3, <1>4

\* Appending to a channel, and taking something else from it, loses nothing.
LEMMA CarriesMore ==
  ASSUME NEW ch, IsChan(ch), NEW i \in Nodes, NEW mail, IsMail(i, mail),
         NEW p \in Nodes \X Nodes, NEW types, Carries(ch[p], types)
  PROVE  Carries(Post(ch, i, mail)[p], types)
BY CarriesPosted

LEMMA TableMail ==
  ASSUME Arrays, NEW i \in Nodes, NEW j \in Nodes
  PROVE  IsMail(i, To(j, LeaseTableMsg(svc[i].leases)))
<1> DEFINE m == LeaseTableMsg(svc[i].leases)
<1>1. svc[i].leases \in SUBSET Leases
  BY ServiceFacts DEF Arrays, Raw
<1>2. m \in Messages /\ m.type \notin {"Election", "Okay"}
  BY <1>1, MessageTypes
<1> HIDE DEF m
<1>3. IsMail(i, To(j, m))
  BY <1>2, AnyoneMayGet, ToIsMail
<1> QED BY <1>3 DEF m

LEMMA HandshakeLed ==
  ASSUME IInv, NEW h, Top(h), Led(h), NEW i \in Nodes, NEW j \in Nodes, Handshake(i, j)
  PROVE  Led(h)'
<1> DEFINE ps == peers[j] \cup {i}
           mail == To(i, LeaseTableMsg(svc[j].leases))
           table == Post(chan, j, mail)
<1>1. /\ h \in Nodes /\ j < i /\ i <= h /\ j # h /\ i # j
      /\ i \in up /\ j \in up /\ j \notin peers[i]
  <2>1. i \in Nat /\ j \in Nat /\ h \in Nat /\ h \in Nodes /\ i <= h
    BY NodesAssumption DEF Top
  <2>2. i \in up /\ j \in up /\ i > j /\ j \notin peers[i]
    BY DEF Handshake, CanConnect
  <2> QED BY <2>1, <2>2
<1>2. /\ ps \in SUBSET Nodes /\ IsMail(j, mail) /\ IsChan(chan) /\ IsChan(table)
  BY TableMail, TablePosted DEF IInv, Arrays
<1>3. /\ up' = up /\ peers' = [peers EXCEPT ![j] = ps]
      /\ link' \in {link, link \cup {<<i, j>>, <<j, i>>}}
      /\ lost' \in {lost, lost \cup {<<i, j>>}}
      /\ joining' \in {joining, [joining EXCEPT ![i] = @ \cup {j}]}
  BY DEF Handshake, JoinSucceeds, JoinFails
<1>4. peers'[j] = ps /\ \A k \in Nodes \ {j} : peers'[k] = peers[k]
  BY <1>3 DEF IInv, Arrays
<1>5. Ends'
  <2>1. \A k \in Nodes : \A n \in joining'[k] : n < k
    BY <1>1, <1>3 DEF Led, Ends, IInv, World
  <2>2. ASSUME NEW k \in Nodes
        PROVE  k \notin peers'[k] /\ <<k, k>> \notin link' /\ <<k, k>> \notin lost'
    <3>1. <<k, k>> # <<i, j>> /\ <<k, k>> # <<j, i>>
      BY <1>1
    <3>2. k \notin peers[k] /\ <<k, k>> \notin link /\ <<k, k>> \notin lost
      BY DEF Led, Ends
    <3>3. k \notin peers'[k]
      BY <1>1, <1>4, <3>2
    <3> QED BY <1>3, <3>1, <3>2, <3>3
  <2>3. \A a, b \in Nodes : <<a, b>> \in link' => <<b, a>> \in link'
    BY <1>3 DEF Led, Ends
  <2>4. \A k \in Nodes \ up' : peers'[k] = {}
    BY <1>1, <1>3, <1>4 DEF Led, Ends
  <2> QED BY <2>1, <2>2, <2>3, <2>4 DEF Ends
<1>6. ASSUME NEW p \in Nodes \X Nodes, NEW types, Carries(chan[p], types)
      PROVE  Carries(chan'[p], types)
  <2> HIDE DEF mail, ps
  <2>1. Carries(table[p], types)
    BY <1>2, <1>6, CarriesMore
  <2>2. chan' = table \/ BecomeCoordinator(j, ps, table)
    BY Zenon DEF Handshake, ps, mail
  <2> HIDE DEF table
  <2> QED BY <1>2, <2>1, <2>2, OrdersCarried
<1>7. role' = role
  <2>1. \/ role[j] = "Coordinator" /\ role' = [role EXCEPT ![j] = "Coordinator"]
        \/ role' = role
    BY DEF Handshake, BecomeCoordinator
  <2> QED BY <2>1 DEF IInv, Arrays
<1>8. ASSUME NEW k \in Nodes \ {h}, Knows(k, h)' PROVE Knows(k, h)
  <2>1. k \in peers[h] /\ ~(k = j /\ i = h)
    BY <1>1, <1>4, <1>8 DEF Knows
  <2>2. h \in peers[k]
    <3>1. h \in peers'[k]
      BY <1>8 DEF Knows
    <3> QED BY <1>4, <2>1, <3>1
  <2>3. <<k, h>> \in link
    <3>1. <<k, h>> \in link'
      BY <1>8 DEF Knows
    <3>2. <<k, h>> # <<i, j>> /\ <<k, h>> # <<j, i>>
      BY <1>1, <2>1
    <3> QED BY <1>3, <3>1, <3>2
  <2> QED BY <1>3, <1>8, <2>1, <2>2, <2>3 DEF Knows
<1> HIDE DEF ps, mail, table
<1>9. ASSUME NEW k \in Nodes \ {h}, Knows(k, h)', role'[k] # "Follower"
      PROVE  /\ Knows(k, h) /\ role[k] # "Follower"
             /\ Carries(chan[<<k, h>>], {"Election"}) => Carries(chan'[<<k, h>>], {"Election"})
             /\ Carries(chan[<<h, k>>], {"Coordinator"}) =>
                  Carries(chan'[<<h, k>>], {"Coordinator"})
  BY <1>1, <1>6, <1>7, <1>8, <1>9
<1> QED BY <1>1, <1>3, <1>4, <1>5, <1>7, <1>9, LedKept

LEMMA HandshakeFailsLed ==
  ASSUME IInv, NEW h, Top(h), Led(h), NEW i \in Nodes, NEW j \in Nodes, HandshakeFails(i, j)
  PROVE  Led(h)'
<1>1. Ends' /\ UNCHANGED <<up, link>>
  BY EndsKept DEF HandshakeFails, netVars, Led
<1>2. /\ BecomeCoordinator(j, peers[j], chan) /\ role[j] # "Follower"
      /\ peers' = [peers EXCEPT ![j] = peers[j]] /\ IsChan(chan)
  BY DEF HandshakeFails, IInv, Arrays
<1> QED BY <1>1, <1>2, OrdersLed

\* The connections of a node that ends.
LEMMA HaltEnds ==
  ASSUME World, Ends, NEW i \in Nodes, Halt(i), peers \in [Nodes -> SUBSET Nodes],
         \A p \in lost' : p \in LostBy(i) \/ p[1] # p[2],
         \A k \in Nodes : \A j \in joining'[k] : j < k
  PROVE  Ends'
<1>1. \A k \in Nodes : k \notin peers'[k] /\ <<k, k>> \notin link'
  BY DEF Halt, Ends
<1>2. ASSUME NEW k \in Nodes PROVE <<k, k>> \notin lost'
  <2>1. <<k, k>> \notin LostBy(i)
    BY DEF LostBy, Ends
  <2> QED BY <2>1
<1>3. \A a, b \in Nodes : <<a, b>> \in link' => <<b, a>> \in link'
  BY DEF Halt, Ends
<1>4. \A k \in Nodes \ up' : peers'[k] = {}
  BY DEF Halt, Ends
<1> QED BY <1>1, <1>2, <1>3, <1>4 DEF Ends

LEMMA HandshakePanicsLed ==
  ASSUME IInv, NEW h \in Nodes, Led(h), NEW i \in Nodes, NEW j \in Nodes, HandshakePanics(i, j)
  PROVE  Led(h)'
<1>1. j < i /\ Halt(j)
  BY DEF HandshakePanics, CanConnect
<1>2. \A p \in lost' : p \in LostBy(j) \/ p[1] # p[2]
  BY <1>1, NodesAssumption DEF HandshakePanics
<1>3. \A k \in Nodes : \A n \in joining'[k] : n < k
  BY <1>1 DEF HandshakePanics, Led, Ends, IInv, World
<1>4. Ends'
  BY <1>1, <1>2, <1>3, HaltEnds DEF IInv, Arrays, Led
<1> QED BY <1>1, <1>4, HaltLed

LEMMA ElectionPanicsLed ==
  ASSUME IInv, NEW h \in Nodes, Led(h), NEW i \in Nodes,
         Crash(i) \/ \E j \in Nodes : ElectionPanics(i, j)
  PROVE  Led(h)'
<1>1. Halt(i) /\ lost' = LostBy(i) /\ joining' = [joining EXCEPT ![i] = {}]
  BY DEF ElectionPanics, Crash
<1>2. \A k \in Nodes : \A n \in joining'[k] : n < k
  BY <1>1 DEF Led, Ends, IInv, World
<1>3. Ends'
  BY <1>1, <1>2, HaltEnds DEF IInv, Arrays, Led
<1> QED BY <1>1, <1>3, HaltLed

LEMMA EstablishLed ==
  ASSUME IInv, NEW h, Top(h), Led(h), NEW i \in Nodes, NEW j \in Nodes, Establish(i, j)
  PROVE  Led(h)'
<1> DEFINE ps == peers[i] \cup {j}
           mail == To(j, LeaseTableMsg(svc[i].leases))
           table == Post(chan, i, mail)
<1>1. ps \in SUBSET Nodes /\ IsMail(i, mail) /\ IsChan(chan) /\ IsChan(table)
  BY TableMail, TablePosted DEF IInv, Arrays
<1>2. /\ UNCHANGED <<up, link, lost>> /\ peers' = [peers EXCEPT ![i] = ps]
      /\ joining' = [joining EXCEPT ![i] = @ \ {j}]
      /\ StartElection(i, ps, table)
      /\ i \in up /\ j \in joining[i]
  BY DEF Establish
<1>3. j # i
  BY <1>2, NodesAssumption DEF Led, Ends
<1>4. Ends'
  <2>1. peers'[i] = ps /\ \A k \in Nodes \ {i} : peers'[k] = peers[k]
    BY <1>2 DEF IInv, Arrays
  <2>2. \A k \in Nodes : joining'[k] \subseteq joining[k]
    BY <1>2 DEF IInv, World
  <2> QED BY <1>2, <1>3, <2>1, <2>2 DEF Led, Ends
<1>5. ASSUME NEW p \in Nodes \X Nodes, NEW types, Carries(chan[p], types)
      PROVE  Carries(table[p], types)
  <2> HIDE DEF mail
  <2> QED BY <1>1, <1>5, CarriesMore
<1>6. h \in Nodes
  BY DEF Top
<1> HIDE DEF ps, mail, table
<1> QED BY <1>1, <1>2, <1>4, <1>5, <1>6, ElectionLed

LEMMA RemovePeerLed ==
  ASSUME IInv, NEW h, Top(h), Led(h), NEW i \in Nodes, NEW j \in Nodes, RemovePeer(i, j)
  PROVE  Led(h)'
<1> DEFINE ps == peers[i] \ {j}
           rest == [chan EXCEPT ![<<j, i>>] = <<>>]
<1>1. /\ h \in Nodes /\ ps \in SUBSET Nodes /\ ps \in SUBSET peers[i]
      /\ IsChan(chan) /\ IsChan(rest)
  BY EmptiedIsChan DEF IInv, Arrays, Top
<1>2. /\ UNCHANGED <<up, link, joining>> /\ peers' = [peers EXCEPT ![i] = ps]
      /\ lost' \subseteq lost
  BY DEF RemovePeer
<1>3. peers'[i] = ps /\ \A k \in Nodes \ {i} : peers'[k] = peers[k]
  BY <1>2 DEF IInv, Arrays
<1>4. Ends'
  BY <1>2, <1>3 DEF Led, Ends
<1>5. ASSUME NEW p \in Nodes \X Nodes, p # <<j, i>> PROVE rest[p] = chan[p]
  BY <1>5 DEF IInv, IsChan
<1>6. ASSUME NEW k \in Nodes \ {h}, Knows(k, h)'
      PROVE  rest[<<k, h>>] = chan[<<k, h>>] /\ rest[<<h, k>>] = chan[<<h, k>>]
  <2>1. <<k, h>> # <<j, i>> /\ <<h, k>> # <<j, i>>
    BY <1>1, <1>3, <1>6 DEF Knows
  <2> HIDE DEF rest
  <2> QED BY <1>1, <1>5, <2>1
<1>7. CASE role[i] = "Coordinator" /\ BecomeCoordinator(i, ps, rest)
  <2> HIDE DEF ps, rest
  <2> QED BY <1>1, <1>2, <1>4, <1>6, <1>7, OrdersLed
<1>8. CASE StartElection(i, ps, rest)
  <2>1. ASSUME i # h, NEW k \in Nodes \ {h, i}
        PROVE  rest[<<k, h>>] = chan[<<k, h>>] /\ rest[<<h, k>>] = chan[<<h, k>>]
    <3>1. <<k, h>> # <<j, i>> /\ <<h, k>> # <<j, i>>
      BY <2>1
    <3> HIDE DEF rest
    <3> QED BY <1>1, <1>5, <3>1
  <2> HIDE DEF ps, rest
  <2> QED BY <1>1, <1>2, <1>4, <1>8, <2>1, ElectionLed
<1>9. CASE role' = role /\ chan' = rest
  <2> HIDE DEF rest
  <2>1. ASSUME NEW k \in Nodes \ {h}, Knows(k, h)', role'[k] # "Follower"
        PROVE  /\ Knows(k, h) /\ role[k] # "Follower"
               /\ chan'[<<k, h>>] = chan[<<k, h>>] /\ chan'[<<h, k>>] = chan[<<h, k>>]
    <3>1. Knows(k, h)
      BY <1>1, <1>2, <1>3, <2>1 DEF Knows
    <3> QED BY <1>6, <1>9, <2>1, <3>1
  <2>2. h \in up' /\ peers'[h] # {} => h \in up /\ peers[h] # {}
    BY <1>1, <1>2, <1>3
  <2>3. role'[h] = role[h]
    BY <1>9
  <2> HIDE DEF ps
  <2> QED BY <1>1, <1>4, <2>1, <2>2, <2>3, LedKept
<1> HIDE DEF ps, rest
<1>10. \/ role[i] = "Coordinator" /\ BecomeCoordinator(i, ps, rest)
       \/ StartElection(i, ps, rest)
       \/ role' = role /\ chan' = rest
  BY Zenon DEF RemovePeer, ps, rest
<1> QED BY <1>7, <1>8, <1>9, <1>10

LEMMA HandleElectionLed ==
  ASSUME IInv, NEW h, Top(h), Led(h), NEW i \in Nodes, NEW j \in Nodes, HandleElection(i, j)
  PROVE  Led(h)'
<1> DEFINE taken == Taken(i, j)
           mail == To(j, Okay)
           answered == Post(taken, i, mail)
<1>1. IsChan(chan) /\ IsChan(taken) /\ Receives(i, j, "Election") /\ j < i
  BY TakenIsChan DEF IInv, HandleElection
<1>2. IsMail(i, mail)
  <2>1. Okay \in MessagesOn(<<i, j>>)
    BY <1>1, MessageTypes, NodesAssumption DEF MessagesOn
  <2> QED BY <2>1, ToIsMail
<1>3. IsChan(answered)
  BY <1>1, <1>2, PostIsChan
<1>4. /\ StartElection(i, peers[i], answered)
      /\ peers[i] \in SUBSET Nodes /\ peers' = [peers EXCEPT ![i] = peers[i]]
      /\ UNCHANGED <<up, link, lost, joining, peers>>
  BY DEF HandleElection, IInv, Arrays
<1>5. Ends'
  BY <1>4, EndsKept DEF Led
<1>6. ASSUME NEW p \in Nodes \X Nodes, p # <<j, i>>, NEW types, Carries(chan[p], types)
      PROVE  Carries(answered[p], types)
  <2>1. Carries(taken[p], types)
    BY <1>1, <1>6, TakenCarries
  <2> HIDE DEF taken, mail
  <2> QED BY <1>1, <1>2, <2>1, CarriesMore
<1>7. h \in Nodes
  BY DEF Top
<1> HIDE DEF answered
<1>8. ASSUME i # h, NEW k \in Nodes \ {h, i}
      PROVE  /\ Carries(chan[<<k, h>>], {"Election"}) => Carries(answered[<<k, h>>], {"Election"})
             /\ Carries(chan[<<h, k>>], {"Coordinator"}) =>
                  Carries(answered[<<h, k>>], {"Coordinator"})
  <2>1. <<k, h>> # <<j, i>> /\ <<h, k>> # <<j, i>>
    BY <1>8
  <2> QED BY <1>6, <1>7, <2>1
<1> QED BY <1>3, <1>4, <1>5, <1>8, ElectionLed

\* Taking a message that is neither an Election nor of the coordinator.
LEMMA TakingLed ==
  ASSUME IInv, NEW h \in Nodes, Led(h), NEW i \in Nodes, NEW j \in Nodes, NEW type,
         Receives(i, j, type), type \notin {"Election", "Coordinator"}, chan' = Taken(i, j),
         UNCHANGED <<up, link, lost, joining, peers>>, role'[h] = role[h],
         \A k \in Nodes \ {h} : role'[k] # "Follower" => role[k] # "Follower"
  PROVE  Led(h)'
<1>1. Ends'
  BY EndsKept DEF Led
<1>2. ASSUME NEW p \in Nodes \X Nodes, NEW t \in {"Election", "Coordinator"}, Carries(chan[p], {t})
      PROVE  Carries(chan'[p], {t})
  BY <1>2, TakenCarries DEF IInv
<1>3. ASSUME NEW k \in Nodes \ {h}, Knows(k, h)', role'[k] # "Follower"
      PROVE  /\ Knows(k, h) /\ role[k] # "Follower"
             /\ Carries(chan[<<k, h>>], {"Election"}) => Carries(chan'[<<k, h>>], {"Election"})
             /\ Carries(chan[<<h, k>>], {"Coordinator"}) =>
                  Carries(chan'[<<h, k>>], {"Coordinator"})
  <2>1. Knows(k, h)
    BY <1>3 DEF Knows
  <2> QED BY <1>2, <1>3, <2>1
<1> QED BY <1>1, <1>3, LedKept

\* No Okay ever comes to the highest node.
LEMMA HandleOkayLed ==
  ASSUME IInv, NEW h, Top(h), Led(h), NEW i \in Nodes, NEW j \in Nodes, HandleOkay(i, j)
  PROVE  Led(h)'
<1>1. Receives(i, j, "Okay") /\ chan' = Taken(i, j)
  BY DEF HandleOkay
<1>2. h \in Nodes /\ i # h
  <2>1. j > i
    BY <1>1, TakenIsChan DEF IInv, MessagesOn
  <2>2. j \in Nat /\ i \in Nat /\ h \in Nat /\ j <= h /\ h \in Nodes
    BY NodesAssumption DEF Top
  <2> QED BY <2>1, <2>2
<1>3. UNCHANGED <<up, link, lost, joining, peers>>
  BY DEF HandleOkay, netVars
<1>4. role'[h] = role[h] /\ \A k \in Nodes : role'[k] # "Follower" => role[k] # "Follower"
  BY <1>2 DEF HandleOkay, IInv, Arrays
<1> QED BY <1>1, <1>2, <1>3, <1>4, TakingLed

LEMMA HandleCoordinatorLed ==
  ASSUME IInv, NEW h, Top(h), Led(h), NEW i \in Nodes, NEW j \in Nodes, HandleCoordinator(i, j)
  PROVE  Led(h)'
<1> DEFINE taken == Taken(i, j)
<1>1. IsChan(chan) /\ IsChan(taken) /\ Receives(i, j, "Coordinator")
  BY TakenIsChan DEF IInv, HandleCoordinator
<1>2. /\ UNCHANGED <<up, link, lost, joining, peers>>
      /\ peers[i] \in SUBSET Nodes /\ peers' = [peers EXCEPT ![i] = peers[i]]
  BY DEF HandleCoordinator, netVars, IInv, Arrays
<1>3. Ends'
  BY <1>2, EndsKept DEF Led
<1>4. h \in Nodes
  BY DEF Top
<1>5. ASSUME NEW p \in Nodes \X Nodes, p # <<j, i>>, NEW types, Carries(chan[p], types)
      PROVE  Carries(taken[p], types)
  BY <1>1, <1>5, TakenCarries
<1>6. ASSUME NEW p \in Nodes \X Nodes, Carries(chan[p], {"Election"})
      PROVE  Carries(taken[p], {"Election"})
  BY <1>1, <1>6, TakenCarries
<1>7. CASE j < i /\ StartElection(i, peers[i], taken)
  <2> HIDE DEF taken
  <2>1. ASSUME i # h, NEW k \in Nodes \ {h, i}
        PROVE  /\ Carries(chan[<<k, h>>], {"Election"}) => Carries(taken[<<k, h>>], {"Election"})
               /\ Carries(chan[<<h, k>>], {"Coordinator"}) =>
                    Carries(taken[<<h, k>>], {"Coordinator"})
    <3>1. <<k, h>> # <<j, i>> /\ <<h, k>> # <<j, i>>
      BY <2>1
    <3> QED BY <1>4, <1>5, <3>1
  <2> QED BY <1>1, <1>2, <1>3, <1>7, <2>1, ElectionLed
<1>8. CASE j > i /\ role' = [role EXCEPT ![i] = "Follower"] /\ chan' = taken
  <2>1. i # h
    <3>1. j \in Nat /\ i \in Nat /\ h \in Nat /\ j <= h
      BY NodesAssumption DEF Top
    <3> QED BY <1>8, <3>1
  <2> HIDE DEF taken
  <2>2. role'[i] = "Follower" /\ \A k \in Nodes \ {i} : role'[k] = role[k]
    BY <1>8 DEF IInv, Arrays
  <2>3. ASSUME NEW k \in Nodes \ {h}, Knows(k, h)', role'[k] # "Follower"
        PROVE  /\ Knows(k, h) /\ role[k] # "Follower"
               /\ Carries(chan[<<k, h>>], {"Election"}) => Carries(chan'[<<k, h>>], {"Election"})
               /\ Carries(chan[<<h, k>>], {"Coordinator"}) =>
                    Carries(chan'[<<h, k>>], {"Coordinator"})
    <3>1. k # i /\ role[k] # "Follower"
      BY <2>2, <2>3
    <3>2. Knows(k, h)
      BY <1>2, <2>3 DEF Knows
    <3>3. <<h, k>> # <<j, i>>
      BY <3>1
    <3> QED BY <1>4, <1>5, <1>6, <1>8, <3>1, <3>2, <3>3
  <2> QED BY <1>2, <1>3, <1>4, <2>1, <2>2, <2>3, LedKept
<1> QED BY <1>7, <1>8 DEF HandleCoordinator

LEMMA FinishElectionLed ==
  ASSUME IInv, NEW h, Top(h), Led(h), NEW i \in Nodes, FinishElection(i)
  PROVE  Led(h)'
<1>1. /\ UNCHANGED <<up, link, lost, joining, peers>> /\ IsChan(chan)
      /\ peers' = [peers EXCEPT ![i] = peers[i]] /\ h \in Nodes
  BY DEF FinishElection, netVars, IInv, Arrays, Top
<1>2. Ends'
  BY <1>1, EndsKept DEF Led
<1>3. CASE role[i] = "WaitingForElection" /\ BecomeCoordinator(i, peers[i], chan)
  BY <1>1, <1>2, <1>3, OrdersLed
<1>4. CASE UNCHANGED <<role, chan>>
  BY <1>1, <1>2, <1>4 DEF Led, Stands, Defers, Knows
<1> QED BY <1>3, <1>4 DEF FinishElection

\* What has nothing to do with elections: leases, pools, time.
LEMMA OtherLed ==
  ASSUME IInv, NEW h \in Nodes, Led(h), UNCHANGED <<up, link, lost, joining, peers, role>>,
         \A p \in Nodes \X Nodes : \A types : Carries(chan[p], types) => Carries(chan'[p], types)
  PROVE  Led(h)'
<1>1. Ends'
  BY EndsKept DEF Led
<1>2. ASSUME NEW k \in Nodes \ {h}, Knows(k, h)', role'[k] # "Follower"
      PROVE  /\ Knows(k, h) /\ role[k] # "Follower"
             /\ Carries(chan[<<k, h>>], {"Election"}) => Carries(chan'[<<k, h>>], {"Election"})
             /\ Carries(chan[<<h, k>>], {"Coordinator"}) =>
                  Carries(chan'[<<h, k>>], {"Coordinator"})
  <2>1. Knows(k, h)
    BY <1>2 DEF Knows
  <2> QED BY <1>2, <2>1
<1> QED BY <1>1, <1>2, LedKept

LEMMA LeaseMail ==
  ASSUME IInv, NEW i \in Nodes, NEW mac \in Macs, NEW addr \in Addresses(ConfigPool),
         ConfirmRequest(i, mac, addr)
  PROVE  \E l \in Leases :
           /\ IsMail(i, ToAll(peers[i], LeaseMsg(l)))
           /\ chan' = Post(chan, i, ToAll(peers[i], LeaseMsg(l)))
           /\ \E o \in CommitLease(svc[i], mac, addr, now) : svc' = [svc EXCEPT ![i] = o.svc]
<1>1. PICK o \in CommitLease(svc[i], mac, addr, now) : \E l \in o.acked :
        /\ svc' = [svc EXCEPT ![i] = o.svc]
        /\ chan' = Post(chan, i, ToAll(peers[i], LeaseMsg(l)))
  BY DEF ConfirmRequest
<1>2. PICK l \in o.acked :
        /\ svc' = [svc EXCEPT ![i] = o.svc]
        /\ chan' = Post(chan, i, ToAll(peers[i], LeaseMsg(l)))
  BY <1>1
<1>3. svc[i] \in Services /\ now \in Nat /\ peers[i] \in SUBSET Nodes
  BY DEF IInv, Arrays, World
<1>4. l \in Leases
  BY <1>3, CommitType
<1>5. LeaseMsg(l) \in Messages /\ LeaseMsg(l).type \notin {"Election", "Okay"}
  BY <1>4, MessageTypes
<1>6. IsMail(i, ToAll(peers[i], LeaseMsg(l)))
  BY <1>3, <1>5, AnyoneMayGet, ToAllIsMail
<1> QED BY <1>2, <1>4, <1>6

LEMMA ClientLed ==
  ASSUME IInv, NEW h \in Nodes, Led(h), NEW i \in Nodes, NEW mac \in Macs,
         \/ LeaseRequest(i, mac)
         \/ \E addr \in Addresses(ConfigPool) : ConfirmRequest(i, mac, addr)
  PROVE  Led(h)'
<1>1. CASE LeaseRequest(i, mac)
  <2>1. UNCHANGED <<up, link, lost, joining, peers, role, chan>>
    BY <1>1 DEF LeaseRequest, netVars, electVars
  <2> QED BY <2>1, OtherLed
<1>2. CASE \E addr \in Addresses(ConfigPool) : ConfirmRequest(i, mac, addr)
  <2>1. PICK addr \in Addresses(ConfigPool) : ConfirmRequest(i, mac, addr)
    BY <1>2
  <2>2. UNCHANGED <<up, link, lost, joining, peers, role>> /\ IsChan(chan)
    BY <2>1 DEF ConfirmRequest, netVars, electVars, IInv
  <2>3. ASSUME NEW p \in Nodes \X Nodes, NEW types, Carries(chan[p], types)
        PROVE  Carries(chan'[p], types)
    BY <2>1, <2>2, <2>3, LeaseMail, CarriesMore
  <2> QED BY <2>2, <2>3, OtherLed
<1> QED BY <1>1, <1>2

LEMMA TellingLed ==
  ASSUME IInv, NEW h \in Nodes, Led(h), NEW i \in Nodes, NEW j \in Nodes,
         HandleLease(i, j) \/ HandleLeaseTable(i, j) \/ HandleSetPool(i, j)
  PROVE  Led(h)'
<1>1. /\ UNCHANGED <<up, link, lost, joining, peers, role>> /\ chan' = Taken(i, j)
      /\ \E type \in {"Lease", "LeaseTable", "SetPool"} : Receives(i, j, type)
  BY DEF HandleLease, HandleLeaseTable, HandleSetPool, netVars, electVars
<1> QED BY <1>1, TakingLed

LEMMA EnvironmentLed ==
  ASSUME IInv, NEW h \in Nodes, Led(h),
         \/ Tick
         \/ \E i \in Nodes : Restart(i)
         \/ \E i, j \in Nodes : Break(i, j)
         \/ UNCHANGED vars
  PROVE  Led(h)'
<1>1. CASE Tick \/ UNCHANGED vars
  <2>1. UNCHANGED <<up, link, lost, joining, peers, role, chan>>
    BY <1>1 DEF Tick, vars, netVars, electVars
  <2> QED BY <2>1, OtherLed
<1>2. CASE \E i \in Nodes : Restart(i)
  <2>1. PICK i \in Nodes : Restart(i)
    BY <1>2
  <2>2. /\ i \notin up /\ up' = up \cup {i}
        /\ UNCHANGED <<link, lost, joining, peers, role, chan>>
    BY <2>1 DEF Restart, electVars
  <2>3. Ends' /\ peers[i] = {}
    BY <2>2 DEF Led, Ends
  <2>4. ASSUME NEW k \in Nodes \ {h}, Knows(k, h)' PROVE Knows(k, h)
    BY <2>2, <2>3, <2>4 DEF Knows
  <2>5. h \in up' /\ peers'[h] # {} => h \in up /\ peers[h] # {}
    BY <2>2, <2>3
  <2> QED BY <2>2, <2>3, <2>4, <2>5, LedKept
<1>3. CASE \E i, j \in Nodes : Break(i, j)
  <2>1. PICK i \in Nodes, j \in Nodes : Break(i, j)
    BY <1>3
  <2>2. /\ <<i, j>> \in link /\ link' = link \ {<<i, j>>, <<j, i>>}
        /\ lost' = lost \cup {<<i, j>>, <<j, i>>}
        /\ UNCHANGED <<up, joining, peers, role, chan>>
    BY <2>1 DEF Break, electVars
  <2>3. i # j
    BY <2>2 DEF Led, Ends
  <2>4. Ends'
    <3>1. \A a, b \in Nodes : <<a, b>> \in link' => <<b, a>> \in link'
      BY <2>2 DEF Led, Ends
    <3>2. \A k \in Nodes : <<k, k>> \notin link' /\ <<k, k>> \notin lost'
      BY <2>2, <2>3 DEF Led, Ends
    <3> QED BY <2>2, <3>1, <3>2 DEF Led, Ends
  <2>5. ASSUME NEW k \in Nodes \ {h}, Knows(k, h)' PROVE Knows(k, h)
    BY <2>2, <2>5 DEF Knows
  <2> QED BY <2>2, <2>4, <2>5, LedKept
<1> QED BY <1>1, <1>2, <1>3

LEMMA InitLed == ASSUME NEW h, Top(h), Init PROVE Led(h)
BY DEF Init, Led, Ends, Stands, Defers, Knows, Top

LEMMA AskedInPool ==
  ASSUME IInv, NEW i \in Nodes
  PROVE  Asked(i) \subseteq Addresses(ConfigPool)
<1>1. svc[i].pool \in Pools
  BY ServiceFacts DEF IInv, Arrays, Raw
<1> QED BY <1>1, PoolFacts DEF Asked

LEMMA NextLed ==
  ASSUME IInv, NEW h, Top(h), Led(h), [Next]_vars
  PROVE  Led(h)'
<1>1. h \in Nodes
  BY DEF Top
<1>2. ASSUME NEW i \in Nodes, NEW j \in Nodes, Message(i, j) PROVE Led(h)'
  BY <1>1, <1>2, HandleElectionLed, ElectionPanicsLed, HandleOkayLed, HandleCoordinatorLed,
     TellingLed DEF Message
<1>3. ASSUME NEW i \in Nodes, NEW j \in Nodes, Connection(i, j) PROVE Led(h)'
  BY <1>1, <1>3, HandshakeLed, HandshakePanicsLed, EstablishLed, RemovePeerLed DEF Connection
<1>4. ASSUME NEW i \in Nodes, Client(i) PROVE Led(h)'
  BY <1>1, <1>4, ClientLed, AskedInPool DEF Client
<1>5. CASE Fault
  BY <1>1, <1>5, ElectionPanicsLed, HandshakeFailsLed, EnvironmentLed DEF Fault
<1>6. CASE Tick \/ UNCHANGED vars
  BY <1>1, <1>6, EnvironmentLed
<1> QED BY <1>2, <1>3, <1>4, <1>5, <1>6, FinishElectionLed DEF Next

\* When all is settled, h leads whom it is connected with.
LEMMA LedElects ==
  ASSUME IInv, NEW h, Top(h), Led(h), Cardinality(Nodes) > 1, h \in up
  PROVE  ElectsHighest
<1> SUFFICES ASSUME Settled, Connected PROVE HighestLeads
  BY DEF ElectsHighest
<1>1. h \in Nodes /\ up \in SUBSET Nodes
  BY DEF Top, IInv, World
<1>2. \A i, j \in Nodes : chan[<<i, j>>] = <<>>
  BY DEF Settled, Quiet
<1>3. PICK i \in up : i # h
  <2>1. SUFFICES ASSUME up = {h} PROVE FALSE
    OBVIOUS
  <2>2. Cardinality(up) = 1
    BY <2>1, FS_Singleton
  <2>3. 2 * Cardinality(up) > Cardinality(Nodes) /\ Cardinality(Nodes) \in Nat
    BY CountNodes DEF Connected
  <2> QED BY <2>2, <2>3
<1>4. peers[h] # {}
  BY <1>3 DEF Connected
<1>5. role[h] = "Coordinator"
  <2>1. role[h] \in Roles /\ role[h] # "Follower"
    BY <1>1, <1>4 DEF IInv, Arrays, Led, Stands
  <2>2. role[h] # "WaitingForElection"
    BY <1>1 DEF IInv, WaitingHasTimer, Settled
  <2> QED BY <2>1, <2>2 DEF Roles
<1>6. ASSUME NEW k \in up, k # h PROVE role[k] = "Follower" /\ ~Highest(k)
  <2>1. Knows(k, h)
    BY <1>1, <1>6 DEF Knows, Connected
  <2>2. ~Carries(chan[<<k, h>>], {"Election"}) /\ ~Carries(chan[<<h, k>>], {"Coordinator"})
    BY <1>1, <1>2, CarriesNothing
  <2>3. role[k] = "Follower"
    BY <1>1, <1>5, <1>6, <2>1, <2>2 DEF Led, Defers
  <2>4. k <= h /\ k \in Nat /\ h \in Nat
    BY <1>1, NodesAssumption DEF Top
  <2> QED BY <1>6, <2>3, <2>4 DEF Highest
<1>7. Highest(h)
  BY <1>1 DEF Highest, Top
<1> QED BY <1>5, <1>6, <1>7 DEF HighestLeads

LEMMA Leading ==
  ASSUME NEW h, Top(h)
  PROVE  Spec => [](IInv /\ Led(h))
<1>1. Init => IInv /\ Led(h)
  BY InitIInv, InitLed
<1>2. IInv /\ Led(h) /\ [Next]_vars => (IInv /\ Led(h))'
  BY NextIInv, NextLed
<1> QED BY <1>1, <1>2, PTL DEF Spec

-----------------------------------------------------------------------------
(* The orders that are on their way.                                       *)

OrderTypes == {"Coordinator", "SetPool"}

\* The messages r give the same orders as q.
SameOrders(q, r) ==
  /\ \A types \in SUBSET OrderTypes : Carries(r, types) <=> Carries(q, types)
  /\ \A p : LastPool(q, p) => LastPool(r, p)
  /\ \A b : Says(q, b) => Says(r, b)

LEMMA SameSelf == ASSUME NEW q PROVE SameOrders(q, q)
BY DEF SameOrders

LEMMA SaysTaken ==
  ASSUME NEW X, NEW q \in Seq(X), q # <<>>, NEW b, Says(q, b)
  PROVE  /\ Says(Tail(q), b)
         /\ Head(q).type = "Coordinator" => Head(q).majority = b
<1> DEFINE r == Tail(q)
<1>1. /\ Len(q) \in Nat /\ Len(q) > 0 /\ Len(r) = Len(q) - 1
      /\ Head(q) = q[1] /\ \A n \in 1 .. Len(r) : r[n] = q[n + 1]
  BY Taking
<1> HIDE DEF r
<1>2. 1 \in 1 .. Len(q) /\ \A n \in 1 .. Len(r) : n + 1 \in 1 .. Len(q)
  BY <1>1
<1> QED BY <1>1, <1>2 DEF Says, r

\* The last SetPool stays the last one until it is taken.
LEMMA LastPoolTaken ==
  ASSUME NEW X, NEW q \in Seq(X), q # <<>>, NEW p, LastPool(q, p)
  PROVE  \/ LastPool(Tail(q), p)
         \/ /\ Head(q).type = "SetPool" /\ Head(q).pool = p
            /\ ~Carries(Tail(q), {"SetPool"})
<1> DEFINE r == Tail(q)
<1>1. /\ Len(q) \in Nat /\ Len(q) > 0 /\ Len(r) = Len(q) - 1
      /\ Head(q) = q[1] /\ \A n \in 1 .. Len(r) : r[n] = q[n + 1]
  BY Taking
<1> HIDE DEF r
<1>2. PICK n \in 1 .. Len(q) :
        /\ q[n].type = "SetPool" /\ q[n].pool = p
        /\ \A k \in n + 1 .. Len(q) : q[k].type # "SetPool"
  BY DEF LastPool
<1>3. CASE n = 1
  <2>1. ASSUME NEW k \in 1 .. Len(r) PROVE r[k].type # "SetPool"
    <3>1. k + 1 \in n + 1 .. Len(q) /\ r[k] = q[k + 1]
      BY <1>1, <1>3
    <3> QED BY <1>2, <3>1
  <2> QED BY <1>1, <1>2, <1>3, <2>1 DEF Carries, r
<1>4. CASE n # 1
  <2> DEFINE m == n - 1
  <2>1. m \in 1 .. Len(r) /\ r[m] = q[n]
    BY <1>1, <1>4
  <2>2. ASSUME NEW k \in m + 1 .. Len(r) PROVE r[k].type # "SetPool"
    <3>1. k \in 1 .. Len(r) /\ k + 1 \in n + 1 .. Len(q)
      BY <1>1
    <3>2. r[k] = q[k + 1]
      BY <1>1, <3>1
    <3> QED BY <1>2, <3>1, <3>2
  <2> HIDE DEF m
  <2> QED BY <1>2, <2>1, <2>2 DEF LastPool, r
<1> QED BY <1>3, <1>4

LEMMA TakingKeepsOrders ==
  ASSUME NEW X, NEW q \in Seq(X), q # <<>>, Head(q).type \notin OrderTypes
  PROVE  SameOrders(q, Tail(q))
<1>1. \A types \in SUBSET OrderTypes : Carries(Tail(q), types) <=> Carries(q, types)
  BY CarriesTaken
<1>2. \A p : LastPool(q, p) => LastPool(Tail(q), p)
  BY LastPoolTaken DEF OrderTypes
<1>3. \A b : Says(q, b) => Says(Tail(q), b)
  BY SaysTaken
<1> QED BY <1>1, <1>2, <1>3 DEF SameOrders

LEMMA AppendingKeepsOrders ==
  ASSUME NEW X, NEW q \in Seq(X), NEW m \in X, m.type \notin OrderTypes
  PROVE  SameOrders(q, q \o <<m>>)
<1> DEFINE r == q \o <<m>>
<1>1. /\ Len(q) \in Nat /\ Len(r) = Len(q) + 1
      /\ \A n \in 1 .. Len(q) : r[n] = q[n]
      /\ r[Len(q) + 1] = m
  BY Appended
<1>2. ASSUME NEW types \in SUBSET OrderTypes PROVE Carries(r, types) <=> Carries(q, types)
  <2>1. <<m>> \in Seq(X)
    OBVIOUS
  <2>2. ~Carries(<<m>>, types)
    BY CarriesOne
  <2> QED BY <2>1, <2>2, CarriesAppended
<1> HIDE DEF r
<1>3. \A n \in 1 .. Len(r) : n \in 1 .. Len(q) \/ r[n] = m
  BY <1>1
<1>4. ASSUME NEW p, LastPool(q, p) PROVE LastPool(r, p)
  <2>1. PICK n \in 1 .. Len(q) :
          /\ q[n].type = "SetPool" /\ q[n].pool = p
          /\ \A k \in n + 1 .. Len(q) : q[k].type # "SetPool"
    BY <1>4 DEF LastPool
  <2>2. ASSUME NEW k \in n + 1 .. Len(r) PROVE r[k].type # "SetPool"
    <3>1. CASE k \in n + 1 .. Len(q)
      BY <1>1, <2>1, <3>1
    <3>2. CASE k \notin n + 1 .. Len(q)
      <4>1. k = Len(q) + 1
        BY <1>1, <3>2
      <4> QED BY <1>1, <4>1 DEF OrderTypes
    <3> QED BY <3>1, <3>2
  <2>3. n \in 1 .. Len(r) /\ r[n] = q[n]
    BY <1>1
  <2> QED BY <2>1, <2>2, <2>3 DEF LastPool
<1>5. ASSUME NEW b, Says(q, b) PROVE Says(r, b)
  BY <1>1, <1>3, <1>5 DEF Says, OrderTypes
<1> QED BY <1>2, <1>4, <1>5 DEF SameOrders, r

\* What become_coordinator appends are the last orders.
LEMMA LastOrders ==
  ASSUME NEW X, NEW q \in Seq(X), NEW b, NEW p, Says(q, b),
         CoordinatorMsg(b) \in X, SetPoolMsg(p) \in X
  PROVE  LET r == q \o <<CoordinatorMsg(b), SetPoolMsg(p)>>
         IN  Says(r, b) /\ LastPool(r, p)
<1> DEFINE c == CoordinatorMsg(b)
           s == SetPoolMsg(p)
           r == q \o <<c, s>>
<1>1. c.type = "Coordinator" /\ c.majority = b /\ s.type = "SetPool" /\ s.pool = p
  BY DEF CoordinatorMsg, SetPoolMsg
<1> HIDE DEF c, s
<1>2. /\ Len(q) \in Nat /\ Len(r) = Len(q) + 2
      /\ \A n \in 1 .. Len(q) : r[n] = q[n]
      /\ r[Len(q) + 1] = c /\ r[Len(q) + 2] = s
  <2>1. Len(<<c, s>>) = 2 /\ <<c, s>>[1] = c /\ <<c, s>>[2] = s
    OBVIOUS
  <2>2. c \in X /\ s \in X
    BY DEF c, s
  <2>3. <<c, s>> \in Seq(X)
    BY <2>2
  <2>4. /\ Len(r) = Len(q) + Len(<<c, s>>)
        /\ \A n \in 1 .. Len(q) + Len(<<c, s>>) :
             r[n] = IF n <= Len(q) THEN q[n] ELSE <<c, s>>[n - Len(q)]
    BY <2>3, ConcatProperties
  <2>5. Len(q) \in Nat
    OBVIOUS
  <2> HIDE DEF r
  <2>6. r[Len(q) + 1] = <<c, s>>[1] /\ r[Len(q) + 2] = <<c, s>>[2]
    BY <2>1, <2>4, <2>5
  <2> QED BY <2>1, <2>4, <2>5, <2>6
<1> HIDE DEF r
<1>3. \A n \in 1 .. Len(r) : n \in 1 .. Len(q) \/ n = Len(q) + 1 \/ n = Len(q) + 2
  BY <1>2
<1>4. Says(r, b)
  BY <1>1, <1>2, <1>3 DEF Says
<1>5. LastPool(r, p)
  <2>1. Len(q) + 2 \in 1 .. Len(r) /\ \A k \in Len(q) + 2 + 1 .. Len(r) : FALSE
    BY <1>2
  <2> QED BY <1>1, <1>2, <2>1 DEF LastPool
<1> QED BY <1>4, <1>5 DEF r, c, s

-----------------------------------------------------------------------------
(* The outcome of an election.                                             *)

LEMMA CarriesWider ==
  ASSUME NEW q, NEW S, NEW T, S \subseteq T, Carries(q, S)
  PROVE  Carries(q, T)
BY DEF Carries

\* Nothing is concluded while someone starts an election, ...
LEMMA ElectionInconclusive ==
  ASSUME IInv, NEW h, Top(h), NEW i \in Nodes, NEW ps \in SUBSET Nodes, NEW ch, IsChan(ch),
         StartElection(i, ps, ch), peers' = [peers EXCEPT ![i] = ps], Concluded(h)'
  PROVE  FALSE
<1>1. h \in Nodes
  BY DEF Top
<1>2. CASE i = h
  <2>1. role'[i] = "WaitingForElection"
    BY DEF StartElection, IInv, Arrays
  <2> QED BY <1>2, <2>1 DEF Concluded
<1>3. CASE i # h
  <2>1. h \in ps
    <3>1. peers'[i] = ps /\ peers'[i] = Nodes \ {i}
      BY DEF IInv, Arrays, Concluded, Whole
    <3> QED BY <1>1, <1>3, <3>1
  <2>2. <<i, h>> \in link'
    BY <1>1, <1>3 DEF Concluded, Whole
  <2>3. h > i
    BY <1>1, <1>3, NodesAssumption DEF Top
  <2>4. Carries(chan'[<<i, h>>], {"Election"})
    BY <2>1, <2>2, <2>3, ElectionReaches
  <2>5. Carries(chan'[<<i, h>>], {"Election", "Coordinator"})
    BY <2>4, CarriesWider
  <2> QED BY <2>5 DEF Concluded
<1> QED BY <1>2, <1>3

\* ... or while someone else gives orders, ...
LEMMA OrdersInconclusive ==
  ASSUME IInv, NEW h, Top(h), NEW i \in Nodes \ {h}, NEW ps \in SUBSET Nodes, NEW ch, IsChan(ch),
         BecomeCoordinator(i, ps, ch), peers' = [peers EXCEPT ![i] = ps], Concluded(h)'
  PROVE  FALSE
<1>1. h \in Nodes
  BY DEF Top
<1>2. h \in ps
  <2>1. peers'[i] = ps /\ peers'[i] = Nodes \ {i}
    BY DEF IInv, Arrays, Concluded, Whole
  <2> QED BY <1>1, <2>1
<1>3. <<i, h>> \in link'
  BY <1>1 DEF Concluded, Whole
<1>4. Carries(chan'[<<i, h>>], {"Coordinator"})
  BY <1>2, <1>3, OrdersReach
<1>5. Carries(chan'[<<i, h>>], {"Election", "Coordinator"})
  BY <1>4, CarriesWider
<1> QED BY <1>5 DEF Concluded

\* ... or when a node has ended.
LEMMA HaltInconclusive ==
  ASSUME NEW h, NEW i \in Nodes, Halt(i), Concluded(h)'
  PROVE  FALSE
BY DEF Halt, Concluded, Whole

LEMMA StillConcluded ==
  ASSUME NEW h \in Nodes, Concluded(h)', UNCHANGED <<up, link, lost, joining, peers>>,
         role'[h] = role[h],
         \A i \in Nodes : Carries(chan[<<i, h>>], {"Election", "Coordinator"}) =>
                            Carries(chan'[<<i, h>>], {"Election", "Coordinator"})
  PROVE  Concluded(h)
BY DEF Concluded, Whole

\* A step that gives no orders and follows none.
LEMMA OutcomeKept ==
  ASSUME NEW h \in Nodes, Outcome(h), UNCHANGED <<coord, majority>>,
         \A i \in Nodes : svc'[i].pool = svc[i].pool,
         \A p \in Nodes \X Nodes : SameOrders(chan[p], chan'[p])
  PROVE  Outcome(h)'
<1>1. ASSUME NEW i \in Nodes, NEW j \in Nodes
      PROVE  /\ Carries(chan'[<<i, j>>], OrderTypes) <=> Carries(chan[<<i, j>>], OrderTypes)
             /\ Carries(chan'[<<i, j>>], {"Coordinator"}) <=>
                  Carries(chan[<<i, j>>], {"Coordinator"})
             /\ Carries(chan'[<<i, j>>], {"SetPool"}) <=> Carries(chan[<<i, j>>], {"SetPool"})
  <2>1. SameOrders(chan[<<i, j>>], chan'[<<i, j>>])
    OBVIOUS
  <2> QED BY <2>1 DEF SameOrders, OrderTypes
<1>2. OneVoice(h)'
  BY <1>1 DEF Outcome, OneVoice, OrderTypes
<1>3. ASSUME NEW i \in Nodes \ {h} PROVE Obeys(i, h)'
  <2>1. SameOrders(chan[<<h, i>>], chan'[<<h, i>>])
    OBVIOUS
  <2>2. Obeys(i, h)
    BY DEF Outcome
  <2>3. Says(chan[<<h, i>>], majority[h]) => Says(chan'[<<h, i>>], majority[h])
    BY <2>1 DEF SameOrders
  <2> QED BY <1>1, <2>2, <2>3 DEF Obeys
<1>4. ASSUME NEW i \in Nodes \ {h}, NEW p, Assigned(i, h, p) PROVE Assigned(i, h, p)'
  <2>1. SameOrders(chan[<<h, i>>], chan'[<<h, i>>])
    OBVIOUS
  <2>2. LastPool(chan[<<h, i>>], p) => LastPool(chan'[<<h, i>>], p)
    BY <2>1 DEF SameOrders
  <2>3. svc'[i].pool = svc[i].pool
    OBVIOUS
  <2> QED BY <1>1, <1>4, <2>2, <2>3 DEF Assigned
<1>5. Divided(h)'
  <2>1. PICK order \in Orders(Nodes \ {h}) :
          /\ svc[h].pool = Share(Nodes \ {h}, 1)
          /\ \A i \in Nodes \ {h} : Assigned(i, h, Share(Nodes \ {h}, order[i]))
    BY DEF Outcome, Divided
  <2>2. svc'[h].pool = Share(Nodes \ {h}, 1)
    BY <2>1
  <2>3. \A i \in Nodes \ {h} : Assigned(i, h, Share(Nodes \ {h}, order[i]))'
    BY <1>4, <2>1
  <2> QED BY <2>2, <2>3 DEF Divided
<1> QED BY <1>2, <1>3, <1>5 DEF Outcome

\* Once h gives orders to all, they are the last ones, whatever it said before, as
\* long as nobody else gives any.
LEMMA OrdersOutcome ==
  ASSUME IInv, NEW h \in Nodes, BecomeCoordinator(h, peers[h], chan), Concluded(h)',
         UNCHANGED peers, OneVoice(h),
         \A i \in Nodes \ {h} : Says(chan[<<h, i>>], HasMajority(peers[h]))
  PROVE  Outcome(h)'
<1> DEFINE ps == Nodes \ {h}
           b == HasMajority(ps)
           mail(order) == [j \in Nodes |-> IF j \in ps
             THEN <<CoordinatorMsg(b), SetPoolMsg(Share(ps, order[j]))>> ELSE <<>>]
<1>1. peers[h] = ps /\ ps \in SUBSET Nodes
  BY DEF Concluded, Whole
<1>2. PICK order \in Orders(ps) :
        /\ coord' = [coord EXCEPT ![h] = {h}]
        /\ majority' = [majority EXCEPT ![h] = b]
        /\ svc' = [svc EXCEPT ![h] = SetPool(@, Share(ps, 1))]
        /\ chan' = Post(chan, h, mail(order))
  BY <1>1 DEF BecomeCoordinator
<1>3. IsChan(chan) /\ IsMail(h, mail(order)) /\ svc[h] \in Raw /\ majority'[h] = b
  BY <1>1, <1>2, OrdersAreMail, ServiceFacts DEF IInv, Arrays
<1>4. svc'[h].pool = Share(ps, 1)
  <2>1. svc'[h] = SetPool(svc[h], Share(ps, 1))
    BY <1>2 DEF IInv, Arrays
  <2> HIDE DEF ps
  <2> QED BY <1>3, <2>1 DEF SetPool, Raw
<1>5. OneVoice(h)'
  <2>1. ASSUME NEW i \in Nodes, NEW j \in Nodes, i # h \/ j = h
        PROVE  ~Carries(chan'[<<i, j>>], {"Coordinator", "SetPool"})
    <3>1. i # h \/ j \notin peers[h]
      BY <1>1, <2>1
    <3>2. ~Carries(chan[<<i, j>>], {"Coordinator", "SetPool"})
      BY <2>1 DEF OneVoice
    <3> QED BY <1>1, <1>3, <3>1, <3>2, OrdersReachNoOther
  <2> QED BY <2>1 DEF OneVoice
<1>6. ASSUME NEW i \in ps
      PROVE  /\ Says(chan'[<<h, i>>], b)
             /\ LastPool(chan'[<<h, i>>], Share(ps, order[i]))
             /\ Carries(chan'[<<h, i>>], {"Coordinator"})
  <2> DEFINE q == chan[<<h, i>>]
             X == MessagesOn(<<h, i>>)
             c == CoordinatorMsg(b)
             s == SetPoolMsg(Share(ps, order[i]))
  <2>1. <<h, i>> \in link' /\ <<h, i>> \in Nodes \X Nodes
    BY DEF Concluded, Whole
  <2>2. chan'[<<h, i>>] = q \o <<c, s>>
    <3>1. mail(order)[i] = <<c, s>>
      OBVIOUS
    <3> HIDE DEF mail, c, s
    <3> QED BY <1>2, <2>1, <3>1 DEF Post
  <2>3. q \in Seq(X)
    BY <2>1 DEF IsChan, IInv
  <2>4. c \in X /\ s \in X
    <3>1. b \in BOOLEAN
      BY DEF HasMajority
    <3>2. order[i] \in 1 .. Cardinality(ps) + 1
      BY CountNodes DEF Orders
    <3>3. Share(ps, order[i]) \in Pools
      BY <3>2, ShareIsPool
    <3> HIDE DEF b, ps
    <3>4. /\ c \in Messages /\ c.type \notin {"Election", "Okay"}
          /\ s \in Messages /\ s.type \notin {"Election", "Okay"}
      BY <3>1, <3>3, MessageTypes
    <3> HIDE DEF c, s
    <3> QED BY <3>4, AnyoneMayGet
  <2>5. Says(q, b)
    BY <1>1
  <2>6. Says(chan'[<<h, i>>], b) /\ LastPool(chan'[<<h, i>>], Share(ps, order[i]))
    <3> HIDE DEF X, b, ps, q
    <3> QED BY <2>2, <2>3, <2>4, <2>5, LastOrders
  <2>7. Carries(chan'[<<h, i>>], {"Coordinator"})
    BY <1>1, <1>3, <2>1, OrdersReach
  <2> QED BY <2>6, <2>7
<1> HIDE DEF b, ps, mail
<1>7. \A i \in Nodes \ {h} : Obeys(i, h)'
  BY <1>3, <1>6 DEF Obeys, ps
<1>8. Divided(h)'
  <2>1. \A i \in ps : Assigned(i, h, Share(ps, order[i]))'
    BY <1>6 DEF Assigned
  <2> QED BY <1>4, <2>1 DEF Divided, ps
<1> QED BY <1>5, <1>7, <1>8 DEF Outcome

-----------------------------------------------------------------------------
(* The steps.                                                              *)

LEMMA SetLeasesPool ==
  ASSUME NEW s \in Raw, NEW ls
  PROVE  [s EXCEPT !.leases = ls].pool = s.pool
BY DEF Raw

LEMMA AddLeasePool ==
  ASSUME NEW s \in Raw, NEW l, NEW t \in AddLease(s, l)
  PROVE  t.pool = s.pool
<1>1. CASE t = [s EXCEPT !.leases = @ \cup {l}]
  BY <1>1, SetLeasesPool
<1>2. CASE \E k \in Matching(s.leases, l.mac, l.addr) :
             t = [s EXCEPT !.leases = (@ \ {k}) \cup {l}]
  BY <1>2, SetLeasesPool
<1> QED BY <1>1, <1>2 DEF AddLease

LEMMA DiscoverPool ==
  ASSUME NEW s \in Services, NEW mac, NEW t \in Nat, NEW o \in DiscoverLease(s, mac, t)
  PROVE  o.svc.pool = s.pool
<1> DEFINE q == Prune(s, t)
           u == [s EXCEPT !.leases = Unexpired(s.leases, t)]
<1>1. q \in Raw /\ q.pool = s.pool
  <2>1. s \in Raw /\ q \in Raw
    BY PruneType, ServiceFacts
  <2>2. u = [pool |-> s.pool, leases |-> Unexpired(s.leases, t),
             pending |-> s.pending, next |-> s.next]
    BY <2>1 DEF Raw
  <2>3. q = [u EXCEPT !.pending = Unexpired(s.pending, t)]
    BY DEF Prune
  <2> HIDE DEF u, q
  <2>4. q.pool = s.pool
    BY <2>2, <2>3
  <2> QED BY <2>1, <2>4
<1>2. CASE \E l \in s.leases : o = [svc |-> s, offer |-> {l}]
  BY <1>2
<1>3. CASE o = [svc |-> q, offer |-> {}]
  BY <1>1, <1>3
<1>4. CASE \E a \in FreeAddresses(q) : o = OfferOf(q, mac, a, t)
  <2>1. PICK a \in FreeAddresses(q) : o = OfferOf(q, mac, a, t)
    BY <1>4
  <2> HIDE DEF q
  <2> DEFINE r == [q EXCEPT !.next = a + 1]
             l == Lease(mac, a, FreshTimestamp(t))
  <2>2. r = [pool |-> q.pool, leases |-> q.leases, pending |-> q.pending, next |-> a + 1]
    BY <1>1 DEF Raw
  <2>3. o.svc = [r EXCEPT !.pending = @ \cup {l}]
    BY <2>1 DEF OfferOf
  <2> HIDE DEF r, l
  <2>4. o.svc.pool = q.pool
    BY <2>2, <2>3
  <2> QED BY <1>1, <2>4
<1> QED BY <1>2, <1>3, <1>4 DEF DiscoverLease

LEMMA CommitPool ==
  ASSUME NEW s \in Services, NEW mac, NEW addr, NEW t, NEW o \in CommitLease(s, mac, addr, t)
  PROVE  o.svc.pool = s.pool
<1> DEFINE new == Lease(mac, addr, FreshTimestamp(t))
           committed(l) == [s EXCEPT !.pending = @ \ {l}, !.leases = @ \cup {new}]
           renewed(l) == [s EXCEPT !.leases = (@ \ {l}) \cup {new}]
<1>1. s \in Raw
  BY ServiceFacts
<1>2. o \in {[svc |-> committed(l), acked |-> {new}] : l \in Matching(s.pending, mac, addr)}
            \cup {[svc |-> renewed(l), acked |-> {new}] : l \in Matching(s.leases, mac, addr)}
            \cup {[svc |-> s, acked |-> {}]}
  BY Zenon DEF CommitLease
<1> HIDE DEF new
<1>3. \A l : committed(l).pool = s.pool /\ renewed(l).pool = s.pool
  BY <1>1 DEF Raw
<1> HIDE DEF committed, renewed
<1> QED BY <1>2, <1>3

\* A connection is being made, or has failed.
LEMMA ConnectingInconclusive ==
  ASSUME IInv, NEW h, Top(h), Led(h), NEW i \in Nodes, NEW j \in Nodes, Concluded(h)',
         \/ Handshake(i, j)
         \/ HandshakePanics(i, j)
         \/ Establish(i, j)
         \/ RemovePeer(i, j)
         \/ Break(i, j)
         \/ HandleElection(i, j)
         \/ ElectionPanics(i, j)
         \/ Crash(i)
  PROVE  FALSE
<1>1. CASE Handshake(i, j)
  <2>1. JoinSucceeds(i, j) \/ JoinFails(i, j)
    BY <1>1 DEF Handshake
  <2>2. j \in joining'[i] \/ <<i, j>> \in lost'
    BY <2>1 DEF JoinSucceeds, JoinFails, IInv, World
  <2> QED BY <2>2 DEF Concluded, Whole
<1>2. CASE Break(i, j)
  <2>1. <<i, j>> \in lost'
    BY <1>2 DEF Break
  <2> QED BY <2>1 DEF Concluded, Whole
<1>3. CASE Establish(i, j)
  <2> DEFINE ps == peers[i] \cup {j}
             table == Post(chan, i, To(j, LeaseTableMsg(svc[i].leases)))
  <2>1. ps \in SUBSET Nodes /\ IsChan(table)
    BY TablePosted DEF IInv, Arrays
  <2>2. StartElection(i, ps, table) /\ peers' = [peers EXCEPT ![i] = ps]
    BY <1>3 DEF Establish
  <2> HIDE DEF ps, table
  <2> QED BY <2>1, <2>2, ElectionInconclusive
<1>4. CASE RemovePeer(i, j)
  <2>1. /\ j \notin peers'[i]
        /\ <<j, i>> \in lost
    BY <1>4 DEF RemovePeer, IInv, Arrays
  <2>2. j # i
    BY <2>1 DEF Led, Ends
  <2> QED BY <2>1, <2>2 DEF Concluded, Whole
<1>5. CASE HandleElection(i, j)
  <2> DEFINE answered == Post(Taken(i, j), i, To(j, Okay))
  <2>1. j < i /\ IsChan(Taken(i, j))
    BY <1>5, TakenIsChan DEF IInv, HandleElection
  <2>2. Okay \in MessagesOn(<<i, j>>)
    BY <2>1, MessageTypes, NodesAssumption DEF MessagesOn
  <2>3. IsChan(answered)
    BY <2>1, <2>2, ToIsMail, PostIsChan
  <2>4. StartElection(i, peers[i], answered) /\ peers' = [peers EXCEPT ![i] = peers[i]]
        /\ peers[i] \in SUBSET Nodes
    BY <1>5 DEF HandleElection, IInv, Arrays
  <2> HIDE DEF answered
  <2> QED BY <2>3, <2>4, ElectionInconclusive
<1>6. CASE Halt(i) \/ Halt(j)
  BY <1>6, HaltInconclusive
<1> QED BY <1>1, <1>2, <1>3, <1>4, <1>5, <1>6 DEF HandshakePanics, ElectionPanics, Crash

\* What h said is what it counts.
LEMMA MajorityCounted ==
  ASSUME IInv, NEW h \in Nodes, role[h] = "Coordinator"
  PROVE  majority[h] = HasMajority(peers[h])
<1>1. majority[h] = (2 * (Cardinality(peers[h]) + 1) > Cardinality(Nodes))
  BY DEF IInv, CoordinatorKnowsItself
<1>2. HasMajority(peers[h]) <=> 2 * (Cardinality(peers[h]) + 1) > Cardinality(Nodes)
  BY MajorityIsMoreThanHalf DEF IInv, Arrays
<1>3. HasMajority(peers[h]) \in BOOLEAN
  BY DEF HasMajority
<1> QED BY <1>1, <1>2, <1>3

LEMMA HandshakeFailsOutcome ==
  ASSUME IInv, NEW h, Top(h), Concluded(h) => Outcome(h),
         NEW i \in Nodes, NEW j \in Nodes, HandshakeFails(i, j), Concluded(h)'
  PROVE  Outcome(h)'
<1>1. /\ h \in Nodes /\ peers[j] \in SUBSET Nodes /\ IsChan(chan)
      /\ UNCHANGED <<up, link, lost, joining, peers>>
      /\ peers' = [peers EXCEPT ![j] = peers[j]]
      /\ BecomeCoordinator(j, peers[j], chan) /\ role[j] = "Coordinator"
  BY DEF HandshakeFails, netVars, IInv, Arrays, Top
<1>2. j = h
  BY <1>1, OrdersInconclusive
<1>3. role'[h] = role[h]
  BY <1>1, <1>2 DEF Concluded
<1>4. Concluded(h)
  BY <1>1, <1>3, OrdersCarried, StillConcluded
<1>5. \A k \in Nodes \ {h} : Says(chan[<<h, k>>], HasMajority(peers[h]))
  BY <1>1, <1>2, <1>4, MajorityCounted DEF Outcome, Obeys
<1>6. OneVoice(h)
  BY <1>4 DEF Outcome
<1> QED BY <1>1, <1>2, <1>5, <1>6, OrdersOutcome

LEMMA FinishElectionOutcome ==
  ASSUME IInv, NEW h, Top(h), Concluded(h) /\ timely => Outcome(h),
         NEW i \in Nodes, FinishElection(i), Concluded(h)', timely'
  PROVE  Outcome(h)'
<1>1. /\ h \in Nodes /\ peers[i] \in SUBSET Nodes /\ IsChan(chan) /\ timely /\ Quiet
      /\ UNCHANGED <<up, link, lost, joining, peers>>
      /\ peers' = [peers EXCEPT ![i] = peers[i]]
  BY DEF FinishElection, netVars, IInv, Arrays, Top
<1>2. CASE role[i] = "WaitingForElection" /\ BecomeCoordinator(i, peers[i], chan)
  <2>1. i = h
    BY <1>1, <1>2, OrdersInconclusive
  <2>2. \A p \in Nodes \X Nodes : chan[p] = <<>>
    BY <1>1 DEF Quiet
  <2>3. OneVoice(h)
    BY <2>2, CarriesNothing DEF OneVoice
  <2>4. \A k \in Nodes \ {h} : Says(chan[<<h, k>>], HasMajority(peers[h]))
    BY <1>1, <2>2 DEF Says
  <2> QED BY <1>1, <1>2, <2>1, <2>3, <2>4, OrdersOutcome
<1>3. CASE UNCHANGED <<role, coord, majority, svc, chan>>
  <2>1. Concluded(h)
    BY <1>1, <1>3, StillConcluded
  <2>2. Outcome(h)
    BY <1>1, <2>1
  <2> QED BY <1>1, <1>3, <2>2, SameSelf, OutcomeKept
<1> QED BY <1>2, <1>3 DEF FinishElection

\* Taking a message that says nothing of who leads.
LEMMA TakingOutcome ==
  ASSUME IInv, NEW h \in Nodes, Concluded(h) => Outcome(h), Concluded(h)',
         NEW i \in Nodes, NEW j \in Nodes, NEW type, Receives(i, j, type),
         type \notin {"Election", "Coordinator", "SetPool"}, chan' = Taken(i, j),
         UNCHANGED <<up, link, lost, joining, peers, coord, majority>>, role'[h] = role[h],
         \A k \in Nodes : svc'[k].pool = svc[k].pool
  PROVE  Outcome(h)'
<1>1. \A k \in Nodes : Carries(chan[<<k, h>>], {"Election", "Coordinator"}) =>
                         Carries(chan'[<<k, h>>], {"Election", "Coordinator"})
  BY TakenCarries DEF IInv
<1>2. Outcome(h)
  BY <1>1, StillConcluded
<1>3. ASSUME NEW p \in Nodes \X Nodes PROVE SameOrders(chan[p], chan'[p])
  <2>1. CASE p = <<j, i>>
    <3>1. /\ chan[p] \in Seq(MessagesOn(p)) /\ chan[p] # <<>>
          /\ Head(chan[p]).type \notin OrderTypes
      BY <2>1 DEF IInv, IsChan, Receives, OrderTypes
    <3>2. chan'[p] = Tail(chan[p])
      BY <2>1 DEF Taken, IInv, IsChan
    <3> QED BY <3>1, <3>2, TakingKeepsOrders
  <2>2. CASE p # <<j, i>>
    <3>1. chan'[p] = chan[p]
      BY <2>2 DEF Taken, IInv, IsChan
    <3> QED BY <3>1, SameSelf
  <2> QED BY <2>1, <2>2
<1> QED BY <1>2, <1>3, OutcomeKept

LEMMA HandleOkayOutcome ==
  ASSUME IInv, NEW h, Top(h), Concluded(h) => Outcome(h), Concluded(h)',
         NEW i \in Nodes, NEW j \in Nodes, HandleOkay(i, j)
  PROVE  Outcome(h)'
<1>1. /\ Receives(i, j, "Okay") /\ chan' = Taken(i, j)
      /\ UNCHANGED <<up, link, lost, joining, peers, coord, majority, svc>>
  BY DEF HandleOkay, netVars
<1>2. h \in Nodes /\ i # h
  <2>1. j > i
    BY <1>1, TakenIsChan DEF IInv, MessagesOn
  <2>2. j \in Nat /\ i \in Nat /\ h \in Nat /\ j <= h /\ h \in Nodes
    BY NodesAssumption DEF Top
  <2> QED BY <2>1, <2>2
<1>3. role'[h] = role[h]
  BY <1>2 DEF HandleOkay, IInv, Arrays
<1>4. \A k \in Nodes : svc'[k].pool = svc[k].pool
  BY <1>1
<1> QED BY <1>1, <1>2, <1>3, <1>4, TakingOutcome

LEMMA TellingOutcome ==
  ASSUME IInv, NEW h \in Nodes, Concluded(h) => Outcome(h), Concluded(h)',
         NEW i \in Nodes, NEW j \in Nodes, HandleLease(i, j) \/ HandleLeaseTable(i, j)
  PROVE  Outcome(h)'
<1>1. /\ UNCHANGED <<up, link, lost, joining, peers, role, coord, majority>>
      /\ chan' = Taken(i, j)
      /\ \E type \in {"Lease", "LeaseTable"} : Receives(i, j, type)
  BY DEF HandleLease, HandleLeaseTable, netVars, electVars
<1>2. svc = [k \in Nodes |-> svc[k]] /\ svc[i] \in Raw
  BY ServiceFacts DEF IInv, Arrays
<1>3. \A k \in Nodes : svc'[k].pool = svc[k].pool
  <2>1. CASE HandleLease(i, j)
    <3>1. PICK s \in AddLease(svc[i], Head(chan[<<j, i>>]).lease) : svc' = [svc EXCEPT ![i] = s]
      BY <2>1 DEF HandleLease
    <3>2. s.pool = svc[i].pool
      BY <1>2, AddLeasePool
    <3> QED BY <1>2, <3>1, <3>2
  <2>2. CASE HandleLeaseTable(i, j)
    <3> DEFINE table == Head(chan[<<j, i>>]).leases
               mine == svc[i].leases
               ls == IF Cardinality(mine) < Cardinality(table) THEN table ELSE mine
    <3>1. svc' = [svc EXCEPT ![i] = [svc[i] EXCEPT !.leases = ls]]
      BY <2>2 DEF HandleLeaseTable
    <3> HIDE DEF ls
    <3>2. [svc[i] EXCEPT !.leases = ls].pool = svc[i].pool
      BY <1>2, SetLeasesPool
    <3> QED BY <1>2, <3>1, <3>2
  <2> QED BY <2>1, <2>2
<1> QED BY <1>1, <1>3, TakingOutcome

\* A node that follows an order of h follows the only voice there is.
LEMMA HandleCoordinatorOutcome ==
  ASSUME IInv, NEW h, Top(h), Concluded(h) => Outcome(h), Concluded(h)',
         NEW i \in Nodes, NEW j \in Nodes, HandleCoordinator(i, j)
  PROVE  Outcome(h)'
<1> DEFINE taken == Taken(i, j)
<1>1. /\ IsChan(chan) /\ IsChan(taken) /\ Receives(i, j, "Coordinator") /\ h \in Nodes
      /\ peers[i] \in SUBSET Nodes /\ peers' = [peers EXCEPT ![i] = peers[i]]
      /\ UNCHANGED <<up, link, lost, joining, peers, svc>>
      /\ coord' = [coord EXCEPT ![i] = {j}]
      /\ majority' = [majority EXCEPT ![i] = Head(chan[<<j, i>>]).majority]
  BY TakenIsChan DEF IInv, HandleCoordinator, netVars, Arrays, Top
<1>2. CASE j < i /\ StartElection(i, peers[i], taken)
  <2> HIDE DEF taken
  <2> QED BY <1>1, <1>2, ElectionInconclusive
<1>3. CASE j > i /\ role' = [role EXCEPT ![i] = "Follower"] /\ chan' = taken
  <2>1. i # h
    <3>1. j \in Nat /\ i \in Nat /\ h \in Nat /\ j <= h
      BY NodesAssumption DEF Top
    <3> QED BY <1>3, <3>1
  <2>2. role'[h] = role[h]
    BY <1>1, <1>3, <2>1 DEF IInv, Arrays
  <2>3. ASSUME NEW p \in Nodes \X Nodes, NEW types, Carries(chan'[p], types)
        PROVE  Carries(chan[p], types)
    BY <1>1, <1>3, <2>3, TakenCarries
  <2>4. ASSUME NEW p \in Nodes \X Nodes, p # <<j, i>> PROVE chan'[p] = chan[p]
    BY <1>1, <1>3, <2>4 DEF Taken, IsChan
  <2>5. Outcome(h)
    <3>1. \A k \in Nodes : chan'[<<k, h>>] = chan[<<k, h>>]
      BY <1>1, <2>1, <2>4
    <3> QED BY <1>1, <2>2, <3>1, StillConcluded
  <2>6. j = h
    <3>1. Carries(chan[<<j, i>>], {"Coordinator", "SetPool"})
      BY <1>1, TakenCarries
    <3> QED BY <2>5, <3>1 DEF Outcome, OneVoice
  <2> DEFINE q == chan[<<h, i>>]
  <2>7. /\ q \in Seq(MessagesOn(<<h, i>>)) /\ q # <<>> /\ Head(q).type = "Coordinator"
        /\ chan'[<<h, i>>] = Tail(q)
    BY <1>1, <1>3, <2>6 DEF IsChan, Receives, Taken
  <2>8. OneVoice(h)'
    BY <1>1, <2>3, <2>5 DEF Outcome, OneVoice
  <2>9. majority'[h] = majority[h]
    BY <1>1, <2>1 DEF IInv, Arrays
  <2>10. ASSUME NEW k \in Nodes \ {h} PROVE Obeys(k, h)'
    <3>1. Obeys(k, h)
      BY <2>5 DEF Outcome
    <3>2. CASE k = i
      <4>1. Says(q, majority[h])
        BY <3>1, <3>2 DEF Obeys
      <4> HIDE DEF q
      <4>2. Says(Tail(q), majority[h]) /\ Head(q).majority = majority[h]
        BY <2>7, <4>1, SaysTaken
      <4>3. coord'[i] = {h} /\ majority'[i] = majority[h]
        BY <1>1, <2>6, <4>2 DEF IInv, Arrays, q
      <4> QED BY <2>7, <2>9, <3>2, <4>2, <4>3 DEF Obeys
    <3>3. CASE k # i
      <4>1. chan'[<<h, k>>] = chan[<<h, k>>]
        BY <1>1, <2>4, <3>3
      <4>2. coord'[k] = coord[k] /\ majority'[k] = majority[k]
        BY <1>1, <3>3 DEF IInv, Arrays
      <4> QED BY <2>9, <3>1, <4>1, <4>2 DEF Obeys
    <3> QED BY <3>2, <3>3
  <2>11. ASSUME NEW k \in Nodes \ {h}, NEW p, Assigned(k, h, p) PROVE Assigned(k, h, p)'
    <3>1. CASE k = i
      <4> HIDE DEF q
      <4>1. LastPool(q, p) => LastPool(Tail(q), p)
        BY <2>7, LastPoolTaken
      <4>2. Carries(Tail(q), {"SetPool"}) => Carries(q, {"SetPool"})
        BY <2>7, CarriesTaken
      <4> QED BY <1>1, <2>7, <2>11, <3>1, <4>1, <4>2 DEF Assigned, q
    <3>2. CASE k # i
      <4>1. chan'[<<h, k>>] = chan[<<h, k>>]
        BY <1>1, <2>4, <3>2
      <4> QED BY <1>1, <2>11, <4>1 DEF Assigned
    <3> QED BY <3>1, <3>2
  <2>12. Divided(h)'
    BY <1>1, <2>5, <2>11 DEF Outcome, Divided
  <2> QED BY <2>8, <2>10, <2>12 DEF Outcome
<1> QED BY <1>2, <1>3 DEF HandleCoordinator

LEMMA HandleSetPoolOutcome ==
  ASSUME IInv, NEW h \in Nodes, Concluded(h) => Outcome(h), Concluded(h)',
         NEW i \in Nodes, NEW j \in Nodes, HandleSetPool(i, j)
  PROVE  Outcome(h)'
<1> DEFINE pool == Head(chan[<<j, i>>]).pool
<1>1. /\ IsChan(chan) /\ Receives(i, j, "SetPool") /\ chan' = Taken(i, j)
      /\ UNCHANGED <<up, link, lost, joining, peers, role, coord, majority>>
      /\ svc' = [svc EXCEPT ![i] = SetPool(@, pool)]
  BY DEF HandleSetPool, netVars, electVars, IInv
<1>2. ASSUME NEW p \in Nodes \X Nodes, NEW types, Carries(chan'[p], types)
      PROVE  Carries(chan[p], types)
  BY <1>1, <1>2, TakenCarries
<1>3. ASSUME NEW p \in Nodes \X Nodes, p # <<j, i>> PROVE chan'[p] = chan[p]
  BY <1>1, <1>3 DEF Taken, IsChan
<1>4. Outcome(h)
  <2>1. \A k \in Nodes : Carries(chan[<<k, h>>], {"Election", "Coordinator"}) =>
                           Carries(chan'[<<k, h>>], {"Election", "Coordinator"})
    BY <1>1, TakenCarries
  <2> QED BY <1>1, <2>1, StillConcluded
<1>5. j = h /\ i # h
  <2>1. Carries(chan[<<j, i>>], {"Coordinator", "SetPool"})
    BY <1>1, TakenCarries
  <2> QED BY <1>4, <2>1 DEF Outcome, OneVoice
<1> DEFINE q == chan[<<h, i>>]
<1>6. /\ q \in Seq(MessagesOn(<<h, i>>)) /\ q # <<>> /\ Head(q).type = "SetPool"
      /\ chan'[<<h, i>>] = Tail(q)
  BY <1>1, <1>5 DEF IsChan, Receives, Taken
<1>7. svc'[i].pool = Head(q).pool /\ \A k \in Nodes \ {i} : svc'[k] = svc[k]
  <2>1. svc'[i] = SetPool(svc[i], pool) /\ svc[i] \in Raw /\ pool = Head(q).pool
    BY <1>1, <1>5, ServiceFacts DEF IInv, Arrays
  <2>2. \A k \in Nodes \ {i} : svc'[k] = svc[k]
    BY <1>1 DEF IInv, Arrays
  <2> HIDE DEF q, pool
  <2> QED BY <2>1, <2>2 DEF SetPool, Raw
<1> HIDE DEF pool
<1>8. OneVoice(h)'
  BY <1>2, <1>4 DEF Outcome, OneVoice
<1>9. ASSUME NEW k \in Nodes \ {h} PROVE Obeys(k, h)'
  <2>1. Obeys(k, h)
    BY <1>4 DEF Outcome
  <2>2. CASE k = i
    <3> HIDE DEF q
    <3>1. Says(q, majority[h]) => Says(Tail(q), majority[h])
      BY <1>6, SaysTaken
    <3>2. Carries(q, {"Coordinator"}) => Carries(Tail(q), {"Coordinator"})
      BY <1>6, CarriesTaken
    <3> QED BY <1>1, <1>6, <2>1, <2>2, <3>1, <3>2 DEF Obeys, q
  <2>3. CASE k # i
    <3>1. chan'[<<h, k>>] = chan[<<h, k>>]
      BY <1>3, <2>3
    <3> QED BY <1>1, <2>1, <3>1 DEF Obeys
  <2> QED BY <2>2, <2>3
<1>10. ASSUME NEW k \in Nodes \ {h}, NEW p, Assigned(k, h, p) PROVE Assigned(k, h, p)'
  <2>1. CASE k = i
    <3> HIDE DEF q
    <3>1. LastPool(q, p) =>
            \/ LastPool(Tail(q), p)
            \/ Head(q).pool = p /\ ~Carries(Tail(q), {"SetPool"})
      BY <1>6, LastPoolTaken
    <3>2. Carries(q, {"SetPool"})
      BY <1>6, CarriesTaken
    <3>3. LastPool(q, p)
      BY <1>10, <2>1, <3>2 DEF Assigned, q
    <3> QED BY <1>6, <1>7, <2>1, <3>1, <3>3 DEF Assigned
  <2>2. CASE k # i
    <3>1. chan'[<<h, k>>] = chan[<<h, k>>] /\ svc'[k] = svc[k]
      BY <1>3, <1>7, <2>2
    <3> QED BY <1>10, <3>1 DEF Assigned
  <2> QED BY <2>1, <2>2
<1>11. Divided(h)'
  <2>1. svc'[h] = svc[h]
    BY <1>5, <1>7
  <2> QED BY <1>4, <1>10, <2>1 DEF Outcome, Divided
<1> QED BY <1>8, <1>9, <1>11 DEF Outcome

LEMMA ClientOutcome ==
  ASSUME IInv, NEW h \in Nodes, Concluded(h) => Outcome(h), Concluded(h)',
         NEW i \in Nodes, NEW mac \in Macs,
         \/ LeaseRequest(i, mac)
         \/ \E addr \in Addresses(ConfigPool) : ConfirmRequest(i, mac, addr)
  PROVE  Outcome(h)'
<1>1. svc = [k \in Nodes |-> svc[k]] /\ svc[i] \in Services /\ now \in Nat /\ IsChan(chan)
  BY DEF IInv, Arrays, World
<1>2. CASE LeaseRequest(i, mac)
  <2>1. /\ UNCHANGED <<up, link, lost, joining, peers, role, coord, majority, chan>>
        /\ \E o \in DiscoverLease(svc[i], mac, now) : svc' = [svc EXCEPT ![i] = o.svc]
    BY <1>2 DEF LeaseRequest, netVars, electVars
  <2>2. Outcome(h)
    BY <2>1, StillConcluded
  <2>3. \A k \in Nodes : svc'[k].pool = svc[k].pool
    BY <1>1, <2>1, DiscoverPool
  <2> QED BY <2>1, <2>2, <2>3, SameSelf, OutcomeKept
<1>3. CASE \E addr \in Addresses(ConfigPool) : ConfirmRequest(i, mac, addr)
  <2>1. PICK addr \in Addresses(ConfigPool) : ConfirmRequest(i, mac, addr)
    BY <1>3
  <2>2. UNCHANGED <<up, link, lost, joining, peers, role, coord, majority>>
    BY <2>1 DEF ConfirmRequest, netVars, electVars
  <2>3. PICK l \in Leases :
          /\ IsMail(i, ToAll(peers[i], LeaseMsg(l)))
          /\ chan' = Post(chan, i, ToAll(peers[i], LeaseMsg(l)))
          /\ \E o \in CommitLease(svc[i], mac, addr, now) : svc' = [svc EXCEPT ![i] = o.svc]
    BY <2>1, LeaseMail
  <2> DEFINE mail == ToAll(peers[i], LeaseMsg(l))
  <2>4. ASSUME NEW p \in Nodes \X Nodes PROVE SameOrders(chan[p], chan'[p])
    <3> DEFINE m == LeaseMsg(l)
    <3>1. m \in Messages /\ m.type = "Lease"
      BY MessageTypes
    <3>2. mail[p[2]] = IF p[2] \in peers[i] THEN <<m>> ELSE <<>>
      BY DEF ToAll
    <3> HIDE DEF m, mail
    <3>3. chan[p] \in Seq(MessagesOn(p)) /\ m \in MessagesOn(p) /\ m.type \notin OrderTypes
      BY <1>1, <3>1, AnyoneMayGet DEF IsChan, OrderTypes
    <3>4. \/ chan'[p] = chan[p] \o <<m>>
          \/ chan'[p] = chan[p] \o <<>>
          \/ chan'[p] = chan[p]
      BY <2>3, <3>2 DEF Post, mail
    <3>5. chan[p] \o <<>> = chan[p]
      BY <3>3
    <3> QED BY <3>3, <3>4, <3>5, AppendingKeepsOrders, SameSelf
  <2>5. Outcome(h)
    <3>1. \A k \in Nodes : Carries(chan[<<k, h>>], {"Election", "Coordinator"}) =>
                             Carries(chan'[<<k, h>>], {"Election", "Coordinator"})
      BY <1>1, <2>3, CarriesMore
    <3> QED BY <2>2, <3>1, StillConcluded
  <2>6. \A k \in Nodes : svc'[k].pool = svc[k].pool
    BY <1>1, <2>3, CommitPool
  <2> QED BY <2>2, <2>4, <2>5, <2>6, OutcomeKept
<1> QED BY <1>2, <1>3

LEMMA RestartInconclusive ==
  ASSUME IInv, NEW h \in Nodes, Led(h), Cardinality(Nodes) > 1, Concluded(h)',
         NEW i \in Nodes, Restart(i)
  PROVE  FALSE
<1>1. i \notin up /\ peers' = peers
  BY DEF Restart
<1>2. peers[i] = {} /\ peers'[i] = Nodes \ {i}
  BY <1>1 DEF Led, Ends, Concluded, Whole
<1>3. Nodes = {i}
  BY <1>1, <1>2
<1> QED BY <1>3, FS_Singleton

LEMMA QuietOutcome ==
  ASSUME NEW h \in Nodes, Concluded(h) => Outcome(h), Concluded(h)', Tick \/ UNCHANGED vars
  PROVE  Outcome(h)'
<1>1. UNCHANGED <<up, link, lost, joining, peers, role, coord, majority, svc, chan>>
  BY DEF Tick, vars, netVars, electVars
<1>2. Outcome(h)
  BY <1>1, StillConcluded
<1> QED BY <1>1, <1>2, SameSelf, OutcomeKept

LEMMA TimelyBefore ==
  ASSUME IInv, Next \/ UNCHANGED vars, timely'
  PROVE  timely
<1>1. ASSUME NEW i \in Nodes, NEW j \in Nodes, Message(i, j) \/ Connection(i, j) PROVE timely
  BY <1>1 DEF Message, Connection, HandleElection, ElectionPanics, HandleOkay, HandleCoordinator,
     HandleLease, HandleLeaseTable, HandleSetPool, Handshake, HandshakePanics, Establish,
     RemovePeer, Halt
<1>2. ASSUME NEW i \in Nodes, FinishElection(i) \/ Client(i) PROVE timely
  BY <1>2 DEF FinishElection, Client, LeaseRequest, ConfirmRequest
<1>3. ASSUME Tick \/ Fault \/ UNCHANGED vars PROVE timely
  BY <1>3 DEF Tick, Fault, Crash, Halt, Restart, Break, HandshakeFails, vars
<1> QED BY <1>1, <1>2, <1>3 DEF Next

LEMMA NextOutcome ==
  ASSUME IInv, NEW h, Top(h), Led(h), Cardinality(Nodes) > 1, [Next]_vars,
         Concluded(h) /\ timely => Outcome(h)
  PROVE  (Concluded(h) /\ timely => Outcome(h))'
<1> SUFFICES ASSUME Concluded(h)', timely' PROVE Outcome(h)'
  OBVIOUS
<1>1. h \in Nodes /\ (Concluded(h) => Outcome(h))
  BY TimelyBefore DEF Top
<1>2. ASSUME NEW i \in Nodes, NEW j \in Nodes, Message(i, j) PROVE Outcome(h)'
  BY <1>1, <1>2, ConnectingInconclusive, HandleOkayOutcome, HandleCoordinatorOutcome,
     TellingOutcome, HandleSetPoolOutcome DEF Message
<1>3. ASSUME NEW i \in Nodes, NEW j \in Nodes, Connection(i, j) PROVE Outcome(h)'
  BY <1>3, ConnectingInconclusive DEF Connection
<1>4. ASSUME NEW i \in Nodes, Client(i) PROVE Outcome(h)'
  BY <1>1, <1>4, ClientOutcome, AskedInPool DEF Client
<1>5. CASE Fault
  <2>1. ASSUME NEW i \in Nodes, Crash(i) \/ Restart(i) PROVE FALSE
    BY <1>1, <2>1, ConnectingInconclusive, RestartInconclusive
  <2>2. ASSUME NEW i \in Nodes, NEW j \in Nodes, Break(i, j) \/ HandshakeFails(i, j)
        PROVE  Outcome(h)'
    BY <1>1, <2>2, ConnectingInconclusive, HandshakeFailsOutcome
  <2> QED BY <1>5, <2>1, <2>2 DEF Fault
<1>6. CASE Tick \/ UNCHANGED vars
  BY <1>1, <1>6, QuietOutcome
<1> QED BY <1>2, <1>3, <1>4, <1>5, <1>6, FinishElectionOutcome DEF Next

LEMMA Concluding ==
  ASSUME NEW h, Top(h), Cardinality(Nodes) > 1
  PROVE  Spec => []EInv(h)
<1>1. Init => EInv(h)
  BY InitIInv, InitLed DEF EInv, Concluded, Init, Top
<1>2. EInv(h) /\ [Next]_vars => EInv(h)'
  BY NextIInv, NextLed, NextOutcome DEF EInv
<1> QED BY <1>1, <1>2, PTL DEF Spec

-----------------------------------------------------------------------------
(* When all is settled.                                                    *)

LEMMA ConcludedAtRest ==
  ASSUME NEW h, Top(h), IInv, Led(h), Cardinality(Nodes) > 1, Settled, Connected, up = Nodes
  PROVE  Concluded(h)
<1>1. h \in Nodes
  BY DEF Top
<1>2. role[h] = "Coordinator"
  <2>1. HighestLeads
    BY <1>1, LedElects DEF ElectsHighest
  <2>2. Highest(h)
    BY DEF Highest, Top
  <2> QED BY <1>1, <2>1, <2>2 DEF HighestLeads
<1>3. ASSUME NEW i \in Nodes PROVE peers[i] = Nodes \ {i}
  BY DEF Connected, Led, Ends, IInv, Arrays
<1>4. Whole
  BY <1>3 DEF Whole, Settled, Quiet, Connected
<1>5. \A i \in Nodes : ~Carries(chan[<<i, h>>], {"Election", "Coordinator"})
  <2>1. \A i \in Nodes : chan[<<i, h>>] = <<>>
    BY <1>1 DEF Settled, Quiet
  <2> QED BY <2>1, CarriesNothing
<1> QED BY <1>2, <1>4, <1>5 DEF Concluded

\* All orders have been followed.
LEMMA OutcomeAtRest ==
  ASSUME NEW h \in Nodes, IInv, Outcome(h), role[h] = "Coordinator", Settled
  PROVE  /\ \A i \in Nodes : coord[i] = {h} /\ majority[i] = majority[h]
         /\ \E order \in Orders(Nodes \ {h}) : \A i \in Nodes :
              svc[i].pool = Share(Nodes \ {h}, IF i = h THEN 1 ELSE order[i])
<1>1. \A i, j \in Nodes : chan[<<i, j>>] = <<>>
  BY DEF Settled, Quiet
<1>2. ASSUME NEW i \in Nodes PROVE coord[i] = {h} /\ majority[i] = majority[h]
  <2>1. CASE i = h
    BY <2>1 DEF IInv, CoordinatorKnowsItself
  <2>2. CASE i # h
    <3>1. ~Carries(chan[<<h, i>>], {"Coordinator"})
      BY <1>1, CarriesNothing
    <3> QED BY <2>2, <3>1 DEF Outcome, Obeys
  <2> QED BY <2>1, <2>2
<1>3. PICK order \in Orders(Nodes \ {h}) :
        /\ svc[h].pool = Share(Nodes \ {h}, 1)
        /\ \A i \in Nodes \ {h} : Assigned(i, h, Share(Nodes \ {h}, order[i]))
  BY DEF Outcome, Divided
<1>4. ASSUME NEW i \in Nodes \ {h}
      PROVE  svc[i].pool = Share(Nodes \ {h}, order[i])
  <2> DEFINE p == Share(Nodes \ {h}, order[i])
  <2>1. Assigned(i, h, p)
    BY <1>3
  <2> HIDE DEF p
  <2>2. ~LastPool(chan[<<h, i>>], p)
    BY <1>1 DEF LastPool
  <2> QED BY <2>1, <2>2 DEF Assigned, p
<1> QED BY <1>2, <1>3, <1>4

\* The coordinator's share is the first, the peers have the others, each its own.
LEMMA SharesNumbered ==
  ASSUME NEW h \in Nodes, NEW order \in Orders(Nodes \ {h})
  PROVE  LET n == Cardinality(Nodes \ {h}) + 1
             g == [i \in Nodes |-> IF i = h THEN 1 ELSE order[i]]
         IN  /\ n \in Nat /\ n > 0
             /\ g \in [Nodes -> 1 .. n]
             /\ \A i, j \in Nodes : g[i] = g[j] => i = j
             /\ \A k \in 1 .. n : \E i \in Nodes : g[i] = k
<1> DEFINE ps == Nodes \ {h}
           n == Cardinality(ps) + 1
           g == [i \in Nodes |-> IF i = h THEN 1 ELSE order[i]]
<1>1. n \in Nat /\ n > 0 /\ Cardinality(Nodes) = n
  <2> DEFINE c == Cardinality(ps)
             d == Cardinality(Nodes)
  <2>1. c \in Nat /\ d \in Nat
    BY CountNodes
  <2>2. c = d - 1
    BY NodesAssumption, FS_RemoveElement
  <2> HIDE DEF c, d
  <2>3. c + 1 \in Nat /\ c + 1 > 0 /\ d = c + 1
    BY <2>1, <2>2
  <2> QED BY <2>3 DEF c, d
<1>2. \A i \in ps : order[i] \in 2 .. n
  BY DEF Orders
<1>3. \A i, j \in ps : order[i] = order[j] => i = j
  BY DEF Orders
<1> HIDE DEF n
<1>4. g \in [Nodes -> 1 .. n]
  BY <1>1, <1>2
<1>5. ASSUME NEW i \in Nodes, NEW j \in Nodes, g[i] = g[j] PROVE i = j
  BY <1>2, <1>3, <1>5
<1> HIDE DEF g
<1>6. g \in Injection(Nodes, 1 .. n)
  BY <1>4, <1>5 DEF Injection, IsInjective
<1>7. IsFiniteSet(1 .. n) /\ Cardinality(1 .. n) = n
  BY <1>1, FirstNumbers
<1>8. g \in Surjection(Nodes, 1 .. n)
  BY <1>1, <1>6, <1>7, FS_Injection
<1>9. \A k \in 1 .. n : \E i \in Nodes : g[i] = k
  BY <1>8 DEF Surjection
<1> QED BY <1>1, <1>4, <1>5, <1>9 DEF n, g, ps

LEMMA SharesPartition ==
  ASSUME NEW h \in Nodes, NEW order \in Orders(Nodes \ {h}), NEW s,
         \A i \in Nodes : s[i].pool = Share(Nodes \ {h}, IF i = h THEN 1 ELSE order[i])
  PROVE  /\ \A i, j \in Nodes : i # j => Addresses(s[i].pool) \cap Addresses(s[j].pool) = {}
         /\ UNION {Addresses(s[i].pool) : i \in Nodes} = Addresses(ConfigPool)
<1> DEFINE n == Cardinality(Nodes \ {h}) + 1
           g == [i \in Nodes |-> IF i = h THEN 1 ELSE order[i]]
<1>1. /\ n \in Nat /\ n > 0
      /\ g \in [Nodes -> 1 .. n]
      /\ \A i, j \in Nodes : g[i] = g[j] => i = j
      /\ \A k \in 1 .. n : \E i \in Nodes : g[i] = k
  BY SharesNumbered
<1>2. \A i \in Nodes : s[i].pool = Divide(ConfigPool, n)[g[i]]
  BY DEF Share
<1> HIDE DEF n, g
<1>3. \A i, j \in Nodes : i # j => Addresses(s[i].pool) \cap Addresses(s[j].pool) = {}
  BY <1>1, <1>2, ConfigPoolAssumption, DivideDisjoint
<1>4. UNION {Addresses(s[i].pool) : i \in Nodes}
        = UNION {Addresses(Divide(ConfigPool, n)[k]) : k \in 1 .. n}
  BY <1>1, <1>2
<1>5. UNION {Addresses(Divide(ConfigPool, n)[k]) : k \in 1 .. n} = Addresses(ConfigPool)
  BY <1>1, ConfigPoolAssumption, DivideCovers
<1> QED BY <1>3, <1>4, <1>5

LEMMA OutcomeStands ==
  ASSUME NEW h, Top(h), EInv(h), Cardinality(Nodes) > 1, up = Nodes
  PROVE  AgreeOnCoordinator /\ PoolsPartition
<1> SUFFICES ASSUME Settled, Connected, timely
             PROVE  /\ \A i, j \in Nodes : coord[i] = coord[j] /\ majority[i] = majority[j]
                    /\ \A i, j \in Nodes : i # j =>
                         Addresses(svc[i].pool) \cap Addresses(svc[j].pool) = {}
                    /\ UNION {Addresses(svc[i].pool) : i \in Nodes} = Addresses(ConfigPool)
  BY DEF AgreeOnCoordinator, PoolsPartition
<1>1. h \in Nodes /\ IInv /\ Led(h) /\ Concluded(h)
  BY ConcludedAtRest DEF EInv, Top
<1>2. Outcome(h) /\ role[h] = "Coordinator"
  BY <1>1 DEF EInv, Concluded
<1>3. /\ \A i \in Nodes : coord[i] = {h} /\ majority[i] = majority[h]
      /\ \E order \in Orders(Nodes \ {h}) : \A i \in Nodes :
           svc[i].pool = Share(Nodes \ {h}, IF i = h THEN 1 ELSE order[i])
  BY <1>1, <1>2, OutcomeAtRest
<1>4. PICK order \in Orders(Nodes \ {h}) : \A i \in Nodes :
        svc[i].pool = Share(Nodes \ {h}, IF i = h THEN 1 ELSE order[i])
  BY <1>3
<1>5. /\ \A i, j \in Nodes : i # j =>
           Addresses(svc[i].pool) \cap Addresses(svc[j].pool) = {}
      /\ UNION {Addresses(svc[i].pool) : i \in Nodes} = Addresses(ConfigPool)
  BY <1>1, <1>4, SharesPartition
<1> QED BY <1>3, <1>5

-----------------------------------------------------------------------------
(* The theorems about elections.                                           *)

\* For a cluster of any size, any faults and any order of messages, timers and
\* connections: whenever nothing is left to do, a connected majority with the
\* highest of all nodes among them is led by it, and nobody else takes itself
\* for the coordinator (handle_election, handle_okay, handle_coordinator,
\* finish_election, server.rs:337-483).
THEOREM HighestIsElected ==
  ASSUME Cardinality(Nodes) > 1
  PROVE  Spec => [](HighestIsUp => ElectsHighest)
<1>1. PICK h : Top(h)
  BY HighestExists, FS_EmptySet
<1>2. ASSUME IInv, Led(h), NEW k \in up, \A i \in Nodes : i <= k PROVE ElectsHighest
  <2>1. k \in Nodes
    BY <1>2 DEF IInv, World
  <2>2. k \in Nat /\ h \in Nat /\ h <= k /\ k <= h
    BY <1>1, <1>2, <2>1, NodesAssumption DEF Top
  <2>3. h \in up
    BY <1>2, <2>2
  <2> QED BY <1>1, <1>2, <2>3, LedElects
<1>3. IInv /\ Led(h) => (HighestIsUp => ElectsHighest)
  BY <1>2 DEF HighestIsUp
<1>4. Spec => [](IInv /\ Led(h))
  BY <1>1, Leading
<1> QED BY <1>3, <1>4, PTL

\* When all nodes are up and no election timer fired too early, they agree on the
\* coordinator and the majority bit, whatever was sent and reordered on the way:
\* the last orders each has followed are those of the last election
\* (become_coordinator, handle_coordinator, server.rs:223, 476).
THEOREM LeaderIsAgreedOn ==
  ASSUME Cardinality(Nodes) > 1
  PROVE  Spec => [](up = Nodes => AgreeOnCoordinator)
<1>1. PICK h : Top(h)
  BY HighestExists, FS_EmptySet
<1>2. EInv(h) => (up = Nodes => AgreeOnCoordinator)
  BY <1>1, OutcomeStands
<1>3. Spec => []EInv(h)
  BY <1>1, Concluding
<1> QED BY <1>2, <1>3, PTL

\* And their pools partition the configured one: no two nodes can offer the same
\* address, and none is left out (become_coordinator, handle_set_pool,
\* server.rs:223, 490).
THEOREM PoolIsPartitioned ==
  ASSUME Cardinality(Nodes) > 1
  PROVE  Spec => [](up = Nodes => PoolsPartition)
<1>1. PICK h : Top(h)
  BY HighestExists, FS_EmptySet
<1>2. EInv(h) => (up = Nodes => PoolsPartition)
  BY <1>1, OutcomeStands
<1>3. Spec => []EInv(h)
  BY <1>1, Concluding
<1> QED BY <1>2, <1>3, PTL
=============================================================================
