----------------------------- MODULE DhcpCluster -----------------------------
(***************************************************************************)
(* The cluster: the main threads of the nodes (server-node/src/server.rs), *)
(* each an event loop over one queue, and the connections between them.    *)
(* One action per event of the loop, with every handler it calls.          *)
(*                                                                         *)
(* What the queue of node i holds from peer j, and what is on its way      *)
(* there (the channel of j's write thread, the socket, i's read thread),   *)
(* is one FIFO sequence chan[<<j, i>>]: the order is kept per connection,  *)
(* and arbitrary between connections, timers and clients. When the         *)
(* connection is gone, <<j, i>> \in lost until i handles PeerLost, and     *)
(* what i has not handled by then never arrived.                           *)
(*                                                                         *)
(* The bully algorithm needs that the election timer (heartbeat_timeout,   *)
(* server.rs:346) outlasts the exchange of messages. The code cannot       *)
(* enforce it, and no step is held back by it: the history variable timely *)
(* records whether it has held so far.                                     *)
(*                                                                         *)
(* Here a node opens one connection at a time to a peer, see PeerLink for  *)
(* what overlapping connections do. Heartbeats change no state.            *)
(***************************************************************************)
EXTENDS DhcpOps, Sequences, FiniteSets

CONSTANTS Nodes,          \* the node ids; every node's config lists all others
          Macs,           \* the clients
          ConfigPool,     \* config.dhcp_pool, the same at every node
          MaxTime,        \* bound on the clock
          MaxQueue,       \* bound on a channel to which clients' requests add
          Roaming,        \* may a client confirm at a node its address is not from?
          MayCrash,       \* the nodes that may crash
          MayBreak,       \* the connections <<i, j>>, i > j, that may break
          MaxFaults       \* bound on crashes, restarts and broken connections

ASSUME NodesAssumption == IsFiniteSet(Nodes) /\ Nodes \subseteq Nat
ASSUME ConfigPoolAssumption == ConfigPool \in Ranges
ASSUME BoundsAssumption == {MaxTime, MaxQueue, MaxFaults} \subseteq Nat
ASSUME RoamingAssumption == Roaming \in BOOLEAN
ASSUME FaultsAssumption == MayCrash \subseteq Nodes /\ MayBreak \subseteq Nodes \X Nodes

VARIABLES
  up,             \* the nodes whose process runs
  link,           \* <<i, j>>: what i writes can reach j
  lost,           \* <<i, j>>: j has yet to notice that its connection to i is gone
  joining,        \* EstablishedPeerConnection events waiting in a node's queue
  chan,           \* messages under way or queued, per sender and receiver
  peers,          \* Server::peers (the ids)
  role,           \* Server::election_state
  coord,          \* Server::coordinator_id, a set of at most one id
  majority,       \* Server::majority
  timers,         \* how many election timers of the node are running
  svc,            \* Server::dhcp_service
  now,            \* the time, the same at all nodes (NTP, doc/design.md:51)
  acked,          \* the leases clients hold an Ack for that have not expired
  faults,         \* how many faults have happened
  timely          \* has every election timer outlasted the messages so far?

netVars  == <<up, link, lost, joining>>
electVars == <<role, coord, majority, timers>>
clientVars == <<now, acked>>
vars == <<up, link, lost, joining, chan, peers, role, coord, majority, timers,
          svc, now, acked, faults, timely>>

Roles == {"WaitingForElection", "Coordinator", "Follower"}

\* The messages of peer/message.rs that reach the event loop.
Election == [type |-> "Election"]
Okay == [type |-> "Okay"]
CoordinatorMsg(m) == [type |-> "Coordinator", majority |-> m]
LeaseMsg(l) == [type |-> "Lease", lease |-> l]
LeaseTableMsg(ls) == [type |-> "LeaseTable", leases |-> ls]
SetPoolMsg(p) == [type |-> "SetPool", pool |-> p]

Init ==
  /\ up = Nodes /\ link = {} /\ lost = {}
  /\ joining = [i \in Nodes |-> {}]
  /\ chan = [p \in Nodes \X Nodes |-> <<>>]
  /\ peers = [i \in Nodes |-> {}]
  /\ role = [i \in Nodes |-> "Follower"]
  /\ coord = [i \in Nodes |-> {}]
  /\ majority = [i \in Nodes |-> FALSE]
  /\ timers = [i \in Nodes |-> 0]
  /\ svc = [i \in Nodes |-> NewService(ConfigPool)]
  /\ now = 0 /\ acked = {} /\ faults = 0 /\ timely = TRUE

-----------------------------------------------------------------------------
(* Sending. A handler queues, for each peer, a sequence of messages; those *)
(* for a peer whose connection is gone (after the step) are lost.          *)

Nothing == [j \in Nodes |-> <<>>]

To(j, m) == [Nothing EXCEPT ![j] = <<m>>]

ToAll(ps, m) == [j \in Nodes |-> IF j \in ps THEN <<m>> ELSE <<>>]

Post(ch, i, mail) ==
  [p \in Nodes \X Nodes |->
     IF p[1] = i /\ p \in link' THEN ch[p] \o mail[p[2]] ELSE ch[p]]

\* The channels after i took the next message of j.
Taken(i, j) == [chan EXCEPT ![<<j, i>>] = Tail(@)]

Receives(i, j, type) ==
  /\ i \in up
  /\ chan[<<j, i>>] # <<>>
  /\ Head(chan[<<j, i>>]).type = type

-----------------------------------------------------------------------------
(* The pieces handlers are made of. What they do not mention (timers, or    *)
(* coord, majority and svc) is for the handler to say.                     *)

\* A wrong majority: half of the nodes is enough.
HasHalf(ps) == 2 * (Cardinality(ps) + 1) >= Cardinality(Nodes)

HasMajority(ps) == Cardinality(ps) + 1 > Cardinality(Nodes) \div 2

\* The order in which a HashMap yields the peers: 1 is the coordinator itself.
Orders(ps) ==
  {f \in [ps -> 2 .. Cardinality(ps) + 1] : \A a, b \in ps : f[a] = f[b] => a = b}

Share(ps, n) == Divide(ConfigPool, Cardinality(ps) + 1)[n]

\* Server::become_coordinator, after the peers became ps.
BecomeCoordinator(i, ps, ch) ==
  \E order \in Orders(ps) :
    /\ role' = [role EXCEPT ![i] = "Coordinator"]
    /\ coord' = [coord EXCEPT ![i] = {i}]
    /\ majority' = [majority EXCEPT ![i] = HasMajority(ps)]
    /\ svc' = [svc EXCEPT ![i] = SetPool(@, Share(ps, 1))]
    /\ chan' = Post(ch, i,
                 [j \in Nodes |-> IF j \in ps
                    THEN <<CoordinatorMsg(HasMajority(ps)), SetPoolMsg(Share(ps, order[j]))>>
                    ELSE <<>>])

\* A wrong start_election: no timer runs.
StartElectionUntimed(i, ps, ch) ==
  /\ role' = [role EXCEPT ![i] = "WaitingForElection"]
  /\ UNCHANGED timers
  /\ chan' = Post(ch, i, ToAll({j \in ps : j > i}, Election))

\* Server::start_election, after the peers became ps.
StartElection(i, ps, ch) ==
  /\ role' = [role EXCEPT ![i] = "WaitingForElection"]
  /\ timers' = [timers EXCEPT ![i] = @ + 1]
  /\ chan' = Post(ch, i, ToAll({j \in ps : j > i}, Election))

\* The process ends: a crash or a panic of the main thread. All of its state is
\* volatile; its peers will notice that the connections are gone.
Halt(i) ==
  /\ up' = up \ {i}
  /\ link' = {p \in link : p[1] # i /\ p[2] # i}
  /\ peers' = [peers EXCEPT ![i] = {}]
  /\ role' = [role EXCEPT ![i] = "Follower"]
  /\ coord' = [coord EXCEPT ![i] = {}]
  /\ majority' = [majority EXCEPT ![i] = FALSE]
  /\ timers' = [timers EXCEPT ![i] = 0]
  /\ svc' = [svc EXCEPT ![i] = NewService(ConfigPool)]
  /\ chan' = [p \in Nodes \X Nodes |-> IF p[2] = i THEN <<>> ELSE chan[p]]
  /\ UNCHANGED <<clientVars, timely>>

LostBy(i) == {p \in lost : p[2] # i} \cup {p \in link : p[1] = i}

-----------------------------------------------------------------------------
(* Connections: attempt_connect, Peer::connect, answer_handshake, add_peer. *)

\* The node with the higher id connects to a peer it has no entry for.
CanConnect(i, j) ==
  /\ i \in up /\ j \in up /\ i > j
  /\ j \notin peers[i] /\ j \notin joining[i]

\* Peer::start_handshake at i gets the JoinAck of j. From then on the read thread
\* of i runs, while the EstablishedPeerConnection event has yet to be queued.
JoinSucceeds(i, j) ==
  /\ link' = link \cup {<<i, j>>, <<j, i>>}
  /\ joining' = [joining EXCEPT ![i] = @ \cup {j}]
  /\ UNCHANGED <<lost, faults>>

\* The connection breaks before the JoinAck arrives at i.
JoinFails(i, j) ==
  /\ <<i, j>> \in MayBreak /\ faults < MaxFaults
  /\ faults' = faults + 1
  /\ lost' = lost \cup {<<i, j>>}
  /\ UNCHANGED <<link, joining>>

\* A connect job of i and answer_handshake at j, which adds the peer.
Handshake(i, j) ==
  LET ps    == peers[j] \cup {i}
      table == Post(chan, j, To(i, LeaseTableMsg(svc[j].leases)))
  IN
  /\ CanConnect(i, j) /\ i \notin peers[j]
  /\ JoinSucceeds(i, j) \/ JoinFails(i, j)
  /\ peers' = [peers EXCEPT ![j] = ps]
  /\ IF role[j] = "Coordinator"
       THEN BecomeCoordinator(j, ps, table) /\ UNCHANGED timers
       ELSE /\ chan' = table
            /\ UNCHANGED <<role, coord, majority, timers, svc>>
  /\ UNCHANGED <<up, now, acked, timely>>

\* A connection whose first message is no Join, or whose JoinAck cannot be sent.
HandshakeFails(i, j) ==
  /\ <<i, j>> \in MayBreak
  /\ j \in up /\ faults < MaxFaults /\ role[j] = "Coordinator"
  /\ faults' = faults + 1
  /\ UNCHANGED <<netVars, peers, timers, clientVars, timely>>
  /\ BecomeCoordinator(j, peers[j], chan)

\* answer_handshake at j while j has yet to notice that the previous connection
\* to i is gone: it sends the JoinAck, add_peer fails and the process panics.
HandshakePanics(i, j) ==
  /\ CanConnect(i, j) /\ i \in peers[j]
  /\ \/ /\ joining' = [joining EXCEPT ![j] = {}, ![i] = @ \cup {j}]
        /\ lost' = LostBy(j) \cup {<<j, i>>}
     \/ /\ joining' = [joining EXCEPT ![j] = {}]
        /\ lost' = LostBy(j)
  /\ Halt(j)
  /\ UNCHANGED faults

\* EstablishedPeerConnection: add_peer sends the lease table, then the election.
Establish(i, j) ==
  LET ps == peers[i] \cup {j}
  IN
  /\ i \in up /\ j \in joining[i] /\ j \notin peers[i]
  /\ UNCHANGED <<up, link, lost, now, acked, faults, timely, coord, majority, svc>>
  /\ joining' = [joining EXCEPT ![i] = @ \ {j}]
  /\ peers' = [peers EXCEPT ![i] = ps]
  /\ StartElection(i, ps, Post(chan, i, To(j, LeaseTableMsg(svc[i].leases))))

\* PeerLost: remove_peer. As become_coordinator makes the node its own
\* coordinator, the election is started only if it was not the coordinator.
RemovePeer(i, j) ==
  LET ps   == peers[i] \ {j}
      rest == [chan EXCEPT ![<<j, i>>] = <<>>]
  IN
  /\ i \in up /\ <<j, i>> \in lost
  /\ UNCHANGED <<up, link, joining, now, acked, faults, timely>>
  /\ lost' = lost \ {<<j, i>>}
  /\ peers' = [peers EXCEPT ![i] = ps]
  /\ \/ /\ role[i] = "Coordinator"
        /\ BecomeCoordinator(i, ps, rest)
        /\ UNCHANGED timers
     \/ /\ role[i] # "Coordinator" /\ coord[i] = {j}
        /\ StartElection(i, ps, rest)
        /\ UNCHANGED <<coord, majority, svc>>
     \/ /\ role[i] # "Coordinator" /\ coord[i] # {j}
        /\ chan' = rest
        /\ UNCHANGED <<role, coord, majority, timers, svc>>

-----------------------------------------------------------------------------
(* Messages and timers of the election.                                    *)

\* handle_election. One from a higher id is ignored, but that never comes, see
\* ElectionFromLower.
HandleElection(i, j) ==
  /\ Receives(i, j, "Election") /\ j < i /\ j \in peers[i]
  /\ UNCHANGED <<up, link, lost, joining, peers, coord, majority, svc, now, acked>>
  /\ UNCHANGED <<faults, timely>>
  /\ StartElection(i, peers[i], Post(Taken(i, j), i, To(j, Okay)))

\* handle_election when the sender is not in the peer table yet: a panic.
ElectionPanics(i, j) ==
  /\ Receives(i, j, "Election") /\ j < i /\ j \notin peers[i]
  /\ joining' = [joining EXCEPT ![i] = {}]
  /\ lost' = LostBy(i)
  /\ Halt(i)
  /\ UNCHANGED faults

\* handle_okay
HandleOkay(i, j) ==
  /\ Receives(i, j, "Okay")
  /\ role' = [role EXCEPT ![i] = IF @ = "WaitingForElection" THEN "Follower" ELSE @]
  /\ chan' = Taken(i, j)
  /\ UNCHANGED <<netVars, peers, coord, majority, timers, svc, clientVars, faults, timely>>

\* A wrong handle_coordinator: a lower coordinator is put up with.
HandleCoordinatorMeekly(i, j) ==
  /\ Receives(i, j, "Coordinator")
  /\ coord' = [coord EXCEPT ![i] = {j}]
  /\ majority' = [majority EXCEPT ![i] = Head(chan[<<j, i>>]).majority]
  /\ role' = [role EXCEPT ![i] = "Follower"]
  /\ chan' = Taken(i, j)
  /\ UNCHANGED <<netVars, peers, timers, svc, clientVars, faults, timely>>

\* handle_coordinator: a coordinator with a lower id provokes an election.
HandleCoordinator(i, j) ==
  /\ Receives(i, j, "Coordinator")
  /\ UNCHANGED <<netVars, peers, svc, clientVars, faults, timely>>
  /\ coord' = [coord EXCEPT ![i] = {j}]
  /\ majority' = [majority EXCEPT ![i] = Head(chan[<<j, i>>]).majority]
  /\ \/ j < i /\ StartElection(i, peers[i], Taken(i, j))
     \/ /\ j > i
        /\ role' = [role EXCEPT ![i] = "Follower"]
        /\ chan' = Taken(i, j)
        /\ UNCHANGED timers

\* No message, connection or loss is under way.
Quiet ==
  /\ \A p \in Nodes \X Nodes : chan[p] = <<>>
  /\ \A i \in Nodes : joining[i] = {}
  /\ lost = {}

\* ElectionTimeout: finish_election acts on the role the node has by now.
FinishElection(i) ==
  /\ timers[i] > 0
  /\ timers' = [timers EXCEPT ![i] = @ - 1]
  /\ timely' = (timely /\ Quiet)
  /\ UNCHANGED <<netVars, peers, clientVars, faults>>
  /\ \/ /\ role[i] = "WaitingForElection"
        /\ BecomeCoordinator(i, peers[i], chan)
     \/ /\ role[i] # "WaitingForElection"
        /\ UNCHANGED <<role, coord, majority, svc, chan>>

-----------------------------------------------------------------------------
(* Leases: clients' requests, the answers, and what peers are told.        *)

\* LeaseRequest: handle_lease_request. Without a majority nothing happens.
LeaseRequest(i, mac) ==
  /\ i \in up /\ majority[i]
  /\ \E o \in DiscoverLease(svc[i], mac, now) : svc' = [svc EXCEPT ![i] = o.svc]
  /\ UNCHANGED <<netVars, chan, peers, electVars, clientVars, faults, timely>>

\* ConfirmRequest: handle_confirm_request. The client has its Ack, then the
\* lease is queued for every peer. A denied request changes nothing.
ConfirmRequest(i, mac, addr) ==
  /\ i \in up /\ majority[i]
  /\ UNCHANGED <<netVars, peers, electVars, now, faults, timely>>
  /\ \E o \in CommitLease(svc[i], mac, addr, now) : \E l \in o.acked :
       /\ svc' = [svc EXCEPT ![i] = o.svc]
       /\ acked' = {k \in acked : k.mac # mac \/ k.addr # addr} \cup {l}
       /\ chan' = Post(chan, i, ToAll(peers[i], LeaseMsg(l)))

\* Lease: handle_add_lease
HandleLease(i, j) ==
  /\ Receives(i, j, "Lease")
  /\ \E s \in AddLease(svc[i], Head(chan[<<j, i>>]).lease) : svc' = [svc EXCEPT ![i] = s]
  /\ chan' = Taken(i, j)
  /\ UNCHANGED <<netVars, peers, electVars, clientVars, faults, timely>>

\* LeaseTable: the longer table wins.
HandleLeaseTable(i, j) ==
  LET table == Head(chan[<<j, i>>]).leases
  IN
  /\ Receives(i, j, "LeaseTable")
  /\ svc' = [svc EXCEPT ![i].leases =
               IF Cardinality(@) < Cardinality(table) THEN table ELSE @]
  /\ chan' = Taken(i, j)
  /\ UNCHANGED <<netVars, peers, electVars, clientVars, faults, timely>>

\* SetPool: handle_set_pool, whoever sent it.
HandleSetPool(i, j) ==
  /\ Receives(i, j, "SetPool")
  /\ svc' = [svc EXCEPT ![i] = SetPool(@, Head(chan[<<j, i>>]).pool)]
  /\ chan' = Taken(i, j)
  /\ UNCHANGED <<netVars, peers, electVars, clientVars, faults, timely>>

-----------------------------------------------------------------------------
(* The environment: time, crashes, restarts and broken connections.        *)

Tick ==
  /\ now < MaxTime
  /\ now' = now + 1
  /\ acked' = Unexpired(acked, now')
  /\ UNCHANGED <<netVars, chan, peers, electVars, svc, faults, timely>>

Crash(i) ==
  /\ i \in up \cap MayCrash /\ faults < MaxFaults
  /\ faults' = faults + 1
  /\ joining' = [joining EXCEPT ![i] = {}]
  /\ lost' = LostBy(i)
  /\ Halt(i)

\* A process starts anew, nothing is read from disk (Server::start).
Restart(i) ==
  /\ i \notin up /\ faults < MaxFaults
  /\ faults' = faults + 1
  /\ up' = up \cup {i}
  /\ UNCHANGED <<link, lost, joining, chan, peers, electVars, svc, clientVars, timely>>

\* A connection breaks: a network failure, or three heartbeats too late.
Break(i, j) ==
  /\ <<i, j>> \in link \cap MayBreak /\ faults < MaxFaults
  /\ faults' = faults + 1
  /\ link' = link \ {<<i, j>>, <<j, i>>}
  /\ lost' = lost \cup {<<i, j>>, <<j, i>>}
  /\ UNCHANGED <<up, joining, chan, peers, electVars, svc, clientVars, timely>>

-----------------------------------------------------------------------------
Message(i, j) ==
  \/ HandleElection(i, j)
  \/ ElectionPanics(i, j)
  \/ HandleOkay(i, j)
  \/ HandleCoordinator(i, j)
  \/ HandleLease(i, j)
  \/ HandleLeaseTable(i, j)
  \/ HandleSetPool(i, j)

Connection(i, j) ==
  \/ Handshake(i, j)
  \/ HandshakePanics(i, j)
  \/ Establish(i, j)
  \/ RemovePeer(i, j)

\* What clients ask node i to confirm: an address of its pool, or any they know.
Asked(i) == IF Roaming THEN Addresses(ConfigPool) ELSE Addresses(svc[i].pool)

Client(i) ==
  \/ \E mac \in Macs : LeaseRequest(i, mac)
  \/ /\ \A j \in peers[i] : Len(chan[<<i, j>>]) < MaxQueue
     /\ \E mac \in Macs, addr \in Asked(i) : ConfirmRequest(i, mac, addr)

Fault ==
  \/ \E i \in Nodes : Crash(i) \/ Restart(i)
  \/ \E i, j \in Nodes : Break(i, j) \/ HandshakeFails(i, j)

Next ==
  \/ \E i, j \in Nodes : Message(i, j) \/ Connection(i, j)
  \/ \E i \in Nodes : FinishElection(i) \/ Client(i)
  \/ Tick
  \/ Fault

Spec == Init /\ [][Next]_vars

-----------------------------------------------------------------------------
(* Type invariant                                                          *)

Pools == {p \in Ranges : ConfigPool.start <= p.start /\ p.end <= ConfigPool.end}

Leases == [mac : Macs, addr : Addresses(ConfigPool), exp : Nat]

Services ==
  {s \in [pool : Pools, leases : SUBSET Leases, pending : SUBSET Leases, next : Nat] :
     s.pool.start <= s.next /\ s.next <= s.pool.end}

Messages ==
  [type : {"Election", "Okay"}]
    \cup [type : {"Coordinator"}, majority : BOOLEAN]
    \cup [type : {"Lease"}, lease : Leases]
    \cup [type : {"LeaseTable"}, leases : SUBSET Leases]
    \cup [type : {"SetPool"}, pool : Pools]

\* Among the types: whatever the coordinators assign lies within the configured
\* pool, and the cursor of a service within its pool, also when a SetPool falls
\* between an offer and its confirmation.
TypeOK ==
  /\ up \subseteq Nodes
  /\ link \subseteq Nodes \X Nodes /\ lost \subseteq Nodes \X Nodes
  /\ joining \in [Nodes -> SUBSET Nodes]
  /\ chan \in [Nodes \X Nodes -> Seq(Messages)]
  /\ peers \in [Nodes -> SUBSET Nodes]
  /\ role \in [Nodes -> Roles]
  /\ coord \in [Nodes -> SUBSET Nodes]
  /\ majority \in [Nodes -> BOOLEAN]
  /\ timers \in [Nodes -> Nat]
  /\ svc \in [Nodes -> Services]
  /\ now \in Nat /\ acked \subseteq Leases /\ faults \in Nat
  /\ timely \in BOOLEAN

-----------------------------------------------------------------------------
(* Safety                                                                  *)

InTransit(i, j, type) == \E k \in 1 .. Len(chan[<<i, j>>]) : chan[<<i, j>>][k].type = type

\* A node that holds the role knows it, and serves clients only while it reaches
\* more than half of the nodes: every change of its peer table makes it count
\* and re-divide again (server.rs:226, 290, 321).
CoordinatorKnowsItself ==
  \A i \in Nodes : role[i] = "Coordinator" =>
    /\ coord[i] = {i}
    /\ majority[i] = (2 * (Cardinality(peers[i]) + 1) > Cardinality(Nodes))

\* An election in progress ends: its timer has yet to fire, however many older
\* timers fired in between (server.rs:346, 366).
WaitingHasTimer ==
  \A i \in Nodes : role[i] = "WaitingForElection" => timers[i] > 0

\* handle_election has only lower senders to deal with: its test of the sender's
\* id never fails (server.rs:455).
ElectionFromLower == \A i, j \in Nodes : InTransit(i, j, "Election") => i < j

\* The assertion of handle_okay, sender_id > self.config.id, never fails
\* (server.rs:466).
OkayFromHigher == \A i, j \in Nodes : InTransit(i, j, "Okay") => i > j

\* "Invariant violated: server.peers must contain election message sender"
\* (server.rs:459): an Election is handled only from a peer in the table.
ElectionSenderKnown ==
  \A i, j \in Nodes : i \in up /\ Receives(i, j, "Election") => j \in peers[i]

\* "never be two competing parts of the cluster working" (doc/design.md:33): no
\* two coordinators serve at a time.
OneLeader ==
  \A i, j \in Nodes :
    role[i] = "Coordinator" /\ majority[i] /\ role[j] = "Coordinator" /\ majority[j] => i = j

\* "DHCP clients should never use conflicting addresses" (server.rs:327): no two
\* clients hold an unexpired Ack for one address.
NoDoubleGrant == \A k, l \in acked : k.addr = l.addr => k.mac = l.mac

\* Nothing is left to do: no message, timer, connection or loss is pending.
Settled == Quiet /\ \A i \in Nodes : timers[i] = 0

\* The nodes that are up are a majority, and connected with each other.
Connected ==
  /\ 2 * Cardinality(up) > Cardinality(Nodes)
  /\ \A i, j \in up : i # j => <<i, j>> \in link /\ j \in peers[i]

\* "the cluster can continue working with one crashed node" (doc/design.md:30):
\* when a connected majority has nothing left to do, one of them serves.
SomeLeader ==
  Settled /\ Connected => \E i \in up : role[i] = "Coordinator" /\ majority[i]

Highest(i) == \A j \in up : j <= i

\* Of the nodes that are up, the highest is the coordinator and no other is.
HighestLeads ==
  \A i \in up : role[i] = (IF Highest(i) THEN "Coordinator" ELSE "Follower")

\* Whatever the order of messages, timers and connections: when nothing is left
\* to do, a connected majority is led by its highest node. That is so as long as
\* the highest of all nodes is up. Without it, it can be that nobody leads: the
\* highest crashed, or panicked, after an Okay that made the next one step down
\* (SomeLeader).
ElectsHighest == Settled /\ Connected => HighestLeads

\* In time, they agree on who leads and on whether the cluster works: the
\* majority bit of the last Coordinator message is nowhere an older one.
AgreeOnCoordinator ==
  Settled /\ Connected /\ timely =>
    \A i, j \in up : coord[i] = coord[j] /\ majority[i] = majority[j]

\* In time, "the DHCP range is fully utilized without overlap"
\* (doc/design.md:69): the pools of the nodes partition the configured pool, no
\* SetPool of an earlier division being the last one a node handled.
PoolsPartition ==
  Settled /\ Connected /\ timely =>
    /\ \A i, j \in up : i # j => Addresses(svc[i].pool) \cap Addresses(svc[j].pool) = {}
    /\ UNION {Addresses(svc[i].pool) : i \in up} = Addresses(ConfigPool)
=============================================================================
