# A TLA+ verification of dhcpcluster

dhcpcluster is a DHCP server that runs on several nodes. The nodes connect with
each other, elect a coordinator with the bully algorithm, and the coordinator
divides the configured address pool among those that are connected. Each node
leases addresses from its share and tells the others. This directory models
that system in TLA+, checks it with TLC on small instances, and proves the
safety properties that hold with TLAPS for instances of any size.

## The system

| Part | Source | State | Operations |
|---|---|---|---|
| Address pool | `server-node/src/dhcp.rs`, `Ipv4Range` | none: `start`, `end` | `divide`, `iter_starting_at`, `from_cidr` |
| DHCP service | `server-node/src/dhcp.rs`, `Service` | pool, leases, pending leases, cursor | `set_pool`, `add_lease`, `discover_lease`, `commit_lease` |
| Main loop of a node | `server-node/src/server.rs`, `Server` | peer table, election state, coordinator id, majority bit, the service | one handler per `Event` and per `Message` |
| Connection to a peer | `server-node/src/server/peer.rs` | a read thread, a write thread, `terminated` | `connect`, `start_handshake`, `send_message`, `drop` |
| Client listener and workers | `server-node/src/server/client.rs` | the connections in the thread pool's queue | `listen_clients`, `serve_client`, `handle_discover`, `handle_renew` |
| Thread pool | `thread-pool/src/lib.rs` | size, workers, the channel of jobs | `execute`, `set_size`, `drop`, the loop of a worker |
| Test client | `client/src` | a table of leases, a thread pool | `query`, `renew` |
| Encoding, configuration, console | `protocol`, `config.rs`, `toml-config`, `console.rs` | none that matters here | |

How they interact. The main thread of a node owns all of its state and takes
events from one queue. Read threads put `PeerMessage` and `PeerLost` there, jobs
of the thread pool `EstablishedPeerConnection`, `LeaseRequest` and
`ConfirmRequest`, timer threads `ElectionTimeout`, the listener
`IncomingPeerConnection`. The main thread sends by way of one write thread per
peer. So a handler is atomic; everything else interleaves. What is hard:

- the orders in which events of different threads reach the queue, such as a
  message before the event that announces its connection, or the timer of an
  earlier election;
- nodes that crash, restart and reconnect, and connections that break, at any
  point of an election;
- pools that are replaced while offers are pending and news of leases is under
  way;
- leases that expire at nodes that prune at different times;
- connections of one pair that overlap, whose threads report to a main thread that
  may itself be waiting for one of them;
- clients that give up, vanish or ask again while their last request is still being
  served, and a majority that is lost in the middle of it.

What would make the parts correct: the pool is partitioned; a service never
promises an address twice; an election ends with the highest node leading and
the others knowing it; two clients never hold a lease on one address; the tables
agree; a job handed to the thread pool runs, and the pool can be dropped; a lost peer is
connected again, and the main thread never waits for ever; what a client takes for
its lease is its lease, and its query ends. Where
the code falls short of that, a run shows it.

## The modules

| Module | Models | EXTENDS |
|---|---|---|
| `Ipv4Range` | the arithmetic of `Ipv4Range` on words of `AddressBits` bits, wrapping where the code's would | |
| `DhcpOps` | the methods of `Service` as operators on a service record | `Ipv4Range` |
| `AddressBook` | the abstract specification of what a DHCP service promises | |
| `DhcpService` | one service under clients, peers and the coordinator; its own steps implement `AddressBook` | `DhcpOps` |
| `DhcpCluster` | the nodes: one action per event, the channels between them, faults, clients | `DhcpOps` |
| `DhcpElection` | the cluster without clients: fairness, and that the election ends | `DhcpCluster` |
| `DhcpLeases` | the cluster from the state an election ends in, with clients; as a whole it implements `AddressBook` | `DhcpCluster` |
| `ThreadPool` | the thread pool | |
| `PeerLink` | one pair of nodes and all of its connections: connect jobs, handshake, read and write threads, `Peer::drop` | |
| `ClientSession` | clients, the workers that serve their connections, and the node's service behind them | `DhcpOps` |
| `Ipv4RangeProofs` | theorems about the operators on ranges | `Ipv4Range` |
| `MCIpv4RangeProofs` | theorems about the machine that enumerates their inputs | `MCIpv4Range`, `Ipv4RangeProofs` |
| `DhcpServiceProofs` | theorems about one service | `DhcpService`, `Ipv4RangeProofs` |
| `DhcpClusterProofs` | theorems about the cluster: types, elections, who leads, with which pools | `DhcpCluster`, `Ipv4RangeProofs` |
| `DhcpLeasesProofs` | theorems about the leases of a stable cluster | `DhcpLeases`, `DhcpClusterProofs` |
| `ThreadPoolProofs`, `PeerLinkProofs`, `ClientSessionProofs` | theorems about these components | the component |
| `MC...` | constants for TLC, and for `MCIpv4Range` a small machine that enumerates inputs | |

### Correspondence

*Service.* A service is a record `[pool, leases, pending, next]`. The two vectors
are sets of `[mac, addr, exp]`; where the code takes the first match of a vector
that may have several, the operator returns the set of all outcomes, so the model
has every order. Time is a counter and only compared. `DiscoverLease` keeps the
early return for a known client, which skips pruning and does not look at the
expiry; `CommitLease` tries the offers, then the leases, and looks at no expiry.

`DhcpService` has the steps a service takes by itself (`OwnStep`: a discover, a
commit, a pool that is assigned, time) and the two it takes on the word of a peer:
`LearnLease`, which is `add_lease`, and `LearnTable`, the handler of `LeaseTable`
(`server.rs:440`), which replaces all leases by those of a longer table. The service
looks at nothing it is told, so what it can promise depends on its peers.
`PeerPromise` is the contract: what stands in the service's tables after the news does
not promise one address to two clients, and the peer's clock is not ahead. News may be old:
of leases that were renewed or have expired since (`MaxAge`), and a table may lack
leases that are known here.

*Cluster.* `chan[<<j, i>>]` is all that is under way from `j` to `i`: the channel of
`j`'s write thread, the socket, and what `i`'s read thread has queued. Order is kept
per connection and free between connections, as the shared queue allows.
`joining[i]` holds the `EstablishedPeerConnection` events that were not handled yet:
the read thread of that connection already delivers, so messages of a peer in
`joining[i]` can be handled first. `lost` holds the `PeerLost` events to come;
they are the last event of a connection. What is sent on a connection that is gone
is dropped. `timers[i]` counts the sleeping timer threads. `acked` is not state of
the program: it is what clients hold an unexpired Ack for. Nor is `timely`, see
Timing below.

| Event or handler | Action |
|---|---|
| `attempt_connect`, `Peer::connect`, `answer_handshake`, `add_peer` | `Handshake` (`JoinSucceeds` or `JoinFails`), `HandshakeFails`, `HandshakePanics` |
| `EstablishedPeerConnection` | `Establish` |
| `PeerLost` | `RemovePeer` |
| `ElectionTimeout` | `FinishElection` |
| `Election`, `Okay`, `Coordinator` | `HandleElection` or `ElectionPanics`, `HandleOkay`, `HandleCoordinator` |
| `Lease`, `LeaseTable`, `SetPool` | `HandleLease`, `HandleLeaseTable`, `HandleSetPool` |
| `LeaseRequest`, `ConfirmRequest` | `LeaseRequest`, `ConfirmRequest` |
| `Server::start`, the end of a process | `Restart`, `Crash` |
| a broken connection, three late heartbeats | `Break` |

Panics of the main thread are steps of the model: the process ends (`Halt`) and its
peers will see their connections lost. `BecomeCoordinator` chooses the order in
which the `HashMap` yields the peers, and with it who gets which share.

*Connections.* `PeerLink` is what `DhcpCluster` abstracts from: there a pair has one
connection at a time and its events come in order. Here connections have numbers,
and everything that holds one is state of its own: the connect jobs (`job`), the
events (`queue`), the peer table (`table`), the main thread while it is in
`Peer::drop` (`main`), the two threads at each end (`reading`, `writing`). Payloads,
heartbeats and elections are left out; a read thread ends when three heartbeats did
not come (`Silent`), the stream ended, or it sees `terminated`. `PeerLost` holds the
id of the peer only, so `RemovePeer` takes whatever is in the table.

| Code | Action |
|---|---|
| `attempt_connect`; the job, `Peer::connect`, `start_handshake` | `AttemptConnect`; `JobConnects`, `JobFails`, `JobSendsJoin`, `JobIsAnswered`, `JobReports`, `JobGivesUp` |
| `Peer::listen` | part of `JobConnects`, which queues the event |
| `answer_handshake`, with `add_peer` | `AnswerHandshake`, `AnswerFails`, `HandshakePanics` |
| `EstablishedPeerConnection`, `PeerLost` | `Establish`, `RemovePeer` |
| `Peer::drop` | starts in `AddPeer` or `DropPeer`, returns in `DropEnds` |
| `read_thread_fn`, `write_thread_fn` | `ReaderEnds`, `WriterEnds` |

*Clients.* `ClientSession` follows a connection from `connect_timeout` in the client
to the end of `serve_client`. `inbox` and `outbox` are the two directions of a
stream; both ends wait in turns, so each holds one message at most. `stage` is where
the worker is: before or in a `recv`, or waiting on the channel whose answer is
`reply` ("dropped" when the handler returned without sending). A client that gives up
closes its end, and the message it wrote last may be lost or not; the worker learns
of it by a read that ends, or writes to nobody.

| Code | Action |
|---|---|
| `query`, `renew` with `get_offer`, `get_ack` | `Query`, `Renew`, `ReceiveOffer`, `ReceiveAck`, `ReceiveNothing` |
| the client's timeout, or its end | `GiveUp` |
| `listen_clients`, a worker takes the job | part of `Open`, `TakeConnection` |
| `serve_client`, `handle_discover`, `handle_renew` | `ReadDiscover`, `ReadRenewal`, `ReadRequest`, `ReadFails`, `SendOffer`, `SendAck`, `SendNack`, `EndSilently` |
| `LeaseRequest`, `ConfirmRequest` | `HandleLeaseRequest`, `HandleConfirmRequest` |
| another majority bit of a coordinator | `Flip` |

*Thread pool.* Workers are counted by what they do, since their ids only name them.
`execute` is two actions, as the lock is released between its two halves
(`BeginExecute`, then `EndExecute`). The system may refuse a thread while `respawn` fills up
the pool (`RespawnFails`): then `execute` returns an error without having sent the job
(`ExecuteFails`), while `set_size` has queued its Quits and changed the size by that
time. What the callers make of the error, a panic in the server, is not part of the
pool.

## The checks

Run one with `tlc -workers 2 -config X.cfg M`.

| Run | Module, cfg | Bounds | Shows |
|---|---|---|---|
| ranges | `MCIpv4Range` | every range of 3-bit words, up to 4 parts | `divide` partitions, the scan finds a free address iff there is one, `from_cidr` gives the network without its last address iff it does not overflow |
| service | `MCDhcpService` | 2 clients, a pool of 2 and its two shares, lease time 2, time to 3, news that expire no earlier than now | no double promise, the cursor, refusals only when full, offers from the current pool; its own steps implement `AddressBook`, a peer's lease changes only the grant it is about |
| election | `MCDhcpElection` | 3 nodes, no faults | in every order of events, panics included, the highest of the nodes left leads; if timers outlast messages, all agree; the election ends |
| faults | `MCDhcpElection`, `MCDhcpFaults.cfg` | 2 nodes, 4 faults, pool of 3 | types, the majority bit of coordinators, timers of elections, the partition of the pool through crashes, restarts, broken connections and handshakes |
| leases | `MCDhcpLeases` | 2 nodes, 2 clients, pool of 3, lease time 2, time to 3, channels of 2 | no double grant, Acks stand, tables agree, for clients that stay with the node of their address; the leases in force, each at the node whose share it is from, implement `AddressBook` |
| pool | `MCThreadPool` | 2 callers, sizes 1 to 3, queue of 4 | a job runs while workers are left, or in the end if calls go on; no excess workers; the drop ends |
| link | `MCPeerLink` | 3 connections at a time, 2 faults | every thread belongs to a Peer that somebody holds; the main threads always get back to their queues; tables agree at rest; a lost peer is connected again |
| session | `MCClientSession` | 2 clients, one may give up, 3 connections, 2 workers, pool of 2, lease time 1, time to 1, 1 change of majority | a client's leases are its own as long as it thinks; offers stand; one lease per client that waits; workers return and queries end |
| unknown_sender | `MCDhcpCluster`, `MCDhcpUnknownSender.cfg` | 3 nodes, no faults | violated: an Election is handled before its sender is in the table |
| two_leaders | `MCDhcpCluster`, `MCDhcpTwoLeaders.cfg` | 3 nodes, no faults | violated: two coordinators with a majority |
| no_leader | `MCDhcpCluster`, `MCDhcpNoLeader.cfg` | 3 nodes, 1 crash | violated: two connected nodes left without a coordinator for good |
| roaming | `MCDhcpLeases`, `MCDhcpRoaming.cfg` | 2 nodes, 2 clients, pool of 2 | violated: an expired lease is renewed at one node after another granted its address anew |

Why the bounds are enough. Three nodes are the smallest cluster in which a node can
be connected with a second and not with a third, and in which a majority can lose
one; the counterexamples of the violated runs need no more. Two nodes have all of
the reconnection cases of one pair, and four faults let each of them crash, come
back and lose the connection. The pool of 3 for two nodes has a remainder. Two
clients and a pool share of one or two addresses make the pool run out; a lease time
of 2 with a clock to 3 lets leases expire, be pruned and be granted again. In the
service run a table or a lease of a peer may expire at once or be shorter than what is known by the
whole lease time, so news of age zero already contains old news; a larger `MaxAge` only adds
entries that have expired longer ago, which `Unexpired` does not tell apart. Three
bits have words that wrap. Three connections are the one in the table, one in the
making and one that is being dropped; two faults are a cause and a second one
while its effects are under way. Three client connections are an abandoned
conversation, the same client's next one and another client's, one more than there
are workers; with lease time 1 and a clock to 1 an offer or a lease can expire at any
point of a conversation. A clock and lease time of 2 multiply the states by five. `PoolSize = 0` where no property is about pools.
`MaxFaults`, `MaxTime`, `MaxAge`, `MaxFlips`, `MaxConns` and `MaxQueue` are bounds of the model alone; `MaxQueue` in
`DhcpCluster` holds back only new confirmations, never a handler. Deadlock is not
checked where a cluster may come to rest (all but `MCIpv4Range` and
`MCDhcpService`); that it rests in a good state is the business of `Settled`.

### The violated runs

- *unknown_sender.* The `expect` of `handle_election` (`server.rs:459`) states an
  invariant that connecting nodes break: the read thread starts inside the connect
  job (`peer.rs:182`), the event that adds the peer is queued after that
  (`server.rs:204`). The node panics. The run `election` covers what follows: the
  nodes left still elect.
- *two_leaders.* The design says there can "never be two competing parts of the
  cluster working" (`doc/design.md:33`). Each coordinator counts its own table.
- *no_leader.* "The cluster can continue working with one crashed node"
  (`doc/design.md:30`). A node that stepped down after an Okay of a node that then
  crashes has neither a timer nor a coordinator to miss.
- *roaming.* "Any node can renew a lease" (`doc/design.md:40`) and "DHCP clients
  should never use conflicting addresses" (`server.rs:327`) are not both true of
  expired leases, as `commit_lease` does not look at the expiry. In `leases`
  clients renew at the node whose share the address is from, and no address is
  granted twice.

### What the passing runs leave open

Some properties hold of the code only with an exception, which is part of their
statement.

- *A deaf connection* (`PeerLink`, `Zombie`). The read thread starts before the
  connect job has queued `EstablishedPeerConnection`. If the connection ends in
  between, `PeerLost` is handled first and finds nothing to remove; then the dead
  peer is added. No other loss will be reported, so the node never connects to that
  peer again, until one of them restarts. `TablesMatch` and `ReconnectsInTheEnd`
  except a node that holds such a connection and show that nothing else keeps a
  pair apart.
- *Overlapping attempts.* `attempt_connect` looks at the peer table only. When a job
  takes longer than `connect_timeout`, a second connection reaches the acceptor,
  which panics (`server.rs:279`) though nothing crashed. The model counts an
  overlap as a fault of timing; without faults there is no panic
  (`PanicsOnlyIfProvoked`).
- *Several connections at a time* (`NoStrayThreads`). "This should prevent us from
  having simultaneous connections open" (`server.rs:297`) is true of the peer table. At the
  node that connects, the read threads of Peers that have yet to be added deliver all the same, as
  `unknown_sender` shows. What is checked is that at the other node no third connection has
  threads beside the one in the table and one being dropped, and that at neither is there a thread whose
  Peer nobody holds, which could not be stopped.
- *A client that exhausts the pool* (`RefusedOnlyWhenFull`). An offer takes its address
  out of the pool until it expires, and a client without a lease that asks again gets
  another one. The property says only that what has expired never stands in the way.
- *Forgotten leases* (`KeepsAddressBook`). A longer table of a peer may lack leases
  that are in force here, and the service forgets them (`server.rs:441`). So that a lease in force is
  never withdrawn or shortened is checked, and proved, of the service's own steps, and of a
  single lease that is told, that it touches no other. In a cluster that is stable no tables are sent, and there
  the whole promise holds (`ClusterKeepsAddressBook`).
- *Leases when the cluster is not stable.* The runs with leases start with a stable
  cluster and inject no faults; "each lease is granted and updated by a single node"
  (`doc/design.md:51`) and "every node should have a consistent lease table state"
  (`doc/design.md:39`) are checked there only. Beyond that the code does not keep them, and no
  run of this project checks them. At start-up `Coordinator { majority: true }` is
  sent before `SetPool` (`server.rs:229`, `server.rs:249`), and in between a
  follower serves the whole configured pool. A node that crashes after an Ack and before the
  news of it (`server.rs:401`, `server.rs:409`) takes the lease with it, and those left
  divide its addresses. And two nodes that each granted a lease while their
  connection broke have tables of equal length, of which neither replaces the other.
- *A job without a worker* (`JobRuns`). Surplus Quits and panics may end every worker while a
  job is in the queue. It then waits for the next call of `execute` or `set_size`.
- *A stale loss* (`server.rs:318`). The read thread of a refused connection reports
  the loss of its peer, and `remove_peer` then drops the healthy connection. This
  heals by connecting again, once attempts do not overlap any more.
- *A panic on the way to a leader* (`ElectsHighest`). Nodes may panic with no fault
  injected, as in unknown_sender, and what that does to the others' election is
  then part of the run. With three nodes the rest still elect. With four they need not: when the
  highest node has sent an Okay and panics on the Election of another peer that it has yet to
  enter into its table, the node that got the Okay stays a follower, as in
  no_leader. The theorem `HighestIsElected` therefore speaks of states in which
  the highest of all nodes is up.
- *An impatient client* (`OneLeaseEach`). If it starts again while its first Request
  is under way, both may be confirmed, and it has two addresses, one of which it does
  not know of. Clients that wait never do.

### Timing and fairness

A timer can fire at any time: the order of a timer and a message is up to the
scheduler and the network. `ElectsHighest` holds in every order.
`AgreeOnCoordinator` and `PoolsPartition` need what the bully algorithm needs,
that `heartbeat_timeout` outlasts an exchange of messages: the history variable
`timely` records whether every timer so far fired only when no message, connection
or loss was under way, and these two properties speak of timely runs only.
No step of the model is held back by it.

`ElectionSpec` has weak fairness of the steps the nodes take by themselves: the
event loop takes events while there are any, a sleeping thread wakes up, and
`attempt_connect` runs every `connect_timeout`. It is one condition on all of them
together, which promises less than one for each. `EventuallyHighestLeads` is
checked without faults and without timing.

In `ThreadPool` worker threads are scheduled, jobs end (connecting and reading
have timeouts), and a thread that is within `execute` gets through it. Nobody has to
call: `attempt_connect` executes only at the higher node while a peer is missing
(`server.rs:197`), the listener only for a new client, and the test client blocks after its last
batch (`client/src/main.rs:473`). So `JobRuns` says that a job that was sent runs unless no
worker is left, or the pool is dropped. `JobRunsInUse` has as its premise that calls that
succeed go on forever, as those of the main loop do while a lower peer stays away; then a job runs
whatever workers were lost. It is a premise of the property, not of the
specification; the test client does not fulfil it (see the hazards).

`PeerLink` has two conditions: `attempt_connect` goes on, with its job, and of the
jobs, main threads and connection threads that have something to do, one does it. That a read
thread has something to do when its peer is silent is its read timeout; timeouts
that come early are faults (`Late`). `ClientSession` has one: of the workers, the main
thread and the clients that have a message to read, one takes a step. As
connections are bounded there, fairness for each would say no more. No client has to
give up, as its timeout is optional, and the majority need not return.

## The proofs

`tlapm M.tla` checks them. They assume only the named assumptions on constants (the
node ids are a finite set of naturals, the pool is a range of words, the bounds and
the time of a lease are naturals) and what a theorem states as its hypothesis. Every
invariant and every action property of the passing runs is the subject of a theorem,
under the hypotheses named below, and so are `KeepsAddressBook` and
`ClusterKeepsAddressBook`, which relate them to `AddressBook`.

*Ranges* (`Ipv4RangeProofs`, `MCIpv4RangeProofs`), for any word width.
`DivideWithinPool`, `DivideDisjoint` and `DivideCovers` say that a division
partitions the pool and overflows nowhere; they rest on one lemma about where the
shares start. `ScanStaysInRange`: the scan returns a free address of the range if the
cursor is in it; `ScanFindsFree`: it returns exactly one if there is any. The scan is
"the first free address, going round"; that there is a first one is shown by
the least element of the free addresses after the cursor, or, after the wrap, of
all. `PoolOfNetwork`: `from_cidr` is the network without its last address, and
overflows for the topmost network alone; powers of two are counted as
the subsets of the bits, which gives the little arithmetic it needs.
`MCIpv4RangeProofs` puts these together: the typing of the machine's states is inductive, and in a typed state each
lemma applies.

*Service* (`DhcpServiceProofs`), for any clients, pools and clock. `ExclusiveHolder`
is not inductive: a renewal replaces an entry by one with a fresh expiry, and for the
implementation of the address book no entry may be later than that. The
inductive invariant adds the types, the cursor in its pool and `BoundedLeases`,
that expiries lie at most one lease time ahead. From it follow `TypeCorrect`,
`Exclusive`, `CursorStaysInPool`, `OffersComeFromPool`, and `RefusesOnlyWhenFull` with
`ScanFindsFree`: the service prunes before it scans, from a cursor in the pool.
All of this holds whatever leases and tables arrive under `PeerPromise`. A cluster with
roaming clients breaks that promise (`roaming`).

`ImplementsAddressBook` has two halves, under `book <- Unexpired(svc.leases, now)`. Each
of the service's own steps is a grant, the passing of time, or a stutter of
`AddressBook`. A peer's lease is a correction of one grant (`Correct`): it may lengthen,
shorten or end what is known of that grant, and leaves all others alone; that it
is no other client's is what the peer promises. Of a peer's table nothing is said but
what the invariant says, since it may forget any grant. `LeasesLast` adds what follows
from the abstract book: that no address is granted twice (`NoDoubleGrant`) holds always, whatever arrives;
that no lease in force is withdrawn or shortened (`Keeps`) holds of the service's own steps.

*Elections* (`DhcpClusterProofs`), for any number of nodes and clients, any faults and
orders. `IInv` types the state, and types each channel by its ends: an Election travels
only up, an Okay only down. That is what the assertion of `handle_okay`
(`server.rs:466`) rests on, at another node than the one that asserts
(`AssertionHolds`). `TypeCorrect` needs of every share that it lies in the
configured pool, which is `DivideWithinPool`. `CoordinatorsCount`: the count is
right because every handler that changes the table of a coordinator counts again.
`ElectionsAreTimed`: only `finish_election` consumes a timer, and it also
ends the election, so stale timers do no harm to termination.

*Who leads* (`DhcpClusterProofs`, second part). `ElectsHighest` speaks of states in
which nothing is under way, so its invariant has to say what will come of
everything that is. `EInv(h)`, for the highest node `h`, has two parts.

- `Led(h)`: a connection has two ends, at two nodes, and a node that is down has no
  peers (`Ends`); `h` with peers is never a mere follower (`Stands`); any other node
  that leads or waits, and is connected with `h`, will hear from it: an Election is on its way to `h`, or `h` is electing, or a Coordinator
  message is on its way back (`Defers`). At rest only the leader `h` is left:
  `HighestIsElected`.
- `Concluded(h) /\ timely => Outcome(h)`: once all nodes are connected and `h` leads
  undisputed, no other node's orders are on their way (`OneVoice`); each node has `h`'s
  id and majority bit or will have them after the last Coordinator message from `h`
  (`Obeys`); and the pools the nodes have, or will have after the last SetPool from
  `h`, are a division of the configured one (`Divided`). At rest that is
  `LeaderIsAgreedOn` and `PoolIsPartitioned`. `BecomeCoordinator` establishes it
  with `DivideDisjoint` and `DivideCovers`, whatever the order of the peers. Only
  this part needs `timely`: a timer that overtakes an Okay makes a lower node a
  coordinator, whose SetPool may come last.

TLC checked `EInv` on three nodes with crashes and broken connections before it was
proved. The hypotheses are those without which the statement is false.
`HighestIsElected` speaks of states with the highest node up (`HighestIsUp`), for the
reason given above, and of clusters with more than one node, since a node that is
alone never starts an election; the other two speak of states with all nodes up,
since without that a peer table may hold a peer that is no more, and its share is
nobody's. TLC checks `ElectsHighest` and `PoolsPartition` without these hypotheses on
two and three nodes.

*Leases* (`DhcpLeasesProofs`), for any number of nodes and clients, any pool and
bounds, under `Undisturbed`: clients confirm at the node that made the offer, and nothing crashes
or breaks. (The run `roaming` shows what happens without the first; crashes with
leases are in the plan.) All but `TablesComeToAgree` need `LeaseTime > 0`: with a lease
time of zero an Ack is out of date when it is sent.
None of the properties is inductive. `NoDoubleGrant` rests on: shares are disjoint
(`SharesDisjoint`), a node's table is in order (`Orderly`), and every Ack in force is
an entry of the node whose share its address is from (`AcksStand`), which is
`AcksAreRecorded`. `TablesComeToAgree` compares two tables at different nodes, with news under
way: `InStep` says that the receiver's table, after the news in the channel
(`AfterNews`), agrees with the sender's on the leases in force of the sender's share.
That the last news of a grant decides (`LastNews`) is a lemma about sequences.
`ClusterIsAddressBook` is about the nodes' tables, not about what clients were told: the book
is what the nodes have in force, each of its own share (`LeasesInForce`). A commit is a grant;
that nobody else holds the address follows from disjoint shares and `Orderly`,
and that a renewal does not shorten what there is, from `Dated`: no node has an entry of its share later
than one granted now. News of a lease goes to nodes whose share it is not from, and pruning
takes only what has expired, so both are stutters of the book.

`ElectionStabilizes` joins this half to the other: in a cluster of more than one node
in which no client has asked for anything yet (`NoRequests`), whatever broke, crashed
and was elected before, a state in which all nodes are up, connected and at rest, with
timely timers, is `Stable`, the state from which `LeasesSpec` starts. So `StableInit` is
no invention of the model. Beside `EInv` it needs that nothing else fills
the tables (`Clean`): until a request, lease tables are exchanged, but empty, and
every service is as `set_pool` left it.

*Thread pool* (`ThreadPoolProofs`), for any callers, sizes and queue. `TypeOK` is
inductive. `NoExcessWorkers` relates the workers to the Quits in the queue; the proof
needs how each operation on the queue changes their number (`QuitsIn`), as a cardinality
of positions. Panics only lower the count; `respawn` fills up to `size`, or less if
threads are refused (`Spawned`), by a count of all workers, those with a Quit to take included.

*Connections* (`PeerLinkProofs`), for any number of connections, overlaps and faults.
`NoStrayThreads` is not inductive. The invariant says which threads belong to whom
(`Owned`), that a connection in the making has no history (`Fresh`), that it
comes in once (`Once`), and that the end of a read thread is in the queue as
a `PeerLost` or has a reason that lasts (`Reported`, `Written`). From it follow
`ThreadsAreOwned` and, at rest, `TablesAgreeAtRest`. `PanicsAreProvoked` is about
runs without a fault: there is one connection then, and `Unprovoked` follows it
through every stage of its handshake.

*Clients* (`ClientSessionProofs`), for any number of clients, connections and workers.
`HeldIsLeased` speaks of a client's table and the node's; between the two lie a
Request, an event, an answer on a channel and an Ack, so `IInv` follows the address
through them. The parts, in the order of a conversation: a connection has one client
and is queued once (`Apart`, `Queued`); a worker has one event in the queue at most,
and its stage says which (`Waits`); what it was given to offer is known to the service
and for one lease time at most (`Offers`); the Request and the event of a connection
name the client that waits on it, and its address (`Inboxes`, `Asked`); the worker's
"yes" and the Ack mean that this address is leased until the client's start plus its
time, or that this moment is past (`Answered`, `Granted`). A client that gives up only
falsifies left sides. For the service, two lemmas say what a Discover (`DiscoverGood`)
and a Request (`CommitGood`) keep. From `IInv` follow `TypeCorrect`, `HeldIsTheirs`
and `OffersAreKept`. `OneLeaseIsEnough` needs a second invariant, `JInv`, of what the
service knows of a client that waits: it has one lease, and what it is offered or asks for is at no other
address (`Single`). That rests on whose events and Requests these are
(`Attributed`), as an abandoned conversation may still be served.

Only model-checked are the liveness properties: `EventuallyHighestLeads`, `JobRuns`,
`JobRunsInUse`, `DropEnds`, `MainReturns`, `ReconnectsInTheEnd`, `WorkersReturn` and `QueriesEnd`.
Liveness under fairness needs ENABLED, which is out of the prover's reach. So are the
library's induction theorems, whose parameter is an operator. Where a proof
needs induction over data (the least free address, the highest node, powers of
two), it takes the least counterexample of a set of naturals instead. No module has a
RECURSIVE operator.

## Not modelled

- Elections over connections that overlap: `PeerLink` has the connections without
  payloads, `DhcpCluster` the payloads on one connection of a pair at a time.
- The duration of a handler. That `answer_handshake` and `Peer::drop` keep the main
  thread from its queue is in `PeerLink`; that peers then miss heartbeats is `Late`
  there and `Break` in `DhcpCluster`.
- Clients that break the protocol: a second Discover, a Request for an address they
  were not offered (`DhcpService` and `DhcpCluster` have requests for any address).
- Who answers a client when its DNS name has several addresses, and clients that
  turn to another node (in `DhcpLeases`, as `Roaming`).
- Clocks that differ: the design relies on NTP (`doc/design.md:51`).
- Encoding, configuration files, the console, the test client's commands and its
  batches of queries on a thread pool.
- Vector entries equal in all three fields count once. The length that
  `LeaseTable` compares is that of the set.

## Plan

Done, in this order: `Ipv4Range`, `DhcpOps`, `DhcpService` with `AddressBook`,
`DhcpCluster`, `DhcpElection`, `DhcpLeases`, `ThreadPool`, `PeerLink`,
`ClientSession`, and the proofs of the safety properties that hold of them. To come:

1. What does hold of leases through faults and at start-up: which Acks survive a crash, a
   broken connection or another division. Those whose news has arrived at a node
   that stays, or whose node keeps its share, as long as no longer table replaces its own.
   That includes an offer of an old pool that is confirmed after `set_pool` (`dhcp.rs:225`).
2. Proofs: that `ElectsHighest` holds after crashes as long as every step-down was
   followed by a Coordinator message; leases of a cluster that is not stable, between
   `Clean` and `LInv`.
3. Faults with three nodes, under a bound that finishes.
