---------------------------- MODULE ClientSession ----------------------------
(***************************************************************************)
(* The conversations of clients with one node: the test client's query and *)
(* renew (client/src), the workers that serve connections (server-node/src *)
(* /server/client.rs), and the main thread's two handlers for them. The    *)
(* majority bit changes at any moment, clients give up or vanish, and a    *)
(* worker that hears nothing for client_timeout returns.                   *)
(*                                                                         *)
(* Each client follows one connection at a time; one that gave up may open *)
(* the next while a worker still serves the last. Connections are numbered *)
(* as they are opened. Other nodes, and what they tell of leases, are left *)
(* to DhcpLeases.                                                          *)
(***************************************************************************)
EXTENDS DhcpOps, Sequences, FiniteSets

CONSTANTS Macs,           \* the clients
          Pool,           \* the node's share of the addresses
          MaxConns,       \* bound on the connections that are ever opened
          Workers,        \* the size of the thread pool
          MayGiveUp,      \* the clients that may not wait for an answer
          MaxTime,        \* bound on the clock
          MaxFlips        \* bound on changes of the majority bit

ASSUME PoolAssumption == Pool \in Ranges
ASSUME BoundsAssumption == {MaxConns, MaxTime, MaxFlips} \subseteq Nat /\ Workers \in Nat \ {0}
ASSUME MayGiveUpAssumption == MayGiveUp \subseteq Macs

VARIABLES
  svc,            \* Server::dhcp_service
  majority,       \* Server::majority
  now,            \* the time, the same for clients and node
  events,         \* the LeaseRequests and ConfirmRequests of the main thread's queue
  backlog,        \* the jobs of the thread pool that no worker has taken
  stage,          \* how far the worker of a connection is
  inbox,          \* the message of the client the worker has not read, if any
  outbox,         \* the message of the worker the client has not read, if any
  reply,          \* what came on the channel of the worker's last event
  offer,          \* the lease the worker was given to offer
  client,         \* what a client is waiting for
  held,           \* the client's table of leases
  flips           \* how often the majority bit has changed

workerVars == <<backlog, stage, reply, offer>>
streams == <<inbox, outbox>>
vars == <<svc, majority, now, events, backlog, stage, inbox, outbox, reply,
          offer, client, held, flips>>

Conns == 1 .. MaxConns

\* Messages of the protocol crate, events of the main thread.
Discover(c) == [type |-> "Discover", mac |-> c]
Request(c, a) == [type |-> "Request", mac |-> c, addr |-> a]
Offer(a, t) == [type |-> "Offer", addr |-> a, time |-> t]
Ack == [type |-> "Ack"]
Nack == [type |-> "Nack"]

LeaseRequest(k, m) == [type |-> "LeaseRequest", conn |-> k, mac |-> m.mac]
ConfirmRequest(k, m) == [type |-> "ConfirmRequest", conn |-> k, mac |-> m.mac, addr |-> m.addr]

Idle == [phase |-> "idle", conn |-> {}, start |-> 0, addr |-> 0, time |-> 0]

Init ==
  /\ svc = NewService(Pool) /\ majority = TRUE /\ now = 0
  /\ events = <<>> /\ backlog = <<>>
  /\ stage = [k \in Conns |-> "unopened"]
  /\ inbox = [k \in Conns |-> {}] /\ outbox = [k \in Conns |-> {}]
  /\ reply = [k \in Conns |-> "none"] /\ offer = [k \in Conns |-> {}]
  /\ client = [c \in Macs |-> Idle] /\ held = {} /\ flips = 0

\* Has the connection a client that reads it?
Attached(k) == \E c \in Macs : k \in client[c].conn

\* The leases of the client's table that have not run out (main.rs:685).
InForce(b, t) == t - b.start < b.time

-----------------------------------------------------------------------------
(* Clients.                                                                *)

Opened == {k \in Conns : stage[k] # "unopened"}

\* A connection and its first message; listen_clients makes a job of it.
Open(c, state, m) ==
  \E k \in Conns \ Opened :
    /\ client[c] = Idle /\ \A j \in Conns : j < k => j \in Opened
    /\ client' = [client EXCEPT ![c] = [state EXCEPT !.conn = {k}, !.start = now]]
    /\ stage' = [stage EXCEPT ![k] = "queued"]
    /\ backlog' = Append(backlog, k)
    /\ inbox' = [inbox EXCEPT ![k] = {m}]
    /\ UNCHANGED <<svc, majority, now, events, outbox, reply, offer, held, flips>>

\* query, get_offer
Query(c) == Open(c, [Idle EXCEPT !.phase = "discovering"], Discover(c))

\* renew, of a lease that is still in the table; its lease time is kept.
Renew(c) ==
  \E b \in held :
    /\ b.mac = c /\ InForce(b, now)
    /\ Open(c, [Idle EXCEPT !.phase = "renewing", !.addr = b.addr, !.time = b.time],
            Request(c, b.addr))

\* The client's end of the stream is closed, and what it has not read is lost.
Leave(c) ==
  /\ client' = [client EXCEPT ![c] = Idle]
  /\ outbox' = [k \in Conns |-> IF k \in client[c].conn THEN {} ELSE outbox[k]]
  /\ UNCHANGED <<svc, majority, now, events, workerVars, flips>>

\* What c can read on connection k.
Answers(c, k, type) == {m \in outbox[k] : client[c].conn = {k} /\ m.type = type}

\* query goes on with get_ack. What is written to a worker that is gone is lost.
ReceiveOffer(c, k) ==
  \E m \in Answers(c, k, "Offer") :
    /\ client' = [client EXCEPT ![c].phase = "requesting", ![c].addr = m.addr,
                                ![c].time = m.time]
    /\ outbox' = [outbox EXCEPT ![k] = {}]
    /\ inbox' = [inbox EXCEPT ![k] = IF stage[k] = "done" THEN {} ELSE {Request(c, m.addr)}]
    /\ UNCHANGED <<svc, majority, now, events, workerVars, held, flips>>

\* The entry that an Ack makes in the client's table.
EntryOf(c, start) ==
  [mac |-> c, addr |-> client[c].addr, start |-> start, time |-> client[c].time]

\* A wrong query: the lease counts from the answer on.
ReceiveAckLate(c, k) ==
  /\ Answers(c, k, "Ack") # {}
  /\ held' = {b \in held : b.addr # client[c].addr} \cup {EntryOf(c, now)}
  /\ Leave(c) /\ UNCHANGED inbox

\* The lease counts from the start of the query.
ReceiveAck(c, k) ==
  /\ Answers(c, k, "Ack") # {}
  /\ held' = {b \in held : b.addr # client[c].addr} \cup {EntryOf(c, client[c].start)}
  /\ Leave(c) /\ UNCHANGED inbox

\* A Nack, or the stream ends without an answer.
ReceiveNothing(c, k) ==
  /\ \/ Answers(c, k, "Nack") # {}
     \/ client[c].conn = {k} /\ outbox[k] = {} /\ stage[k] = "done"
  /\ Leave(c)
  /\ UNCHANGED <<inbox, held>>

\* The client's timeout, or its end. What it has written may be lost, and the node
\* need not hear of it; if it does, that is a ReadFails that comes early.
GiveUp(c) ==
  /\ c \in MayGiveUp /\ client[c] # Idle
  /\ Leave(c)
  /\ \E K \in {{}, client[c].conn} : inbox' = [k \in Conns |-> IF k \in K THEN {} ELSE inbox[k]]
  /\ UNCHANGED held

-----------------------------------------------------------------------------
(* Workers.                                                                *)

Busy == {k \in Opened : stage[k] \notin {"queued", "done"}}

TakeConnection ==
  /\ backlog # <<>> /\ Cardinality(Busy) < Workers
  /\ stage' = [stage EXCEPT ![Head(backlog)] = "reading"]
  /\ backlog' = Tail(backlog)
  /\ UNCHANGED <<svc, majority, now, events, streams, reply, offer, client, held, flips>>

\* The message a worker at stage `from` can read.
Messages(k, from, type) == {m \in inbox[k] : stage[k] = from /\ m.type = type}

\* The worker sends an event and waits on the channel that came with it.
Ask(k, to, event) ==
  /\ stage' = [stage EXCEPT ![k] = to]
  /\ inbox' = [inbox EXCEPT ![k] = {}]
  /\ events' = Append(events, event)
  /\ reply' = [reply EXCEPT ![k] = "none"]
  /\ UNCHANGED <<svc, majority, now, backlog, outbox, offer, client, held, flips>>

\* serve_client: a Discover, or a Request to renew; then the Request after an offer.
ReadDiscover(k) ==
  \E m \in Messages(k, "reading", "Discover") : Ask(k, "discovering", LeaseRequest(k, m))

ReadRenewal(k) ==
  \E m \in Messages(k, "reading", "Request") : Ask(k, "renewing", ConfirmRequest(k, m))

ReadRequest(k) ==
  \E m \in Messages(k, "offered", "Request") : Ask(k, "confirming", ConfirmRequest(k, m))

\* The worker returns, which closes the stream.
Finish(k) ==
  /\ stage' = [stage EXCEPT ![k] = "done"]
  /\ inbox' = [inbox EXCEPT ![k] = {}]
  /\ reply' = [reply EXCEPT ![k] = "none"] /\ offer' = [offer EXCEPT ![k] = {}]
  /\ UNCHANGED <<svc, majority, now, events, backlog, client, held, flips>>

\* A wrong serve_client: no read timeout.
ReadFailsNever(k) == FALSE /\ UNCHANGED vars

\* Nothing comes within client_timeout, or the stream ends.
ReadFails(k) ==
  /\ stage[k] \in {"reading", "offered"} /\ inbox[k] = {}
  /\ Finish(k)
  /\ UNCHANGED outbox

\* What is written to a client that is gone is lost.
Write(k, m) == outbox' = [outbox EXCEPT ![k] = IF Attached(k) THEN {m} ELSE {}]

\* The time an offer has left (LeaseOffer::from), none if it is an expired lease.
Remaining(l) == IF l.exp > now THEN l.exp - now ELSE 0

\* handle_discover has an offer.
SendOffer(k) ==
  /\ stage[k] = "discovering" /\ reply[k] = "yes"
  /\ \E l \in offer[k] : Write(k, Offer(l.addr, Remaining(l)))
  /\ stage' = [stage EXCEPT ![k] = "offered"]
  /\ UNCHANGED <<svc, majority, now, events, backlog, inbox, reply, offer, client, held, flips>>

SendAck(k) ==
  /\ stage[k] \in {"confirming", "renewing"} /\ reply[k] = "yes"
  /\ Write(k, Ack)
  /\ Finish(k)

\* No offer, or a denied request; handle_renew takes no answer for a denial.
SendNack(k) ==
  /\ \/ stage[k] \in {"confirming", "renewing"} /\ reply[k] = "no"
     \/ stage[k] \in {"discovering", "renewing"} /\ reply[k] = "dropped"
  /\ Write(k, Nack)
  /\ Finish(k)

\* handle_discover whose confirmation was dropped answers nothing; nor does it go on
\* when the offer cannot be sent.
EndSilently(k) ==
  /\ \/ stage[k] = "confirming" /\ reply[k] = "dropped"
     \/ stage[k] = "discovering" /\ reply[k] = "yes" /\ ~Attached(k)
  /\ Finish(k)
  /\ UNCHANGED outbox

-----------------------------------------------------------------------------
(* The main thread.                                                        *)

Handles(e, type) == events # <<>> /\ e = Head(events) /\ e.type = type

Respond(k, r) ==
  /\ reply' = [reply EXCEPT ![k] = r]
  /\ events' = Tail(events)
  /\ UNCHANGED <<majority, now, backlog, stage, streams, client, held, flips>>

\* A wrong handle_lease_request: without a majority the sender is kept and never used.
HandleLeaseRequestOnlyOnMajority(e) ==
  /\ Handles(e, "LeaseRequest")
  /\ \E o \in DiscoverLease(svc, e.mac, now) :
       /\ svc' = IF majority THEN o.svc ELSE svc
       /\ offer' = [offer EXCEPT ![e.conn] = IF majority THEN o.offer ELSE {}]
       /\ Respond(e.conn, IF ~majority THEN "none" ELSE IF o.offer = {} THEN "dropped" ELSE "yes")

\* handle_lease_request: without a majority, or an address, the sender is dropped.
HandleLeaseRequest(e) ==
  /\ Handles(e, "LeaseRequest")
  /\ \/ /\ ~majority
        /\ Respond(e.conn, "dropped")
        /\ UNCHANGED <<svc, offer>>
     \/ /\ majority
        /\ \E o \in DiscoverLease(svc, e.mac, now) :
             /\ svc' = o.svc
             /\ offer' = [offer EXCEPT ![e.conn] = o.offer]
             /\ Respond(e.conn, IF o.offer = {} THEN "dropped" ELSE "yes")

\* handle_confirm_request
HandleConfirmRequest(e) ==
  /\ Handles(e, "ConfirmRequest")
  /\ \/ /\ ~majority
        /\ Respond(e.conn, "dropped")
        /\ UNCHANGED <<svc, offer>>
     \/ /\ majority
        /\ \E o \in CommitLease(svc, e.mac, e.addr, now) :
             /\ svc' = o.svc
             /\ Respond(e.conn, IF o.acked = {} THEN "no" ELSE "yes")
        /\ UNCHANGED offer

-----------------------------------------------------------------------------
(* The environment.                                                        *)

\* The node hears of a majority, or of the loss of it.
Flip ==
  /\ flips < MaxFlips
  /\ flips' = flips + 1 /\ majority' = ~majority
  /\ UNCHANGED <<svc, now, events, workerVars, streams, client, held>>

\* As the client prunes its table before every command, entries that have run out
\* are never used.
Tick ==
  /\ now < MaxTime
  /\ now' = now + 1
  /\ held' = {b \in held : InForce(b, now')}
  /\ UNCHANGED <<svc, majority, events, workerVars, streams, client, flips>>

-----------------------------------------------------------------------------
Receive(c) ==
  \E k \in Conns : ReceiveOffer(c, k) \/ ReceiveAck(c, k) \/ ReceiveNothing(c, k)

Worker(k) ==
  \/ ReadDiscover(k)
  \/ ReadRenewal(k)
  \/ ReadRequest(k)
  \/ ReadFails(k)
  \/ SendOffer(k)
  \/ SendAck(k)
  \/ SendNack(k)
  \/ EndSilently(k)

Main ==
  \E e \in {events[n] : n \in DOMAIN events} : HandleLeaseRequest(e) \/ HandleConfirmRequest(e)

\* What the node's threads and the clients that wait do by themselves.
Serving ==
  \/ TakeConnection
  \/ \E k \in Conns : Worker(k)
  \/ Main
  \/ \E c \in Macs : Receive(c)

Next ==
  \/ \E c \in Macs : Query(c) \/ Renew(c) \/ GiveUp(c)
  \/ Serving
  \/ Flip
  \/ Tick

\* Fairness: one of the threads runs as long as one can, a read has a timeout, and a
\* client reads what it is sent. No client need ever give up or ask: config.timeout is
\* optional. As MaxConns bounds the work, fairness to each thread would add nothing.
Spec == Init /\ [][Next]_vars /\ WF_vars(Serving)

-----------------------------------------------------------------------------
Leases == [mac : Macs, addr : Addresses(Pool), exp : Nat]

TypeOK ==
  /\ svc \in [pool : {Pool}, leases : SUBSET Leases, pending : SUBSET Leases, next : Nat]
  /\ majority \in BOOLEAN /\ {now, flips} \subseteq Nat
  /\ backlog \in Seq(Conns)
  /\ stage \in [Conns -> {"unopened", "queued", "reading", "discovering", "offered", "confirming",
                          "renewing", "done"}]
  /\ reply \in [Conns -> {"none", "yes", "no", "dropped"}]
  /\ offer \in [Conns -> SUBSET Leases]
  /\ \A c \in Macs : client[c].conn \subseteq Conns /\ Cardinality(client[c].conn) <= 1
  /\ \A b \in held : b.mac \in Macs /\ b.addr \in Addresses(Pool) /\ b.time \in Nat

\* An address that a client takes for its own is leased to it, and to nobody else,
\* at least as long as it thinks: whatever time the offer, the confirmation and the
\* answers took, or a renewal that keeps the time of an old offer.
HeldIsLeased ==
  \A b \in held : InForce(b, now) =>
    /\ \E l \in svc.leases : l.mac = b.mac /\ l.addr = b.addr /\ l.exp >= b.start + b.time
    /\ \A l \in svc.leases : l.addr = b.addr => l.mac = b.mac

\* An offer stands until it expires: what other clients, or an abandoned conversation
\* of the same client, do in the meantime takes nothing from a client that waits.
OffersStand ==
  \A k \in Conns : \A l \in offer[k] :
    Attached(k) /\ l.exp > now => Matching(Held(svc), l.mac, l.addr) # {}

\* A client that waits for answers has one lease at most, however often it asks; one
\* that gives up may come to have two, by a Request that is served after it has
\* started again.
OneLeaseEach ==
  \A c \in Macs \ MayGiveUp : Cardinality({l \in svc.leases : l.mac = c}) <= 1

\* A worker never serves a connection for ever, though its client may vanish without
\* closing the stream: when no more connections are opened, the thread pool is free
\* again, which is also needed to connect to peers.
WorkersReturn == <>[](\A k \in Opened : stage[k] = "done")

\* No client waits for ever, with or without a majority, even one without a timeout
\* of its own: its query ends with a lease, a Nack or the end of the stream.
QueriesEnd == \A c \in Macs \ MayGiveUp : client[c] # Idle ~> client[c] = Idle
=============================================================================
