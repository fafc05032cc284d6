------------------------------- MODULE PeerLink -------------------------------
(***************************************************************************)
(* One pair of nodes and all of its connections (server-node/src/server/   *)
(* peer.rs and the part of server.rs that uses it). The node with the      *)
(* higher id, "hi", connects to the other one, "lo". At each side there    *)
(* are the main thread with its queue of events, and a read and a write    *)
(* thread per connection; at hi also the connect jobs in the thread pool.  *)
(*                                                                         *)
(* Connections may overlap: attempt_connect starts a job every             *)
(* connect_timeout while the peer is not in the table, whatever became of  *)
(* the one before. A job that outlasts that time is a fault of timing, as  *)
(* is a heartbeat that comes too late. Payloads and heartbeats are left    *)
(* out: a read thread goes on until it has a reason to end.                *)
(***************************************************************************)
EXTENDS Integers, Sequences, FiniteSets

CONSTANTS MaxConns,       \* bound on the connections that exist at a time
          MaxFaults       \* bound on crashes, restarts, broken connections, delays

ASSUME BoundsAssumption == {MaxConns, MaxFaults} \subseteq Nat

VARIABLES
  up,             \* the sides whose process runs
  queue,          \* the events for the main thread of a side
  table,          \* the connection of the Peer in Server::peers, if there is one
  main,           \* what the main thread of a side is in the middle of
  jobs,           \* connect jobs no worker has taken yet
  job,            \* how far the job that opened a connection is
  shake,          \* the last message of the handshake that was sent
  reading,        \* the connections with a read thread, per side
  writing,        \* the connections with a write thread, per side
  broken,         \* the connections the network does not carry any more
  early,          \* the connections whose loss hi handled before their establishment
  faults          \* how many faults have happened

jobVars == <<jobs, job, shake>>
threads == <<reading, writing>>
vars == <<up, queue, table, main, jobs, job, shake, reading, writing, broken,
          early, faults>>

Sides == {"hi", "lo"}

Other(s) == IF s = "hi" THEN "lo" ELSE "hi"

Conns == 1 .. MaxConns

\* Event::IncomingPeerConnection, EstablishedPeerConnection and PeerLost. The
\* code's PeerLost holds the peer's id only; its connection is named for `early`.
Events == [type : {"Incoming", "Established", "Lost"}, conn : Conns]

Event(type, k) == [type |-> type, conn |-> k]

Queued(s, type, k) == \E n \in DOMAIN queue[s] : queue[s][n] = Event(type, k)

\* The main thread takes events, or joins the threads of a Peer that is dropped:
\* in remove_peer, or because add_peer had one already.
Loop == [task |-> "loop", conn |-> {}]
Dropping(task, K) == [task |-> task, conn |-> K]

Init ==
  /\ up = Sides
  /\ queue = [s \in Sides |-> <<>>]
  /\ table = [s \in Sides |-> {}]
  /\ main = [s \in Sides |-> Loop]
  /\ jobs = 0 /\ job = [k \in Conns |-> "none"] /\ shake = [k \in Conns |-> "none"]
  /\ reading = [s \in Sides |-> {}] /\ writing = [s \in Sides |-> {}]
  /\ broken = {} /\ early = {} /\ faults = 0

-----------------------------------------------------------------------------
(* Sockets. A socket is closed once nobody at that side holds a clone of it. *)

Open(s, k) ==
  \/ k \in reading[s] \cup writing[s]
  \/ s = "hi" /\ job[k] # "none"
  \/ s = "lo" /\ Queued(s, "Incoming", k)

\* Nothing comes from s any more, no heartbeat either.
Silent(s, k) ==
  /\ k \notin writing[s]
  /\ ~(s = "hi" /\ job[k] \in {"connected", "joined"})
  /\ ~(s = "lo" /\ Queued(s, "Incoming", k))

\* Nothing is left of a connection: its number may be used anew.
Gone(k) ==
  \A s \in Sides :
    /\ ~Open(s, k) /\ k \notin table[s] \cup main[s].conn
    /\ \A n \in DOMAIN queue[s] : queue[s][n].conn # k

\* Has hi a connection in the making?
Underway ==
  \/ jobs > 0
  \/ \E k \in Conns : job[k] # "none" \/ Queued("hi", "Established", k)

Take(s) == [queue EXCEPT ![s] = Tail(@)]

Put(s, e) == [queue EXCEPT ![s] = Append(@, e)]

-----------------------------------------------------------------------------
(* Connect jobs of hi.                                                     *)

StartJob ==
  /\ jobs' = jobs + 1
  /\ UNCHANGED <<up, queue, table, main, job, shake, threads, broken, early>>

\* A wrong attempt_connect: it does not look at the peer table.
AttemptBlindly ==
  "hi" \in up /\ main["hi"] = Loop /\ ~Underway /\ StartJob /\ UNCHANGED faults

\* attempt_connect, between two events
MayAttempt == "hi" \in up /\ main["hi"] = Loop /\ table["hi"] = {}

AttemptConnect == MayAttempt /\ ~Underway /\ StartJob /\ UNCHANGED faults

\* TcpStream::connect_timeout in the job; Peer::listen queues the event.
JobConnects ==
  LET free == {k \in Conns : Gone(k)}
      k    == CHOOSE k \in free : \A l \in free : k <= l
  IN
  /\ jobs > 0 /\ "lo" \in up /\ free # {}
  /\ jobs' = jobs - 1
  /\ job' = [job EXCEPT ![k] = "connected"]
  /\ shake' = [shake EXCEPT ![k] = "none"]
  /\ broken' = broken \ {k} /\ early' = early \ {k}
  /\ queue' = Put("lo", Event("Incoming", k))
  /\ UNCHANGED <<up, table, main, threads, faults>>

\* No connection: nobody listens.
JobFails ==
  /\ jobs > 0 /\ "lo" \notin up
  /\ jobs' = jobs - 1
  /\ UNCHANGED <<up, queue, table, main, job, shake, threads, broken, early, faults>>

\* start_handshake sends the Join.
JobSendsJoin(k) ==
  /\ job[k] = "connected" /\ k \notin broken
  /\ job' = [job EXCEPT ![k] = "joined"]
  /\ shake' = [shake EXCEPT ![k] = "Join"]
  /\ UNCHANGED <<up, queue, table, main, jobs, threads, broken, early, faults>>

\* start_handshake receives the JoinAck: Peer::new starts the threads.
JobIsAnswered(k) ==
  /\ job[k] = "joined" /\ shake[k] = "JoinAck"
  /\ job' = [job EXCEPT ![k] = "answered"]
  /\ reading' = [reading EXCEPT !["hi"] = @ \cup {k}]
  /\ writing' = [writing EXCEPT !["hi"] = @ \cup {k}]
  /\ UNCHANGED <<up, queue, table, main, jobs, shake, broken, early, faults>>

\* The job hands the Peer over to the main thread.
JobReports(k) ==
  /\ job[k] = "answered"
  /\ job' = [job EXCEPT ![k] = "none"]
  /\ queue' = Put("hi", Event("Established", k))
  /\ UNCHANGED <<up, table, main, jobs, shake, threads, broken, early, faults>>

\* The handshake ends with an error: the connection is gone, or no answer has
\* come for three heartbeats.
AbandonHandshake(k) ==
  /\ job[k] \in {"connected", "joined"}
  /\ job' = [job EXCEPT ![k] = "none"]
  /\ UNCHANGED <<up, queue, table, main, jobs, shake, threads, broken, early>>

JobGivesUp(k) ==
  /\ k \in broken \/ ~Open("lo", k)
  /\ AbandonHandshake(k)
  /\ UNCHANGED faults

-----------------------------------------------------------------------------
(* The main threads.                                                       *)

Handles(s, type, k) ==
  /\ s \in up /\ main[s] = Loop
  /\ queue[s] # <<>> /\ Head(queue[s]) = Event(type, k)

\* A wrong add_peer: the peer table is not looked at.
AddPeerBlindly(s, k) == table' = [table EXCEPT ![s] = @ \cup {k}] /\ UNCHANGED main

\* add_peer: a second Peer is dropped, which takes until its threads have ended.
AddPeer(s, k) ==
  IF table[s] = {}
    THEN table' = [table EXCEPT ![s] = {k}] /\ UNCHANGED main
    ELSE main' = [main EXCEPT ![s] = Dropping("refuse", {k})] /\ UNCHANGED table

\* answer_handshake: until the Join arrives nothing else is handled.
AnswerHandshake(k) ==
  /\ Handles("lo", "Incoming", k)
  /\ shake[k] = "Join"
  /\ queue' = Take("lo")
  /\ shake' = [shake EXCEPT ![k] = "JoinAck"]
  /\ reading' = [reading EXCEPT !["lo"] = @ \cup {k}]
  /\ writing' = [writing EXCEPT !["lo"] = @ \cup {k}]
  /\ AddPeer("lo", k)
  /\ UNCHANGED <<up, jobs, job, broken, early, faults>>

\* answer_handshake without a Join, or the JoinAck cannot be sent.
ForgetIncoming(k) ==
  /\ Handles("lo", "Incoming", k)
  /\ queue' = Take("lo")
  /\ UNCHANGED <<up, table, main, jobVars, threads, broken, early>>

AnswerFails(k) ==
  /\ k \in broken \/ ~Open("hi", k)
  /\ ForgetIncoming(k)
  /\ UNCHANGED faults

\* EstablishedPeerConnection
Establish(k) ==
  /\ Handles("hi", "Established", k)
  /\ queue' = Take("hi")
  /\ AddPeer("hi", k)
  /\ UNCHANGED <<up, jobVars, threads, broken, early, faults>>

\* A wrong remove_peer: the threads of the Peer are not joined.
DropUnjoined(s) == table' = [table EXCEPT ![s] = {}] /\ UNCHANGED main

\* Of whatever connection the event is, remove_peer drops the one in the table.
DropPeer(s) ==
  IF table[s] = {}
    THEN UNCHANGED <<table, main>>
    ELSE /\ table' = [table EXCEPT ![s] = {}]
         /\ main' = [main EXCEPT ![s] = Dropping("remove", table[s])]

\* PeerLost
RemovePeer(s, k) ==
  /\ Handles(s, "Lost", k)
  /\ queue' = Take(s)
  /\ DropPeer(s)
  /\ early' = IF s = "hi" /\ (job[k] # "none" \/ Queued(s, "Established", k))
                THEN early \cup {k} ELSE early
  /\ UNCHANGED <<up, jobVars, threads, broken, faults>>

Joined(s) == main[s] # Loop /\ main[s].conn \cap (reading[s] \cup writing[s]) = {}

\* Peer::drop returns.
DropEnds(s) ==
  /\ Joined(s) /\ ~(s = "lo" /\ main[s].task = "refuse")
  /\ main' = [main EXCEPT ![s] = Loop]
  /\ UNCHANGED <<up, queue, table, jobVars, threads, broken, early, faults>>

-----------------------------------------------------------------------------
(* The process of a side ends: a crash or a panic of the main thread.      *)

Halt(s) ==
  /\ up' = up \ {s}
  /\ queue' = [queue EXCEPT ![s] = <<>>]
  /\ table' = [table EXCEPT ![s] = {}]
  /\ main' = [main EXCEPT ![s] = Loop]
  /\ reading' = [reading EXCEPT ![s] = {}]
  /\ writing' = [writing EXCEPT ![s] = {}]
  /\ \/ /\ s = "hi"
        /\ jobs' = 0 /\ job' = [k \in Conns |-> "none"]
     \/ /\ s = "lo"
        /\ UNCHANGED <<jobs, job>>
  /\ UNCHANGED <<shake, broken, early>>

\* add_peer fails in answer_handshake: the expect panics when the drop is done.
HandshakePanics ==
  /\ Joined("lo") /\ main["lo"].task = "refuse"
  /\ Halt("lo")
  /\ UNCHANGED faults

-----------------------------------------------------------------------------
(* The threads of a connection.                                            *)

EndReader(s, k) ==
  /\ k \in reading[s]
  /\ reading' = [reading EXCEPT ![s] = @ \ {k}]
  /\ queue' = Put(s, Event("Lost", k))
  /\ UNCHANGED <<up, table, main, jobVars, writing, broken, early>>

\* A wrong read_thread_fn: PeerLost is for the end of the stream only, not for an error.
ReaderEndsUnreported(s, k) ==
  /\ k \in reading[s]
  /\ k \in broken \cup main[s].conn \/ Silent(Other(s), k)
  /\ reading' = [reading EXCEPT ![s] = @ \ {k}]
  /\ queue' = IF k \in broken THEN queue ELSE Put(s, Event("Lost", k))
  /\ UNCHANGED <<up, table, main, jobVars, writing, broken, early, faults>>

\* A wrong Peer::new: no read timeout, so that only the end of the stream or a
\* message after `terminated` ends the thread.
ReaderEndsUntimed(s, k) ==
  /\ k \notin broken
  /\ ~Open(Other(s), k) \/ (k \in main[s].conn /\ ~Silent(Other(s), k))
  /\ EndReader(s, k)
  /\ UNCHANGED faults

\* read_thread_fn ends: three heartbeats did not come, the other side closed the
\* connection, or `terminated` is seen after the next message.
ReaderEnds(s, k) ==
  /\ k \in broken \cup main[s].conn \/ Silent(Other(s), k)
  /\ EndReader(s, k)
  /\ UNCHANGED faults

\* A wrong Peer::drop: the sender is kept.
WriterEndsNever(s, k) ==
  /\ k \in writing[s]
  /\ k \in broken \/ ~Open(Other(s), k)
  /\ writing' = [writing EXCEPT ![s] = @ \ {k}]
  /\ UNCHANGED <<up, queue, table, main, jobVars, reading, broken, early, faults>>

\* write_thread_fn ends: the sender was dropped, or the next heartbeat fails.
WriterEnds(s, k) ==
  /\ k \in writing[s]
  /\ k \in broken \cup main[s].conn \/ ~Open(Other(s), k)
  /\ writing' = [writing EXCEPT ![s] = @ \ {k}]
  /\ UNCHANGED <<up, queue, table, main, jobVars, reading, broken, early, faults>>

-----------------------------------------------------------------------------
(* Faults.                                                                 *)

Crash(s) == s \in up /\ Halt(s)

Restart(s) ==
  /\ s \notin up
  /\ up' = up \cup {s}
  /\ UNCHANGED <<queue, table, main, jobVars, threads, broken, early>>

Break(k) ==
  /\ k \notin broken /\ Open("hi", k) /\ Open("lo", k)
  /\ broken' = broken \cup {k}
  /\ UNCHANGED <<up, queue, table, main, jobVars, threads, early>>

\* The next attempt comes before the last one is settled.
AttemptsOverlap == MayAttempt /\ Underway /\ StartJob

\* A read or connect timeout expires though the other side is alive.
Late(k) ==
  \/ AbandonHandshake(k)
  \/ ForgetIncoming(k)
  \/ \E s \in Sides : EndReader(s, k)

Fault ==
  /\ faults < MaxFaults /\ faults' = faults + 1
  /\ \/ AttemptsOverlap
     \/ \E s \in Sides : Crash(s) \/ Restart(s)
     \/ \E k \in Conns : Break(k) \/ Late(k)

-----------------------------------------------------------------------------
Job(k) == JobSendsJoin(k) \/ JobIsAnswered(k) \/ JobReports(k) \/ JobGivesUp(k)

Main(k) ==
  \/ AnswerHandshake(k)
  \/ AnswerFails(k)
  \/ Establish(k)
  \/ \E s \in Sides : RemovePeer(s, k)

Thread(k) == \E s \in Sides : ReaderEnds(s, k) \/ WriterEnds(s, k)

Connecting == AttemptConnect \/ JobConnects \/ JobFails

Working ==
  \/ \E k \in Conns : Job(k) \/ Main(k) \/ Thread(k)
  \/ \E s \in Sides : DropEnds(s)
  \/ HandshakePanics

Next == Connecting \/ Working \/ Fault

\* Fairness: hi goes on trying to connect, and of the threads that have something
\* to do, some thread does it. That is less than a promise for every thread.
Spec == Init /\ [][Next]_vars /\ WF_vars(Connecting) /\ WF_vars(Working)

-----------------------------------------------------------------------------
TypeOK ==
  /\ up \subseteq Sides
  /\ queue \in [Sides -> Seq(Events)]
  /\ table \in [Sides -> SUBSET Conns] /\ \A s \in Sides : Cardinality(table[s]) <= 1
  /\ main \in [Sides -> [task : {"loop", "remove", "refuse"}, conn : SUBSET Conns]]
  /\ jobs \in Nat
  /\ job \in [Conns -> {"none", "connected", "joined", "answered"}]
  /\ shake \in [Conns -> {"none", "Join", "JoinAck"}]
  /\ {reading, writing} \subseteq [Sides -> SUBSET Conns]
  /\ {broken, early} \subseteq SUBSET Conns
  /\ faults \in Nat

\* Peers of hi that exist, with threads that read, write and deliver already
\* (peer.rs:142), but have not reached add_peer.
NotYetAdded(s) ==
  {k \in Conns : (s = "hi" /\ job[k] = "answered") \/ Queued(s, "Established", k)}

\* "This should prevent us from having simultaneous connections open"
\* (server.rs:297), as far as it does: a thread is one of the connection in the
\* table, of the one Peer::drop joins, or, at hi, of a Peer that is yet to be added.
\* So lo hears its table's connection and one it is dropping at most, and no thread is
\* left to which nobody holds a Peer, which neither `terminated` nor a dropped
\* sender would ever reach.
NoStrayThreads ==
  \A s \in Sides :
    reading[s] \cup writing[s] \subseteq table[s] \cup main[s].conn \cup NotYetAdded(s)

\* The expect of answer_handshake (server.rs:279) is safe as long as nothing
\* fails and nothing is late.
PanicsOnlyIfProvoked ==
  main["lo"].task = "refuse" => faults > 0

\* Nothing is under way, but for attempts to connect.
AtRest ==
  /\ \A s \in Sides : queue[s] = <<>> /\ main[s] = Loop
  /\ \A k \in Conns : job[k] = "none"
  /\ \A s \in Sides, k \in Conns :
       /\ k \in reading[s] => k \notin broken /\ ~Silent(Other(s), k)
       /\ k \in writing[s] => k \notin broken /\ Open(Other(s), k)

\* hi holds a connection that was lost before it was established.
Zombie == table["hi"] \cap early # {}

\* At rest the peer tables, from which majorities are counted, agree and show what
\* is connected in both directions; but hi may hold a connection whose loss was
\* reported too early, on which it hears nothing.
TablesMatch ==
  AtRest =>
    /\ table["lo"] \subseteq table["hi"] /\ (table["hi"] \subseteq table["lo"] \/ Zombie)
    /\ reading["hi"] = table["hi"] \ early
    /\ reading["lo"] = table["lo"] /\ writing["lo"] = table["lo"]

\* The main thread gets through its events: it is not blocked for ever by the wait
\* for a Join (server.rs:258), nor in Peer::drop, which joins a thread that waits for
\* the other side, which may itself be in Peer::drop.
MainReturns ==
  \A s \in Sides :
    main[s] # Loop \/ queue[s] # <<>> ~> main[s] = Loop /\ queue[s] = <<>>

Linked == \E k \in Conns \ broken : table["hi"] = {k} /\ table["lo"] = {k}

\* After the last fault the pair is connected in the end, unless a process is
\* gone or hi holds on to a connection that was lost before it was established.
ReconnectsInTheEnd == <>[](Linked \/ Zombie \/ up # Sides)
=============================================================================
