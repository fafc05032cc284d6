------------------------------ MODULE ThreadPool ------------------------------
(***************************************************************************)
(* The thread pool (thread-pool/src/lib.rs) that runs a node's connection  *)
(* attempts and client conversations, and the queries of the test client.  *)
(* Workers are anonymous (their ids only name them): the state counts the  *)
(* threads of Inner::workers by what they do. One job is followed by name, *)
(* the rest are "other" jobs.                                              *)
(*                                                                         *)
(* execute holds the write lock while it respawns workers and only then    *)
(* sends the job, so the calls of two threads interleave in between.       *)
(***************************************************************************)
EXTENDS Integers, Sequences, FiniteSets

CONSTANTS Callers,        \* the threads that hold a clone of the pool
          Sizes,          \* the sizes the pool may be given (NonZero)
          MaxQueue        \* bound on the queue: other jobs beyond it are left out

ASSUME CallersAssumption == Callers # {}
ASSUME SizesAssumption == Sizes # {} /\ Sizes \subseteq Nat \ {0}
ASSUME MaxQueueAssumption == MaxQueue \in Nat

VARIABLES
  size,           \* Inner::size
  waiting,        \* workers that wait for a job
  running,        \* workers that run a job, by kind of job
  leaving,        \* workers whose thread ends but is not yet is_finished()
  quit,           \* finished workers that were not joined yet
  queue,          \* the channel of jobs
  open,           \* Inner::tx exists
  calls,          \* where a caller is in execute
  handed,         \* the followed job was sent
  ran             \* the followed job was run, to its end or to its panic

workers == <<waiting, running, leaving, quit>>
vars == <<size, workers, queue, open, calls, handed, ran>>

Kinds == {"other", "followed"}

Jobs == Kinds \cup {"Quit"}

\* The workers that are not has_quit().
Threads == waiting + running["other"] + running["followed"] + leaving

Init ==
  /\ size \in Sizes /\ waiting = size
  /\ running = [k \in Kinds |-> 0] /\ leaving = 0 /\ quit = 0
  /\ queue = <<>> /\ open = TRUE
  /\ calls = [c \in Callers |-> "idle"]
  /\ handed = FALSE /\ ran = FALSE

-----------------------------------------------------------------------------
(* The pool's operations.                                                  *)

\* A wrong respawn: workers that quit are joined but not replaced.
RespawnNothing(n) == quit' = 0 /\ waiting' = waiting /\ UNCHANGED <<running, leaving>>

\* A wrong respawn: the workers that are busy are not counted.
RespawnIdle(n) ==
  /\ quit' = 0
  /\ waiting' = IF waiting < n THEN n ELSE waiting
  /\ UNCHANGED <<running, leaving>>

\* A wrong respawn: the subtraction does not saturate.
RespawnUnsaturated(n) ==
  /\ quit' = 0
  /\ waiting' = waiting + (n - Threads)
  /\ UNCHANGED <<running, leaving>>

\* Inner::respawn, for size n: join finished workers, spawn missing ones.
Missing(n) == IF Threads < n THEN n - Threads ELSE 0

Respawn(n) ==
  /\ quit' = 0
  /\ waiting' = waiting + Missing(n)
  /\ UNCHANGED <<running, leaving>>

\* The system refuses a thread (Worker::new fails): those spawned before it stay.
RespawnFails(n) ==
  /\ quit' = 0
  /\ \E k \in 0 .. Missing(n) - 1 : waiting' = waiting + k
  /\ UNCHANGED <<running, leaving>>

\* ThreadPool::execute up to the unlock of the write lock.
BeginExecute(c) ==
  /\ open /\ calls[c] = "idle"
  /\ calls' = [calls EXCEPT ![c] = "sending"]
  /\ Respawn(size)
  /\ UNCHANGED <<size, queue, open, handed, ran>>

\* ThreadPool::execute returns an error, and the job was not sent. The callers in
\* the server panic on it (server.rs:216, client.rs:29), the test client gives up.
ExecuteFails(c) ==
  /\ open /\ calls[c] = "idle"
  /\ RespawnFails(size)
  /\ UNCHANGED <<size, queue, open, calls, handed, ran>>

\* ThreadPool::execute_unchecked
EndExecute(c, kind) ==
  /\ calls[c] = "sending"
  /\ calls' = [calls EXCEPT ![c] = "idle"]
  /\ \/ /\ kind = "followed" /\ ~handed
        /\ handed' = TRUE /\ queue' = Append(queue, kind)
     \/ /\ kind = "other"
        /\ queue' = IF Len(queue) < MaxQueue THEN Append(queue, kind) ELSE queue
        /\ UNCHANGED handed
  /\ UNCHANGED <<size, workers, open, ran>>

\* ThreadPool::set_size: a Quit for every worker too many, whatever the workers
\* that are left, and whatever Quits are queued already. If it fails, the Quits
\* are sent and the new size stands all the same.
SetSize(c, n) ==
  LET quits == IF n < size THEN size - n ELSE 0
  IN
  /\ open /\ calls[c] = "idle"
  /\ Len(queue) + quits <= MaxQueue
  /\ queue' = queue \o [k \in 1 .. quits |-> "Quit"]
  /\ size' = n
  /\ Respawn(n) \/ RespawnFails(n)
  /\ UNCHANGED <<open, calls, handed, ran>>

\* Inner::drop begins: the last clone is gone, then the sender.
DropPool ==
  /\ open /\ \A c \in Callers : calls[c] = "idle"
  /\ open' = FALSE
  /\ UNCHANGED <<size, workers, queue, calls, handed, ran>>

\* Inner::drop ends: it has joined every worker. None is replaced.
DropEnd ==
  /\ ~open /\ Threads = 0 /\ quit > 0
  /\ quit' = 0
  /\ UNCHANGED <<size, waiting, running, leaving, queue, open, calls, handed, ran>>

-----------------------------------------------------------------------------
(* The loop of a worker (Worker::new). The receiver's mutex lets one worker *)
(* at a time wait for the queue; which one does not matter.                *)

\* A wrong queue: the newest job is taken first.
TakeNewest(kind) ==
  /\ waiting > 0 /\ queue # <<>> /\ queue[Len(queue)] = kind
  /\ queue' = SubSeq(queue, 1, Len(queue) - 1)
  /\ waiting' = waiting - 1
  /\ running' = [running EXCEPT ![kind] = @ + 1]
  /\ UNCHANGED <<size, leaving, quit, open, calls, handed, ran>>

TakeJob(kind) ==
  /\ waiting > 0 /\ queue # <<>> /\ Head(queue) = kind
  /\ queue' = Tail(queue)
  /\ waiting' = waiting - 1
  /\ running' = [running EXCEPT ![kind] = @ + 1]
  /\ UNCHANGED <<size, leaving, quit, open, calls, handed, ran>>

TakeQuit ==
  /\ waiting > 0 /\ queue # <<>> /\ Head(queue) = "Quit"
  /\ queue' = Tail(queue)
  /\ waiting' = waiting - 1 /\ leaving' = leaving + 1
  /\ UNCHANGED <<size, running, quit, open, calls, handed, ran>>

\* A wrong worker: it goes on when recv fails.
DisconnectIgnored ==
  /\ waiting > 0 /\ queue = <<>> /\ ~open
  /\ UNCHANGED vars

\* recv fails once the sender is gone and the queue is drained.
Disconnect ==
  /\ waiting > 0 /\ queue = <<>> /\ ~open
  /\ waiting' = waiting - 1 /\ leaving' = leaving + 1
  /\ UNCHANGED <<size, running, quit, queue, open, calls, handed, ran>>

Return(kind) ==
  /\ running[kind] > 0
  /\ running' = [running EXCEPT ![kind] = @ - 1]
  /\ waiting' = waiting + 1
  /\ ran' = (ran \/ kind = "followed")
  /\ UNCHANGED <<size, leaving, quit, queue, open, calls, handed>>

\* A panic of the job ends the thread; the lock of the receiver is not held.
Panic(kind) ==
  /\ running[kind] > 0
  /\ running' = [running EXCEPT ![kind] = @ - 1]
  /\ leaving' = leaving + 1
  /\ ran' = (ran \/ kind = "followed")
  /\ UNCHANGED <<size, waiting, quit, queue, open, calls, handed>>

\* From here on JoinHandle::is_finished is true.
Finish ==
  /\ leaving > 0
  /\ leaving' = leaving - 1 /\ quit' = quit + 1
  /\ UNCHANGED <<size, waiting, running, queue, open, calls, handed, ran>>

-----------------------------------------------------------------------------
Take == (\E kind \in Kinds : TakeJob(kind)) \/ TakeQuit \/ Disconnect

Send(c) == \E kind \in Kinds : EndExecute(c, kind)

Call(c) == BeginExecute(c) \/ ExecuteFails(c) \/ Send(c)

Next ==
  \/ Take
  \/ \E kind \in Kinds : Return(kind) \/ Panic(kind)
  \/ Finish
  \/ \E c \in Callers : Call(c) \/ \E n \in Sizes : SetSize(c, n)
  \/ DropPool
  \/ DropEnd

\* Fairness: threads are scheduled, a caller's that is within execute among them,
\* and jobs end (connect and read have timeouts). Nobody has to call: the main
\* loop connects only while a lower peer is missing (server.rs:197), the listener
\* executes only for a new client, and the test client stops (client main.rs:473).
Spec ==
  /\ Init /\ [][Next]_vars
  /\ WF_vars(Take) /\ WF_vars(Finish) /\ WF_vars(DropEnd)
  /\ \A kind \in Kinds : WF_vars(Return(kind) \/ Panic(kind))
  /\ \A c \in Callers : WF_vars(Send(c))

-----------------------------------------------------------------------------
TypeOK ==
  /\ size \in Sizes
  /\ {waiting, leaving, quit} \subseteq Nat /\ running \in [Kinds -> Nat]
  /\ queue \in Seq(Jobs)
  /\ calls \in [Callers -> {"idle", "sending"}]
  /\ {open, handed, ran} \subseteq BOOLEAN

QuitsQueued == Cardinality({k \in 1 .. Len(queue) : queue[k] = "Quit"})

\* However calls of set_size and execute, panics and quitting workers interleave,
\* once the Quits that are queued are taken no more than size workers serve.
NoExcessWorkers ==
  waiting + running["other"] + running["followed"] - QuitsQueued <= size

\* A job that was sent runs as long as a worker is left, whatever comes after it:
\* it is neither overtaken forever nor lost with a worker that panics or quits.
\* When no worker is left it stays in the queue until somebody calls again.
JobRuns == handed ~> (ran \/ ~open \/ Threads = 0)

\* Somebody goes on calling execute, with success, as the main loop does while a
\* lower peer stays unreachable.
UsedForever == []<><<\E c \in Callers : BeginExecute(c)>>_vars

\* Then neither panics nor surplus Quits nor threads that cannot be spawned starve
\* a job: a later call replaces the workers that are gone by then.
JobRunsInUse == UsedForever => (handed ~> (ran \/ ~open))

\* Inner::drop ends: every worker learns that the sender is gone, after it has
\* drained the queue.
DropEnds == ~open ~> (Threads = 0 /\ quit = 0)
=============================================================================
