--------------------------- MODULE PeerLinkProofs ---------------------------
(***************************************************************************)
(* PeerLink for any number of connections and faults: the types, that each *)
(* thread is one of a Peer that somebody holds, that the node that answers *)
(* does not panic unless something failed or came late, and that at rest   *)
(* the two peer tables agree on who is connected.                          *)
(*                                                                         *)
(* One inductive invariant carries the first and the last of these: which  *)
(* threads belong to whom (Owned), that a connection in the making has no  *)
(* history (Fresh, Once), and that the end of a thread is reported or has  *)
(* a reason that lasts (Reported, Written). That nothing panics without a  *)
(* fault follows the one connection that there is then through its         *)
(* handshake (Unprovoked).                                                 *)
(***************************************************************************)
EXTENDS PeerLink, FiniteSetTheorems, SequenceTheorems, WellFoundedInduction, TLAPS

Types ==
  /\ up \subseteq Sides
  /\ queue \in [Sides -> Seq(Events)]
  /\ table \in [Sides -> {{}} \cup {{k} : k \in Conns}]
  /\ main \in [Sides -> [task : {"loop", "remove", "refuse"}, conn : SUBSET Conns]]
  /\ jobs \in Nat
  /\ job \in [Conns -> {"none", "connected", "joined", "answered"}]
  /\ shake \in [Conns -> {"none", "Join", "JoinAck"}]
  /\ reading \in [Sides -> SUBSET Conns] /\ writing \in [Sides -> SUBSET Conns]
  /\ broken \subseteq Conns /\ early \subseteq Conns
  /\ faults \in Nat

Threads(s) == reading[s] \cup writing[s]

\* At lo, only the connection of the table has threads, but for one being dropped; at
\* hi also those that its jobs and the queue hold.
Owned ==
  /\ \A k \in Threads("lo") : k \in table["lo"] \cup main["lo"].conn
  /\ \A k \in Threads("hi") :
       \/ k \in table["hi"] \cup main["hi"].conn
       \/ job[k] = "answered" \/ Queued("hi", "Established", k)

\* A connection in the making is new to hi, and one that is to be answered to lo.
Fresh ==
  /\ \A k \in Conns : job[k] \in {"connected", "joined"} =>
       /\ k \notin Threads("hi") \cup early
       /\ ~Queued("hi", "Established", k) /\ ~Queued("hi", "Lost", k)
  /\ \A k \in Conns : Queued("lo", "Incoming", k) =>
       k \notin Threads("lo") \cup table["lo"] /\ ~Queued("lo", "Lost", k)

\* A connection comes in once.
Once ==
  \A m, n \in DOMAIN queue["lo"] :
    queue["lo"][m] = queue["lo"][n] /\ queue["lo"][m].type = "Incoming" => m = n

\* The end of a read thread is in the queue until it has been handled; where that was
\* before the connection was established is the one case in which it changed nothing.
Reported ==
  /\ \A s \in Sides, k \in Conns : Queued(s, "Lost", k) => k \notin reading[s]
  /\ \A k \in table["lo"] : k \in reading["lo"] \/ Queued("lo", "Lost", k)
  /\ \A k \in Conns :
       k \in table["hi"] \/ job[k] = "answered" \/ Queued("hi", "Established", k) =>
         k \in reading["hi"] \cup early \/ Queued("hi", "Lost", k)
  /\ early \cap reading["hi"] = {}

\* The connection of lo's table is not being dropped, and its write thread ends for a
\* reason that lasts.
Written ==
  /\ table["lo"] \cap main["lo"].conn = {}
  /\ \A k \in table["lo"] : k \in writing["lo"] \cup broken \/ ~Open("hi", k)

IInv == Types /\ Owned /\ Fresh /\ Once /\ Reported /\ Written

-----------------------------------------------------------------------------
(* The queues.                                                             *)

LEMMA EventFacts ==
  /\ \A type \in {"Incoming", "Established", "Lost"}, k \in Conns : Event(type, k) \in Events
  /\ \A t, u, j, k : Event(t, j) = Event(u, k) <=> t = u /\ j = k
  /\ \A t, k : Event(t, k).type = t /\ Event(t, k).conn = k
  /\ \A e \in Events : e = Event(e.type, e.conn) /\ e.conn \in Conns
BY DEF Event, Events

\* What the tables and the threads are about.
LEMMA Places ==
  ASSUME IInv
  PROVE  \A s \in {"hi", "lo"} :
           /\ s \in Sides
           /\ table[s] \subseteq Conns /\ \A i, j \in table[s] : i = j
           /\ reading[s] \subseteq Conns /\ writing[s] \subseteq Conns
           /\ Threads(s) \subseteq Conns
<1> SUFFICES ASSUME NEW s \in Sides
             PROVE  /\ table[s] \subseteq Conns /\ \A i, j \in table[s] : i = j
                    /\ reading[s] \subseteq Conns /\ writing[s] \subseteq Conns
                    /\ Threads(s) \subseteq Conns
  BY DEF Sides
<1>1. table[s] \in {{}} \cup {{k} : k \in Conns}
  BY DEF IInv, Types
<1>2. reading[s] \subseteq Conns /\ writing[s] \subseteq Conns
  BY DEF IInv, Types
<1> QED BY <1>1, <1>2 DEF Threads

\* What a main thread takes is off its queue; the rest stays.
LEMMA TakeQueue ==
  ASSUME Types, NEW s \in Sides, queue[s] # <<>>, queue' = Take(s)
  PROVE  /\ queue' \in [Sides -> Seq(Events)]
         /\ \A o \in Sides : \A t, j : Queued(o, t, j)' => Queued(o, t, j)
         /\ \A o \in Sides : \A t, j : Queued(o, t, j) =>
              Queued(o, t, j)' \/ (o = s /\ Head(queue[s]) = Event(t, j))
         /\ \A t, j : Head(queue[s]) = Event(t, j) => Queued(s, t, j)
         /\ Once => Once'
         /\ Once /\ s = "lo" => \A j : Head(queue[s]) = Event("Incoming", j) =>
              ~Queued("lo", "Incoming", j)'
<1> DEFINE q == queue[s]
           r == Tail(q)
<1>1. q \in Seq(Events) /\ q # <<>>
  BY DEF Types
<1>2. /\ r \in Seq(Events) /\ Len(q) \in Nat /\ Len(q) > 0
      /\ DOMAIN q = 1 .. Len(q) /\ DOMAIN r = 1 .. Len(q) - 1
      /\ \A n \in 1 .. Len(q) - 1 : r[n] = q[n + 1]
      /\ Head(q) = q[1]
  <2> HIDE DEF q
  <2> QED BY <1>1
<1>3. queue'[s] = r /\ (\A o \in Sides : o # s => queue'[o] = queue[o])
      /\ queue' \in [Sides -> Seq(Events)]
  BY <1>2 DEF Types, Take
<1> HIDE DEF r
<1>4. /\ \A n \in DOMAIN r : n + 1 \in DOMAIN q /\ r[n] = q[n + 1]
      /\ \A n \in DOMAIN q : n = 1 \/ (n - 1 \in DOMAIN r /\ r[n - 1] = q[n])
      /\ 1 \in DOMAIN q
  <2> HIDE DEF q
  <2> QED BY <1>2
<1>5. ASSUME NEW o \in Sides, NEW t, NEW j, Queued(o, t, j)'
      PROVE  Queued(o, t, j)
  BY <1>3, <1>4, <1>5 DEF Queued
<1>6. ASSUME NEW o \in Sides, NEW t, NEW j, Queued(o, t, j)
      PROVE  Queued(o, t, j)' \/ (o = s /\ Head(q) = Event(t, j))
  <2>1. CASE o # s
    BY <1>3, <1>6, <2>1 DEF Queued
  <2>2. CASE o = s
    <3>1. PICK n \in DOMAIN q : q[n] = Event(t, j)
      BY <1>6, <2>2 DEF Queued
    <3> QED BY <1>2, <1>3, <1>4, <2>2, <3>1 DEF Queued
  <2> QED BY <2>1, <2>2
<1>7. ASSUME NEW t, NEW j, Head(q) = Event(t, j) PROVE Queued(s, t, j)
  BY <1>2, <1>4, <1>7 DEF Queued
<1>8. ASSUME Once PROVE Once'
  <2>1. CASE s = "lo"
    <3> SUFFICES ASSUME NEW m \in DOMAIN r, NEW n \in DOMAIN r, r[m] = r[n], r[m].type = "Incoming"
                 PROVE  m = n
      BY <1>3, <2>1 DEF Once
    <3>1. m + 1 = n + 1
      BY <1>4, <1>8, <2>1 DEF Once
    <3> QED BY <1>2, <3>1
  <2>2. CASE s # "lo"
    BY <1>3, <1>8, <2>2 DEF Once, Sides
  <2> QED BY <2>1, <2>2
<1>9. ASSUME Once, s = "lo", NEW j, Head(q) = Event("Incoming", j), Queued("lo", "Incoming", j)'
      PROVE  FALSE
  <2>1. PICK n \in DOMAIN r : r[n] = Event("Incoming", j)
    BY <1>3, <1>9 DEF Queued
  <2>2. /\ n + 1 \in DOMAIN q /\ q[n + 1] = q[1] /\ q[1].type = "Incoming" /\ 1 \in DOMAIN q
    BY <1>2, <1>4, <1>9, <2>1, EventFacts
  <2>3. n + 1 = 1
    BY <1>9, <2>2 DEF Once
  <2> QED BY <1>2, <2>1, <2>3
<1> QED BY <1>3, <1>5, <1>6, <1>7, <1>8, <1>9

\* What is sent to a main thread comes after all that is in its queue.
LEMMA PutQueue ==
  ASSUME Types, NEW s \in Sides, NEW type \in {"Incoming", "Established", "Lost"}, NEW k \in Conns,
         queue' = Put(s, Event(type, k))
  PROVE  /\ queue' \in [Sides -> Seq(Events)]
         /\ \A o \in Sides : \A t, j :
              Queued(o, t, j)' <=> Queued(o, t, j) \/ (o = s /\ t = type /\ j = k)
         /\ Once /\ (type # "Incoming" \/ ~Queued("lo", "Incoming", k)) => Once'
<1> DEFINE q == queue[s]
           e == Event(type, k)
           r == Append(q, e)
<1>1. q \in Seq(Events) /\ e \in Events
  BY EventFacts DEF Types
<1>2. /\ r \in Seq(Events) /\ Len(q) \in Nat
      /\ DOMAIN q = 1 .. Len(q) /\ DOMAIN r = 1 .. Len(q) + 1
      /\ \A n \in 1 .. Len(q) : r[n] = q[n]
      /\ r[Len(q) + 1] = e
  <2> HIDE DEF q, e
  <2> QED BY <1>1
<1>3. queue'[s] = r /\ (\A o \in Sides : o # s => queue'[o] = queue[o])
      /\ queue' \in [Sides -> Seq(Events)]
  BY <1>2 DEF Types, Put
<1> HIDE DEF r
<1>4. /\ \A n \in DOMAIN r : n \in DOMAIN q \/ n = Len(q) + 1
      /\ \A n \in DOMAIN q : n \in DOMAIN r /\ r[n] = q[n]
      /\ Len(q) + 1 \in DOMAIN r
  <2> HIDE DEF q
  <2> QED BY <1>2
<1>5. ASSUME NEW o \in Sides, NEW t, NEW j
      PROVE  Queued(o, t, j)' <=> Queued(o, t, j) \/ (o = s /\ t = type /\ j = k)
  <2>1. CASE o # s
    BY <1>3, <2>1 DEF Queued
  <2>2. CASE o = s
    <3>1. Event(t, j) = e <=> t = type /\ j = k
      BY EventFacts
    <3>2. (\E n \in DOMAIN r : r[n] = Event(t, j))
            <=> (\E n \in DOMAIN q : q[n] = Event(t, j)) \/ Event(t, j) = e
      <4> HIDE DEF q, e
      <4> QED BY <1>2, <1>4
    <3> QED BY <1>3, <2>2, <3>1, <3>2 DEF Queued
  <2> QED BY <2>1, <2>2
<1>6. ASSUME Once, type # "Incoming" \/ ~Queued("lo", "Incoming", k) PROVE Once'
  <2>1. CASE s = "lo"
    <3> SUFFICES ASSUME NEW m \in DOMAIN r, NEW n \in DOMAIN r, r[m] = r[n], r[m].type = "Incoming"
                 PROVE  m = n
      BY <1>3, <2>1 DEF Once
    <3>1. e.type = type
      BY EventFacts
    <3>2. ASSUME NEW i \in DOMAIN q PROVE type = "Incoming" => q[i] # e
      BY <1>6, <2>1 DEF Queued
    <3>3. CASE m \in DOMAIN q /\ n \in DOMAIN q
      BY <1>4, <1>6, <2>1, <3>3 DEF Once
    <3> HIDE DEF q, e
    <3>4. CASE ~(m \in DOMAIN q /\ n \in DOMAIN q)
      BY <1>2, <1>4, <3>1, <3>2, <3>4
    <3> QED BY <3>3, <3>4
  <2>2. CASE s # "lo"
    BY <1>3, <1>6, <2>2 DEF Once, Sides
  <2> QED BY <2>1, <2>2
<1> QED BY <1>3, <1>5, <1>6

\* Nothing is left of a connection.
LEMMA GoneFacts ==
  ASSUME NEW k, Gone(k)
  PROVE  \A s \in Sides : /\ k \notin Threads(s) \cup table[s] \cup main[s].conn
                          /\ \A t : ~Queued(s, t, k)
<1>1. ASSUME NEW s \in Sides, NEW t, Queued(s, t, k) PROVE FALSE
  BY <1>1, EventFacts DEF Gone, Queued
<1> QED BY <1>1 DEF Gone, Open, Threads

-----------------------------------------------------------------------------
(* Steps that touch little.                                                *)

LEMMA Unmoved ==
  ASSUME IInv, Types', UNCHANGED <<queue, table, main, job, reading, writing, broken, early>>
  PROVE  IInv'
BY DEF IInv, Owned, Fresh, Once, Reported, Written, Threads, Queued, Open

LEMMA StartJobKeeps == ASSUME IInv, StartJob, faults' \in Nat PROVE IInv'
<1>1. Types'
  BY DEF StartJob, threads, IInv, Types
<1> QED BY <1>1, Unmoved DEF StartJob, threads

LEMMA JobFailsKeeps == ASSUME IInv, JobFails PROVE IInv'
<1>1. Types'
  BY DEF JobFails, threads, IInv, Types
<1> QED BY <1>1, Unmoved DEF JobFails, threads

LEMMA RestartKeeps == ASSUME IInv, NEW s \in Sides, Restart(s), faults' \in Nat PROVE IInv'
<1>1. Types'
  BY DEF Restart, jobVars, threads, IInv, Types
<1> QED BY <1>1, Unmoved DEF Restart, jobVars, threads

LEMMA BreakKeeps == ASSUME IInv, NEW k \in Conns, Break(k), faults' \in Nat PROVE IInv'
<1>1. /\ UNCHANGED <<up, queue, table, main, jobs, job, shake, reading, writing, early>>
      /\ broken' = broken \cup {k}
  BY DEF Break, jobVars, threads
<1>2. Types'
  BY <1>1 DEF IInv, Types
<1>3. Owned' /\ Fresh' /\ Once' /\ Reported'
  BY <1>1 DEF IInv, Owned, Fresh, Once, Reported, Threads, Queued
<1>4. Written'
  BY <1>1 DEF IInv, Written, Open, Queued
<1> QED BY <1>2, <1>3, <1>4 DEF IInv

LEMMA DropEndsKeeps == ASSUME IInv, NEW s \in Sides, DropEnds(s) PROVE IInv'
<1>1. /\ UNCHANGED <<up, queue, table, jobs, job, shake, reading, writing, broken, early, faults>>
      /\ main' = [main EXCEPT ![s] = Loop]
      /\ main[s].conn \cap Threads(s) = {}
  BY DEF DropEnds, Joined, jobVars, threads, Threads
<1>2. main'[s] = Loop /\ Loop.conn = {} /\ \A o \in Sides : o # s => main'[o] = main[o]
  BY <1>1 DEF IInv, Types, Loop
<1>3. Types'
  BY <1>1 DEF IInv, Types, Loop
<1>4. Fresh' /\ Once' /\ Reported'
  BY <1>1 DEF IInv, Fresh, Once, Reported, Threads, Queued
<1>5. Owned'
  BY <1>1, <1>2 DEF IInv, Owned, Threads, Queued, Sides
<1>6. Written'
  BY <1>1, <1>2 DEF IInv, Written, Open, Queued, Sides
<1> QED BY <1>3, <1>4, <1>5, <1>6 DEF IInv

-----------------------------------------------------------------------------
(* Connect jobs.                                                           *)

\* A connection gets a number that nothing is left of.
LEMMA NewConnection ==
  ASSUME JobConnects
  PROVE  \E k \in Conns :
           /\ Gone(k) /\ jobs > 0 /\ jobs' = jobs - 1
           /\ job' = [job EXCEPT ![k] = "connected"]
           /\ shake' = [shake EXCEPT ![k] = "none"]
           /\ broken' = broken \ {k} /\ early' = early \ {k}
           /\ queue' = Put("lo", Event("Incoming", k))
           /\ UNCHANGED <<up, table, main, reading, writing, faults>>
<1> DEFINE free == {k \in Conns : Gone(k)}
           k == CHOOSE k \in free : \A l \in free : k <= l
<1>1. /\ jobs > 0 /\ free # {} /\ jobs' = jobs - 1
      /\ job' = [job EXCEPT ![k] = "connected"]
      /\ shake' = [shake EXCEPT ![k] = "none"]
      /\ broken' = broken \ {k} /\ early' = early \ {k}
      /\ queue' = Put("lo", Event("Incoming", k))
      /\ UNCHANGED <<up, table, main, reading, writing, faults>>
  BY DEF JobConnects, threads
<1>2. k \in Conns /\ Gone(k)
  <2>1. free \in SUBSET Nat
    BY BoundsAssumption DEF Conns
  <2> HIDE DEF free
  <2>2. PICK a \in free : \A b \in free : ~ (<<b, a>> \in OpToRel(<, Nat))
    BY <1>1, <2>1, NatLessThanWellFounded, WFMin
  <2>3. \A b \in free : ~(b < a)
    BY <2>1, <2>2 DEF OpToRel
  <2>4. \A b \in free : a <= b
    BY <2>1, <2>3
  <2>5. k \in free
    BY <2>2, <2>4
  <2> QED BY <2>5 DEF free
<1> HIDE DEF k, free
<1> QED BY <1>1, <1>2

LEMMA JobConnectsKeeps == ASSUME IInv, JobConnects PROVE IInv'
<1>1. PICK k \in Conns :
        /\ Gone(k) /\ jobs > 0 /\ jobs' = jobs - 1
        /\ job' = [job EXCEPT ![k] = "connected"]
        /\ shake' = [shake EXCEPT ![k] = "none"]
        /\ broken' = broken \ {k} /\ early' = early \ {k}
        /\ queue' = Put("lo", Event("Incoming", k))
        /\ UNCHANGED <<up, table, main, reading, writing, faults>>
  BY NewConnection
<1>2. k \in Conns /\ Gone(k)
  BY <1>1
<1>3. "lo" \in Sides /\ "hi" \in Sides
  BY DEF Sides
<1>4. /\ queue' \in [Sides -> Seq(Events)]
      /\ \A o \in Sides : \A t, j :
           Queued(o, t, j)' <=> Queued(o, t, j) \/ (o = "lo" /\ t = "Incoming" /\ j = k)
      /\ \A s \in Sides : /\ k \notin Threads(s) \cup table[s] \cup main[s].conn
                          /\ \A t : ~Queued(s, t, k)
      /\ Once'
  BY <1>1, <1>2, <1>3, PutQueue, GoneFacts DEF IInv
<1>5. job'[k] = "connected" /\ \A j \in Conns : j # k => job'[j] = job[j]
  BY <1>1, <1>2 DEF IInv, Types
<1>6. \A s \in Sides : Threads(s)' = Threads(s)
  BY <1>1 DEF Threads
<1>7. Types'
  <2>1. jobs' \in Nat /\ shake' \in [Conns -> {"none", "Join", "JoinAck"}]
    BY <1>1, <1>2 DEF IInv, Types
  <2>2. job' \in [Conns -> {"none", "connected", "joined", "answered"}]
    BY <1>1, <1>2 DEF IInv, Types
  <2> QED BY <1>1, <1>4, <2>1, <2>2 DEF IInv, Types
<1>8. Owned'
  <2>1. \A j \in Threads("hi") : j # k /\ j \in Conns
    BY <1>3, <1>4, Places
  <2> QED BY <1>1, <1>3, <1>4, <1>5, <1>6, <2>1 DEF IInv, Owned
<1>9. Fresh'
  BY <1>1, <1>3, <1>4, <1>5, <1>6 DEF IInv, Fresh
<1>10. Reported'
  BY <1>1, <1>3, <1>4, <1>5 DEF IInv, Types, Reported
<1>11. Written'
  <2>1. \A j \in table["lo"] : j # k /\ j \in Conns
    BY <1>3, <1>4, Places
  <2> QED BY <1>1, <1>5, <2>1 DEF IInv, Written, Open
<1> QED BY <1>4, <1>7, <1>8, <1>9, <1>10, <1>11 DEF IInv

LEMMA JobSendsJoinKeeps == ASSUME IInv, NEW k \in Conns, JobSendsJoin(k) PROVE IInv'
<1>1. /\ job[k] = "connected" /\ job' = [job EXCEPT ![k] = "joined"]
      /\ shake' = [shake EXCEPT ![k] = "Join"]
      /\ UNCHANGED <<up, queue, table, main, jobs, reading, writing, broken, early, faults>>
  BY DEF JobSendsJoin, threads
<1>2. job'[k] = "joined" /\ \A j \in Conns : j # k => job'[j] = job[j]
  BY <1>1 DEF IInv, Types
<1>3. Types'
  BY <1>1 DEF IInv, Types
<1>4. \A s, t, j : Queued(s, t, j)' <=> Queued(s, t, j)
  BY <1>1 DEF Queued
<1>5. \A s : Threads(s)' = Threads(s)
  BY <1>1 DEF Threads
<1>6. Owned'
  <2>1. \A j \in Threads("hi") : j \in Conns
    BY Places
  <2> QED BY <1>1, <1>2, <1>4, <1>5, <2>1 DEF IInv, Owned
<1>7. Fresh' /\ Once'
  BY <1>1, <1>2, <1>4, <1>5 DEF IInv, Fresh, Once
<1>8. Reported'
  BY <1>1, <1>2, <1>4 DEF IInv, Reported
<1>9. Written'
  <2>1. \A j \in table["lo"] : j \in Conns
    BY Places
  <2> QED BY <1>1, <1>2, <2>1 DEF IInv, Written, Open
<1> QED BY <1>3, <1>6, <1>7, <1>8, <1>9 DEF IInv

LEMMA JobIsAnsweredKeeps == ASSUME IInv, NEW k \in Conns, JobIsAnswered(k) PROVE IInv'
<1>1. /\ job[k] = "joined" /\ job' = [job EXCEPT ![k] = "answered"]
      /\ reading' = [reading EXCEPT !["hi"] = @ \cup {k}]
      /\ writing' = [writing EXCEPT !["hi"] = @ \cup {k}]
      /\ UNCHANGED <<up, queue, table, main, jobs, shake, broken, early, faults>>
  BY DEF JobIsAnswered
<1>2. job'[k] = "answered" /\ \A j \in Conns : j # k => job'[j] = job[j]
  BY <1>1 DEF IInv, Types
<1>3. /\ reading'["hi"] = reading["hi"] \cup {k} /\ reading'["lo"] = reading["lo"]
      /\ writing'["hi"] = writing["hi"] \cup {k} /\ writing'["lo"] = writing["lo"]
  BY <1>1 DEF IInv, Types, Sides
<1>4. Threads("hi")' = Threads("hi") \cup {k} /\ Threads("lo")' = Threads("lo")
  BY <1>3 DEF Threads
<1>5. Types'
  BY <1>1 DEF IInv, Types, Sides
<1>6. \A s, t, j : Queued(s, t, j)' <=> Queued(s, t, j)
  BY <1>1 DEF Queued
<1>7. k \notin Threads("hi") \cup early /\ ~Queued("hi", "Lost", k)
  BY <1>1 DEF IInv, Fresh
<1>8. Owned'
  <2>1. \A j \in Threads("hi") : j \in Conns
    BY Places
  <2> QED BY <1>1, <1>2, <1>4, <1>6, <2>1 DEF IInv, Owned
<1>9. Fresh' /\ Once'
  BY <1>1, <1>2, <1>4, <1>6 DEF IInv, Fresh, Once
<1>10. Reported'
  BY <1>1, <1>2, <1>3, <1>6, <1>7 DEF IInv, Reported, Sides
<1>11. Written'
  <2>1. \A j \in table["lo"] : j \in Conns
    BY Places
  <2> QED BY <1>1, <1>2, <1>3, <2>1 DEF IInv, Written, Open
<1> QED BY <1>5, <1>8, <1>9, <1>10, <1>11 DEF IInv

LEMMA JobReportsKeeps == ASSUME IInv, NEW k \in Conns, JobReports(k) PROVE IInv'
<1>1. /\ job[k] = "answered" /\ job' = [job EXCEPT ![k] = "none"]
      /\ queue' = Put("hi", Event("Established", k))
      /\ UNCHANGED <<up, table, main, jobs, shake, reading, writing, broken, early, faults>>
  BY DEF JobReports, threads
<1>2. job'[k] = "none" /\ \A j \in Conns : j # k => job'[j] = job[j]
  BY <1>1 DEF IInv, Types
<1>3. "lo" \in Sides /\ "hi" \in Sides
  BY DEF Sides
<1>4. /\ queue' \in [Sides -> Seq(Events)] /\ Once'
      /\ \A o \in Sides : \A t, j :
           Queued(o, t, j)' <=> Queued(o, t, j) \/ (o = "hi" /\ t = "Established" /\ j = k)
  BY <1>1, <1>3, PutQueue DEF IInv
<1>5. \A s : Threads(s)' = Threads(s)
  BY <1>1 DEF Threads
<1>6. Types'
  BY <1>1, <1>4 DEF IInv, Types
<1>7. Owned'
  <2>1. \A j \in Threads("hi") : j \in Conns
    BY Places
  <2> QED BY <1>1, <1>2, <1>3, <1>4, <1>5, <2>1 DEF IInv, Owned
<1>8. Fresh'
  BY <1>1, <1>2, <1>3, <1>4, <1>5 DEF IInv, Fresh
<1>9. Reported'
  BY <1>1, <1>2, <1>3, <1>4 DEF IInv, Reported
<1>10. Written'
  <2>1. \A j \in table["lo"] : j \in Conns
    BY Places
  <2> QED BY <1>1, <1>2, <2>1 DEF IInv, Written, Open
<1> QED BY <1>4, <1>6, <1>7, <1>8, <1>9, <1>10 DEF IInv

LEMMA AbandonHandshakeKeeps ==
  ASSUME IInv, NEW k \in Conns, AbandonHandshake(k), faults' \in Nat
  PROVE  IInv'
<1>1. /\ job[k] \in {"connected", "joined"} /\ job' = [job EXCEPT ![k] = "none"]
      /\ UNCHANGED <<up, queue, table, main, jobs, shake, reading, writing, broken, early>>
  BY DEF AbandonHandshake, threads
<1>2. job'[k] = "none" /\ \A j \in Conns : j # k => job'[j] = job[j]
  BY <1>1 DEF IInv, Types
<1>3. Types'
  BY <1>1 DEF IInv, Types
<1>4. \A s, t, j : Queued(s, t, j)' <=> Queued(s, t, j)
  BY <1>1 DEF Queued
<1>5. \A s : Threads(s)' = Threads(s)
  BY <1>1 DEF Threads
<1>6. Owned'
  <2>1. \A j \in Threads("hi") : j \in Conns
    BY Places
  <2> QED BY <1>1, <1>2, <1>4, <1>5, <2>1 DEF IInv, Owned
<1>7. Fresh' /\ Once'
  BY <1>1, <1>2, <1>4, <1>5 DEF IInv, Fresh, Once
<1>8. Reported'
  BY <1>1, <1>2, <1>4 DEF IInv, Reported
<1>9. Written'
  <2>1. \A j \in table["lo"] : j \in Conns
    BY Places
  <2> QED BY <1>1, <1>2, <2>1 DEF IInv, Written, Open
<1> QED BY <1>3, <1>6, <1>7, <1>8, <1>9 DEF IInv

-----------------------------------------------------------------------------
(* The main threads.                                                       *)

\* What a main thread that handles an event finds and takes.
LEMMA HandlesFacts ==
  ASSUME IInv, NEW s \in {"hi", "lo"}, NEW type, NEW k, Handles(s, type, k), queue' = Take(s)
  PROVE  /\ s \in Sides /\ main[s] = Loop /\ main[s].conn = {}
         /\ queue' \in [Sides -> Seq(Events)] /\ Once'
         /\ Queued(s, type, k)
         /\ \A o \in {"hi", "lo"} : \A t, j : Queued(o, t, j)' => Queued(o, t, j)
         /\ \A o \in {"hi", "lo"} : \A t, j : Queued(o, t, j) =>
              Queued(o, t, j)' \/ (o = s /\ t = type /\ j = k)
         /\ s = "lo" /\ type = "Incoming" => ~Queued("lo", "Incoming", k)'
<1>1. Types /\ Once /\ s \in Sides /\ queue[s] # <<>> /\ Head(queue[s]) = Event(type, k)
      /\ main[s] = Loop
  BY Places DEF Handles, IInv
<1>2. "hi" \in Sides /\ "lo" \in Sides /\ Loop.conn = {}
  BY DEF Sides, Loop
<1> QED BY <1>1, <1>2, TakeQueue, EventFacts

LEMMA AddPeerFacts ==
  ASSUME IInv, NEW s \in {"hi", "lo"}, NEW k \in Conns, AddPeer(s, k), main[s] = Loop
  PROVE  /\ table' \in [Sides -> {{}} \cup {{j} : j \in Conns}]
         /\ main' \in [Sides -> [task : {"loop", "remove", "refuse"}, conn : SUBSET Conns]]
         /\ \A o \in {"hi", "lo"} : o # s => table'[o] = table[o] /\ main'[o] = main[o]
         /\ \/ table[s] = {} /\ table'[s] = {k} /\ main'[s].conn = {}
            \/ table'[s] = table[s] /\ main'[s].conn = {k}
<1>1. s \in Sides /\ \A o \in {"hi", "lo"} : o \in Sides
  BY DEF Sides
<1>2. Dropping("refuse", {k}) \in [task : {"loop", "remove", "refuse"}, conn : SUBSET Conns]
      /\ Dropping("refuse", {k}).conn = {k} /\ Loop.conn = {}
  BY DEF Dropping, Loop
<1>3. CASE table[s] = {}
  <2>1. table' = [table EXCEPT ![s] = {k}] /\ main' = main
    BY <1>3 DEF AddPeer
  <2> QED BY <1>1, <1>2, <1>3, <2>1 DEF IInv, Types
<1>4. CASE table[s] # {}
  <2>1. main' = [main EXCEPT ![s] = Dropping("refuse", {k})] /\ table' = table
    BY <1>4 DEF AddPeer
  <2> QED BY <1>1, <1>2, <2>1 DEF IInv, Types
<1> QED BY <1>3, <1>4

LEMMA AnswerHandshakeKeeps == ASSUME IInv, NEW k \in Conns, AnswerHandshake(k) PROVE IInv'
<1>1. /\ Handles("lo", "Incoming", k) /\ queue' = Take("lo")
      /\ shake' = [shake EXCEPT ![k] = "JoinAck"]
      /\ reading' = [reading EXCEPT !["lo"] = @ \cup {k}]
      /\ writing' = [writing EXCEPT !["lo"] = @ \cup {k}]
      /\ AddPeer("lo", k)
      /\ UNCHANGED <<up, jobs, job, broken, early, faults>>
  BY DEF AnswerHandshake
<1>2. /\ "lo" \in Sides /\ main["lo"] = Loop /\ main["lo"].conn = {}
      /\ queue' \in [Sides -> Seq(Events)] /\ Once'
      /\ Queued("lo", "Incoming", k) /\ ~Queued("lo", "Incoming", k)'
      /\ \A o \in {"hi", "lo"} : \A t, j : Queued(o, t, j)' => Queued(o, t, j)
      /\ \A o \in {"hi", "lo"} : \A t, j : Queued(o, t, j) =>
           Queued(o, t, j)' \/ (o = "lo" /\ t = "Incoming" /\ j = k)
  BY <1>1, HandlesFacts
<1>3. /\ table' \in [Sides -> {{}} \cup {{j} : j \in Conns}]
      /\ main' \in [Sides -> [task : {"loop", "remove", "refuse"}, conn : SUBSET Conns]]
      /\ table'["hi"] = table["hi"] /\ main'["hi"] = main["hi"]
      /\ \/ table["lo"] = {} /\ table'["lo"] = {k} /\ main'["lo"].conn = {}
         \/ table'["lo"] = table["lo"] /\ main'["lo"].conn = {k}
  BY <1>1, <1>2, AddPeerFacts
<1>4. /\ reading'["lo"] = reading["lo"] \cup {k} /\ reading'["hi"] = reading["hi"]
      /\ writing'["lo"] = writing["lo"] \cup {k} /\ writing'["hi"] = writing["hi"]
  BY <1>1 DEF IInv, Types, Sides
<1>5. Threads("lo")' = Threads("lo") \cup {k} /\ Threads("hi")' = Threads("hi")
  BY <1>4 DEF Threads
<1>6. k \notin Threads("lo") \cup table["lo"] /\ ~Queued("lo", "Lost", k)
  BY <1>2 DEF IInv, Fresh
<1>7. Types'
  BY <1>1, <1>2, <1>3 DEF IInv, Types
<1>8. Owned'
  BY <1>1, <1>2, <1>3, <1>5 DEF IInv, Owned
<1>9. Fresh'
  BY <1>1, <1>2, <1>3, <1>5 DEF IInv, Fresh
<1>10. Reported'
  BY <1>1, <1>2, <1>3, <1>4, <1>6 DEF IInv, Reported, Sides
<1>11. Written'
  BY <1>1, <1>2, <1>3, <1>4, <1>6 DEF IInv, Written, Open
<1> QED BY <1>2, <1>7, <1>8, <1>9, <1>10, <1>11 DEF IInv

LEMMA ForgetIncomingKeeps ==
  ASSUME IInv, NEW k \in Conns, ForgetIncoming(k), faults' \in Nat
  PROVE  IInv'
<1>1. /\ Handles("lo", "Incoming", k) /\ queue' = Take("lo")
      /\ UNCHANGED <<up, table, main, jobs, job, shake, reading, writing, broken, early>>
  BY DEF ForgetIncoming, jobVars, threads
<1>2. /\ queue' \in [Sides -> Seq(Events)] /\ Once'
      /\ \A o \in {"hi", "lo"} : \A t, j : Queued(o, t, j)' => Queued(o, t, j)
      /\ \A o \in {"hi", "lo"} : \A t, j : Queued(o, t, j) =>
           Queued(o, t, j)' \/ (o = "lo" /\ t = "Incoming" /\ j = k)
  BY <1>1, HandlesFacts
<1>3. Threads("lo")' = Threads("lo") /\ Threads("hi")' = Threads("hi")
  BY <1>1 DEF Threads
<1>4. Types'
  BY <1>1, <1>2 DEF IInv, Types
<1>5. Owned'
  BY <1>1, <1>2, <1>3 DEF IInv, Owned
<1>6. Fresh'
  BY <1>1, <1>2, <1>3 DEF IInv, Fresh
<1>7. Reported'
  BY <1>1, <1>2 DEF IInv, Reported, Sides
<1>8. Written'
  BY <1>1 DEF IInv, Written, Open
<1> QED BY <1>2, <1>4, <1>5, <1>6, <1>7, <1>8 DEF IInv

LEMMA EstablishKeeps == ASSUME IInv, NEW k \in Conns, Establish(k) PROVE IInv'
<1>1. /\ Handles("hi", "Established", k) /\ queue' = Take("hi") /\ AddPeer("hi", k)
      /\ UNCHANGED <<up, jobs, job, shake, reading, writing, broken, early, faults>>
  BY DEF Establish, jobVars, threads
<1>2. /\ main["hi"] = Loop /\ main["hi"].conn = {}
      /\ queue' \in [Sides -> Seq(Events)] /\ Once'
      /\ Queued("hi", "Established", k)
      /\ \A o \in {"hi", "lo"} : \A t, j : Queued(o, t, j)' => Queued(o, t, j)
      /\ \A o \in {"hi", "lo"} : \A t, j : Queued(o, t, j) =>
           Queued(o, t, j)' \/ (o = "hi" /\ t = "Established" /\ j = k)
  BY <1>1, HandlesFacts
<1>3. /\ table' \in [Sides -> {{}} \cup {{j} : j \in Conns}]
      /\ main' \in [Sides -> [task : {"loop", "remove", "refuse"}, conn : SUBSET Conns]]
      /\ table'["lo"] = table["lo"] /\ main'["lo"] = main["lo"]
      /\ \/ table["hi"] = {} /\ table'["hi"] = {k} /\ main'["hi"].conn = {}
         \/ table'["hi"] = table["hi"] /\ main'["hi"].conn = {k}
  BY <1>1, <1>2, AddPeerFacts
<1>4. Threads("lo")' = Threads("lo") /\ Threads("hi")' = Threads("hi")
  BY <1>1 DEF Threads
<1>5. Types'
  BY <1>1, <1>2, <1>3 DEF IInv, Types
<1>6. Owned'
  BY <1>1, <1>2, <1>3, <1>4 DEF IInv, Owned
<1>7. Fresh'
  BY <1>1, <1>2, <1>3, <1>4 DEF IInv, Fresh
<1>8. Reported'
  BY <1>1, <1>2, <1>3 DEF IInv, Reported, Sides
<1>9. Written'
  BY <1>1, <1>3 DEF IInv, Written, Open
<1> QED BY <1>2, <1>5, <1>6, <1>7, <1>8, <1>9 DEF IInv

\* The connection of the table is the one that is dropped.
LEMMA DropPeerFacts ==
  ASSUME IInv, NEW s \in {"hi", "lo"}, DropPeer(s), main[s] = Loop
  PROVE  /\ table' \in [Sides -> {{}} \cup {{j} : j \in Conns}]
         /\ main' \in [Sides -> [task : {"loop", "remove", "refuse"}, conn : SUBSET Conns]]
         /\ \A o \in {"hi", "lo"} : o # s => table'[o] = table[o] /\ main'[o] = main[o]
         /\ table'[s] = {} /\ main'[s].conn = table[s]
<1>1. s \in Sides /\ (\A o \in {"hi", "lo"} : o \in Sides) /\ table[s] \subseteq Conns
  BY Places
<1>2. Dropping("remove", table[s]) \in [task : {"loop", "remove", "refuse"}, conn : SUBSET Conns]
      /\ Dropping("remove", table[s]).conn = table[s] /\ Loop.conn = {}
  BY <1>1 DEF Dropping, Loop
<1>3. CASE table[s] = {}
  <2>1. table' = table /\ main' = main
    BY <1>3 DEF DropPeer
  <2> QED BY <1>1, <1>2, <1>3, <2>1 DEF IInv, Types
<1>4. CASE table[s] # {}
  <2>1. table' = [table EXCEPT ![s] = {}] /\ main' = [main EXCEPT ![s] = Dropping("remove", table[s])]
    BY <1>4 DEF DropPeer
  <2> QED BY <1>1, <1>2, <2>1 DEF IInv, Types
<1> QED BY <1>3, <1>4

LEMMA RemovePeerKeeps ==
  ASSUME IInv, NEW s \in Sides, NEW k \in Conns, RemovePeer(s, k)
  PROVE  IInv'
<1>1. /\ Handles(s, "Lost", k) /\ queue' = Take(s) /\ DropPeer(s) /\ s \in {"hi", "lo"}
      /\ early' = IF s = "hi" /\ (job[k] # "none" \/ Queued(s, "Established", k))
                    THEN early \cup {k} ELSE early
      /\ UNCHANGED <<up, jobs, job, shake, reading, writing, broken, faults>>
  BY DEF RemovePeer, jobVars, threads, Sides
<1>2. /\ main[s] = Loop /\ main[s].conn = {}
      /\ queue' \in [Sides -> Seq(Events)] /\ Once'
      /\ Queued(s, "Lost", k)
      /\ \A o \in {"hi", "lo"} : \A t, j : Queued(o, t, j)' => Queued(o, t, j)
      /\ \A o \in {"hi", "lo"} : \A t, j : Queued(o, t, j) =>
           Queued(o, t, j)' \/ (o = s /\ t = "Lost" /\ j = k)
  BY <1>1, HandlesFacts
<1>3. /\ table' \in [Sides -> {{}} \cup {{j} : j \in Conns}]
      /\ main' \in [Sides -> [task : {"loop", "remove", "refuse"}, conn : SUBSET Conns]]
      /\ \A o \in {"hi", "lo"} : o # s => table'[o] = table[o] /\ main'[o] = main[o]
      /\ table'[s] = {} /\ main'[s].conn = table[s]
  BY <1>1, <1>2, DropPeerFacts
<1>4. Threads("lo")' = Threads("lo") /\ Threads("hi")' = Threads("hi")
  BY <1>1 DEF Threads
<1>5. /\ k \notin reading[s]
      /\ s = "hi" => job[k] \notin {"connected", "joined"}
  BY <1>1, <1>2 DEF IInv, Reported, Fresh
<1>6. Types'
  BY <1>1, <1>2, <1>3 DEF IInv, Types
<1>7. Owned'
  <2>1. \A j \in Threads("lo") : j \in table'["lo"] \cup main'["lo"].conn
    BY <1>1, <1>2, <1>3 DEF IInv, Owned
  <2>2. ASSUME NEW j \in Threads("hi")
        PROVE  \/ j \in table'["hi"] \cup main'["hi"].conn
               \/ job[j] = "answered" \/ Queued("hi", "Established", j)'
    <3>1. Queued("hi", "Established", j) => Queued("hi", "Established", j)'
      BY <1>1, <1>2
    <3>2. table["hi"] \cup main["hi"].conn \subseteq table'["hi"] \cup main'["hi"].conn
      BY <1>1, <1>2, <1>3
    <3> QED BY <3>1, <3>2 DEF IInv, Owned
  <2> QED BY <1>1, <1>4, <2>1, <2>2 DEF Owned
<1>8. Fresh'
  BY <1>1, <1>2, <1>3, <1>4, <1>5 DEF IInv, Fresh
<1>9. Reported'
  <2>1. \A o \in Sides, j \in Conns : Queued(o, "Lost", j)' => j \notin reading'[o]
    BY <1>1, <1>2 DEF IInv, Reported, Sides
  <2>2. \A j \in table'["lo"] : j \in reading'["lo"] \/ Queued("lo", "Lost", j)'
    BY <1>1, <1>2, <1>3 DEF IInv, Reported
  <2>3. ASSUME NEW j \in Conns,
               j \in table'["hi"] \/ job'[j] = "answered" \/ Queued("hi", "Established", j)'
        PROVE  j \in reading'["hi"] \cup early' \/ Queued("hi", "Lost", j)'
    <3>1. j \in reading["hi"] \cup early \/ Queued("hi", "Lost", j)
      BY <1>1, <1>2, <1>3, <2>3 DEF IInv, Reported
    <3>2. s = "hi" /\ j = k => j \in early'
      BY <1>1, <1>2, <1>3, <2>3
    <3> QED BY <1>1, <1>2, <3>1, <3>2
  <2>4. early' \cap reading'["hi"] = {}
    BY <1>1, <1>5 DEF IInv, Reported
  <2> QED BY <2>1, <2>2, <2>3, <2>4 DEF Reported
<1>10. Written'
  BY <1>1, <1>3 DEF IInv, Written, Open
<1> QED BY <1>2, <1>6, <1>7, <1>8, <1>9, <1>10 DEF IInv

-----------------------------------------------------------------------------
(* The end of a process, and of a thread.                                  *)

LEMMA HaltKeeps == ASSUME IInv, NEW s \in Sides, Halt(s), faults' \in Nat PROVE IInv'
<1>1. /\ up' = up \ {s} /\ s \in {"hi", "lo"}
      /\ queue' = [queue EXCEPT ![s] = <<>>] /\ table' = [table EXCEPT ![s] = {}]
      /\ main' = [main EXCEPT ![s] = Loop]
      /\ reading' = [reading EXCEPT ![s] = {}] /\ writing' = [writing EXCEPT ![s] = {}]
      /\ \/ s = "hi" /\ jobs' = 0 /\ job' = [k \in Conns |-> "none"]
         \/ s = "lo" /\ UNCHANGED <<jobs, job>>
      /\ UNCHANGED <<shake, broken, early>>
  BY DEF Halt, Sides
<1>2. Loop \in [task : {"loop", "remove", "refuse"}, conn : SUBSET Conns] /\ Loop.conn = {}
  BY DEF Loop
<1>3. /\ table'[s] = {} /\ main'[s].conn = {} /\ reading'[s] = {} /\ writing'[s] = {}
      /\ \A o \in {"hi", "lo"} : o # s =>
           /\ table'[o] = table[o] /\ main'[o] = main[o]
           /\ reading'[o] = reading[o] /\ writing'[o] = writing[o]
  BY <1>1, <1>2 DEF IInv, Types, Sides
<1>4. queue' \in [Sides -> Seq(Events)]
      /\ queue'[s] = <<>> /\ \A o \in {"hi", "lo"} : o # s => queue'[o] = queue[o]
  BY <1>1 DEF IInv, Types, Sides
<1>5. /\ \A t, j : ~Queued(s, t, j)'
      /\ \A o \in {"hi", "lo"} : \A t, j : o # s => (Queued(o, t, j)' <=> Queued(o, t, j))
  BY <1>4 DEF Queued
<1>6. /\ Threads(s)' = {}
      /\ \A o \in {"hi", "lo"} : o # s => Threads(o)' = Threads(o)
  BY <1>3 DEF Threads
<1>7. Types'
  <2>1. /\ main' \in [Sides -> [task : {"loop", "remove", "refuse"}, conn : SUBSET Conns]]
        /\ table' \in [Sides -> {{}} \cup {{k} : k \in Conns}]
        /\ reading' \in [Sides -> SUBSET Conns] /\ writing' \in [Sides -> SUBSET Conns]
    BY <1>1, <1>2 DEF IInv, Types
  <2>2. jobs' \in Nat /\ job' \in [Conns -> {"none", "connected", "joined", "answered"}]
    BY <1>1 DEF IInv, Types
  <2> QED BY <1>1, <1>4, <2>1, <2>2 DEF IInv, Types
<1>8. Owned'
  BY <1>1, <1>3, <1>5, <1>6 DEF IInv, Owned
<1>9. Fresh'
  BY <1>1, <1>3, <1>5, <1>6 DEF IInv, Fresh
<1>10. Once'
  <2>1. CASE s = "lo"
    BY <1>4, <2>1 DEF Once
  <2>2. CASE s = "hi"
    BY <1>4, <2>2 DEF IInv, Once
  <2> QED BY <1>1, <2>1, <2>2
<1>11. Reported'
  BY <1>1, <1>3, <1>5 DEF IInv, Reported, Sides
<1>12. Written'
  BY <1>1, <1>3, Places DEF IInv, Written, Open
<1> QED BY <1>7, <1>8, <1>9, <1>10, <1>11, <1>12 DEF IInv

LEMMA EndReaderKeeps ==
  ASSUME IInv, NEW s \in Sides, NEW k \in Conns, EndReader(s, k), faults' \in Nat
  PROVE  IInv'
<1>1. /\ k \in reading[s] /\ reading' = [reading EXCEPT ![s] = @ \ {k}]
      /\ queue' = Put(s, Event("Lost", k)) /\ s \in {"hi", "lo"}
      /\ UNCHANGED <<up, table, main, jobs, job, shake, writing, broken, early>>
  BY DEF EndReader, jobVars, Sides
<1>2. /\ reading'[s] = reading[s] \ {k}
      /\ \A o \in {"hi", "lo"} : o # s => reading'[o] = reading[o]
  BY <1>1 DEF IInv, Types, Sides
<1>3. /\ queue' \in [Sides -> Seq(Events)] /\ Once'
      /\ \A o \in Sides : \A t, j :
           Queued(o, t, j)' <=> Queued(o, t, j) \/ (o = s /\ t = "Lost" /\ j = k)
  BY <1>1, PutQueue DEF IInv
<1>4. \A o \in Sides : Threads(o)' \subseteq Threads(o)
  BY <1>1, <1>2 DEF Threads, Sides
<1>5. "hi" \in Sides /\ "lo" \in Sides /\ k \in Threads(s)
  BY <1>1 DEF Sides, Threads
<1>6. Types'
  BY <1>1, <1>3 DEF IInv, Types
<1>7. Owned'
  BY <1>1, <1>3, <1>4, <1>5 DEF IInv, Owned
<1>8. Fresh'
  BY <1>1, <1>3, <1>4, <1>5 DEF IInv, Fresh
<1>9. Reported'
  BY <1>1, <1>2, <1>3, <1>5 DEF IInv, Reported, Sides
<1>10. Written'
  BY <1>1, <1>2 DEF IInv, Written, Open
<1> QED BY <1>3, <1>6, <1>7, <1>8, <1>9, <1>10 DEF IInv

LEMMA WriterEndsKeeps ==
  ASSUME IInv, NEW s \in Sides, NEW k \in Conns, WriterEnds(s, k)
  PROVE  IInv'
<1>1. /\ k \in broken \cup main[s].conn \/ ~Open(Other(s), k)
      /\ writing' = [writing EXCEPT ![s] = @ \ {k}] /\ s \in {"hi", "lo"}
      /\ UNCHANGED <<up, queue, table, main, jobs, job, shake, reading, broken, early, faults>>
  BY DEF WriterEnds, jobVars, Sides
<1>2. /\ writing'[s] = writing[s] \ {k}
      /\ \A o \in {"hi", "lo"} : o # s => writing'[o] = writing[o]
  BY <1>1 DEF IInv, Types, Sides
<1>3. \A o, t, j : Queued(o, t, j)' <=> Queued(o, t, j)
  BY <1>1 DEF Queued
<1>4. Threads("hi")' \subseteq Threads("hi") /\ Threads("lo")' \subseteq Threads("lo")
  BY <1>1, <1>2 DEF Threads
<1>5. Types'
  BY <1>1 DEF IInv, Types
<1>6. Owned'
  BY <1>1, <1>3, <1>4 DEF IInv, Owned
<1>7. Fresh' /\ Once'
  BY <1>1, <1>3, <1>4 DEF IInv, Fresh, Once
<1>8. Reported'
  BY <1>1, <1>3 DEF IInv, Reported
<1>9. Written'
  <2>1. \A j : Open("hi", j)' => Open("hi", j)
    BY <1>1, <1>2 DEF Open
  <2>2. s = "lo" => k \in broken \/ k \notin table["lo"] \/ ~Open("hi", k)
    BY <1>1 DEF IInv, Written, Other
  <2> QED BY <1>1, <1>2, <2>1, <2>2 DEF IInv, Written
<1> QED BY <1>5, <1>6, <1>7, <1>8, <1>9 DEF IInv

-----------------------------------------------------------------------------
(* The invariant, and what it implies.                                     *)

LEMMA InitInv == ASSUME Init PROVE IInv
<1>1. Types
  BY DEF Init, Types, Loop, Sides
<1>2. "hi" \in Sides /\ "lo" \in Sides
  BY DEF Sides
<1>3. \A s \in Sides : queue[s] = <<>> /\ table[s] = {} /\ Threads(s) = {} /\ reading[s] = {}
  BY DEF Init, Threads
<1>4. \A s \in Sides : \A t, j : ~Queued(s, t, j)
  BY <1>3 DEF Queued
<1> QED BY <1>1, <1>2, <1>3, <1>4
        DEF Init, IInv, Owned, Fresh, Once, Reported, Written

LEMMA FaultKeeps == ASSUME IInv, Fault PROVE IInv'
<1>1. faults' \in Nat
  BY DEF Fault, IInv, Types
<1>2. CASE AttemptsOverlap
  BY <1>1, <1>2, StartJobKeeps DEF AttemptsOverlap
<1>3. ASSUME NEW s \in Sides, Crash(s) PROVE IInv'
  BY <1>1, <1>3, HaltKeeps DEF Crash
<1>4. ASSUME NEW s \in Sides, Restart(s) PROVE IInv'
  BY <1>1, <1>4, RestartKeeps
<1>5. ASSUME NEW k \in Conns, Break(k) PROVE IInv'
  BY <1>1, <1>5, BreakKeeps
<1>6. ASSUME NEW k \in Conns, Late(k) PROVE IInv'
  BY <1>1, <1>6, AbandonHandshakeKeeps, ForgetIncomingKeeps, EndReaderKeeps DEF Late
<1> QED BY <1>2, <1>3, <1>4, <1>5, <1>6 DEF Fault

LEMMA NextKeeps == ASSUME IInv, [Next]_vars PROVE IInv'
<1>1. UNCHANGED faults => faults' \in Nat
  BY DEF IInv, Types
<1>2. CASE Connecting
  <2>1. CASE AttemptConnect
    BY <1>1, <2>1, StartJobKeeps DEF AttemptConnect
  <2>2. CASE JobConnects \/ JobFails
    BY <2>2, JobConnectsKeeps, JobFailsKeeps
  <2> QED BY <1>2, <2>1, <2>2 DEF Connecting
<1>3. ASSUME NEW k \in Conns, Job(k) PROVE IInv'
  <2>1. CASE JobGivesUp(k)
    BY <1>1, <2>1, AbandonHandshakeKeeps DEF JobGivesUp
  <2> QED BY <1>3, <2>1, JobSendsJoinKeeps, JobIsAnsweredKeeps, JobReportsKeeps DEF Job
<1>4. ASSUME NEW k \in Conns, Main(k) PROVE IInv'
  <2>1. CASE AnswerFails(k)
    BY <1>1, <2>1, ForgetIncomingKeeps DEF AnswerFails
  <2> QED BY <1>4, <2>1, AnswerHandshakeKeeps, EstablishKeeps, RemovePeerKeeps DEF Main
<1>5. ASSUME NEW k \in Conns, Thread(k) PROVE IInv'
  <2>1. ASSUME NEW s \in Sides, ReaderEnds(s, k) PROVE IInv'
    BY <1>1, <2>1, EndReaderKeeps DEF ReaderEnds
  <2> QED BY <1>5, <2>1, WriterEndsKeeps DEF Thread
<1>6. CASE HandshakePanics
  <2>1. "lo" \in Sides /\ Halt("lo") /\ faults' \in Nat
    BY <1>1, <1>6 DEF HandshakePanics, Sides
  <2> QED BY <2>1, HaltKeeps
<1>7. CASE UNCHANGED vars
  <2>1. Types'
    BY <1>7 DEF vars, IInv, Types
  <2> QED BY <1>7, <2>1, Unmoved DEF vars
<1> QED BY <1>2, <1>3, <1>4, <1>5, <1>6, <1>7, DropEndsKeeps, FaultKeeps DEF Next, Working

LEMMA Inductive == Spec => []IInv
BY InitInv, NextKeeps, PTL DEF Spec

\* Every variable keeps to its type, and a peer table holds a connection or none.
THEOREM TypeCorrect == Spec => []TypeOK
<1>1. ASSUME IInv PROVE TypeOK
  <2>1. ASSUME NEW s \in Sides PROVE table[s] \subseteq Conns /\ Cardinality(table[s]) <= 1
    <3>1. table[s] \in {{}} \cup {{k} : k \in Conns}
      BY <1>1 DEF IInv, Types
    <3>2. CASE table[s] = {}
      BY <3>2, FS_EmptySet
    <3>3. CASE \E k \in Conns : table[s] = {k}
      BY <3>3, FS_Singleton
    <3> QED BY <3>1, <3>2, <3>3
  <2>2. table \in [Sides -> SUBSET Conns]
    BY <1>1, <2>1 DEF IInv, Types
  <2> QED BY <1>1, <2>1, <2>2 DEF IInv, Types, TypeOK
<1> QED BY <1>1, Inductive, PTL

\* No thread of a connection is left behind: whatever crashes, breaks or comes late,
\* and however attempts to connect overlap, add_peer and remove_peer (server.rs:295,
\* 318) leave threads at work only for the connection in the table, for the one that is
\* being dropped, and, at the node that connects, for those it has yet to add.
THEOREM ThreadsAreOwned == Spec => []NoStrayThreads
<1>1. ASSUME IInv PROVE NoStrayThreads
  <2>1. ASSUME NEW s \in Sides, NEW k \in Threads(s)
        PROVE  k \in table[s] \cup main[s].conn \cup NotYetAdded(s)
    <3>1. s = "lo" \/ s = "hi"
      BY DEF Sides
    <3>2. k \in Conns
      BY <1>1, <2>1 DEF IInv, Types, Threads
    <3> QED BY <1>1, <2>1, <3>1, <3>2 DEF IInv, Owned, NotYetAdded
  <2> QED BY <2>1 DEF NoStrayThreads, Threads
<1> QED BY <1>1, Inductive, PTL

\* At rest the two tables, from which each node counts its majority, agree, and each
\* shows what is connected in both directions; but the higher node may hold a
\* connection whose loss it handled before the establishment.
THEOREM TablesAgreeAtRest == Spec => []TablesMatch
<1>1. ASSUME IInv, AtRest PROVE
        /\ table["lo"] \subseteq table["hi"] /\ (table["hi"] \subseteq table["lo"] \/ Zombie)
        /\ reading["hi"] = table["hi"] \ early
        /\ reading["lo"] = table["lo"] /\ writing["lo"] = table["lo"]
  <2>1. /\ \A k \in Conns : job[k] = "none"
        /\ \A k \in Conns : k \in reading["hi"] => k \notin broken /\ ~Silent("lo", k)
        /\ \A k \in Conns : k \in reading["lo"] => k \notin broken /\ ~Silent("hi", k)
        /\ \A k \in Conns : k \in writing["hi"] => k \notin broken /\ Open("lo", k)
        /\ \A k \in Conns : k \in writing["lo"] => k \notin broken /\ Open("hi", k)
    BY <1>1 DEF AtRest, Sides, Other
  <2>2. \A s \in {"hi", "lo"} : main[s].conn = {} /\ \A t, j : ~Queued(s, t, j)
    <3>1. \A s \in Sides : queue[s] = <<>> /\ main[s] = Loop
      BY <1>1 DEF AtRest
    <3> QED BY <3>1 DEF Queued, Loop, Sides
  <2>3. /\ Threads("lo") \subseteq table["lo"] /\ Threads("hi") \subseteq table["hi"]
        /\ \A s \in {"hi", "lo"} : /\ table[s] \subseteq Conns /\ \A i, j \in table[s] : i = j
                                   /\ reading[s] \subseteq Conns /\ writing[s] \subseteq Conns
    <3>1. Threads("hi") \subseteq Conns
      BY <1>1, Places
    <3> QED BY <1>1, <2>1, <2>2, <3>1, Places DEF IInv, Owned
  <2>4. \A k \in table["lo"] : k \in reading["lo"]
    BY <1>1, <2>2 DEF IInv, Reported
  <2>5. \A k \in table["lo"] : k \in writing["hi"]
    BY <2>1, <2>2, <2>3, <2>4 DEF Silent
  <2>6. \A k \in table["lo"] : k \in writing["lo"]
    BY <1>1, <2>1, <2>3, <2>5 DEF IInv, Written, Open
  <2>7. \A k \in table["hi"] : k \in reading["hi"] \cup early
    BY <1>1, <2>2, <2>3 DEF IInv, Reported
  <2>8. \A k \in reading["hi"] : k \in writing["lo"] /\ k \notin early
    BY <1>1, <2>1, <2>2, <2>3 DEF Silent, IInv, Reported
  <2>9. reading["hi"] = table["hi"] \ early
    BY <2>3, <2>7, <2>8 DEF Threads
  <2>10. reading["lo"] = table["lo"] /\ writing["lo"] = table["lo"]
    BY <2>3, <2>4, <2>6 DEF Threads
  <2>11. table["lo"] \subseteq table["hi"]
    BY <2>3, <2>5 DEF Threads
  <2>12. table["hi"] \subseteq table["lo"] \/ Zombie
    BY <2>7, <2>8, <2>10 DEF Zombie
  <2> QED BY <2>9, <2>10, <2>11, <2>12
<1>2. ASSUME IInv PROVE TablesMatch
  BY <1>1, <1>2 DEF TablesMatch
<1> QED BY <1>2, Inductive, PTL

-----------------------------------------------------------------------------
(* Without faults.                                                         *)

\* How far the one connection is: hi's job, the last message of the handshake, the
\* queues, and what of it lo and hi have.
At(k, j, m, ql, qh, lo, hi, established) ==
  /\ job[k] = j /\ shake[k] = m /\ queue["lo"] = ql /\ queue["hi"] = qh
  /\ table["lo"] = lo /\ reading["lo"] = lo /\ writing["lo"] = lo
  /\ reading["hi"] = hi /\ writing["hi"] = hi /\ table["hi"] = established

Unconnected ==
  /\ jobs \in {0, 1} /\ \A k \in Conns : job[k] = "none"
  /\ \A s \in Sides : queue[s] = <<>> /\ table[s] = {} /\ Threads(s) = {}

Progress(k) ==
  /\ jobs = 0 /\ \A j \in Conns : j # k => job[j] = "none"
  /\ \/ At(k, "connected", "none", <<Event("Incoming", k)>>, <<>>, {}, {}, {})
     \/ At(k, "joined", "Join", <<Event("Incoming", k)>>, <<>>, {}, {}, {})
     \/ At(k, "joined", "JoinAck", <<>>, <<>>, {k}, {}, {})
     \/ At(k, "answered", "JoinAck", <<>>, <<>>, {k}, {k}, {})
     \/ At(k, "none", "JoinAck", <<>>, <<Event("Established", k)>>, {k}, {k}, {})
     \/ At(k, "none", "JoinAck", <<>>, <<>>, {k}, {k}, {k})

Unprovoked ==
  faults = 0 =>
    /\ up = Sides /\ broken = {} /\ \A s \in Sides : main[s] = Loop
    /\ Unconnected \/ \E k \in Conns : Progress(k)

\* A queue with one event.
LEMMA OneEvent ==
  ASSUME NEW e \in Events
  PROVE  /\ Append(<<>>, e) = <<e>> /\ Head(<<e>>) = e /\ Tail(<<e>>) = <<>> /\ <<e>> # <<>>
         /\ DOMAIN <<e>> = {1} /\ <<e>>[1] = e /\ DOMAIN <<>> = {}
OBVIOUS

LEMMA QueuedFacts ==
  ASSUME NEW s, NEW type \in {"Incoming", "Established", "Lost"}, NEW k \in Conns
  PROVE  /\ queue[s] = <<>> => \A t, j : ~Queued(s, t, j)
         /\ queue[s] = <<Event(type, k)>> =>
              \A t, j : Queued(s, t, j) <=> t = type /\ j = k
BY OneEvent, EventFacts DEF Queued

\* Neither a handshake nor a thread has a reason to end.
Lasting ==
  /\ \A j \in Conns : job[j] \in {"connected", "joined"} => Open("lo", j)
  /\ \A j : Queued("lo", "Incoming", j) => Open("hi", j)
  /\ \A s \in Sides : \A j \in reading[s] : ~Silent(Other(s), j)
  /\ \A s \in Sides : \A j \in writing[s] : Open(Other(s), j)
  /\ \A s \in Sides : \A j : ~Queued(s, "Lost", j)

LEMMA ProgressLasts == ASSUME NEW k \in Conns, Progress(k) PROVE Lasting
<1>1. \A j \in Conns : j # k => job[j] = "none"
  BY DEF Progress
<1>2. CASE At(k, "connected", "none", <<Event("Incoming", k)>>, <<>>, {}, {}, {})
  <2>1. /\ job[k] = "connected"
        /\ \A s \in Sides : \A t, j : Queued(s, t, j) <=> s = "lo" /\ t = "Incoming" /\ j = k
    BY <1>2, QueuedFacts DEF At, Sides
  <2> QED BY <1>1, <1>2, <2>1 DEF At, Lasting, Open, Silent, Other, Sides
<1>3. CASE At(k, "joined", "Join", <<Event("Incoming", k)>>, <<>>, {}, {}, {})
  <2>1. /\ job[k] = "joined"
        /\ \A s \in Sides : \A t, j : Queued(s, t, j) <=> s = "lo" /\ t = "Incoming" /\ j = k
    BY <1>3, QueuedFacts DEF At, Sides
  <2> QED BY <1>1, <1>3, <2>1 DEF At, Lasting, Open, Silent, Other, Sides
<1>4. CASE At(k, "joined", "JoinAck", <<>>, <<>>, {k}, {}, {})
  <2>1. job[k] = "joined" /\ \A s \in Sides : \A t, j : ~Queued(s, t, j)
    BY <1>4, QueuedFacts DEF At, Sides
  <2> QED BY <1>1, <1>4, <2>1 DEF At, Lasting, Open, Silent, Other, Sides
<1>5. CASE At(k, "answered", "JoinAck", <<>>, <<>>, {k}, {k}, {})
  <2>1. job[k] = "answered" /\ \A s \in Sides : \A t, j : ~Queued(s, t, j)
    BY <1>5, QueuedFacts DEF At, Sides
  <2> QED BY <1>1, <1>5, <2>1 DEF At, Lasting, Open, Silent, Other, Sides
<1>6. CASE At(k, "none", "JoinAck", <<>>, <<Event("Established", k)>>, {k}, {k}, {})
  <2>1. /\ job[k] = "none"
        /\ \A s \in Sides : \A t, j : Queued(s, t, j) <=> s = "hi" /\ t = "Established" /\ j = k
    BY <1>6, QueuedFacts DEF At, Sides
  <2> QED BY <1>1, <1>6, <2>1 DEF At, Lasting, Open, Silent, Other, Sides
<1>7. CASE At(k, "none", "JoinAck", <<>>, <<>>, {k}, {k}, {k})
  <2>1. job[k] = "none" /\ \A s \in Sides : \A t, j : ~Queued(s, t, j)
    BY <1>7, QueuedFacts DEF At, Sides
  <2> QED BY <1>1, <1>7, <2>1 DEF At, Lasting, Open, Silent, Other, Sides
<1> QED BY <1>2, <1>3, <1>4, <1>5, <1>6, <1>7 DEF Progress

\* So nothing ends, as long as nothing breaks and nothing is late.
LEMMA NothingEnds ==
  ASSUME IInv, Unprovoked, faults = 0
  PROVE  /\ ~JobFails /\ ~HandshakePanics /\ \A s \in Sides : ~DropEnds(s)
         /\ \A j \in Conns : ~JobGivesUp(j) /\ ~AnswerFails(j)
         /\ \A s \in Sides, j \in Conns :
              ~RemovePeer(s, j) /\ ~ReaderEnds(s, j) /\ ~WriterEnds(s, j)
<1>1. up = Sides /\ broken = {} /\ \A s \in Sides : main[s] = Loop /\ main[s].conn = {}
  BY DEF Unprovoked, Loop
<1>2. Lasting
  <2>1. CASE Unconnected
    BY <2>1 DEF Unconnected, Threads, Queued, Lasting, Sides
  <2> QED BY <2>1, ProgressLasts DEF Unprovoked
<1>3. ASSUME NEW s \in Sides, NEW t, NEW j, Handles(s, t, j), queue' = Take(s)
      PROVE  Queued(s, t, j)
  BY <1>3, HandlesFacts DEF Sides
<1>4. ~JobFails
  BY <1>1 DEF JobFails, Sides
<1>5. ~HandshakePanics /\ \A s \in Sides : ~DropEnds(s)
  BY <1>1 DEF HandshakePanics, DropEnds, Joined, Sides
<1>6. ASSUME NEW j \in Conns PROVE ~JobGivesUp(j) /\ ~AnswerFails(j)
  BY <1>1, <1>2, <1>3 DEF Lasting, JobGivesUp, AbandonHandshake, AnswerFails, ForgetIncoming, Sides
<1>7. ASSUME NEW s \in Sides, NEW j \in Conns
      PROVE  ~RemovePeer(s, j) /\ ~ReaderEnds(s, j) /\ ~WriterEnds(s, j)
  BY <1>1, <1>2, <1>3 DEF Lasting, RemovePeer, ReaderEnds, EndReader, WriterEnds
<1> QED BY <1>4, <1>5, <1>6, <1>7

\* What a main thread does next is told by the head of its queue.
LEMMA HeadFacts ==
  ASSUME NEW s \in Sides, NEW t, NEW j, Handles(s, t, j)
  PROVE  /\ queue[s] # <<>>
         /\ \A u \in {"Incoming", "Established", "Lost"}, k \in Conns :
              queue[s] = <<Event(u, k)>> => t = u /\ j = k
BY OneEvent, EventFacts DEF Handles

\* A connection is made when there is none, and is established step by step.
LEMMA UnprovokedStep ==
  ASSUME IInv, Unprovoked, faults = 0, Next, faults' = 0
  PROVE  Unprovoked'
<1>1. /\ up = Sides /\ broken = {} /\ \A s \in Sides : main[s] = Loop
      /\ "hi" \in Sides /\ "lo" \in Sides
      /\ queue \in [Sides -> Seq(Events)] /\ table \in [Sides -> {{}} \cup {{k} : k \in Conns}]
      /\ job \in [Conns -> {"none", "connected", "joined", "answered"}]
      /\ shake \in [Conns -> {"none", "Join", "JoinAck"}]
      /\ reading \in [Sides -> SUBSET Conns] /\ writing \in [Sides -> SUBSET Conns]
  BY DEF Unprovoked, IInv, Types, Sides
<1>2. ~Fault
  <2>1. ASSUME Fault PROVE faults' = 1
    BY <2>1 DEF Fault
  <2> QED BY <2>1
<1>3. CASE AttemptConnect
  <2>1. Unconnected
    <3> SUFFICES ASSUME NEW k \in Conns, Progress(k) PROVE FALSE
      BY DEF Unprovoked
    <3>1. job[k] = "none" /\ table["hi"] = {} /\ ~Queued("hi", "Established", k)
      BY <1>3 DEF AttemptConnect, MayAttempt, Underway
    <3> QED BY <3>1, QueuedFacts DEF Progress, At
  <2>2. jobs = 0 /\ jobs' = 1
    BY <1>3, <2>1 DEF AttemptConnect, StartJob, Underway, Unconnected
  <2>3. Unconnected'
    BY <1>3, <2>1, <2>2 DEF AttemptConnect, StartJob, threads, Unconnected, Threads
  <2> QED BY <1>1, <1>3, <2>3 DEF AttemptConnect, StartJob, Unprovoked
<1>4. CASE JobConnects
  <2>1. PICK k \in Conns :
          /\ jobs > 0 /\ jobs' = jobs - 1 /\ job' = [job EXCEPT ![k] = "connected"]
          /\ shake' = [shake EXCEPT ![k] = "none"] /\ broken' = broken \ {k}
          /\ queue' = Put("lo", Event("Incoming", k))
          /\ UNCHANGED <<up, table, main, reading, writing>>
    BY <1>4, NewConnection
  <2>2. Unconnected /\ jobs = 1
    <3>1. \A j \in Conns : ~Progress(j)
      BY <2>1 DEF Progress
    <3> QED BY <2>1, <3>1 DEF Unprovoked, Unconnected
  <2>3. /\ queue["lo"] = <<>> /\ queue["hi"] = <<>>
        /\ \A s \in Sides : table[s] = {} /\ reading[s] = {} /\ writing[s] = {}
    BY <1>1, <2>2 DEF Unconnected, Threads
  <2>4. queue'["lo"] = <<Event("Incoming", k)>> /\ queue'["hi"] = <<>>
    BY <1>1, <2>1, <2>3, OneEvent, EventFacts DEF Put
  <2>5. \A j \in Conns : j # k => job'[j] = "none"
    BY <1>1, <2>1, <2>2 DEF Unconnected
  <2>6. job'[k] = "connected" /\ shake'[k] = "none" /\ jobs' = 0
    BY <1>1, <2>1, <2>2
  <2>7. Progress(k)'
    BY <1>1, <2>1, <2>3, <2>4, <2>5, <2>6 DEF Progress, At
  <2> QED BY <1>1, <2>1, <2>7 DEF Unprovoked
<1>5. ASSUME NEW k \in Conns, JobSendsJoin(k) PROVE Unprovoked'
  <2>1. /\ job[k] = "connected" /\ job' = [job EXCEPT ![k] = "joined"]
        /\ shake' = [shake EXCEPT ![k] = "Join"]
        /\ UNCHANGED <<up, queue, table, main, jobs, reading, writing, broken>>
    BY <1>5 DEF JobSendsJoin, threads
  <2>2. Progress(k)
    BY <2>1 DEF Unprovoked, Unconnected, Progress
  <2>3. At(k, "connected", "none", <<Event("Incoming", k)>>, <<>>, {}, {}, {})
    BY <2>1, <2>2 DEF Progress, At
  <2>4. Progress(k)'
    BY <1>1, <2>1, <2>2, <2>3 DEF Progress, At
  <2> QED BY <1>1, <2>1, <2>4 DEF Unprovoked
<1>6. ASSUME NEW k \in Conns, JobIsAnswered(k) PROVE Unprovoked'
  <2>1. /\ job[k] = "joined" /\ shake[k] = "JoinAck" /\ job' = [job EXCEPT ![k] = "answered"]
        /\ reading' = [reading EXCEPT !["hi"] = @ \cup {k}]
        /\ writing' = [writing EXCEPT !["hi"] = @ \cup {k}]
        /\ UNCHANGED <<up, queue, table, main, jobs, shake, broken>>
    BY <1>6 DEF JobIsAnswered
  <2>2. Progress(k)
    BY <2>1 DEF Unprovoked, Unconnected, Progress
  <2>3. At(k, "joined", "JoinAck", <<>>, <<>>, {k}, {}, {})
    BY <2>1, <2>2 DEF Progress, At
  <2>4. At(k, "answered", "JoinAck", <<>>, <<>>, {k}, {k}, {})'
    BY <1>1, <2>1, <2>3 DEF At
  <2>5. Progress(k)'
    BY <1>1, <2>1, <2>2, <2>4 DEF Progress
  <2> QED BY <1>1, <2>1, <2>5 DEF Unprovoked
<1>7. ASSUME NEW k \in Conns, JobReports(k) PROVE Unprovoked'
  <2>1. /\ job[k] = "answered" /\ job' = [job EXCEPT ![k] = "none"]
        /\ queue' = Put("hi", Event("Established", k))
        /\ UNCHANGED <<up, table, main, jobs, shake, reading, writing, broken>>
    BY <1>7 DEF JobReports, threads
  <2>2. Progress(k)
    BY <2>1 DEF Unprovoked, Unconnected, Progress
  <2>3. At(k, "answered", "JoinAck", <<>>, <<>>, {k}, {k}, {})
    BY <2>1, <2>2 DEF Progress, At
  <2>4. queue'["hi"] = <<Event("Established", k)>> /\ queue'["lo"] = <<>>
    BY <1>1, <2>1, <2>3, OneEvent, EventFacts DEF Put, At
  <2>5. Progress(k)'
    BY <1>1, <2>1, <2>2, <2>3, <2>4 DEF Progress, At
  <2> QED BY <1>1, <2>1, <2>5 DEF Unprovoked
<1>8. ASSUME NEW k \in Conns, AnswerHandshake(k) PROVE Unprovoked'
  <2>1. /\ Handles("lo", "Incoming", k) /\ shake[k] = "Join" /\ queue' = Take("lo")
        /\ shake' = [shake EXCEPT ![k] = "JoinAck"]
        /\ reading' = [reading EXCEPT !["lo"] = @ \cup {k}]
        /\ writing' = [writing EXCEPT !["lo"] = @ \cup {k}]
        /\ AddPeer("lo", k) /\ UNCHANGED <<up, jobs, job, broken>>
    BY <1>8 DEF AnswerHandshake
  <2>2. Progress(k) /\ queue["lo"] = <<Event("Incoming", k)>>
    BY <1>1, <2>1, HeadFacts DEF Unprovoked, Unconnected, Progress, At
  <2>3. At(k, "joined", "Join", <<Event("Incoming", k)>>, <<>>, {}, {}, {})
    BY <2>1, <2>2 DEF Progress, At
  <2>4. table' = [table EXCEPT !["lo"] = {k}] /\ main' = main
    BY <2>1, <2>3 DEF AddPeer, At
  <2>5. queue'["lo"] = <<>> /\ queue'["hi"] = <<>>
    BY <1>1, <2>1, <2>3, OneEvent, EventFacts DEF Take, At
  <2>6. At(k, "joined", "JoinAck", <<>>, <<>>, {k}, {}, {})'
    BY <1>1, <2>1, <2>3, <2>4, <2>5 DEF At
  <2>7. Progress(k)'
    BY <2>1, <2>2, <2>6 DEF Progress
  <2> QED BY <1>1, <2>1, <2>4, <2>7 DEF Unprovoked
<1>9. ASSUME NEW k \in Conns, Establish(k) PROVE Unprovoked'
  <2>1. /\ Handles("hi", "Established", k) /\ queue' = Take("hi") /\ AddPeer("hi", k)
        /\ UNCHANGED <<up, jobs, job, shake, reading, writing, broken>>
    BY <1>9 DEF Establish, jobVars, threads
  <2>2. Progress(k) /\ queue["hi"] = <<Event("Established", k)>>
    BY <1>1, <2>1, HeadFacts DEF Unprovoked, Unconnected, Progress, At
  <2>3. At(k, "none", "JoinAck", <<>>, <<Event("Established", k)>>, {k}, {k}, {})
    BY <2>2, OneEvent, EventFacts DEF Progress, At
  <2>4. table' = [table EXCEPT !["hi"] = {k}] /\ main' = main
    BY <2>1, <2>3 DEF AddPeer, At
  <2>5. queue'["lo"] = <<>> /\ queue'["hi"] = <<>>
    BY <1>1, <2>1, <2>3, OneEvent, EventFacts DEF Take, At
  <2>6. At(k, "none", "JoinAck", <<>>, <<>>, {k}, {k}, {k})'
    BY <1>1, <2>1, <2>3, <2>4, <2>5 DEF At
  <2>7. Progress(k)'
    BY <2>1, <2>2, <2>6 DEF Progress
  <2> QED BY <1>1, <2>1, <2>4, <2>7 DEF Unprovoked
<1> QED
  BY <1>2, <1>3, <1>4, <1>5, <1>6, <1>7, <1>8, <1>9, NothingEnds
  DEF Next, Connecting, Working, Job, Main, Thread

LEMMA UnprovokedInductive == Spec => []Unprovoked
<1>1. ASSUME Init PROVE Unprovoked
  <2>1. \A s \in Sides : queue[s] = <<>> /\ table[s] = {} /\ main[s] = Loop
                         /\ reading[s] = {} /\ writing[s] = {}
    BY <1>1 DEF Init
  <2> QED BY <1>1, <2>1 DEF Init, Unprovoked, Unconnected, Threads
<1>2. ASSUME IInv, Unprovoked, [Next]_vars PROVE Unprovoked'
  <2>1. CASE UNCHANGED vars
    BY <1>2, <2>1 DEF vars, Unprovoked, Unconnected, Progress, At, Threads
  <2>2. CASE Next
    <3>1. faults' = 0 => faults = 0
      <4>1. CASE Fault
        BY <1>2, <4>1 DEF Fault, IInv, Types
      <4>2. CASE ~Fault
        <5>1. UNCHANGED faults
          BY <2>2, <4>2 DEF Next, Connecting, Working, AttemptConnect, JobConnects, JobFails,
             Job, JobSendsJoin, JobIsAnswered, JobReports, JobGivesUp,
             Main, AnswerHandshake, AnswerFails, Establish, RemovePeer,
             Thread, ReaderEnds, WriterEnds, DropEnds, HandshakePanics
        <5> QED BY <5>1
      <4> QED BY <4>1, <4>2
    <3>2. CASE faults' = 0
      BY <1>2, <2>2, <3>1, <3>2, UnprovokedStep
    <3>3. CASE faults' # 0
      BY <3>3 DEF Unprovoked
    <3> QED BY <3>2, <3>3
  <2> QED BY <1>2, <2>1, <2>2
<1> QED BY <1>1, <1>2, Inductive, PTL DEF Spec

\* The expect in answer_handshake cannot fail by itself: unless a process ends, a
\* connection breaks or an attempt or a heartbeat comes late, lo never has a Peer yet
\* when it adds one.
THEOREM PanicsAreProvoked == Spec => []PanicsOnlyIfProvoked
<1>1. ASSUME IInv, Unprovoked PROVE PanicsOnlyIfProvoked
  <2>1. faults = 0 => main["lo"] = Loop
    BY <1>1 DEF Unprovoked, Sides
  <2>2. faults \in Nat /\ Loop.task = "loop"
    BY <1>1 DEF IInv, Types, Loop
  <2> QED BY <2>1, <2>2 DEF PanicsOnlyIfProvoked
<1> QED BY <1>1, Inductive, UnprovokedInductive, PTL
=============================================================================
