-------------------------- MODULE ThreadPoolProofs --------------------------
(***************************************************************************)
(* ThreadPool for any number of callers and any sizes: the counts of       *)
(* workers never run below zero, and never are there more workers than     *)
(* asked for once the queued Quits are taken.                              *)
(*                                                                         *)
(* TypeOK is inductive. The bound on the workers is, with TypeOK, as well; *)
(* its proof needs how each operation on the queue changes the number of   *)
(* Quits in it.                                                            *)
(***************************************************************************)
EXTENDS ThreadPool, FiniteSetTheorems, FunctionTheorems, TLAPS

QuitsIn(q) == {k \in 1 .. Len(q) : q[k] = "Quit"}

LEMMA QuitsCounted ==
  ASSUME NEW q \in Seq(Jobs)
  PROVE  IsFiniteSet(QuitsIn(q)) /\ Cardinality(QuitsIn(q)) \in Nat
<1>1. IsFiniteSet(1 .. Len(q))
  BY FS_Interval
<1>2. QuitsIn(q) \in SUBSET (1 .. Len(q))
  BY DEF QuitsIn
<1>3. IsFiniteSet(QuitsIn(q))
  BY <1>1, <1>2, FS_Subset
<1> QED BY <1>3, FS_CardinalityType

\* A job is no Quit.
LEMMA QuitsAfterJob ==
  ASSUME NEW q \in Seq(Jobs), NEW kind \in Kinds
  PROVE  QuitsIn(Append(q, kind)) = QuitsIn(q)
<1>1. kind # "Quit"
  BY DEF Kinds
<1>2. /\ Len(q) \in Nat /\ Len(Append(q, kind)) = Len(q) + 1
      /\ Append(q, kind)[Len(q) + 1] = kind
      /\ \A k \in 1 .. Len(q) : Append(q, kind)[k] = q[k]
  OBVIOUS
<1> DEFINE r == Append(q, kind)
<1> HIDE DEF r
<1>3. \A k : k \in 1 .. Len(r) <=> k \in 1 .. Len(q) \/ k = Len(q) + 1
  BY <1>2 DEF r
<1>4. \A k \in 1 .. Len(q) : k # Len(q) + 1 /\ r[k] = q[k]
  BY <1>2 DEF r
<1>5. r[Len(q) + 1] # "Quit"
  BY <1>1, <1>2 DEF r
<1>6. QuitsIn(r) = QuitsIn(q)
  BY <1>3, <1>4, <1>5 DEF QuitsIn
<1> QED BY <1>6 DEF r

\* What SetSize queues.
LEMMA QuitsAfterQuits ==
  ASSUME NEW q \in Seq(Jobs), NEW n \in Nat
  PROVE  /\ q \o [k \in 1 .. n |-> "Quit"] \in Seq(Jobs)
         /\ Cardinality(QuitsIn(q \o [k \in 1 .. n |-> "Quit"])) = Cardinality(QuitsIn(q)) + n
<1> DEFINE z == [k \in 1 .. n |-> "Quit"]
           r == q \o z
           new == Len(q) + 1 .. Len(q) + n
<1>1. z \in Seq(Jobs) /\ Len(z) = n /\ \A k \in 1 .. n : z[k] = "Quit"
  BY DEF Jobs
<1> HIDE DEF z
<1>2. /\ r \in Seq(Jobs) /\ Len(q) \in Nat /\ Len(r) = Len(q) + n
      /\ \A k \in 1 .. Len(r) : r[k] = IF k <= Len(q) THEN q[k] ELSE z[k - Len(q)]
  BY <1>1
<1> HIDE DEF r
<1>3. ASSUME NEW k
      PROVE  k \in QuitsIn(r) <=> k \in QuitsIn(q) \/ k \in new
  <2>1. k \in 1 .. Len(r) <=> k \in 1 .. Len(q) \/ k \in new
    BY <1>2
  <2>2. k \in 1 .. Len(q) => r[k] = q[k] /\ k \notin new
    BY <1>2
  <2>3. k \in new => r[k] = "Quit"
    BY <1>1, <1>2
  <2> HIDE DEF new
  <2> QED BY <2>1, <2>2, <2>3 DEF QuitsIn
<1>4. QuitsIn(r) = QuitsIn(q) \cup new
  BY <1>3
<1>5. QuitsIn(q) \cap new = {}
  BY <1>2 DEF QuitsIn
<1>6. IsFiniteSet(new) /\ Cardinality(new) = n
  <2>1. Len(q) + 1 \in Int /\ Len(q) + n \in Int
    BY <1>2
  <2>2. /\ IsFiniteSet(new)
        /\ Cardinality(new) = IF Len(q) + 1 > Len(q) + n THEN 0 ELSE (Len(q) + n) - (Len(q) + 1) + 1
    BY <2>1, FS_Interval
  <2> HIDE DEF new
  <2> QED BY <1>2, <2>2
<1> HIDE DEF new
<1>7. IsFiniteSet(QuitsIn(q)) /\ Cardinality(QuitsIn(q)) \in Nat
  BY QuitsCounted
<1>8. Cardinality({}) = 0
  BY FS_EmptySet
<1>9. Cardinality(QuitsIn(q) \cup new)
        = Cardinality(QuitsIn(q)) + Cardinality(new) - Cardinality(QuitsIn(q) \cap new)
  BY <1>6, <1>7, FS_Union
<1>10. Cardinality(QuitsIn(r)) = Cardinality(QuitsIn(q)) + n
  <2>1. Cardinality(QuitsIn(q) \cap new) = 0
    BY <1>5, <1>8, Zenon
  <2>2. Cardinality(QuitsIn(r)) = Cardinality(QuitsIn(q) \cup new)
    BY <1>4, Zenon
  <2> QED BY <1>6, <1>7, <1>9, <2>1, <2>2
<1> QED BY <1>2, <1>10 DEF r, z

\* A worker that takes a Quit takes it off the queue; one that takes a job does not.
LEMMA QuitsAfterTaking ==
  ASSUME NEW q \in Seq(Jobs), q # <<>>
  PROVE  Cardinality(QuitsIn(Tail(q)))
           = Cardinality(QuitsIn(q)) - (IF Head(q) = "Quit" THEN 1 ELSE 0)
<1> DEFINE r == Tail(q)
           later == QuitsIn(q) \ {1}
<1>1. /\ r \in Seq(Jobs) /\ Len(q) \in Nat /\ Len(q) > 0 /\ Len(r) = Len(q) - 1
      /\ Head(q) = q[1] /\ \A k \in 1 .. Len(r) : r[k] = q[k + 1]
  OBVIOUS
<1> HIDE DEF r
<1>2. 1 \in QuitsIn(q) <=> Head(q) = "Quit"
  BY <1>1 DEF QuitsIn
<1>3. IsFiniteSet(QuitsIn(q)) /\ Cardinality(QuitsIn(q)) \in Nat /\ IsFiniteSet(QuitsIn(r))
  BY <1>1, QuitsCounted
<1>4. Cardinality(later) = Cardinality(QuitsIn(q)) - (IF Head(q) = "Quit" THEN 1 ELSE 0)
  <2>1. Cardinality(later) =
          IF 1 \in QuitsIn(q) THEN Cardinality(QuitsIn(q)) - 1 ELSE Cardinality(QuitsIn(q))
    BY <1>3, FS_RemoveElement, Zenon
  <2> QED BY <1>2, <1>3, <2>1
<1>5. ExistsBijection(QuitsIn(r), later)
  <2> DEFINE f == [k \in QuitsIn(r) |-> k + 1]
  <2>1. ASSUME NEW k \in QuitsIn(r) PROVE k \in Int /\ k + 1 \in later
    BY <1>1 DEF QuitsIn
  <2>2. ASSUME NEW n \in later PROVE n \in Int /\ n - 1 \in QuitsIn(r)
    <3>1. n \in 1 .. Len(q) /\ n # 1 /\ q[n] = "Quit"
      BY DEF QuitsIn
    <3>2. n - 1 \in 1 .. Len(r) /\ (n - 1) + 1 = n
      BY <1>1, <3>1
    <3> QED BY <1>1, <3>1, <3>2 DEF QuitsIn
  <2> HIDE DEF later
  <2>3. f \in [QuitsIn(r) -> later]
    BY <2>1
  <2>4. \A k, n \in QuitsIn(r) : f[k] = f[n] => k = n
    BY <2>1
  <2>5. \A n \in later : \E k \in QuitsIn(r) : f[k] = n
    <3>1. ASSUME NEW n \in later PROVE \E k \in QuitsIn(r) : f[k] = n
      <4>1. f[n - 1] = (n - 1) + 1 /\ (n - 1) + 1 = n
        BY <2>2
      <4> QED BY <2>2, <4>1
    <3> QED BY <3>1
  <2> HIDE DEF f
  <2>6. f \in Bijection(QuitsIn(r), later)
    BY <2>3, <2>4, <2>5, Fun_IsBij
  <2> QED BY <2>6 DEF ExistsBijection
<1>6. Cardinality(later) = Cardinality(QuitsIn(r))
  BY <1>3, <1>5, FS_Bijection
<1> QED BY <1>4, <1>6 DEF r

-----------------------------------------------------------------------------
(* The types.                                                              *)

Counts == {waiting, leaving, quit} \subseteq Nat /\ running \in [Kinds -> Nat]

LEMMA CountFacts ==
  ASSUME Counts
  PROVE  /\ waiting \in Nat /\ leaving \in Nat /\ quit \in Nat
         /\ running["other"] \in Nat /\ running["followed"] \in Nat
         /\ Threads \in Nat
BY DEF Counts, Kinds, Threads

\* respawn spawns the workers that are missing, or fewer.
LEMMA Spawned ==
  ASSUME Counts, NEW n \in Nat, Respawn(n) \/ RespawnFails(n)
  PROVE  /\ quit' = 0 /\ UNCHANGED <<running, leaving>>
         /\ \E k \in Nat : waiting' = waiting + k /\ (k = 0 \/ k <= n - Threads)
<1>1. /\ Missing(n) \in Nat /\ Threads \in Nat
      /\ Missing(n) = 0 \/ Missing(n) = n - Threads
  BY CountFacts DEF Missing
<1>2. CASE Respawn(n)
  BY <1>1, <1>2 DEF Respawn
<1>3. CASE RespawnFails(n)
  BY <1>1, <1>3 DEF RespawnFails
<1> QED BY <1>2, <1>3

LEMMA RespawnCounts ==
  ASSUME Counts, NEW n \in Nat, Respawn(n) \/ RespawnFails(n)
  PROVE  Counts'
<1>1. waiting' \in Nat /\ leaving' = leaving /\ quit' = 0 /\ running' = running
  BY CountFacts, Spawned
<1> QED BY <1>1, CountFacts DEF Counts

LEMMA SizeFacts == \A n \in Sizes : n \in Nat /\ n > 0
BY SizesAssumption

LEMMA InitTypes == Init => TypeOK
<1> SUFFICES ASSUME Init PROVE TypeOK
  OBVIOUS
<1>1. waiting \in Nat /\ size \in Sizes /\ leaving = 0 /\ quit = 0
  BY SizeFacts DEF Init
<1>2. running \in [Kinds -> Nat] /\ queue \in Seq(Jobs)
  BY DEF Init
<1>3. calls \in [Callers -> {"idle", "sending"}] /\ {open, handed, ran} \subseteq BOOLEAN
  BY DEF Init
<1> QED BY <1>1, <1>2, <1>3 DEF TypeOK

LEMMA TakeTypes == TypeOK /\ Take => TypeOK'
<1> SUFFICES ASSUME TypeOK, Take PROVE TypeOK'
  OBVIOUS
<1>0. Counts /\ queue \in Seq(Jobs)
  BY DEF TypeOK, Counts
<1>1. CASE \E kind \in Kinds : TakeJob(kind)
  <2>1. PICK kind \in Kinds : TakeJob(kind)
    BY <1>1
  <2>2. queue' \in Seq(Jobs) /\ waiting' \in Nat /\ running' \in [Kinds -> Nat]
    BY <1>0, <2>1, CountFacts DEF TakeJob, Counts
  <2> QED BY <2>1, <2>2 DEF TakeJob, TypeOK
<1>2. CASE TakeQuit
  <2>1. queue' \in Seq(Jobs) /\ waiting' \in Nat /\ leaving' \in Nat
    BY <1>0, <1>2, CountFacts DEF TakeQuit
  <2> QED BY <1>2, <2>1 DEF TakeQuit, TypeOK
<1>3. CASE Disconnect
  <2>1. waiting' \in Nat /\ leaving' \in Nat
    BY <1>0, <1>3, CountFacts DEF Disconnect
  <2> QED BY <1>3, <2>1 DEF Disconnect, TypeOK
<1> QED BY <1>1, <1>2, <1>3 DEF Take

LEMMA JobEndTypes ==
  ASSUME TypeOK, NEW kind \in Kinds, Return(kind) \/ Panic(kind)
  PROVE  TypeOK'
<1>1. Counts
  BY DEF TypeOK, Counts
<1>2. /\ waiting' \in Nat /\ leaving' \in Nat /\ quit' = quit
      /\ running' \in [Kinds -> Nat]
      /\ UNCHANGED <<size, queue, open, calls, handed>>
  BY <1>1, CountFacts DEF Return, Panic, Counts
<1>3. ran' \in BOOLEAN
  <2>1. ran' = (ran \/ kind = "followed")
    BY DEF Return, Panic
  <2> QED BY <2>1, Zenon
<1> QED BY <1>2, <1>3 DEF TypeOK

LEMMA CallTypes ==
  ASSUME TypeOK, NEW c \in Callers, Call(c)
  PROVE  TypeOK'
<1>1. CASE BeginExecute(c)
  <2>1. Counts' /\ size \in Sizes
    BY <1>1, SizeFacts, RespawnCounts DEF BeginExecute, TypeOK, Counts
  <2>2. calls' \in [Callers -> {"idle", "sending"}]
    BY <1>1 DEF BeginExecute, TypeOK
  <2> QED BY <1>1, <2>1, <2>2 DEF BeginExecute, TypeOK, Counts
<1>2. CASE Send(c)
  <2>1. PICK kind \in Kinds : EndExecute(c, kind)
    BY <1>2 DEF Send
  <2>2. Append(queue, kind) \in Seq(Jobs)
    BY DEF TypeOK, Jobs
  <2>3. /\ queue' \in Seq(Jobs) /\ handed' \in BOOLEAN
        /\ calls' \in [Callers -> {"idle", "sending"}]
    BY <2>1, <2>2 DEF EndExecute, TypeOK
  <2> QED BY <2>1, <2>3 DEF EndExecute, TypeOK, workers
<1>3. CASE ExecuteFails(c)
  <2>1. Counts'
    BY <1>3, SizeFacts, RespawnCounts DEF ExecuteFails, TypeOK, Counts
  <2> QED BY <1>3, <2>1 DEF ExecuteFails, TypeOK, Counts
<1> QED BY <1>1, <1>2, <1>3 DEF Call

\* The Quits that set_size queues.
Surplus(n) == IF n < size THEN size - n ELSE 0

LEMMA SurplusFacts ==
  ASSUME NEW c, NEW n \in Sizes, SetSize(c, n), size \in Sizes
  PROVE  /\ Surplus(n) \in Nat /\ size - n <= Surplus(n)
         /\ queue' = queue \o [k \in 1 .. Surplus(n) |-> "Quit"]
<1>1. size \in Nat /\ n \in Nat
  BY SizeFacts
<1> QED BY <1>1 DEF SetSize, Surplus

LEMMA SetSizeTypes ==
  ASSUME TypeOK, NEW c \in Callers, NEW n \in Sizes, SetSize(c, n)
  PROVE  TypeOK'
<1>1. Counts'
  BY SizeFacts, RespawnCounts DEF SetSize, TypeOK, Counts
<1>2. queue' \in Seq(Jobs)
  BY SurplusFacts, QuitsAfterQuits DEF TypeOK
<1> QED BY <1>1, <1>2 DEF SetSize, TypeOK, Counts

LEMMA OtherTypes == TypeOK /\ (Finish \/ DropPool \/ DropEnd) => TypeOK'
<1> SUFFICES ASSUME TypeOK, Finish \/ DropPool \/ DropEnd PROVE TypeOK'
  OBVIOUS
<1>1. Counts
  BY DEF TypeOK, Counts
<1>2. CASE Finish
  <2>1. leaving' \in Nat /\ quit' \in Nat
    BY <1>1, <1>2, CountFacts DEF Finish
  <2> QED BY <1>2, <2>1 DEF Finish, TypeOK
<1>3. CASE DropPool
  BY <1>3 DEF DropPool, TypeOK, workers
<1>4. CASE DropEnd
  BY <1>4 DEF DropEnd, TypeOK
<1> QED BY <1>2, <1>3, <1>4

LEMMA NextTypes == TypeOK /\ [Next]_vars => TypeOK'
<1> SUFFICES ASSUME TypeOK, [Next]_vars PROVE TypeOK'
  OBVIOUS
<1>1. CASE UNCHANGED vars
  BY <1>1 DEF vars, workers, TypeOK
<1>2. CASE Next
  BY <1>2, TakeTypes, JobEndTypes, CallTypes, SetSizeTypes, OtherTypes DEF Next
<1> QED BY <1>1, <1>2

\* The types of the pool's state: the counts of workers stay natural numbers. Nothing
\* that a worker or a caller does (thread-pool/src/lib.rs:136, 200) takes a worker away
\* from a place where there is none.
THEOREM TypeCorrect == Spec => []TypeOK
BY InitTypes, NextTypes, PTL DEF Spec

-----------------------------------------------------------------------------
(* The bound on the workers.                                               *)

Serving == waiting + running["other"] + running["followed"]

BoundFacts ==
  /\ NoExcessWorkers <=> Serving - Cardinality(QuitsIn(queue)) <= size
  /\ Serving \in Nat /\ size \in Nat /\ Serving <= Threads
  /\ Cardinality(QuitsIn(queue)) \in Nat

LEMMA BoundMeans == TypeOK => BoundFacts
<1> SUFFICES ASSUME TypeOK PROVE BoundFacts
  OBVIOUS
<1>1. Counts /\ queue \in Seq(Jobs) /\ size \in Nat
  BY SizeFacts DEF TypeOK, Counts
<1>2. Cardinality(QuitsIn(queue)) \in Nat
  BY <1>1, QuitsCounted
<1>3. Serving \in Nat /\ Serving <= Threads
  BY <1>1, CountFacts DEF Serving, Threads
<1>4. QuitsQueued = Cardinality(QuitsIn(queue))
  BY Zenon DEF QuitsQueued, QuitsIn
<1> QED BY <1>1, <1>2, <1>3, <1>4, CountFacts DEF NoExcessWorkers, Serving, BoundFacts

\* respawn starts workers only up to the size it is for.
LEMMA RespawnServing ==
  ASSUME TypeOK, NEW n \in Nat, Respawn(n) \/ RespawnFails(n)
  PROVE  Serving' = Serving \/ Serving' <= n
<1>1. Counts
  BY DEF TypeOK, Counts
<1>2. PICK k \in Nat : waiting' = waiting + k /\ (k = 0 \/ k <= n - Threads)
  BY <1>1, Spawned
<1>3. Serving' = Serving + k
  BY <1>1, <1>2, CountFacts, Spawned DEF Serving
<1> QED BY <1>1, <1>2, <1>3, BoundMeans, CountFacts DEF BoundFacts

LEMMA InitBound == Init => NoExcessWorkers
<1> SUFFICES ASSUME Init PROVE NoExcessWorkers
  OBVIOUS
<1>1. TypeOK
  BY InitTypes
<1>2. Serving = size
  BY <1>1, BoundMeans DEF BoundFacts, Init, Serving, Kinds
<1> QED BY <1>1, <1>2, BoundMeans DEF BoundFacts

LEMMA NextBound == TypeOK /\ NoExcessWorkers /\ [Next]_vars => NoExcessWorkers'
<1> SUFFICES ASSUME TypeOK, NoExcessWorkers, [Next]_vars PROVE NoExcessWorkers'
  OBVIOUS
<1> DEFINE Q == Cardinality(QuitsIn(queue))
<1>1. /\ Serving - Q <= size
      /\ Serving \in Nat /\ size \in Nat /\ Q \in Nat
  BY BoundMeans DEF BoundFacts
<1>2. TypeOK'
  BY NextTypes
<1>3. /\ NoExcessWorkers' <=> Serving' - Q' <= size'
      /\ Serving' \in Nat /\ size' \in Nat /\ Q' \in Nat
  <2>1. TypeOK' => BoundFacts'
    BY BoundMeans, PTL
  <2> QED BY <1>2, <2>1 DEF BoundFacts
<1> SUFFICES Serving' - Q' <= size'
  BY <1>3
<1>4. queue \in Seq(Jobs) /\ Counts
  BY DEF TypeOK, Counts
<1>5. CASE \E kind \in Kinds : TakeJob(kind)
  <2>1. PICK kind \in Kinds : TakeJob(kind)
    BY <1>5
  <2>2. Q' = Q - 0 /\ size' = size
    <3>1. queue # <<>> /\ Head(queue) # "Quit" /\ queue' = Tail(queue) /\ size' = size
      BY <2>1 DEF TakeJob, Kinds
    <3>2. Cardinality(QuitsIn(queue')) = Q - 0
      BY <1>4, <3>1, QuitsAfterTaking
    <3> QED BY <3>1, <3>2
  <2>3. Serving' = Serving
    <3>1. /\ waiting' = waiting - 1 /\ "other" # "followed"
          /\ \/ /\ running'["other"] = running["other"] + 1
                /\ running'["followed"] = running["followed"]
             \/ /\ running'["followed"] = running["followed"] + 1
                /\ running'["other"] = running["other"]
      BY <1>4, <2>1 DEF TakeJob, Kinds, Counts
    <3>2. waiting' + running'["other"] + running'["followed"]
            = waiting + running["other"] + running["followed"]
      <4> DEFINE w == waiting
                 a == running["other"]
                 b == running["followed"]
      <4>1. w \in Int /\ a \in Int /\ b \in Int
        BY <1>4, CountFacts
      <4>2. w - 1 + (a + 1) + b = w + a + b /\ w - 1 + a + (b + 1) = w + a + b
        BY <4>1
      <4> QED BY <3>1, <4>2
    <3> QED BY <3>2 DEF Serving
  <2> QED BY <1>1, <2>2, <2>3
<1>6. CASE TakeQuit
  <2>1. /\ queue # <<>> /\ Head(queue) = "Quit" /\ queue' = Tail(queue)
        /\ size' = size /\ Serving' = Serving - 1
    BY <1>4, <1>6, CountFacts DEF TakeQuit, Serving
  <2>2. Cardinality(QuitsIn(queue')) = Q - 1
    BY <1>4, <2>1, QuitsAfterTaking
  <2>3. Q' = Q - 1
    BY <2>2
  <2> QED BY <1>1, <2>1, <2>3
<1>7. CASE Disconnect \/ Finish \/ \E kind \in Kinds : Return(kind) \/ Panic(kind)
  <2>1. UNCHANGED <<queue, size>> /\ Serving' <= Serving
    BY <1>4, <1>7, CountFacts
       DEF Disconnect, Finish, Return, Panic, Serving, Kinds, Counts
  <2>2. Q' = Q
    BY <2>1
  <2> QED BY <1>1, <1>3, <2>1, <2>2
<1>8. CASE \E c \in Callers : Call(c)
  <2>1. PICK c \in Callers : Call(c)
    BY <1>8
  <2>2. CASE BeginExecute(c) \/ ExecuteFails(c)
    <3>1. UNCHANGED <<queue, size>> /\ (Serving' = Serving \/ Serving' <= size)
      BY <1>1, <2>2, RespawnServing DEF BeginExecute, ExecuteFails
    <3>2. Q' = Q
      BY <3>1
    <3> QED BY <1>1, <1>3, <3>1, <3>2
  <2>3. CASE Send(c)
    <3>1. PICK kind \in Kinds : EndExecute(c, kind)
      BY <2>3 DEF Send
    <3>2. UNCHANGED <<size, workers>> /\ (queue' = queue \/ queue' = Append(queue, kind))
      BY <3>1 DEF EndExecute
    <3>3. QuitsIn(queue') = QuitsIn(queue)
      BY <1>4, <3>2, QuitsAfterJob
    <3>4. Q' = Q /\ Serving' = Serving
      BY <3>2, <3>3 DEF Serving, workers
    <3> QED BY <1>1, <3>2, <3>4
  <2> QED BY <2>1, <2>2, <2>3 DEF Call
<1>9. CASE \E c \in Callers, n \in Sizes : SetSize(c, n)
  <2>1. PICK c \in Callers, n \in Sizes : SetSize(c, n)
    BY <1>9
  <2>2. /\ Surplus(n) \in Nat /\ size - n <= Surplus(n)
        /\ queue' = queue \o [k \in 1 .. Surplus(n) |-> "Quit"]
    BY <2>1, SurplusFacts DEF TypeOK
  <2>3. Cardinality(QuitsIn(queue')) = Q + Surplus(n)
    BY <1>4, <2>2, QuitsAfterQuits
  <2>4. Q' = Q + Surplus(n)
    BY <2>3
  <2>5. n \in Nat /\ size' = n /\ (Serving' = Serving \/ Serving' <= n)
    BY <2>1, SizeFacts, RespawnServing DEF SetSize
  <2> HIDE DEF Q
  <2> QED BY <1>1, <1>3, <2>2, <2>4, <2>5
<1>10. CASE DropPool \/ DropEnd \/ UNCHANGED vars
  <2>1. UNCHANGED <<size, queue, waiting, running>>
    BY <1>10 DEF DropPool, DropEnd, vars, workers
  <2>2. Q' = Q /\ Serving' = Serving
    BY <2>1 DEF Serving
  <2> QED BY <1>1, <2>1, <2>2
<1> QED BY <1>5, <1>6, <1>7, <1>8, <1>9, <1>10 DEF Next, Take

\* However set_size, execute, panics and quitting workers interleave
\* (thread-pool/src/lib.rs:81, 123, 155, 212), no more than size workers serve
\* once the Quits that are queued are taken.
THEOREM WorkersAreBounded == Spec => []NoExcessWorkers
<1>1. Init => TypeOK /\ NoExcessWorkers
  BY InitTypes, InitBound
<1>2. TypeOK /\ NoExcessWorkers /\ [Next]_vars => (TypeOK /\ NoExcessWorkers)'
  BY NextTypes, NextBound
<1> QED BY <1>1, <1>2, PTL DEF Spec
=============================================================================
