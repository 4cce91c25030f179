--------------------------- MODULE BatcherProofs ---------------------------
(***************************************************************************)
(* Theorems about Batcher, for any calls, sizes and settings.              *)
(***************************************************************************)
EXTENDS Batcher, FiniteSetTheorems, TLAPS

USE BatcherAssumption
-----------------------------------------------------------------------------
\* The settings in force are positive, whatever was given to Batcher::new.
LEMMA PositiveSettings ==
    /\ MaxBatch \in Nat /\ MaxBatch >= 1
    /\ MaxRunning \in Nat /\ MaxRunning >= 1
BY DEF MaxBatch, MaxRunning

\* A request is a call and a position within its size.
LEMMA RequestParts ==
    /\ \A r \in Requests : r[1] \in Calls /\ r[2] \in 1 .. Size[r[1]] /\ r = <<r[1], r[2]>>
    /\ \A w \in Calls : \A i \in 1 .. Size[w] : <<w, i>> \in Requests
BY DEF Requests, RequestsOf

\* The initial state has every variable in its type.
LEMMA InitTypes == Init => TypeOK
BY DEF Init, TypeOK, jobs

\* Steps keep every variable in its type.
LEMMA StepTypes == TypeOK /\ [Next]_vars => TypeOK'
<1>. SUFFICES ASSUME TypeOK, [Next]_vars PROVE TypeOK'
  OBVIOUS
<1>. USE DEF TypeOK, jobs
<1>1. ASSUME NEW w \in Calls, Begin(w) PROVE TypeOK'
  BY <1>1 DEF Begin
<1>2. ASSUME NEW w \in Calls, Acquire(w) PROVE TypeOK'
  BY <1>2 DEF Acquire
<1>3. ASSUME NEW w \in Calls, Push(w) PROVE TypeOK'
  <2>. DEFINE grown == cur \union {<<w, next[w]>>}
  <2>1. grown \subseteq Requests
    BY <1>3, RequestParts DEF Push, Full, Taken
  <2>2. cur' \subseteq Requests /\ queued' \subseteq SUBSET Requests /\ age' \in 0 .. Delay
    BY <1>3, <2>1 DEF Push, Full, Taken
  <2>3. next' \in [Calls -> Nat] /\ \A v \in Calls : next'[v] \in 1 .. Size[v] + 1
    BY <1>3 DEF Push, Full, Taken
  <2>. QED
    BY <1>3, <2>2, <2>3 DEF Push, Full, Taken
<1>4. ASSUME NEW w \in Calls, Release(w) PROVE TypeOK'
  BY <1>4 DEF Release
<1>5. ASSUME NEW w \in Calls, Receive(w) PROVE TypeOK'
  BY <1>5 DEF Receive
<1>6. ASSUME NEW w \in Calls, Return(w) PROVE TypeOK'
  BY <1>6 DEF Return
<1>7. ASSUME NEW w \in Calls, Abandon(w) PROVE TypeOK'
  BY <1>7 DEF Abandon
<1>8. CASE Timer
  BY <1>8 DEF Timer, TimerIdle, TimerFlush, TimerRearm, Remaining
<1>9. CASE Tick
  BY <1>9 DEF Tick
<1>10. ASSUME NEW B \in queued, Start(B) PROVE TypeOK'
  BY <1>10 DEF Start
<1>11. ASSUME NEW B \in running, Finish(B) PROVE TypeOK'
  BY <1>11 DEF Finish, DropSenders
<1>12. ASSUME NEW B \in running, NEW r \in B, Answer(B, r) PROVE TypeOK'
  BY <1>12 DEF Answer
<1>13. CASE UNCHANGED vars
  BY <1>13 DEF vars
<1>. QED
  BY <1>1, <1>2, <1>3, <1>4, <1>5, <1>6, <1>7, <1>8, <1>9, <1>10, <1>11, <1>12, <1>13
     DEF Next, Step

(* The lock, the sleep, the batches and the channels keep their types: the    *)
(* timer never sleeps for more than the delay, and a loop never runs past the *)
(* items of its call.                                                         *)
THEOREM BatcherTypes == Spec => []TypeOK
BY InitTypes, StepTypes, PTL DEF Spec
-----------------------------------------------------------------------------
(* RequestsOnce is inductive together with the position at which a call       *)
(* starts its loop: Push adds a request no batch holds yet.                   *)

AtStart == \A w \in Calls : pc[w] \in {"idle", "lock"} => next[w] = 1

OnceInv == TypeOK /\ AtStart /\ RequestsOnce

\* The initial state has no request and no batch.
LEMMA InitOnce == Init => OnceInv
<1>. SUFFICES ASSUME Init PROVE OnceInv
  OBVIOUS
<1>1. \A r \in Requests : ~Pushed(r)
  BY RequestParts DEF Init, Pushed
<1>. QED
  BY <1>1, InitTypes DEF Init, OnceInv, AtStart, RequestsOnce, Spawned

\* A step that moves no request keeps RequestsOnce.
LEMMA NothingMoved ==
    ASSUME RequestsOnce, UNCHANGED <<cur, jobs>>,
           \A r \in Requests : Pushed(r)' <=> Pushed(r)
    PROVE  RequestsOnce'
BY DEF RequestsOnce, Spawned, jobs

\* The request that Push handles is new.
LEMMA PushFresh ==
    ASSUME OnceInv, NEW w \in Calls, Push(w)
    PROVE  <<w, next[w]>> \in Requests /\ <<w, next[w]>> \notin cur \union UNION Spawned
<1>1. <<w, next[w]>> \in Requests /\ next[w] \in Nat
  BY RequestParts DEF Push, Full, Taken, OnceInv, TypeOK
<1>2. ~Pushed(<<w, next[w]>>)
  BY <1>1 DEF Push, Full, Taken, Pushed
<1>. QED
  BY <1>1, <1>2 DEF OnceInv, RequestsOnce

\* Push puts a request that is in no batch into the current or a new batch.
LEMMA PushOnce ==
    ASSUME OnceInv, NEW w \in Calls, Push(w)
    PROVE  RequestsOnce'
<1>. DEFINE q == <<w, next[w]>>
            grown == cur \union {q}
            full == Cardinality(grown) >= MaxBatch
<1>1. q \in Requests /\ q[1] = w /\ q[2] = next[w] /\ next[w] \in Nat
  BY PushFresh DEF OnceInv, TypeOK
<1>3. q \notin cur \union UNION Spawned
  BY PushFresh
<1>4. \A r \in Requests : Pushed(r)' <=> (Pushed(r) \/ r = q)
  <2>1. ASSUME NEW r \in Requests, r[1] # w PROVE Pushed(r)' <=> (Pushed(r) \/ r = q)
    BY <1>1, <2>1, RequestParts DEF Push, Full, Taken, Pushed, OnceInv, TypeOK
  <2>2. ASSUME NEW r \in Requests, r[1] = w PROVE Pushed(r)' <=> (Pushed(r) \/ r = q)
    <3>1. r[2] \in Nat /\ r = <<w, r[2]>> /\ next'[w] = next[w] + 1 /\ next[w] \in Nat
      BY <2>2, RequestParts DEF Push, Full, Taken, OnceInv, TypeOK
    <3>2. r = q <=> r[2] = next[w]
      BY <3>1
    <3>3. (Pushed(r) <=> r[2] < next[w]) /\ (Pushed(r)' <=> r[2] < next'[w])
      BY <2>2 DEF Push, Full, Taken, Pushed
    <3>. QED
      BY <3>1, <3>2, <3>3
  <2>. QED
    BY <2>1, <2>2
<1>5. CASE full
  <2>1. cur' = {} /\ queued' = queued \union {grown} /\ running' = running /\ finished' = finished
    BY <1>5 DEF Push, Full, Taken
  <2>2. Spawned' = Spawned \union {grown}
    BY <2>1 DEF Spawned
  <2>3. grown \notin Spawned /\ \A B \in Spawned : B \intersect grown = {}
    BY <1>3 DEF OnceInv, RequestsOnce
  <2>4. \A r : r \in UNION Spawned' <=> (r \in UNION Spawned \/ r \in cur \/ r = q)
    BY <2>2
  <2>5. \A r \in Requests : Pushed(r)' <=> r \in cur' \union UNION Spawned'
    BY <1>4, <2>1, <2>4 DEF OnceInv, RequestsOnce
  <2>6. \A B \in Spawned' : B \intersect cur' = {}
    BY <2>1
  <2>7. \A A, B \in Spawned' : A = B \/ A \intersect B = {}
    BY <2>2, <2>3 DEF OnceInv, RequestsOnce
  <2>8. \A B \in queued' : B \notin running' \union finished'
    BY <2>1, <2>3 DEF OnceInv, RequestsOnce, Spawned
  <2>9. running' \intersect finished' = {}
    BY <2>1 DEF OnceInv, RequestsOnce
  <2>. QED
    BY <2>5, <2>6, <2>7, <2>8, <2>9 DEF RequestsOnce
<1>6. CASE ~full
  <2>1. cur' = grown /\ queued' = queued /\ running' = running /\ finished' = finished
    BY <1>6 DEF Push, Full, Taken
  <2>2. Spawned' = Spawned
    BY <2>1 DEF Spawned
  <2>. QED
    BY <1>3, <1>4, <2>1, <2>2 DEF OnceInv, RequestsOnce
<1>. QED
  BY <1>5, <1>6

\* Flushing, starting and finishing move whole batches.
LEMMA BatchOnce ==
    ASSUME OnceInv, TimerFlush \/ (\E B \in queued : Start(B)) \/ \E B \in running : Finish(B)
    PROVE  RequestsOnce'
<1>1. \A r \in Requests : Pushed(r)' <=> Pushed(r)
  BY DEF TimerFlush, Start, Finish, DropSenders, Pushed
<1>2. CASE TimerFlush
  <2>1. /\ cur' = {} /\ queued' = queued \union {cur}
        /\ running' = running /\ finished' = finished /\ cur # {}
    BY <1>2 DEF TimerFlush
  <2>2. Spawned' = Spawned \union {cur}
    BY <2>1 DEF Spawned
  <2>3. cur \notin Spawned
    BY <2>1 DEF OnceInv, RequestsOnce
  <2>4. \A r \in Requests : Pushed(r)' <=> r \in cur' \union UNION Spawned'
    BY <1>1, <2>1, <2>2 DEF OnceInv, RequestsOnce
  <2>5. \A A, B \in Spawned' : A = B \/ A \intersect B = {}
    BY <2>2 DEF OnceInv, RequestsOnce
  <2>6. \A B \in queued' : B \notin running' \union finished'
    BY <2>1, <2>3 DEF OnceInv, RequestsOnce, Spawned
  <2>. QED
    BY <2>1, <2>4, <2>5, <2>6 DEF OnceInv, RequestsOnce
<1>3. ASSUME NEW B \in queued, Start(B) PROVE RequestsOnce'
  <2>1. Spawned' = Spawned /\ cur' = cur
    BY <1>3 DEF Start, Spawned
  <2>. QED
    BY <1>1, <1>3, <2>1 DEF OnceInv, RequestsOnce, Start
<1>4. ASSUME NEW B \in running, Finish(B) PROVE RequestsOnce'
  <2>1. Spawned' = Spawned /\ cur' = cur
    BY <1>4 DEF Finish, DropSenders, Spawned
  <2>. QED
    BY <1>1, <1>4, <2>1 DEF OnceInv, RequestsOnce, Finish, DropSenders
<1>. QED
  BY <1>2, <1>3, <1>4

\* Every step keeps RequestsOnce.
LEMMA StepOnce == OnceInv /\ [Next]_vars => OnceInv'
<1>. SUFFICES ASSUME OnceInv, [Next]_vars PROVE AtStart' /\ RequestsOnce'
  BY StepTypes DEF OnceInv
<1>. USE DEF OnceInv
<1>1. ASSUME NEW w \in Calls,
             Begin(w) \/ Acquire(w) \/ Release(w) \/ Receive(w) \/ Return(w) \/ Abandon(w)
      PROVE  AtStart' /\ RequestsOnce'
  <2>1. AtStart'
    BY <1>1 DEF AtStart, TypeOK, Begin, Acquire, Release, Receive, Return, Abandon
  <2>2. ASSUME NEW r \in Requests PROVE Pushed(r)' <=> Pushed(r)
    <3>1. r[1] \in Calls /\ r[2] \in Nat /\ r[2] >= 1 /\ r[2] <= Size[r[1]]
      BY RequestParts
    <3>. QED
      BY <1>1, <3>1 DEF AtStart, TypeOK, Pushed, Begin, Acquire, Release, Receive, Return, Abandon
  <2>3. UNCHANGED <<cur, jobs>>
    BY <1>1 DEF Begin, Acquire, Release, Receive, Return, Abandon
  <2>. QED
    BY <2>1, <2>2, <2>3, NothingMoved
<1>2. ASSUME NEW w \in Calls, Push(w) PROVE AtStart' /\ RequestsOnce'
  BY <1>2, PushOnce DEF AtStart, TypeOK, Push, Full, Taken
<1>3. CASE TimerFlush \/ (\E B \in queued : Start(B)) \/ \E B \in running : Finish(B)
  BY <1>3, BatchOnce DEF AtStart, TimerFlush, Start, Finish, DropSenders
<1>4. CASE \/ TimerIdle \/ TimerRearm \/ Tick \/ UNCHANGED vars
           \/ \E B \in running : \E r \in B : Answer(B, r)
  <2>1. UNCHANGED <<cur, jobs, pc, next>>
    BY <1>4 DEF TimerIdle, TimerRearm, Remaining, Tick, Answer, vars
  <2>. QED
    BY <2>1, NothingMoved DEF AtStart, Pushed
<1>. QED
  BY <1>1, <1>2, <1>3, <1>4 DEF Next, Step, Timer

(* No request is lost or executed twice, whatever the sizes of the calls and  *)
(* of the batches, and whenever calls are dropped.                            *)
THEOREM BatcherRequestsOnce == Spec => []RequestsOnce
<1>1. OnceInv => RequestsOnce
  BY DEF OnceInv
<1>. QED
  BY <1>1, InitOnce, StepOnce, PTL DEF Spec
-----------------------------------------------------------------------------
(* BatchBounds is inductive once batches are known to be finite: the current  *)
(* batch is below the batch size before Push, so it is at most full after.    *)

FiniteBatches ==
    /\ IsFiniteSet(cur) /\ IsFiniteSet(running)
    /\ \A B \in Spawned : IsFiniteSet(B)

BoundsInv == FiniteBatches /\ BatchBounds

\* The initial state has only the empty current batch.
LEMMA InitBounds == Init => BoundsInv
BY PositiveSettings, FS_EmptySet DEF Init, BoundsInv, FiniteBatches, BatchBounds, Spawned

\* A step that touches no batch keeps the bounds.
LEMMA SameBatches == BoundsInv /\ UNCHANGED <<cur, jobs>> => BoundsInv'
BY DEF BoundsInv, FiniteBatches, BatchBounds, Spawned, jobs

\* Push spawns the batch the moment it is full.
LEMMA PushBounds ==
    ASSUME BoundsInv, NEW w \in Calls, Push(w)
    PROVE  BoundsInv'
<1>. DEFINE grown == cur \union {<<w, next[w]>>}
            full == Cardinality(grown) >= MaxBatch
<1>1. /\ IsFiniteSet(grown) /\ Cardinality(cur) \in Nat
      /\ Cardinality(grown) \in {Cardinality(cur), Cardinality(cur) + 1}
  BY FS_AddElement, FS_CardinalityType DEF BoundsInv, FiniteBatches
<1>2. Cardinality(grown) <= MaxBatch /\ grown # {}
  <2>1. Cardinality(cur) < MaxBatch
    BY DEF BoundsInv, BatchBounds
  <2>2. \A m, n \in Nat : m < n => m <= n /\ m + 1 <= n
    OBVIOUS
  <2>3. Cardinality(grown) <= MaxBatch
    BY <1>1, <2>1, <2>2, PositiveSettings
  <2>4. <<w, next[w]>> \in grown
    OBVIOUS
  <2>5. grown # {}
    BY <2>4
  <2>. QED
    BY <2>3, <2>5
<1>3. running' = running
  BY DEF Push, Full, Taken
<1>4. CASE full
  <2>1. cur' = {} /\ Spawned' = Spawned \union {grown}
    BY <1>4 DEF Push, Full, Taken, Spawned
  <2>2. IsFiniteSet(cur') /\ Cardinality(cur') = 0
    BY <2>1, FS_EmptySet
  <2>. QED
    <3>1. FiniteBatches'
      BY <1>1, <1>3, <2>1, <2>2 DEF BoundsInv, FiniteBatches
    <3>2. \A B \in Spawned' : B # {} /\ Cardinality(B) <= MaxBatch
      BY <1>2, <2>1 DEF BoundsInv, BatchBounds
    <3>3. 0 < MaxBatch
      BY PositiveSettings
    <3>. QED
      BY <1>3, <2>2, <3>1, <3>2, <3>3 DEF BoundsInv, BatchBounds
<1>5. CASE ~full
  <2>1. cur' = grown /\ Spawned' = Spawned
    BY <1>5 DEF Push, Full, Taken, Spawned
  <2>2. Cardinality(cur') < MaxBatch
    BY <1>1, <1>5, <2>1, PositiveSettings
  <2>. QED
    BY <1>1, <1>3, <2>1, <2>2 DEF BoundsInv, FiniteBatches, BatchBounds
<1>. QED
  BY <1>4, <1>5

\* The timer spawns only a batch that has a request.
LEMMA FlushBounds ==
    ASSUME BoundsInv, TimerFlush
    PROVE  BoundsInv'
<1>1. cur' = {} /\ cur # {} /\ Spawned' = Spawned \union {cur} /\ running' = running
  BY DEF TimerFlush, Spawned
<1>2. IsFiniteSet(cur') /\ Cardinality(cur') = 0 /\ Cardinality(cur) \in Nat
  BY <1>1, FS_EmptySet, FS_CardinalityType DEF BoundsInv, FiniteBatches
<1>. QED
  BY <1>1, <1>2, PositiveSettings DEF BoundsInv, FiniteBatches, BatchBounds

\* A batch starts only with a permit, and gives it back when it ends.
LEMMA PermitBounds ==
    ASSUME BoundsInv, NEW B, (B \in queued /\ Start(B)) \/ (B \in running /\ Finish(B))
    PROVE  BoundsInv'
<1>1. cur' = cur /\ Spawned' = Spawned
  BY DEF Start, Finish, DropSenders, Spawned
<1>2. IsFiniteSet(running) /\ Cardinality(running) \in Nat
  BY FS_CardinalityType DEF BoundsInv, FiniteBatches
<1>3. IsFiniteSet(running') /\ Cardinality(running') <= MaxRunning
  <2>1. CASE B \in queued /\ Start(B)
    <3>1. running' = running \union {B} /\ Cardinality(running) < MaxRunning
      BY <2>1 DEF Start
    <3>2. IsFiniteSet(running \union {B})
          /\ Cardinality(running \union {B}) \in {Cardinality(running), Cardinality(running) + 1}
      BY <1>2, FS_AddElement
    <3>. QED
      BY <1>2, <3>1, <3>2, PositiveSettings
  <2>2. CASE B \in running /\ Finish(B)
    <3>1. running' = running \ {B} /\ Cardinality(running) <= MaxRunning
      BY <2>2 DEF Finish, DropSenders, BoundsInv, BatchBounds
    <3>2. IsFiniteSet(running \ {B})
          /\ Cardinality(running \ {B}) \in {Cardinality(running), Cardinality(running) - 1}
      BY <1>2, FS_RemoveElement
    <3>. QED
      BY <1>2, <3>1, <3>2, PositiveSettings
  <2>. QED
    BY <2>1, <2>2
<1>. QED
  BY <1>1, <1>3 DEF BoundsInv, FiniteBatches, BatchBounds

\* Every step keeps the bounds.
LEMMA StepBounds == BoundsInv /\ [Next]_vars => BoundsInv'
<1>. SUFFICES ASSUME BoundsInv, [Next]_vars PROVE BoundsInv'
  OBVIOUS
<1>1. ASSUME NEW w \in Calls,
             \/ Begin(w) \/ Acquire(w) \/ Release(w)
             \/ Receive(w) \/ Return(w) \/ Abandon(w)
      PROVE  BoundsInv'
  BY <1>1, SameBatches DEF Begin, Acquire, Release, Receive, Return, Abandon
<1>2. CASE \/ TimerIdle \/ TimerRearm \/ Tick \/ UNCHANGED vars
           \/ \E B \in running : \E r \in B : Answer(B, r)
  BY <1>2, SameBatches DEF TimerIdle, TimerRearm, Remaining, Tick, Answer, vars
<1>. QED
  BY <1>1, <1>2, PushBounds, FlushBounds, PermitBounds DEF Next, Step, Timer

(* The executor never gets an empty batch, one above its batch size, or more  *)
(* batches at once than its concurrency, for settings of zero too.            *)
THEOREM BatcherBounds == Spec => []BatchBounds
<1>1. BoundsInv => BatchBounds
  BY DEF BoundsInv
<1>. QED
  BY <1>1, InitBounds, StepBounds, PTL DEF Spec
-----------------------------------------------------------------------------
\* Sleeps are set so that they end no later than the current batch expires.
LEMMA StepNeverOverdue == TypeOK /\ NeverOverdue /\ [Next]_vars => NeverOverdue'
<1>. SUFFICES ASSUME TypeOK, NeverOverdue, [Next]_vars PROVE NeverOverdue'
  OBVIOUS
<1>. USE DEF TypeOK, NeverOverdue
<1>1. ASSUME NEW w \in Calls, Push(w) PROVE NeverOverdue'
  BY <1>1 DEF Push, Full, Taken
<1>2. CASE Timer
  BY <1>2 DEF Timer, TimerIdle, TimerFlush, TimerRearm, Remaining
<1>3. CASE Tick
  BY <1>3 DEF Tick
<1>4. CASE UNCHANGED <<cur, age, left>>
  BY <1>4
<1>5. ASSUME NEW w \in Calls,
             \/ Begin(w) \/ Acquire(w) \/ Release(w)
             \/ Receive(w) \/ Return(w) \/ Abandon(w)
      PROVE  NeverOverdue'
  BY <1>4, <1>5 DEF Begin, Acquire, Release, Receive, Return, Abandon
<1>6. CASE \/ \E B \in queued : Start(B)
           \/ \E B \in running : Finish(B) \/ \E r \in B : Answer(B, r)
  BY <1>4, <1>6 DEF Start, Finish, DropSenders, Answer
<1>7. CASE UNCHANGED vars
  BY <1>4, <1>7 DEF vars
<1>. QED
  BY <1>1, <1>2, <1>3, <1>5, <1>6, <1>7 DEF Next, Step

(* batch_loop never sleeps past the end of the current batch's delay, for any *)
(* delay and however late the task runs.                                      *)
THEOREM BatcherNeverOverdue == Spec => []NeverOverdue
<1>1. Init => NeverOverdue
  BY DEF Init, NeverOverdue
<1>. QED
  BY <1>1, StepNeverOverdue, BatcherTypes, PTL DEF Spec
-----------------------------------------------------------------------------
\* Initially no channel is settled and no batch is finished.
LEMMA InitSettled == Init => SettledByOwnBatch
BY DEF Init, SettledByOwnBatch

\* Only the executor call a request is in settles its channel, and all of them.
LEMMA StepSettled == TypeOK /\ SettledByOwnBatch /\ [Next]_vars => SettledByOwnBatch'
<1>. SUFFICES ASSUME TypeOK, SettledByOwnBatch, [Next]_vars PROVE SettledByOwnBatch'
  OBVIOUS
<1>. USE DEF SettledByOwnBatch
<1>1. ASSUME NEW B \in queued, Start(B) PROVE SettledByOwnBatch'
  BY <1>1 DEF Start
<1>2. ASSUME NEW B \in running, NEW r \in B, Answer(B, r) PROVE SettledByOwnBatch'
  <2>1. \A q \in Requests : reply'[q] = IF q = r THEN "sent" ELSE reply[q]
    BY <1>2 DEF Answer, TypeOK
  <2>2. running' = running /\ finished' = finished
    BY <1>2 DEF Answer, jobs
  <2>. QED
    BY <1>2, <2>1, <2>2
<1>3. ASSUME NEW B \in running, Finish(B) PROVE SettledByOwnBatch'
  BY <1>3 DEF Finish, DropSenders, TypeOK
<1>4. CASE UNCHANGED <<running, finished, reply>>
  BY <1>4
<1>5. ASSUME NEW w \in Calls,
             \/ Begin(w) \/ Acquire(w) \/ Push(w) \/ Release(w)
             \/ Receive(w) \/ Return(w) \/ Abandon(w)
      PROVE  SettledByOwnBatch'
  BY <1>4, <1>5 DEF Begin, Acquire, Push, Full, Taken, Release, Receive, Return, Abandon, jobs
<1>6. CASE Timer \/ Tick \/ UNCHANGED vars
  BY <1>4, <1>6 DEF Timer, TimerIdle, TimerFlush, TimerRearm, Remaining, Tick, vars, jobs
<1>. QED
  BY <1>1, <1>2, <1>3, <1>5, <1>6 DEF Next, Step

(* A reply channel is settled by the executor call its request went to and by *)
(* the end of that call at the latest, answered or not.                       *)
THEOREM BatcherSettledByOwnBatch == Spec => []SettledByOwnBatch
BY InitSettled, StepSettled, BatcherTypes, PTL DEF Spec
-----------------------------------------------------------------------------
(* That a call returns with all its answers needs one more invariant: the     *)
(* responses awaited so far are settled.                                      *)

Received ==
    \A w \in Calls : pc[w] = "await" =>
        \A i \in 1 .. Size[w] : i < next[w] => reply[<<w, i>>] # "pending"

\* No call awaits anything at first.
LEMMA InitReceived == Init => Received
BY DEF Init, Received

\* Receive goes on only after the response it awaits is settled.
LEMMA StepReceived == TypeOK /\ Received /\ [Next]_vars => Received'
<1>. SUFFICES ASSUME TypeOK, Received, [Next]_vars PROVE Received'
  OBVIOUS
<1>. USE DEF Received, TypeOK
<1>1. ASSUME NEW w \in Calls,
             \/ Begin(w) \/ Acquire(w) \/ Push(w) \/ Release(w) \/ Return(w) \/ Abandon(w)
      PROVE  Received'
  BY <1>1 DEF Begin, Acquire, Push, Full, Taken, Release, Return, Abandon
<1>2. ASSUME NEW w \in Calls, Receive(w) PROVE Received'
  <2>1. pc' = pc /\ reply' = reply /\ next[w] \in Nat /\ reply[<<w, next[w]>>] # "pending"
    BY <1>2 DEF Receive
  <2>2. \A v \in Calls : next'[v] = IF v = w THEN next[v] + 1 ELSE next[v]
    BY <1>2 DEF Receive
  <2>. QED
    BY <2>1, <2>2
<1>3. CASE UNCHANGED <<reply, pc, next>>
  BY <1>3
<1>4. CASE Timer \/ Tick \/ (\E B \in queued : Start(B)) \/ UNCHANGED vars
  BY <1>3, <1>4 DEF Timer, TimerIdle, TimerFlush, TimerRearm, Remaining, Tick, Start, vars
<1>5. ASSUME NEW B \in running, Finish(B) \/ \E r \in B : Answer(B, r) PROVE Received'
  <2>1. \A q \in Requests : reply[q] # "pending" => reply'[q] # "pending"
    BY <1>5 DEF Finish, DropSenders, Answer
  <2>2. pc' = pc /\ next' = next
    BY <1>5 DEF Finish, DropSenders, Answer
  <2>. QED
    BY <2>1, <2>2, RequestParts
<1>. QED
  BY <1>1, <1>2, <1>4, <1>5 DEF Next, Step

ContractInv == OnceInv /\ BoundsInv /\ SettledByOwnBatch /\ Received

\* The initial states are those of the contract.
LEMMA InitMeetsContract == Init => Contract!Init
BY RequestParts DEF Init, Contract!Init, Accepted, Sent, Dropped, Returned

\* A step of execute_many is a step of the contract or invisible to it.
LEMMA CallMeetsContract ==
    ASSUME ContractInv, NEW w \in Calls,
           \/ Begin(w) \/ Acquire(w) \/ Push(w) \/ Release(w)
           \/ Receive(w) \/ Return(w) \/ Abandon(w)
    PROVE  Contract!Next \/ UNCHANGED Contract!vars
<1>. USE DEF ContractInv
<1>1. CASE Push(w)
  <2>. DEFINE q == <<w, next[w]>>
  <2>1. q \in Requests /\ q \notin cur \union UNION Spawned
    BY <1>1, PushFresh
  <2>2. q \notin Contract!Known
    <3>1. q \notin Accepted /\ q \notin UNION running
      BY <2>1 DEF Accepted, Spawned
    <3>2. q \notin Sent /\ q \notin Dropped
      BY <2>1 DEF Sent, Dropped, Spawned, SettledByOwnBatch
    <3>. HIDE DEF q
    <3>. QED
      BY <3>1, <3>2 DEF Contract!Known
  <2>3. Accepted' = Accepted \union {q}
    <3>1. \/ cur' = {} /\ queued' = queued \union {cur \union {q}}
          \/ cur' = cur \union {q} /\ queued' = queued
      BY <1>1 DEF Push, Full, Taken
    <3>. HIDE DEF q
    <3>2. CASE cur' = {} /\ queued' = queued \union {cur \union {q}}
      <4>1. \A r : r \in UNION queued' <=> (r \in UNION queued \/ r \in cur \union {q})
        BY <3>2
      <4>. QED
        BY <3>2, <4>1 DEF Accepted
    <3>3. CASE cur' = cur \union {q} /\ queued' = queued
      BY <3>3 DEF Accepted
    <3>. QED
      BY <3>1, <3>2, <3>3
  <2>4. UNCHANGED <<running, Sent, Dropped, Returned>>
    BY <1>1 DEF Push, Full, Taken, Sent, Dropped, Returned
  <2>5. Contract!Accept(q)
    BY <2>2, <2>3, <2>4 DEF Contract!Accept
  <2>. QED
    BY <2>1, <2>5 DEF Contract!Next
<1>2. CASE Return(w)
  <2>1. UNCHANGED <<Accepted, running, Sent, Dropped>>
    BY <1>2 DEF Return, Accepted, Sent, Dropped, jobs
  <2>2. Returned' = Returned \union {w}
    BY <1>2 DEF Return, Returned, OnceInv, TypeOK
  <2>3. ASSUME NEW r \in Requests, r[1] = w PROVE r \in Sent \union Dropped
    <3>1. r[2] \in 1 .. Size[w] /\ r = <<w, r[2]>>
      BY <2>3, RequestParts
    <3>2. r[2] < next[w] /\ pc[w] = "await"
      BY <1>2, <3>1 DEF Return, OnceInv, TypeOK
    <3>3. reply[r] # "pending"
      BY <3>1, <3>2 DEF Received
    <3>. QED
      BY <3>3 DEF OnceInv, TypeOK, Sent, Dropped
  <2>4. Contract!Return(w)
    BY <2>1, <2>2, <2>3 DEF Contract!Return
  <2>. QED
    BY <2>4 DEF Contract!Next
<1>3. CASE Begin(w) \/ Acquire(w) \/ Release(w) \/ Receive(w) \/ Abandon(w)
  <2>1. UNCHANGED <<cur, jobs, reply>>
    BY <1>3 DEF Begin, Acquire, Release, Receive, Abandon
  <2>2. Returned' = Returned
    BY <1>3 DEF Begin, Acquire, Release, Receive, Abandon, Returned, OnceInv, TypeOK
  <2>. QED
    BY <2>1, <2>2 DEF Contract!vars, Accepted, Sent, Dropped, jobs
<1>. QED
  BY <1>1, <1>2, <1>3

\* A step of a spawned batch is a step of the contract.
LEMMA BatchMeetsContract ==
    ASSUME ContractInv, NEW B,
           \/ B \in queued /\ Start(B)
           \/ B \in running /\ (Finish(B) \/ \E r \in B : Answer(B, r))
    PROVE  Contract!Next
<1>. USE DEF ContractInv
<1>1. B \in SUBSET Requests
  BY DEF OnceInv, TypeOK
<1>2. CASE B \in queued /\ Start(B)
  <2>1. B # {} /\ Cardinality(B) <= MaxBatch /\ Cardinality(running) < MaxRunning
    BY <1>2 DEF Start, BoundsInv, BatchBounds, Spawned
  <2>2. Accepted' = Accepted \ B /\ B \subseteq Accepted
    <3>1. B \intersect cur = {} /\ \A A \in queued : A = B \/ A \intersect B = {}
      BY <1>2 DEF OnceInv, RequestsOnce, Spawned
    <3>. QED
      BY <1>2, <3>1 DEF Start, Accepted
  <2>3. running' = running \union {B} /\ UNCHANGED <<Sent, Dropped, Returned>>
    BY <1>2 DEF Start, Sent, Dropped, Returned
  <2>4. Contract!Run(B)
    BY <2>1, <2>2, <2>3 DEF Contract!Run, Contract!Cardinality, Cardinality
  <2>. QED
    BY <1>1, <2>4 DEF Contract!Next
<1>3. CASE B \in running /\ Finish(B)
  <2>1. Dropped' = Dropped \union (B \ Sent) /\ Sent' = Sent
    BY <1>1, <1>3 DEF Finish, DropSenders, Dropped, Sent, OnceInv, TypeOK
  <2>2. running' = running \ {B} /\ UNCHANGED <<Accepted, Returned>>
    BY <1>3 DEF Finish, DropSenders, Accepted, Returned
  <2>3. Contract!Finish(B)
    BY <1>3, <2>1, <2>2 DEF Contract!Finish
  <2>. QED
    BY <1>1, <2>3 DEF Contract!Next
<1>4. ASSUME B \in running, NEW r \in B, Answer(B, r) PROVE Contract!Next
  <2>1. Sent' = Sent \union {r} /\ Dropped' = Dropped
    BY <1>1, <1>4 DEF Answer, Sent, Dropped, OnceInv, TypeOK
  <2>2. UNCHANGED <<Accepted, running, Returned>>
    BY <1>4 DEF Answer, Accepted, Returned, jobs
  <2>3. Contract!Answer(r)
    BY <1>4, <2>1, <2>2 DEF Contract!Answer
  <2>. QED
    BY <1>1, <2>3 DEF Contract!Next
<1>. QED
  BY <1>2, <1>3, <1>4

\* Steps of the timer task are invisible to the contract.
LEMMA TimerMeetsContract ==
    ASSUME Timer \/ Tick \/ UNCHANGED vars
    PROVE  UNCHANGED Contract!vars
<1>1. UNCHANGED <<running, reply, pc>>
  BY DEF Timer, TimerIdle, TimerFlush, TimerRearm, Remaining, Tick, vars, jobs
<1>2. CASE UNCHANGED <<cur, queued>>
  BY <1>1, <1>2 DEF Contract!vars, Accepted, Sent, Dropped, Returned
<1>3. CASE TimerFlush
  <2>1. Accepted' = Accepted
    BY <1>3 DEF TimerFlush, Accepted
  <2>. QED
    BY <1>1, <2>1 DEF Contract!vars, Sent, Dropped, Returned
<1>. QED
  BY <1>2, <1>3 DEF Timer, TimerIdle, TimerRearm, Remaining, Tick, vars, jobs

(* The lock, the current batch, the timer and the semaphore implement the     *)
(* contract: every behaviour of Batcher is one of BatchContract.              *)
THEOREM BatcherMeetsContract == Spec => MeetsContract
<1>1. ContractInv /\ [Next]_vars => [Contract!Next]_(Contract!vars)
  <2>. SUFFICES ASSUME ContractInv, [Next]_vars
                PROVE  Contract!Next \/ UNCHANGED Contract!vars
    OBVIOUS
  <2>. QED
    BY CallMeetsContract, BatchMeetsContract, TimerMeetsContract DEF Next, Step
<1>2. Init => OnceInv /\ BoundsInv /\ SettledByOwnBatch /\ Received
  BY InitOnce, InitBounds, InitSettled, InitReceived
<1>3. OnceInv => TypeOK
  BY DEF OnceInv
<1>4. OnceInv /\ BoundsInv /\ SettledByOwnBatch /\ Received => ContractInv
  BY DEF ContractInv
<1>. QED
  BY <1>1, <1>2, <1>3, <1>4, InitMeetsContract, StepOnce, StepBounds, StepSettled, StepReceived,
     PTL DEF Spec, MeetsContract, Contract!Spec
=============================================================================
