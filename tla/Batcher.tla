------------------------------ MODULE Batcher ------------------------------
(***************************************************************************)
(* crates/batching/src/batch.rs: a Batcher collects the requests of        *)
(* concurrent execute_many calls into a current batch, hands it to the     *)
(* executor when it is full or when its delay has passed, and returns to   *)
(* each call the answers to its own requests, in order.                    *)
(*                                                                         *)
(* A batch is the set of its requests: the executor gets them with one     *)
(* reply channel each, so their order in the Vec tells nothing apart.      *)
(* current_batch = None is cur = {}: a Batch gets its first request in the *)
(* same loop iteration that creates it.  Time is discrete and passes while *)
(* the timer task sleeps; created_at and the sleep are kept as the age of  *)
(* the current batch and the time left to sleep.                           *)
(***************************************************************************)
EXTENDS Integers, FiniteSets

CONSTANTS
    Calls,        \* calls of execute_many (execute is a call of size 1)
    Size,         \* Size[w]: how many requests call w makes
    BatchSize,    \* the batch_size given to Batcher::new
    Concurrency,  \* the concurrency given to Batcher::new
    Delay,        \* the delay given to Batcher::new, in ticks
    Nobody        \* holder of a free lock

ASSUME BatcherAssumption ==
    /\ IsFiniteSet(Calls) /\ Nobody \notin Calls
    /\ Size \in [Calls -> Nat]
    /\ BatchSize \in Nat /\ Concurrency \in Nat /\ Delay \in Nat

VARIABLES
    lock,      \* who holds the mutex around current_batch
    cur,       \* requests of the current batch
    age,       \* time since the current batch was created
    left,      \* time batch_loop still sleeps
    queued,    \* spawned batches waiting for a semaphore permit
    running,   \* batches inside executor.execute, each with a permit
    finished,  \* batches whose executor call is over
    reply,     \* reply[r]: the oneshot channel of request r
    pc,        \* pc[w]: progress of call w
    next       \* next[w]: position of the request call w handles next

jobs == <<queued, running, finished>>
vars == <<lock, cur, age, left, jobs, reply, pc, next>>

\* slip: the concurrency is taken as it is given
MaxRunning_NoFloor == Concurrency

\* batch_size.max(1), concurrency.max(1)
MaxBatch   == IF BatchSize = 0 THEN 1 ELSE BatchSize
MaxRunning == IF Concurrency = 0 THEN 1 ELSE Concurrency

RequestsOf(w) == {<<w, i>> : i \in 1 .. Size[w]}
Requests == UNION {RequestsOf(w) : w \in Calls}

Init ==
    /\ lock = Nobody
    /\ cur = {} /\ age = 0
    /\ left = Delay
    /\ queued = {} /\ running = {} /\ finished = {}
    /\ reply = [r \in Requests |-> "pending"]
    /\ pc = [w \in Calls |-> "idle"]
    /\ next = [w \in Calls |-> 1]
-----------------------------------------------------------------------------
(* execute_many *)

\* the call is first polled: it queues for the lock and may get it at once
Begin(w) ==
    /\ pc[w] = "idle"
    /\ pc' = [pc EXCEPT ![w] = "lock"]
    /\ UNCHANGED <<lock, cur, age, left, jobs, reply, next>>

Acquire(w) ==
    /\ pc[w] = "lock"
    /\ lock = Nobody
    /\ lock' = w
    /\ pc' = [pc EXCEPT ![w] = "push"]
    /\ UNCHANGED <<cur, age, left, jobs, reply, next>>

\* slip: a batch is full only when it is larger than the batch size
Full_OffByOne(batch) == Cardinality(batch) > MaxBatch

Full(batch) == Cardinality(batch) >= MaxBatch

\* slip: the batch is spawned but not taken
Taken_Left(batch) == batch

\* what is left of the current batch after the test whether to spawn it
Taken(batch) == IF Full(batch) THEN {} ELSE batch

\* one iteration of the loop over items: add the request to the current batch,
\* creating it if there is none, and spawn the batch when it is full
Push(w) ==
    /\ pc[w] = "push" /\ next[w] <= Size[w]
    /\ next' = [next EXCEPT ![w] = @ + 1]
    /\ LET grown == cur \union {<<w, next[w]>>}
       IN  /\ cur' = Taken(grown)
           /\ queued' = IF Full(grown) THEN queued \union {grown} ELSE queued
           /\ age' = IF cur = {} \/ Full(grown) THEN 0 ELSE age
    /\ UNCHANGED <<lock, left, running, finished, reply, pc>>

Release(w) ==
    /\ pc[w] = "push" /\ next[w] > Size[w]
    /\ lock' = Nobody
    /\ pc' = [pc EXCEPT ![w] = "await"]
    /\ next' = [next EXCEPT ![w] = 1]
    /\ UNCHANGED <<cur, age, left, jobs, reply>>

\* slip: try_recv instead of await
Receive_Early(w) ==
    /\ pc[w] = "await" /\ next[w] <= Size[w]
    /\ next' = [next EXCEPT ![w] = @ + 1]
    /\ UNCHANGED <<lock, cur, age, left, jobs, reply, pc>>

\* response.await.ok() for the next response, in the order of the items
Receive(w) ==
    /\ pc[w] = "await" /\ next[w] <= Size[w]
    /\ reply[<<w, next[w]>>] # "pending"
    /\ next' = [next EXCEPT ![w] = @ + 1]
    /\ UNCHANGED <<lock, cur, age, left, jobs, reply, pc>>

Return(w) ==
    /\ pc[w] = "await" /\ next[w] > Size[w]
    /\ pc' = [pc EXCEPT ![w] = "returned"]
    /\ UNCHANGED <<lock, cur, age, left, jobs, reply, next>>

\* the caller drops the future: before its requests are in a batch, or after
Abandon(w) ==
    /\ \/ pc[w] = "lock"  /\ pc' = [pc EXCEPT ![w] = "withdrawn"]
       \/ pc[w] = "await" /\ pc' = [pc EXCEPT ![w] = "abandoned"]
    /\ UNCHANGED <<lock, cur, age, left, jobs, reply, next>>
-----------------------------------------------------------------------------
(* batch_loop: the body between two sleeps runs under the lock, without await *)

TimerIdle ==
    /\ left = 0 /\ lock = Nobody
    /\ cur = {}
    /\ left' = Delay
    /\ UNCHANGED <<lock, cur, age, jobs, reply, pc, next>>

TimerFlush ==
    /\ left = 0 /\ lock = Nobody
    /\ cur # {} /\ age >= Delay
    /\ queued' = queued \union {cur}
    /\ cur' = {} /\ age' = 0
    /\ left' = Delay
    /\ UNCHANGED <<lock, running, finished, reply, pc, next>>

\* slip: the whole delay again
Remaining_Whole == Delay

Remaining == Delay - age

\* the current batch is younger than the delay: sleep for what it has left
TimerRearm ==
    /\ left = 0 /\ lock = Nobody
    /\ cur # {} /\ age < Delay
    /\ left' = Remaining
    /\ UNCHANGED <<lock, cur, age, jobs, reply, pc, next>>

Timer == TimerIdle \/ TimerFlush \/ TimerRearm

\* time passes, also while the timer task is due but has not run yet; an age
\* of Delay stands for any age from there on
Tick ==
    /\ left > 0 \/ (cur # {} /\ age < Delay)
    /\ left' = IF left = 0 THEN 0 ELSE left - 1
    /\ age' = IF cur = {} \/ age = Delay THEN age ELSE age + 1
    /\ UNCHANGED <<lock, cur, jobs, reply, pc, next>>
-----------------------------------------------------------------------------
(* Batch::spawn, and the executor it calls *)

Start(B) ==
    /\ B \in queued
    /\ Cardinality(running) < MaxRunning
    /\ queued' = queued \ {B}
    /\ running' = running \union {B}
    /\ UNCHANGED <<lock, cur, age, left, finished, reply, pc, next>>

\* BatchResponse::send; a receiver that is gone makes no difference
Answer(B, r) ==
    /\ B \in running /\ r \in B
    /\ reply[r] = "pending"
    /\ reply' = [reply EXCEPT ![r] = "sent"]
    /\ UNCHANGED <<lock, cur, age, left, jobs, pc, next>>

\* slip: the senders that were not used are kept
DropSenders_Not(B) == reply

\* the channels after the senders left in B are dropped
DropSenders(B) ==
    [r \in Requests |-> IF r \in B /\ reply[r] = "pending" THEN "dropped" ELSE reply[r]]

\* execute returns or panics: senders not used are dropped, and the permit
Finish(B) ==
    /\ B \in running
    /\ running' = running \ {B}
    /\ finished' = finished \union {B}
    /\ reply' = DropSenders(B)
    /\ UNCHANGED <<lock, cur, age, left, queued, pc, next>>

Step(w) == Acquire(w) \/ Push(w) \/ Release(w) \/ Receive(w) \/ Return(w)

Next ==
    \/ \E w \in Calls : Begin(w) \/ Step(w) \/ Abandon(w)
    \/ Timer \/ Tick
    \/ \E B \in queued : Start(B)
    \/ \E B \in running : Finish(B) \/ \E r \in B : Answer(B, r)

Spec == Init /\ [][Next]_vars

\* tasks are scheduled, time passes, tokio's mutex and semaphore serve every
\* waiter, and every executor call ends
Fairness ==
    /\ \A w \in Calls : WF_vars(Step(w))
    /\ WF_vars(Timer) /\ WF_vars(Tick)
    /\ \A B \in SUBSET Requests : WF_vars(Start(B)) /\ WF_vars(Finish(B))

FairSpec == Spec /\ Fairness
-----------------------------------------------------------------------------
Spawned == queued \union running \union finished

\* requests the loop of execute_many has put into a batch
Pushed(r) ==
    \/ pc[r[1]] = "push" /\ r[2] < next[r[1]]
    \/ pc[r[1]] \in {"await", "returned", "abandoned"}

TypeOK ==
    /\ lock \in Calls \union {Nobody}
    /\ cur \subseteq Requests
    /\ age \in 0 .. Delay
    /\ left \in 0 .. Delay
    /\ queued \subseteq SUBSET Requests
    /\ running \subseteq SUBSET Requests
    /\ finished \subseteq SUBSET Requests
    /\ reply \in [Requests -> {"pending", "sent", "dropped"}]
    /\ pc \in [Calls -> {"idle", "lock", "push", "await", "returned", "withdrawn", "abandoned"}]
    /\ next \in [Calls -> Nat]
    /\ \A w \in Calls : next[w] \in 1 .. Size[w] + 1

(* A request is in the current batch or in one spawned batch once the loop   *)
(* has reached it, never in two, and nowhere before: none is lost when a     *)
(* call spans several batches, several calls share one, or its caller goes.  *)
RequestsOnce ==
    /\ \A r \in Requests : Pushed(r) <=> r \in cur \union UNION Spawned
    /\ \A B \in Spawned : B \intersect cur = {}
    /\ \A A, B \in Spawned : A = B \/ A \intersect B = {}
    /\ \A B \in queued : B \notin running \union finished
    /\ running \intersect finished = {}

(* Batches are never empty, never above the batch size, the current batch is *)
(* always below it, and never more run than there are permits.               *)
BatchBounds ==
    /\ \A B \in Spawned : B # {} /\ Cardinality(B) <= MaxBatch
    /\ Cardinality(cur) < MaxBatch
    /\ Cardinality(running) <= MaxRunning

(* The timer task never sleeps past the moment the current batch expires,    *)
(* although it went to sleep before the batch existed, may have run late, and *)
(* other batches came and went meanwhile.                                    *)
NeverOverdue == cur # {} /\ left > 0 => age + left <= Delay

(* A channel is settled exactly by the executor call its request was in:     *)
(* nothing is answered before its batch runs, nothing is pending after.      *)
SettledByOwnBatch ==
    \A r \in Requests :
        /\ reply[r] # "pending" => r \in UNION (running \union finished)
        /\ r \in UNION finished => reply[r] # "pending"
        /\ reply[r] = "dropped" => r \in UNION finished

\* the requests and calls as the contract sees them
Accepted == cur \union UNION queued
Sent     == {r \in Requests : reply[r] = "sent"}
Dropped  == {r \in Requests : reply[r] = "dropped"}
Returned == {w \in Calls : pc[w] = "returned"}

Contract == INSTANCE BatchContract WITH
    waiting <- Accepted, answered <- Sent, dropped <- Dropped, returned <- Returned

(* The lock, the timer and the semaphore implement the contract.             *)
MeetsContract == Contract!Spec

(* Every call that is not abandoned returns.                                 *)
CallsReturn ==
    \A w \in Calls :
        pc[w] = "lock" ~> pc[w] \in {"returned", "withdrawn", "abandoned"}

=============================================================================
