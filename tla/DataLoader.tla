----------------------------- MODULE DataLoader -----------------------------
(***************************************************************************)
(* crates/batching/src/dataloader.rs: concurrent load_many calls put their *)
(* keys into a current batch, a set, so that a key wanted by several calls *)
(* is loaded once; each call keeps a waiter per batch it has keys in, and  *)
(* collects its own keys from the shared results.                          *)
(*                                                                         *)
(* batch_loop is the loop that Batcher models with its clock; here its     *)
(* flush may come whenever the lock is free and there is a batch.  A value *)
(* is known by the batch whose load produced it.                           *)
(***************************************************************************)
EXTENDS Integers, Sequences, FiniteSets

CONSTANTS
    Calls,        \* calls of load_many (load is a call with one key)
    Keys,
    Wanted,       \* Wanted[w]: the keys given to call w, in order
    BatchSize,    \* the batch_size given to DataLoader::new
    Concurrency,  \* the concurrency given to DataLoader::new
    Nobody        \* holder of a free lock

ASSUME DataLoaderAssumption ==
    /\ IsFiniteSet(Calls) /\ Nobody \notin Calls
    /\ Wanted \in [Calls -> Seq(Keys)]
    /\ BatchSize \in Nat /\ Concurrency \in Nat

VARIABLES
    lock,     \* who holds the mutex around current_batch
    batches,  \* every batch ever created, by number
    cur,      \* number of the current batch, 0 for None
    pc,       \* pc[w]: progress of call w
    next,     \* next[w]: position of the key or of the waiter w handles next
    newBatch, \* newBatch[w]: the flag new_batch of w
    waiters,  \* waiters[w]: the batches w has keys in, with those keys
    results,  \* results[w]: what w has collected, a map from keys to values
    old       \* old[w]: batches spawned before w was called (for Fresh)

calls == <<pc, next, newBatch, waiters, results, old>>
vars  == <<lock, batches, cur, calls>>

MaxBatch   == IF BatchSize = 0 THEN 1 ELSE BatchSize
MaxRunning == IF Concurrency = 0 THEN 1 ELSE Concurrency

\* OnceCell<Option<HashMap>>: not set, set to None, or set to Some
Unset  == [is |-> "unset",  found |-> {}]
Failed == [is |-> "failed", found |-> {}]
Loaded == [is : {"loaded"}, found : SUBSET Keys]

\* a batch is open (current), queued (for a permit), loading, or set (its load
\* is over); then it drops its permit (freed) and its guard, which cancels the token
Stages == {"open", "queued", "loading", "set", "freed", "cancelled"}
NewBatch == [keys |-> {}, stage |-> "open", values |-> Unset]

In(stages) == {b \in DOMAIN batches : batches[b].stage \in stages}
Running == In({"loading", "set"})

Init ==
    /\ lock = Nobody
    /\ batches = <<>> /\ cur = 0
    /\ pc = [w \in Calls |-> "idle"]
    /\ next = [w \in Calls |-> 1]
    /\ newBatch = [w \in Calls |-> TRUE]
    /\ waiters = [w \in Calls |-> <<>>]
    /\ results = [w \in Calls |-> <<>>]
    /\ old = [w \in Calls |-> {}]
-----------------------------------------------------------------------------
(* load_many *)

Begin(w) ==
    /\ pc[w] = "idle"
    /\ pc' = [pc EXCEPT ![w] = "lock"]
    /\ old' = [old EXCEPT ![w] = In(Stages \ {"open"})]
    /\ UNCHANGED <<lock, batches, cur, next, newBatch, waiters, results>>

Acquire(w) ==
    /\ pc[w] = "lock"
    /\ lock = Nobody
    /\ lock' = w
    /\ pc' = [pc EXCEPT ![w] = "push"]
    /\ UNCHANGED <<batches, cur, next, newBatch, waiters, results, old>>

Full(keys) == Cardinality(keys) >= MaxBatch

\* slip: a waiter for every key, as if new_batch were never cleared
StartsWaiter_Always(w) == TRUE

StartsWaiter(w) == cur = 0 \/ newBatch[w]

\* one iteration of the loop over items
Push(w) ==
    /\ pc[w] = "push" /\ next[w] <= Len(Wanted[w])
    /\ next' = [next EXCEPT ![w] = @ + 1]
    /\ LET key     == Wanted[w][next[w]]
           created == cur = 0
           b       == IF created THEN Len(batches) + 1 ELSE cur
           before  == IF created THEN Append(batches, NewBatch) ELSE batches
           keys    == before[b].keys \union {key}
           full    == Full(keys)
           mine    == IF StartsWaiter(w)
                      THEN Append(waiters[w], [batch |-> b, keys |-> {}])
                      ELSE waiters[w]
       IN  /\ batches' = [before EXCEPT ![b].keys = keys,
                                        ![b].stage = IF full THEN "queued" ELSE "open"]
           /\ cur' = IF full THEN 0 ELSE b
           /\ waiters' = [waiters EXCEPT ![w] =
                             [mine EXCEPT ![Len(mine)].keys = @ \union {key}]]
           /\ newBatch' = [newBatch EXCEPT ![w] = FALSE]
    /\ UNCHANGED <<lock, pc, results, old>>

Release(w) ==
    /\ pc[w] = "push" /\ next[w] > Len(Wanted[w])
    /\ lock' = Nobody
    /\ pc' = [pc EXCEPT ![w] = "await"]
    /\ next' = [next EXCEPT ![w] = 1]
    /\ UNCHANGED <<batches, cur, newBatch, waiters, results, old>>

\* slip: results are replaced instead of extended
Extended_Replaced(map, got, b) == [k \in got |-> b]

\* map extended with the values that batch b found for the keys in got
Extended(map, got, b) ==
    [k \in DOMAIN map \union got |-> IF k \in got THEN b ELSE map[k]]

\* slip: a batch that failed counts as one that found nothing
Succeeded_Always(values) == TRUE

Succeeded(values) == values \in Loaded

\* BatchResult::wait of the next waiter, once its token is cancelled: its keys
\* that were found go into the results, and anything but Some fails the call
Collect(w) ==
    /\ pc[w] = "await" /\ next[w] <= Len(waiters[w])
    /\ LET waiting == waiters[w][next[w]]
           batch   == batches[waiting.batch]
           got     == waiting.keys \intersect batch.values.found
       IN  /\ batch.stage = "cancelled"
           /\ IF Succeeded(batch.values)
              THEN /\ next' = [next EXCEPT ![w] = @ + 1]
                   /\ results' = [results EXCEPT ![w] = Extended(@, got, waiting.batch)]
                   /\ UNCHANGED pc
              ELSE /\ pc' = [pc EXCEPT ![w] = "failed"]
                   /\ UNCHANGED <<next, results>>
    /\ UNCHANGED <<lock, batches, cur, newBatch, waiters, old>>

Return(w) ==
    /\ pc[w] = "await" /\ next[w] > Len(waiters[w])
    /\ pc' = [pc EXCEPT ![w] = "returned"]
    /\ UNCHANGED <<lock, batches, cur, next, newBatch, waiters, results, old>>

\* the caller drops the future at an await
Abandon(w) ==
    /\ pc[w] \in {"lock", "await"}
    /\ pc' = [pc EXCEPT ![w] = "abandoned"]
    /\ UNCHANGED <<lock, batches, cur, next, newBatch, waiters, results, old>>
-----------------------------------------------------------------------------
(* batch_loop: only a turn that takes the batch changes anything *)

\* slip: the batch is spawned but not taken
Flush_Keeps ==
    /\ lock = Nobody /\ cur # 0
    /\ batches' = [batches EXCEPT ![cur].stage = "queued"]
    /\ UNCHANGED <<lock, cur, calls>>

Flush ==
    /\ lock = Nobody /\ cur # 0
    /\ batches' = [batches EXCEPT ![cur].stage = "queued"]
    /\ cur' = 0
    /\ UNCHANGED <<lock, calls>>
-----------------------------------------------------------------------------
(* Batch::spawn *)

Advance(b, from, to) ==
    /\ batches[b].stage = from
    /\ batches' = [batches EXCEPT ![b].stage = to]
    /\ UNCHANGED <<lock, cur, calls>>

Start(b) ==
    /\ Cardinality(Running) < MaxRunning
    /\ Advance(b, "queued", "loading")

\* executor.load returns None, or Some map of any keys
Load(b, values) ==
    /\ batches[b].stage = "loading"
    /\ batches' = [batches EXCEPT ![b].values = values, ![b].stage = "set"]
    /\ UNCHANGED <<lock, cur, calls>>

\* slip: the guard is made only once the load is over
Panic_NoGuard(b) == Advance(b, "loading", "lost")

\* executor.load panics: the task unwinds and nothing is set
Panic(b) == Advance(b, "loading", "set")

\* locals are dropped in reverse order: the ticket first, then the guard
DropTicket(b) == Advance(b, "set", "freed")
DropGuard(b)  == Advance(b, "freed", "cancelled")

Step(w) == Acquire(w) \/ Push(w) \/ Release(w) \/ Collect(w) \/ Return(w)

Run(b) ==
    \/ Start(b) \/ DropTicket(b) \/ DropGuard(b) \/ Panic(b)
    \/ \E values \in Loaded \union {Failed} : Load(b, values)

Next ==
    \/ \E w \in Calls : Begin(w) \/ Step(w) \/ Abandon(w)
    \/ Flush
    \/ \E b \in DOMAIN batches : Run(b)

Spec == Init /\ [][Next]_vars
-----------------------------------------------------------------------------
WaitersOf(w) == {waiters[w][i] : i \in DOMAIN waiters[w]}
Handled(w) ==
    CASE pc[w] = "push" -> {Wanted[w][i] : i \in 1 .. next[w] - 1}
      [] pc[w] \in {"await", "returned", "failed"} -> {Wanted[w][i] : i \in DOMAIN Wanted[w]}
      [] OTHER -> {}

(* A call waits for exactly the keys it has handled, each in a batch that    *)
(* loads it, and never twice for one batch: calls that share a batch, fill   *)
(* it, or begin it anew must not confuse whose waiter a key belongs to.      *)
WaitersMatch ==
    \A w \in Calls :
        /\ pc[w] # "abandoned" => UNION {x.keys : x \in WaitersOf(w)} = Handled(w)
        /\ \A x \in WaitersOf(w) : x.keys # {} /\ x.keys \subseteq batches[x.batch].keys
        /\ \A i, j \in DOMAIN waiters[w] :
              waiters[w][i].batch = waiters[w][j].batch => i = j

(* A call that returns has every wanted key one of its batches found, none   *)
(* it did not ask for, and each value from a batch it waited for.            *)
ResultExact ==
    \A w \in Calls : pc[w] = "returned" =>
        /\ DOMAIN results[w] =
              UNION {x.keys \intersect batches[x.batch].values.found : x \in WaitersOf(w)}
        /\ \A k \in DOMAIN results[w] : \E x \in WaitersOf(w) :
              x.batch = results[w][k] /\ k \in x.keys

(* A call fails only if a batch with one of its own keys failed or panicked, *)
(* and succeeds only if none did.                                            *)
FailsByOwnBatch ==
    \A w \in Calls :
        LET bad == \E x \in WaitersOf(w) : batches[x.batch].values \in {Unset, Failed}
        IN  (pc[w] = "failed" => bad) /\ (pc[w] = "returned" => ~bad)

(* Values are fresh: no call is served from a batch that had been spawned    *)
(* before the call was made.                                                 *)
Fresh == \A w \in Calls : \A x \in WaitersOf(w) : x.batch \notin old[w]

\* tasks are scheduled, the loop flushes, every load returns or panics
Fairness ==
    /\ \A w \in Calls : WF_vars(Step(w))
    /\ WF_vars(Flush)
    /\ WF_vars(\E b \in DOMAIN batches : Run(b))

FairSpec == Spec /\ Fairness

(* Every call that is not abandoned returns or fails.                        *)
CallsReturn ==
    \A w \in Calls : pc[w] = "lock" ~> pc[w] \in {"returned", "failed", "abandoned"}
=============================================================================
