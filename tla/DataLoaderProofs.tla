-------------------------- MODULE DataLoaderProofs --------------------------
(***************************************************************************)
(* Theorems about DataLoader, for any calls, keys, batch sizes and         *)
(* concurrency.                                                            *)
(***************************************************************************)
EXTENDS DataLoader, SequenceTheorems, TLAPS

USE DataLoaderAssumption
-----------------------------------------------------------------------------
(* The inductive invariant: types, who holds the lock and which batch is     *)
(* current, what the waiters of a call are, and what it has collected.       *)

Values == {Unset, Failed} \union Loaded
Batch  == [keys : SUBSET Keys, stage : Stages, values : Values]
Waiter == [batch : Nat, keys : SUBSET Keys]

TypeOK ==
    /\ lock \in Calls \union {Nobody}
    /\ batches \in Seq(Batch)
    /\ cur \in 0 .. Len(batches)
    /\ pc \in [Calls -> {"idle", "lock", "push", "await", "returned", "failed", "abandoned"}]
    /\ next \in [Calls -> Nat \ {0}]
    /\ newBatch \in [Calls -> BOOLEAN]
    /\ waiters \in [Calls -> Seq(Waiter)]
    /\ DOMAIN results = Calls
    /\ \A w \in Calls : DOMAIN results[w] \subseteq Keys /\ results[w] \in [DOMAIN results[w] -> Nat]
    /\ old \in [Calls -> SUBSET Nat]

\* the call that pushes holds the lock, and the current batch is the open one
Locked ==
    /\ \A w \in Calls : pc[w] = "push" <=> lock = w
    /\ \A b \in DOMAIN batches : batches[b].stage = "open" <=> b = cur

\* a call that has not had the lock has neither waiters nor results
NotBegun ==
    \A w \in Calls :
        /\ pc[w] \in {"idle", "lock"} => next[w] = 1 /\ waiters[w] = <<>>
        /\ pc[w] \in {"idle", "lock", "push"} => results[w] = <<>>
        /\ pc[w] = "push" => next[w] <= Len(Wanted[w]) + 1

\* waiters are in the order in which their batches were created, and the last
\* one is for the current batch if the call has put a key there
WaitersOrdered ==
    \A w \in Calls :
        /\ newBatch[w] <=> waiters[w] = <<>>
        /\ pc[w] = "push" /\ ~newBatch[w] /\ cur # 0 =>
              waiters[w][Len(waiters[w])].batch = cur
        /\ \A i \in DOMAIN waiters[w] :
              /\ waiters[w][i].batch \in DOMAIN batches
              /\ \A j \in 1 .. i - 1 : waiters[w][j].batch < waiters[w][i].batch

\* a waiter's keys are in its batch, and are the keys handled
WaitersHoldKeys ==
    \A w \in Calls :
        /\ pc[w] # "abandoned" => UNION {x.keys : x \in WaitersOf(w)} = Handled(w)
        /\ \A x \in WaitersOf(w) : x.keys # {} /\ x.keys \subseteq batches[x.batch].keys

\* batches spawned before the call
OldSpawned ==
    \A w \in Calls : \A b \in old[w] : b \in DOMAIN batches /\ b # cur

\* the waiters collected so far are over, and the results are theirs
Over(x) == batches[x.batch].stage = "cancelled"

CollectedBy(w) ==
    pc[w] \in {"await", "returned", "failed"} =>
        /\ next[w] <= Len(waiters[w]) + 1
        /\ \A i \in 1 .. next[w] - 1 :
              Over(waiters[w][i]) /\ batches[waiters[w][i].batch].values \in Loaded
        /\ DOMAIN results[w] = UNION {waiters[w][i].keys
                  \intersect batches[waiters[w][i].batch].values.found : i \in 1 .. next[w] - 1}
        /\ \A k \in DOMAIN results[w] : \E i \in 1 .. next[w] - 1 :
              waiters[w][i].batch = results[w][k] /\ k \in waiters[w][i].keys
        /\ pc[w] = "returned" => next[w] = Len(waiters[w]) + 1
        /\ pc[w] = "failed" =>
              /\ next[w] <= Len(waiters[w])
              /\ Over(waiters[w][next[w]])
              /\ batches[waiters[w][next[w]].batch].values \in {Unset, Failed}

Collected == \A w \in Calls : CollectedBy(w)

Base == TypeOK /\ Locked /\ NotBegun

DataLoaderInv ==
    Base /\ WaitersOrdered /\ WaitersHoldKeys /\ OldSpawned /\ Fresh /\ Collected
-----------------------------------------------------------------------------
(* What Push does to the batches and to the waiters of its call.             *)

PushedBatch == IF cur = 0 THEN Len(batches) + 1 ELSE cur
PushedKey(w) == Wanted[w][next[w]]

\* Push puts the key into one batch, the current one or one more, and leaves
\* it current or spawns it.
LEMMA PushBatches ==
    ASSUME TypeOK, NEW w \in Calls, Push(w)
    PROVE  /\ PushedBatch \in Nat \ {0} /\ PushedKey(w) \in Keys
           /\ batches' \in Seq(Batch)
           /\ DOMAIN batches' = DOMAIN batches \union {PushedBatch}
           /\ \A c \in DOMAIN batches : c # PushedBatch => batches'[c] = batches[c]
           /\ PushedBatch \in DOMAIN batches =>
                 /\ batches'[PushedBatch].keys = batches[PushedBatch].keys \union {PushedKey(w)}
                 /\ batches'[PushedBatch].values = batches[PushedBatch].values
           /\ PushedKey(w) \in batches'[PushedBatch].keys
           /\ \/ cur' = PushedBatch /\ batches'[PushedBatch].stage = "open"
              \/ cur' = 0 /\ batches'[PushedBatch].stage = "queued"
<1>. DEFINE b == PushedBatch
            before == IF cur = 0 THEN Append(batches, NewBatch) ELSE batches
            keys == before[b].keys \union {PushedKey(w)}
            full == Full(keys)
            after == [before[b] EXCEPT !.keys = keys, !.stage = IF full THEN "queued" ELSE "open"]
<1>1. PushedKey(w) \in Keys
  BY DEF Push, TypeOK, PushedKey
<1>2. NewBatch \in Batch /\ batches \in Seq(Batch) /\ Append(batches, NewBatch) \in Seq(Batch)
      /\ DOMAIN Append(batches, NewBatch) = 1 .. Len(batches) + 1
  <2>1. NewBatch \in Batch
    BY DEF NewBatch, Batch, Values, Stages
  <2>. QED
    BY <2>1, AppendProperties, LenProperties DEF TypeOK
<1>3. /\ before \in Seq(Batch) /\ b \in DOMAIN before /\ b \in Nat \ {0}
      /\ DOMAIN before = DOMAIN batches \union {b}
      /\ \A c \in DOMAIN batches : before[c] = batches[c]
  <2>1. CASE cur = 0
    <3>1. before = Append(batches, NewBatch) /\ b = Len(batches) + 1
      BY <2>1 DEF PushedBatch
    <3>. QED
      BY <1>2, <3>1, AppendProperties, LenProperties
  <2>2. CASE cur # 0
    <3>1. before = batches /\ b = cur /\ cur \in 1 .. Len(batches)
      BY <2>2 DEF TypeOK, PushedBatch
    <3>2. DOMAIN batches = 1 .. Len(batches) /\ Len(batches) \in Nat
      BY <1>2, LenProperties
    <3>. HIDE DEF before, b
    <3>3. cur \in Nat \ {0} /\ cur \in DOMAIN batches
      BY <3>1, <3>2
    <3>4. DOMAIN before = DOMAIN batches \union {b} /\ b \in DOMAIN before
      BY <3>1, <3>2, <3>3
    <3>. QED
      BY <1>2, <3>1, <3>3, <3>4
  <2>. QED
    BY <2>1, <2>2
<1>4. batches' = [before EXCEPT ![b] = after] /\ cur' = IF full THEN 0 ELSE b
  BY DEF Push, PushedBatch, PushedKey
<1>. HIDE DEF before, full, b
<1>5. before[b] \in Batch /\ DOMAIN before = 1 .. Len(before)
  BY <1>3, ElementOfSeq, LenProperties
<1>6. after \in Batch /\ after.keys = keys /\ after.values = before[b].values
      /\ after.stage = IF full THEN "queued" ELSE "open"
  BY <1>1, <1>5 DEF Batch, Stages
<1>. HIDE DEF after, keys
<1>7. batches' \in Seq(Batch) /\ DOMAIN batches' = DOMAIN before /\ batches'[b] = after
      /\ \A c \in DOMAIN batches : c # b => batches'[c] = batches[c]
  BY <1>3, <1>4, <1>5, <1>6, ExceptSeq, LenProperties
<1>8. b \in DOMAIN batches =>
        /\ batches'[b].keys = batches[b].keys \union {PushedKey(w)}
        /\ batches'[b].values = batches[b].values
  BY <1>3, <1>6, <1>7 DEF keys
<1>9. PushedKey(w) \in batches'[b].keys
  BY <1>6, <1>7 DEF keys
<1>10. \/ cur' = b /\ batches'[b].stage = "open"
       \/ cur' = 0 /\ batches'[b].stage = "queued"
  BY <1>4, <1>6, <1>7
<1>. QED
  BY <1>1, <1>3, <1>7, <1>8, <1>9, <1>10 DEF b

\* Updating the keys of a waiter leaves its batch.
LEMMA WaiterGrows ==
    ASSUME NEW x \in Waiter, NEW k \in Keys
    PROVE  /\ [x EXCEPT !.keys = @ \union {k}] \in Waiter
           /\ [x EXCEPT !.keys = @ \union {k}].batch = x.batch
           /\ [x EXCEPT !.keys = @ \union {k}].keys = x.keys \union {k}
BY DEF Waiter

\* Push adds a waiter for that batch, or the key to the last waiter.
LEMMA PushWaiters ==
    ASSUME TypeOK, NEW w \in Calls, Push(w), newBatch[w] <=> waiters[w] = <<>>
    PROVE  /\ waiters' \in [Calls -> Seq(Waiter)]
           /\ \A v \in Calls \ {w} : waiters'[v] = waiters[v]
           /\ Len(waiters'[w]) = IF StartsWaiter(w) THEN Len(waiters[w]) + 1 ELSE Len(waiters[w])
           /\ Len(waiters'[w]) \in Nat \ {0}
           /\ \A i \in 1 .. Len(waiters'[w]) - 1 : waiters'[w][i] = waiters[w][i]
           /\ waiters'[w][Len(waiters'[w])].batch =
                IF StartsWaiter(w) THEN PushedBatch ELSE waiters[w][Len(waiters[w])].batch
           /\ waiters'[w][Len(waiters'[w])].keys = {PushedKey(w)} \union
                IF StartsWaiter(w) THEN {} ELSE waiters[w][Len(waiters[w])].keys
<1>. DEFINE n == Len(waiters[w])
            new == [batch |-> PushedBatch, keys |-> {}]
            m == IF StartsWaiter(w) THEN n + 1 ELSE n
            mine == IF StartsWaiter(w) THEN Append(waiters[w], new) ELSE waiters[w]
            final == [mine[m] EXCEPT !.keys = @ \union {PushedKey(w)}]
<1>1. waiters[w] \in Seq(Waiter) /\ PushedKey(w) \in Keys /\ n \in Nat /\ new \in Waiter
  BY PushBatches, LenProperties DEF TypeOK, Waiter
<1>2. /\ mine \in Seq(Waiter) /\ Len(mine) = m /\ m \in Nat \ {0}
      /\ \A i \in 1 .. m - 1 : mine[i] = waiters[w][i]
      /\ mine[m] = IF StartsWaiter(w) THEN new ELSE waiters[w][n]
  <2>1. CASE StartsWaiter(w)
    <3>. HIDE DEF new
    <3>. QED
      BY <1>1, <2>1, AppendProperties
  <2>2. CASE ~StartsWaiter(w)
    <3>1. waiters[w] # <<>>
      BY <2>2 DEF StartsWaiter, TypeOK
    <3>. QED
      BY <1>1, <2>2, <3>1, EmptySeq
  <2>. QED
    BY <2>1, <2>2
<1>3. waiters' = [waiters EXCEPT ![w] = [mine EXCEPT ![Len(mine)].keys = @ \union {PushedKey(w)}]]
  BY DEF Push, PushedBatch, PushedKey
<1>. HIDE DEF mine, m
<1>4. waiters'[w] = [mine EXCEPT ![m] = final] /\ \A v \in Calls \ {w} : waiters'[v] = waiters[v]
  BY <1>2, <1>3 DEF TypeOK
<1>5. m \in 1 .. Len(mine) /\ \A i \in 1 .. m - 1 : i \in 1 .. Len(mine) /\ i # m
  BY <1>2
<1>6. mine[m] \in Waiter
  BY <1>2, <1>5, ElementOfSeq
<1>7. final \in Waiter /\ final.batch = mine[m].batch /\ final.keys = mine[m].keys \union {PushedKey(w)}
  BY <1>1, <1>6, WaiterGrows
<1>. HIDE DEF final
<1>8. waiters'[w] \in Seq(Waiter) /\ Len(waiters'[w]) = m /\ waiters'[w][m] = final
      /\ \A i \in 1 .. m - 1 : waiters'[w][i] = waiters[w][i]
  <2>1. /\ [mine EXCEPT ![m] = final] \in Seq(Waiter)
        /\ Len([mine EXCEPT ![m] = final]) = Len(mine)
        /\ \A j \in 1 .. Len(mine) :
              [mine EXCEPT ![m] = final][j] = IF j = m THEN final ELSE mine[j]
    BY <1>2, <1>5, <1>7, ExceptSeq
  <2>. QED
    BY <1>2, <1>4, <1>5, <2>1
<1>9. waiters' \in [Calls -> Seq(Waiter)]
  BY <1>3, <1>4, <1>8 DEF TypeOK
<1>10. new.batch = PushedBatch /\ new.keys = {}
  OBVIOUS
<1>. HIDE DEF new
<1>. QED
  BY <1>2, <1>4, <1>7, <1>8, <1>9, <1>10 DEF m
-----------------------------------------------------------------------------
(* What the other steps do to the batches.                                   *)

\* Updating one batch leaves the others.
LEMMA BatchUpdated ==
    ASSUME TypeOK, NEW b \in DOMAIN batches, NEW e \in Batch, batches' = [batches EXCEPT ![b] = e]
    PROVE  /\ batches' \in Seq(Batch) /\ Len(batches') = Len(batches)
           /\ DOMAIN batches' = DOMAIN batches
           /\ \A c \in DOMAIN batches : batches'[c] = IF c = b THEN e ELSE batches[c]
<1>1. batches \in Seq(Batch) /\ DOMAIN batches = 1 .. Len(batches)
  BY LenProperties DEF TypeOK
<1>. QED
  BY <1>1, ExceptSeq, LenProperties

\* A step that moves a batch on to a stage, and may set its values.
MovesOn(b, from, to) ==
    /\ batches' \in Seq(Batch) /\ Len(batches') = Len(batches)
    /\ DOMAIN batches' = DOMAIN batches
    /\ \A c \in DOMAIN batches : c # b => batches'[c] = batches[c]
    /\ batches'[b].keys = batches[b].keys
    /\ batches[b].stage = from /\ batches'[b].stage = to
    /\ from # "loading" => batches'[b].values = batches[b].values

\* Advance moves a batch on.
LEMMA AdvanceMoves ==
    ASSUME TypeOK, NEW b \in DOMAIN batches, NEW from, NEW to \in Stages, Advance(b, from, to)
    PROVE  MovesOn(b, from, to)
<1>. DEFINE e == [batches[b] EXCEPT !.stage = to]
<1>1. batches[b] \in Batch
  BY ElementOfSeq, LenProperties DEF TypeOK
<1>2. e \in Batch /\ e.keys = batches[b].keys /\ e.stage = to /\ e.values = batches[b].values
  BY <1>1 DEF Batch
<1>3. batches' = [batches EXCEPT ![b] = e] /\ batches[b].stage = from
  BY DEF Advance
<1>. HIDE DEF e
<1>. QED
  BY <1>2, <1>3, BatchUpdated DEF MovesOn

\* Batches are open, queued, loading, set, freed and cancelled in this order.
LEMMA RunMoves ==
    ASSUME TypeOK, NEW b \in DOMAIN batches, Run(b)
    PROVE  /\ UNCHANGED <<lock, cur, calls>>
           /\ \E from, to \in Stages \ {"open"} : from # "cancelled" /\ MovesOn(b, from, to)
<1>. USE DEF Stages
<1>1. ASSUME NEW values \in Loaded \union {Failed}, Load(b, values)
      PROVE  MovesOn(b, "loading", "set")
  <2>. DEFINE e == [batches[b] EXCEPT !.values = values, !.stage = "set"]
  <2>1. batches[b] \in Batch
    BY ElementOfSeq, LenProperties DEF TypeOK
  <2>2. e \in Batch /\ e.keys = batches[b].keys /\ e.stage = "set"
    BY <2>1 DEF Batch, Values
  <2>3. batches' = [batches EXCEPT ![b] = e] /\ batches[b].stage = "loading"
    BY <1>1 DEF Load
  <2>. HIDE DEF e
  <2>. QED
    BY <2>2, <2>3, BatchUpdated DEF MovesOn
<1>2. ASSUME Start(b) PROVE MovesOn(b, "queued", "loading")
  BY <1>2, AdvanceMoves DEF Start
<1>3. ASSUME Panic(b) PROVE MovesOn(b, "loading", "set")
  BY <1>3, AdvanceMoves DEF Panic
<1>4. ASSUME DropTicket(b) PROVE MovesOn(b, "set", "freed")
  BY <1>4, AdvanceMoves DEF DropTicket
<1>5. ASSUME DropGuard(b) PROVE MovesOn(b, "freed", "cancelled")
  BY <1>5, AdvanceMoves DEF DropGuard
<1>6. UNCHANGED <<lock, cur, calls>>
  BY DEF Run, Start, Panic, DropTicket, DropGuard, Load, Advance
<1>. QED
  BY <1>1, <1>2, <1>3, <1>4, <1>5, <1>6 DEF Run

\* The timer spawns the open batch.
LEMMA FlushMoves ==
    ASSUME TypeOK, Locked, Flush
    PROVE  /\ cur \in DOMAIN batches /\ MovesOn(cur, "open", "queued")
           /\ lock = Nobody /\ cur' = 0 /\ UNCHANGED <<lock, calls>>
<1>1. cur \in DOMAIN batches
  BY LenProperties DEF Flush, TypeOK
<1>2. batches[cur].stage = "open"
  BY <1>1 DEF Locked
<1>. DEFINE e == [batches[cur] EXCEPT !.stage = "queued"]
<1>3. batches[cur] \in Batch
  BY <1>1, ElementOfSeq, LenProperties DEF TypeOK
<1>4. e \in Batch /\ e.keys = batches[cur].keys /\ e.stage = "queued" /\ e.values = batches[cur].values
  BY <1>3 DEF Batch, Stages
<1>5. batches' = [batches EXCEPT ![cur] = e]
  BY DEF Flush
<1>6. lock = Nobody /\ cur' = 0 /\ UNCHANGED <<lock, calls>>
  BY DEF Flush
<1>. HIDE DEF e
<1>. QED
  BY <1>1, <1>2, <1>4, <1>5, <1>6, BatchUpdated DEF MovesOn
-----------------------------------------------------------------------------
(* Types, the lock and the current batch.                                    *)

\* The steps of a call that has handed over its keys, or not begun.
Waits(w) == Begin(w) \/ Acquire(w) \/ Release(w) \/ Return(w) \/ Abandon(w)

\* The initial state has no batch and no call begun.
LEMMA InitBase == Init => Base
<1>. SUFFICES ASSUME Init PROVE TypeOK /\ Locked /\ NotBegun
  BY DEF Base
<1>1. batches = <<>> /\ batches \in Seq(Batch) /\ Len(batches) = 0 /\ cur = 0
  BY EmptySeq DEF Init
<1>2. \A w \in Calls : waiters[w] = <<>> /\ waiters[w] \in Seq(Waiter)
  BY EmptySeq DEF Init
<1>3. \A w \in Calls : results[w] = <<>> /\ DOMAIN results[w] = {} /\ results[w] \in [{} -> Nat]
  BY DEF Init
<1>4. TypeOK
  BY <1>1, <1>2, <1>3 DEF Init, TypeOK
<1>5. Locked
  BY <1>1 DEF Init, Locked
<1>6. NotBegun
  BY DEF Init, NotBegun
<1>. QED
  BY <1>4, <1>5, <1>6

\* Push leaves the types, the lock and the current batch as Base says.
LEMMA PushBase ==
    ASSUME Base, WaitersOrdered, NEW w \in Calls, Push(w)
    PROVE  Base'
<1>. USE DEF Base
<1>1. newBatch[w] <=> waiters[w] = <<>>
  BY DEF WaitersOrdered
<1>2. lock' = lock /\ pc' = pc /\ results' = results /\ old' = old
      /\ newBatch' = [newBatch EXCEPT ![w] = FALSE] /\ next' = [next EXCEPT ![w] = @ + 1]
  BY DEF Push
<1>3. pc[w] = "push" /\ next[w] <= Len(Wanted[w]) /\ Len(Wanted[w]) \in Nat
  BY LenProperties DEF Push
<1>4. batches' \in Seq(Batch) /\ DOMAIN batches' = 1 .. Len(batches') /\ Len(batches') \in Nat
      /\ PushedBatch \in DOMAIN batches' /\ cur' \in {0, PushedBatch}
  BY PushBatches, LenProperties
<1>5. TypeOK'
  <2>1. cur' \in 0 .. Len(batches')
    BY <1>4
  <2>2. waiters' \in [Calls -> Seq(Waiter)]
    BY <1>1, PushWaiters
  <2>3. next' \in [Calls -> Nat \ {0}] /\ newBatch' \in [Calls -> BOOLEAN]
    BY <1>2 DEF TypeOK
  <2>. QED
    BY <1>2, <1>4, <2>1, <2>2, <2>3 DEF TypeOK
<1>6. Locked'
  <2>1. \A b \in DOMAIN batches' : batches'[b].stage = "open" <=> b = cur'
    <3>1. \A c \in DOMAIN batches : c # PushedBatch => batches'[c] = batches[c] /\ c # cur /\ c # 0
      BY PushBatches, LenProperties DEF PushedBatch, TypeOK
    <3>2. \A c \in DOMAIN batches : c # PushedBatch => batches'[c].stage # "open" /\ c # cur'
      BY <1>4, <3>1 DEF Locked
    <3>3. batches'[PushedBatch].stage = "open" <=> PushedBatch = cur'
      BY PushBatches
    <3>. QED
      BY <3>2, <3>3, PushBatches
  <2>. QED
    BY <1>2, <2>1 DEF Locked
<1>7. NotBegun'
  <2>1. \A v \in Calls : v # w => next'[v] = next[v] /\ waiters'[v] = waiters[v]
    BY <1>1, <1>2, PushWaiters DEF TypeOK
  <2>2. next'[w] = next[w] + 1 /\ next[w] \in Nat
    BY <1>2 DEF TypeOK
  <2>. QED
    BY <1>2, <1>3, <2>1, <2>2 DEF NotBegun
<1>. QED
  BY <1>5, <1>6, <1>7

\* Collecting adds the keys found.
LEMMA CollectResults ==
    ASSUME TypeOK, WaitersOrdered, NEW w \in Calls, Collect(w),
           batches[waiters[w][next[w]].batch].values \in Loaded
    PROVE  LET waiting == waiters[w][next[w]]
               got == waiting.keys \intersect batches[waiting.batch].values.found
           IN  /\ next[w] \in DOMAIN waiters[w]
               /\ got \subseteq Keys /\ waiting.batch \in Nat
               /\ next' = [next EXCEPT ![w] = @ + 1] /\ pc' = pc
               /\ \A v \in Calls : v # w => results'[v] = results[v]
               /\ DOMAIN results' = Calls
               /\ results'[w] = [k \in DOMAIN results[w] \union got |->
                                    IF k \in got THEN waiting.batch ELSE results[w][k]]
<1>1. next[w] \in 1 .. Len(waiters[w]) /\ DOMAIN waiters[w] = 1 .. Len(waiters[w])
      /\ waiters[w] \in Seq(Waiter)
  BY LenProperties DEF Collect, TypeOK
<1>2. waiters[w][next[w]] \in Waiter
  BY <1>1, ElementOfSeq
<1>. QED
  BY <1>1, <1>2 DEF Collect, Succeeded, Extended, Waiter, TypeOK

\* Collect leaves the types, the lock and the current batch as Base says.
LEMMA CollectBase ==
    ASSUME Base, WaitersOrdered, NEW w \in Calls, Collect(w)
    PROVE  Base'
<1>. USE DEF Base
<1>1. UNCHANGED <<lock, batches, cur, newBatch, waiters, old>> /\ pc[w] = "await"
  BY DEF Collect
<1>2. CASE batches[waiters[w][next[w]].batch].values \in Loaded
  <2>. DEFINE waiting == waiters[w][next[w]]
              got == waiting.keys \intersect batches[waiting.batch].values.found
  <2>1. /\ got \subseteq Keys /\ waiting.batch \in Nat
        /\ next' = [next EXCEPT ![w] = @ + 1] /\ pc' = pc
        /\ \A v \in Calls : v # w => results'[v] = results[v]
        /\ DOMAIN results' = Calls
        /\ results'[w] = [k \in DOMAIN results[w] \union got |->
                             IF k \in got THEN waiting.batch ELSE results[w][k]]
    BY <1>2, CollectResults
  <2>. HIDE DEF waiting, got
  <2>2. DOMAIN results'[w] = DOMAIN results[w] \union got
        /\ DOMAIN results'[w] \subseteq Keys /\ results'[w] \in [DOMAIN results'[w] -> Nat]
    BY <2>1 DEF TypeOK
  <2>3. TypeOK'
    <3>1. next' \in [Calls -> Nat \ {0}]
      BY <2>1 DEF TypeOK
    <3>2. \A v \in Calls : DOMAIN results'[v] \subseteq Keys /\ results'[v] \in [DOMAIN results'[v] -> Nat]
      BY <2>1, <2>2 DEF TypeOK
    <3>. QED
      BY <1>1, <2>1, <3>1, <3>2 DEF TypeOK
  <2>4. Locked' /\ NotBegun'
    BY <1>1, <2>1 DEF TypeOK, Locked, NotBegun
  <2>. QED
    BY <2>3, <2>4
<1>3. CASE batches[waiters[w][next[w]].batch].values \notin Loaded
  <2>1. pc' = [pc EXCEPT ![w] = "failed"] /\ UNCHANGED <<next, results>>
    BY <1>3 DEF Collect, Succeeded
  <2>2. lock # w
    BY <1>1 DEF Locked
  <2>. QED
    BY <1>1, <2>1, <2>2 DEF TypeOK, Locked, NotBegun
<1>. QED
  BY <1>2, <1>3

\* The other steps of a call take or free the lock, or change only pc.
LEMMA WaitsBase ==
    ASSUME Base, NEW w \in Calls, Waits(w)
    PROVE  Base'
<1>. USE DEF Base
<1>1. batches' = batches /\ cur' = cur /\ UNCHANGED <<newBatch, waiters, results>>
  BY DEF Waits, Begin, Acquire, Release, Return, Abandon
<1>2. CASE Begin(w)
  <2>1. In(Stages \ {"open"}) \subseteq Nat
    BY LenProperties DEF In, TypeOK
  <2>. QED
    BY <1>1, <1>2, <2>1 DEF Begin, TypeOK, Locked, NotBegun
<1>3. CASE Acquire(w)
  <2>1. lock = Nobody /\ \A v \in Calls : pc[v] # "push"
    BY <1>3 DEF Acquire, Locked
  <2>2. Len(Wanted[w]) \in Nat
    BY LenProperties
  <2>. QED
    BY <1>1, <1>3, <2>1, <2>2 DEF Acquire, TypeOK, Locked, NotBegun
<1>4. CASE Release(w)
  <2>1. TypeOK'
    BY <1>1, <1>4 DEF Release, TypeOK
  <2>2. Locked' /\ NotBegun'
    BY <1>1, <1>4 DEF Release, TypeOK, Locked, NotBegun
  <2>. QED
    BY <2>1, <2>2
<1>5. CASE Return(w) \/ Abandon(w)
  <2>1. TypeOK'
    BY <1>1, <1>5 DEF Return, Abandon, TypeOK
  <2>2. Locked' /\ NotBegun'
    BY <1>1, <1>5 DEF Return, Abandon, TypeOK, Locked, NotBegun
  <2>. QED
    BY <2>1, <2>2
<1>. QED
  BY <1>2, <1>3, <1>4, <1>5 DEF Waits

\* So do the steps of batches.
LEMMA MovesBase ==
    ASSUME Base, Flush \/ \E b \in DOMAIN batches : Run(b)
    PROVE  Base'
<1>. USE DEF Base
<1>1. CASE Flush
  <2>1. /\ MovesOn(cur, "open", "queued") /\ cur \in DOMAIN batches
        /\ cur' = 0 /\ UNCHANGED <<lock, calls>>
    BY <1>1, FlushMoves
  <2>2. \A b \in DOMAIN batches' : b # 0
    BY <2>1, LenProperties DEF MovesOn
  <2>3. TypeOK'
    BY <2>1, LenProperties DEF MovesOn, TypeOK, calls
  <2>4. Locked'
    BY <2>1, <2>2 DEF MovesOn, Locked, calls
  <2>5. NotBegun'
    BY <2>1 DEF NotBegun, calls
  <2>. QED
    BY <2>3, <2>4, <2>5
<1>2. ASSUME NEW b \in DOMAIN batches, Run(b) PROVE Base'
  <2>1. UNCHANGED <<lock, cur, calls>>
    BY <1>2, RunMoves
  <2>2. PICK from, to \in Stages \ {"open"} : MovesOn(b, from, to)
    BY <1>2, RunMoves
  <2>3. TypeOK'
    BY <2>1, <2>2 DEF MovesOn, TypeOK, calls
  <2>4. Locked'
    BY <2>1, <2>2 DEF MovesOn, Locked, calls
  <2>5. NotBegun'
    BY <2>1 DEF NotBegun, calls
  <2>. QED
    BY <2>3, <2>4, <2>5
<1>. QED
  BY <1>1, <1>2
-----------------------------------------------------------------------------
(* Batches only grow: they keep their keys, and their values once cancelled. *)

BatchesGrow ==
    /\ DOMAIN batches \subseteq DOMAIN batches'
    /\ \A b \in DOMAIN batches :
        /\ batches[b].keys \subseteq batches'[b].keys
        /\ b # cur => b # cur'
        /\ batches[b].stage = "cancelled" =>
              batches'[b].stage = "cancelled" /\ batches'[b].values = batches[b].values

\* Every step lets batches grow.
LEMMA StepGrows == TypeOK /\ Locked /\ [Next]_vars => BatchesGrow
<1>. SUFFICES ASSUME TypeOK, Locked, [Next]_vars PROVE BatchesGrow
  OBVIOUS
<1>1. ASSUME NEW w \in Calls, Push(w) PROVE BatchesGrow
  <2>1. DOMAIN batches' = DOMAIN batches \union {PushedBatch} /\ cur' \in {0, PushedBatch}
    BY <1>1, PushBatches
  <2>2. \A c \in DOMAIN batches : c # 0 /\ (c = PushedBatch => c = cur)
    BY LenProperties DEF PushedBatch, TypeOK
  <2>3. \A c \in DOMAIN batches : c # PushedBatch => batches'[c] = batches[c]
    BY <1>1, PushBatches
  <2>4. PushedBatch \in DOMAIN batches =>
            /\ batches[PushedBatch].keys \subseteq batches'[PushedBatch].keys
            /\ batches[PushedBatch].stage = "open"
    BY <1>1, <2>2, PushBatches DEF Locked
  <2>. QED
    BY <2>1, <2>2, <2>3, <2>4 DEF BatchesGrow
<1>2. CASE Flush
  <2>1. cur \in DOMAIN batches /\ MovesOn(cur, "open", "queued") /\ cur' = 0
    BY <1>2, FlushMoves
  <2>2. 0 \notin DOMAIN batches
    BY LenProperties DEF TypeOK
  <2>. QED
    BY <2>1, <2>2 DEF MovesOn, BatchesGrow
<1>3. ASSUME NEW b \in DOMAIN batches, Run(b) PROVE BatchesGrow
  <2>1. cur' = cur
    BY <1>3, RunMoves
  <2>2. PICK from, to \in Stages \ {"open"} : from # "cancelled" /\ MovesOn(b, from, to)
    BY <1>3, RunMoves
  <2>. QED
    BY <2>1, <2>2 DEF MovesOn, BatchesGrow
<1>4. CASE UNCHANGED <<batches, cur>>
  BY <1>4 DEF BatchesGrow
<1>5. ASSUME NEW w \in Calls, Collect(w) \/ Waits(w) PROVE BatchesGrow
  BY <1>4, <1>5 DEF Collect, Waits, Begin, Acquire, Release, Return, Abandon
<1>. QED
  BY <1>1, <1>2, <1>3, <1>4, <1>5 DEF Next, Step, Waits, vars

\* Every step keeps Base.
LEMMA StepBase == Base /\ WaitersOrdered /\ [Next]_vars => Base'
<1>. SUFFICES ASSUME Base, WaitersOrdered, [Next]_vars PROVE Base'
  OBVIOUS
<1>1. CASE UNCHANGED vars
  BY <1>1 DEF Base, TypeOK, Locked, NotBegun, vars, calls
<1>. QED
  BY <1>1, PushBase, CollectBase, WaitsBase, MovesBase DEF Next, Step, Waits
-----------------------------------------------------------------------------
(* Waiters: their order, their keys and their age.                           *)

\* The last waiter of the call that pushes is for the batch pushed to.
LEMMA LastBatch ==
    ASSUME Base, WaitersOrdered, NEW w \in Calls, Push(w)
    PROVE  /\ waiters'[w][Len(waiters'[w])].batch = PushedBatch
           /\ \A v \in Calls : v # w => pc[v] # "push"
           /\ ~StartsWaiter(w) => PushedBatch = cur /\ waiters[w][Len(waiters[w])].batch = cur
<1>1. (newBatch[w] <=> waiters[w] = <<>>) /\ pc[w] = "push" /\ TypeOK
  BY DEF WaitersOrdered, Push, Base
<1>2. ~StartsWaiter(w) => PushedBatch = cur /\ waiters[w][Len(waiters[w])].batch = cur
  BY <1>1 DEF StartsWaiter, PushedBatch, WaitersOrdered
<1>. QED
  BY <1>1, <1>2, PushWaiters DEF Base, Locked

\* Push keeps the order: a waiter it adds is for a batch newer than the others'.
LEMMA PushOrdered ==
    ASSUME Base, WaitersOrdered, NEW w \in Calls, Push(w)
    PROVE  WaitersOrdered'
<1>. DEFINE n == Len(waiters'[w])
<1>1. TypeOK /\ TypeOK' /\ (newBatch[w] <=> waiters[w] = <<>>) /\ pc[w] = "push"
  BY PushBase DEF WaitersOrdered, Push, Base
<1>2. /\ DOMAIN waiters[w] = 1 .. Len(waiters[w]) /\ Len(waiters[w]) \in Nat
      /\ DOMAIN waiters'[w] = 1 .. n /\ n \in Nat \ {0}
      /\ DOMAIN batches = 1 .. Len(batches) /\ Len(batches) \in Nat
  BY <1>1, LenProperties, PushWaiters DEF TypeOK
<1>3. DOMAIN batches \subseteq DOMAIN batches' /\ PushedBatch \in DOMAIN batches'
  BY <1>1, PushBatches
<1>4. pc' = pc /\ newBatch' = [newBatch EXCEPT ![w] = FALSE]
  BY DEF Push
<1>5. ASSUME NEW v \in Calls, v # w
      PROVE  /\ newBatch'[v] <=> waiters'[v] = <<>>
             /\ pc'[v] # "push"
             /\ \A i \in DOMAIN waiters'[v] :
                   /\ waiters'[v][i].batch \in DOMAIN batches'
                   /\ \A j \in 1 .. i - 1 : waiters'[v][j].batch < waiters'[v][i].batch
  <2>0. waiters'[v] = waiters[v]
    BY <1>1, <1>5, PushWaiters
  <2>1. waiters'[v] = waiters[v] /\ newBatch'[v] = newBatch[v]
    BY <1>1, <1>4, <1>5, <2>0 DEF TypeOK
  <2>2. pc'[v] # "push"
    BY <1>4, <1>5, LastBatch
  <2>. QED
    BY <1>3, <2>1, <2>2 DEF WaitersOrdered
<1>6. newBatch'[w] = FALSE /\ waiters'[w] # <<>>
  BY <1>1, <1>2, <1>4, EmptySeq DEF TypeOK
<1>7. cur' # 0 => waiters'[w][n].batch = cur'
  BY <1>1, LastBatch, PushBatches
<1>8. \A i \in 1 .. n - 1 : /\ waiters'[w][i] = waiters[w][i] /\ i \in DOMAIN waiters[w]
                            /\ waiters[w][i].batch \in DOMAIN batches
  <2>1. n <= Len(waiters[w]) + 1
    BY <1>1, <1>2, PushWaiters
  <2>2. \A i \in 1 .. n - 1 : waiters'[w][i] = waiters[w][i]
    BY <1>1, PushWaiters
  <2>3. \A i \in 1 .. n - 1 : i \in DOMAIN waiters[w]
    BY <1>2, <2>1
  <2>. QED
    BY <2>2, <2>3 DEF WaitersOrdered
<1>9. \A j \in 1 .. n - 1 : waiters'[w][j].batch < waiters'[w][n].batch
  <2>1. CASE cur = 0
    <3>1. waiters'[w][n].batch = Len(batches) + 1
      BY <2>1, LastBatch DEF PushedBatch
    <3>2. \A j \in 1 .. n - 1 : waiters'[w][j].batch \in 1 .. Len(batches)
      BY <1>2, <1>8
    <3>. QED
      BY <1>2, <3>1, <3>2
  <2>2. CASE newBatch[w]
    <3>1. Len(waiters[w]) = 0
      BY <1>1, <2>2
    <3>2. StartsWaiter(w)
      BY <2>2 DEF StartsWaiter
    <3>3. Len(waiters'[w]) = Len(waiters[w]) + 1
      BY <1>1, <3>2, PushWaiters
    <3>4. n = 1
      BY <3>1, <3>3
    <3>. QED
      BY <3>4
  <2>3. CASE ~StartsWaiter(w)
    <3>0. n = Len(waiters[w])
      BY <1>1, <2>3, PushWaiters
    <3>1. n = Len(waiters[w]) /\ waiters'[w][n].batch = waiters[w][n].batch
      BY <2>3, <3>0, LastBatch
    <3>2. n \in DOMAIN waiters[w]
      BY <1>2, <3>1
    <3>3. \A j \in 1 .. n - 1 : waiters[w][j].batch < waiters[w][n].batch
      BY <3>2 DEF WaitersOrdered
    <3>. QED
      BY <1>8, <3>1, <3>3
  <2>. QED
    BY <2>1, <2>2, <2>3 DEF StartsWaiter
<1>10. ASSUME NEW i \in DOMAIN waiters'[w]
       PROVE  /\ waiters'[w][i].batch \in DOMAIN batches'
              /\ \A j \in 1 .. i - 1 : waiters'[w][j].batch < waiters'[w][i].batch
  <2>1. CASE i = n
    BY <1>3, <1>9, <2>1, LastBatch
  <2>2. CASE i # n
    <3>1. i \in 1 .. n - 1 /\ \A j \in 1 .. i - 1 : j \in 1 .. n - 1
      BY <1>2, <2>2
    <3>. QED
      BY <1>3, <1>8, <3>1 DEF WaitersOrdered
  <2>. QED
    BY <2>1, <2>2
<1>. HIDE DEF n
<1>. QED
  <2>1. n = Len(waiters'[w])
    BY DEF n
  <2>. QED
    BY <1>5, <1>6, <1>7, <1>10, <2>1 DEF WaitersOrdered

\* Every step keeps the order of the waiters.
LEMMA StepOrdered == Base /\ WaitersOrdered /\ [Next]_vars => WaitersOrdered'
<1>. SUFFICES ASSUME Base, WaitersOrdered, [Next]_vars PROVE WaitersOrdered'
  OBVIOUS
<1>0. TypeOK /\ Locked /\ DOMAIN batches \subseteq DOMAIN batches'
  BY StepGrows DEF Base, BatchesGrow
<1>1. ASSUME NEW w \in Calls, Push(w) PROVE WaitersOrdered'
  BY <1>1, PushOrdered
<1>2. ASSUME NEW w \in Calls, Acquire(w) PROVE WaitersOrdered'
  <2>1. waiters[w] = <<>> /\ newBatch[w]
    BY <1>2 DEF Acquire, WaitersOrdered, Base, NotBegun
  <2>2. UNCHANGED <<cur, batches, newBatch, waiters>>
    BY <1>2 DEF Acquire
  <2>3. \A v \in Calls : v # w => pc'[v] = pc[v]
    BY <1>0, <1>2 DEF Acquire, TypeOK
  <2>. QED
    BY <2>1, <2>2, <2>3 DEF WaitersOrdered
<1>3. ASSUME NEW w \in Calls, Begin(w) \/ Release(w) \/ Return(w) \/ Abandon(w) \/ Collect(w)
      PROVE  WaitersOrdered'
  <2>1. UNCHANGED <<cur, batches, newBatch, waiters>>
    BY <1>3 DEF Begin, Release, Return, Abandon, Collect
  <2>2. \A v \in Calls : pc'[v] = "push" => pc[v] = "push"
    BY <1>0, <1>3 DEF Begin, Release, Return, Abandon, Collect, TypeOK
  <2>. QED
    BY <2>1, <2>2 DEF WaitersOrdered
<1>4. CASE Flush
  BY <1>0, <1>4, FlushMoves DEF WaitersOrdered, calls
<1>5. ASSUME NEW b \in DOMAIN batches, Run(b) PROVE WaitersOrdered'
  BY <1>0, <1>5, RunMoves DEF WaitersOrdered, calls
<1>6. CASE UNCHANGED vars
  BY <1>6 DEF WaitersOrdered, vars, calls
<1>. QED
  BY <1>1, <1>2, <1>3, <1>4, <1>5, <1>6 DEF Next, Step

\* The keys a call waits for, as its waiters at each position hold them.
LEMMA WaitedKeys ==
    ASSUME NEW w \in Calls
    PROVE  UNION {x.keys : x \in WaitersOf(w)} = UNION {waiters[w][i].keys : i \in DOMAIN waiters[w]}
BY DEF WaitersOf

\* Push adds the key to those waited for and to those handled.
LEMMA PushHolds ==
    ASSUME Base, WaitersOrdered, WaitersHoldKeys, NEW w \in Calls, Push(w)
    PROVE  WaitersHoldKeys'
<1>. DEFINE n == Len(waiters'[w])
<1>1. TypeOK /\ TypeOK' /\ (newBatch[w] <=> waiters[w] = <<>>) /\ pc[w] = "push" /\ pc' = pc
  BY PushBase DEF WaitersOrdered, Push, Base
<1>2. /\ DOMAIN waiters[w] = 1 .. Len(waiters[w]) /\ Len(waiters[w]) \in Nat
      /\ DOMAIN waiters'[w] = 1 .. n /\ n \in Nat \ {0}
  BY <1>1, LenProperties, PushWaiters DEF TypeOK
<1>3. n = IF StartsWaiter(w) THEN Len(waiters[w]) + 1 ELSE Len(waiters[w])
  BY <1>1, PushWaiters
<1>4. /\ \A i \in 1 .. n - 1 : waiters'[w][i] = waiters[w][i]
      /\ waiters'[w][n].batch = PushedBatch
      /\ waiters'[w][n].keys = {PushedKey(w)} \union
            IF StartsWaiter(w) THEN {} ELSE waiters[w][Len(waiters[w])].keys
  BY <1>1, PushWaiters, LastBatch
<1>5. DOMAIN batches \subseteq DOMAIN batches'
      /\ \A b \in DOMAIN batches : batches[b].keys \subseteq batches'[b].keys
  BY <1>1, StepGrows DEF Next, Step, Base, BatchesGrow
<1>6. PushedKey(w) \in batches'[PushedBatch].keys
  BY <1>1, PushBatches
<1>7. \A i \in DOMAIN waiters[w] :
          /\ waiters[w][i].keys # {} /\ waiters[w][i].batch \in DOMAIN batches
          /\ waiters[w][i].keys \subseteq batches[waiters[w][i].batch].keys
  BY DEF WaitersHoldKeys, WaitersOf, WaitersOrdered
<1>. HIDE DEF n
<1>8. \A i \in 1 .. n - 1 : i \in DOMAIN waiters[w] /\ waiters'[w][i] = waiters[w][i]
  BY <1>2, <1>3, <1>4
<1>9. ~StartsWaiter(w) => n = Len(waiters[w]) /\ n \in DOMAIN waiters[w]
  BY <1>2, <1>3
<1>10. ASSUME NEW i \in 1 .. n
       PROVE  /\ waiters'[w][i].keys # {}
              /\ waiters'[w][i].keys \subseteq batches'[waiters'[w][i].batch].keys
  <2>1. CASE i # n
    <3>1. i \in 1 .. n - 1
      BY <1>2, <2>1
    <3>. QED
      BY <1>5, <1>7, <1>8, <3>1
  <2>2. CASE i = n
    <3>1. waiters'[w][i].keys # {}
      BY <1>4, <2>2
    <3>2. ~StartsWaiter(w) => waiters[w][n].keys \subseteq batches'[PushedBatch].keys
      BY <1>5, <1>7, <1>9, LastBatch
    <3>3. waiters'[w][n].keys \subseteq batches'[PushedBatch].keys
      BY <1>4, <1>6, <1>9, <3>2
    <3>. QED
      BY <1>4, <2>2, <3>1, <3>3
  <2>. QED
    BY <2>1, <2>2
<1>11. UNION {waiters'[w][i].keys : i \in 1 .. n}
          = (UNION {waiters[w][i].keys : i \in DOMAIN waiters[w]}) \union {PushedKey(w)}
  <2>1. ASSUME NEW k, NEW i \in 1 .. n, k \in waiters'[w][i].keys
        PROVE  k = PushedKey(w) \/ \E j \in DOMAIN waiters[w] : k \in waiters[w][j].keys
    <3>1. CASE i # n
      <4>1. i \in 1 .. n - 1
        BY <1>2, <3>1
      <4>. QED
        BY <1>8, <2>1, <4>1
    <3>2. CASE i = n
      BY <1>4, <1>9, <2>1, <3>2
    <3>. QED
      BY <3>1, <3>2
  <2>2. ASSUME NEW k, NEW j \in DOMAIN waiters[w], k \in waiters[w][j].keys
        PROVE  \E i \in 1 .. n : k \in waiters'[w][i].keys
    <3>1. j \in 1 .. n
      BY <1>2, <1>3
    <3>2. CASE j # n
      BY <1>2, <1>8, <2>2, <3>1, <3>2
    <3>3. CASE j = n
      <4>1. ~StartsWaiter(w)
        BY <1>2, <1>3, <3>3
      <4>. QED
        BY <1>4, <1>9, <2>2, <3>1, <3>3, <4>1
    <3>. QED
      BY <3>2, <3>3
  <2>3. n \in 1 .. n /\ PushedKey(w) \in waiters'[w][n].keys
    BY <1>2, <1>4
  <2>. QED
    BY <2>1, <2>2, <2>3
<1>12. Handled(w)' = Handled(w) \union {PushedKey(w)}
  <2>1. next[w] \in Nat \ {0} /\ next'[w] = next[w] + 1
    BY <1>1 DEF Push, TypeOK
  <2>2. 1 .. next'[w] - 1 = (1 .. next[w] - 1) \union {next[w]}
    BY <2>1
  <2>. QED
    BY <1>1, <2>2 DEF Handled, PushedKey
<1>13. ASSUME NEW v \in Calls, v # w
       PROVE  /\ waiters'[v] = waiters[v] /\ Handled(v)' = Handled(v)
              /\ \A i \in DOMAIN waiters[v] :
                    /\ waiters[v][i].keys # {}
                    /\ waiters[v][i].keys \subseteq batches'[waiters[v][i].batch].keys
  <2>1. waiters'[v] = waiters[v]
    BY <1>1, <1>13, PushWaiters
  <2>2. next'[v] = next[v]
    BY <1>1, <1>13 DEF Push, TypeOK
  <2>3. Handled(v)' = Handled(v)
    BY <1>1, <2>2 DEF Handled
  <2>. QED
    BY <1>5, <2>1, <2>3 DEF WaitersHoldKeys, WaitersOf, WaitersOrdered
<1>14. \A v \in Calls : pc'[v] # "abandoned" => UNION {x.keys : x \in WaitersOf(v)'} = Handled(v)'
  <2>1. UNION {x.keys : x \in WaitersOf(w)'} = UNION {waiters'[w][i].keys : i \in 1 .. n}
    BY <1>2 DEF WaitersOf, n
  <2>2. UNION {x.keys : x \in WaitersOf(w)} = Handled(w)
    BY <1>1 DEF WaitersHoldKeys
  <2>3. UNION {x.keys : x \in WaitersOf(w)'} = Handled(w)'
    BY <1>11, <1>12, <2>1, <2>2, WaitedKeys
  <2>4. \A v \in Calls : v # w => WaitersOf(v)' = WaitersOf(v) /\ Handled(v)' = Handled(v)
    BY <1>13 DEF WaitersOf
  <2>. QED
    BY <1>1, <2>3, <2>4 DEF WaitersHoldKeys
<1>15. \A v \in Calls : \A x \in WaitersOf(v)' : x.keys # {} /\ x.keys \subseteq batches'[x.batch].keys
  <2>1. WaitersOf(w)' = {waiters'[w][i] : i \in 1 .. n}
    BY <1>2 DEF WaitersOf, n
  <2>2. \A v \in Calls : v # w => WaitersOf(v)' = {waiters[v][i] : i \in DOMAIN waiters[v]}
    BY <1>13 DEF WaitersOf
  <2>. QED
    BY <1>10, <1>13, <2>1, <2>2
<1>. QED
  BY <1>14, <1>15 DEF WaitersHoldKeys

\* Every step keeps the keys of the waiters.
LEMMA StepHolds == Base /\ WaitersOrdered /\ WaitersHoldKeys /\ [Next]_vars => WaitersHoldKeys'
<1>. SUFFICES ASSUME Base, WaitersOrdered, WaitersHoldKeys, [Next]_vars PROVE WaitersHoldKeys'
  OBVIOUS
<1>0. TypeOK /\ NotBegun /\ BatchesGrow
  BY StepGrows DEF Base
<1>1. ASSUME NEW w \in Calls, Push(w) PROVE WaitersHoldKeys'
  BY <1>1, PushHolds
<1>2. ASSUME UNCHANGED waiters,
             \A v \in Calls : pc'[v] # "abandoned" => pc[v] # "abandoned" /\ Handled(v)' = Handled(v)
      PROVE  WaitersHoldKeys'
  <2>1. \A v \in Calls : WaitersOf(v)' = WaitersOf(v)
    BY <1>2 DEF WaitersOf
  <2>2. \A v \in Calls : \A x \in WaitersOf(v) :
            x.batch \in DOMAIN batches /\ batches[x.batch].keys \subseteq batches'[x.batch].keys
    BY <1>0 DEF WaitersOf, WaitersOrdered, BatchesGrow
  <2>. QED
    BY <1>2, <2>1, <2>2 DEF WaitersHoldKeys
<1>3. ASSUME NEW w \in Calls, Begin(w) \/ Return(w) \/ Abandon(w) \/ Collect(w)
      PROVE  WaitersHoldKeys'
  <2>1. UNCHANGED waiters
    BY <1>3 DEF Begin, Return, Abandon, Collect
  <2>2. \A v \in Calls : v # w => pc'[v] = pc[v] /\ next'[v] = next[v]
    BY <1>0, <1>3 DEF Begin, Return, Abandon, Collect, TypeOK
  <2>3. \/ pc'[w] = "abandoned"
        \/ pc[w] = "idle" /\ pc'[w] = "lock"
        \/ pc[w] = "await" /\ pc'[w] \in {"await", "returned", "failed"}
    BY <1>0, <1>3 DEF Begin, Return, Abandon, Collect, TypeOK
  <2>4. \A v \in Calls : pc'[v] # "abandoned" => pc[v] # "abandoned" /\ Handled(v)' = Handled(v)
    <3>1. \A v \in Calls : v # w => Handled(v)' = Handled(v)
      BY <2>2 DEF Handled
    <3>2. pc[w] = "idle" /\ pc'[w] = "lock" => Handled(w)' = Handled(w)
      BY DEF Handled
    <3>3. pc[w] = "await" /\ pc'[w] \in {"await", "returned", "failed"} => Handled(w)' = Handled(w)
      BY DEF Handled
    <3>. QED
      BY <2>2, <2>3, <3>1, <3>2, <3>3
  <2>. QED
    BY <1>2, <2>1, <2>4
<1>4. ASSUME NEW w \in Calls, Acquire(w) PROVE WaitersHoldKeys'
  <2>1. UNCHANGED <<waiters, next>> /\ next[w] = 1 /\ pc[w] = "lock" /\ pc'[w] = "push"
        /\ \A v \in Calls : v # w => pc'[v] = pc[v]
    BY <1>0, <1>4 DEF Acquire, TypeOK, NotBegun
  <2>2. 1 .. next[w] - 1 = {}
    BY <2>1
  <2>3. Handled(w)' = {} /\ Handled(w) = {}
    <3>1. Handled(w) = {}
      BY <2>1 DEF Handled
    <3>2. Handled(w)' = {Wanted[w][i] : i \in 1 .. next[w] - 1}
      BY <2>1 DEF Handled
    <3>. QED
      BY <2>2, <3>1, <3>2
  <2>4. \A v \in Calls : pc'[v] # "abandoned" => pc[v] # "abandoned" /\ Handled(v)' = Handled(v)
    <3>1. \A v \in Calls : v # w => Handled(v)' = Handled(v)
      BY <2>1 DEF Handled
    <3>. QED
      BY <2>1, <2>3, <3>1
  <2>. QED
    BY <1>2, <2>1, <2>4
<1>5. ASSUME NEW w \in Calls, Release(w) PROVE WaitersHoldKeys'
  <2>1. UNCHANGED waiters /\ pc[w] = "push" /\ pc'[w] = "await"
        /\ \A v \in Calls : v # w => pc'[v] = pc[v] /\ next'[v] = next[v]
    BY <1>0, <1>5 DEF Release, TypeOK
  <2>2. DOMAIN Wanted[w] = 1 .. Len(Wanted[w]) /\ Len(Wanted[w]) \in Nat
    BY LenProperties
  <2>3. 1 .. next[w] - 1 = DOMAIN Wanted[w]
    BY <1>0, <1>5, <2>1, <2>2 DEF Release, NotBegun, TypeOK
  <2>4. Handled(w)' = Handled(w)
    BY <2>1, <2>3 DEF Handled
  <2>5. \A v \in Calls : pc'[v] # "abandoned" => pc[v] # "abandoned" /\ Handled(v)' = Handled(v)
    <3>1. \A v \in Calls : v # w => Handled(v)' = Handled(v)
      BY <2>1 DEF Handled
    <3>. QED
      BY <2>1, <2>4, <3>1
  <2>. QED
    BY <1>2, <2>1, <2>5
<1>6. ASSUME UNCHANGED <<waiters, pc, next>> PROVE WaitersHoldKeys'
  <2>1. \A v \in Calls : pc'[v] # "abandoned" => pc[v] # "abandoned" /\ Handled(v)' = Handled(v)
    BY <1>6 DEF Handled
  <2>. QED
    BY <1>2, <1>6, <2>1
<1>7. CASE Flush \/ \E b \in DOMAIN batches : Run(b)
  BY <1>0, <1>6, <1>7, FlushMoves, RunMoves DEF Base, calls
<1>8. CASE UNCHANGED vars
  BY <1>6, <1>8 DEF vars, calls
<1>. QED
  BY <1>1, <1>3, <1>4, <1>5, <1>7, <1>8 DEF Next, Step

\* No step puts a call into a batch spawned before it, or takes such a batch back.
LEMMA StepFresh ==
    Base /\ WaitersOrdered /\ OldSpawned /\ Fresh /\ [Next]_vars => OldSpawned' /\ Fresh'
<1>. SUFFICES ASSUME Base, WaitersOrdered, OldSpawned, Fresh, [Next]_vars
              PROVE  OldSpawned' /\ Fresh'
  OBVIOUS
<1>0. TypeOK /\ NotBegun /\ BatchesGrow
  BY StepGrows DEF Base
<1>1. old' = old => OldSpawned'
  BY <1>0 DEF OldSpawned, BatchesGrow
<1>2. old' = old /\ waiters' = waiters => Fresh'
  BY DEF Fresh, WaitersOf
<1>3. ASSUME NEW w \in Calls, Push(w) PROVE OldSpawned' /\ Fresh'
  <2>1. old' = old
    BY <1>3 DEF Push
  <2>2. PushedBatch \notin old[w]
    <3>1. Len(batches) + 1 \notin DOMAIN batches
      BY <1>0, LenProperties DEF TypeOK
    <3>. QED
      BY <3>1 DEF PushedBatch, OldSpawned
  <2>3. newBatch[w] <=> waiters[w] = <<>>
    BY DEF WaitersOrdered
  <2>4. /\ \A v \in Calls : v # w => waiters'[v] = waiters[v]
        /\ waiters'[w][Len(waiters'[w])].batch = PushedBatch
        /\ \A i \in 1 .. Len(waiters'[w]) - 1 : waiters'[w][i] = waiters[w][i]
        /\ Len(waiters'[w]) \in {Len(waiters[w]), Len(waiters[w]) + 1}
    BY <1>0, <1>3, <2>3, LastBatch, PushWaiters
  <2>5. /\ DOMAIN waiters[w] = 1 .. Len(waiters[w]) /\ Len(waiters[w]) \in Nat
        /\ DOMAIN waiters'[w] = 1 .. Len(waiters'[w]) /\ Len(waiters'[w]) \in Nat
    BY <1>0, <1>3, <2>3, LenProperties, PushWaiters DEF TypeOK
  <2>6. \A i \in DOMAIN waiters'[w] : waiters'[w][i].batch \notin old[w]
    <3>1. ASSUME NEW i \in DOMAIN waiters'[w], i # Len(waiters'[w])
          PROVE  waiters'[w][i].batch \notin old[w]
      <4>1. i \in 1 .. Len(waiters'[w]) - 1 /\ i \in DOMAIN waiters[w]
        BY <2>4, <2>5, <3>1
      <4>. QED
        BY <2>4, <4>1 DEF Fresh, WaitersOf
    <3>. QED
      BY <2>2, <2>4, <3>1
  <2>7. Fresh'
    BY <2>1, <2>4, <2>6 DEF Fresh, WaitersOf
  <2>. QED
    BY <1>1, <2>1, <2>7
<1>4. ASSUME NEW w \in Calls, Begin(w) PROVE OldSpawned' /\ Fresh'
  <2>1. /\ waiters' = waiters /\ batches' = batches /\ cur' = cur /\ waiters[w] = <<>>
        /\ old' = [old EXCEPT ![w] = In(Stages \ {"open"})]
    BY <1>0, <1>4 DEF Begin, NotBegun
  <2>2. \A b \in In(Stages \ {"open"}) : b \in DOMAIN batches /\ b # cur
    BY DEF In, Base, Locked
  <2>3. OldSpawned'
    BY <1>0, <2>1, <2>2 DEF OldSpawned, TypeOK
  <2>4. WaitersOf(w)' = {}
    BY <2>1 DEF WaitersOf
  <2>5. Fresh'
    BY <1>0, <2>1, <2>4 DEF Fresh, WaitersOf, TypeOK
  <2>. QED
    BY <2>3, <2>5
<1>5. ASSUME NEW w \in Calls, Acquire(w) \/ Release(w) \/ Return(w) \/ Abandon(w) \/ Collect(w)
      PROVE  OldSpawned' /\ Fresh'
  BY <1>1, <1>2, <1>5 DEF Acquire, Release, Return, Abandon, Collect
<1>6. CASE Flush \/ (\E b \in DOMAIN batches : Run(b)) \/ UNCHANGED vars
  BY <1>0, <1>1, <1>2, <1>6, FlushMoves, RunMoves DEF Base, calls, vars
<1>. QED
  BY <1>3, <1>4, <1>5, <1>6 DEF Next, Step
-----------------------------------------------------------------------------
(* What has been collected.                                                  *)

\* What a call has collected stays as it was while batches grow.
LEMMA CollectedKept ==
    ASSUME TypeOK, WaitersOrdered, BatchesGrow, NEW v \in Calls, CollectedBy(v),
           pc'[v] = pc[v], next'[v] = next[v], waiters'[v] = waiters[v], results'[v] = results[v]
    PROVE  CollectedBy(v)'
<1>. SUFFICES ASSUME pc[v] \in {"await", "returned", "failed"} PROVE CollectedBy(v)'
  BY DEF CollectedBy
<1>1. /\ DOMAIN waiters[v] = 1 .. Len(waiters[v]) /\ Len(waiters[v]) \in Nat
      /\ next[v] \in Nat \ {0} /\ next[v] <= Len(waiters[v]) + 1
  BY LenProperties DEF TypeOK, CollectedBy
<1>2. ASSUME NEW i \in DOMAIN waiters[v], Over(waiters[v][i])
      PROVE  /\ batches'[waiters[v][i].batch].stage = "cancelled"
             /\ batches'[waiters[v][i].batch].values = batches[waiters[v][i].batch].values
  BY <1>2 DEF WaitersOrdered, BatchesGrow, Over
<1>3. \A i \in 1 .. next[v] - 1 :
          /\ Over(waiters[v][i])' /\ batches[waiters[v][i].batch].values \in Loaded
          /\ batches'[waiters[v][i].batch].values = batches[waiters[v][i].batch].values
  <2>1. \A i \in 1 .. next[v] - 1 : i \in DOMAIN waiters[v]
    BY <1>1
  <2>. QED
    BY <1>2, <2>1 DEF CollectedBy, Over
<1>4. pc[v] = "failed" =>
          /\ next[v] <= Len(waiters[v]) /\ Over(waiters[v][next[v]])'
          /\ batches'[waiters[v][next[v]].batch].values \in {Unset, Failed}
  <2>1. next[v] <= Len(waiters[v]) => next[v] \in DOMAIN waiters[v]
    BY <1>1
  <2>. QED
    BY <1>2, <2>1 DEF CollectedBy, Over
<1>5. UNION {waiters'[v][i].keys
             \intersect batches'[waiters'[v][i].batch].values.found : i \in 1 .. next'[v] - 1}
        = UNION {waiters[v][i].keys
             \intersect batches[waiters[v][i].batch].values.found : i \in 1 .. next[v] - 1}
  BY <1>3
<1>. QED
  <2>1. next'[v] <= Len(waiters'[v]) + 1
    BY <1>1
  <2>2. \A i \in 1 .. next'[v] - 1 :
            Over(waiters[v][i])' /\ batches'[waiters'[v][i].batch].values \in Loaded
    BY <1>3
  <2>3. DOMAIN results'[v] = UNION {waiters'[v][i].keys
             \intersect batches'[waiters'[v][i].batch].values.found : i \in 1 .. next'[v] - 1}
    BY <1>5 DEF CollectedBy
  <2>4. \A k \in DOMAIN results'[v] : \E i \in 1 .. next'[v] - 1 :
            waiters'[v][i].batch = results'[v][k] /\ k \in waiters'[v][i].keys
    BY DEF CollectedBy
  <2>5. pc'[v] = "returned" => next'[v] = Len(waiters'[v]) + 1
    BY DEF CollectedBy
  <2>. QED
    BY <1>3, <1>4, <2>1, <2>2, <2>3, <2>4, <2>5 DEF CollectedBy, Over

\* Collect goes on after a batch that is over and loaded, and fails otherwise.
LEMMA CollectCollected ==
    ASSUME Base, WaitersOrdered, NEW w \in Calls, CollectedBy(w), Collect(w)
    PROVE  CollectedBy(w)'
<1>1. /\ pc[w] = "await" /\ next[w] \in Nat \ {0} /\ next[w] <= Len(waiters[w])
      /\ Over(waiters[w][next[w]]) /\ UNCHANGED <<batches, waiters>>
      /\ DOMAIN waiters[w] = 1 .. Len(waiters[w]) /\ Len(waiters[w]) \in Nat
  BY LenProperties DEF Collect, Over, Base, TypeOK
<1>. DEFINE n == next[w]
            b == waiters[w][n].batch
            got == waiters[w][n].keys \intersect batches[b].values.found
            Found(i) == waiters[w][i].keys \intersect batches[waiters[w][i].batch].values.found
<1>2. CASE batches[b].values \in Loaded
  <2>1. TypeOK /\ next' = [next EXCEPT ![w] = @ + 1] /\ pc' = pc
    BY <1>2, CollectResults DEF Base
  <2>2. results'[w] = [k \in DOMAIN results[w] \union got |-> IF k \in got THEN b ELSE results[w][k]]
    BY <1>2, <2>1, CollectResults
  <2>3. next'[w] = n + 1
    BY <2>1 DEF TypeOK
  <2>4. 1 .. next'[w] - 1 = (1 .. n - 1) \union {n}
    BY <1>1, <2>3
  <2>5. UNION {Found(i) : i \in 1 .. next'[w] - 1} = (UNION {Found(i) : i \in 1 .. n - 1}) \union Found(n)
    BY <2>4
  <2>6. DOMAIN results'[w] = UNION {Found(i) : i \in 1 .. next'[w] - 1}
    <3>1. DOMAIN results'[w] = DOMAIN results[w] \union got
      BY <2>2
    <3>2. DOMAIN results[w] = UNION {Found(i) : i \in 1 .. n - 1}
      BY <1>1 DEF CollectedBy
    <3>. QED
      BY <2>5, <3>1, <3>2
  <2>7. \A i \in 1 .. next'[w] - 1 : Over(waiters[w][i]) /\ batches[waiters[w][i].batch].values \in Loaded
    BY <1>1, <1>2, <2>4 DEF CollectedBy
  <2>8. \A k \in DOMAIN results'[w] : \E i \in 1 .. next'[w] - 1 :
            waiters[w][i].batch = results'[w][k] /\ k \in waiters[w][i].keys
    <3>1. ASSUME NEW k \in got
          PROVE  results'[w][k] = b /\ k \in waiters[w][n].keys
      BY <2>2, <3>1
    <3>2. ASSUME NEW k \in DOMAIN results[w], k \notin got
          PROVE  results'[w][k] = results[w][k] /\ \E i \in 1 .. n - 1 :
                    waiters[w][i].batch = results[w][k] /\ k \in waiters[w][i].keys
      BY <1>1, <2>2, <3>2 DEF CollectedBy
    <3>3. DOMAIN results'[w] = DOMAIN results[w] \union got
      BY <2>2
    <3>4. n \in 1 .. next'[w] - 1 /\ \A i \in 1 .. n - 1 : i \in 1 .. next'[w] - 1
      BY <2>4
    <3>. HIDE DEF n, got
    <3>. QED
      BY <3>1, <3>2, <3>3, <3>4
  <2>9. next'[w] <= Len(waiters[w]) + 1
    BY <1>1, <2>3
  <2>. QED
    <3>1. pc'[w] = "await" /\ UNCHANGED <<batches, waiters>>
      BY <1>1, <2>1
    <3>2. pc'[w] \notin {"returned", "failed"}
      BY <3>1
    <3>3. DOMAIN results'[w] = UNION {waiters'[w][i].keys \intersect
              batches'[waiters'[w][i].batch].values.found : i \in 1 .. next'[w] - 1}
      BY <2>6, <3>1
    <3>. QED
      BY <2>7, <2>8, <2>9, <3>1, <3>2, <3>3 DEF CollectedBy, Over
<1>3. CASE batches[b].values \notin Loaded
  <2>1. pc'[w] = "failed" /\ UNCHANGED <<next, results>>
    BY <1>3 DEF Collect, Succeeded, Base, TypeOK
  <2>2. b \in DOMAIN batches
    BY <1>1 DEF WaitersOrdered
  <2>3. batches[b] \in Batch
    BY <2>2, ElementOfSeq, LenProperties DEF Base, TypeOK
  <2>4. batches[b].values \in {Unset, Failed}
    BY <1>3, <2>3 DEF Batch, Values
  <2>. QED
    BY <1>1, <2>1, <2>4 DEF CollectedBy, Over
<1>. QED
  BY <1>2, <1>3

\* Every step keeps what calls have collected.
LEMMA StepCollected == Base /\ WaitersOrdered /\ Collected /\ [Next]_vars => Collected'
<1>. SUFFICES ASSUME Base, WaitersOrdered, Collected, [Next]_vars PROVE Collected'
  OBVIOUS
<1>0. TypeOK /\ NotBegun /\ BatchesGrow /\ \A v \in Calls : CollectedBy(v)
  BY StepGrows DEF Base, Collected
<1>1. ASSUME NEW w \in Calls, CollectedBy(w)',
             \A v \in Calls : v # w =>
                 /\ pc'[v] = pc[v] /\ next'[v] = next[v]
                 /\ waiters'[v] = waiters[v] /\ results'[v] = results[v]
      PROVE  Collected'
  BY <1>0, <1>1, CollectedKept DEF Collected
<1>2. ASSUME NEW w \in Calls, Push(w) PROVE Collected'
  <2>1. newBatch[w] <=> waiters[w] = <<>>
    BY DEF WaitersOrdered
  <2>2. \A v \in Calls : v # w => waiters'[v] = waiters[v]
    BY <1>0, <1>2, <2>1, PushWaiters
  <2>3. pc'[w] = "push" /\ \A v \in Calls : v # w =>
            pc'[v] = pc[v] /\ next'[v] = next[v] /\ results'[v] = results[v]
    BY <1>0, <1>2 DEF Push, TypeOK
  <2>4. CollectedBy(w)'
    BY <2>3 DEF CollectedBy
  <2>. QED
    BY <1>1, <2>2, <2>3, <2>4
<1>3. ASSUME NEW w \in Calls, Collect(w) PROVE Collected'
  <2>1. CollectedBy(w)'
    BY <1>0, <1>3, CollectCollected
  <2>2. \A v \in Calls : v # w =>
            /\ pc'[v] = pc[v] /\ next'[v] = next[v]
            /\ waiters'[v] = waiters[v] /\ results'[v] = results[v]
    BY <1>0, <1>3 DEF Collect, TypeOK
  <2>. QED
    BY <1>1, <2>1, <2>2
<1>4. ASSUME NEW w \in Calls, Release(w) PROVE Collected'
  <2>1. /\ pc[w] = "push" /\ pc'[w] = "await" /\ next'[w] = 1
        /\ UNCHANGED <<batches, waiters, results>>
        /\ \A v \in Calls : v # w => pc'[v] = pc[v] /\ next'[v] = next[v]
    BY <1>0, <1>4 DEF Release, TypeOK
  <2>2. results[w] = <<>> /\ DOMAIN results[w] = {} /\ 1 .. next'[w] - 1 = {}
        /\ Len(waiters[w]) \in Nat
    BY <1>0, <2>1, LenProperties DEF NotBegun, TypeOK
  <2>3. CollectedBy(w)'
    BY <2>1, <2>2 DEF CollectedBy
  <2>. QED
    BY <1>1, <2>1, <2>3
<1>5. ASSUME NEW w \in Calls, Return(w) PROVE Collected'
  <2>1. /\ pc[w] = "await" /\ pc'[w] = "returned" /\ next[w] > Len(waiters[w])
        /\ UNCHANGED <<batches, waiters, results, next>>
        /\ \A v \in Calls : v # w => pc'[v] = pc[v]
    BY <1>0, <1>5 DEF Return, TypeOK
  <2>2. next[w] \in Nat /\ Len(waiters[w]) \in Nat
    BY <1>0, LenProperties DEF TypeOK
  <2>3. CollectedBy(w)'
    BY <1>0, <2>1, <2>2 DEF CollectedBy, Over
  <2>. QED
    BY <1>1, <2>1, <2>3
<1>6. ASSUME NEW w \in Calls, Begin(w) \/ Acquire(w) \/ Abandon(w) PROVE Collected'
  <2>1. /\ pc'[w] \in {"lock", "push", "abandoned"} /\ UNCHANGED <<waiters, results, next>>
        /\ \A v \in Calls : v # w => pc'[v] = pc[v]
    BY <1>0, <1>6 DEF Begin, Acquire, Abandon, TypeOK
  <2>2. CollectedBy(w)'
    BY <2>1 DEF CollectedBy
  <2>. QED
    BY <1>1, <2>1, <2>2
<1>7. ASSUME UNCHANGED calls PROVE Collected'
  BY <1>0, <1>7, CollectedKept DEF Collected, calls
<1>8. CASE Flush \/ (\E b \in DOMAIN batches : Run(b)) \/ UNCHANGED vars
  BY <1>0, <1>7, <1>8, FlushMoves, RunMoves DEF Base, vars
<1>. QED
  BY <1>2, <1>3, <1>4, <1>5, <1>6, <1>8 DEF Next, Step
-----------------------------------------------------------------------------
\* The invariant holds at first.
LEMMA InitInv == Init => DataLoaderInv
<1>. SUFFICES ASSUME Init PROVE DataLoaderInv
  OBVIOUS
<1>1. \A w \in Calls : waiters[w] = <<>> /\ newBatch[w] /\ pc[w] = "idle" /\ old[w] = {}
  BY DEF Init
<1>2. WaitersOrdered /\ OldSpawned /\ Collected
  BY <1>1 DEF WaitersOrdered, OldSpawned, Collected, CollectedBy
<1>3. \A w \in Calls : WaitersOf(w) = {} /\ Handled(w) = {}
  BY <1>1 DEF WaitersOf, Handled
<1>4. WaitersHoldKeys /\ Fresh
  BY <1>3 DEF WaitersHoldKeys, Fresh
<1>. QED
  BY <1>2, <1>4, InitBase DEF DataLoaderInv

\* The invariant is inductive.
LEMMA StepInv == DataLoaderInv /\ [Next]_vars => DataLoaderInv'
BY StepBase, StepOrdered, StepHolds, StepFresh, StepCollected DEF DataLoaderInv

\* Every reachable state satisfies the invariant.
LEMMA Reachable == Spec => []DataLoaderInv
BY InitInv, StepInv, PTL DEF Spec

(* Types: load_many never looks for a waiter or a batch that is not there.   *)
THEOREM DataLoaderTypes == Spec => []TypeOK
<1>1. DataLoaderInv => TypeOK
  BY DEF DataLoaderInv, Base
<1>. QED
  BY <1>1, Reachable, PTL

(* Every key a call has handled waits in a batch that loads it, once per     *)
(* batch, for any number of calls that share, fill and begin batches.        *)
THEOREM DataLoaderWaitersMatch == Spec => []WaitersMatch
<1>1. ASSUME DataLoaderInv PROVE WaitersMatch
  <2>1. WaitersHoldKeys /\ WaitersOrdered /\ TypeOK
    BY <1>1 DEF DataLoaderInv, Base
  <2>2. ASSUME NEW w \in Calls, NEW i \in DOMAIN waiters[w], NEW j \in DOMAIN waiters[w],
               waiters[w][i].batch = waiters[w][j].batch
        PROVE  i = j
    <3>1. DOMAIN waiters[w] = 1 .. Len(waiters[w]) /\ Len(waiters[w]) \in Nat
      BY <2>1, LenProperties DEF TypeOK
    <3>2. waiters[w][i].batch \in Nat
      BY <2>1, LenProperties DEF WaitersOrdered, TypeOK
    <3>3. i < j => waiters[w][i].batch < waiters[w][j].batch
      BY <2>1, <3>1 DEF WaitersOrdered
    <3>4. j < i => waiters[w][j].batch < waiters[w][i].batch
      BY <2>1, <3>1 DEF WaitersOrdered
    <3>. QED
      BY <2>2, <3>1, <3>2, <3>3, <3>4
  <2>. QED
    BY <2>1, <2>2 DEF WaitersMatch, WaitersHoldKeys
<1>. QED
  BY <1>1, Reachable, PTL

(* No call is served from a batch that had been spawned before the call was  *)
(* made.                                                                     *)
THEOREM DataLoaderFresh == Spec => []Fresh
<1>1. DataLoaderInv => Fresh
  BY DEF DataLoaderInv
<1>. QED
  BY <1>1, Reachable, PTL

(* A call fails only by a batch with one of its keys, and never succeeds     *)
(* when one of them failed.                                                  *)
THEOREM DataLoaderFailsByOwnBatch == Spec => []FailsByOwnBatch
<1>1. ASSUME DataLoaderInv PROVE FailsByOwnBatch
  <2>. SUFFICES ASSUME NEW w \in Calls
                PROVE  LET bad == \E x \in WaitersOf(w) : batches[x.batch].values \in {Unset, Failed}
                       IN  (pc[w] = "failed" => bad) /\ (pc[w] = "returned" => ~bad)
    BY DEF FailsByOwnBatch
  <2>1. CollectedBy(w) /\ TypeOK
    BY <1>1 DEF DataLoaderInv, Base, Collected
  <2>2. /\ DOMAIN waiters[w] = 1 .. Len(waiters[w]) /\ Len(waiters[w]) \in Nat
        /\ next[w] \in Nat \ {0}
    BY <2>1, LenProperties DEF TypeOK
  <2>3. ASSUME pc[w] = "failed"
        PROVE  \E x \in WaitersOf(w) : batches[x.batch].values \in {Unset, Failed}
    BY <2>1, <2>2, <2>3 DEF CollectedBy, WaitersOf
  <2>4. ASSUME pc[w] = "returned", NEW x \in WaitersOf(w)
        PROVE  batches[x.batch].values \notin {Unset, Failed}
    <3>1. PICK i \in DOMAIN waiters[w] : x = waiters[w][i]
      BY DEF WaitersOf
    <3>2. i \in 1 .. next[w] - 1
      BY <2>1, <2>2, <2>4 DEF CollectedBy
    <3>3. batches[x.batch].values \in Loaded
      BY <2>1, <2>4, <3>1, <3>2 DEF CollectedBy
    <3>. QED
      BY <3>3 DEF Loaded, Unset, Failed
  <2>. QED
    BY <2>3, <2>4
<1>. QED
  BY <1>1, Reachable, PTL

(* A call that returns has every wanted key its batches found, no other key, *)
(* and each value from a batch that it waited for with that key.             *)
THEOREM DataLoaderResultExact == Spec => []ResultExact
<1>1. ASSUME DataLoaderInv PROVE ResultExact
  <2>. SUFFICES ASSUME NEW w \in Calls, pc[w] = "returned"
                PROVE  /\ DOMAIN results[w] = UNION {x.keys
                               \intersect batches[x.batch].values.found : x \in WaitersOf(w)}
                       /\ \A k \in DOMAIN results[w] : \E x \in WaitersOf(w) :
                               x.batch = results[w][k] /\ k \in x.keys
    BY DEF ResultExact
  <2>1. CollectedBy(w) /\ TypeOK
    BY <1>1 DEF DataLoaderInv, Base, Collected
  <2>2. /\ DOMAIN waiters[w] = 1 .. Len(waiters[w]) /\ Len(waiters[w]) \in Nat
        /\ next[w] = Len(waiters[w]) + 1
    BY <2>1, LenProperties DEF TypeOK, CollectedBy
  <2>3. 1 .. next[w] - 1 = DOMAIN waiters[w]
    BY <2>2
  <2>4. DOMAIN results[w] = UNION {waiters[w][i].keys
            \intersect batches[waiters[w][i].batch].values.found : i \in DOMAIN waiters[w]}
    BY <2>1, <2>3 DEF CollectedBy
  <2>5. \A k \in DOMAIN results[w] : \E i \in DOMAIN waiters[w] :
            waiters[w][i].batch = results[w][k] /\ k \in waiters[w][i].keys
    BY <2>1, <2>3 DEF CollectedBy
  <2>6. UNION {x.keys \intersect batches[x.batch].values.found : x \in WaitersOf(w)}
          = UNION {waiters[w][i].keys
                \intersect batches[waiters[w][i].batch].values.found : i \in DOMAIN waiters[w]}
    BY DEF WaitersOf
  <2>7. \A k \in DOMAIN results[w] : \E x \in WaitersOf(w) : x.batch = results[w][k] /\ k \in x.keys
    BY <2>5 DEF WaitersOf
  <2>. QED
    BY <2>4, <2>6, <2>7
<1>. QED
  BY <1>1, Reachable, PTL
=============================================================================
