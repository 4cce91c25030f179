---------------------------- MODULE BatchContract ----------------------------
(***************************************************************************)
(* What a Batcher promises, without its lock, its timer or its current     *)
(* batch: every accepted request is executed in exactly one batch, batches *)
(* are never empty nor larger than the batch size, never more of them run  *)
(* at once than the concurrency allows, and a call returns only when every *)
(* one of its requests has been answered or given up by the executor.      *)
(***************************************************************************)
EXTENDS Integers, FiniteSets

CONSTANTS
    Calls,      \* calls of Batcher::execute_many
    Requests,   \* all requests of all calls, as <<call, position>>
    MaxBatch,   \* largest batch
    MaxRunning  \* most batches at once

VARIABLES
    waiting,    \* requests accepted and not yet with the executor
    running,    \* batches with the executor
    answered,   \* requests the executor has answered
    dropped,    \* requests the executor has finished without answering
    returned    \* calls that have returned

vars == <<waiting, running, answered, dropped, returned>>

Known == waiting \union (UNION running) \union answered \union dropped

Init ==
    /\ waiting = {} /\ running = {}
    /\ answered = {} /\ dropped = {}
    /\ returned = {}

Accept(r) ==
    /\ r \notin Known
    /\ waiting' = waiting \union {r}
    /\ UNCHANGED <<running, answered, dropped, returned>>

Run(S) ==
    /\ S # {} /\ S \subseteq waiting
    /\ Cardinality(S) <= MaxBatch
    /\ Cardinality(running) < MaxRunning
    /\ waiting' = waiting \ S
    /\ running' = running \union {S}
    /\ UNCHANGED <<answered, dropped, returned>>

Answer(r) ==
    /\ r \in UNION running
    /\ answered' = answered \union {r}
    /\ UNCHANGED <<waiting, running, dropped, returned>>

Finish(S) ==
    /\ S \in running
    /\ running' = running \ {S}
    /\ dropped' = dropped \union (S \ answered)
    /\ UNCHANGED <<waiting, answered, returned>>

Return(c) ==
    /\ \A r \in Requests : r[1] = c => r \in answered \union dropped
    /\ returned' = returned \union {c}
    /\ UNCHANGED <<waiting, running, answered, dropped>>

Next ==
    \/ \E r \in Requests : Accept(r) \/ Answer(r)
    \/ \E S \in SUBSET Requests : Run(S) \/ Finish(S)
    \/ \E c \in Calls : Return(c)

Spec == Init /\ [][Next]_vars
=============================================================================
