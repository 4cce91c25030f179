------------------------------ MODULE Graceful ------------------------------
(***************************************************************************)
(* What a scuffle-context handler promises its callers, without the        *)
(* counter, the stopped flag and the Notify that implement the promise:    *)
(* contexts are opened on and closed against a handler, cancellation only  *)
(* spreads, and a call to shutdown, done or wait returns only after a      *)
(* moment since it began when the handler had no open context.             *)
(***************************************************************************)
CONSTANTS
    Handlers,    \* handlers, each with its own token and tracker
    Contexts,    \* context values, each opened at most once
    Callers,     \* calls of Handler::{cancel, shutdown, done, wait}
    NoHandler    \* "not attached to any handler"

VARIABLES
    held,        \* held[c]: the handler the open context c is tracked by
    done,        \* the handlers whose token is cancelled
    phase,       \* phase[w]: idle, waiting, returned or abandoned
    request,     \* request[w]: the operation called and its handler
    owed         \* owed[w]: contexts w waits for; once empty it stays so

vars == <<held, done, phase, request, owed>>

OpenAt(n) == {c \in Contexts : held[c] = n}

\* shutdown and done also wait for the token; wait does not, cancel returns at once
NeedsToken(w) == request[w][1] \in {"shutdown", "done"}
NeedsDrain(w) == request[w][1] \in {"shutdown", "done", "wait"}

Init ==
    /\ held = [c \in Contexts |-> NoHandler]
    /\ done = {}
    /\ phase = [w \in Callers |-> "idle"]
    /\ request = [w \in Callers |-> <<"cancel", NoHandler>>]
    /\ owed = [w \in Callers |-> {}]

Open(c, n) ==
    /\ held[c] = NoHandler
    /\ held' = [held EXCEPT ![c] = n]
    /\ done' \in {done, done \union {n}}
    /\ owed' = [w \in Callers |->
                   IF request[w][2] = n /\ owed[w] # {} THEN owed[w] \union {c} ELSE owed[w]]
    /\ UNCHANGED <<phase, request>>

Close(c) ==
    /\ held[c] # NoHandler
    /\ held' = [held EXCEPT ![c] = NoHandler]
    /\ owed' = [w \in Callers |-> owed[w] \ {c}]
    /\ UNCHANGED <<done, phase, request>>

Cancel ==
    /\ done \subseteq done'
    /\ done' \subseteq Handlers
    /\ UNCHANGED <<held, request, owed>>
    /\ \/ UNCHANGED phase
       \/ \E w \in Callers :        \* a plain cancel returns as it cancels
            /\ phase[w] = "waiting" /\ request[w][1] = "cancel"
            /\ phase' = [phase EXCEPT ![w] = "returned"]

Call(w, op, n) ==
    /\ phase[w] = "idle"
    /\ phase' = [phase EXCEPT ![w] = "waiting"]
    /\ request' = [request EXCEPT ![w] = <<op, n>>]
    /\ owed' = [owed EXCEPT ![w] = OpenAt(n)]
    /\ UNCHANGED <<held, done>>

Return(w) ==
    /\ phase[w] = "waiting"
    /\ NeedsDrain(w) /\ owed[w] = {}
    /\ NeedsToken(w) => request[w][2] \in done
    /\ phase' = [phase EXCEPT ![w] = "returned"]
    /\ UNCHANGED <<held, done, request, owed>>

Abandon(w) ==
    /\ phase[w] = "waiting"
    /\ phase' = [phase EXCEPT ![w] = "abandoned"]
    /\ UNCHANGED <<held, done, request, owed>>

Next ==
    \/ \E c \in Contexts, n \in Handlers : Open(c, n)
    \/ \E c \in Contexts : Close(c)
    \/ Cancel
    \/ \E w \in Callers : \/ Return(w) \/ Abandon(w)
                          \/ \E op \in {"cancel", "shutdown", "done", "wait"},
                                n \in Handlers : Call(w, op, n)

Spec == Init /\ [][Next]_vars
=============================================================================
