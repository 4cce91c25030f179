----------------------------- MODULE SignalSvc -----------------------------
(***************************************************************************)
(* crates/signal: the service that waits for a signal (or for its context  *)
(* to be done), drops its context, shuts the global handler down, and      *)
(* forces the shutdown on a second signal or a timeout.                    *)
(*                                                                         *)
(* The global handler is Graceful, the promise that Context implements.    *)
(* signals() is not empty and without repeats: add_signal drops repeats.   *)
(***************************************************************************)
EXTENDS Integers, Sequences, FiniteSets

CONSTANTS
    Services,      \* the other services of the process
    SignalService, \* this service
    Signals,       \* SignalConfig::signals(), in registration order
    Root,          \* the global handler
    NoHandler,
    Waiter         \* the call of Handler::shutdown in block_global_shutdown

VARIABLES
    timeout,    \* is SignalConfig::timeout() Some?
    overridden, \* are hooks of Global or SignalConfig overridden?
    held, done, phase, request, owed,  \* the global handler, as in Graceful
    sig,      \* progress of SignalSvc::run
    pending   \* signals delivered and not yet received (tokio coalesces them)

global == <<held, done, phase, request, owed>>

AllServices == Services \union {SignalService}
Kinds == {Signals[i] : i \in DOMAIN Signals}

Global == INSTANCE Graceful WITH
    Handlers <- {Root}, Contexts <- AllServices, Callers <- {Waiter}

Running   == {"spawned", "listening", "closing", "select", "force"}
SigInit ==
    /\ Global!Init
    /\ sig = "new"
    /\ pending = {}

HookResults == {"ok", "err"}

\* SignalHandler::with_signals, at the first poll of run
Listen ==
    /\ sig = "spawned"
    /\ sig' = "listening"
    /\ UNCHANGED <<global, pending>>

\* a signal from outside; before Listen it never reaches the handler
Raise(k) ==
    /\ sig \in Running \ {"spawned"}
    /\ pending' = pending \union {k}
    /\ UNCHANGED <<global, sig>>

\* SignalHandler::poll_recv takes the pending signal that was registered first
Polled(k) == k \in pending /\ \A i, j \in DOMAIN Signals :
    Signals[i] = k /\ Signals[j] \in pending => i <= j

\* recv().with_context(&ctx): a signal that is ready wins over a done context
Receive ==
    /\ sig = "listening"
    /\ \/ \E k \in Kinds : Polled(k) /\ pending' = pending \ {k}
       \/ pending = {} /\ Root \in done /\ UNCHANGED pending
    /\ sig' = "closing"
    /\ UNCHANGED global

\* slip: ctx is kept until run returns
OnShutdown_KeepsContext ==
    /\ sig = "closing"
    /\ \/ sig' = "select" /\ UNCHANGED global
       \/ sig' = "err" /\ overridden /\ Global!Close(SignalService)
    /\ UNCHANGED pending

\* on_shutdown().await?, then drop(ctx); ctx is dropped when run fails, too
OnShutdown ==
    /\ sig = "closing"
    /\ \/ sig' = "select"
       \/ sig' = "err" /\ overridden
    /\ Global!Close(SignalService)
    /\ UNCHANGED pending
-----------------------------------------------------------------------------
(* the select: branches are polled in any order until one is ready; the      *)
(* futures of the others are dropped before the hook of that branch runs     *)

\* first poll of block_global_shutdown
PollShutdown ==
    /\ sig = "select"
    /\ Global!Call(Waiter, "shutdown", Root)
    /\ UNCHANGED <<sig, pending>>

\* Handler::shutdown cancels the global handler
CancelGlobal ==
    /\ sig = "select" /\ phase[Waiter] = "waiting"
    /\ Root \notin done
    /\ done' = {Root} /\ UNCHANGED phase /\ Global!Cancel
    /\ UNCHANGED <<sig, pending>>

ShutdownReturns ==
    /\ sig = "select"
    /\ Global!Return(Waiter)
    /\ sig' = "ok"
    /\ UNCHANGED pending

DropShutdown ==
    IF phase[Waiter] = "waiting" THEN Global!Abandon(Waiter) ELSE UNCHANGED global

SecondSignal ==
    /\ sig = "select"
    /\ \E k \in Kinds : Polled(k) /\ pending' = pending \ {k}
    /\ sig' = "force"
    /\ DropShutdown

\* the delay may be anything, so the timeout may come at any time
Timeout ==
    /\ sig = "select"
    /\ timeout
    /\ sig' = "force"
    /\ DropShutdown
    /\ UNCHANGED pending

\* slip: the result of the hook is dropped
OnForceShutdown_Ignored ==
    /\ sig = "force"
    /\ sig' = "ok"
    /\ UNCHANGED <<global, pending>>

\* on_force_shutdown fails unless it is overridden
OnForceShutdown ==
    /\ sig = "force"
    /\ sig' \in IF overridden THEN HookResults ELSE {"err"}
    /\ UNCHANGED <<global, pending>>

SigStep ==
    \/ Listen \/ Receive \/ OnShutdown
    \/ PollShutdown \/ CancelGlobal \/ ShutdownReturns
    \/ OnForceShutdown
=============================================================================
