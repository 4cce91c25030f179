----------------------------- MODULE Bootstrap -----------------------------
(***************************************************************************)
(* crates/bootstrap: the main function that main! generates, from pre_init *)
(* to the return of on_exit, with the services it spawns, one of which is  *)
(* SignalSvc.  A service is a task of its own: dropping its JoinHandle     *)
(* detaches it, and only the end of the process stops it.                  *)
(***************************************************************************)
EXTENDS SignalSvc

CONSTANTS
    Order,     \* the services, in the order of the macro's items
    Setups     \* what timeout, overridden and stubborn may be

ASSUME BootstrapAssumption ==
    /\ SignalService \notin Services /\ Root # NoHandler
    /\ Order \in Seq(AllServices)
    /\ Setups \subseteq BOOLEAN \X BOOLEAN \X SUBSET Services
    /\ {Order[i] : i \in DOMAIN Order} = AllServices
    /\ \A i, j \in DOMAIN Order : Order[i] = Order[j] => i = j

VARIABLES
    stubborn,  \* services that may ignore a done context
    pc,        \* progress of main
    item,      \* the macro item main spawns next
    state,     \* state[s]: the task of service s, but for SignalSvc
    remaining, \* services whose handle select_all waits for
    leaving,   \* the service on_service_exit is called for, with its result
    result     \* what the async block of main returned

main == <<pc, item, remaining, leaving, result>>
sigs == <<sig, pending>>
setup == <<timeout, overridden, stubborn>>
vars == <<setup, global, sigs, main, state>>

Nobody == <<SignalService, "none">>

Init ==
    /\ \E x \in Setups : timeout = x[1] /\ overridden = x[2] /\ stubborn = x[3]
    /\ SigInit
    /\ pc = "init" /\ item = 1
    /\ state = [s \in Services |-> "new"]
    /\ remaining = {} /\ leaving = Nobody /\ result = "none"

\* spawned: not polled yet; running; then how the task ended
Outcomes == {"ok", "err", "panic"}
TaskState(s) == IF s = SignalService THEN sig ELSE state[s]
IsOver(s)    == TaskState(s) \in Outcomes

\* main leaves the async block with r; on_exit follows as the global exists
Leave(r) == pc' = "on_exit" /\ result' = r
-----------------------------------------------------------------------------
(* main: before the services *)

\* pre_init, the config and init; an error returns from main without on_exit
InitOk ==
    /\ pc = "init"
    /\ pc' = "spawn"
    /\ UNCHANGED <<global, sigs, state, item, remaining, leaving, result>>

InitFails ==
    /\ pc = "init"
    /\ pc' = "ended" /\ result' = "err"
    /\ UNCHANGED <<global, sigs, state, item, remaining, leaving>>

SetState(s, v) ==
    IF s = SignalService THEN sig' = v /\ UNCHANGED state
                         ELSE state' = [state EXCEPT ![s] = v] /\ UNCHANGED sig

\* spawn_service: enabled() is Ok(true), so the task gets a context and starts
Spawn ==
    /\ pc = "spawn" /\ item <= Len(Order)
    /\ SetState(Order[item], "spawned")
    /\ UNCHANGED done /\ Global!Open(Order[item], Root)
    /\ remaining' = remaining \union {Order[item]}
    /\ item' = item + 1
    /\ UNCHANGED <<pending, pc, leaving, result>>

\* enabled() is Ok(false)
Skip ==
    /\ pc = "spawn" /\ item <= Len(Order)
    /\ SetState(Order[item], "disabled")
    /\ item' = item + 1
    /\ UNCHANGED <<global, pending, pc, remaining, leaving, result>>

\* enabled() is Err, which SignalSvc's never is
EnabledFails ==
    /\ pc = "spawn" /\ item <= Len(Order) /\ Order[item] # SignalService
    /\ Leave("err")
    /\ UNCHANGED <<global, sigs, state, item, remaining, leaving>>

OnServicesStart ==
    /\ pc = "spawn" /\ item > Len(Order)
    /\ \/ pc' = "select" /\ UNCHANGED result
       \/ overridden /\ Leave("err")
    /\ UNCHANGED <<global, sigs, state, item, remaining, leaving>>
-----------------------------------------------------------------------------
(* main: the loop over select_all *)

\* the JoinError of a task that panicked leaves the loop without the hook
Aborts(s) == TaskState(s) = "panic"

Reported(s) == TaskState(s)

\* a handle is ready
Select(s) ==
    /\ pc = "select" /\ s \in remaining /\ IsOver(s)
    /\ remaining' = remaining \ {s}
    /\ IF Aborts(s)
       THEN Leave("err") /\ UNCHANGED leaving
       ELSE pc' = "exit hook" /\ leaving' = <<s, Reported(s)>> /\ UNCHANGED result
    /\ UNCHANGED <<global, sigs, state, item>>

\* on_service_exit returns the result of the service unless it is overridden
HookReturns == IF overridden THEN HookResults ELSE {leaving[2]}

\* slip: the loop is left as soon as a service is over
OnServiceExit_LeavesLoop ==
    /\ pc = "exit hook"
    /\ \E r \in HookReturns : Leave(r) /\ UNCHANGED leaving
    /\ UNCHANGED <<global, sigs, state, item, remaining>>

OnServiceExit ==
    /\ pc = "exit hook"
    /\ \E r \in HookReturns :
          IF r = "ok"
          THEN pc' = "select" /\ leaving' = Nobody /\ UNCHANGED result
          ELSE Leave("err") /\ UNCHANGED leaving
    /\ UNCHANGED <<global, sigs, state, item, remaining>>

AllReported ==
    /\ pc = "select" /\ remaining = {}
    /\ Leave("ok")
    /\ UNCHANGED <<global, sigs, state, item, remaining, leaving>>

\* on_exit returns, main returns, the process ends with every task in it
OnExit ==
    /\ pc = "on_exit"
    /\ pc' = "ended"
    /\ UNCHANGED <<global, sigs, state, item, remaining, leaving, result>>

Main ==
    /\ \/ InitOk \/ InitFails \/ Spawn \/ Skip \/ EnabledFails
       \/ OnServicesStart \/ OnServiceExit \/ AllReported \/ OnExit
       \/ \E s \in AllServices : Select(s)
    /\ UNCHANGED setup
-----------------------------------------------------------------------------
(* services *)

StartTask(s) ==
    /\ pc # "ended" /\ state[s] = "spawned"
    /\ state' = [state EXCEPT ![s] = "running"]
    /\ UNCHANGED <<setup, global, sigs, main>>

\* run returns or panics; its context goes with its future
EndTask(s) ==
    /\ pc # "ended" /\ state[s] = "running"
    /\ \E o \in Outcomes : state' = [state EXCEPT ![s] = o]
    /\ Global!Close(s)
    /\ UNCHANGED <<setup, sigs, main>>

\* the best practice: a service returns once its context is done
StopTask(s) == Root \in done /\ EndTask(s)

Signal == pc # "ended" /\ SigStep /\ UNCHANGED <<setup, main, state>>
Forced == pc # "ended" /\ (SecondSignal \/ Timeout) /\ UNCHANGED <<setup, main, state>>
RaiseSignal(k) == pc # "ended" /\ Raise(k) /\ UNCHANGED <<setup, main, state>>

Next ==
    \/ Main \/ Signal \/ Forced
    \/ \E k \in Kinds : RaiseSignal(k)
    \/ \E s \in Services : StartTask(s) \/ EndTask(s)

Spec == Init /\ [][Next]_vars

\* hooks return; tasks are scheduled; services follow the best practice but for
\* the stubborn ones; a timeout that is set elapses; a signal is received
Fairness ==
    /\ WF_vars(Main) /\ WF_vars(Signal) /\ WF_vars(Forced)
    /\ \A s \in Services :
          WF_vars(StartTask(s)) /\ WF_vars(s \notin stubborn /\ StopTask(s))

FairSpec == Spec /\ Fairness
-----------------------------------------------------------------------------
(* on_exit gets Ok only after every service that was spawned is over and has *)
(* given up its context; with the default hooks, only if none failed.        *)
OkMeansOver ==
    pc = "on_exit" /\ result = "ok" =>
        \A s \in AllServices :
            /\ held[s] = NoHandler /\ TaskState(s) \in {"disabled"} \union Outcomes
            /\ ~overridden => TaskState(s) \notin {"err", "panic"}

(* With the default hooks, a signal that reached the service ends the        *)
(* process, whenever it came, if the services follow their context.          *)
SignalEnds == pending # {} /\ ~overridden /\ stubborn = {} ~> pc = "ended"

(* With the default hooks and a timeout, a signal that comes after startup   *)
(* ends the process whatever the services do.  (One that comes during startup *)
(* may not: shutdown can return before a service that never stops has been   *)
(* spawned.)                                                                 *)
SignalForcesEnd ==
    (/\ ~overridden /\ timeout
     /\ pc \in {"select", "exit hook"} /\ sig = "listening" /\ pending # {})
        ~> pc = "ended"
=============================================================================
