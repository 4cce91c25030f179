------------------------------ MODULE Context ------------------------------
(***************************************************************************)
(* crates/context: the Handler / Context pair that every long running part *)
(* of scuffle uses for cancellation and graceful shutdown.                 *)
(*                                                                         *)
(* A handler n owns a cancellation token and a ContextTracker: a stopped   *)
(* flag, a count of the live contexts and a tokio Notify.  Contexts are    *)
(* created, cloned, split into children and dropped by any thread; calls   *)
(* of cancel, shutdown, done and wait run concurrently with them, one      *)
(* atomic operation of the code at a time.                                 *)
(*                                                                         *)
(* Handler::new_child is context() followed by Context::new_child and the  *)
(* drop of the temporary context: those three actions, interleaved.        *)
(***************************************************************************)
EXTENDS Integers, FiniteSets

CONSTANTS
    Handlers,           \* handler identities (a token and a tracker each)
    Contexts,           \* context values; each is created once and dropped once
    Callers,            \* calls of Handler::{cancel, shutdown, done, wait}
    NoHandler,          \* "not attached to a handler"
    MaxClones,          \* bound on the clones of one Handler
    RelaxedReorder,     \* may a drop load `stopped` before its own decrement is visible?
    ReuseWhileDropping  \* may Handler::context run while the last drop is half done?

ASSUME ContextAssumption ==
    /\ IsFiniteSet(Contexts)
    /\ NoHandler \notin Handlers
    /\ MaxClones \in Nat \ {0}
    /\ RelaxedReorder \in BOOLEAN
    /\ ReuseWhileDropping \in BOOLEAN

VARIABLES
    made,       \* handlers constructed so far
    handles,    \* handles[n]: live Handler clones sharing one TokenDropGuard
    above,      \* above[n]: the tokens n's token descends from
    cancelled,  \* handlers whose token is cancelled
    stopped,    \* handlers whose tracker is marked stopped
    active,     \* active[n]: ContextTrackerInner::active_count
    cstate,     \* cstate[c]: progress of context c from creation to the end of its drop
    cnode,      \* cnode[c]: the handler whose tracker counts c
    pc,         \* pc[w]: where call w is
    op,         \* op[w]: the Handler method called
    at,         \* at[w]: the handler it is called on
    notified,   \* calls whose Notified future has been completed
    owed        \* history: contexts counted, without a gap, since call w began

tree  == <<made, handles, above, cancelled>>
ctxs  == <<active, cstate, cnode>>
calls == <<pc, op, at>>
vars  == <<tree, stopped, ctxs, calls, notified, owed>>

Ops    == {"cancel", "shutdown", "done", "wait"}
Ended  == {"returned", "abandoned"}
Phases == {"idle", "stop", "cancel", "token", "arm", "check", "await", "parked"}
            \union Ended

\* where each Handler method starts
Entry == [cancel |-> "stop", shutdown |-> "stop", done |-> "token", wait |-> "arm"]

\* contexts that still contribute to active[n]
Counted(n) == {c \in Contexts : cnode[c] = n /\ cstate[c] \in {"live", "hoisted"}}

\* n's last context has been subtracted, the notification is still to come
LastDropPending(n) == \E c \in Contexts : cnode[c] = n /\ cstate[c] = "dropping"

\* CancellationToken::cancel reaches the token and every token below it
Subtree(n) == {m \in Handlers : m = n \/ n \in above[m]}

Init ==
    /\ made = {}
    /\ handles = [n \in Handlers |-> 0]
    /\ above = [n \in Handlers |-> {}]
    /\ cancelled = {}
    /\ stopped = {}
    /\ active = [n \in Handlers |-> 0]
    /\ cstate = [c \in Contexts |-> "new"]
    /\ cnode = [c \in Contexts |-> NoHandler]
    /\ pc = [w \in Callers |-> "idle"]
    /\ op = [w \in Callers |-> "cancel"]
    /\ at = [w \in Callers |-> NoHandler]
    /\ notified = {}
    /\ owed = [w \in Callers |-> {}]
-----------------------------------------------------------------------------
(* Handlers and contexts come and go. *)

\* the handler of w has had contexts all the time since the call: wait for c as well
Owe(c, n) ==
    owed' = [w \in Callers |-> IF at[w] = n /\ owed[w] # {} THEN owed[w] \union {c} ELSE owed[w]]

\* ContextTrackerInner::child for a context c nobody has used yet
Track(c, n) ==
    /\ cstate[c] = "new"
    /\ cstate' = [cstate EXCEPT ![c] = "live"]
    /\ cnode' = [cnode EXCEPT ![c] = n]
    /\ active' = [active EXCEPT ![n] = @ + 1]
    /\ Owe(c, n)

NewHandler(n) ==
    /\ n \notin made
    /\ made' = made \union {n}
    /\ handles' = [handles EXCEPT ![n] = 1]
    /\ UNCHANGED <<above, cancelled, stopped, ctxs, calls, notified, owed>>

HandlerContext(n, c) ==
    /\ handles[n] > 0
    /\ ReuseWhileDropping \/ ~LastDropPending(n)
    /\ Track(c, n)
    /\ UNCHANGED <<tree, stopped, calls, notified>>

\* slip: a derived Clone copies the tracker without counting the copy
CloneContext_Derived(b, c) ==
    /\ cstate[b] = "live" /\ cstate[c] = "new"
    /\ cstate' = [cstate EXCEPT ![c] = "live"]
    /\ cnode' = [cnode EXCEPT ![c] = cnode[b]]
    /\ Owe(c, cnode[b])
    /\ UNCHANGED <<tree, stopped, active, calls, notified>>

CloneContext(b, c) ==
    /\ cstate[b] = "live"
    /\ Track(c, cnode[b])
    /\ UNCHANGED <<tree, stopped, calls, notified>>

\* a child handler n, born cancelled when its parent's token is
NewChild(b, c, n) ==
    /\ cstate[b] = "live"
    /\ n \notin made
    /\ made' = made \union {n}
    /\ handles' = [handles EXCEPT ![n] = 1]
    /\ above' = [above EXCEPT ![n] = above[cnode[b]] \union {cnode[b]}]
    /\ cancelled' = cancelled \union {m \in {n} : cnode[b] \in cancelled}
    /\ Track(c, n)
    /\ UNCHANGED <<stopped, calls, notified>>

CloneHandler(n) ==
    /\ handles[n] \in 1 .. MaxClones - 1
    /\ handles' = [handles EXCEPT ![n] = @ + 1]
    /\ UNCHANGED <<made, above, cancelled, stopped, ctxs, calls, notified, owed>>

\* slip: without TokenDropGuard nobody cancels the token
DropHandler_NoGuard(n) ==
    /\ handles[n] > 0
    /\ handles[n] = 1 => \A w \in Callers : at[w] = n => pc[w] \in Ended
    /\ handles' = [handles EXCEPT ![n] = @ - 1]
    /\ UNCHANGED <<made, above, cancelled, stopped, ctxs, calls, notified, owed>>

\* TokenDropGuard: the last Handler clone cancels the token; the tracker is not
\* stopped.  A call in progress borrows one of the clones.
DropHandler(n) ==
    /\ handles[n] > 0
    /\ handles[n] = 1 => \A w \in Callers : at[w] = n => pc[w] \in Ended
    /\ handles' = [handles EXCEPT ![n] = @ - 1]
    /\ cancelled' = IF handles[n] = 1 THEN cancelled \union Subtree(n) ELSE cancelled
    /\ UNCHANGED <<made, above, stopped, ctxs, calls, notified, owed>>

\* The load of `stopped` in the drop is Relaxed and may be satisfied before the
\* Relaxed fetch_sub; only an early "not stopped" differs from a late load.
HoistLoad(c) ==
    /\ RelaxedReorder
    /\ cstate[c] = "live"
    /\ cnode[c] \notin stopped
    /\ cstate' = [cstate EXCEPT ![c] = "hoisted"]
    /\ UNCHANGED <<tree, stopped, active, cnode, calls, notified, owed>>

\* ContextTracker::drop up to fetch_sub: only the last one goes on to look at `stopped`
DropContext(c) ==
    /\ cstate[c] \in {"live", "hoisted"}
    /\ active' = [active EXCEPT ![cnode[c]] = @ - 1]
    /\ owed' = [w \in Callers |-> owed[w] \ {c}]
    /\ \/ /\ active[cnode[c]] = 1 /\ cstate[c] = "live"
          /\ cstate' = [cstate EXCEPT ![c] = "dropping"]
          /\ UNCHANGED cnode
       \/ /\ active[cnode[c]] # 1 \/ cstate[c] = "hoisted"
          /\ cstate' = [cstate EXCEPT ![c] = "dropped"]
          /\ cnode' = [cnode EXCEPT ![c] = NoHandler]
    /\ UNCHANGED <<tree, stopped, calls, notified>>

\* slip: notified() created after the count is read, so only parked calls hear it
FinishDrop_LateArm(c) ==
    /\ cstate[c] = "dropping"
    /\ notified' = notified \union
         {w \in Callers : cnode[c] \in stopped /\ at[w] = cnode[c] /\ pc[w] = "parked"}
    /\ cstate' = [cstate EXCEPT ![c] = "dropped"]
    /\ cnode' = [cnode EXCEPT ![c] = NoHandler]
    /\ UNCHANGED <<tree, stopped, active, calls, owed>>

\* ... and the rest: load `stopped` and notify_waiters.  `stopped` never falls
\* back, so a load just before the notification gives the same outcome.
FinishDrop(c) ==
    /\ cstate[c] = "dropping"
    /\ notified' = notified \union
         {w \in Callers : /\ cnode[c] \in stopped
                          /\ at[w] = cnode[c] /\ pc[w] \in {"check", "await", "parked"}}
    /\ cstate' = [cstate EXCEPT ![c] = "dropped"]
    /\ cnode' = [cnode EXCEPT ![c] = NoHandler]
    /\ UNCHANGED <<tree, stopped, active, calls, owed>>
-----------------------------------------------------------------------------
(* Calls of Handler::cancel, shutdown, done and wait. *)

Goto(w, label) == pc' = [pc EXCEPT ![w] = label]

Call(w, o, n) ==
    /\ pc[w] = "idle"
    /\ handles[n] > 0
    /\ Goto(w, Entry[o])
    /\ op' = [op EXCEPT ![w] = o]
    /\ at' = [at EXCEPT ![w] = n]
    /\ owed' = [owed EXCEPT ![w] = Counted(n)]
    /\ UNCHANGED <<tree, stopped, ctxs, notified>>

\* slip: cancel forgets to stop the tracker
StopTracker_Forgotten(w) ==
    /\ pc[w] = "stop"
    /\ Goto(w, "cancel")
    /\ UNCHANGED <<tree, stopped, ctxs, op, at, notified, owed>>

StopTracker(w) ==
    /\ pc[w] = "stop"
    /\ Goto(w, "cancel")
    /\ stopped' = stopped \union {at[w]}
    /\ UNCHANGED <<tree, ctxs, op, at, notified, owed>>

CancelToken(w) ==
    /\ pc[w] = "cancel"
    /\ Goto(w, IF op[w] = "cancel" THEN "returned" ELSE "token")
    /\ cancelled' = cancelled \union Subtree(at[w])
    /\ UNCHANGED <<made, handles, above, stopped, ctxs, op, at, notified, owed>>

\* slip: done goes straight to wait
TokenCancelled_Unawaited(w) ==
    /\ pc[w] = "token"
    /\ Goto(w, "arm")
    /\ UNCHANGED <<tree, stopped, ctxs, op, at, notified, owed>>

TokenCancelled(w) ==
    /\ pc[w] = "token"
    /\ at[w] \in cancelled
    /\ Goto(w, "arm")
    /\ UNCHANGED <<tree, stopped, ctxs, op, at, notified, owed>>

\* Notify::notified: from here on notify_waiters completes the future
ArmNotified(w) ==
    /\ pc[w] = "arm"
    /\ Goto(w, "check")
    /\ UNCHANGED <<tree, stopped, ctxs, op, at, notified, owed>>

\* slip: an off-by-one in the test for live contexts
CheckCount_OffByOne(w) ==
    /\ pc[w] = "check"
    /\ Goto(w, IF active[at[w]] <= 1 THEN "returned" ELSE "await")
    /\ UNCHANGED <<tree, stopped, ctxs, op, at, notified, owed>>

CheckCount(w) ==
    /\ pc[w] = "check"
    /\ Goto(w, IF active[at[w]] = 0 THEN "returned" ELSE "await")
    /\ UNCHANGED <<tree, stopped, ctxs, op, at, notified, owed>>

\* the first poll of the Notified future
Park(w) ==
    /\ pc[w] = "await"
    /\ Goto(w, "parked")
    /\ UNCHANGED <<tree, stopped, ctxs, op, at, notified, owed>>

Wake(w) ==
    /\ pc[w] = "parked"
    /\ w \in notified
    /\ Goto(w, "returned")
    /\ UNCHANGED <<tree, stopped, ctxs, op, at, notified, owed>>

\* the caller drops the future at one of its await points (a timeout, a select)
Abandon(w) ==
    /\ pc[w] \in {"token", "parked"}
    /\ Goto(w, "abandoned")
    /\ UNCHANGED <<tree, stopped, ctxs, op, at, notified, owed>>

Progress(w) ==
    \/ StopTracker(w) \/ CancelToken(w) \/ TokenCancelled(w)
    \/ ArmNotified(w) \/ CheckCount(w)  \/ Park(w) \/ Wake(w)

Next ==
    \/ \E n \in Handlers : NewHandler(n) \/ CloneHandler(n) \/ DropHandler(n)
    \/ \E n \in Handlers, c \in Contexts : HandlerContext(n, c)
    \/ \E b, c \in Contexts : CloneContext(b, c)
    \/ \E b, c \in Contexts, n \in Handlers : NewChild(b, c, n)
    \/ \E c \in Contexts : HoistLoad(c) \/ DropContext(c) \/ FinishDrop(c)
    \/ \E w \in Callers, o \in Ops, n \in Handlers : Call(w, o, n)
    \/ \E w \in Callers : Progress(w) \/ Abandon(w)

Spec == Init /\ [][Next]_vars

\* Threads run on: calls and half-done drops make progress, and the holder of a
\* context whose token is cancelled lets go of it (what with_context is for).
Fairness ==
    /\ \A w \in Callers : WF_vars(Progress(w))
    /\ \A c \in Contexts : /\ WF_vars(FinishDrop(c))
                           /\ WF_vars(cnode[c] \in cancelled /\ DropContext(c))

FairSpec == Spec /\ Fairness
-----------------------------------------------------------------------------
TypeOK ==
    /\ made \subseteq Handlers
    /\ handles \in [Handlers -> 0 .. MaxClones]
    /\ above \in [Handlers -> SUBSET Handlers]
    /\ cancelled \subseteq Handlers
    /\ stopped \subseteq Handlers
    /\ active \in [Handlers -> Nat]
    /\ cstate \in [Contexts -> {"new", "live", "hoisted", "dropping", "dropped"}]
    /\ cnode \in [Contexts -> Handlers \union {NoHandler}]
    /\ pc \in [Callers -> Phases]
    /\ op \in [Callers -> Ops]
    /\ at \in [Callers -> Handlers \union {NoHandler}]
    /\ notified \subseteq Callers
    /\ owed \in [Callers -> SUBSET Contexts]

(* active_count is the number of contexts alive: every path that hands one   *)
(* out counts it, every drop uncounts it once, on the tracker it was counted *)
(* on.                                                                       *)
Accounting ==
    /\ \A n \in Handlers : active[n] = Cardinality(Counted(n))
    /\ \A c \in Contexts :
          IF cstate[c] \in {"new", "dropped"} THEN cnode[c] = NoHandler
                                             ELSE cnode[c] \in made
    /\ \A w \in Callers : IF pc[w] = "idle" THEN at[w] = NoHandler ELSE at[w] \in made
    /\ \A n \in Handlers : handles[n] > 0 => n \in made

(* A call of shutdown that has seen a context alive is never left without    *)
(* anybody to wake it: once the count is back to zero, either its            *)
(* notification has been sent, even if the future is yet to be polled, or    *)
(* the thread that dropped the last context is still on its way to send it.  *)
NoLostWakeup ==
    \A w \in Callers :
        (pc[w] \in {"await", "parked"} /\ op[w] = "shutdown" /\ active[at[w]] = 0)
            => w \in notified \/ LastDropPending(at[w])

(* When shutdown, done or wait returns, there has been a moment since the    *)
(* call began when the handler had no context alive: those that were alive   *)
(* when it began are gone, and so are those made while they were.            *)
GracefulReturn ==
    \A w \in Callers :
        (pc[w] = "returned" /\ op[w] # "cancel") => owed[w] = {}

(* Cancellation reaches the whole subtree, children created concurrently or  *)
(* after it included, and a context that has outlived every clone of its     *)
(* handler is cancelled: nobody is left who could cancel it.                 *)
NoUnreachableContext ==
    \A n \in Handlers :
        /\ n \in made /\ handles[n] = 0 => n \in cancelled
        /\ \A m \in Handlers : m \in above[n] /\ m \in cancelled => n \in cancelled

(* What the calls promise: see Graceful. *)
Promise == INSTANCE Graceful WITH
    held    <- [c \in Contexts |->
                  IF cstate[c] \in {"live", "hoisted"} THEN cnode[c] ELSE NoHandler],
    done    <- cancelled,
    phase   <- [w \in Callers |->
                  IF pc[w] \in {"idle"} \union Ended THEN pc[w] ELSE "waiting"],
    request <- [w \in Callers |-> <<op[w], at[w]>>]

(* Every behaviour of the handler's counter, flag and Notify is one the      *)
(* promise of module Graceful allows.                                        *)
KeepsPromise == Promise!Spec

(* Handler::shutdown returns once the contexts holders let go of are gone.   *)
ShutdownReturns ==
    \A w \in Callers : (op[w] = "shutdown" /\ pc[w] = "stop") ~> pc[w] \in Ended

\* does the handler w is called on have contexts?
Busy(w) == at[w] \in Handlers /\ active[at[w]] > 0

\* a call of o that is parked on a handler without contexts
Parked(w, o) == op[w] = o /\ pc[w] = "parked" /\ ~Busy(w)

(* Handler::done on a root handler (one no other token is above) returns     *)
(* once the handler is cancelled and its contexts are gone.                  *)
RootDoneReturns ==
    \A w \in Callers : (Parked(w, "done") /\ at[w] \in Handlers /\ above[at[w]] = {})
                          ~> (pc[w] \in Ended \/ Busy(w))
=============================================================================
