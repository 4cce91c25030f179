--------------------------- MODULE ContextProofs ---------------------------
(***************************************************************************)
(* Theorems about Context, for any handlers, contexts and calls.           *)
(***************************************************************************)
EXTENDS Context, FiniteSetTheorems, TLAPS

USE ContextAssumption
-----------------------------------------------------------------------------
(* Types and accounting.  active \in Nat is not inductive by itself: that    *)
(* fetch_sub never underflows needs the count to be exact.                   *)

TypedAccounting == TypeOK /\ Accounting

\* Counted(n) is finite and its cardinality a natural number.
LEMMA CountedFinite ==
    ASSUME NEW n
    PROVE  IsFiniteSet(Counted(n)) /\ Cardinality(Counted(n)) \in Nat
BY FS_Subset, FS_CardinalityType DEF Counted

\* ContextTrackerInner::child adds one to the tracker it is called on.
LEMMA TrackAccounts ==
    ASSUME TypedAccounting, NEW c \in Contexts, NEW n \in Handlers, Track(c, n)
    PROVE  /\ \A m \in Handlers : active'[m] = Cardinality(Counted(m)')
           /\ active' \in [Handlers -> Nat]
<1>1. c \notin Counted(n)
  BY DEF Track, Counted
<1>2. Counted(n)' = Counted(n) \union {c}
  BY DEF Track, Counted, TypedAccounting, TypeOK
<1>3. \A m \in Handlers \ {n} : Counted(m)' = Counted(m)
  BY DEF Track, Counted, TypedAccounting, TypeOK, Accounting
<1>4. Cardinality(Counted(n)') = Cardinality(Counted(n)) + 1
  BY <1>1, <1>2, CountedFinite, FS_AddElement
<1>. QED
  BY <1>3, <1>4 DEF Track, TypedAccounting, TypeOK, Accounting

\* A new context is owed only to calls that are owed contexts of its handler.
LEMMA OweTypes ==
    ASSUME TypedAccounting, NEW c \in Contexts, NEW n, Owe(c, n)
    PROVE  /\ owed' \in [Callers -> SUBSET Contexts]
           /\ \A w \in Callers : /\ owed'[w] \subseteq owed[w] \union {c}
                                 /\ owed[w] = {} \/ at[w] # n => owed'[w] = owed[w]
BY DEF Owe, TypedAccounting, TypeOK

\* ContextTracker::drop takes one off the tracker of c, which counted it.
LEMMA DropAccounts ==
    ASSUME TypedAccounting, NEW c \in Contexts, DropContext(c)
    PROVE  /\ \A m \in Handlers : active'[m] = Cardinality(Counted(m)')
           /\ active' \in [Handlers -> Nat]
<1>1. PICK n \in Handlers : n = cnode[c] /\ c \in Counted(n)
  BY DEF DropContext, Counted, TypedAccounting, TypeOK, Accounting
<1>2. Counted(n)' = Counted(n) \ {c}
  BY <1>1 DEF DropContext, Counted, TypedAccounting, TypeOK, Accounting
<1>3. ASSUME NEW m \in Handlers \ {n} PROVE Counted(m)' = Counted(m)
  <2>1. \A d \in Contexts \ {c} : cstate'[d] = cstate[d] /\ cnode'[d] = cnode[d]
    BY DEF DropContext, TypedAccounting, TypeOK
  <2>2. cnode'[c] # m
    BY <1>1 DEF DropContext, TypedAccounting, TypeOK
  <2>. QED
    BY <1>1, <2>1, <2>2 DEF Counted
<1>4. Cardinality(Counted(n)') = Cardinality(Counted(n)) - 1
  BY <1>1, <1>2, CountedFinite, FS_RemoveElement
<1>5. Cardinality(Counted(n)') \in Nat
  BY <1>1, <1>2, CountedFinite, FS_RemoveElement, FS_CardinalityType
<1>. QED
  BY <1>1, <1>3, <1>4, <1>5 DEF DropContext, TypedAccounting, TypeOK, Accounting

\* A step that changes neither contexts nor trackers leaves the accounts alone.
LEMMA SameAccounts ==
    ASSUME TypedAccounting, UNCHANGED <<active, cnode>>,
           \A c \in Contexts : cstate'[c] \in {"live", "hoisted"} <=>
                               cstate[c] \in {"live", "hoisted"}
    PROVE  \A m \in Handlers : active'[m] = Cardinality(Counted(m)')
<1>1. \A m \in Handlers : Counted(m)' = Counted(m)
  BY DEF Counted
<1>. QED
  BY <1>1 DEF TypedAccounting, Accounting

LEMMA InitTypedAccounting == Init => TypedAccounting
<1>. SUFFICES ASSUME Init PROVE TypedAccounting
  OBVIOUS
<1>1. \A n \in Handlers : Counted(n) = {}
  BY DEF Init, Counted
<1>2. Accounting
  BY <1>1, FS_EmptySet DEF Init, Accounting
<1>3. TypeOK
  BY DEF Init, TypeOK, Ops, Phases, Ended
<1>. QED
  BY <1>2, <1>3 DEF TypedAccounting

LEMMA StepTypedAccounting == TypedAccounting /\ [Next]_vars => TypedAccounting'
<1>. SUFFICES ASSUME TypedAccounting, [Next]_vars PROVE TypedAccounting'
  OBVIOUS
<1>. USE DEF TypedAccounting
<1>1. ASSUME NEW n \in Handlers, NewHandler(n) \/ CloneHandler(n) \/ DropHandler(n)
      PROVE  TypedAccounting'
  <2>1. TypeOK'
    BY <1>1 DEF TypeOK, NewHandler, CloneHandler, DropHandler, ctxs, calls, Subtree
  <2>2. UNCHANGED <<ctxs, calls>>
    BY <1>1 DEF NewHandler, CloneHandler, DropHandler
  <2>3. made \subseteq made' /\ \A m \in Handlers : handles'[m] > 0 => m \in made'
    BY <1>1 DEF NewHandler, CloneHandler, DropHandler, TypeOK, Accounting
  <2>4. Accounting'
    BY <2>2, <2>3, SameAccounts DEF Accounting, ctxs, calls
  <2>. QED
    BY <2>1, <2>4
<1>2. ASSUME NEW n \in Handlers, NEW c \in Contexts, HandlerContext(n, c)
      PROVE  TypedAccounting'
  <2>1. TypeOK'
    BY <1>2, TrackAccounts, OweTypes DEF TypeOK, HandlerContext, Track, tree, calls
  <2>2. Accounting'
    BY <1>2, TrackAccounts DEF Accounting, HandlerContext, Track, tree, calls, TypeOK
  <2>. QED
    BY <2>1, <2>2
<1>3. ASSUME NEW b \in Contexts, NEW c \in Contexts, CloneContext(b, c)
      PROVE  TypedAccounting'
  <2>1. cnode[b] \in made /\ cnode[b] \in Handlers
    BY <1>3 DEF CloneContext, Accounting, TypeOK
  <2>2. TypeOK'
    BY <1>3, <2>1, TrackAccounts, OweTypes DEF TypeOK, CloneContext, Track, tree, calls
  <2>3. Accounting'
    BY <1>3, <2>1, TrackAccounts DEF Accounting, CloneContext, Track, tree, calls, TypeOK
  <2>. QED
    BY <2>2, <2>3
<1>4. ASSUME NEW b \in Contexts, NEW c \in Contexts, NEW n \in Handlers, NewChild(b, c, n)
      PROVE  TypedAccounting'
  <2>1. cnode[b] \in Handlers
    BY <1>4 DEF NewChild, Accounting, TypeOK
  <2>2. TypeOK'
    BY <1>4, <2>1, TrackAccounts, OweTypes DEF TypeOK, NewChild, Track, calls
  <2>3. Accounting'
    BY <1>4, <2>1, TrackAccounts DEF Accounting, NewChild, Track, calls, TypeOK
  <2>. QED
    BY <2>2, <2>3
<1>5. ASSUME NEW c \in Contexts, HoistLoad(c)
      PROVE  TypedAccounting'
  <2>1. TypeOK'
    BY <1>5 DEF TypeOK, HoistLoad, tree, calls
  <2>2. Accounting'
    BY <1>5, SameAccounts DEF Accounting, HoistLoad, tree, calls, TypeOK
  <2>. QED
    BY <2>1, <2>2
<1>6. ASSUME NEW c \in Contexts, DropContext(c)
      PROVE  TypedAccounting'
  <2>1. /\ \A m \in Handlers : active'[m] = Cardinality(Counted(m)')
        /\ active' \in [Handlers -> Nat]
    BY <1>6, DropAccounts
  <2>2. /\ cstate' \in [Contexts -> {"new", "live", "hoisted", "dropping", "dropped"}]
        /\ cnode' \in [Contexts -> Handlers \union {NoHandler}]
        /\ \A d \in Contexts : IF cstate'[d] \in {"new", "dropped"} THEN cnode'[d] = NoHandler
                                                                 ELSE cnode'[d] \in made
    BY <1>6 DEF TypeOK, Accounting, DropContext
  <2>3. owed' \in [Callers -> SUBSET Contexts]
    BY <1>6 DEF TypeOK, DropContext
  <2>4. UNCHANGED <<tree, stopped, calls, notified>>
    BY <1>6 DEF DropContext
  <2>5. TypeOK'
    BY <2>1, <2>2, <2>3, <2>4 DEF TypeOK, tree, calls
  <2>6. Accounting'
    BY <2>1, <2>2, <2>4 DEF Accounting, tree, calls
  <2>. QED
    BY <2>5, <2>6
<1>7. ASSUME NEW c \in Contexts, FinishDrop(c)
      PROVE  TypedAccounting'
  <2>1. TypeOK'
    BY <1>7 DEF TypeOK, FinishDrop, tree, calls
  <2>2. \A m \in Handlers : Counted(m)' = Counted(m)
    BY <1>7 DEF FinishDrop, Counted, TypeOK
  <2>3. Accounting'
    BY <1>7, <2>2 DEF Accounting, FinishDrop, tree, calls, TypeOK
  <2>. QED
    BY <2>1, <2>3
<1>8. ASSUME NEW w \in Callers, NEW o \in Ops, NEW n \in Handlers, Call(w, o, n)
      PROVE  TypedAccounting'
  <2>1. Entry[o] \in Phases /\ Entry[o] # "idle"
    BY DEF Ops, Entry, Phases
  <2>2. Counted(n) \subseteq Contexts
    BY DEF Counted
  <2>3. TypeOK'
    BY <1>8, <2>1, <2>2 DEF TypeOK, Call, Goto, tree, ctxs
  <2>4. Accounting'
    BY <1>8, <2>1, SameAccounts DEF Accounting, Call, Goto, tree, ctxs, TypeOK
  <2>. QED
    BY <2>3, <2>4
<1>9. ASSUME NEW w \in Callers, Progress(w) \/ Abandon(w)
      PROVE  TypedAccounting'
  <2>1. PICK label \in Phases \ {"idle"} : Goto(w, label) /\ pc[w] # "idle"
    BY <1>9 DEF Progress, Abandon, StopTracker, CancelToken, TokenCancelled, ArmNotified,
                CheckCount, Park, Wake, Phases, Ended
  <2>2. UNCHANGED <<made, handles, above, ctxs, op, at, notified, owed>>
    BY <1>9 DEF Progress, Abandon, StopTracker, CancelToken, TokenCancelled, ArmNotified,
                CheckCount, Park, Wake, tree
  <2>3. stopped' \subseteq Handlers /\ cancelled' \subseteq Handlers
    BY <1>9 DEF Progress, Abandon, StopTracker, CancelToken, TokenCancelled, ArmNotified,
                CheckCount, Park, Wake, tree, Accounting, TypeOK, Subtree
  <2>4. TypeOK'
    BY <2>1, <2>2, <2>3 DEF TypeOK, Goto, ctxs
  <2>5. Accounting'
    BY <2>1, <2>2, SameAccounts DEF Accounting, Goto, ctxs, TypeOK
  <2>. QED
    BY <2>4, <2>5
<1>10. CASE UNCHANGED vars
  <2>1. TypeOK'
    BY <1>10 DEF TypeOK, vars, tree, ctxs, calls
  <2>2. Accounting'
    BY <1>10, SameAccounts DEF Accounting, vars, tree, ctxs, calls
  <2>. QED
    BY <2>1, <2>2
<1>. QED
  BY <1>1, <1>2, <1>3, <1>4, <1>5, <1>6, <1>7, <1>8, <1>9, <1>10 DEF Next

(* Types hold in every state: in particular the Relaxed active_count, a usize  *)
(* in the code, never wraps below zero.                                       *)
THEOREM ContextTypes == Spec => []TypeOK
<1>. QED
  BY InitTypedAccounting, StepTypedAccounting, PTL DEF Spec, TypedAccounting

(* active_count is exact at every step, whatever the interleaving of creation,  *)
(* cloning and the halves of drops.                                           *)
THEOREM ContextAccounting == Spec => []Accounting
<1>. QED
  BY InitTypedAccounting, StepTypedAccounting, PTL DEF Spec, TypedAccounting
-----------------------------------------------------------------------------
(* No lost wakeup, where a drop's load of `stopped` cannot overtake its        *)
(* decrement.                                                                 *)

AfterStop == {"cancel", "token", "arm", "check", "await", "parked"}

WakeInv ==
    /\ \A c \in Contexts : cstate[c] # "hoisted"
    /\ \A w \in Callers : op[w] = "shutdown" /\ pc[w] \in AfterStop => at[w] \in stopped
    /\ NoLostWakeup

\* A step that leaves calls, notified and stopped alone, subtracts nothing and
\* keeps every half-done drop cannot lose a wakeup.
LEMMA OpenKeepsWakeInv ==
    ASSUME TypedAccounting, WakeInv, UNCHANGED <<calls, notified, stopped>>,
           \A n \in Handlers : active'[n] = 0 => active[n] = 0,
           \A c \in Contexts : cstate[c] = "dropping" =>
                               cstate'[c] = "dropping" /\ cnode'[c] = cnode[c],
           \A c \in Contexts : cstate'[c] # "hoisted"
    PROVE  WakeInv'
<1>1. ASSUME NEW w \in Callers, pc[w] \in {"await", "parked"}, op[w] = "shutdown", active'[at[w]] = 0
      PROVE  w \in notified \/ LastDropPending(at[w])'
  <2>1. at[w] \in Handlers
    BY <1>1 DEF TypedAccounting, TypeOK, Accounting
  <2>2. w \in notified \/ LastDropPending(at[w])
    BY <1>1, <2>1 DEF WakeInv, NoLostWakeup
  <2>. QED
    BY <2>2 DEF LastDropPending, calls
<1>. QED
  BY <1>1 DEF WakeInv, NoLostWakeup, calls

\* A step of call w alone, seeing a context alive before it waits, keeps the invariant.
LEMMA CallKeepsWakeInv ==
    ASSUME TypedAccounting, WakeInv, NEW w \in Callers, UNCHANGED <<ctxs, notified>>,
           \A v \in Callers \ {w} : pc'[v] = pc[v] /\ op'[v] = op[v] /\ at'[v] = at[v],
           stopped \subseteq stopped',
           op'[w] = "shutdown" /\ pc'[w] \in AfterStop => at'[w] \in stopped',
           pc'[w] \in {"await", "parked"} =>
               active[at'[w]] # 0 \/ (pc[w] = "await" /\ UNCHANGED <<op, at>>)
    PROVE  WakeInv'
<1>1. ASSUME NEW v \in Callers
      PROVE  op'[v] = "shutdown" /\ pc'[v] \in AfterStop => at'[v] \in stopped'
  BY DEF WakeInv
<1>2. ASSUME NEW v \in Callers, pc'[v] \in {"await", "parked"}, op'[v] = "shutdown", active'[at'[v]] = 0
      PROVE  v \in notified \/ LastDropPending(at[v])'
  BY <1>2 DEF WakeInv, NoLostWakeup, ctxs, LastDropPending
<1>3. \A c \in Contexts : cstate'[c] # "hoisted"
  BY DEF WakeInv, ctxs
<1>4. \A v \in Callers : v # w => at'[v] = at[v]
  OBVIOUS
<1>. QED
  BY <1>1, <1>2, <1>3, <1>4 DEF WakeInv, NoLostWakeup, LastDropPending, ctxs

LEMMA StepWakeInv ==
    ASSUME RelaxedReorder = FALSE
    PROVE  TypedAccounting /\ WakeInv /\ [Next]_vars => WakeInv'
<1>. SUFFICES ASSUME TypedAccounting, WakeInv, [Next]_vars PROVE WakeInv'
  OBVIOUS
<1>. USE DEF TypedAccounting
<1>1. ASSUME NEW n \in Handlers, NewHandler(n) \/ CloneHandler(n) \/ DropHandler(n)
      PROVE  WakeInv'
  <2>1. UNCHANGED <<ctxs, calls, notified, stopped>>
    BY <1>1 DEF NewHandler, CloneHandler, DropHandler
  <2>. QED
    BY <2>1 DEF WakeInv, NoLostWakeup, LastDropPending, ctxs, calls
<1>2. ASSUME NEW c \in Contexts, NEW n \in Handlers, Track(c, n),
             UNCHANGED <<calls, notified, stopped>>
      PROVE  WakeInv'
  <2>1. \A m \in Handlers : active'[m] = 0 => active[m] = 0
    BY <1>2 DEF Track, TypeOK
  <2>2. \A d \in Contexts : /\ cstate[d] = "dropping" => cstate'[d] = "dropping" /\ cnode'[d] = cnode[d]
                           /\ cstate'[d] # "hoisted"
    BY <1>2 DEF Track, WakeInv, TypeOK
  <2>. QED
    BY <1>2, <2>1, <2>2, OpenKeepsWakeInv
<1>3. ASSUME NEW n \in Handlers, NEW c \in Contexts, HandlerContext(n, c)
      PROVE  WakeInv'
  BY <1>2, <1>3 DEF HandlerContext
<1>4. ASSUME NEW b \in Contexts, NEW c \in Contexts, CloneContext(b, c)
      PROVE  WakeInv'
  <2>1. cnode[b] \in Handlers
    BY <1>4 DEF CloneContext, Accounting, TypeOK
  <2>. QED
    BY <1>2, <1>4, <2>1 DEF CloneContext
<1>5. ASSUME NEW b \in Contexts, NEW c \in Contexts, NEW n \in Handlers, NewChild(b, c, n)
      PROVE  WakeInv'
  BY <1>2, <1>5 DEF NewChild
<1>6. ASSUME NEW c \in Contexts, DropContext(c)
      PROVE  WakeInv'
  <2>1. cnode[c] \in Handlers /\ cstate[c] = "live"
    BY <1>6 DEF DropContext, Accounting, TypeOK, WakeInv
  <2>2. UNCHANGED <<calls, notified, stopped>>
    BY <1>6 DEF DropContext
  <2>3. \A d \in Contexts \ {c} : cstate'[d] = cstate[d] /\ cnode'[d] = cnode[d]
    BY <1>6 DEF DropContext, TypeOK
  <2>4. \A d \in Contexts : cstate'[d] # "hoisted"
    BY <1>6 DEF DropContext, TypeOK, WakeInv
  <2>5. ASSUME NEW w \in Callers, pc[w] \in {"await", "parked"}, op[w] = "shutdown", active'[at[w]] = 0
        PROVE  w \in notified \/ LastDropPending(at[w])'
    <3>1. at[w] \in Handlers
      BY <2>5 DEF Accounting, TypeOK
    <3>2. CASE at[w] = cnode[c]
      <4>1. active[cnode[c]] = 1
        BY <1>6, <2>1, <2>5, <3>2 DEF DropContext, TypeOK
      <4>2. cstate'[c] = "dropping" /\ cnode'[c] = cnode[c]
        BY <1>6, <2>1, <4>1 DEF DropContext, TypeOK
      <4>. QED
        BY <3>2, <4>2, <2>2 DEF LastDropPending, calls
    <3>3. CASE at[w] # cnode[c]
      <4>1. active[at[w]] = 0
        BY <1>6, <2>1, <2>5, <3>1, <3>3 DEF DropContext, TypeOK
      <4>2. w \in notified \/ LastDropPending(at[w])
        BY <2>5, <4>1 DEF WakeInv, NoLostWakeup
      <4>. QED
        BY <4>2, <2>1, <2>2, <2>3 DEF LastDropPending, calls
    <3>. QED
      BY <3>2, <3>3
  <2>. QED
    BY <2>2, <2>4, <2>5 DEF WakeInv, NoLostWakeup, calls
<1>7. ASSUME NEW c \in Contexts, FinishDrop(c)
      PROVE  WakeInv'
  <2>1. \A d \in Contexts \ {c} : cstate'[d] = cstate[d] /\ cnode'[d] = cnode[d]
    BY <1>7 DEF FinishDrop, TypeOK
  <2>2. UNCHANGED <<calls, stopped, active>> /\ notified \subseteq notified'
    BY <1>7 DEF FinishDrop
  <2>3. \A d \in Contexts : cstate'[d] # "hoisted"
    BY <1>7 DEF FinishDrop, TypeOK, WakeInv
  <2>4. ASSUME NEW w \in Callers, pc[w] \in {"await", "parked"}, op[w] = "shutdown", active[at[w]] = 0
        PROVE  w \in notified' \/ LastDropPending(at[w])'
    <3>1. at[w] \in stopped
      BY <2>4 DEF WakeInv, AfterStop
    <3>2. CASE at[w] = cnode[c]
      BY <1>7, <2>4, <3>1, <3>2 DEF FinishDrop
    <3>3. CASE at[w] # cnode[c]
      <4>1. w \in notified \/ LastDropPending(at[w])
        BY <2>4 DEF WakeInv, NoLostWakeup
      <4>. QED
        BY <4>1, <2>1, <2>2, <3>3 DEF LastDropPending, calls
    <3>. QED
      BY <3>2, <3>3
  <2>. QED
    BY <2>2, <2>3, <2>4 DEF WakeInv, NoLostWakeup, calls
<1>8. ASSUME NEW w \in Callers, NEW o \in Ops, NEW n \in Handlers, Call(w, o, n)
      PROVE  WakeInv'
  <2>1. pc'[w] = Entry[o] /\ op'[w] = o
    BY <1>8 DEF Call, Goto, TypeOK
  <2>2. (o = "shutdown" => Entry[o] \notin AfterStop) /\ Entry[o] \notin {"await", "parked"}
    BY DEF Entry, Ops, AfterStop
  <2>3. UNCHANGED <<ctxs, notified, stopped>>
    BY <1>8 DEF Call
  <2>4. \A v \in Callers \ {w} : pc'[v] = pc[v] /\ op'[v] = op[v] /\ at'[v] = at[v]
    BY <1>8 DEF Call, Goto, TypeOK
  <2>. QED
    BY <2>1, <2>2, <2>3, <2>4, CallKeepsWakeInv
<1>9. ASSUME NEW w \in Callers, Progress(w) \/ Abandon(w)
      PROVE  WakeInv'
  <2>1. UNCHANGED <<ctxs, notified, op, at>> /\ stopped \subseteq stopped'
    BY <1>9 DEF Progress, Abandon, StopTracker, CancelToken, TokenCancelled, ArmNotified,
                CheckCount, Park, Wake
  <2>2. \A v \in Callers \ {w} : pc'[v] = pc[v]
    BY <1>9 DEF Progress, Abandon, StopTracker, CancelToken, TokenCancelled, ArmNotified,
                CheckCount, Park, Wake, Goto, TypeOK
  <2>3. pc[w] \in AfterStop \/ at[w] \in stopped' \/ pc'[w] \notin AfterStop
    BY <1>9 DEF Progress, Abandon, StopTracker, CancelToken, TokenCancelled, ArmNotified,
                CheckCount, Park, Wake, Goto, TypeOK, AfterStop, Ended
  <2>4. pc'[w] \in {"await", "parked"} => active[at[w]] # 0 \/ pc[w] = "await"
    BY <1>9 DEF Progress, Abandon, StopTracker, CancelToken, TokenCancelled, ArmNotified,
                CheckCount, Park, Wake, Goto, TypeOK
  <2>5. op[w] = "shutdown" /\ pc'[w] \in AfterStop => at[w] \in stopped'
    BY <2>1, <2>3 DEF WakeInv
  <2>. QED
    BY <2>1, <2>2, <2>4, <2>5, CallKeepsWakeInv
<1>10. CASE UNCHANGED vars
  BY <1>10 DEF WakeInv, NoLostWakeup, LastDropPending, vars, ctxs, calls
<1>11. ASSUME NEW c \in Contexts, HoistLoad(c) PROVE FALSE
  BY <1>11 DEF HoistLoad
<1>. QED
  BY <1>1, <1>3, <1>4, <1>5, <1>6, <1>7, <1>8, <1>9, <1>10, <1>11 DEF Next

(* A call of shutdown is never left parked on a drained handler with nobody     *)
(* about to wake it, provided fetch_sub and the load of `stopped` in           *)
(* ContextTracker::drop take effect in program order.                          *)
THEOREM ContextNoLostWakeup ==
    ASSUME RelaxedReorder = FALSE
    PROVE  Spec => []NoLostWakeup
<1>1. Init => WakeInv
  BY DEF Init, WakeInv, NoLostWakeup, AfterStop
<1>2. WakeInv => NoLostWakeup
  BY DEF WakeInv
<1>. QED
  BY <1>1, <1>2, StepWakeInv, InitTypedAccounting, StepTypedAccounting, PTL DEF Spec
-----------------------------------------------------------------------------
(* Graceful return, where no context is made while the drop of the last one    *)
(* is half done.                                                              *)

BeforeArmed == {"idle", "stop", "cancel", "token", "arm"}

DrainInv ==
    /\ \A c \in Contexts : cstate[c] = "dropping" => active[cnode[c]] = 0
    /\ \A w \in Callers : owed[w] \subseteq Counted(at[w])
    /\ \A w \in notified : pc[w] \notin BeforeArmed /\ owed[w] = {}
    /\ GracefulReturn

\* On a tracker whose count is zero no call is owed anything.
LEMMA ZeroOwesNothing ==
    ASSUME TypedAccounting, DrainInv, NEW w \in Callers, at[w] \in Handlers,
           active[at[w]] = 0
    PROVE  owed[w] = {}
<1>1. Counted(at[w]) = {}
  BY CountedFinite, FS_EmptySet DEF TypedAccounting, Accounting
<1>. QED
  BY <1>1 DEF DrainInv

\* A half-done drop rules out live contexts on its handler.
LEMMA DroppingAlone ==
    ASSUME TypedAccounting, DrainInv, NEW c \in Contexts, NEW d \in Contexts,
           cstate[c] \in {"live", "hoisted"}, cstate[d] = "dropping"
    PROVE  cnode[d] # cnode[c]
<1>1. cnode[c] \in Handlers /\ c \in Counted(cnode[c])
  BY DEF Counted, TypedAccounting, Accounting, TypeOK
<1>2. active[cnode[c]] # 0
  BY <1>1, CountedFinite, FS_EmptySet DEF TypedAccounting, Accounting
<1>. QED
  BY <1>2 DEF DrainInv

\* A new context on a handler without half-done drops keeps the invariant.
LEMMA TrackKeepsDrainInv ==
    ASSUME TypedAccounting, DrainInv, NEW c \in Contexts, NEW n \in Handlers, Track(c, n),
           ~LastDropPending(n), UNCHANGED <<calls, notified>>
    PROVE  DrainInv'
<1>1. \A d \in Contexts \ {c} : cstate'[d] = cstate[d] /\ cnode'[d] = cnode[d]
  BY DEF Track, TypedAccounting, TypeOK
<1>2. cstate'[c] = "live" /\ cstate[c] = "new"
  BY DEF Track, TypedAccounting, TypeOK
<1>3. ASSUME NEW d \in Contexts, cstate'[d] = "dropping" PROVE active'[cnode'[d]] = 0
  <2>1. d # c /\ cstate[d] = "dropping" /\ cnode'[d] = cnode[d] /\ cnode[d] \in Handlers
    BY <1>1, <1>2, <1>3 DEF TypedAccounting, Accounting, TypeOK
  <2>2. cnode[d] # n
    BY <2>1 DEF LastDropPending
  <2>. QED
    BY <2>1, <2>2 DEF DrainInv, Track, TypedAccounting, TypeOK
<1>4. \A w \in Callers : /\ owed'[w] \subseteq owed[w] \union {c}
                         /\ owed[w] = {} \/ at[w] # n => owed'[w] = owed[w]
  BY OweTypes DEF Track
<1>5. ASSUME NEW w \in Callers PROVE owed'[w] \subseteq Counted(at[w])'
  <2>1. c \in owed'[w] => at[w] = n
    BY <1>2, <1>4 DEF DrainInv, Counted
  <2>2. cnode'[c] = n
    BY DEF Track, TypedAccounting, TypeOK
  <2>. QED
    BY <1>1, <1>2, <1>4, <2>1, <2>2 DEF DrainInv, Counted, calls
<1>6. \A w \in notified' : pc'[w] \notin BeforeArmed /\ owed'[w] = {}
  BY <1>4 DEF DrainInv, calls, TypedAccounting, TypeOK
<1>7. GracefulReturn'
  BY <1>4 DEF DrainInv, GracefulReturn, calls
<1>. QED
  BY <1>3, <1>5, <1>6, <1>7 DEF DrainInv

\* A step that only moves call w on, and not to a premature return, keeps it.
LEMMA MoveKeepsDrainInv ==
    ASSUME TypedAccounting, DrainInv, NEW w \in Callers, NEW label, Goto(w, label),
           UNCHANGED <<ctxs, op, at, notified, owed>>,
           label = "returned" => op[w] = "cancel" \/ owed[w] = {},
           label \in BeforeArmed => pc[w] \in BeforeArmed
    PROVE  DrainInv'
<1>1. pc' = [pc EXCEPT ![w] = label]
  BY DEF Goto
<1>2. \A v \in notified' : pc'[v] \notin BeforeArmed /\ owed'[v] = {}
  BY <1>1 DEF DrainInv, TypedAccounting, TypeOK
<1>3. GracefulReturn'
  BY <1>1 DEF DrainInv, GracefulReturn, TypedAccounting, TypeOK
<1>4. \A v \in Callers : owed'[v] \subseteq Counted(at[v])'
  BY DEF DrainInv, Counted, ctxs
<1>. QED
  BY <1>2, <1>3, <1>4 DEF DrainInv, ctxs

LEMMA StepDrainInv ==
    ASSUME ReuseWhileDropping = FALSE
    PROVE  TypedAccounting /\ DrainInv /\ [Next]_vars => DrainInv'
<1>. SUFFICES ASSUME TypedAccounting, DrainInv, [Next]_vars PROVE DrainInv'
  OBVIOUS
<1>. USE DEF TypedAccounting
<1>1. ASSUME NEW n \in Handlers, NewHandler(n) \/ CloneHandler(n) \/ DropHandler(n)
      PROVE  DrainInv'
  <2>1. UNCHANGED <<ctxs, calls, notified, owed>>
    BY <1>1 DEF NewHandler, CloneHandler, DropHandler
  <2>. QED
    BY <2>1 DEF DrainInv, GracefulReturn, Counted, ctxs, calls
<1>2. ASSUME NEW n \in Handlers, NEW c \in Contexts, HandlerContext(n, c)
      PROVE  DrainInv'
  BY <1>2, TrackKeepsDrainInv DEF HandlerContext
<1>3. ASSUME NEW b \in Contexts, NEW c \in Contexts, CloneContext(b, c)
      PROVE  DrainInv'
  <2>1. cnode[b] \in Handlers /\ ~LastDropPending(cnode[b])
    BY <1>3, DroppingAlone DEF CloneContext, Accounting, TypeOK, LastDropPending
  <2>. QED
    BY <1>3, <2>1, TrackKeepsDrainInv DEF CloneContext
<1>4. ASSUME NEW b \in Contexts, NEW c \in Contexts, NEW n \in Handlers, NewChild(b, c, n)
      PROVE  DrainInv'
  <2>1. ~LastDropPending(n)
    BY <1>4 DEF NewChild, Accounting, LastDropPending
  <2>. QED
    BY <1>4, <2>1, TrackKeepsDrainInv DEF NewChild
<1>5. ASSUME NEW c \in Contexts, HoistLoad(c)
      PROVE  DrainInv'
  <2>1. \A n : Counted(n)' = Counted(n)
    BY <1>5 DEF HoistLoad, Counted, TypeOK
  <2>2. \A d \in Contexts : cstate'[d] = "dropping" => cstate[d] = "dropping"
    BY <1>5 DEF HoistLoad, TypeOK
  <2>. QED
    BY <1>5, <2>1, <2>2 DEF DrainInv, GracefulReturn, HoistLoad, calls
<1>6. ASSUME NEW c \in Contexts, DropContext(c)
      PROVE  DrainInv'
  <2>1. cnode[c] \in Handlers
    BY <1>6 DEF DropContext, Accounting, TypeOK
  <2>2. \A d \in Contexts \ {c} : cstate'[d] = cstate[d] /\ cnode'[d] = cnode[d]
    BY <1>6 DEF DropContext, TypeOK
  <2>3. ASSUME NEW d \in Contexts, cstate'[d] = "dropping" PROVE active'[cnode'[d]] = 0
    <3>1. CASE d = c
      BY <1>6, <2>1, <2>3, <3>1 DEF DropContext, TypeOK
    <3>2. CASE d # c
      <4>1. cstate[d] = "dropping" /\ cnode[d] # cnode[c] /\ cnode[d] \in Handlers
        BY <1>6, <2>2, <2>3, <3>2, DroppingAlone DEF DropContext, Accounting, TypeOK
      <4>. QED
        BY <1>6, <2>1, <2>2, <3>2, <4>1 DEF DropContext, TypeOK, DrainInv
    <3>. QED
      BY <3>1, <3>2
  <2>4. \A w \in Callers : owed'[w] = owed[w] \ {c}
    BY <1>6 DEF DropContext
  <2>5. UNCHANGED <<calls, notified>>
    BY <1>6 DEF DropContext
  <2>6. ASSUME NEW w \in Callers PROVE owed'[w] \subseteq Counted(at[w])'
    BY <2>2, <2>4, <2>5 DEF DrainInv, Counted, calls
  <2>. QED
    BY <2>3, <2>4, <2>5, <2>6 DEF DrainInv, GracefulReturn, calls, TypeOK
<1>7. ASSUME NEW c \in Contexts, FinishDrop(c)
      PROVE  DrainInv'
  <2>1. \A d \in Contexts \ {c} : cstate'[d] = cstate[d] /\ cnode'[d] = cnode[d]
    BY <1>7 DEF FinishDrop, TypeOK
  <2>2. cstate[c] = "dropping" /\ cstate'[c] = "dropped" /\ active[cnode[c]] = 0
    BY <1>7 DEF FinishDrop, TypeOK, DrainInv
  <2>3. UNCHANGED <<calls, active, owed>>
    BY <1>7 DEF FinishDrop
  <2>4. ASSUME NEW w \in notified' PROVE pc[w] \notin BeforeArmed /\ owed[w] = {}
    <3>1. CASE w \in notified
      BY <3>1 DEF DrainInv
    <3>2. CASE w \notin notified
      <4>1. w \in Callers /\ at[w] = cnode[c] /\ pc[w] \in {"check", "await", "parked"}
        BY <1>7, <2>4, <3>2 DEF FinishDrop
      <4>2. owed[w] = {}
        BY <4>1, <2>2, ZeroOwesNothing DEF Accounting, TypeOK
      <4>. QED
        BY <4>1, <4>2 DEF BeforeArmed
    <3>. QED
      BY <3>1, <3>2
  <2>5. ASSUME NEW w \in Callers PROVE owed'[w] \subseteq Counted(at[w])'
    BY <2>1, <2>2, <2>3 DEF DrainInv, Counted, calls
  <2>6. \A d \in Contexts : cstate'[d] = "dropping" => active'[cnode'[d]] = 0
    BY <2>1, <2>2, <2>3 DEF DrainInv
  <2>. QED
    BY <2>3, <2>4, <2>5, <2>6 DEF DrainInv, GracefulReturn, calls
<1>8. ASSUME NEW w \in Callers, NEW o \in Ops, NEW n \in Handlers, Call(w, o, n)
      PROVE  DrainInv'
  <2>1. w \notin notified
    BY <1>8 DEF Call, DrainInv, BeforeArmed
  <2>2. \A v \in Callers \ {w} : /\ pc'[v] = pc[v] /\ op'[v] = op[v] /\ at'[v] = at[v]
                                /\ owed'[v] = owed[v]
    BY <1>8 DEF Call, Goto, TypeOK
  <2>3. pc'[w] # "returned" /\ at'[w] = n /\ owed'[w] = Counted(n)
    BY <1>8 DEF Call, Goto, TypeOK, Entry, Ops
  <2>4. UNCHANGED <<ctxs, notified>>
    BY <1>8 DEF Call
  <2>5. \A v \in Callers : owed'[v] \subseteq Counted(at[v])'
    BY <2>2, <2>3, <2>4 DEF DrainInv, Counted, ctxs
  <2>6. \A v \in notified' : pc'[v] \notin BeforeArmed /\ owed'[v] = {}
    BY <2>1, <2>2, <2>4 DEF DrainInv, TypeOK
  <2>7. GracefulReturn'
    BY <2>2, <2>3 DEF DrainInv, GracefulReturn
  <2>. QED
    BY <2>4, <2>5, <2>6, <2>7 DEF DrainInv, ctxs
<1>9. ASSUME NEW w \in Callers, Progress(w) \/ Abandon(w)
      PROVE  DrainInv'
  <2>. USE DEF BeforeArmed
  <2>1. CASE StopTracker(w)
    BY <2>1, MoveKeepsDrainInv DEF StopTracker
  <2>2. CASE CancelToken(w)
    BY <2>2, MoveKeepsDrainInv DEF CancelToken
  <2>3. CASE TokenCancelled(w)
    BY <2>3, MoveKeepsDrainInv DEF TokenCancelled
  <2>4. CASE ArmNotified(w)
    BY <2>4, MoveKeepsDrainInv DEF ArmNotified
  <2>5. CASE CheckCount(w)
    <3>1. active[at[w]] = 0 => owed[w] = {}
      BY <2>5, ZeroOwesNothing DEF CheckCount, Accounting, TypeOK
    <3>. QED
      BY <2>5, <3>1, MoveKeepsDrainInv DEF CheckCount
  <2>6. CASE Park(w)
    BY <2>6, MoveKeepsDrainInv DEF Park
  <2>7. CASE Wake(w)
    BY <2>7, MoveKeepsDrainInv DEF Wake, DrainInv
  <2>8. CASE Abandon(w)
    BY <2>8, MoveKeepsDrainInv DEF Abandon
  <2>. QED
    BY <1>9, <2>1, <2>2, <2>3, <2>4, <2>5, <2>6, <2>7, <2>8 DEF Progress
<1>10. CASE UNCHANGED vars
  BY <1>10 DEF DrainInv, GracefulReturn, Counted, vars, ctxs, calls
<1>. QED
  BY <1>1, <1>2, <1>3, <1>4, <1>5, <1>6, <1>7, <1>8, <1>9, <1>10 DEF Next

LEMMA InitDrainInv == Init => DrainInv
BY DEF Init, DrainInv, GracefulReturn

(* When shutdown, done or wait returns, every context that was alive when the   *)
(* call began is gone, provided Handler::context does not run between the      *)
(* decrement and the notification of the last drop.                            *)
THEOREM ContextGracefulReturn ==
    ASSUME ReuseWhileDropping = FALSE
    PROVE  Spec => []GracefulReturn
<1>1. DrainInv => GracefulReturn
  BY DEF DrainInv
<1>. QED
  BY <1>1, InitDrainInv, StepDrainInv, InitTypedAccounting, StepTypedAccounting, PTL DEF Spec
-----------------------------------------------------------------------------
(* Refinement: under the same assumption every step is one the promise of      *)
(* module Graceful allows, or leaves what the promise speaks of unchanged.     *)

PhaseInv ==
    \A w \in Callers :
        /\ pc[w] \in {"arm", "check", "await", "parked"} /\ op[w] \in {"shutdown", "done"}
              => at[w] \in cancelled
        /\ pc[w] \in {"token", "arm", "check", "await", "parked"} => op[w] # "cancel"

LEMMA StepPhaseInv == TypedAccounting /\ PhaseInv /\ [Next]_vars => PhaseInv'
<1>. SUFFICES ASSUME TypedAccounting, PhaseInv, [Next]_vars PROVE PhaseInv'
  OBVIOUS
<1>. USE DEF TypedAccounting
<1>1. ASSUME cancelled \subseteq cancelled', UNCHANGED calls PROVE PhaseInv'
  BY <1>1 DEF PhaseInv, calls
<1>2. ASSUME NEW n \in Handlers, NewHandler(n) \/ CloneHandler(n) \/ DropHandler(n)
      PROVE  PhaseInv'
  BY <1>1, <1>2 DEF NewHandler, CloneHandler, DropHandler
<1>3. ASSUME NEW b \in Contexts, NEW c \in Contexts, NEW n \in Handlers,
             \/ HandlerContext(n, c) \/ CloneContext(b, c) \/ NewChild(b, c, n)
             \/ HoistLoad(c) \/ DropContext(c) \/ FinishDrop(c)
      PROVE  PhaseInv'
  BY <1>1, <1>3 DEF HandlerContext, CloneContext, NewChild, HoistLoad, DropContext,
                    FinishDrop, tree
<1>4. ASSUME NEW w \in Callers, NEW o \in Ops, NEW n \in Handlers, Call(w, o, n)
      PROVE  PhaseInv'
  BY <1>4 DEF Call, Goto, Entry, Ops, tree, TypeOK, PhaseInv
<1>5. ASSUME NEW w \in Callers, Progress(w) \/ Abandon(w)
      PROVE  PhaseInv'
  <2>1. cancelled \subseteq cancelled' /\ UNCHANGED <<op, at>>
    BY <1>5 DEF Progress, Abandon, StopTracker, CancelToken, TokenCancelled, ArmNotified,
                CheckCount, Park, Wake, tree
  <2>2. \A v \in Callers \ {w} : pc'[v] = pc[v]
    BY <1>5 DEF Progress, Abandon, StopTracker, CancelToken, TokenCancelled, ArmNotified,
                CheckCount, Park, Wake, Goto, TypeOK
  <2>3. /\ pc'[w] \in {"arm", "check", "await", "parked"} /\ op[w] \in {"shutdown", "done"}
              => at[w] \in cancelled
        /\ pc'[w] \in {"token", "arm", "check", "await", "parked"} => op[w] # "cancel"
    BY <1>5 DEF Progress, Abandon, StopTracker, CancelToken, TokenCancelled, ArmNotified,
                CheckCount, Park, Wake, Goto, TypeOK, PhaseInv
  <2>. QED
    BY <2>1, <2>2, <2>3 DEF PhaseInv
<1>6. CASE UNCHANGED vars
  BY <1>1, <1>6 DEF vars, tree
<1>7. CASE \E n \in Handlers : NewHandler(n) \/ CloneHandler(n) \/ DropHandler(n)
  BY <1>2, <1>7
<1>8. CASE \/ \E n \in Handlers, c \in Contexts : HandlerContext(n, c)
           \/ \E b, c \in Contexts : CloneContext(b, c)
           \/ \E b, c \in Contexts, n \in Handlers : NewChild(b, c, n)
           \/ \E c \in Contexts : HoistLoad(c) \/ DropContext(c) \/ FinishDrop(c)
  <2>1. ASSUME NEW c \in Contexts, NEW b \in Contexts,
               CloneContext(b, c) \/ HoistLoad(c) \/ DropContext(c) \/ FinishDrop(c)
        PROVE  PhaseInv'
    BY <1>1, <2>1 DEF CloneContext, HoistLoad, DropContext, FinishDrop, tree
  <2>. QED
    BY <1>3, <1>8, <2>1
<1>. QED
  BY <1>4, <1>5, <1>6, <1>7, <1>8 DEF Next

PromiseHeld == [c \in Contexts |->
                  IF cstate[c] \in {"live", "hoisted"} THEN cnode[c] ELSE NoHandler]
PromisePhase == [w \in Callers |->
                  IF pc[w] \in {"idle"} \union Ended THEN pc[w] ELSE "waiting"]
PromiseRequest == [w \in Callers |-> <<op[w], at[w]>>]

\* what the promise speaks of, in the terms of the refinement mapping
LEMMA MappedVars ==
    UNCHANGED <<PromiseHeld, cancelled, PromisePhase, PromiseRequest, owed>>
        => UNCHANGED Promise!vars
BY DEF Promise!vars, PromiseHeld, PromisePhase, PromiseRequest

LEMMA InitKeepsPromise == Init => Promise!Init
BY DEF Init, Promise!Init, Ended

LEMMA TrackOpens ==
    ASSUME TypedAccounting, NEW c \in Contexts, NEW n \in Handlers, Track(c, n),
           UNCHANGED calls, cancelled' \in {cancelled, cancelled \union {n}}
    PROVE  Promise!Open(c, n)
<1>1. cstate[c] = "new" /\ PromiseHeld[c] = NoHandler
  BY DEF Track, PromiseHeld
<1>2. PromiseHeld' = [PromiseHeld EXCEPT ![c] = n]
  BY DEF Track, PromiseHeld, TypedAccounting, TypeOK
<1>3. UNCHANGED <<PromisePhase, PromiseRequest>>
  BY DEF PromisePhase, PromiseRequest, calls
<1>4. owed' = [w \in Callers |-> IF PromiseRequest[w][2] = n /\ owed[w] # {}
                                 THEN owed[w] \union {c} ELSE owed[w]]
  BY DEF Track, Owe, PromiseRequest
<1>. QED
  BY <1>1, <1>2, <1>3, <1>4 DEF Promise!Open, PromiseHeld, PromisePhase, PromiseRequest

\* A call that moves between two of its own labels is still waiting.
LEMMA MoveWaits ==
    ASSUME TypedAccounting, NEW w \in Callers, NEW label \in Phases \ ({"idle"} \union Ended),
           Goto(w, label), pc[w] \notin {"idle"} \union Ended, UNCHANGED <<op, at>>
    PROVE  UNCHANGED <<PromisePhase, PromiseRequest>>
BY DEF Goto, PromisePhase, PromiseRequest, TypedAccounting, TypeOK

\* A call that ends moves the promise from waiting to the same end.
LEMMA MoveEnds ==
    ASSUME TypedAccounting, NEW w \in Callers, NEW label \in Ended,
           Goto(w, label), pc[w] \notin {"idle"} \union Ended, UNCHANGED <<op, at>>
    PROVE  /\ PromisePhase[w] = "waiting"
           /\ PromisePhase' = [PromisePhase EXCEPT ![w] = label]
           /\ UNCHANGED PromiseRequest
BY DEF Goto, PromisePhase, PromiseRequest, TypedAccounting, TypeOK, Ended

LEMMA StepKeepsPromise ==
    TypedAccounting /\ DrainInv /\ PhaseInv /\ [Next]_vars => [Promise!Next]_Promise!vars
<1>. SUFFICES ASSUME TypedAccounting, DrainInv, PhaseInv, [Next]_vars
              PROVE  Promise!Next \/ UNCHANGED Promise!vars
  OBVIOUS
<1>1. ASSUME NEW n \in Handlers, NewHandler(n) \/ CloneHandler(n)
      PROVE  UNCHANGED Promise!vars
  BY <1>1, MappedVars DEF NewHandler, CloneHandler, PromiseHeld, PromisePhase,
                          PromiseRequest, ctxs, calls
<1>2. ASSUME NEW n \in Handlers, DropHandler(n)
      PROVE  Promise!Cancel
  <2>1. cancelled \subseteq cancelled' /\ cancelled' \subseteq Handlers
    BY <1>2 DEF DropHandler, Subtree, TypedAccounting, TypeOK
  <2>2. UNCHANGED <<PromiseHeld, PromisePhase, PromiseRequest, owed>>
    BY <1>2 DEF DropHandler, PromiseHeld, PromisePhase, PromiseRequest, ctxs, calls
  <2>. QED
    BY <2>1, <2>2 DEF Promise!Cancel, PromiseHeld, PromisePhase, PromiseRequest
<1>3. ASSUME NEW n \in Handlers, NEW c \in Contexts, HandlerContext(n, c)
      PROVE  Promise!Open(c, n)
  BY <1>3, TrackOpens DEF HandlerContext, tree
<1>4. ASSUME NEW b \in Contexts, NEW c \in Contexts, CloneContext(b, c)
      PROVE  \E n \in Handlers : Promise!Open(c, n)
  <2>1. PICK n \in Handlers : n = cnode[b]
    BY <1>4 DEF CloneContext, TypedAccounting, Accounting, TypeOK
  <2>2. Promise!Open(c, n)
    BY <1>4, <2>1, TrackOpens DEF CloneContext, tree
  <2>. QED
    BY <2>2
<1>5. ASSUME NEW b \in Contexts, NEW c \in Contexts, NEW n \in Handlers, NewChild(b, c, n)
      PROVE  Promise!Open(c, n)
  <2>1. cancelled' \in {cancelled, cancelled \union {n}}
    BY <1>5 DEF NewChild
  <2>. QED
    BY <1>5, <2>1, TrackOpens DEF NewChild
<1>6. ASSUME NEW c \in Contexts, HoistLoad(c)
      PROVE  UNCHANGED Promise!vars
  <2>1. UNCHANGED PromiseHeld
    BY <1>6 DEF HoistLoad, PromiseHeld, TypedAccounting, TypeOK
  <2>. QED
    BY <1>6, <2>1, MappedVars DEF HoistLoad, PromisePhase, PromiseRequest, calls, tree
<1>7. ASSUME NEW c \in Contexts, DropContext(c)
      PROVE  Promise!Close(c)
  <2>1. PromiseHeld[c] # NoHandler
    BY <1>7 DEF DropContext, PromiseHeld, TypedAccounting, Accounting, TypeOK
  <2>2. PromiseHeld' = [PromiseHeld EXCEPT ![c] = NoHandler]
    BY <1>7 DEF DropContext, PromiseHeld, TypedAccounting, TypeOK
  <2>3. UNCHANGED <<PromisePhase, PromiseRequest, cancelled>>
    BY <1>7 DEF DropContext, PromisePhase, PromiseRequest, calls, tree
  <2>4. owed' = [w \in Callers |-> owed[w] \ {c}]
    BY <1>7 DEF DropContext
  <2>. QED
    BY <2>1, <2>2, <2>3, <2>4 DEF Promise!Close, PromiseHeld, PromisePhase, PromiseRequest
<1>8. ASSUME NEW c \in Contexts, FinishDrop(c)
      PROVE  UNCHANGED Promise!vars
  <2>1. UNCHANGED PromiseHeld
    BY <1>8 DEF FinishDrop, PromiseHeld, TypedAccounting, TypeOK
  <2>. QED
    BY <1>8, <2>1, MappedVars DEF FinishDrop, PromisePhase, PromiseRequest, calls, tree
<1>9. ASSUME NEW w \in Callers, NEW o \in Ops, NEW n \in Handlers, Call(w, o, n)
      PROVE  Promise!Call(w, o, n)
  <2>1. Entry[o] \notin {"idle"} \union Ended
    BY DEF Entry, Ops, Ended
  <2>2. PromisePhase[w] = "idle" /\ PromisePhase' = [PromisePhase EXCEPT ![w] = "waiting"]
    BY <1>9, <2>1 DEF Call, Goto, PromisePhase, TypedAccounting, TypeOK
  <2>3. PromiseRequest' = [PromiseRequest EXCEPT ![w] = <<o, n>>]
    BY <1>9 DEF Call, PromiseRequest, TypedAccounting, TypeOK
  <2>4. Promise!OpenAt(n) = Counted(n)
    BY DEF Promise!OpenAt, Counted
  <2>5. UNCHANGED <<PromiseHeld, cancelled>>
    BY <1>9 DEF Call, PromiseHeld, ctxs, tree
  <2>6. owed' = [owed EXCEPT ![w] = Counted(n)]
    BY <1>9 DEF Call
  <2>. QED
    BY <2>2, <2>3, <2>4, <2>5, <2>6 DEF Promise!Call, PromiseHeld, PromisePhase, PromiseRequest
<1>10. ASSUME NEW w \in Callers, NEW label \in Phases \ ({"idle"} \union Ended),
              Goto(w, label), pc[w] \notin {"idle"} \union Ended,
              UNCHANGED <<cancelled, ctxs, op, at, owed>>
       PROVE  UNCHANGED Promise!vars
  BY <1>10, MoveWaits, MappedVars DEF PromiseHeld, ctxs
<1>11. ASSUME NEW w \in Callers, pc[w] \in {"check", "await", "parked"}, Goto(w, "returned"),
              owed[w] = {}, UNCHANGED <<cancelled, ctxs, op, at, owed>>
       PROVE  Promise!Return(w)
  <2>1. /\ PromisePhase[w] = "waiting"
        /\ PromisePhase' = [PromisePhase EXCEPT ![w] = "returned"]
        /\ UNCHANGED PromiseRequest
    BY <1>11, MoveEnds DEF Ended
  <2>2. PromiseRequest[w] = <<op[w], at[w]>>
    BY DEF PromiseRequest
  <2>3. op[w] \in {"shutdown", "done", "wait"}
    BY <1>11 DEF PhaseInv, TypedAccounting, TypeOK, Ops
  <2>4. op[w] \in {"shutdown", "done"} => at[w] \in cancelled
    BY <1>11 DEF PhaseInv
  <2>5. UNCHANGED PromiseHeld
    BY <1>11 DEF PromiseHeld, ctxs
  <2>. QED
    BY <1>11, <2>1, <2>2, <2>3, <2>4, <2>5
       DEF Promise!Return, Promise!NeedsDrain, Promise!NeedsToken, PromiseHeld, PromisePhase,
           PromiseRequest
<1>12. ASSUME NEW w \in Callers, CancelToken(w)
       PROVE  Promise!Cancel
  <2>1. cancelled \subseteq cancelled' /\ cancelled' \subseteq Handlers
    BY <1>12 DEF CancelToken, Subtree, TypedAccounting, TypeOK
  <2>2. UNCHANGED <<PromiseHeld, PromiseRequest, owed>>
    BY <1>12 DEF CancelToken, PromiseHeld, PromiseRequest, ctxs
  <2>3. CASE op[w] = "cancel"
    <3>1. PromisePhase[w] = "waiting" /\ PromisePhase' = [PromisePhase EXCEPT ![w] = "returned"]
      BY <1>12, <2>3, MoveEnds DEF CancelToken, Ended
    <3>2. PromiseRequest[w][1] = "cancel"
      BY <2>3 DEF PromiseRequest
    <3>. QED
      BY <2>1, <2>2, <3>1, <3>2 DEF Promise!Cancel, PromiseHeld, PromisePhase, PromiseRequest
  <2>4. CASE op[w] # "cancel"
    <3>1. UNCHANGED PromisePhase
      BY <1>12, <2>4, MoveWaits DEF CancelToken, Phases, Ended
    <3>. QED
      BY <2>1, <2>2, <3>1 DEF Promise!Cancel, PromiseHeld, PromisePhase, PromiseRequest
  <2>. QED
    BY <2>3, <2>4
<1>13. ASSUME NEW w \in Callers, StopTracker(w) \/ TokenCancelled(w) \/ ArmNotified(w) \/ Park(w)
       PROVE  UNCHANGED Promise!vars
  BY <1>10, <1>13 DEF StopTracker, TokenCancelled, ArmNotified, Park, Phases, Ended, tree
<1>14. ASSUME NEW w \in Callers, CheckCount(w)
       PROVE  Promise!Return(w) \/ UNCHANGED Promise!vars
  <2>1. CASE active[at[w]] = 0
    <3>1. owed[w] = {}
      BY <1>14, <2>1, ZeroOwesNothing DEF CheckCount, TypedAccounting, Accounting, TypeOK
    <3>. QED
      BY <1>11, <1>14, <2>1, <3>1 DEF CheckCount, tree
  <2>2. CASE active[at[w]] # 0
    BY <1>10, <1>14, <2>2 DEF CheckCount, Phases, Ended, tree
  <2>. QED
    BY <2>1, <2>2
<1>15. ASSUME NEW w \in Callers, Wake(w)
       PROVE  Promise!Return(w)
  BY <1>11, <1>15 DEF Wake, DrainInv, tree
<1>16. ASSUME NEW w \in Callers, Abandon(w)
       PROVE  Promise!Abandon(w)
  <2>1. /\ PromisePhase[w] = "waiting"
        /\ PromisePhase' = [PromisePhase EXCEPT ![w] = "abandoned"]
        /\ UNCHANGED PromiseRequest
    BY <1>16, MoveEnds DEF Abandon, Ended
  <2>2. UNCHANGED <<PromiseHeld, cancelled, owed>>
    BY <1>16 DEF Abandon, PromiseHeld, ctxs, tree
  <2>. QED
    BY <2>1, <2>2 DEF Promise!Abandon, PromiseHeld, PromisePhase, PromiseRequest
<1>17. CASE UNCHANGED vars
  BY <1>17, MappedVars DEF vars, tree, ctxs, calls, PromiseHeld, PromisePhase, PromiseRequest
<1>18. ASSUME NEW n \in Handlers, NewHandler(n) \/ CloneHandler(n) \/ DropHandler(n)
       PROVE  Promise!Next \/ UNCHANGED Promise!vars
  BY <1>1, <1>2, <1>18 DEF Promise!Next
<1>19. ASSUME NEW n \in Handlers, NEW c \in Contexts, Promise!Open(c, n)
       PROVE  Promise!Next
  BY <1>19 DEF Promise!Next
<1>20. ASSUME NEW c \in Contexts, HoistLoad(c) \/ DropContext(c) \/ FinishDrop(c)
       PROVE  Promise!Next \/ UNCHANGED Promise!vars
  BY <1>6, <1>7, <1>8, <1>20 DEF Promise!Next
<1>21. ASSUME NEW w \in Callers, NEW o \in Ops, NEW n \in Handlers, Call(w, o, n)
       PROVE  Promise!Next
  BY <1>9, <1>21 DEF Promise!Next, Ops
<1>22. ASSUME NEW w \in Callers, Progress(w) \/ Abandon(w)
       PROVE  Promise!Next \/ UNCHANGED Promise!vars
  <2>1. Promise!Return(w) \/ Promise!Abandon(w) => Promise!Next
    BY DEF Promise!Next
  <2>2. Promise!Cancel => Promise!Next
    BY DEF Promise!Next
  <2>. QED
    BY <1>12, <1>13, <1>14, <1>15, <1>16, <1>22, <2>1, <2>2 DEF Progress
<1>23. CASE \/ \E n \in Handlers, c \in Contexts : HandlerContext(n, c)
            \/ \E b, c \in Contexts : CloneContext(b, c)
            \/ \E b, c \in Contexts, n \in Handlers : NewChild(b, c, n)
  <2>1. \E n \in Handlers, c \in Contexts : Promise!Open(c, n)
    BY <1>3, <1>4, <1>5, <1>23
  <2>. QED
    BY <1>19, <2>1
<1>. QED
  BY <1>17, <1>18, <1>20, <1>21, <1>22, <1>23 DEF Next

(* The counter, the flag and the Notify implement the promise: a behaviour of   *)
(* Context seen through the refinement mapping is a behaviour of Graceful.     *)
THEOREM ContextKeepsPromise ==
    ASSUME ReuseWhileDropping = FALSE
    PROVE  Spec => KeepsPromise
<1>1. Init => PhaseInv
  BY DEF Init, PhaseInv
<1>. QED
  BY <1>1, InitKeepsPromise, StepKeepsPromise, StepPhaseInv, InitDrainInv, StepDrainInv,
     InitTypedAccounting, StepTypedAccounting, PTL DEF Spec, KeepsPromise, Promise!Spec
-----------------------------------------------------------------------------
(* Cancellation.                                                             *)

\* tokens descend from made ones, and from all their ancestors
TreeInv ==
    /\ cancelled \subseteq made
    /\ \A n \in Handlers : above[n] \subseteq made /\ (above[n] # {} => n \in made)
    /\ \A n, m \in Handlers : m \in above[n] => above[m] \subseteq above[n]
    /\ NoUnreachableContext

\* A new handler has no clone dropped and nothing below it.
LEMMA NewKeepsTreeInv ==
    ASSUME TypedAccounting, TreeInv, NEW n \in Handlers, n \notin made,
           made' = made \union {n}, handles' = [handles EXCEPT ![n] = 1],
           \/ UNCHANGED <<above, cancelled>>
           \/ \E p \in made : /\ above' = [above EXCEPT ![n] = above[p] \union {p}]
                             /\ cancelled' = cancelled \union {m \in {n} : p \in cancelled}
    PROVE  TreeInv'
<1>1. /\ above[n] = {} /\ n \notin cancelled /\ \A m \in Handlers : n \notin above[m]
      /\ handles' \in [Handlers -> Nat] /\ handles'[n] = 1
      /\ \A m \in Handlers : m # n => handles'[m] = handles[m]
  BY DEF TreeInv, TypedAccounting, TypeOK
<1>2. CASE UNCHANGED <<above, cancelled>>
  BY <1>1, <1>2 DEF TreeInv, NoUnreachableContext
<1>3. CASE \E p \in made : /\ above' = [above EXCEPT ![n] = above[p] \union {p}]
                          /\ cancelled' = cancelled \union {m \in {n} : p \in cancelled}
  <2>1. PICK p \in made : /\ above' = [above EXCEPT ![n] = above[p] \union {p}]
                          /\ cancelled' = cancelled \union {m \in {n} : p \in cancelled}
    BY <1>3
  <2>2. p \in Handlers /\ p # n /\ above[p] \subseteq made
    BY <2>1 DEF TreeInv, TypedAccounting, TypeOK
  <2>3. /\ above'[n] = above[p] \union {p}
        /\ \A m \in Handlers : m # n => above'[m] = above[m]
    BY <2>1 DEF TypedAccounting, TypeOK
  <2>4. /\ cancelled' \subseteq made'
        /\ \A m \in Handlers : above'[m] \subseteq made' /\ (above'[m] # {} => m \in made')
    BY <2>1, <2>2, <2>3 DEF TreeInv
  <2>5. ASSUME NEW k \in Handlers, NEW m \in Handlers, m \in above'[k] PROVE above'[m] \subseteq above'[k]
    <3>1. m # n
      BY <1>1, <2>2, <2>3, <2>5
    <3>. QED
      BY <3>1, <2>2, <2>3, <2>5 DEF TreeInv
  <2>6. NoUnreachableContext'
    <3>1. ASSUME NEW k \in Handlers, k \in made', handles'[k] = 0 PROVE k \in cancelled'
      BY <3>1, <1>1, <2>1 DEF TreeInv, NoUnreachableContext
    <3>2. ASSUME NEW k \in Handlers, NEW m \in Handlers, m \in above'[k], m \in cancelled'
          PROVE  k \in cancelled'
      <4>1. m # n /\ m \in cancelled
        BY <3>2, <1>1, <2>1, <2>2, <2>3
      <4>2. CASE k # n
        BY <4>1, <4>2, <3>2, <2>1, <2>3 DEF TreeInv, NoUnreachableContext
      <4>3. CASE k = n
        <5>1. p \in cancelled
          BY <4>1, <4>3, <3>2, <2>2, <2>3 DEF TreeInv, NoUnreachableContext
        <5>. QED
          BY <5>1, <4>3, <2>1
      <4>. QED
        BY <4>2, <4>3
    <3>. QED
      BY <3>1, <3>2 DEF NoUnreachableContext
  <2>. QED
    BY <2>4, <2>5, <2>6 DEF TreeInv
<1>. QED
  BY <1>2, <1>3

\* CancellationToken::cancel leaves no descendant of what it cancels behind.
LEMMA CancelKeepsTreeInv ==
    ASSUME TypedAccounting, TreeInv, NEW n \in made, UNCHANGED <<made, above>>,
           cancelled' = cancelled \union Subtree(n),
           \A m \in Handlers : handles'[m] = 0 => handles[m] = 0 \/ m = n
    PROVE  TreeInv'
<1>1. n \in Handlers /\ n \in Subtree(n) /\ Subtree(n) \subseteq made
  BY DEF Subtree, TreeInv, TypedAccounting, TypeOK
<1>2. ASSUME NEW k \in Handlers, NEW m \in Handlers, m \in above[k], m \in cancelled'
      PROVE  k \in cancelled'
  <2>1. CASE m \in cancelled
    BY <1>2, <2>1 DEF TreeInv, NoUnreachableContext
  <2>2. CASE m \in Subtree(n)
    BY <1>2, <2>2, <1>1 DEF Subtree, TreeInv
  <2>. QED
    BY <1>2, <2>1, <2>2
<1>3. NoUnreachableContext'
  BY <1>1, <1>2 DEF TreeInv, NoUnreachableContext
<1>. QED
  BY <1>1, <1>3 DEF TreeInv

LEMMA StepTreeInv == TypedAccounting /\ TreeInv /\ [Next]_vars => TreeInv'
<1>. SUFFICES ASSUME TypedAccounting, TreeInv, [Next]_vars PROVE TreeInv'
  OBVIOUS
<1>1. ASSUME NEW n \in Handlers, NewHandler(n) PROVE TreeInv'
  BY <1>1, NewKeepsTreeInv DEF NewHandler
<1>2. ASSUME NEW n \in Handlers, CloneHandler(n) PROVE TreeInv'
  BY <1>2 DEF CloneHandler, TreeInv, NoUnreachableContext, TypedAccounting, TypeOK
<1>3. ASSUME NEW n \in Handlers, DropHandler(n) PROVE TreeInv'
  <2>1. n \in made /\ handles[n] \in Nat \ {0}
    BY <1>3 DEF DropHandler, TypedAccounting, TypeOK, Accounting
  <2>2. /\ UNCHANGED <<made, above>>
        /\ \A m \in Handlers : handles'[m] = 0 => handles[m] = 0 \/ (m = n /\ handles[n] = 1)
    BY <1>3, <2>1 DEF DropHandler, TypedAccounting, TypeOK
  <2>3. CASE handles[n] = 1
    BY <1>3, <2>1, <2>2, <2>3, CancelKeepsTreeInv DEF DropHandler
  <2>4. CASE handles[n] # 1
    BY <1>3, <2>2, <2>4 DEF DropHandler, TreeInv, NoUnreachableContext
  <2>. QED
    BY <2>3, <2>4
<1>4. ASSUME NEW b \in Contexts, NEW c \in Contexts, NEW n \in Handlers, NewChild(b, c, n)
      PROVE  TreeInv'
  <2>1. cnode[b] \in made
    BY <1>4 DEF NewChild, TypedAccounting, Accounting
  <2>. QED
    BY <1>4, <2>1, NewKeepsTreeInv DEF NewChild
<1>5. ASSUME NEW w \in Callers, CancelToken(w) PROVE TreeInv'
  <2>1. at[w] \in made
    BY <1>5 DEF CancelToken, TypedAccounting, Accounting
  <2>. QED
    BY <1>5, <2>1, CancelKeepsTreeInv DEF CancelToken
<1>6. ASSUME UNCHANGED tree PROVE TreeInv'
  BY <1>6 DEF tree, TreeInv, NoUnreachableContext
<1>7. ASSUME NEW n \in Handlers, NEW c \in Contexts, HandlerContext(n, c) PROVE UNCHANGED tree
  BY <1>7 DEF HandlerContext
<1>8. ASSUME NEW b \in Contexts, NEW c \in Contexts, CloneContext(b, c) PROVE UNCHANGED tree
  BY <1>8 DEF CloneContext
<1>9. ASSUME NEW c \in Contexts, HoistLoad(c) \/ DropContext(c) \/ FinishDrop(c) PROVE UNCHANGED tree
  BY <1>9 DEF HoistLoad, DropContext, FinishDrop
<1>10. ASSUME NEW w \in Callers, NEW o \in Ops, NEW n \in Handlers, Call(w, o, n) PROVE UNCHANGED tree
  BY <1>10 DEF Call
<1>11. ASSUME NEW w \in Callers, Progress(w) \/ Abandon(w), ~CancelToken(w) PROVE UNCHANGED tree
  BY <1>11 DEF Progress, Abandon, StopTracker, TokenCancelled, ArmNotified, CheckCount, Park, Wake
<1>12. UNCHANGED vars => UNCHANGED tree
  BY DEF vars
<1>. QED
  BY <1>1, <1>2, <1>3, <1>4, <1>5, <1>6, <1>7, <1>8, <1>9, <1>10, <1>11, <1>12 DEF Next

(* NewChild makes the token of a child under its parent's, in one step with  *)
(* the test whether that is cancelled; TokenDropGuard cancels for the last   *)
(* clone.  So no context ever outlives everybody who could cancel it, and    *)
(* whatever is cancelled takes everything below it along.                    *)
THEOREM ContextNoUnreachable == Spec => []NoUnreachableContext
<1>1. Init => TreeInv
  BY DEF Init, TreeInv, NoUnreachableContext
<1>2. TreeInv => NoUnreachableContext
  BY DEF TreeInv
<1>. QED
  BY <1>1, <1>2, StepTreeInv, InitTypedAccounting, StepTypedAccounting, PTL DEF Spec
=============================================================================
