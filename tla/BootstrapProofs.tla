--------------------------- MODULE BootstrapProofs ---------------------------
(***************************************************************************)
(* Theorems about main! and SignalSvc, for any services, hooks, signals    *)
(* and order of the macro's items.                                         *)
(***************************************************************************)
EXTENDS Bootstrap, TLAPS

USE BootstrapAssumption
-----------------------------------------------------------------------------
(* The inductive invariant: types, which items main has come to, which tasks *)
(* hold a context, which handles main has, and what main knows of failures.  *)

SigStates  == {"new", "disabled", "select", "force", "ok", "err"} \union {"spawned", "listening", "closing"}
TaskStates == {"new", "disabled", "spawned", "running"} \union Outcomes

GlobalOK ==
    /\ held \in [AllServices -> {Root, NoHandler}]
    /\ done \subseteq {Root}
    /\ phase \in [{Waiter} -> {"idle", "waiting", "returned", "abandoned"}]
    /\ owed \in [{Waiter} -> SUBSET AllServices]

MainOK ==
    /\ pc \in {"init", "spawn", "select", "exit hook", "on_exit", "ended"}
    /\ item \in Nat \ {0} /\ remaining \subseteq AllServices
    /\ leaving \in AllServices \X (Outcomes \union {"none"})
    /\ result \in {"none", "ok", "err"}

TypeOK ==
    /\ timeout \in BOOLEAN /\ overridden \in BOOLEAN /\ stubborn \subseteq Services
    /\ GlobalOK /\ MainOK
    /\ sig \in SigStates /\ pending \subseteq Kinds
    /\ state \in [Services -> TaskStates]

\* main comes to the items in order
InOrder ==
    /\ \A i \in DOMAIN Order : TaskState(Order[i]) = "new" <=> i >= item
    /\ pc \in {"select", "exit hook"} => item > Len(Order)

\* a task holds a context until it ends, SignalSvc until it shuts down
Holding == {"spawned", "running", "listening", "closing"}
TasksHold == \A s \in AllServices : held[s] = IF TaskState(s) \in Holding THEN Root ELSE NoHandler

\* main has the handle of each task that has not ended
HandlesKept == \A s \in AllServices : TaskState(s) \in {"new", "disabled"} \union Outcomes \/ s \in remaining

\* without hooks of its own, main goes on as long as no failure is reported
Reporting(s) == pc = "exit hook" /\ leaving = <<s, TaskState(s)>>
NoneFailed ==
    \A s \in AllServices : TaskState(s) \in {"err", "panic"} => s \in remaining \/ Reporting(s)

Finished == pc = "on_exit" /\ result = "ok"
Going    == pc \in {"init", "spawn", "select", "exit hook"} \/ Finished

BootstrapInv ==
    /\ TypeOK /\ InOrder /\ TasksHold /\ HandlesKept
    /\ ~overridden /\ Going => NoneFailed
    /\ Finished => item > Len(Order) /\ remaining = {}
-----------------------------------------------------------------------------
(* Tasks, and what the operations of the handler do to their contexts.       *)

\* Tasks have states of their own.
LEMMA TasksDiffer ==
    /\ SignalService \in AllServices /\ Services \subseteq AllServices
    /\ TaskState(SignalService) = sig
    /\ \A s \in Services : s # SignalService /\ TaskState(s) = state[s]
BY DEF AllServices, TaskState

\* Every item is a service, and no two are the same.
LEMMA ItemsAre ==
    /\ Len(Order) \in Nat /\ DOMAIN Order = 1 .. Len(Order)
    /\ \A i \in DOMAIN Order : Order[i] \in AllServices
    /\ \A s \in AllServices : \E i \in DOMAIN Order : Order[i] = s
    /\ \A i, j \in DOMAIN Order : Order[i] = Order[j] => i = j
<1>1. Order \in Seq(AllServices)
  OBVIOUS
<1>2. Len(Order) \in Nat /\ DOMAIN Order = 1 .. Len(Order)
  BY <1>1
<1>3. {Order[i] : i \in DOMAIN Order} = AllServices
  OBVIOUS
<1>. QED
  BY <1>2, <1>3

\* A task that starts opens its context.
LEMMA OpenEffect ==
    ASSUME GlobalOK, NEW s \in AllServices, UNCHANGED done, Global!Open(s, Root)
    PROVE  GlobalOK' /\ \A x \in AllServices : held'[x] = IF x = s THEN Root ELSE held[x]
<1>1. /\ held' = [held EXCEPT ![s] = Root] /\ UNCHANGED <<done, phase>>
      /\ owed' = [w \in {Waiter} |->
            IF request[w][2] = Root /\ owed[w] # {} THEN owed[w] \union {s} ELSE owed[w]]
  BY DEF Global!Open
<1>2. owed' \in [{Waiter} -> SUBSET AllServices]
  BY <1>1 DEF GlobalOK
<1>3. held' \in [AllServices -> {Root, NoHandler}]
      /\ \A x \in AllServices : held'[x] = IF x = s THEN Root ELSE held[x]
  BY <1>1 DEF GlobalOK
<1>. QED
  BY <1>1, <1>2, <1>3 DEF GlobalOK

\* One that ends closes it.
LEMMA CloseEffect ==
    ASSUME GlobalOK, NEW s \in AllServices, Global!Close(s)
    PROVE  GlobalOK' /\ \A x \in AllServices : held'[x] = IF x = s THEN NoHandler ELSE held[x]
<1>1. /\ held' = [held EXCEPT ![s] = NoHandler] /\ UNCHANGED <<done, phase>>
      /\ owed' = [w \in {Waiter} |-> owed[w] \ {s}]
  BY DEF Global!Close
<1>2. owed' \in [{Waiter} -> SUBSET AllServices]
  BY <1>1 DEF GlobalOK
<1>3. held' \in [AllServices -> {Root, NoHandler}]
      /\ \A x \in AllServices : held'[x] = IF x = s THEN NoHandler ELSE held[x]
  BY <1>1 DEF GlobalOK
<1>. QED
  BY <1>1, <1>2, <1>3 DEF GlobalOK

\* block_global_shutdown opens and closes nothing.
LEMMA CallEffect ==
    ASSUME GlobalOK,
           \/ UNCHANGED global
           \/ Global!Call(Waiter, "shutdown", Root)
           \/ done' = {Root} /\ UNCHANGED phase /\ Global!Cancel
           \/ Global!Return(Waiter) \/ Global!Abandon(Waiter)
    PROVE  GlobalOK' /\ UNCHANGED held
<1>1. CASE UNCHANGED global
  BY <1>1 DEF global, GlobalOK
<1>2. CASE Global!Call(Waiter, "shutdown", Root)
  <2>1. /\ phase' = [phase EXCEPT ![Waiter] = "waiting"] /\ UNCHANGED <<held, done>>
        /\ owed' = [owed EXCEPT ![Waiter] = Global!OpenAt(Root)]
    BY <1>2 DEF Global!Call
  <2>2. Global!OpenAt(Root) \subseteq AllServices
    BY DEF Global!OpenAt
  <2>. QED
    BY <2>1, <2>2 DEF GlobalOK
<1>3. CASE done' = {Root} /\ UNCHANGED phase /\ Global!Cancel
  BY <1>3 DEF Global!Cancel, GlobalOK
<1>4. CASE Global!Return(Waiter) \/ Global!Abandon(Waiter)
  BY <1>4 DEF Global!Return, Global!Abandon, GlobalOK
<1>. QED
  BY <1>1, <1>2, <1>3, <1>4
-----------------------------------------------------------------------------
(* The steps of tasks                                                        *)

\* A task that is spawned has not ended.
Live(s) == TaskState(s) \notin {"new", "disabled"} \union Outcomes

\* Task s goes on or ends, and gives up its context as it should.
Moves(s) ==
    /\ Live(s) /\ TaskState(s)' \notin {"new", "disabled"}
    /\ \A x \in AllServices : x # s => TaskState(x)' = TaskState(x) /\ held'[x] = held[x]
    /\ held'[s] = IF TaskState(s)' \in Holding THEN Root ELSE NoHandler
    /\ UNCHANGED <<setup, main>>

\* main has the handle of a task that moves, so it will learn of it.
LEMMA MoveKeeps ==
    ASSUME BootstrapInv, TypeOK', NEW s \in AllServices, Moves(s)
    PROVE  BootstrapInv'
<1>1. UNCHANGED <<pc, item, remaining, leaving, result, overridden>>
  BY DEF Moves, main, setup
<1>2. s \in remaining
  BY DEF Moves, Live, BootstrapInv, HandlesKept
<1>3. ASSUME NEW x \in AllServices
      PROVE  /\ x # s => TaskState(x)' = TaskState(x) /\ held'[x] = held[x]
             /\ TaskState(x)' = "new" <=> TaskState(x) = "new"
  BY DEF Moves, Live
<1>4. InOrder'
  <2>1. \A i \in DOMAIN Order : TaskState(Order[i])' = "new" <=> i >= item'
    BY <1>1, <1>3, ItemsAre DEF BootstrapInv, InOrder
  <2>. QED
    BY <1>1, <2>1 DEF BootstrapInv, InOrder
<1>5. TasksHold'
  BY <1>3 DEF Moves, BootstrapInv, TasksHold
<1>6. HandlesKept'
  BY <1>1, <1>2, <1>3 DEF BootstrapInv, HandlesKept
<1>7. ASSUME NoneFailed PROVE NoneFailed'
  BY <1>1, <1>2, <1>3, <1>7 DEF NoneFailed, Reporting
<1>8. Going' = Going /\ Finished' = Finished
  BY <1>1 DEF Going, Finished
<1>. QED
  BY <1>1, <1>4, <1>5, <1>6, <1>7, <1>8 DEF BootstrapInv

\* Services start and end.
LEMMA ServiceMoves ==
    ASSUME BootstrapInv, NEW s \in Services, StartTask(s) \/ EndTask(s)
    PROVE  TypeOK' /\ Moves(s)
<1>. USE DEF BootstrapInv, TypeOK
<1>1. CASE StartTask(s)
  <2>1. /\ state[s] = "spawned" /\ state' = [state EXCEPT ![s] = "running"]
        /\ UNCHANGED <<setup, global, sigs, main>>
    BY <1>1 DEF StartTask
  <2>2. UNCHANGED <<sig, pending, held>> /\ GlobalOK' /\ MainOK'
    BY <2>1, CallEffect DEF sigs, MainOK, main
  <2>3. TypeOK'
    BY <2>1, <2>2 DEF setup, TaskStates
  <2>4. \A x \in AllServices : x # s => TaskState(x)' = TaskState(x)
    BY <2>1, <2>2 DEF TaskState, AllServices
  <2>5. TaskState(s) = "spawned" /\ TaskState(s)' = "running" /\ s \in AllServices
    BY <2>1, TasksDiffer DEF TaskState
  <2>6. held[s] = Root
    BY <2>5 DEF TasksHold, Holding
  <2>. QED
    BY <2>1, <2>2, <2>3, <2>4, <2>5, <2>6 DEF Moves, Live, Outcomes, Holding
<1>2. CASE EndTask(s)
  <2>1. PICK o \in Outcomes : state' = [state EXCEPT ![s] = o]
    BY <1>2 DEF EndTask
  <2>2. state[s] = "running" /\ Global!Close(s) /\ UNCHANGED <<setup, sigs, main>>
    BY <1>2 DEF EndTask
  <2>3. /\ s \in AllServices /\ UNCHANGED <<sig, pending>> /\ GlobalOK' /\ MainOK'
        /\ \A x \in AllServices : held'[x] = IF x = s THEN NoHandler ELSE held[x]
    BY <2>2, CloseEffect, TasksDiffer DEF sigs, MainOK, main
  <2>4. TypeOK'
    BY <2>1, <2>2, <2>3 DEF setup, TaskStates
  <2>5. \A x \in AllServices : x # s => TaskState(x)' = TaskState(x)
    BY <2>1, <2>3 DEF TaskState, AllServices
  <2>6. TaskState(s) = "running" /\ TaskState(s)' = o
    BY <2>1, <2>2, <2>3, TasksDiffer DEF TaskState
  <2>. QED
    BY <2>2, <2>3, <2>4, <2>5, <2>6 DEF Moves, Live, Outcomes, Holding
<1>. QED
  BY <1>1, <1>2

\* SignalSvc drops its context before it shuts the handler down.
LEMMA SignalMoves ==
    ASSUME BootstrapInv, Signal \/ Forced
    PROVE  TypeOK' /\ (Moves(SignalService) \/ UNCHANGED <<held, sig, state, setup, main>>)
<1>. USE DEF BootstrapInv, TypeOK
<1>1. UNCHANGED <<setup, main, state>> /\ MainOK'
  BY DEF Signal, Forced, MainOK, main
<1>2. ASSUME Listen \/ Receive \/ SecondSignal \/ Timeout \/ OnForceShutdown \/ ShutdownReturns
      PROVE  /\ GlobalOK' /\ UNCHANGED held /\ pending' \subseteq Kinds
             /\ \/ sig \in {"spawned", "listening"} /\ sig' \in {"listening", "closing"}
                \/ sig \in {"select", "force"} /\ sig' \in {"force", "ok", "err"}
  <2>1. CASE Listen
    BY <2>1, CallEffect DEF Listen
  <2>2. CASE Receive
    BY <2>2, CallEffect DEF Receive
  <2>3. CASE SecondSignal \/ Timeout
    BY <2>3, CallEffect DEF SecondSignal, Timeout, DropShutdown
  <2>4. CASE OnForceShutdown
    BY <2>4, CallEffect DEF OnForceShutdown, HookResults
  <2>5. CASE ShutdownReturns
    BY <2>5, CallEffect DEF ShutdownReturns
  <2>. QED
    BY <1>2, <2>1, <2>2, <2>3, <2>4, <2>5
<1>3. ASSUME PollShutdown \/ CancelGlobal
      PROVE  GlobalOK' /\ UNCHANGED <<held, sig, pending>>
  BY <1>3, CallEffect DEF PollShutdown, CancelGlobal
<1>4. ASSUME OnShutdown
      PROVE  /\ GlobalOK' /\ UNCHANGED pending /\ sig = "closing" /\ sig' \in {"select", "err"}
             /\ \A x \in AllServices : held'[x] = IF x = SignalService THEN NoHandler ELSE held[x]
  BY <1>4, CloseEffect, TasksDiffer DEF OnShutdown
<1>5. \A x \in AllServices : x # SignalService => TaskState(x)' = TaskState(x)
  BY <1>1 DEF TaskState, AllServices
<1>6. TaskState(SignalService) = sig /\ TaskState(SignalService)' = sig'
  BY DEF TaskState
<1>7. held[SignalService] = IF sig \in Holding THEN Root ELSE NoHandler
  BY <1>6, TasksDiffer DEF TasksHold
<1>8. CASE Listen \/ Receive \/ SecondSignal \/ Timeout \/ OnForceShutdown \/ ShutdownReturns
  <2>1. TypeOK'
    BY <1>1, <1>2, <1>8 DEF setup, SigStates
  <2>2. Moves(SignalService)
    BY <1>1, <1>2, <1>5, <1>6, <1>7, <1>8, TasksDiffer DEF Moves, Live, Outcomes, Holding
  <2>. QED
    BY <2>1, <2>2
<1>9. CASE PollShutdown \/ CancelGlobal
  <2>1. TypeOK'
    BY <1>1, <1>3, <1>9 DEF setup
  <2>. QED
    BY <1>1, <1>3, <1>9, <2>1
<1>10. CASE OnShutdown
  <2>1. TypeOK'
    BY <1>1, <1>4, <1>10 DEF setup, SigStates
  <2>2. Moves(SignalService)
    BY <1>1, <1>4, <1>5, <1>6, <1>10, TasksDiffer DEF Moves, Live, Outcomes, Holding
  <2>. QED
    BY <2>1, <2>2
<1>. QED
  BY <1>8, <1>9, <1>10 DEF Signal, Forced, SigStep
-----------------------------------------------------------------------------
(* The steps of main                                                         *)

\* spawn_service gives the next task its context, or passes the service over.
LEMMA ItemKeeps ==
    ASSUME BootstrapInv, Spawn \/ Skip, UNCHANGED setup
    PROVE  BootstrapInv'
<1>0. TypeOK /\ GlobalOK /\ MainOK /\ InOrder /\ TasksHold /\ HandlesKept
  BY DEF BootstrapInv, TypeOK
<1>1. /\ pc = "spawn" /\ pc' = pc /\ UNCHANGED <<leaving, result, pending, overridden>>
      /\ item' = item + 1 /\ item \in DOMAIN Order
  <2>1. /\ pc = "spawn" /\ pc' = pc /\ UNCHANGED <<leaving, result, pending, overridden>>
        /\ item' = item + 1 /\ item <= Len(Order)
    BY DEF Spawn, Skip, setup
  <2>2. item \in Nat \ {0}
    BY <1>0 DEF MainOK
  <2>3. item \in DOMAIN Order
    BY ONLY <2>1, <2>2, ItemsAre
  <2>. QED
    BY <2>1, <2>3
<1>2. PICK s \in AllServices : s = Order[item]
  BY <1>1, ItemsAre
<1>3. PICK v \in {"spawned", "disabled"} :
        /\ SetState(s, v)
        /\ v = "spawned" => remaining' = remaining \union {s} /\ UNCHANGED done /\ Global!Open(s, Root)
        /\ v = "disabled" => remaining' = remaining /\ UNCHANGED global
  BY <1>2 DEF Spawn, Skip
<1>4. \A x \in AllServices : TaskState(x)' = IF x = s THEN v ELSE TaskState(x)
  <2>1. CASE s = SignalService
    BY <1>3, <2>1 DEF SetState, TaskState, AllServices
  <2>2. CASE s # SignalService
    <3>1. s \in Services /\ state' = [state EXCEPT ![s] = v] /\ UNCHANGED sig
      BY <1>3, <2>2 DEF SetState, AllServices
    <3>2. state \in [Services -> TaskStates]
      BY <1>0 DEF TypeOK
    <3>. QED
      BY <3>1, <3>2 DEF TaskState, AllServices
  <2>. QED
    BY <2>1, <2>2
<1>5. sig' \in SigStates /\ state' \in [Services -> TaskStates]
  <2>1. CASE s = SignalService
    BY <1>0, <1>3, <2>1 DEF SetState, SigStates, TypeOK
  <2>2. CASE s # SignalService
    BY <1>0, <1>3, <2>2 DEF SetState, TaskStates, AllServices, TypeOK
  <2>. QED
    BY <2>1, <2>2
<1>6. /\ GlobalOK'
      /\ \A x \in AllServices : held'[x] = IF x = s /\ v = "spawned" THEN Root ELSE held[x]
  <2>1. CASE v = "spawned"
    <3>1. UNCHANGED done /\ Global!Open(s, Root)
      BY <1>3, <2>1
    <3>. QED
      BY <1>0, <2>1, <3>1, OpenEffect
  <2>2. CASE v = "disabled"
    <3>1. UNCHANGED global
      BY <1>3, <2>2
    <3>. QED
      BY <1>0, <2>2, <3>1, CallEffect
  <2>. QED
    BY <2>1, <2>2
<1>7. TypeOK'
  <2>1. MainOK'
    BY <1>0, <1>1, <1>3 DEF MainOK
  <2>. QED
    BY <1>0, <1>1, <1>5, <1>6, <2>1 DEF setup, TypeOK
<1>8. TaskState(s) = "new"
  BY <1>0, <1>1, <1>2, ItemsAre DEF InOrder, MainOK
<1>9. InOrder'
  <2>1. ASSUME NEW i \in DOMAIN Order PROVE TaskState(Order[i])' = "new" <=> i >= item'
    <3>1. Order[i] \in AllServices /\ i \in Nat /\ item \in Nat
      BY <1>0, <1>1, ItemsAre DEF MainOK
    <3>2. CASE i = item
      BY <1>1, <1>2, <1>4, <3>1, <3>2
    <3>3. CASE i # item
      <4>1. Order[i] # s
        BY <1>1, <1>2, <3>3, ItemsAre
      <4>2. TaskState(Order[i]) = "new" <=> i >= item
        BY <1>0 DEF InOrder
      <4>3. i >= item <=> i >= item'
        BY <1>1, <3>1, <3>3
      <4>. QED
        BY <1>4, <3>1, <4>1, <4>2, <4>3
    <3>. QED
      BY <3>2, <3>3
  <2>. QED
    BY <1>1, <2>1 DEF InOrder
<1>10. TasksHold'
  <2>1. \A x \in AllServices : held[x] = IF TaskState(x) \in Holding THEN Root ELSE NoHandler
    BY <1>0 DEF TasksHold
  <2>2. held[s] = NoHandler
    BY <1>8, <2>1 DEF Holding
  <2>. QED
    BY <1>4, <1>6, <2>1, <2>2 DEF TasksHold, Holding
<1>11. HandlesKept'
  BY <1>0, <1>3, <1>4 DEF HandlesKept
<1>12. NoneFailed => NoneFailed'
  <2>1. remaining \subseteq remaining'
    BY <1>3
  <2>. QED
    BY <1>1, <1>4, <2>1 DEF NoneFailed, Reporting
<1>13. (Going => Going') /\ Going /\ ~Finished'
  BY <1>1 DEF Going, Finished
<1>. QED
  BY <1>1, <1>7, <1>9, <1>10, <1>11, <1>12, <1>13 DEF BootstrapInv

\* Before the loop, and after it, main leaves the tasks alone.
LEMMA MainKeeps ==
    ASSUME BootstrapInv, UNCHANGED setup,
           InitOk \/ InitFails \/ EnabledFails \/ OnServicesStart \/ AllReported \/ OnExit
    PROVE  BootstrapInv'
<1>. USE DEF Leave
<1>0. TypeOK /\ GlobalOK /\ MainOK /\ InOrder /\ TasksHold /\ HandlesKept
  BY DEF BootstrapInv, TypeOK
<1>1. UNCHANGED <<global, sigs, state, item, remaining, leaving>>
  BY DEF InitOk, InitFails, EnabledFails, OnServicesStart, AllReported, OnExit
<1>2. UNCHANGED <<held, sig, pending, timeout, overridden, stubborn>> /\ GlobalOK'
  <2>1. GlobalOK' /\ UNCHANGED held
    BY <1>0, <1>1, CallEffect
  <2>. QED
    BY <1>1, <2>1 DEF sigs, setup
<1>3. /\ pc' \in {"spawn", "select", "on_exit", "ended"} /\ result' \in {"none", "ok", "err"}
      /\ pc' = "select" => item > Len(Order)
  BY <1>0 DEF MainOK, InitOk, InitFails, EnabledFails, OnServicesStart, AllReported, OnExit
<1>4. TypeOK'
  <2>1. MainOK'
    BY <1>0, <1>1, <1>3 DEF MainOK
  <2>. QED
    BY <1>0, <1>1, <1>2, <2>1 DEF TypeOK
<1>5. \A s \in AllServices : TaskState(s)' = TaskState(s)
  BY <1>1, <1>2 DEF TaskState
<1>6. InOrder'
  <2>1. \A i \in DOMAIN Order : TaskState(Order[i])' = TaskState(Order[i])
    BY <1>5, ItemsAre
  <2>. QED
    BY <1>0, <1>1, <1>3, <2>1 DEF InOrder
<1>7. TasksHold' /\ HandlesKept'
  <2>1. TasksHold'
    BY <1>0, <1>2, <1>5 DEF TasksHold
  <2>2. HandlesKept'
    BY <1>0, <1>1, <1>5 DEF HandlesKept
  <2>. QED
    BY <2>1, <2>2
<1>8. Going' => Going /\ pc # "exit hook"
  BY DEF Going, Finished, InitOk, InitFails, EnabledFails, OnServicesStart, AllReported, OnExit
<1>9. pc # "exit hook" /\ NoneFailed => NoneFailed'
  BY <1>1, <1>5 DEF NoneFailed, Reporting
<1>10. Finished' => item > Len(Order) /\ remaining = {}
  BY <1>0 DEF BootstrapInv, Finished, InOrder, InitOk, InitFails, EnabledFails, OnServicesStart, AllReported, OnExit
<1>. QED
  BY <1>1, <1>2, <1>4, <1>6, <1>7, <1>8, <1>9, <1>10 DEF BootstrapInv

\* A handle that is ready is of a task that has ended; what it returned is what
\* the hook gets, and what the default hook returns.
LEMMA LoopKeeps ==
    ASSUME BootstrapInv, UNCHANGED setup, OnServiceExit \/ \E s \in AllServices : Select(s)
    PROVE  BootstrapInv'
<1>. USE DEF Leave
<1>0. TypeOK /\ GlobalOK /\ MainOK /\ InOrder /\ TasksHold /\ HandlesKept
  BY DEF BootstrapInv, TypeOK
<1>1. UNCHANGED <<global, sigs, state, item>>
  BY DEF OnServiceExit, Select
<1>2. UNCHANGED <<held, sig, pending, timeout, overridden, stubborn>> /\ GlobalOK'
  <2>1. GlobalOK' /\ UNCHANGED held
    BY <1>0, <1>1, CallEffect
  <2>. QED
    BY <1>1, <2>1 DEF sigs, setup
<1>3. \A s \in AllServices : TaskState(s)' = TaskState(s)
  BY <1>1, <1>2 DEF TaskState
<1>4. pc \in {"select", "exit hook"} /\ item > Len(Order)
  BY <1>0 DEF InOrder, OnServiceExit, Select
<1>5. InOrder'
  <2>1. \A i \in DOMAIN Order : TaskState(Order[i])' = TaskState(Order[i])
    BY <1>3, ItemsAre
  <2>. QED
    BY <1>0, <1>1, <1>4, <2>1 DEF InOrder
<1>6. TasksHold'
  BY <1>0, <1>2, <1>3 DEF TasksHold
<1>7. CASE OnServiceExit
  <2>1. PICK r \in HookReturns :
          IF r = "ok" THEN pc' = "select" /\ leaving' = Nobody /\ UNCHANGED result
                      ELSE pc' = "on_exit" /\ result' = "err" /\ UNCHANGED leaving
    BY <1>7 DEF OnServiceExit
  <2>2. pc = "exit hook" /\ UNCHANGED remaining
    BY <1>7 DEF OnServiceExit
  <2>3. TypeOK'
    <3>1. leaving' \in AllServices \X (Outcomes \union {"none"})
      <4>1. leaving' = Nobody \/ leaving' = leaving
        BY <2>1
      <4>2. leaving \in AllServices \X (Outcomes \union {"none"})
        BY <1>0 DEF MainOK
      <4>3. Nobody \in AllServices \X (Outcomes \union {"none"})
        BY TasksDiffer DEF Nobody
      <4>. QED
        BY ONLY <4>1, <4>2, <4>3
    <3>2. MainOK'
      BY <1>0, <1>1, <2>1, <2>2, <3>1 DEF MainOK
    <3>. QED
      BY <1>0, <1>1, <1>2, <3>2 DEF TypeOK
  <2>4. HandlesKept'
    BY <1>0, <1>3, <2>2 DEF HandlesKept
  <2>5. ASSUME ~overridden, Going', NoneFailed PROVE NoneFailed'
    <3>1. r = leaving[2]
      BY <2>5 DEF HookReturns
    <3>2. r = "ok"
      BY <2>1, <2>5 DEF Going, Finished
    <3>3. \A s \in AllServices : Reporting(s) => TaskState(s) = "ok"
      <4>. SUFFICES ASSUME NEW s \in AllServices, leaving = <<s, TaskState(s)>> PROVE TaskState(s) = "ok"
        BY DEF Reporting
      <4>1. leaving[2] = TaskState(s)
        OBVIOUS
      <4>. QED
        BY <3>1, <3>2, <4>1
    <3>. QED
      BY <1>3, <2>2, <2>5, <3>3 DEF NoneFailed
  <2>6. Going /\ ~Finished'
    BY <2>1, <2>2 DEF Going, Finished
  <2>. QED
    BY <1>2, <1>5, <1>6, <2>3, <2>4, <2>5, <2>6 DEF BootstrapInv
<1>8. CASE \E s \in AllServices : Select(s)
  <2>1. PICK s \in AllServices : Select(s)
    BY <1>8
  <2>2. /\ pc = "select" /\ TaskState(s) \in Outcomes /\ remaining' = remaining \ {s}
        /\ \/ TaskState(s) = "panic" /\ pc' = "on_exit" /\ result' = "err" /\ UNCHANGED leaving
           \/ pc' = "exit hook" /\ leaving' = <<s, TaskState(s)>> /\ UNCHANGED result
    BY <2>1 DEF Select, IsOver, Aborts, Reported
  <2>3. TypeOK'
    <3>1. leaving' \in AllServices \X (Outcomes \union {"none"})
      <4>1. leaving' = <<s, TaskState(s)>> \/ leaving' = leaving
        BY <2>2
      <4>2. leaving \in AllServices \X (Outcomes \union {"none"})
        BY <1>0 DEF MainOK
      <4>3. <<s, TaskState(s)>> \in AllServices \X (Outcomes \union {"none"})
        BY <2>2
      <4>. QED
        BY ONLY <4>1, <4>2, <4>3
    <3>2. MainOK'
      BY <1>0, <1>1, <2>2, <3>1 DEF MainOK
    <3>. QED
      BY <1>0, <1>1, <1>2, <3>2 DEF TypeOK
  <2>4. HandlesKept'
    BY <1>0, <1>3, <2>2 DEF HandlesKept
  <2>5. ASSUME ~overridden, Going', NoneFailed PROVE NoneFailed'
    <3>1. pc' = "exit hook" /\ leaving' = <<s, TaskState(s)>>
      BY <2>2, <2>5 DEF Going, Finished
    <3>2. Reporting(s)'
      BY <1>3, <3>1 DEF Reporting
    <3>3. ~Reporting(s)' \/ \A x \in AllServices : TaskState(x) \in {"err", "panic"} => x \in remaining
      BY <2>2, <2>5 DEF NoneFailed, Reporting
    <3>. QED
      BY <1>3, <2>2, <3>2, <3>3 DEF NoneFailed
  <2>6. Going /\ ~Finished'
    BY <2>2 DEF Going, Finished
  <2>. QED
    BY <1>2, <1>5, <1>6, <2>3, <2>4, <2>5, <2>6 DEF BootstrapInv
<1>. QED
  BY <1>7, <1>8
-----------------------------------------------------------------------------
\* Nothing runs and nothing is held at first.
LEMMA InitInv == Init => BootstrapInv
<1>. SUFFICES ASSUME Init PROVE BootstrapInv
  OBVIOUS
<1>1. TypeOK
  <2>1. timeout \in BOOLEAN /\ overridden \in BOOLEAN /\ stubborn \subseteq Services
    <3>1. PICK x \in Setups : timeout = x[1] /\ overridden = x[2] /\ stubborn = x[3]
      BY DEF Init
    <3>2. x \in BOOLEAN \X BOOLEAN \X SUBSET Services
      OBVIOUS
    <3>. QED
      BY <3>1, <3>2
  <2>2. GlobalOK
    BY DEF Init, SigInit, Global!Init, GlobalOK
  <2>3. MainOK
    BY TasksDiffer DEF Init, MainOK, Nobody
  <2>. QED
    BY <2>1, <2>2, <2>3 DEF Init, SigInit, TypeOK, SigStates, TaskStates
<1>2. \A s \in AllServices : TaskState(s) = "new" /\ held[s] = NoHandler
  BY DEF Init, SigInit, Global!Init, TaskState, AllServices
<1>3. InOrder
  <2>1. \A i \in DOMAIN Order : TaskState(Order[i]) = "new" /\ i >= 1
    BY <1>2, ItemsAre
  <2>. QED
    BY <2>1 DEF Init, InOrder
<1>. QED
  BY <1>1, <1>2, <1>3 DEF Init, BootstrapInv, TasksHold, Holding, HandlesKept, NoneFailed, Finished

\* The invariant is inductive.
LEMMA StepInv == BootstrapInv /\ [Next]_vars => BootstrapInv'
<1>. SUFFICES ASSUME BootstrapInv, [Next]_vars PROVE BootstrapInv'
  OBVIOUS
<1>1. CASE Main
  <2>1. UNCHANGED setup
    BY <1>1 DEF Main
  <2>. QED
    BY <1>1, <2>1, ItemKeeps, MainKeeps, LoopKeeps DEF Main
<1>2. CASE \E s \in Services : StartTask(s) \/ EndTask(s)
  BY <1>2, ServiceMoves, MoveKeeps, TasksDiffer
<1>3. ASSUME TypeOK', UNCHANGED <<held, sig, state, setup, main>> PROVE BootstrapInv'
  <2>1. UNCHANGED <<pc, item, remaining, leaving, result, overridden>>
    BY <1>3 DEF main, setup
  <2>2. \A s \in AllServices : TaskState(s)' = TaskState(s)
    BY <1>3 DEF TaskState
  <2>3. InOrder'
    <3>1. \A i \in DOMAIN Order : TaskState(Order[i])' = TaskState(Order[i])
      BY <2>2, ItemsAre
    <3>. QED
      BY <2>1, <3>1 DEF BootstrapInv, InOrder
  <2>4. TasksHold' /\ HandlesKept' /\ (NoneFailed => NoneFailed')
    BY <1>3, <2>1, <2>2 DEF BootstrapInv, TasksHold, HandlesKept, NoneFailed, Reporting
  <2>5. Going' = Going /\ Finished' = Finished
    BY <2>1 DEF Going, Finished
  <2>. QED
    BY <1>3, <2>1, <2>3, <2>4, <2>5 DEF BootstrapInv
<1>4. CASE Signal \/ Forced
  BY <1>3, <1>4, SignalMoves, MoveKeeps, TasksDiffer
<1>5. CASE (\E k \in Kinds : RaiseSignal(k)) \/ UNCHANGED vars
  <2>1. UNCHANGED <<setup, main, state, sig, global>> /\ (pending \subseteq Kinds => pending' \subseteq Kinds)
    BY <1>5 DEF RaiseSignal, Raise, vars, sigs
  <2>2. GlobalOK' /\ UNCHANGED held
    BY <2>1, CallEffect DEF BootstrapInv, TypeOK
  <2>3. TypeOK'
    BY <2>1, <2>2 DEF BootstrapInv, TypeOK, MainOK, setup, main
  <2>. QED
    BY <1>3, <2>1, <2>2, <2>3
<1>. QED
  BY <1>1, <1>2, <1>4, <1>5 DEF Next

\* Every reachable state satisfies it.
LEMMA Reachable == Spec => []BootstrapInv
BY InitInv, StepInv, PTL DEF Spec

(* main, its tasks and SignalSvc keep their types, for any services, hooks,  *)
(* signals and order.                                                        *)
THEOREM BootstrapTypes == Spec => []TypeOK
<1>1. BootstrapInv => TypeOK
  BY DEF BootstrapInv
<1>. QED
  BY <1>1, Reachable, PTL

(* on_exit gets Ok only when every service that main! names was passed over, *)
(* or has ended and given up its context, and, if no hook is overridden, has *)
(* neither failed nor panicked: whatever services there are, in whatever     *)
(* order they end, and whenever signals come.                                *)
THEOREM BootstrapOkMeansOver == Spec => []OkMeansOver
<1>1. ASSUME BootstrapInv PROVE OkMeansOver
  <2>. SUFFICES ASSUME Finished, NEW s \in AllServices
                PROVE  /\ held[s] = NoHandler /\ TaskState(s) \in {"disabled"} \union Outcomes
                       /\ ~overridden => TaskState(s) \notin {"err", "panic"}
    BY DEF Finished, OkMeansOver
  <2>1. remaining = {} /\ item > Len(Order) /\ Going /\ pc # "exit hook"
    BY <1>1 DEF BootstrapInv, Finished, Going
  <2>2. TaskState(s) # "new"
    <3>1. PICK i \in DOMAIN Order : Order[i] = s
      BY ItemsAre
    <3>2. i \in 1 .. Len(Order) /\ Len(Order) \in Nat
      BY ItemsAre
    <3>3. item \in Nat /\ item > Len(Order)
      BY <1>1, <2>1 DEF BootstrapInv, TypeOK, MainOK
    <3>4. ~(i >= item)
      BY ONLY <3>2, <3>3
    <3>. QED
      BY <1>1, <3>1, <3>4 DEF BootstrapInv, InOrder
  <2>3. TaskState(s) \in {"disabled"} \union Outcomes
    BY <1>1, <2>1, <2>2 DEF BootstrapInv, HandlesKept
  <2>4. held[s] = NoHandler
    BY <1>1, <2>3 DEF BootstrapInv, TasksHold, Holding, Outcomes
  <2>5. ASSUME ~overridden PROVE TaskState(s) \notin {"err", "panic"}
    BY <1>1, <2>1, <2>5 DEF BootstrapInv, NoneFailed, Reporting
  <2>. QED
    BY <2>3, <2>4, <2>5
<1>. QED
  BY <1>1, Reachable, PTL
=============================================================================
