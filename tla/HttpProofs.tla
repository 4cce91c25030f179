----------------------------- MODULE HttpProofs -----------------------------
(***************************************************************************)
(* Theorems about HttpServer, for any backends, workers and connections,   *)
(* and about TrackedDecode, which decodes what is in its requests, for any *)
(* schemas, contents and number of tokens.                                 *)
(***************************************************************************)
EXTENDS HttpServer, TrackedDecode, SequenceTheorems, TLAPS

USE HttpAssumption
-----------------------------------------------------------------------------
(* The inductive invariant: types, which tasks hold a context of which       *)
(* handler, and that a call of shutdown is owed exactly the open contexts.   *)

Handlers == {Root} \union Backends
Callers  == {Owner} \union Backends

HandlersOK ==
    /\ held \in [Holders -> Handlers \union {NoHandler}]
    /\ done \subseteq Handlers
    /\ phase \in [Callers -> {"idle", "waiting", "returned", "abandoned"}]
    /\ request \in [Callers -> {"cancel", "shutdown"} \X (Handlers \union {NoHandler})]
    /\ owed \in [Callers -> SUBSET Holders]

TasksOK ==
    /\ run \in [Backends -> Phases]
    /\ result \in [Backends -> {"none", "ok", "err", "failed", "dropped"}]
    /\ worker \in [Workers -> {"new", "accepting", "idle"} \union Over]
    /\ conn \in [Conns -> {"outside", "waiting", "setup", "serving", "over"}]
    /\ via \in [Conns -> Workers \union {NoWorker} \union (Backends \X {0})]
    /\ reqs \in [Conns -> {"none", "resolving", "running", "over"}]

TypeOK == HandlersOK /\ TasksOK

\* a connection that was accepted is with a worker, and only such have requests
Routed ==
    \A c \in Conns :
        /\ conn[c] = "outside" => via[c] = NoWorker
        /\ conn[c] \in {"setup", "serving", "over"} => via[c] \in Workers
        /\ conn[c] \in {"outside", "waiting"} => reqs[c] = "none"

\* a run holds the server's context to its end, and worker_ctx from Bind on
RunsHold ==
    \A b \in Backends :
        /\ held[ServerCtx(b)] = IF run[b] \in {"new", "returned"} THEN NoHandler ELSE Root
        /\ held[WorkerCtx(b)] \in {b, NoHandler}
        /\ run[b] \in {"spawn", "join", "close", "free"} => held[WorkerCtx(b)] = b
        /\ run[b] \in {"new", "bind", "shutdown", "end", "returned"} =>
              held[WorkerCtx(b)] = NoHandler

\* a task holds a context of its backend's handler while it runs
TasksHold ==
    /\ \A w \in Workers :
          held[w] = IF worker[w] \in {"accepting", "idle"} THEN w[1] ELSE NoHandler
    /\ \A c \in Conns :
          /\ held[ConnCtx(c)] = IF conn[c] \in {"setup", "serving"} THEN via[c][1] ELSE NoHandler
          /\ held[RequestCtx(c)] = IF reqs[c] = "running" THEN via[c][1] ELSE NoHandler

\* while a call waits, it is owed the contexts that are open, neither fewer nor more
Waits(w, n) == request[w] = <<"shutdown", n>> /\ owed[w] = Global!OpenAt(n)

RunsWait ==
    \A b \in Backends : phase[b] = "waiting" => run[b] = "shutdown" /\ Waits(b, b)

OwnerWaits ==
    /\ phase[Owner] = "waiting" =>
          Waits(Owner, Root) /\ \A b \in Backends : run[b] # "new"
    /\ phase[Owner] = "returned" => \A b \in Backends : run[b] = "returned"

\* a backend that shut down has no context open any more
PastShutdown(b) ==
    result[b] \in {"ok", "err"} /\ run[b] \in {"unwind", "free", "end", "returned"}

Emptied == \A b \in Backends : PastShutdown(b) => Global!OpenAt(b) = {}

HttpInv == TypeOK /\ Routed /\ RunsHold /\ TasksHold /\ RunsWait /\ OwnerWaits /\ Emptied
-----------------------------------------------------------------------------
(* Holders, and what the operations of a handler do to them.                 *)

\* Every task has its own context, and run has two more.
LEMMA HoldersDiffer ==
    /\ \A w \in Workers : w \in Holders /\ w[1] \in Backends
    /\ \A b \in Backends : ServerCtx(b) \in Holders /\ WorkerCtx(b) \in Holders
    /\ \A c \in Conns : ConnCtx(c) \in Holders /\ RequestCtx(c) \in Holders
    /\ \A a, b \in Backends :
          /\ ServerCtx(a) # WorkerCtx(b)
          /\ ServerCtx(a) = ServerCtx(b) => a = b
          /\ WorkerCtx(a) = WorkerCtx(b) => a = b
    /\ \A a \in Backends, w \in Workers : ServerCtx(a) # w /\ WorkerCtx(a) # w
    /\ \A a \in Backends, c \in Conns :
          /\ ServerCtx(a) # ConnCtx(c) /\ ServerCtx(a) # RequestCtx(c)
          /\ WorkerCtx(a) # ConnCtx(c) /\ WorkerCtx(a) # RequestCtx(c)
    /\ \A w \in Workers, c \in Conns : w # ConnCtx(c) /\ w # RequestCtx(c)
    /\ \A c, d \in Conns :
          /\ ConnCtx(c) # RequestCtx(d)
          /\ ConnCtx(c) = ConnCtx(d) => c = d
          /\ RequestCtx(c) = RequestCtx(d) => c = d
<1>1. ASSUME NEW w \in Workers
      PROVE  w \in Holders /\ w[1] \in Backends /\ w[1] \notin {"server", "worker_ctx", "conn", "request"}
  <2>1. PICK b \in Backends : w \in {b} \X (1 .. WorkerTasks[b])
    BY DEF Workers
  <2>. QED
    BY <2>1 DEF Holders
<1>2. \A a, b \in Backends :
          /\ ServerCtx(a) # WorkerCtx(b)
          /\ ServerCtx(a) = ServerCtx(b) => a = b
          /\ WorkerCtx(a) = WorkerCtx(b) => a = b
  BY DEF ServerCtx, WorkerCtx
<1>3. \A a \in Backends, w \in Workers : ServerCtx(a) # w /\ WorkerCtx(a) # w
  BY <1>1 DEF ServerCtx, WorkerCtx
<1>4. \A a \in Backends, c \in Conns :
          /\ ServerCtx(a) # ConnCtx(c) /\ ServerCtx(a) # RequestCtx(c)
          /\ WorkerCtx(a) # ConnCtx(c) /\ WorkerCtx(a) # RequestCtx(c)
  BY DEF ServerCtx, WorkerCtx, ConnCtx, RequestCtx
<1>5. \A w \in Workers, c \in Conns : w # ConnCtx(c) /\ w # RequestCtx(c)
  BY <1>1 DEF ConnCtx, RequestCtx
<1>6. \A c, d \in Conns :
          /\ ConnCtx(c) # RequestCtx(d)
          /\ ConnCtx(c) = ConnCtx(d) => c = d
          /\ RequestCtx(c) = RequestCtx(d) => c = d
  BY DEF ConnCtx, RequestCtx
<1>. QED
  BY <1>1, <1>2, <1>3, <1>4, <1>5, <1>6 DEF Holders

\* Opening a context.
LEMMA OpenEffect ==
    ASSUME HandlersOK, NEW c \in Holders, NEW n \in Handlers, UNCHANGED done, Global!Open(c, n)
    PROVE  /\ HandlersOK' /\ UNCHANGED <<phase, request>>
           /\ \A x \in Holders : held'[x] = IF x = c THEN n ELSE held[x]
           /\ \A w \in Callers : owed'[w] =
                 IF request[w][2] = n /\ owed[w] # {} THEN owed[w] \union {c} ELSE owed[w]
           /\ \A m \in Handlers : Global!OpenAt(m)' =
                 IF m = n THEN Global!OpenAt(m) \union {c} ELSE Global!OpenAt(m)
<1>1. held[c] = NoHandler /\ held' = [held EXCEPT ![c] = n] /\ UNCHANGED <<done, phase, request>>
      /\ owed' = [w \in Callers |->
            IF request[w][2] = n /\ owed[w] # {} THEN owed[w] \union {c} ELSE owed[w]]
  BY DEF Global!Open, Callers
<1>2. held' \in [Holders -> Handlers \union {NoHandler}]
      /\ \A x \in Holders : held'[x] = IF x = c THEN n ELSE held[x]
  BY <1>1 DEF HandlersOK
<1>3. owed' \in [Callers -> SUBSET Holders]
  BY <1>1 DEF HandlersOK
<1>4. \A m \in Handlers : m # NoHandler
  BY DEF Handlers
<1>5. \A m \in Handlers : Global!OpenAt(m)' =
          IF m = n THEN Global!OpenAt(m) \union {c} ELSE Global!OpenAt(m)
  BY <1>1, <1>2, <1>4 DEF Global!OpenAt
<1>. QED
  BY <1>1, <1>2, <1>3, <1>5 DEF HandlersOK

\* Closing a context.
LEMMA CloseEffect ==
    ASSUME HandlersOK, NEW c \in Holders, Global!Close(c)
    PROVE  /\ HandlersOK' /\ UNCHANGED <<phase, request>>
           /\ \A x \in Holders : held'[x] = IF x = c THEN NoHandler ELSE held[x]
           /\ \A w \in Callers : owed'[w] = owed[w] \ {c}
           /\ \A m \in Handlers : Global!OpenAt(m)' = Global!OpenAt(m) \ {c}
<1>1. held' = [held EXCEPT ![c] = NoHandler] /\ UNCHANGED <<done, phase, request>>
      /\ owed' = [w \in Callers |-> owed[w] \ {c}]
  BY DEF Global!Close, Callers
<1>2. held' \in [Holders -> Handlers \union {NoHandler}]
      /\ \A x \in Holders : held'[x] = IF x = c THEN NoHandler ELSE held[x]
  BY <1>1 DEF HandlersOK
<1>3. owed' \in [Callers -> SUBSET Holders]
  BY <1>1 DEF HandlersOK
<1>4. \A m \in Handlers : m # NoHandler
  BY DEF Handlers
<1>5. \A m \in Handlers : Global!OpenAt(m)' = Global!OpenAt(m) \ {c}
  BY <1>1, <1>2, <1>4 DEF Global!OpenAt
<1>. QED
  BY <1>1, <1>2, <1>3, <1>5 DEF HandlersOK

\* Cancelling, calling shutdown, returning from it and dropping it open and
\* close nothing.
LEMMA CallEffect ==
    ASSUME HandlersOK,
           \/ UNCHANGED handlers
           \/ Global!Cancel /\ UNCHANGED phase
           \/ \E w \in Callers : \/ Global!Return(w) \/ Global!Abandon(w)
                                 \/ \E n \in Handlers : Global!Call(w, "shutdown", n)
    PROVE  /\ HandlersOK' /\ UNCHANGED held
           /\ \A m \in Handlers : Global!OpenAt(m)' = Global!OpenAt(m)
<1>1. UNCHANGED held
  BY DEF handlers, Global!Cancel, Global!Return, Global!Abandon, Global!Call
<1>2. \A m \in Handlers : Global!OpenAt(m)' = Global!OpenAt(m)
  BY <1>1 DEF Global!OpenAt
<1>3. ASSUME UNCHANGED handlers PROVE HandlersOK'
  <2>1. UNCHANGED <<held, done, phase, request, owed>>
    BY <1>3 DEF handlers
  <2>. QED
    BY <2>1 DEF HandlersOK
<1>4. ASSUME Global!Cancel, UNCHANGED phase PROVE HandlersOK'
  <2>1. UNCHANGED <<held, phase, request, owed>> /\ done' \subseteq Handlers
    BY <1>4 DEF Global!Cancel, Handlers
  <2>. QED
    BY <2>1 DEF HandlersOK
<1>5. ASSUME NEW w \in Callers, Global!Return(w) \/ Global!Abandon(w)
      PROVE  HandlersOK'
  BY <1>5 DEF Global!Return, Global!Abandon, HandlersOK
<1>6. ASSUME NEW w \in Callers, NEW n \in Handlers, Global!Call(w, "shutdown", n)
      PROVE  HandlersOK'
  <2>1. phase' = [phase EXCEPT ![w] = "waiting"] /\ request' = [request EXCEPT ![w] = <<"shutdown", n>>]
        /\ owed' = [owed EXCEPT ![w] = Global!OpenAt(n)] /\ UNCHANGED <<held, done>>
    BY <1>6 DEF Global!Call
  <2>2. Global!OpenAt(n) \subseteq Holders /\ <<"shutdown", n>> \in {"cancel", "shutdown"} \X (Handlers \union {NoHandler})
    BY DEF Global!OpenAt
  <2>. QED
    BY <2>1, <2>2 DEF HandlersOK
<1>. QED
  BY <1>1, <1>2, <1>3, <1>4, <1>5, <1>6
-----------------------------------------------------------------------------
(* The steps of a run.                                                       *)

\* A run passes its states in order, and gets past its shutdown only when the
\* shutdown returns.
LEMMA RunMoves ==
    ASSUME TypeOK, [Next]_vars, NEW b \in Backends
    PROVE  /\ run[b] # "new" => run'[b] # "new"
           /\ run[b] = "returned" => run'[b] = "returned"
           /\ phase[b] = "waiting" /\ run[b] = "shutdown" =>
                 run'[b] = "shutdown" \/ phase'[b] # "waiting"
           /\ PastShutdown(b)' => PastShutdown(b) \/ (run[b] = "shutdown" /\ Global!Return(b))
<1>. USE DEF TypeOK, TasksOK, PastShutdown
<1>1. CASE UNCHANGED <<run, result>>
  BY <1>1
<1>2. ASSUME NEW a \in Backends, Build(a) \/ Bind(a) \/ BindFails(a) \/ SpawnFails(a) \/ Spawned(a)
                                   \/ Joined(a) \/ CloseWorkerCtx(a)
      PROVE  /\ \A d \in Backends \ {a} : run'[d] = run[d] /\ result'[d] = result[d]
             /\ run[a] \in {"new", "bind", "spawn", "join", "close"}
             /\ run'[a] # "new" /\ (run'[a] \in {"unwind", "end"} => result'[a] = "failed")
             /\ run'[a] \in {"bind", "spawn", "join", "close", "shutdown", "unwind", "end"}
  BY <1>2 DEF Build, Bind, BindFails, SpawnFails, Spawned, Joined, CloseWorkerCtx, Goto, Result, JoinResult
<1>3. ASSUME NEW a \in Backends, ShutdownReturns(a)
      PROVE  /\ \A d \in Backends \ {a} : run'[d] = run[d] /\ result'[d] = result[d]
             /\ run[a] = "shutdown" /\ run'[a] = "unwind" /\ Global!Return(a) /\ phase'[a] = "returned"
  <2>1. Global!Return(a) /\ phase' = [phase EXCEPT ![a] = "returned"] /\ a \in Callers
    BY <1>3 DEF ShutdownReturns, Global!Return, Callers
  <2>. QED
    BY <1>3, <2>1 DEF ShutdownReturns, Goto, HandlersOK
<1>4. ASSUME NEW a \in Backends, DropHandler(a) \/ DropWorkerCtx(a) \/ End(a)
      PROVE  /\ \A d \in Backends \ {a} : run'[d] = run[d] /\ result'[d] = result[d]
             /\ run[a] \in {"unwind", "free", "end"} /\ run'[a] \in {"free", "end", "returned"}
             /\ result'[a] = result[a]
  BY <1>4 DEF DropHandler, DropWorkerCtx, End, Goto
<1>5. ASSUME NEW a \in Backends, DropRun(a)
      PROVE  /\ \A d \in Backends \ {a} : run'[d] = run[d] /\ result'[d] = result[d]
             /\ run[a] \in {"bind", "join", "shutdown"} /\ run'[a] \in {"end", "unwind"}
             /\ result'[a] = "dropped" /\ (phase[a] = "waiting" => phase'[a] = "abandoned")
  <2>1. phase[a] = "waiting" => phase' = [phase EXCEPT ![a] = "abandoned"]
    BY <1>5 DEF DropRun, Global!Abandon
  <2>2. a \in Callers
    BY DEF Callers
  <2>3. phase[a] = "waiting" => phase'[a] = "abandoned"
    BY <2>1, <2>2 DEF HandlersOK
  <2>. QED
    BY <1>5, <2>3 DEF DropRun, Goto, Result
<1>6. ASSUME NEW a \in Backends, CallShutdown(a) \/ CancelWorkers(a) PROVE UNCHANGED <<run, result>>
  BY <1>6 DEF CallShutdown, CancelWorkers
<1>7. ASSUME NEW w \in Workers,
             \/ Spawn(w) \/ StopAccepting(w) \/ WaitIdle(w) \/ WorkerFails(w)
             \/ EndpointLost(w) \/ WorkerPanics(w) \/ \E c \in Conns : Accept(w, c)
      PROVE  UNCHANGED <<run, result>>
  BY <1>7 DEF Spawn, StopAccepting, WaitIdle, WorkerFails, EndpointLost, WorkerPanics, Accept
<1>8. CASE OwnerShutdown \/ OwnerCancels \/ OwnerReturns \/ UNCHANGED vars
  BY <1>1, <1>8 DEF OwnerShutdown, OwnerCancels, OwnerReturns, vars
<1>9. ASSUME NEW c \in Conns, \/ \E a \in Backends : Arrive(c, a)
                              \/ Established(c) \/ EndConn(c) \/ AcceptStream(c)
                              \/ StartRequest(c) \/ ResolveFails(c) \/ EndRequest(c)
      PROVE  UNCHANGED <<run, result>>
  BY <1>9 DEF Arrive, Established, EndConn, AcceptStream, StartRequest, ResolveFails, EndRequest
<1>10. ASSUME NEW a \in Backends, RunStep(a) \/ RunFails(a)
       PROVE  /\ run[b] # "new" => run'[b] # "new"
              /\ run[b] = "returned" => run'[b] = "returned"
              /\ phase[b] = "waiting" /\ run[b] = "shutdown" =>
                    run'[b] = "shutdown" \/ phase'[b] # "waiting"
              /\ PastShutdown(b)' => PastShutdown(b) \/ (run[b] = "shutdown" /\ Global!Return(b))
  <2>1. CASE a # b
    <3>1. run'[b] = run[b] /\ result'[b] = result[b]
      BY <1>2, <1>3, <1>4, <1>5, <1>6, <1>7, <1>10, <2>1 DEF RunStep, RunFails, WorkersOf
    <3>. QED
      BY <3>1
  <2>2. CASE a = b
    BY <1>2, <1>3, <1>4, <1>5, <1>6, <1>7, <1>10, <2>2 DEF RunStep, RunFails, WorkersOf
  <2>. QED
    BY <2>1, <2>2
<1>. QED
  BY <1>1, <1>7, <1>8, <1>9, <1>10 DEF Next
-----------------------------------------------------------------------------
(* What each step does to the handlers, and to the states of tasks.          *)

\* who may open a context of a handler: a run that starts, or a task that holds
\* a context of it already
MayOpen(n) ==
    IF n = Root THEN \E b \in Backends : run[b] = "new"
    ELSE run[n] \in {"bind", "spawn"} \/ Global!OpenAt(n) # {}

Opens(c, n) == c \in Holders /\ n \in Handlers /\ MayOpen(n) /\ UNCHANGED done /\ Global!Open(c, n)

Calls(w, n) ==
    /\ n \in Handlers /\ Global!Call(w, "shutdown", n)
    /\ \/ w = Owner /\ n = Root /\ \A b \in Backends : run[b] # "new" /\ run'[b] = run[b]
       \/ w \in Backends /\ n = w /\ run[w] = "shutdown" /\ run' = run

HandlerStep ==
    \/ \E c \in Holders, n \in Handlers : Opens(c, n)
    \/ \E c \in Holders : Global!Close(c)
    \/ UNCHANGED handlers
    \/ Global!Cancel /\ UNCHANGED phase
    \/ \E w \in Callers : \/ Global!Return(w) \/ Global!Abandon(w)
                          \/ \E n \in Handlers : Calls(w, n)

\* The steps of a run open, close, cancel and shut down what they should.
LEMMA RunHandles ==
    ASSUME TypeOK, NEW b \in Backends, RunStep(b) \/ RunFails(b)
    PROVE  HandlerStep
<1>. USE DEF HandlerStep, Handlers, Callers
<1>1. CASE Build(b)
  <2>1. ServerCtx(b) \in Holders /\ Opens(ServerCtx(b), Root)
    BY <1>1, HoldersDiffer DEF Build, Opens, MayOpen
  <2>. QED
    BY <2>1
<1>2. CASE Bind(b)
  <2>1. WorkerCtx(b) \in Holders /\ Opens(WorkerCtx(b), b)
    BY <1>2, HoldersDiffer DEF Bind, Opens, MayOpen
  <2>. QED
    BY <2>1
<1>3. ASSUME NEW w \in WorkersOf(b), Spawn(w) PROVE HandlerStep
  <2>1. w \in Holders /\ w[1] = b /\ Opens(w, b)
    BY <1>3, HoldersDiffer DEF Spawn, Opens, MayOpen, WorkersOf
  <2>. QED
    BY <2>1
<1>4. CASE CloseWorkerCtx(b) \/ DropWorkerCtx(b) \/ End(b)
  BY <1>4, HoldersDiffer DEF CloseWorkerCtx, DropWorkerCtx, End
<1>5. CASE CallShutdown(b)
  <2>1. Calls(b, b)
    BY <1>5 DEF CallShutdown, Calls
  <2>. QED
    BY <2>1
<1>6. CASE CancelWorkers(b) \/ DropHandler(b)
  BY <1>6 DEF CancelWorkers, DropHandler
<1>7. CASE ShutdownReturns(b)
  BY <1>7 DEF ShutdownReturns
<1>8. CASE DropRun(b)
  BY <1>8 DEF DropRun
<1>9. CASE BindFails(b) \/ SpawnFails(b) \/ Spawned(b) \/ Joined(b)
  BY <1>9 DEF BindFails, SpawnFails, Spawned, Joined
<1>. QED
  BY <1>1, <1>2, <1>3, <1>4, <1>5, <1>6, <1>7, <1>8, <1>9 DEF RunStep, RunFails

\* A worker or connection opens a context only while it holds one.
LEMMA TaskHandles ==
    ASSUME TypeOK, Routed, TasksHold,
           \/ \E w \in Workers : \/ StopAccepting(w) \/ WaitIdle(w) \/ \E c \in Conns : Accept(w, c)
                                 \/ WorkerFails(w) \/ EndpointLost(w) \/ WorkerPanics(w)
           \/ \E c \in Conns, b \in Backends : Arrive(c, b)
           \/ \E c \in Conns : Established(c) \/ EndConn(c) \/ AcceptStream(c)
                                \/ StartRequest(c) \/ ResolveFails(c) \/ EndRequest(c)
    PROVE  HandlerStep
<1>. USE DEF HandlerStep
<1>1. ASSUME NEW w \in Workers, NEW c \in Conns, Accept(w, c) PROVE HandlerStep
  <2>1. w \in Global!OpenAt(w[1]) /\ w[1] \in Backends /\ ConnCtx(c) \in Holders
    BY <1>1, HoldersDiffer DEF Accept, TasksHold, Global!OpenAt, Holders
  <2>2. Opens(ConnCtx(c), w[1]) /\ w[1] \in Handlers
    BY <1>1, <2>1 DEF Accept, Opens, MayOpen, Handlers
  <2>. QED
    BY <2>1, <2>2
<1>2. ASSUME NEW c \in Conns, StartRequest(c) PROVE HandlerStep
  <2>1. via[c] \in Workers /\ via[c][1] \in Backends /\ held[ConnCtx(c)] = via[c][1]
    BY <1>2, HoldersDiffer DEF StartRequest, Routed, TasksHold
  <2>2. ConnCtx(c) \in Global!OpenAt(via[c][1]) /\ RequestCtx(c) \in Holders
    BY <2>1, HoldersDiffer DEF Global!OpenAt, Holders
  <2>3. Opens(RequestCtx(c), via[c][1]) /\ via[c][1] \in Handlers
    BY <1>2, <2>1, <2>2 DEF StartRequest, Opens, MayOpen, Handlers
  <2>. QED
    BY <2>2, <2>3
<1>3. ASSUME NEW w \in Workers,
             \/ StopAccepting(w) \/ WaitIdle(w)
             \/ WorkerFails(w) \/ EndpointLost(w) \/ WorkerPanics(w)
      PROVE  HandlerStep
  BY <1>3, HoldersDiffer
     DEF StopAccepting, WaitIdle, WorkerFails, EndpointLost, WorkerPanics, EndWorker, Idle
<1>4. ASSUME NEW c \in Conns, EndConn(c) \/ EndRequest(c) PROVE HandlerStep
  BY <1>4, HoldersDiffer DEF EndConn, EndRequest
<1>5. ASSUME NEW c \in Conns, \/ Established(c) \/ AcceptStream(c) \/ ResolveFails(c)
                              \/ \E b \in Backends : Arrive(c, b)
      PROVE  HandlerStep
  BY <1>5 DEF Established, AcceptStream, ResolveFails, Arrive
<1>. QED
  BY <1>1, <1>2, <1>3, <1>4, <1>5

\* So every step is one operation on the handlers.
LEMMA Handles == TypeOK /\ Routed /\ TasksHold /\ [Next]_vars => HandlerStep
<1>. SUFFICES ASSUME TypeOK, Routed, TasksHold, [Next]_vars PROVE HandlerStep
  OBVIOUS
<1>1. CASE UNCHANGED vars \/ OwnerCancels \/ OwnerReturns
  BY <1>1 DEF HandlerStep, vars, OwnerCancels, OwnerReturns, Callers
<1>2. CASE OwnerShutdown
  <2>1. Calls(Owner, Root) /\ Owner \in Callers /\ Root \in Handlers
    BY <1>2 DEF OwnerShutdown, Calls, Callers, Handlers
  <2>. QED
    BY <2>1 DEF HandlerStep
<1>. QED
  BY <1>1, <1>2, RunHandles, TaskHandles DEF Next

\* An operation keeps the handlers in their types.
LEMMA HandlersTyped == HandlersOK /\ HandlerStep => HandlersOK'
BY OpenEffect, CloseEffect, CallEffect DEF HandlerStep, Opens, Calls

\* Every step keeps the tasks in their types.
LEMMA TasksTyped == TypeOK /\ [Next]_vars => TasksOK'
<1>. SUFFICES ASSUME TypeOK, [Next]_vars PROVE TasksOK'
  OBVIOUS
<1>. USE DEF TypeOK, TasksOK
<1>1. ASSUME NEW b \in Backends, RunFails(b) \/ RunStep(b) PROVE TasksOK'
  <2>1. CASE \E w \in WorkersOf(b) : Spawn(w)
    BY <2>1 DEF Spawn, WorkersOf
  <2>2. CASE Build(b) \/ Bind(b) \/ BindFails(b) \/ SpawnFails(b) \/ Spawned(b) \/ CloseWorkerCtx(b)
    BY <2>2 DEF Build, Bind, BindFails, SpawnFails, Spawned, CloseWorkerCtx, Goto, Result, tasks, Phases
  <2>3. CASE Joined(b)
    BY <2>3 DEF Joined, JoinResult, Goto, Result, tasks, Phases
  <2>4. CASE CallShutdown(b) \/ CancelWorkers(b) \/ ShutdownReturns(b)
    BY <2>4 DEF CallShutdown, CancelWorkers, ShutdownReturns, Goto, tasks, Phases
  <2>5. CASE DropHandler(b) \/ DropWorkerCtx(b) \/ End(b) \/ DropRun(b)
    BY <2>5 DEF DropHandler, DropWorkerCtx, End, DropRun, Goto, Result, tasks, Phases
  <2>. QED
    BY <1>1, <2>1, <2>2, <2>3, <2>4, <2>5 DEF RunStep, RunFails
<1>2. ASSUME NEW w \in Workers,
             \/ StopAccepting(w) \/ WaitIdle(w)
             \/ WorkerFails(w) \/ EndpointLost(w) \/ WorkerPanics(w)
      PROVE  TasksOK'
  BY <1>2 DEF StopAccepting, WaitIdle, WorkerFails, EndpointLost, WorkerPanics, EndWorker, Idle, Over
<1>3. ASSUME NEW w \in Workers, NEW c \in Conns, Accept(w, c) PROVE TasksOK'
  BY <1>3 DEF Accept
<1>4. ASSUME NEW c \in Conns, NEW b \in Backends, Arrive(c, b) PROVE TasksOK'
  BY <1>4 DEF Arrive
<1>5. ASSUME NEW c \in Conns, \/ Established(c) \/ EndConn(c) \/ AcceptStream(c)
                              \/ StartRequest(c) \/ ResolveFails(c) \/ EndRequest(c)
      PROVE  TasksOK'
  BY <1>5 DEF Established, EndConn, AcceptStream, StartRequest, ResolveFails, EndRequest
<1>6. CASE OwnerShutdown \/ OwnerCancels \/ OwnerReturns \/ UNCHANGED vars
  BY <1>6 DEF OwnerShutdown, OwnerCancels, OwnerReturns, vars, tasks
<1>. QED
  BY <1>1, <1>2, <1>3, <1>4, <1>5, <1>6 DEF Next
-----------------------------------------------------------------------------
(* Tasks hold their contexts.                                                *)

\* Connections are routed to workers before they are served.
LEMMA StepRouted == TypeOK /\ Routed /\ [Next]_vars => Routed'
<1>. SUFFICES ASSUME TypeOK, Routed, [Next]_vars PROVE Routed'
  OBVIOUS
<1>. USE DEF TypeOK, TasksOK, Routed
<1>1. CASE UNCHANGED <<conn, via, reqs>>
  BY <1>1
<1>2. ASSUME NEW w \in Workers, NEW c \in Conns, Accept(w, c) PROVE Routed'
  BY <1>2 DEF Accept, Waiting
<1>3. ASSUME NEW c \in Conns, NEW b \in Backends, Arrive(c, b) PROVE Routed'
  BY <1>3 DEF Arrive
<1>4. ASSUME NEW c \in Conns, \/ Established(c) \/ EndConn(c) \/ AcceptStream(c)
                              \/ StartRequest(c) \/ ResolveFails(c) \/ EndRequest(c)
      PROVE  Routed'
  BY <1>4 DEF Established, EndConn, AcceptStream, StartRequest, ResolveFails, EndRequest
<1>5. ASSUME NEW w \in Workers,
             \/ StopAccepting(w) \/ WaitIdle(w)
             \/ WorkerFails(w) \/ EndpointLost(w) \/ WorkerPanics(w)
      PROVE  UNCHANGED <<conn, via, reqs>>
  BY <1>5 DEF StopAccepting, WaitIdle, WorkerFails, EndpointLost, WorkerPanics
<1>6. ASSUME NEW b \in Backends, RunFails(b) \/ RunStep(b) PROVE UNCHANGED <<conn, via, reqs>>
  BY <1>6 DEF RunStep, RunFails, tasks, Build, Bind, BindFails, Spawn, SpawnFails, Spawned, Joined,
     CloseWorkerCtx, CallShutdown, CancelWorkers, ShutdownReturns, DropHandler, DropWorkerCtx,
     End, DropRun
<1>7. CASE OwnerShutdown \/ OwnerCancels \/ OwnerReturns \/ UNCHANGED vars
  BY <1>1, <1>7 DEF OwnerShutdown, OwnerCancels, OwnerReturns, vars, tasks
<1>. QED
  BY <1>1, <1>2, <1>3, <1>4, <1>5, <1>6, <1>7 DEF Next

\* A step of another component leaves what a run holds.
LEMMA RunsHoldKept ==
    ASSUME RunsHold, run' = run,
           \A b \in Backends : /\ held'[ServerCtx(b)] = held[ServerCtx(b)]
                               /\ held'[WorkerCtx(b)] = held[WorkerCtx(b)]
    PROVE  RunsHold'
BY DEF RunsHold

\* A run takes the server's context first and drops it last, and has worker_ctx
\* from Bind until it closes it.
LEMMA RunHolds ==
    ASSUME TypeOK, RunsHold, NEW b \in Backends, RunStep(b) \/ RunFails(b)
    PROVE  RunsHold'
<1>. USE DEF TypeOK, TasksOK
<1>0. b \in Handlers /\ Root \in Handlers /\ b \in Callers
      /\ ServerCtx(b) \in Holders /\ WorkerCtx(b) \in Holders
  BY HoldersDiffer DEF Handlers, Callers
<1>1. ASSUME \A a \in Backends \ {b} :
                /\ run'[a] = run[a] /\ held'[ServerCtx(a)] = held[ServerCtx(a)]
                /\ held'[WorkerCtx(a)] = held[WorkerCtx(a)],
             held'[ServerCtx(b)] = IF run'[b] \in {"new", "returned"} THEN NoHandler ELSE Root,
             held'[WorkerCtx(b)] \in {b, NoHandler},
             run'[b] \in {"spawn", "join", "close", "free"} => held'[WorkerCtx(b)] = b,
             run'[b] \in {"new", "bind", "shutdown", "end", "returned"} =>
                 held'[WorkerCtx(b)] = NoHandler
      PROVE  RunsHold'
  BY <1>1 DEF RunsHold
<1>2. CASE Build(b)
  <2>1. Global!Open(ServerCtx(b), Root) /\ run[b] = "new" /\ run' = [run EXCEPT ![b] = "bind"]
        /\ done' = done
    BY <1>2 DEF Build, Goto
  <2>2. \A x \in Holders : held'[x] = IF x = ServerCtx(b) THEN Root ELSE held[x]
    BY <1>0, <2>1, OpenEffect
  <2>3. /\ held'[ServerCtx(b)] = Root /\ held'[WorkerCtx(b)] = held[WorkerCtx(b)]
        /\ \A a \in Backends \ {b} : /\ held'[ServerCtx(a)] = held[ServerCtx(a)]
                                     /\ held'[WorkerCtx(a)] = held[WorkerCtx(a)]
    BY <1>0, <2>2, HoldersDiffer
  <2>4. run'[b] = "bind" /\ \A a \in Backends \ {b} : run'[a] = run[a]
    BY <2>1
  <2>. QED
    BY <1>1, <2>1, <2>3, <2>4 DEF RunsHold
<1>3. CASE Bind(b)
  <2>1. Global!Open(WorkerCtx(b), b) /\ run[b] = "bind" /\ run' = [run EXCEPT ![b] = "spawn"]
        /\ done' = done
    BY <1>3 DEF Bind, Goto
  <2>2. \A x \in Holders : held'[x] = IF x = WorkerCtx(b) THEN b ELSE held[x]
    BY <1>0, <2>1, OpenEffect
  <2>3. /\ held'[ServerCtx(b)] = held[ServerCtx(b)] /\ held'[WorkerCtx(b)] = b
        /\ \A a \in Backends \ {b} : /\ held'[ServerCtx(a)] = held[ServerCtx(a)]
                                     /\ held'[WorkerCtx(a)] = held[WorkerCtx(a)]
    BY <1>0, <2>2, HoldersDiffer
  <2>4. run'[b] = "spawn" /\ \A a \in Backends \ {b} : run'[a] = run[a]
    BY <2>1
  <2>. QED
    BY <1>1, <2>1, <2>3, <2>4 DEF RunsHold
<1>4. ASSUME NEW w \in WorkersOf(b), Spawn(w) PROVE RunsHold'
  <2>1. Global!Open(w, w[1]) /\ run' = run /\ done' = done /\ w[1] \in Handlers /\ w \in Workers
    BY <1>0, <1>4 DEF Spawn, WorkersOf
  <2>2. \A x \in Holders : x # w => held'[x] = held[x]
    BY <2>1, OpenEffect, HoldersDiffer
  <2>. QED
    BY <2>1, <2>2, HoldersDiffer, RunsHoldKept
<1>5. CASE CloseWorkerCtx(b) \/ DropWorkerCtx(b)
  <2>1. Global!Close(WorkerCtx(b)) /\ run[b] \in {"close", "free"} /\ run'[b] \in {"shutdown", "end"}
        /\ \A a \in Backends \ {b} : run'[a] = run[a]
    BY <1>5 DEF CloseWorkerCtx, DropWorkerCtx, Goto
  <2>2. \A x \in Holders : held'[x] = IF x = WorkerCtx(b) THEN NoHandler ELSE held[x]
    BY <1>0, <2>1, CloseEffect
  <2>. QED
    BY <1>0, <1>1, <2>1, <2>2, HoldersDiffer DEF RunsHold
<1>6. CASE End(b)
  <2>1. Global!Close(ServerCtx(b)) /\ run[b] = "end" /\ run' = [run EXCEPT ![b] = "returned"]
    BY <1>6 DEF End, Goto
  <2>2. \A x \in Holders : held'[x] = IF x = ServerCtx(b) THEN NoHandler ELSE held[x]
    BY <1>0, <2>1, CloseEffect
  <2>3. /\ held'[ServerCtx(b)] = NoHandler /\ held'[WorkerCtx(b)] = held[WorkerCtx(b)]
        /\ \A a \in Backends \ {b} : /\ held'[ServerCtx(a)] = held[ServerCtx(a)]
                                     /\ held'[WorkerCtx(a)] = held[WorkerCtx(a)]
    BY <1>0, <2>2, HoldersDiffer
  <2>4. run'[b] = "returned" /\ \A a \in Backends \ {b} : run'[a] = run[a]
    BY <2>1
  <2>. QED
    BY <1>1, <2>1, <2>3, <2>4 DEF RunsHold
<1>7. CASE CallShutdown(b) \/ CancelWorkers(b)
  <2>1. run' = run /\ held' = held
    BY <1>7 DEF CallShutdown, CancelWorkers, Global!Call, Global!Cancel
  <2>. QED
    BY <2>1, RunsHoldKept
<1>8. CASE BindFails(b) \/ SpawnFails(b) \/ Spawned(b) \/ Joined(b) \/ ShutdownReturns(b)
  <2>1. /\ held' = held /\ \A a \in Backends \ {b} : run'[a] = run[a]
        /\ \/ run[b] = "bind" /\ run'[b] = "end"
           \/ run[b] = "spawn" /\ run'[b] \in {"unwind", "join"}
           \/ run[b] = "join" /\ run'[b] = "close"
           \/ run[b] = "shutdown" /\ run'[b] = "unwind"
    BY <1>8 DEF BindFails, SpawnFails, Spawned, Joined, ShutdownReturns, Goto, handlers, Global!Return
  <2>. QED
    BY <1>1, <2>1 DEF RunsHold
<1>9. CASE DropHandler(b)
  <2>1. /\ held' = held /\ \A a \in Backends \ {b} : run'[a] = run[a]
        /\ run[b] = "unwind" /\ run'[b] = IF held[WorkerCtx(b)] = b THEN "free" ELSE "end"
    BY <1>9 DEF DropHandler, Goto, Global!Cancel
  <2>. QED
    BY <1>1, <2>1 DEF RunsHold
<1>10. CASE DropRun(b)
  <2>1. /\ held' = held /\ \A a \in Backends \ {b} : run'[a] = run[a]
        /\ \/ run[b] = "bind" /\ run'[b] = "end"
           \/ run[b] \in {"join", "shutdown"} /\ run'[b] = "unwind"
    BY <1>10 DEF DropRun, Goto, Global!Abandon, handlers
  <2>. QED
    BY <1>1, <2>1 DEF RunsHold
<1>. QED
  BY <1>2, <1>3, <1>4, <1>5, <1>6, <1>7, <1>8, <1>9, <1>10 DEF RunStep, RunFails

\* Every step keeps what runs hold.
LEMMA StepRunsHold == TypeOK /\ Routed /\ RunsHold /\ [Next]_vars => RunsHold'
<1>. SUFFICES ASSUME TypeOK, Routed, RunsHold, [Next]_vars PROVE RunsHold'
  OBVIOUS
<1>1. ASSUME NEW x \in Holders,
             \A b \in Backends : ServerCtx(b) # x /\ WorkerCtx(b) # x,
             run' = run,
             \/ Global!Close(x)
             \/ done' = done /\ \E n \in Handlers : Global!Open(x, n)
      PROVE  RunsHold'
  <2>1. \A y \in Holders : y # x => held'[y] = held[y]
    BY <1>1, OpenEffect, CloseEffect DEF TypeOK
  <2>. QED
    BY <1>1, <2>1, HoldersDiffer, RunsHoldKept
<1>2. CASE UNCHANGED <<held, run>>
  BY <1>2, RunsHoldKept
<1>3. ASSUME NEW w \in Workers, NEW c \in Conns, Accept(w, c) PROVE RunsHold'
  <2>1. /\ Global!Open(ConnCtx(c), w[1]) /\ done' = done /\ run' = run
        /\ w[1] \in Handlers /\ ConnCtx(c) \in Holders
    BY <1>3, HoldersDiffer DEF Accept, Handlers
  <2>. QED
    BY <1>1, <2>1, HoldersDiffer
<1>4. ASSUME NEW c \in Conns, StartRequest(c) PROVE RunsHold'
  <2>1. /\ Global!Open(RequestCtx(c), via[c][1]) /\ done' = done /\ run' = run
        /\ via[c][1] \in Handlers /\ RequestCtx(c) \in Holders
    BY <1>4, HoldersDiffer DEF StartRequest, Handlers, Routed
  <2>. QED
    BY <1>1, <2>1, HoldersDiffer
<1>5. ASSUME NEW c \in Conns, EndConn(c) \/ EndRequest(c) PROVE RunsHold'
  <2>1. run' = run /\ ConnCtx(c) \in Holders /\ RequestCtx(c) \in Holders
        /\ (Global!Close(ConnCtx(c)) \/ Global!Close(RequestCtx(c)))
    BY <1>5, HoldersDiffer DEF EndConn, EndRequest
  <2>. QED
    BY <1>1, <2>1, HoldersDiffer
<1>6. ASSUME NEW w \in Workers,
             \/ StopAccepting(w) \/ WaitIdle(w)
             \/ WorkerFails(w) \/ EndpointLost(w) \/ WorkerPanics(w)
      PROVE  RunsHold'
  <2>1. run' = run /\ w \in Holders /\ (Global!Close(w) \/ UNCHANGED held)
    BY <1>6, HoldersDiffer DEF StopAccepting, WaitIdle, WorkerFails, EndpointLost, WorkerPanics,
       EndWorker, Idle, handlers
  <2>. QED
    BY <1>1, <1>2, <2>1, HoldersDiffer
<1>7. ASSUME NEW c \in Conns, \/ Established(c) \/ AcceptStream(c) \/ ResolveFails(c)
                              \/ \E b \in Backends : Arrive(c, b)
      PROVE  RunsHold'
  BY <1>2, <1>7 DEF Established, AcceptStream, ResolveFails, Arrive, handlers
<1>8. CASE OwnerShutdown \/ OwnerCancels \/ OwnerReturns \/ UNCHANGED vars
  BY <1>2, <1>8 DEF OwnerShutdown, OwnerCancels, OwnerReturns, vars, handlers,
     Global!Call, Global!Cancel, Global!Return
<1>. QED
  BY <1>3, <1>4, <1>5, <1>6, <1>7, <1>8, RunHolds DEF Next

\* Runs do not touch the contexts of tasks, except that Spawn gives a worker its own.
LEMMA RunLeavesTasks ==
    ASSUME TypeOK, TasksHold, NEW b \in Backends, RunStep(b) \/ RunFails(b)
    PROVE  TasksHold'
<1>0. b \in Handlers /\ Root \in Handlers /\ b \in Callers
      /\ ServerCtx(b) \in Holders /\ WorkerCtx(b) \in Holders
  BY HoldersDiffer DEF Handlers, Callers
<1>1. ASSUME NEW x \in {ServerCtx(b), WorkerCtx(b)}, UNCHANGED tasks,
             \A y \in Holders : y # x => held'[y] = held[y]
      PROVE  TasksHold'
  <2>1. \A w \in Workers : held'[w] = held[w]
    BY <1>1, HoldersDiffer
  <2>2. \A c \in Conns : held'[ConnCtx(c)] = held[ConnCtx(c)] /\ held'[RequestCtx(c)] = held[RequestCtx(c)]
    BY <1>1, HoldersDiffer
  <2>. QED
    BY <1>1, <2>1, <2>2 DEF TasksHold, tasks
<1>2. ASSUME NEW x \in {ServerCtx(b), WorkerCtx(b)}, NEW n \in Handlers,
             UNCHANGED tasks, done' = done, Global!Open(x, n)
      PROVE  TasksHold'
  <2>1. HandlersOK /\ x \in Holders
    BY <1>0 DEF TypeOK
  <2>2. \A y \in Holders : y # x => held'[y] = held[y]
    BY <1>2, <2>1, OpenEffect
  <2>. QED
    BY <1>1, <1>2, <2>2
<1>3. ASSUME NEW x \in {ServerCtx(b), WorkerCtx(b)}, UNCHANGED tasks, Global!Close(x)
      PROVE  TasksHold'
  <2>1. HandlersOK /\ x \in Holders
    BY <1>0 DEF TypeOK
  <2>2. \A y \in Holders : y # x => held'[y] = held[y]
    BY <1>3, <2>1, CloseEffect
  <2>. QED
    BY <1>1, <1>3, <2>2
<1>4. CASE Build(b) \/ Bind(b)
  BY <1>0, <1>2, <1>4 DEF Build, Bind
<1>5. CASE CloseWorkerCtx(b) \/ DropWorkerCtx(b) \/ End(b)
  BY <1>3, <1>5 DEF CloseWorkerCtx, DropWorkerCtx, End
<1>6. CASE UNCHANGED <<held, tasks>>
  BY <1>6 DEF TasksHold, tasks
<1>7. CASE \/ CallShutdown(b) \/ CancelWorkers(b) \/ ShutdownReturns(b)
           \/ DropHandler(b) \/ DropRun(b)
  BY <1>6, <1>7 DEF CallShutdown, CancelWorkers, ShutdownReturns, DropHandler, DropRun, handlers,
     Global!Call, Global!Cancel, Global!Return, Global!Abandon
<1>8. CASE BindFails(b) \/ SpawnFails(b) \/ Spawned(b) \/ Joined(b)
  BY <1>6, <1>8 DEF BindFails, SpawnFails, Spawned, Joined, handlers
<1>9. ASSUME NEW w \in WorkersOf(b), Spawn(w) PROVE TasksHold'
  <2>1. /\ Global!Open(w, w[1]) /\ done' = done /\ w \in Workers /\ w \in Holders /\ w[1] \in Handlers
        /\ worker' = [worker EXCEPT ![w] = "accepting"] /\ UNCHANGED <<conn, via, reqs>>
    BY <1>9, HoldersDiffer DEF Spawn, WorkersOf, Handlers
  <2>2. \A y \in Holders : held'[y] = IF y = w THEN w[1] ELSE held[y]
    BY <2>1, OpenEffect DEF TypeOK
  <2>3. \A v \in Workers :
            held'[v] = IF worker'[v] \in {"accepting", "idle"} THEN v[1] ELSE NoHandler
    <3>1. \A v \in Workers : /\ held'[v] = IF v = w THEN w[1] ELSE held[v]
                             /\ worker'[v] = IF v = w THEN "accepting" ELSE worker[v]
      BY <2>1, <2>2, HoldersDiffer DEF TypeOK, TasksOK
    <3>. QED
      BY <3>1 DEF TasksHold
  <2>4. \A c \in Conns : held'[ConnCtx(c)] = held[ConnCtx(c)] /\ held'[RequestCtx(c)] = held[RequestCtx(c)]
    BY <2>1, <2>2, HoldersDiffer
  <2>. QED
    BY <2>1, <2>3, <2>4 DEF TasksHold
<1>. QED
  BY <1>4, <1>5, <1>7, <1>8, <1>9 DEF RunStep, RunFails

\* Tasks take a context of their backend's handler as they start, and drop it
\* as they end.
LEMMA StepTasksHold == TypeOK /\ Routed /\ TasksHold /\ [Next]_vars => TasksHold'
<1>. SUFFICES ASSUME TypeOK, Routed, TasksHold, [Next]_vars PROVE TasksHold'
  OBVIOUS
<1>1. ASSUME NEW w \in Workers, NEW c \in Conns, Accept(w, c) PROVE TasksHold'
  <2>1. /\ Global!Open(ConnCtx(c), w[1]) /\ done' = done
        /\ w[1] \in Handlers /\ ConnCtx(c) \in Holders
        /\ conn' = [conn EXCEPT ![c] = "setup"] /\ via' = [via EXCEPT ![c] = w]
        /\ UNCHANGED <<worker, reqs>> /\ conn[c] = "waiting" /\ reqs[c] = "none"
    BY <1>1, HoldersDiffer DEF Accept, Waiting, Routed, Handlers
  <2>2. \A y \in Holders : held'[y] = IF y = ConnCtx(c) THEN w[1] ELSE held[y]
    BY <2>1, OpenEffect DEF TypeOK
  <2>3. \A v \in Workers : held'[v] = held[v]
    BY <2>2, HoldersDiffer
  <2>4. \A d \in Conns : /\ held'[ConnCtx(d)] = IF d = c THEN w[1] ELSE held[ConnCtx(d)]
                         /\ held'[RequestCtx(d)] = held[RequestCtx(d)]
    BY <2>1, <2>2, HoldersDiffer
  <2>5. \A d \in Conns : /\ conn'[d] = IF d = c THEN "setup" ELSE conn[d]
                         /\ via'[d] = IF d = c THEN w ELSE via[d]
    BY <2>1 DEF TypeOK, TasksOK
  <2>. QED
    BY <2>1, <2>3, <2>4, <2>5 DEF TasksHold
<1>2. ASSUME NEW c \in Conns, StartRequest(c) PROVE TasksHold'
  <2>1. /\ Global!Open(RequestCtx(c), via[c][1]) /\ done' = done
        /\ via[c][1] \in Handlers /\ RequestCtx(c) \in Holders
        /\ reqs' = [reqs EXCEPT ![c] = "running"] /\ UNCHANGED <<worker, conn, via>>
    BY <1>2, HoldersDiffer DEF StartRequest, Routed, Handlers
  <2>2. \A y \in Holders : held'[y] = IF y = RequestCtx(c) THEN via[c][1] ELSE held[y]
    BY <2>1, OpenEffect DEF TypeOK
  <2>3. \A v \in Workers : held'[v] = held[v]
    BY <2>2, HoldersDiffer
  <2>4. \A d \in Conns : /\ held'[ConnCtx(d)] = held[ConnCtx(d)]
                         /\ held'[RequestCtx(d)] = IF d = c THEN via[c][1] ELSE held[RequestCtx(d)]
    BY <2>1, <2>2, HoldersDiffer
  <2>5. \A d \in Conns : reqs'[d] = IF d = c THEN "running" ELSE reqs[d]
    BY <2>1 DEF TypeOK, TasksOK
  <2>. QED
    BY <2>1, <2>3, <2>4, <2>5 DEF TasksHold
<1>3. ASSUME NEW c \in Conns, EndConn(c) PROVE TasksHold'
  <2>1. /\ Global!Close(ConnCtx(c)) /\ ConnCtx(c) \in Holders
        /\ conn' = [conn EXCEPT ![c] = "over"] /\ UNCHANGED <<worker, via, reqs>>
    BY <1>3, HoldersDiffer DEF EndConn
  <2>2. \A y \in Holders : held'[y] = IF y = ConnCtx(c) THEN NoHandler ELSE held[y]
    BY <2>1, CloseEffect DEF TypeOK
  <2>3. \A v \in Workers : held'[v] = held[v]
    BY <2>2, HoldersDiffer
  <2>4. \A d \in Conns : /\ held'[ConnCtx(d)] = IF d = c THEN NoHandler ELSE held[ConnCtx(d)]
                         /\ held'[RequestCtx(d)] = held[RequestCtx(d)]
    BY <2>1, <2>2, HoldersDiffer
  <2>5. \A d \in Conns : conn'[d] = IF d = c THEN "over" ELSE conn[d]
    BY <2>1 DEF TypeOK, TasksOK
  <2>. QED
    BY <2>1, <2>3, <2>4, <2>5 DEF TasksHold
<1>4. ASSUME NEW c \in Conns, EndRequest(c) PROVE TasksHold'
  <2>1. /\ Global!Close(RequestCtx(c)) /\ RequestCtx(c) \in Holders
        /\ reqs' = [reqs EXCEPT ![c] = "over"] /\ UNCHANGED <<worker, conn, via>>
    BY <1>4, HoldersDiffer DEF EndRequest
  <2>2. \A y \in Holders : held'[y] = IF y = RequestCtx(c) THEN NoHandler ELSE held[y]
    BY <2>1, CloseEffect DEF TypeOK
  <2>3. \A v \in Workers : held'[v] = held[v]
    BY <2>2, HoldersDiffer
  <2>4. \A d \in Conns : /\ held'[ConnCtx(d)] = held[ConnCtx(d)]
                         /\ held'[RequestCtx(d)] = IF d = c THEN NoHandler ELSE held[RequestCtx(d)]
    BY <2>1, <2>2, HoldersDiffer
  <2>5. \A d \in Conns : reqs'[d] = IF d = c THEN "over" ELSE reqs[d]
    BY <2>1 DEF TypeOK, TasksOK
  <2>. QED
    BY <2>1, <2>3, <2>4, <2>5 DEF TasksHold
<1>5. ASSUME NEW w \in Workers, NEW how \in Over, EndWorker(w, how), UNCHANGED <<conn, via, reqs>>
      PROVE  TasksHold'
  <2>1. Global!Close(w) /\ worker' = [worker EXCEPT ![w] = how] /\ w \in Holders
    BY <1>5, HoldersDiffer DEF EndWorker
  <2>2. \A y \in Holders : held'[y] = IF y = w THEN NoHandler ELSE held[y]
    BY <2>1, CloseEffect DEF TypeOK
  <2>3. \A v \in Workers : /\ held'[v] = IF v = w THEN NoHandler ELSE held[v]
                           /\ worker'[v] = IF v = w THEN how ELSE worker[v]
    BY <2>1, <2>2, HoldersDiffer DEF TypeOK, TasksOK
  <2>4. \A d \in Conns : held'[ConnCtx(d)] = held[ConnCtx(d)] /\ held'[RequestCtx(d)] = held[RequestCtx(d)]
    BY <2>2, HoldersDiffer
  <2>. QED
    BY <1>5, <2>3, <2>4 DEF TasksHold, Over
<1>6. ASSUME NEW w \in Workers, worker[w] = "accepting", Idle(w), UNCHANGED <<conn, via, reqs>>
      PROVE  TasksHold'
  BY <1>6 DEF Idle, handlers, TasksHold, TypeOK, TasksOK
<1>7. ASSUME NEW w \in Workers,
             \/ StopAccepting(w) \/ WaitIdle(w)
             \/ WorkerFails(w) \/ EndpointLost(w) \/ WorkerPanics(w)
      PROVE  TasksHold'
  BY <1>5, <1>6, <1>7 DEF StopAccepting, WaitIdle, WorkerFails, EndpointLost, WorkerPanics, Over
<1>8. ASSUME NEW c \in Conns, \/ Established(c) \/ AcceptStream(c) \/ ResolveFails(c)
                              \/ \E b \in Backends : Arrive(c, b)
      PROVE  TasksHold'
  BY <1>8 DEF Established, AcceptStream, ResolveFails, Arrive, handlers, TasksHold, TypeOK, TasksOK, Routed
<1>9. CASE OwnerShutdown \/ OwnerCancels \/ OwnerReturns \/ UNCHANGED vars
  BY <1>9 DEF OwnerShutdown, OwnerCancels, OwnerReturns, vars, handlers, tasks, TasksHold,
     Global!Call, Global!Cancel, Global!Return
<1>. QED
  BY <1>1, <1>2, <1>3, <1>4, <1>7, <1>8, <1>9, RunLeavesTasks DEF Next
-----------------------------------------------------------------------------
(* Calls of shutdown, and what is open after them.                           *)

\* Once a handler that nobody may open is empty, it stays so; and what a call
\* is owed stays what is open.
LEMMA OwedIsOpen ==
    ASSUME HandlersOK, HandlerStep, NEW n \in Handlers, MayOpen(n) => Global!OpenAt(n) # {}
    PROVE  /\ Global!OpenAt(n) = {} => Global!OpenAt(n)' = {}
           /\ \A w \in Callers : Waits(w, n) /\ phase[w] = "waiting" => Waits(w, n)'
<1>1. ASSUME NEW c \in Holders, NEW m \in Handlers, Opens(c, m)
      PROVE  /\ Global!OpenAt(n) = {} => Global!OpenAt(n)' = {}
             /\ \A w \in Callers : Waits(w, n) /\ phase[w] = "waiting" => Waits(w, n)'
  <2>1. /\ request' = request /\ MayOpen(m)
        /\ \A w \in Callers : owed'[w] =
              IF request[w][2] = m /\ owed[w] # {} THEN owed[w] \union {c} ELSE owed[w]
        /\ Global!OpenAt(n)' = IF n = m THEN Global!OpenAt(n) \union {c} ELSE Global!OpenAt(n)
    BY <1>1, OpenEffect DEF Opens
  <2>2. n = m => Global!OpenAt(n) # {}
    BY <2>1
  <2>3. \A w \in Callers : Waits(w, n) => Waits(w, n)'
    <3>1. \A w \in Callers : Waits(w, n) => request[w][2] = n /\ owed[w] = Global!OpenAt(n)
      BY DEF Waits
    <3>2. \A w \in Callers : Waits(w, n) => owed'[w] = Global!OpenAt(n)'
      BY <2>1, <2>2, <3>1
    <3>. QED
      BY <2>1, <3>2 DEF Waits
  <2>. QED
    BY <2>1, <2>2, <2>3
<1>2. ASSUME NEW c \in Holders, Global!Close(c)
      PROVE  /\ Global!OpenAt(n) = {} => Global!OpenAt(n)' = {}
             /\ \A w \in Callers : Waits(w, n) /\ phase[w] = "waiting" => Waits(w, n)'
  <2>1. /\ request' = request /\ \A w \in Callers : owed'[w] = owed[w] \ {c}
        /\ Global!OpenAt(n)' = Global!OpenAt(n) \ {c}
    BY <1>2, CloseEffect
  <2>. QED
    BY <2>1 DEF Waits
<1>3. ASSUME \/ UNCHANGED handlers \/ (Global!Cancel /\ UNCHANGED phase)
             \/ \E w \in Callers : Global!Return(w) \/ Global!Abandon(w)
      PROVE  /\ Global!OpenAt(n) = {} => Global!OpenAt(n)' = {}
             /\ \A w \in Callers : Waits(w, n) /\ phase[w] = "waiting" => Waits(w, n)'
  <2>1. Global!OpenAt(n)' = Global!OpenAt(n)
    BY <1>3, CallEffect
  <2>2. UNCHANGED <<request, owed>>
    BY <1>3 DEF handlers, Global!Cancel, Global!Return, Global!Abandon
  <2>. QED
    BY <2>1, <2>2 DEF Waits
<1>4. ASSUME NEW v \in Callers, NEW m \in Handlers, Calls(v, m)
      PROVE  /\ Global!OpenAt(n) = {} => Global!OpenAt(n)' = {}
             /\ \A w \in Callers : Waits(w, n) /\ phase[w] = "waiting" => Waits(w, n)'
  <2>1. Global!OpenAt(n)' = Global!OpenAt(n)
    BY <1>4, CallEffect DEF Calls
  <2>2. /\ phase[v] = "idle" /\ request' = [request EXCEPT ![v] = <<"shutdown", m>>]
        /\ owed' = [owed EXCEPT ![v] = Global!OpenAt(m)]
    BY <1>4 DEF Calls, Global!Call
  <2>3. \A w \in Callers : phase[w] = "waiting" => request'[w] = request[w] /\ owed'[w] = owed[w]
    BY <2>2 DEF HandlersOK
  <2>. QED
    BY <2>1, <2>3 DEF Waits
<1>5. CASE \E c \in Holders, m \in Handlers : Opens(c, m)
  BY <1>1, <1>5
<1>6. CASE \E c \in Holders : Global!Close(c)
  BY <1>2, <1>6
<1>7. CASE \E v \in Callers, m \in Handlers : Calls(v, m)
  BY <1>4, <1>7
<1>8. CASE \/ UNCHANGED handlers \/ (Global!Cancel /\ UNCHANGED phase)
           \/ \E v \in Callers : Global!Return(v) \/ Global!Abandon(v)
  BY <1>3, <1>8
<1>. QED
  BY <1>5, <1>6, <1>7, <1>8 DEF HandlerStep

\* Whoever begins to wait has just called shutdown.
LEMMA BeginsToWait ==
    ASSUME HandlersOK, HandlerStep, NEW w \in Callers, phase[w] # "waiting", phase'[w] = "waiting"
    PROVE  \E n \in Handlers : Calls(w, n) /\ Waits(w, n)'
<1>1. ASSUME UNCHANGED phase PROVE FALSE
  BY <1>1
<1>2. ASSUME NEW v \in Callers, Global!Return(v) \/ Global!Abandon(v) PROVE FALSE
  BY <1>2 DEF Global!Return, Global!Abandon, HandlersOK
<1>3. ASSUME NEW c \in Holders, NEW n \in Handlers, Opens(c, n) PROVE FALSE
  BY <1>1, <1>3 DEF Opens, Global!Open
<1>4. ASSUME NEW c \in Holders, Global!Close(c) PROVE FALSE
  BY <1>1, <1>4 DEF Global!Close
<1>5. UNCHANGED handlers => UNCHANGED phase
  BY DEF handlers
<1>6. PICK v \in Callers, n \in Handlers : Calls(v, n)
  BY <1>1, <1>2, <1>3, <1>4, <1>5 DEF HandlerStep
<1>7. /\ phase' = [phase EXCEPT ![v] = "waiting"] /\ request' = [request EXCEPT ![v] = <<"shutdown", n>>]
      /\ owed' = [owed EXCEPT ![v] = Global!OpenAt(n)]
  BY <1>6 DEF Calls, Global!Call
<1>8. v = w
  BY <1>7 DEF HandlersOK
<1>9. Global!OpenAt(n)' = Global!OpenAt(n)
  BY <1>6, CallEffect DEF Calls
<1>10. request'[w] = <<"shutdown", n>> /\ owed'[w] = Global!OpenAt(n)
  BY <1>7, <1>8 DEF HandlersOK
<1>. QED
  BY <1>6, <1>8, <1>9, <1>10 DEF Waits

\* A run that has been joined, or is past its shutdown, may not open contexts
\* of its handler unless one is open.
LEMMA NoOpener ==
    ASSUME NEW b \in Backends, run[b] \notin {"bind", "spawn"}
    PROVE  b \in Handlers /\ b \in Callers /\ (MayOpen(b) => Global!OpenAt(b) # {})
BY DEF MayOpen, Handlers, Callers

\* Every step keeps what runs wait for, and what is empty after it.
LEMMA StepRunsWait ==
    TypeOK /\ Routed /\ TasksHold /\ RunsWait /\ Emptied /\ [Next]_vars => RunsWait' /\ Emptied'
<1>. SUFFICES ASSUME TypeOK, Routed, TasksHold, RunsWait, Emptied, [Next]_vars
              PROVE  RunsWait' /\ Emptied'
  OBVIOUS
<1>1. HandlersOK /\ HandlerStep
  BY Handles DEF TypeOK
<1>2. ASSUME NEW b \in Backends, phase'[b] = "waiting"
      PROVE  run'[b] = "shutdown" /\ Waits(b, b)'
  <2>1. CASE phase[b] = "waiting"
    <3>1. run[b] = "shutdown" /\ Waits(b, b)
      BY <2>1 DEF RunsWait
    <3>2. run'[b] = "shutdown"
      BY <1>2, <2>1, <3>1, RunMoves
    <3>3. Waits(b, b)'
      BY <1>1, <2>1, <3>1, NoOpener, OwedIsOpen
    <3>. QED
      BY <3>2, <3>3
  <2>2. CASE phase[b] # "waiting"
    <3>1. b \in Callers
      BY DEF Callers
    <3>2. PICK n \in Handlers : Calls(b, n) /\ Waits(b, n)'
      BY <1>1, <1>2, <2>2, <3>1, BeginsToWait
    <3>3. n = b /\ run[b] = "shutdown" /\ run' = run
      BY <3>2 DEF Calls
    <3>. QED
      BY <3>2, <3>3
  <2>. QED
    BY <2>1, <2>2
<1>3. ASSUME NEW b \in Backends, PastShutdown(b)'
      PROVE  Global!OpenAt(b)' = {}
  <2>1. CASE PastShutdown(b)
    <3>1. Global!OpenAt(b) = {} /\ run[b] \notin {"bind", "spawn"}
      BY <2>1 DEF Emptied, PastShutdown
    <3>. QED
      BY <1>1, <3>1, NoOpener, OwedIsOpen
  <2>2. CASE run[b] = "shutdown" /\ Global!Return(b)
    <3>1. phase[b] = "waiting" /\ owed[b] = {}
      BY <2>2 DEF Global!Return
    <3>2. Global!OpenAt(b) = {}
      BY <3>1 DEF RunsWait, Waits
    <3>. QED
      BY <1>1, <2>2, <3>2, NoOpener, OwedIsOpen
  <2>. QED
    BY <1>3, <2>1, <2>2, RunMoves
<1>. QED
  BY <1>2, <1>3 DEF RunsWait, Emptied

\* Every step keeps what the owner waits for: it waits for every run, and no run
\* begins after it called.
LEMMA StepOwnerWaits ==
    TypeOK /\ Routed /\ RunsHold /\ TasksHold /\ OwnerWaits /\ [Next]_vars => OwnerWaits'
<1>. SUFFICES ASSUME TypeOK, Routed, RunsHold, TasksHold, OwnerWaits, [Next]_vars
              PROVE  OwnerWaits'
  OBVIOUS
<1>1. HandlersOK /\ HandlerStep /\ Owner \in Callers /\ Root \in Handlers
  BY Handles DEF TypeOK, Callers, Handlers
<1>2. ASSUME phase'[Owner] = "waiting"
      PROVE  Waits(Owner, Root)' /\ \A b \in Backends : run'[b] # "new"
  <2>1. CASE phase[Owner] = "waiting"
    <3>1. Waits(Owner, Root) /\ \A b \in Backends : run[b] # "new"
      BY <2>1 DEF OwnerWaits
    <3>2. MayOpen(Root) => FALSE
      BY <3>1 DEF MayOpen
    <3>. QED
      BY <1>1, <2>1, <3>1, <3>2, OwedIsOpen, RunMoves
  <2>2. CASE phase[Owner] # "waiting"
    <3>1. PICK n \in Handlers : Calls(Owner, n) /\ Waits(Owner, n)'
      BY <1>1, <1>2, <2>2, BeginsToWait
    <3>2. n = Root /\ \A b \in Backends : run[b] # "new" /\ run'[b] = run[b]
      BY <3>1 DEF Calls
    <3>. QED
      BY <3>1, <3>2
  <2>. QED
    BY <2>1, <2>2
<1>3. ASSUME phase'[Owner] = "returned"
      PROVE  \A b \in Backends : run'[b] = "returned"
  <2>1. CASE phase[Owner] = "returned"
    BY <2>1, RunMoves DEF OwnerWaits
  <2>2. CASE phase[Owner] # "returned"
    <3>1. Global!Return(Owner)
      <4>1. ASSUME NEW w \in Callers, Global!Return(w) PROVE w = Owner
        BY <1>1, <1>3, <2>2, <4>1 DEF Global!Return, HandlersOK
      <4>2. ASSUME NEW w \in Callers, Global!Abandon(w) \/ \E n \in Handlers : Calls(w, n) PROVE FALSE
        BY <1>1, <1>3, <2>2, <4>2 DEF Calls, Global!Abandon, Global!Call, HandlersOK
      <4>3. ASSUME \/ UNCHANGED handlers \/ (Global!Cancel /\ UNCHANGED phase)
                   \/ \E c \in Holders : Global!Close(c) \/ \E n \in Handlers : Opens(c, n)
            PROVE  FALSE
        BY <1>3, <2>2, <4>3 DEF handlers, Opens, Global!Open, Global!Close
      <4>4. \E w \in Callers : Global!Return(w)
        BY <1>1, <4>2, <4>3 DEF HandlerStep
      <4>. QED
        BY <4>1, <4>4
    <3>2. phase[Owner] = "waiting" /\ owed[Owner] = {}
      BY <3>1 DEF Global!Return
    <3>3. Global!OpenAt(Root) = {} /\ \A b \in Backends : run[b] # "new"
      BY <3>2 DEF OwnerWaits, Waits
    <3>4. ASSUME NEW b \in Backends PROVE run[b] = "returned"
      <4>1. ServerCtx(b) \in Holders /\ ServerCtx(b) \notin Global!OpenAt(Root)
        BY <3>3, HoldersDiffer
      <4>2. held[ServerCtx(b)] # Root
        BY <4>1 DEF Global!OpenAt, Holders
      <4>. QED
        BY <3>3, <4>2 DEF RunsHold
    <3>. QED
      BY <3>4, RunMoves
  <2>. QED
    BY <2>1, <2>2
<1>. QED
  BY <1>2, <1>3 DEF OwnerWaits
-----------------------------------------------------------------------------
\* Nothing runs and nothing is held at first.
LEMMA InitInv == Init => HttpInv
<1>. SUFFICES ASSUME Init PROVE HttpInv
  OBVIOUS
<1>1. /\ held = [x \in Holders |-> NoHandler] /\ done = {}
      /\ phase = [w \in Callers |-> "idle"] /\ request = [w \in Callers |-> <<"cancel", NoHandler>>]
      /\ owed = [w \in Callers |-> {}]
  BY DEF Init, Global!Init, Callers
<1>2. HandlersOK
  <2>1. <<"cancel", NoHandler>> \in {"cancel", "shutdown"} \X (Handlers \union {NoHandler})
    OBVIOUS
  <2>. QED
    BY <1>1, <2>1 DEF HandlersOK
<1>3. TasksOK
  BY DEF Init, TasksOK, Phases
<1>4. \A x \in Holders : held[x] = NoHandler
  BY <1>1
<1>5. RunsHold
  <2>1. \A b \in Backends : held[ServerCtx(b)] = NoHandler /\ held[WorkerCtx(b)] = NoHandler
    BY <1>4, HoldersDiffer
  <2>. QED
    BY <2>1 DEF Init, RunsHold
<1>6. TasksHold
  <2>1. \A w \in Workers : held[w] = NoHandler
    BY <1>4, HoldersDiffer
  <2>2. \A c \in Conns : held[ConnCtx(c)] = NoHandler /\ held[RequestCtx(c)] = NoHandler
    BY <1>4, HoldersDiffer
  <2>. QED
    BY <2>1, <2>2 DEF Init, TasksHold
<1>7. Routed
  BY DEF Init, Routed
<1>8. RunsWait /\ OwnerWaits
  BY <1>1 DEF RunsWait, OwnerWaits, Callers
<1>9. Emptied
  BY DEF Init, Emptied, PastShutdown
<1>. QED
  BY <1>2, <1>3, <1>5, <1>6, <1>7, <1>8, <1>9 DEF HttpInv, TypeOK

\* The invariant is inductive.
LEMMA StepInv == HttpInv /\ [Next]_vars => HttpInv'
<1>. SUFFICES ASSUME HttpInv, [Next]_vars PROVE HttpInv'
  OBVIOUS
<1>1. TypeOK'
  BY Handles, HandlersTyped, TasksTyped DEF HttpInv, TypeOK
<1>. QED
  BY <1>1, StepRouted, StepRunsHold, StepTasksHold, StepRunsWait, StepOwnerWaits DEF HttpInv

\* Every reachable state satisfies it.
LEMMA Reachable == Spec => []HttpInv
BY InitInv, StepInv, PTL DEF Spec

(* Every handler, run and task keeps its type, for any backends, workers and *)
(* connections.                                                              *)
THEOREM HttpTypes == Spec => []TypeOK
<1>1. HttpInv => TypeOK
  BY DEF HttpInv
<1>. QED
  BY <1>1, Reachable, PTL

\* A handler without open contexts has no task that runs.
LEMMA EmptyIsDrained ==
    ASSUME HttpInv, NEW b \in Backends, Global!OpenAt(b) = {}
    PROVE  Drained(b)
<1>1. \A x \in Holders : held[x] # b
  BY DEF Global!OpenAt, Holders
<1>2. ASSUME NEW w \in WorkersOf(b) PROVE worker[w] \in {"new"} \union Over
  <2>1. w \in Workers /\ w[1] = b /\ held[w] # b
    BY <1>1, HoldersDiffer DEF WorkersOf
  <2>. QED
    BY <2>1 DEF HttpInv, TypeOK, TasksOK, TasksHold
<1>3. ASSUME NEW c \in Conns, via[c][1] = b
      PROVE  conn[c] \in {"waiting", "over"} /\ reqs[c] # "running"
  <2>1. held[ConnCtx(c)] # b /\ held[RequestCtx(c)] # b
    BY <1>1, HoldersDiffer
  <2>2. conn[c] \notin {"setup", "serving"} /\ reqs[c] # "running"
    BY <1>3, <2>1 DEF HttpInv, TasksHold
  <2>3. conn[c] # "outside"
    BY <1>3 DEF HttpInv, Routed, NoWorker
  <2>. QED
    BY <2>2, <2>3 DEF HttpInv, TypeOK, TasksOK
<1>. QED
  BY <1>2, <1>3 DEF Drained

(* When run of a backend is past its shutdown, no worker, connection or      *)
(* request of it runs, for any number of each, whatever failed or panicked   *)
(* and whichever future select dropped.                                      *)
THEOREM HttpRunDrains == Spec => []RunDrains
<1>1. HttpInv => RunDrains
  BY EmptyIsDrained DEF RunDrains, HttpInv, Emptied, PastShutdown
<1>. QED
  BY <1>1, Reachable, PTL

(* The owner's shutdown returns only after every backend that ran to its end *)
(* has drained, though it knows nothing of their handlers.                   *)
THEOREM HttpOwnerDrains == Spec => []OwnerDrains
<1>1. HttpInv => OwnerDrains
  <2>. SUFFICES ASSUME HttpInv, phase[Owner] = "returned",
                       NEW b \in Backends, result[b] \in {"ok", "err"}
                PROVE  Drained(b)
    BY DEF OwnerDrains
  <2>1. run[b] = "returned"
    BY DEF HttpInv, OwnerWaits
  <2>2. PastShutdown(b)
    BY <2>1 DEF PastShutdown
  <2>. QED
    BY <2>2, EmptyIsDrained DEF HttpInv, Emptied
<1>. QED
  BY <1>1, Reachable, PTL

HIDE HttpAssumption
-----------------------------------------------------------------------------
(* Decoding.  The inductive invariant: types, where a document and the path  *)
(* stand, what the schema says of each place, what is replayed from a        *)
(* oneof's buffer, and that what is wrong has been collected or is on its    *)
(* way out.                                                                  *)

Keys     == MapKeys \union Fields("message") \union {"tag", "content", Stranger} \union Nat
Frames   == [type : DOMAIN schema, place : Seq(Keys), index : Nat, replays : BOOLEAN]
Problems == [path : Seq(Keys), pos : Seq(Keys), fatal : BOOLEAN]
Items    == [token : UNION {Range(content) : content \in Contents}, id : Nat \X Nat]
OneOfs   == [tag : Fields("tagged") \union {Stranger}, invalid : BOOLEAN, contents : Seq(Seq(Items))]

InMember == {"skip", "tag", "hold", "replay", "replayed", "leave"}

DecodeTypeOK ==
    /\ schema \in Schemas
    /\ fail_fast \in BOOLEAN /\ irrecoverable \in BOOLEAN /\ unwinding \in BOOLEAN /\ broken \in BOOLEAN
    /\ pc \in {"value", "next", "ok", "err", "validate", "accepted", "rejected", "failed"} \union InMember
    /\ want \in DOMAIN schema /\ where \in Seq(Keys)
    /\ frames \in Seq(Frames) /\ path \in Seq(Keys) /\ open \in Seq(Keys)
    /\ errors \in Seq(Problems) /\ feed \in Seq(Items) /\ read \in Nat /\ wrong \in Nat
    /\ \A p \in DOMAIN seen : p \in Seq(Keys) /\ seen[p] \in DOMAIN schema
    /\ \A p \in DOMAIN oneofs : oneofs[p] \in OneOfs

\* between two members open still names the last one, path does not; a
\* replay leaves the name of the content in path
Aligned ==
    /\ Len(open) = Len(frames)
    /\ pc \in InMember \union {"next"} => frames # <<>>
    /\ pc = "next" => path = Front(open)
    /\ pc = "replayed" => path # <<>> /\ Front(path) = Front(open)
    /\ pc \notin {"next", "replayed"} => path = open

\* the type of a place is what the type of the place around it says
Child(p) ==
    LET outer == seen[Front(p)] IN
    /\ Front(p) \in DOMAIN seen
    /\ \/ Kind(outer) \in {"map", "list"} /\ seen[p] = schema[outer].of
       \/ /\ Kind(outer) = "message" /\ Last(p) \in DOMAIN schema[outer].fields
          /\ seen[p] = schema[outer].fields[Last(p)]
       \/ /\ Kind(outer) = "tagged" /\ Front(p) \in DOMAIN oneofs
          /\ oneofs[Front(p)].tag # Stranger
          /\ seen[p] = schema[outer].fields[oneofs[Front(p)].tag]

Tagged(p) == p \in DOMAIN oneofs /\ oneofs[p].tag # Stranger

\* so a place keeps its type, and a oneof its tag
SeenOK == \A p \in DOMAIN seen : p # <<>> => Child(p)

OneOfsOK ==
    \A p \in DOMAIN oneofs :
        /\ p \in DOMAIN seen /\ Kind(seen[p]) = "tagged"
        /\ oneofs[p].tag \in DOMAIN schema[seen[p]].fields \union {Stranger}

FramesOK ==
    \A i \in DOMAIN frames :
        /\ frames[i].place \in DOMAIN seen /\ frames[i].type = seen[frames[i].place]
        /\ Kind(frames[i].type) # "value"
        /\ frames[i].replays => Tagged(frames[i].place)

HereOK ==
    /\ pc = "value" => where \in DOMAIN seen /\ want = seen[where]
    /\ pc \in {"tag", "hold", "replay", "replayed"} => Kind(Top.type) = "tagged"
    /\ pc = "replay" => Tagged(Place)

FollowsSchema == SeenOK /\ OneOfsOK /\ FramesOK /\ HereOK

NoReplay    == \A i \in DOMAIN frames : ~frames[i].replays
ReplayAt(n) == \A i \in DOMAIN frames : frames[i].replays <=> i = n

Word(tokens) == [k \in DOMAIN tokens |-> tokens[k].token]

IsContent(tokens) ==
    /\ tokens # <<>>
    /\ \/ Len(tokens) = 1 /\ tokens[1].token \in Scalars
       \/ tokens[1].token = "{" /\ Len(tokens) % 2 = 0 /\ IsMembers(Word(Tail(tokens)))

\* a oneof's visitor decodes a content that was buffered
FedContent ==
    /\ frames # <<>> /\ ReplayAt(Len(frames))
    /\ \/ pc = "value" /\ IsContent(feed) /\ Kind(want) \in {"value", "message"}
       \/ pc \in {"ok", "err"} /\ feed = <<>>

\* a message inside a content that was buffered
FedMembers ==
    /\ Len(frames) > 1 /\ ReplayAt(Len(frames) - 1) /\ Kind(Top.type) = "message"
    /\ pc \in {"next", "value", "skip", "ok", "err"}
    /\ feed # <<>> /\ IsMembers(Word(feed))
    /\ Len(feed) % 2 = IF pc \in {"value", "skip"} THEN 0 ELSE 1

Fed ==
    /\ \A p \in DOMAIN oneofs : \A i \in DOMAIN oneofs[p].contents : IsContent(oneofs[p].contents[i])
    /\ unwinding => pc \in {"err", "leave", "failed"}
    /\ broken => pc \in {"err", "leave", "next", "failed"} /\ feed = <<>> /\ NoReplay
    /\ unwinding \/ (feed = <<>> /\ NoReplay) \/ FedContent \/ FedMembers

ErrorsOK ==
    \A i \in DOMAIN errors : /\ errors[i].path = errors[i].pos
                             /\ fail_fast /\ errors[i].fatal => unwinding /\ i = Len(errors)

\* what is wrong was collected, unless it is an error on its way to the next visitor
Leaving   == IF pc \in {"err", "leave", "failed"} /\ ~unwinding THEN 1 ELSE 0
Collected ==
    /\ irrecoverable => broken
    /\ ~broken => wrong = Len(errors) + Leaving
    /\ ErrorsOK

DecodeInv == DecodeTypeOK /\ Aligned /\ FollowsSchema /\ Fed /\ Collected
-----------------------------------------------------------------------------
(* Sequences, names and types.                                               *)

\* The last element of a sequence and what is in front of it.
LEMMA FrontOf ==
    ASSUME NEW S, NEW s \in Seq(S), s # <<>>
    PROVE  /\ Front(s) \in Seq(S) /\ Len(Front(s)) = Len(s) - 1 /\ DOMAIN Front(s) = 1 .. Len(s) - 1
           /\ \A i \in 1 .. Len(s) - 1 : Front(s)[i] = s[i]
           /\ Last(s) \in S /\ Len(s) \in DOMAIN s /\ Last(s) = s[Len(s)]
<1>1. Len(s) \in Nat /\ Len(s) > 0 /\ DOMAIN s = 1 .. Len(s)
  BY EmptySeq, LenProperties
<1>2. Front(s) = SubSeq(s, 1, Len(s) - 1)
  BY DEF Front
<1>3. \A i \in 1 .. Len(s) - 1 : s[i] \in S
  BY <1>1, ElementOfSeq
<1>4. SubSeq(s, 1, Len(s) - 1) \in Seq(S) /\ Len(SubSeq(s, 1, Len(s) - 1)) = Len(s) - 1
  BY <1>1, <1>3, SubSeqProperties
<1>5. \A i \in 1 .. Len(s) - 1 : SubSeq(s, 1, Len(s) - 1)[i] = s[i]
  BY <1>1
<1>6. QED
  BY <1>1, <1>2, <1>4, <1>5, LenProperties, ElementOfSeq DEF Last

\* The first element of a sequence and what is behind it.
LEMMA TailOf ==
    ASSUME NEW S, NEW s \in Seq(S), s # <<>>
    PROVE  /\ Len(s) \in Nat /\ Len(s) > 0 /\ DOMAIN s = 1 .. Len(s) /\ 1 \in DOMAIN s
           /\ Head(s) = s[1] /\ Head(s) \in S
           /\ Tail(s) \in Seq(S) /\ Len(Tail(s)) = Len(s) - 1 /\ DOMAIN Tail(s) = 1 .. Len(s) - 1
           /\ \A k \in 1 .. Len(s) - 1 : k + 1 \in DOMAIN s /\ Tail(s)[k] = s[k + 1]
<1>1. Len(s) \in Nat /\ Len(s) > 0 /\ DOMAIN s = 1 .. Len(s)
  BY EmptySeq, LenProperties
<1>2. Head(s) = s[1] /\ Head(s) \in S
  BY <1>1, ElementOfSeq
<1>3. /\ Tail(s) \in Seq(S) /\ Len(Tail(s)) = Len(s) - 1
      /\ \A k \in 1 .. Len(Tail(s)) : Tail(s)[k] = s[k + 1]
  BY <1>1, HeadTailProperties
<1>4. DOMAIN Tail(s) = 1 .. Len(s) - 1
  BY <1>3, LenProperties
<1>5. QED
  BY <1>1, <1>2, <1>3, <1>4

\* What was appended is the last, and in front of it is what was there.
LEMMA FrontOfAppend ==
    ASSUME NEW S, NEW s \in Seq(S), NEW x \in S
    PROVE  /\ Append(s, x) \in Seq(S) /\ Append(s, x) # <<>> /\ Len(Append(s, x)) = Len(s) + 1
           /\ Front(Append(s, x)) = s /\ Last(Append(s, x)) = x
           /\ \A i \in DOMAIN Append(s, x) : Append(s, x)[i] = IF i = Len(s) + 1 THEN x ELSE s[i]
           /\ DOMAIN Append(s, x) = DOMAIN s \union {Len(s) + 1} /\ Len(s) + 1 \notin DOMAIN s
<1>1. /\ Append(s, x) \in Seq(S) /\ Append(s, x) # <<>> /\ Len(Append(s, x)) = Len(s) + 1
      /\ \A i \in 1 .. Len(s) : Append(s, x)[i] = s[i]
      /\ Append(s, x)[Len(s) + 1] = x
  BY AppendProperties
<1>2. Len(s) \in Nat /\ DOMAIN s = 1 .. Len(s) /\ DOMAIN Append(s, x) = 1 .. Len(s) + 1
  BY <1>1, LenProperties
<1>. DEFINE a == Append(s, x)
<1>. HIDE DEF a
<1>3. a \in Seq(S) /\ a # <<>> /\ Len(a) = Len(s) + 1 /\ \A i \in 1 .. Len(s) : a[i] = s[i]
  BY <1>1 DEF a
<1>4. Front(a) \in Seq(S) /\ Len(Front(a)) = Len(a) - 1 /\ \A i \in 1 .. Len(a) - 1 : Front(a)[i] = a[i]
  BY <1>3, FrontOf
<1>5. Front(a) = s
  BY <1>2, <1>3, <1>4, SeqEqual
<1>6. QED
  BY <1>1, <1>2, <1>5 DEF Last, a

\* The last element is replaced.
LEMMA LastReplaced ==
    ASSUME NEW S, NEW s \in Seq(S), s # <<>>, NEW x \in S
    PROVE  [s EXCEPT ![Len(s)] = x] = Append(Front(s), x)
<1>1. Len(s) \in Nat /\ Len(s) > 0 /\ DOMAIN s = 1 .. Len(s) /\ Len(s) \in DOMAIN s
  BY EmptySeq, LenProperties
<1>. DEFINE e == [s EXCEPT ![Len(s)] = x]  f == Front(s)
<1>2. e \in Seq(S) /\ Len(e) = Len(s) /\ \A i \in DOMAIN s : e[i] = IF i = Len(s) THEN x ELSE s[i]
  <2>1. e \in Seq(S) /\ Len(e) = Len(s)
    BY <1>1, ExceptSeq
  <2>2. \A i \in DOMAIN s : e[i] = IF i = Len(s) THEN x ELSE s[i]
    BY <1>1
  <2>3. QED
    BY <2>1, <2>2
<1>3. f \in Seq(S) /\ Len(f) = Len(s) - 1 /\ \A i \in 1 .. Len(s) - 1 : f[i] = s[i]
  BY FrontOf
<1>. HIDE DEF e, f
<1>. DEFINE a == Append(f, x)
<1>4. a \in Seq(S) /\ Len(a) = Len(f) + 1 /\ \A i \in DOMAIN a : a[i] = IF i = Len(f) + 1 THEN x ELSE f[i]
  BY <1>3, FrontOfAppend
<1>. HIDE DEF a
<1>5. Len(f) + 1 = Len(s) /\ Len(a) = Len(s)
  BY <1>1, <1>3, <1>4
<1>6. DOMAIN a = DOMAIN s
  BY <1>1, <1>4, <1>5, LenProperties
<1>7. \A i \in DOMAIN s : e[i] = a[i]
  BY <1>1, <1>2, <1>3, <1>4, <1>5, <1>6
<1>8. e = a
  BY <1>1, <1>2, <1>4, <1>5, <1>7, SeqEqual
<1>9. QED
  BY <1>8 DEF e, f, a

\* A function to which one value was given.
LEMMA OneMore ==
    ASSUME NEW f, NEW a, NEW v
    PROVE  /\ DOMAIN Put(f, a, v) = DOMAIN f \union {a}
           /\ \A b \in DOMAIN Put(f, a, v) : Put(f, a, v)[b] = IF b = a THEN v ELSE f[b]
  BY DEF Put

\* The sets of the invariant depend on the schema alone.
LEMMA SameSchema ==
    ASSUME schema' = schema
    PROVE  /\ Keys' = Keys /\ Frames' = Frames /\ OneOfs' = OneOfs /\ Problems' = Problems
           /\ \A t : Kind(t)' = Kind(t)
<1>1. \A kind : Fields(kind)' = Fields(kind)
  BY DEF Fields, Kind
<1>2. QED
  BY <1>1 DEF Keys, Frames, OneOfs, Problems, Kind

\* What the assumption says of the schema.
LEMMA SchemaIs ==
    ASSUME DecodeTypeOK, NEW t \in DOMAIN schema
    PROVE  /\ Kind(t) \in {"value", "message", "map", "list", "tagged"}
           /\ Kind(t) \in {"map", "list"} => schema[t].of \in DOMAIN schema
           /\ Kind(t) \in {"message", "tagged"} =>
                 /\ Stranger \notin DOMAIN schema[t].fields /\ "}" \notin DOMAIN schema[t].fields
                 /\ \A f \in DOMAIN schema[t].fields : schema[t].fields[f] \in DOMAIN schema
           /\ Kind(t) = "tagged" =>
                 \A f \in DOMAIN schema[t].fields : Kind(schema[t].fields[f]) \in {"value", "message"}
  BY DecodeAssumption DEF DecodeTypeOK, IsSchema, Kind

\* The names in the schema, and numbers, are keys.
LEMMA KeysHave ==
    /\ MapKeys \subseteq Keys /\ Nat \subseteq Keys /\ {"tag", "content", Stranger} \subseteq Keys
    /\ Fields("message") \subseteq Keys
  BY DEF Keys

\* The variants of a oneof are tags.
LEMMA TagsHave ==
    ASSUME NEW t \in DOMAIN schema, Kind(t) = "tagged"
    PROVE  DOMAIN schema[t].fields \subseteq Fields("tagged")
  BY DEF Fields

\* The innermost visitor.
LEMMA TopIs ==
    ASSUME DecodeTypeOK, frames # <<>>
    PROVE  /\ Len(frames) \in Nat /\ Len(frames) > 0 /\ DOMAIN frames = 1 .. Len(frames)
           /\ Top = frames[Len(frames)] /\ Len(frames) \in DOMAIN frames
           /\ Top \in Frames /\ Top.type \in DOMAIN schema /\ Place \in Seq(Keys)
           /\ Top.index \in Nat /\ Top.replays \in BOOLEAN
<1>1. frames \in Seq(Frames)
  BY DEF DecodeTypeOK
<1>2. /\ Len(frames) \in Nat /\ Len(frames) > 0 /\ DOMAIN frames = 1 .. Len(frames)
      /\ Top = frames[Len(frames)] /\ Len(frames) \in DOMAIN frames /\ Top \in Frames
  BY <1>1, FrontOf, EmptySeq, LenProperties DEF Top
<1>3. QED
  BY <1>2 DEF Frames, Place

\* A oneof's buffers, before and after its first tag or content.
LEMMA OneOfIs ==
    ASSUME DecodeTypeOK
    PROVE  /\ OneOf \in OneOfs
           /\ OneOf.tag \in Fields("tagged") \union {Stranger}
           /\ OneOf.contents \in Seq(Seq(Items))
           /\ Place \in DOMAIN oneofs => OneOf = oneofs[Place]
           /\ OneOf.tag # Stranger => Place \in DOMAIN oneofs
           /\ Place \notin DOMAIN oneofs => OneOf.contents = <<>>
<1>1. Untagged \in OneOfs
  BY DEF Untagged, OneOfs
<1>2. OneOf \in OneOfs
  BY <1>1 DEF OneOf, DecodeTypeOK
<1>3. QED
  BY <1>2 DEF OneOf, Untagged, OneOfs
-----------------------------------------------------------------------------
(* What the parts of the actions do.                                         *)

\* seen and oneofs grow by what the schema says; visitors are those there were,
\* or are at a place that was given
Grows ==
    /\ schema' = schema
    /\ \A p \in DOMAIN seen : p \in DOMAIN seen' /\ seen'[p] = seen[p]
    /\ \A p \in DOMAIN seen' : p \in DOMAIN seen \/ p = <<>> \/ Child(p)'
    /\ \A p \in DOMAIN oneofs : /\ p \in DOMAIN oneofs'
                                /\ oneofs[p].tag # Stranger => oneofs'[p].tag = oneofs[p].tag
    /\ \A p \in DOMAIN oneofs' :
          /\ p \in DOMAIN seen /\ Kind(seen[p]) = "tagged"
          /\ oneofs'[p].tag \in DOMAIN schema[seen[p]].fields \union {Stranger}

FramesGrow ==
    \A i \in DOMAIN frames' :
        \/ /\ i \in DOMAIN frames
           /\ frames'[i].place = frames[i].place /\ frames'[i].type = frames[i].type
           /\ frames'[i].replays => frames[i].replays \/ Tagged(frames[i].place)
        \/ /\ frames'[i].place \in DOMAIN seen /\ frames'[i].type = seen[frames'[i].place]
           /\ Kind(frames'[i].type) # "value" /\ ~frames'[i].replays

\* Growing so keeps what the schema says.
LEMMA GrowthKeeps ==
    ASSUME SeenOK, OneOfsOK, FramesOK, Grows, FramesGrow
    PROVE  SeenOK' /\ OneOfsOK' /\ FramesOK'
<1>1. \A t : Kind(t)' = Kind(t)
  BY SameSchema DEF Grows
<1>2. \A p : Tagged(p) => Tagged(p)'
  BY DEF Grows, Tagged
<1>3. ASSUME NEW p \in DOMAIN seen, p # <<>>
      PROVE  Child(p)'
  <2>1. Child(p)
    BY <1>3 DEF SeenOK
  <2>2. Front(p) \in DOMAIN seen' /\ seen'[Front(p)] = seen[Front(p)] /\ seen'[p] = seen[p]
    BY <2>1, <1>3 DEF Child, Grows
  <2>3. Front(p) \in DOMAIN oneofs /\ oneofs[Front(p)].tag # Stranger =>
           Front(p) \in DOMAIN oneofs' /\ oneofs'[Front(p)].tag = oneofs[Front(p)].tag
    BY DEF Grows
  <2>4. QED
    BY <2>1, <2>2, <2>3, <1>1 DEF Child, Grows
<1>4. SeenOK'
  BY <1>3 DEF SeenOK, Grows
<1>5. OneOfsOK'
  BY <1>1 DEF OneOfsOK, Grows
<1>6. FramesOK'
  <2>. SUFFICES ASSUME NEW i \in DOMAIN frames'
                PROVE  /\ frames'[i].place \in DOMAIN seen' /\ frames'[i].type = seen'[frames'[i].place]
                       /\ schema'[frames'[i].type].kind # "value"
                       /\ frames'[i].replays => /\ frames'[i].place \in DOMAIN oneofs'
                                                /\ oneofs'[frames'[i].place].tag # Stranger
    BY DEF FramesOK, Kind, Tagged
  <2>1. CASE /\ i \in DOMAIN frames
             /\ frames'[i].place = frames[i].place /\ frames'[i].type = frames[i].type
             /\ frames'[i].replays => frames[i].replays \/ Tagged(frames[i].place)
    <3>1. /\ frames[i].place \in DOMAIN seen /\ frames[i].type = seen[frames[i].place]
          /\ schema[frames[i].type].kind # "value"
          /\ frames[i].replays => Tagged(frames[i].place)
      BY <2>1 DEF FramesOK, Kind
    <3>2. Tagged(frames[i].place) => frames[i].place \in DOMAIN oneofs' /\ oneofs'[frames[i].place].tag # Stranger
      BY DEF Grows, Tagged
    <3>3. QED
      BY <2>1, <3>1, <3>2 DEF Grows
  <2>2. CASE /\ frames'[i].place \in DOMAIN seen /\ frames'[i].type = seen[frames'[i].place]
             /\ Kind(frames'[i].type) # "value" /\ ~frames'[i].replays
    BY <2>2 DEF Grows, Kind
  <2>3. QED
    BY <2>1, <2>2 DEF FramesGrow
<1>7. QED
  BY <1>4, <1>5, <1>6

\* When seen and oneofs stay as they are, nothing grows.
LEMMA NothingGrows ==
    ASSUME OneOfsOK, UNCHANGED <<schema, seen, oneofs>>
    PROVE  Grows
  BY DEF Grows, OneOfsOK

\* The types of the variables that an action leaves alone.
LEMMA TypesKept ==
    ASSUME DecodeTypeOK, schema' = schema
    PROVE  /\ schema' \in Schemas /\ Keys' = Keys /\ Frames' = Frames /\ OneOfs' = OneOfs
           /\ Problems' = Problems
           /\ seen' = seen => \A p \in DOMAIN seen' : p \in Seq(Keys) /\ seen'[p] \in DOMAIN schema'
           /\ oneofs' = oneofs => \A p \in DOMAIN oneofs' : oneofs'[p] \in OneOfs
  BY SameSchema DEF DecodeTypeOK

\* A visitor ends: the others stay.
LEMMA LeaveIs ==
    ASSUME DecodeTypeOK, Aligned, frames # <<>>, frames' = Front(frames), open' = Front(open)
    PROVE  /\ frames' \in Seq(Frames) /\ open' \in Seq(Keys) /\ open # <<>>
           /\ Len(open') = Len(frames') /\ Len(frames') = Len(frames) - 1
           /\ DOMAIN frames' = 1 .. Len(frames) - 1
           /\ \A i \in DOMAIN frames' : i \in DOMAIN frames /\ i # Len(frames) /\ frames'[i] = frames[i]
           /\ FramesGrow /\ (NoReplay => NoReplay')
<1>1. frames \in Seq(Frames) /\ open \in Seq(Keys) /\ Len(open) = Len(frames)
  BY DEF DecodeTypeOK, Aligned
<1>2. Len(frames) \in Nat /\ Len(frames) > 0 /\ DOMAIN frames = 1 .. Len(frames) /\ open # <<>>
  BY <1>1, EmptySeq, LenProperties
<1>3. /\ frames' \in Seq(Frames) /\ Len(frames') = Len(frames) - 1 /\ DOMAIN frames' = 1 .. Len(frames) - 1
      /\ \A i \in 1 .. Len(frames) - 1 : frames'[i] = frames[i]
  BY <1>1, FrontOf
<1>4. open' \in Seq(Keys) /\ Len(open') = Len(open) - 1
  BY <1>1, <1>2, FrontOf
<1>5. \A i \in DOMAIN frames' : i \in DOMAIN frames /\ i # Len(frames) /\ frames'[i] = frames[i]
  BY <1>2, <1>3
<1>6. FramesGrow /\ (NoReplay => NoReplay')
  BY <1>5 DEF FramesGrow, NoReplay
<1>7. QED
  BY <1>1, <1>2, <1>3, <1>4, <1>5, <1>6

\* The last name of the path is dropped.
LEMMA PopIs ==
    ASSUME DecodeTypeOK, path # <<>>, path' = Front(path)
    PROVE  path' \in Seq(Keys)
  BY FrontOf DEF DecodeTypeOK

\* A visitor's record is replaced by one of the same type and place.
LEMMA FramesReplaced ==
    ASSUME DecodeTypeOK, frames # <<>>, NEW f \in Frames, f.type = Top.type, f.place = Place,
           f.replays => Top.replays \/ Tagged(Place),
           frames' = [frames EXCEPT ![Len(frames)] = f]
    PROVE  /\ frames' \in Seq(Frames) /\ Len(frames') = Len(frames) /\ DOMAIN frames' = DOMAIN frames
           /\ \A i \in DOMAIN frames : frames'[i] = IF i = Len(frames) THEN f ELSE frames[i]
           /\ FramesGrow
<1>1. frames \in Seq(Frames) /\ Len(frames) \in DOMAIN frames /\ Top = frames[Len(frames)]
  BY TopIs DEF DecodeTypeOK
<1>2. frames' \in Seq(Frames) /\ Len(frames') = Len(frames) /\ DOMAIN frames' = DOMAIN frames
  BY <1>1, ExceptSeq
<1>3. \A i \in DOMAIN frames : frames'[i] = IF i = Len(frames) THEN f ELSE frames[i]
  BY <1>1
<1>4. FramesGrow
  BY <1>1, <1>2, <1>3 DEF FramesGrow, Place
<1>5. QED
  BY <1>2, <1>3, <1>4

\* The next member, or the rest of the buffered contents.
LEMMA ContinueIs ==
    ASSUME DecodeTypeOK, frames # <<>>, Continue, schema' = schema
    PROVE  /\ frames' \in Seq(Frames) /\ Len(frames') = Len(frames) /\ DOMAIN frames' = DOMAIN frames
           /\ \A i \in DOMAIN frames :
                 /\ frames'[i].place = frames[i].place /\ frames'[i].type = frames[i].type
                 /\ frames'[i].replays = IF i = Len(frames) /\ pc' = "replay" THEN FALSE
                                         ELSE frames[i].replays
           /\ FramesGrow /\ open' = open
           /\ pc' = IF Kind(Top.type) = "tagged" /\ Top.replays THEN "replay" ELSE "next"
           /\ path' = IF pc' = "replay" THEN path ELSE Front(path)
<1>1. frames \in Seq(Frames) /\ Len(frames) \in DOMAIN frames /\ Top = frames[Len(frames)] /\ Top \in Frames
  BY TopIs DEF DecodeTypeOK
<1>2. CASE Kind(Top.type) = "tagged" /\ Top.replays
  <2>. DEFINE f == [Top EXCEPT !.replays = FALSE]
  <2>1. frames' = [frames EXCEPT ![Len(frames)] = f] /\ pc' = "replay" /\ path' = path /\ open' = open
    BY <1>2, <1>1 DEF Continue
  <2>2. f \in Frames /\ f.type = Top.type /\ f.place = Place /\ f.replays = FALSE
    BY <1>1 DEF Frames, Place
  <2>. HIDE DEF f
  <2>3. /\ frames' \in Seq(Frames) /\ Len(frames') = Len(frames) /\ DOMAIN frames' = DOMAIN frames
        /\ \A i \in DOMAIN frames : frames'[i] = IF i = Len(frames) THEN f ELSE frames[i]
        /\ FramesGrow
    BY <2>1, <2>2, FramesReplaced
  <2>4. QED
    BY <1>1, <1>2, <2>1, <2>2, <2>3 DEF Place
<1>3. CASE ~(Kind(Top.type) = "tagged" /\ Top.replays)
  <2>. DEFINE f == [Top EXCEPT !.index = @ + 1]
  <2>1. frames' = [frames EXCEPT ![Len(frames)] = f] /\ pc' = "next" /\ path' = Front(path) /\ open' = open
    BY <1>3, <1>1 DEF Continue, Pop
  <2>2. Top.index \in Nat /\ Top.index + 1 \in Nat /\ DOMAIN Top = {"type", "place", "index", "replays"}
    BY <1>1 DEF Frames
  <2>3. f \in Frames /\ f.type = Top.type /\ f.place = Place /\ f.replays = Top.replays
    BY <1>1, <2>2 DEF Frames, Place
  <2>. HIDE DEF f
  <2>4. /\ frames' \in Seq(Frames) /\ Len(frames') = Len(frames) /\ DOMAIN frames' = DOMAIN frames
        /\ \A i \in DOMAIN frames : frames'[i] = IF i = Len(frames) THEN f ELSE frames[i]
        /\ FramesGrow
    BY <2>1, <2>3, FramesReplaced
  <2>5. QED
    BY <1>1, <1>3, <2>1, <2>3, <2>4 DEF Place
<1>4. QED
  BY <1>2, <1>3

\* An error is collected, unless one is on its way out.
LEMMA ReportIs ==
    ASSUME DecodeTypeOK, Collected, NEW fatal \in BOOLEAN, NEW at, at = open', open' \in Seq(Keys),
           Report(fatal, at), fail_fast' = fail_fast
    PROVE  /\ errors' \in Seq(Problems) /\ unwinding' \in BOOLEAN
           /\ unwinding' = Fatal(fatal)
           /\ Len(errors') = Len(errors) + IF Refuses THEN 0 ELSE 1
           /\ ErrorsOK'
<1>1. errors \in Seq(Problems) /\ fail_fast \in BOOLEAN /\ irrecoverable \in BOOLEAN /\ unwinding \in BOOLEAN
  BY DEF DecodeTypeOK
<1>2. unwinding' = Fatal(fatal) /\ Fatal(fatal) \in BOOLEAN
  BY <1>1 DEF Report, Fatal, Refuses
<1>3. CASE Refuses
  <2>1. errors' = errors /\ unwinding'
    BY <1>3, <1>2 DEF Report, Fatal
  <2>2. Len(errors) \in Nat
    BY <1>1, LenProperties
  <2>3. ErrorsOK'
    BY <2>1 DEF Collected, ErrorsOK
  <2>4. QED
    BY <1>1, <1>2, <1>3, <2>1, <2>2, <2>3
<1>4. CASE ~Refuses
  <2>. DEFINE e == [path |-> at, pos |-> open', fatal |-> fatal]
  <2>1. errors' = Append(errors, e) /\ ~unwinding
    BY <1>4 DEF Report, Refuses
  <2>2. e \in Problems /\ e.path = e.pos /\ e.fatal = fatal
    BY DEF Problems
  <2>. HIDE DEF e
  <2>3. /\ errors' \in Seq(Problems) /\ Len(errors') = Len(errors) + 1
        /\ \A i \in DOMAIN errors' : errors'[i] = IF i = Len(errors) + 1 THEN e ELSE errors[i]
        /\ DOMAIN errors' = DOMAIN errors \union {Len(errors) + 1}
    BY <1>1, <2>1, <2>2, FrontOfAppend
  <2>4. \A i \in DOMAIN errors : errors[i].path = errors[i].pos /\ (fail_fast => ~errors[i].fatal)
    BY <2>1 DEF Collected, ErrorsOK
  <2>5. fail_fast /\ fatal => unwinding'
    BY <1>2 DEF Fatal
  <2>6. ErrorsOK'
    <3>. SUFFICES ASSUME NEW i \in DOMAIN errors'
                  PROVE  /\ errors'[i].path = errors'[i].pos
                         /\ fail_fast /\ errors'[i].fatal => unwinding' /\ i = Len(errors')
      BY DEF ErrorsOK
    <3>1. CASE i = Len(errors) + 1
      BY <3>1, <2>2, <2>3, <2>5
    <3>2. CASE i # Len(errors) + 1
      BY <3>2, <2>3, <2>4
    <3>3. QED
      BY <3>1, <3>2
  <2>7. QED
    BY <1>2, <1>4, <2>3, <2>6
<1>5. QED
  BY <1>3, <1>4

\* Errors that are left alone stay in order when no more are on their way.
LEMMA ErrorsKept ==
    ASSUME Collected, UNCHANGED <<errors, unwinding, fail_fast>>
    PROVE  ErrorsOK'
  BY DEF Collected, ErrorsOK
-----------------------------------------------------------------------------
(* The steps in which visitors end or go on.                                 *)

\* After Continue, what is being replayed is as far as it was.
LEMMA ContinueFed ==
    ASSUME DecodeInv, frames # <<>>, pc \in {"ok", "err"}, ~unwinding, Continue,
           UNCHANGED <<schema, feed, seen, oneofs>>
    PROVE  /\ (feed' = <<>> /\ NoReplay') \/ FedMembers'
           /\ NoReplay => NoReplay' /\ pc' = "next"
           /\ HereOK'
<1>1. /\ frames' \in Seq(Frames) /\ Len(frames') = Len(frames) /\ DOMAIN frames' = DOMAIN frames
      /\ \A i \in DOMAIN frames :
            /\ frames'[i].place = frames[i].place /\ frames'[i].type = frames[i].type
            /\ frames'[i].replays = IF i = Len(frames) /\ pc' = "replay" THEN FALSE
                                    ELSE frames[i].replays
      /\ pc' = IF Kind(Top.type) = "tagged" /\ Top.replays THEN "replay" ELSE "next"
  BY ContinueIs DEF DecodeInv
<1>2. /\ Len(frames) \in Nat /\ DOMAIN frames = 1 .. Len(frames)
      /\ Top = frames[Len(frames)] /\ Len(frames) \in DOMAIN frames
  BY TopIs DEF DecodeInv
<1>3. Top' = frames'[Len(frames)] /\ Top'.type = Top.type /\ Top'.place = Top.place
  <2>1. frames' # <<>>
    BY <1>1, <1>2, EmptySeq
  <2>2. Top' = frames'[Len(frames')]
    BY <1>1, <2>1, FrontOf DEF Top
  <2>3. QED
    BY <1>1, <1>2, <2>2
<1>4. Top.replays => Kind(Top.type) = "tagged" /\ Tagged(Place)
  BY <1>2 DEF DecodeInv, FollowsSchema, FramesOK, OneOfsOK, Tagged, Place
<1>5. HereOK'
  <2>1. pc' = "replay" => Kind(Top.type) = "tagged" /\ Tagged(Place)
    BY <1>1, <1>4
  <2>2. QED
    BY <1>1, <1>3, <2>1 DEF HereOK, Kind, Place, Tagged
<1>6. NoReplay => NoReplay' /\ pc' = "next"
  BY <1>1, <1>2 DEF NoReplay
<1>7. (feed = <<>> /\ NoReplay) \/ FedContent \/ FedMembers
  BY DEF DecodeInv, Fed
<1>8. CASE feed = <<>> /\ NoReplay
  BY <1>5, <1>6, <1>8
<1>9. CASE FedContent
  <2>1. Top.replays /\ feed = <<>> /\ pc' = "replay"
    BY <1>9, <1>1, <1>2, <1>4 DEF FedContent, ReplayAt
  <2>2. NoReplay'
    BY <1>9, <1>1, <2>1 DEF FedContent, ReplayAt, NoReplay
  <2>3. QED
    BY <1>5, <1>6, <2>1, <2>2
<1>10. CASE FedMembers
  <2>1. Kind(Top.type) = "message" /\ pc' = "next"
    BY <1>10, <1>1 DEF FedMembers
  <2>2. ReplayAt(Len(frames) - 1)' /\ Kind(Top.type)' = "message"
    BY <1>10, <1>1, <1>3, <2>1 DEF FedMembers, ReplayAt, Kind
  <2>3. QED
    BY <1>5, <1>6, <1>10, <1>1, <2>1, <2>2 DEF FedMembers, ReplayAt
<1>11. QED
  BY <1>5, <1>6, <1>7, <1>8, <1>9, <1>10

\* A value was decoded: the next member, or the end of the document.
LEMMA DecodedStep ==
    ASSUME DecodeInv, Decoded
    PROVE  DecodeInv'
<1>. USE DEF Decoded
<1>1. CASE frames = <<>>
  <2>1. pc' = "validate" /\ UNCHANGED <<frames, path, open, schema, fail_fast, want, where, seen, oneofs,
                                          errors, irrecoverable, unwinding, feed, broken, read, wrong>>
    BY <1>1 DEF state
  <2>2. pc = "ok" /\ ~broken /\ ~unwinding /\ feed = <<>> /\ NoReplay
    BY <1>1 DEF DecodeInv, DecodeTypeOK, Fed, FedContent, FedMembers, NoReplay
  <2>3. DecodeTypeOK'
    BY <2>1, TypesKept DEF DecodeInv, DecodeTypeOK
  <2>4. Aligned'
    BY <2>1, <2>2 DEF DecodeInv, Aligned, InMember
  <2>5. FollowsSchema'
    <3>1. Grows /\ FramesGrow
      BY <1>1, <2>1, NothingGrows DEF DecodeInv, FollowsSchema, FramesGrow
    <3>2. HereOK'
      BY <2>1 DEF HereOK
    <3>3. QED
      BY <3>1, <3>2, GrowthKeeps DEF DecodeInv, FollowsSchema
  <2>6. Fed'
    BY <2>1, <2>2 DEF DecodeInv, Fed, NoReplay
  <2>7. Collected'
    BY <2>1, <2>2 DEF DecodeInv, Collected, ErrorsOK, Leaving
  <2>8. QED
    BY <2>3, <2>4, <2>5, <2>6, <2>7 DEF DecodeInv
<1>2. CASE frames # <<>>
  <2>1. Continue /\ UNCHANGED <<schema, fail_fast, want, where, seen, oneofs,
                                errors, irrecoverable, unwinding, feed, broken, read, wrong>>
    BY <1>2 DEF state
  <2>2. pc = "ok" /\ ~broken /\ ~unwinding
    BY DEF DecodeInv, DecodeTypeOK, Fed
  <2>3. /\ frames' \in Seq(Frames) /\ Len(frames') = Len(frames) /\ FramesGrow /\ open' = open
        /\ pc' \in {"replay", "next"} /\ path' = IF pc' = "replay" THEN path ELSE Front(path)
    BY <1>2, <2>1, ContinueIs DEF DecodeInv
  <2>4. path = open /\ path # <<>> /\ Front(path) \in Seq(Keys) /\ frames' # <<>>
    <3>1. path = open /\ Len(path) = Len(frames)
      BY <2>2 DEF DecodeInv, Aligned
    <3>2. Len(frames) # 0
      BY <1>2, EmptySeq DEF DecodeInv, DecodeTypeOK
    <3>3. QED
      BY <2>3, <3>1, <3>2, FrontOf, EmptySeq DEF DecodeInv, DecodeTypeOK
  <2>5. DecodeTypeOK'
    BY <2>1, <2>3, <2>4, TypesKept DEF DecodeInv, DecodeTypeOK, InMember
  <2>6. Aligned'
    BY <2>2, <2>3, <2>4 DEF DecodeInv, Aligned, InMember
  <2>7. /\ (feed' = <<>> /\ NoReplay') \/ FedMembers'
        /\ HereOK'
    BY <1>2, <2>1, <2>2, ContinueFed
  <2>8. FollowsSchema'
    BY <2>1, <2>3, <2>7, NothingGrows, GrowthKeeps DEF DecodeInv, FollowsSchema
  <2>9. Fed'
    BY <2>1, <2>2, <2>7 DEF DecodeInv, Fed
  <2>10. Collected'
    BY <2>1, <2>2, <2>3 DEF DecodeInv, Collected, ErrorsOK, Leaving
  <2>11. QED
    BY <2>5, <2>6, <2>8, <2>9, <2>10 DEF DecodeInv
<1>3. QED
  BY <1>1, <1>2

\* An error comes to a visitor, which collects it, or leaves.
LEMMA FailedStep ==
    ASSUME DecodeInv, Failed
    PROVE  DecodeInv'
<1>1. /\ pc = "err"
      /\ UNCHANGED <<feed, read, schema, fail_fast, want, where, seen, oneofs, irrecoverable, wrong>>
  BY DEF Failed
<1>2. Grows /\ path = open /\ (frames # <<>> => path # <<>> /\ Front(path) \in Seq(Keys))
  <2>1. path = open /\ Len(path) = Len(frames)
    BY <1>1 DEF DecodeInv, Aligned, InMember
  <2>2. frames # <<>> => Len(frames) # 0
    BY EmptySeq DEF DecodeInv, DecodeTypeOK
  <2>3. QED
    BY <1>1, <2>1, <2>2, NothingGrows, FrontOf, EmptySeq DEF DecodeInv, DecodeTypeOK, FollowsSchema
<1>3. errors \in Seq(Problems) /\ Len(errors) \in Nat /\ wrong \in Nat /\ broken \in BOOLEAN /\ unwinding \in BOOLEAN
  BY LenProperties DEF DecodeInv, DecodeTypeOK
<1>4. CASE frames = <<>>
  <2>1. pc' = "failed" /\ UNCHANGED <<frames, path, errors, unwinding, open, broken>>
    BY <1>4 DEF Failed
  <2>2. DecodeTypeOK'
    BY <1>1, <2>1, TypesKept DEF DecodeInv, DecodeTypeOK
  <2>3. Aligned'
    BY <1>2, <2>1 DEF DecodeInv, Aligned, InMember
  <2>4. FollowsSchema'
    <3>1. FramesGrow
      BY <1>4, <2>1 DEF FramesGrow
    <3>2. HereOK'
      BY <2>1 DEF HereOK
    <3>3. QED
      BY <1>2, <3>1, <3>2, GrowthKeeps DEF DecodeInv, FollowsSchema
  <2>5. Fed'
    BY <1>1, <1>4, <2>1 DEF DecodeInv, Fed, FedContent, FedMembers, NoReplay
  <2>6. Collected'
    BY <1>1, <2>1 DEF DecodeInv, Collected, ErrorsOK, Leaving
  <2>7. QED
    BY <2>2, <2>3, <2>4, <2>5, <2>6 DEF DecodeInv
<1>5. CASE frames # <<>> /\ Fatal(TRUE)
  <2>1. pc' = "leave" /\ UNCHANGED <<frames, path, open, broken>> /\ Report(TRUE, path)
    BY <1>5 DEF Failed
  <2>2. /\ errors' \in Seq(Problems) /\ unwinding' \in BOOLEAN /\ unwinding'
        /\ Len(errors') = Len(errors) + IF Refuses THEN 0 ELSE 1
        /\ ErrorsOK'
    BY <1>1, <1>2, <1>5, <2>1, ReportIs DEF DecodeInv, DecodeTypeOK
  <2>3. DecodeTypeOK'
    BY <1>1, <2>1, <2>2, TypesKept DEF DecodeInv, DecodeTypeOK, InMember
  <2>4. Aligned'
    BY <1>2, <1>5, <2>1 DEF DecodeInv, Aligned, InMember
  <2>5. FollowsSchema'
    <3>1. FramesGrow
      BY <2>1 DEF FramesGrow
    <3>2. HereOK'
      BY <2>1 DEF HereOK
    <3>3. QED
      BY <1>2, <3>1, <3>2, GrowthKeeps DEF DecodeInv, FollowsSchema
  <2>6. Fed'
    BY <1>1, <2>1, <2>2 DEF DecodeInv, Fed, NoReplay
  <2>7. Collected'
    BY <1>1, <1>3, <2>1, <2>2 DEF DecodeInv, Collected, Leaving, Refuses
  <2>8. QED
    BY <2>3, <2>4, <2>5, <2>6, <2>7 DEF DecodeInv
<1>6. CASE frames # <<>> /\ ~Fatal(TRUE) /\ Kind(Top.type) = "list"
  <2>1. /\ frames' = Front(frames) /\ path' = Front(path) /\ open' = Front(open)
        /\ broken' \in {broken, TRUE}
        /\ pc' = IF broken' THEN "err" ELSE "ok"
        /\ errors' = Append(errors, [path |-> path, pos |-> open, fatal |-> TRUE])
        /\ unwinding' = unwinding
    BY <1>6 DEF Failed, Pop
  <2>2. ~unwinding /\ ~fail_fast /\ ~irrecoverable
    BY <1>6 DEF Fatal, Refuses
  <2>3. /\ frames' \in Seq(Frames) /\ open' \in Seq(Keys) /\ Len(open') = Len(frames')
        /\ FramesGrow /\ (NoReplay => NoReplay')
    BY <1>6, <2>1, LeaveIs DEF DecodeInv
  <2>. DEFINE e == [path |-> path, pos |-> open, fatal |-> TRUE]
  <2>4. errors' = Append(errors, e) /\ e \in Problems /\ e.path = e.pos
    BY <1>2, <2>1 DEF DecodeInv, DecodeTypeOK, Problems
  <2>. HIDE DEF e
  <2>5. /\ errors' \in Seq(Problems) /\ Len(errors') = Len(errors) + 1
        /\ \A i \in DOMAIN errors' : errors'[i] = IF i = Len(errors) + 1 THEN e ELSE errors[i]
        /\ DOMAIN errors' = DOMAIN errors \union {Len(errors) + 1}
    BY <1>3, <2>4, FrontOfAppend
  <2>6. ErrorsOK'
    BY <1>1, <2>2, <2>4, <2>5 DEF DecodeInv, Collected, ErrorsOK
  <2>7. DecodeTypeOK'
    BY <1>1, <1>2, <1>3, <1>6, <2>1, <2>3, <2>5, TypesKept DEF DecodeInv, DecodeTypeOK
  <2>8. Aligned'
    BY <1>2, <2>1, <2>3 DEF DecodeInv, Aligned, InMember
  <2>9. FollowsSchema'
    <3>1. HereOK'
      BY <2>1 DEF HereOK
    <3>2. QED
      BY <1>2, <2>3, <3>1, GrowthKeeps DEF DecodeInv, FollowsSchema
  <2>10. feed = <<>> /\ NoReplay
    <3>1. Top = frames[Len(frames)] /\ Len(frames) \in DOMAIN frames
      BY <1>6, TopIs DEF DecodeInv
    <3>2. Top.replays => Kind(Top.type) = "tagged"
      BY <3>1 DEF DecodeInv, FollowsSchema, FramesOK, OneOfsOK, Tagged
    <3>3. QED
      BY <1>6, <2>2, <3>1, <3>2 DEF DecodeInv, Fed, FedContent, FedMembers, ReplayAt
  <2>11. Fed'
    BY <1>1, <2>1, <2>2, <2>3, <2>10 DEF DecodeInv, Fed
  <2>12. Collected'
    <3>1. CASE broken'
      BY <3>1, <1>1, <2>2, <2>6 DEF Collected
    <3>2. CASE ~broken'
      <4>1. ~broken /\ pc' = "ok" /\ wrong = Len(errors) + 1
        BY <3>2, <1>1, <1>3, <2>1, <2>2 DEF DecodeInv, Collected, Leaving
      <4>2. QED
        BY <4>1, <1>1, <1>3, <2>2, <2>5, <2>6 DEF Collected, Leaving
    <3>3. QED
      BY <3>1, <3>2
  <2>13. QED
    BY <2>7, <2>8, <2>9, <2>11, <2>12 DEF DecodeInv
<1>7. CASE frames # <<>> /\ ~Fatal(TRUE) /\ Kind(Top.type) # "list"
  <2>1. Continue /\ Report(TRUE, path) /\ broken' = broken
    BY <1>7 DEF Failed
  <2>2. ~unwinding /\ ~fail_fast /\ ~irrecoverable
    BY <1>7 DEF Fatal, Refuses
  <2>3. /\ frames' \in Seq(Frames) /\ Len(frames') = Len(frames) /\ FramesGrow /\ open' = open
        /\ pc' \in {"replay", "next"} /\ path' = IF pc' = "replay" THEN path ELSE Front(path)
    BY <1>1, <1>7, <2>1, ContinueIs DEF DecodeInv
  <2>4. /\ errors' \in Seq(Problems) /\ unwinding' \in BOOLEAN /\ ~unwinding'
        /\ Len(errors') = Len(errors) + 1
        /\ ErrorsOK'
    BY <1>1, <1>2, <1>7, <2>1, <2>2, <2>3, ReportIs DEF DecodeInv, DecodeTypeOK, Refuses
  <2>5. frames' # <<>>
    BY <1>7, <2>3, EmptySeq DEF DecodeInv, DecodeTypeOK
  <2>6. DecodeTypeOK'
    BY <1>1, <1>2, <1>7, <2>1, <2>3, <2>4, TypesKept DEF DecodeInv, DecodeTypeOK, InMember
  <2>7. Aligned'
    BY <1>2, <2>3, <2>5 DEF DecodeInv, Aligned, InMember
  <2>8. /\ (feed' = <<>> /\ NoReplay') \/ FedMembers'
        /\ NoReplay => NoReplay' /\ pc' = "next"
        /\ HereOK'
    BY <1>1, <1>7, <2>1, <2>2, ContinueFed
  <2>9. FollowsSchema'
    BY <1>2, <2>3, <2>8, GrowthKeeps DEF DecodeInv, FollowsSchema
  <2>10. Fed'
    BY <1>1, <2>1, <2>4, <2>8 DEF DecodeInv, Fed
  <2>11. Collected'
    BY <1>1, <1>3, <2>1, <2>2, <2>3, <2>4 DEF DecodeInv, Collected, Leaving
  <2>12. QED
    BY <2>6, <2>7, <2>9, <2>10, <2>11 DEF DecodeInv
<1>8. QED
  BY <1>4, <1>5, <1>6, <1>7

\* The tokens without what they are called.
LEMMA WordIs ==
    ASSUME NEW s \in Seq(Items)
    PROVE  /\ DOMAIN Word(s) = 1 .. Len(s) /\ Len(Word(s)) = Len(s)
           /\ \A k \in 1 .. Len(s) : Word(s)[k] = s[k].token
<1>1. Len(s) \in Nat /\ DOMAIN s = 1 .. Len(s)
  BY LenProperties
<1>2. /\ Word(s) = [k \in 1 .. Len(s) |-> s[k].token]
      /\ \A k \in 1 .. Len(s) : s[k].token \in {s[j].token : j \in 1 .. Len(s)}
  BY <1>1 DEF Word
<1>3. Word(s) \in [1 .. Len(s) -> {s[j].token : j \in 1 .. Len(s)}]
  BY <1>2
<1>4. Word(s) \in Seq({s[j].token : j \in 1 .. Len(s)})
  BY <1>1, <1>3, SeqDef
<1>5. Len(Word(s)) \in Nat /\ 1 .. Len(Word(s)) = 1 .. Len(s)
  BY <1>3, <1>4, LenProperties
<1>6. Len(Word(s)) = Len(s)
  BY <1>1, <1>5
<1>7. QED
  BY <1>2, <1>6

\* The first of the tokens that are left of an object, and those after it.
LEMMA MembersAre ==
    ASSUME NEW tokens \in Seq(Items), tokens # <<>>, IsMembers(Word(tokens))
    PROVE  /\ Len(tokens) \in Nat /\ Len(tokens) > 0 /\ Head(tokens) = tokens[1]
           /\ Tail(tokens) \in Seq(Items) /\ Len(Tail(tokens)) = Len(tokens) - 1
           /\ IsMembers(Word(Tail(tokens)))
           /\ Len(tokens) % 2 = 0 => /\ tokens[1].token \in Scalars
                                     /\ Tail(tokens) # <<>> /\ Len(Tail(tokens)) % 2 = 1
           /\ Len(tokens) % 2 = 1 => \/ tokens[1].token = "}" /\ Tail(tokens) = <<>>
                                     \/ /\ tokens[1].token \notin Scalars \union {"}"} /\ Tail(tokens) # <<>>
                                        /\ Len(Tail(tokens)) % 2 = 0
<1>. DEFINE n == Len(tokens)  rest == Tail(tokens)
<1>1. n \in Nat /\ n > 0 /\ DOMAIN tokens = 1 .. n /\ Head(tokens) = tokens[1]
  BY EmptySeq, LenProperties
<1>2. rest \in Seq(Items) /\ Len(rest) = n - 1 /\ DOMAIN rest = 1 .. n - 1 /\ \A k \in 1 .. n - 1 : rest[k] = tokens[k + 1]
  <2>1. rest \in Seq(Items) /\ Len(rest) = n - 1 /\ \A k \in 1 .. Len(rest) : rest[k] = tokens[k + 1]
    BY HeadTailProperties
  <2>2. QED
    BY <2>1, LenProperties
<1>3. ASSUME NEW s \in Seq(Items)
      PROVE  /\ DOMAIN Word(s) = 1 .. Len(s) /\ Len(Word(s)) = Len(s)
             /\ \A k \in 1 .. Len(s) : Word(s)[k] = s[k].token
  BY WordIs
<1>4. \A k \in 1 .. n : Fits(n - k, tokens[k].token)
  BY <1>3 DEF IsMembers
<1>. HIDE DEF n, rest
<1>5. IsMembers(Word(rest))
  <2>1. ASSUME NEW k \in 1 .. n - 1
        PROVE  Fits(n - 1 - k, rest[k].token)
    <3>1. k + 1 \in 1 .. n /\ n - (k + 1) = n - 1 - k /\ rest[k] = tokens[k + 1]
      BY <1>1, <1>2
    <3>2. Fits(n - (k + 1), tokens[k + 1].token)
      BY <1>4, <3>1
    <3>3. QED
      BY <3>1, <3>2
  <2>2. /\ DOMAIN Word(rest) = 1 .. n - 1 /\ Len(Word(rest)) = n - 1
        /\ \A k \in 1 .. n - 1 : Word(rest)[k] = rest[k].token
    BY <1>2, <1>3
  <2>3. QED
    BY <2>1, <2>2 DEF IsMembers
<1>6. /\ n % 2 = 0 => n # 1 /\ (n - 1) % 2 = 1
      /\ n % 2 = 1 /\ n # 1 => (n - 1) % 2 = 0
  BY <1>1
<1>7. 1 \in 1 .. n /\ Fits(n - 1, tokens[1].token)
  BY <1>1, <1>4
<1>8. /\ n = 1 => tokens[1].token = "}"
      /\ n # 1 /\ (n - 1) % 2 = 1 => tokens[1].token \in Scalars
      /\ n # 1 /\ (n - 1) % 2 = 0 => tokens[1].token \notin Scalars \union {"}"}
  <2>. DEFINE m == n - 1  t == tokens[1].token
  <2>. HIDE DEF m, t
  <2>1. m \in Nat /\ (n = 1 <=> m = 0) /\ (m % 2 = 0 => m % 2 # 1)
    BY <1>1 DEF m
  <2>2. Fits(m, t)
    BY <1>7 DEF m, t
  <2>3. /\ m = 0 => t = "}"
        /\ m # 0 /\ m % 2 = 1 => t \in Scalars
        /\ m # 0 /\ m % 2 = 0 => t \notin Scalars \union {"}"}
    BY <2>1, <2>2 DEF Fits
  <2>4. QED
    BY <2>1, <2>3 DEF m, t
<1>9. rest = <<>> <=> n = 1
  BY <1>1, <1>2, EmptySeq
<1>10. QED
  BY <1>1, <1>2, <1>5, <1>6, <1>8, <1>9 DEF n, rest

\* validate_http answers.
LEMMA ValidateStep ==
    ASSUME DecodeInv, Validate
    PROVE  DecodeInv'
<1>1. /\ pc = "validate" /\ pc' \in {"accepted", "rejected"}
      /\ UNCHANGED <<schema, fail_fast, want, where, frames, path, seen, oneofs, errors, irrecoverable,
                     unwinding, feed, broken, read, open, wrong>>
  BY DEF Validate, state, parser
<1>2. ~broken /\ ~unwinding /\ feed = <<>> /\ NoReplay
  BY <1>1 DEF DecodeInv, Fed, FedContent, FedMembers
<1>3. DecodeTypeOK'
  BY <1>1, TypesKept DEF DecodeInv, DecodeTypeOK
<1>4. Aligned'
  BY <1>1 DEF DecodeInv, Aligned, InMember
<1>5. FollowsSchema'
  <2>1. Grows /\ FramesGrow
    BY <1>1, NothingGrows DEF DecodeInv, FollowsSchema, FramesGrow
  <2>2. HereOK'
    BY <1>1 DEF HereOK
  <2>3. QED
    BY <2>1, <2>2, GrowthKeeps DEF DecodeInv, FollowsSchema
<1>6. Fed'
  BY <1>1, <1>2 DEF DecodeInv, Fed, NoReplay
<1>7. Collected'
  BY <1>1, <1>2 DEF DecodeInv, Collected, ErrorsOK, Leaving
<1>8. QED
  BY <1>3, <1>4, <1>5, <1>6, <1>7 DEF DecodeInv

\* The document was answered.
LEMMA AnsweredStep ==
    ASSUME DecodeInv, UNCHANGED decodeVars
    PROVE  DecodeInv'
<1>1. UNCHANGED <<schema, fail_fast, pc, want, where, frames, path, seen, oneofs, errors, irrecoverable,
                  unwinding, feed, broken, read, open, wrong>>
  BY DEF decodeVars, state, parser
<1>2. DecodeTypeOK'
  BY <1>1, TypesKept DEF DecodeInv, DecodeTypeOK
<1>3. Aligned'
  BY <1>1 DEF DecodeInv, Aligned
<1>4. FollowsSchema'
  <2>1. Grows /\ FramesGrow
    BY <1>1, NothingGrows DEF DecodeInv, FollowsSchema, FramesGrow
  <2>2. HereOK'
    BY <1>1 DEF DecodeInv, FollowsSchema, HereOK, Top, Place, Kind, Tagged
  <2>3. QED
    BY <2>1, <2>2, GrowthKeeps DEF DecodeInv, FollowsSchema
<1>5. Fed'
  BY <1>1 DEF DecodeInv, Fed, NoReplay, FedContent, FedMembers, ReplayAt, Kind, Top
<1>6. Collected'
  BY <1>1 DEF DecodeInv, Collected, ErrorsOK, Leaving
<1>7. QED
  BY <1>2, <1>3, <1>4, <1>5, <1>6 DEF DecodeInv

\* The loop over the buffered contents is over.
LEMMA ReplayedStep ==
    ASSUME DecodeInv, Replayed
    PROVE  DecodeInv'
<1>1. /\ pc = "replayed" /\ pc' = "next" /\ path' = Front(path)
      /\ UNCHANGED <<schema, fail_fast, want, where, frames, seen, oneofs, errors, irrecoverable,
                     unwinding, feed, broken, read, open, wrong>>
  BY DEF Replayed, Pop, state, parser
<1>2. ~broken /\ ~unwinding /\ feed = <<>> /\ NoReplay
  BY <1>1 DEF DecodeInv, Fed, FedContent, FedMembers
<1>3. frames # <<>> /\ path # <<>> /\ Front(path) = Front(open) /\ Front(path) \in Seq(Keys)
  BY <1>1, FrontOf DEF DecodeInv, DecodeTypeOK, Aligned, InMember
<1>4. DecodeTypeOK'
  BY <1>1, <1>3, TypesKept DEF DecodeInv, DecodeTypeOK
<1>5. Aligned'
  BY <1>1, <1>3 DEF DecodeInv, Aligned, InMember
<1>6. FollowsSchema'
  <2>1. Grows /\ FramesGrow
    BY <1>1, NothingGrows DEF DecodeInv, FollowsSchema, FramesGrow
  <2>2. HereOK'
    BY <1>1 DEF HereOK
  <2>3. QED
    BY <2>1, <2>2, GrowthKeeps DEF DecodeInv, FollowsSchema
<1>7. Fed'
  BY <1>1, <1>2 DEF DecodeInv, Fed, NoReplay
<1>8. Collected'
  BY <1>1, <1>2 DEF DecodeInv, Collected, ErrorsOK, Leaving
<1>9. QED
  BY <1>4, <1>5, <1>6, <1>7, <1>8 DEF DecodeInv

\* A visitor leaves with an error.
LEMMA LeaveMemberStep ==
    ASSUME DecodeInv, LeaveMember
    PROVE  DecodeInv'
<1>1. /\ pc = "leave" /\ pc' = "err" /\ path' = Front(path) /\ frames' = Front(frames) /\ open' = Front(open)
      /\ UNCHANGED <<schema, fail_fast, want, where, seen, oneofs, errors, irrecoverable,
                     unwinding, feed, broken, read, wrong>>
  BY DEF LeaveMember, Leave, Pop, state
<1>2. frames # <<>> /\ path = open
  BY <1>1 DEF DecodeInv, Aligned, InMember
<1>3. /\ frames' \in Seq(Frames) /\ open' \in Seq(Keys) /\ Len(open') = Len(frames')
      /\ FramesGrow /\ (NoReplay => NoReplay')
  BY <1>1, <1>2, LeaveIs DEF DecodeInv
<1>4. path' = open'
  BY <1>1, <1>2
<1>5. DecodeTypeOK'
  BY <1>1, <1>3, <1>4, TypesKept DEF DecodeInv, DecodeTypeOK
<1>6. Aligned'
  BY <1>1, <1>3, <1>4 DEF Aligned, InMember
<1>7. FollowsSchema'
  <2>1. Grows
    BY <1>1, NothingGrows DEF DecodeInv, FollowsSchema
  <2>2. HereOK'
    BY <1>1 DEF HereOK
  <2>3. QED
    BY <1>3, <2>1, <2>2, GrowthKeeps DEF DecodeInv, FollowsSchema
<1>8. Fed'
  BY <1>1, <1>3 DEF DecodeInv, Fed, FedContent, FedMembers
<1>9. Collected'
  BY <1>1 DEF DecodeInv, Collected, ErrorsOK, Leaving
<1>10. QED
  BY <1>5, <1>6, <1>7, <1>8, <1>9 DEF DecodeInv

\* The next token.
LEMMA ReadIs ==
    ASSUME DecodeTypeOK, NEW token, Read(token)
    PROVE  /\ read' \in Nat /\ feed' \in Seq(Items)
           /\ feed = <<>> => feed' = <<>>
           /\ feed # <<>> => /\ feed[1].token = token
                             /\ feed' = <<>> \/ feed' = Tail(feed)
                             /\ pc # "value" \/ token # "{" \/ Kind(want) # "value" => feed' = Tail(feed)
                             /\ pc = "value" /\ token = "{" /\ Kind(want) = "value" => feed' = <<>>
<1>1. feed \in Seq(Items) /\ read \in Nat
  BY DEF DecodeTypeOK
<1>2. CASE feed = <<>>
  BY <1>1, <1>2 DEF Read
<1>3. CASE feed # <<>>
  <2>1. Head(feed) = feed[1] /\ Tail(feed) \in Seq(Items) /\ <<>> \in Seq(Items)
    BY <1>1, <1>3, HeadTailProperties, EmptySeq
  <2>2. token = Head(feed).token /\ feed' \in {<<>>, Tail(feed)} /\ read' = read
        /\ (pc # "value" \/ token # "{" \/ Kind(want) # "value" => feed' = Tail(feed))
        /\ (pc = "value" /\ token = "{" /\ Kind(want) = "value" => feed' = <<>>)
    BY <1>3 DEF Read
  <2>3. QED
    BY <1>1, <1>3, <2>1, <2>2
<1>4. QED
  BY <1>2, <1>3

\* Between values, only members of a buffered object may be left.
LEMMA BetweenFed ==
    ASSUME DecodeInv, pc \in {"next", "skip", "tag", "hold", "replay"}
    PROVE  /\ ~unwinding /\ (pc # "next" => ~broken)
           /\ feed = <<>> => NoReplay
           /\ feed # <<>> => FedMembers /\ ~broken /\ pc \in {"next", "skip"}
  BY DEF DecodeInv, Fed, FedContent, FedMembers

\* A visitor of members is at its end, or cannot go on.
LEMMA EndKeysStep ==
    ASSUME DecodeInv, EndKeys
    PROVE  DecodeInv'
<1>1. /\ pc = "next" /\ frames' = Front(frames) /\ open' = Front(open)
      /\ UNCHANGED <<schema, fail_fast, want, where, path, seen, oneofs, errors, unwinding>>
      /\ pc' \in {"ok", "err"}
      /\ pc' = "ok"  => ~broken /\ Read("}") /\ UNCHANGED <<irrecoverable, broken, wrong>>
      /\ pc' = "err" => /\ feed = <<>> /\ UNCHANGED <<read, feed>>
                        /\ irrecoverable' = TRUE /\ broken' = TRUE /\ wrong' = wrong + 1
  BY DEF EndKeys, Leave, GiveUp, state
<1>2. frames # <<>> /\ path = Front(open)
  BY <1>1 DEF DecodeInv, Aligned, InMember
<1>3. /\ frames' \in Seq(Frames) /\ open' \in Seq(Keys) /\ Len(open') = Len(frames')
      /\ Len(frames') = Len(frames) - 1 /\ DOMAIN frames' = 1 .. Len(frames) - 1
      /\ \A i \in DOMAIN frames' : i \in DOMAIN frames /\ i # Len(frames) /\ frames'[i] = frames[i]
      /\ FramesGrow /\ (NoReplay => NoReplay')
  BY <1>1, <1>2, LeaveIs DEF DecodeInv
<1>4. wrong \in Nat /\ broken \in BOOLEAN /\ unwinding \in BOOLEAN /\ irrecoverable \in BOOLEAN
      /\ feed \in Seq(Items) /\ read \in Nat /\ Len(errors) \in Nat
  BY LenProperties DEF DecodeInv, DecodeTypeOK
<1>5. read' \in Nat /\ feed' \in Seq(Items)
  BY <1>1, <1>4, ReadIs DEF DecodeInv
<1>6. DecodeTypeOK'
  <2>1. irrecoverable' \in BOOLEAN /\ broken' \in BOOLEAN
    BY <1>1, <1>4
  <2>2. wrong' = wrong \/ wrong' = wrong + 1
    BY <1>1
  <2>3. wrong' \in Nat
    BY <1>4, <2>2
  <2>4. QED
    BY <1>1, <1>3, <2>1, <2>3, <1>5, TypesKept DEF DecodeInv, DecodeTypeOK
<1>7. Aligned'
  BY <1>1, <1>2, <1>3 DEF Aligned, InMember
<1>8. FollowsSchema'
  <2>1. Grows
    BY <1>1, NothingGrows DEF DecodeInv, FollowsSchema
  <2>2. HereOK'
    BY <1>1 DEF HereOK
  <2>3. QED
    BY <1>3, <2>1, <2>2, GrowthKeeps DEF DecodeInv, FollowsSchema
<1>9. Fed'
  <2>1. CASE feed = <<>>
    <3>1. feed' = <<>> /\ ~unwinding /\ NoReplay'
      <4>1. ~unwinding /\ NoReplay
        BY <1>1, <2>1, BetweenFed
      <4>2. feed' = <<>>
        BY <1>1, <2>1, ReadIs DEF DecodeInv
      <4>3. QED
        BY <1>3, <4>1, <4>2
    <3>2. pc' = "ok" => ~broken'
      BY <1>1
    <3>3. \A p \in DOMAIN oneofs' : \A i \in DOMAIN oneofs'[p].contents : IsContent(oneofs'[p].contents[i])
      BY <1>1 DEF DecodeInv, Fed
    <3>4. unwinding' = unwinding /\ pc' \in {"ok", "err"}
      BY <1>1
    <3>5. QED
      BY <3>1, <3>2, <3>3, <3>4 DEF Fed
  <2>2. CASE feed # <<>>
    <3>1. FedMembers /\ ~broken /\ ~unwinding /\ broken' = broken /\ pc' = "ok"
      BY <1>1, <2>2, BetweenFed
    <3>2. feed[1].token = "}" /\ feed' = Tail(feed)
      BY <1>1, <2>2, ReadIs DEF DecodeInv
    <3>3. feed' = <<>>
      BY <1>1, <1>4, <2>2, <3>1, <3>2, MembersAre DEF FedMembers
    <3>4. Len(frames') # 0 /\ ReplayAt(Len(frames))' = ReplayAt(Len(frames))'
      BY <1>3, <3>1 DEF FedMembers
    <3>5. frames' # <<>>
      BY <3>4, EmptySeq
    <3>6. ReplayAt(Len(frames))'
      BY <1>3, <3>1 DEF FedMembers, ReplayAt
    <3>7. FedContent'
      BY <1>1, <3>1, <3>3, <3>5, <3>6 DEF FedContent
    <3>8. QED
      BY <1>1, <3>1, <3>7 DEF DecodeInv, Fed
  <2>3. QED
    BY <2>1, <2>2
<1>10. Collected'
  <2>1. ~unwinding /\ ErrorsOK' /\ errors' = errors /\ unwinding' = unwinding
    BY <1>1, BetweenFed DEF DecodeInv, Collected, ErrorsOK
  <2>2. CASE pc' = "ok"
    <3>1. ~broken /\ irrecoverable' = irrecoverable /\ broken' = broken /\ wrong' = wrong /\ pc = "next"
      BY <1>1, <2>2
    <3>2. QED
      BY <1>4, <2>1, <2>2, <3>1 DEF DecodeInv, Collected, Leaving
  <2>3. CASE pc' = "err"
    BY <1>1, <2>1, <2>3 DEF Collected
  <2>4. QED
    BY <1>1, <2>2, <2>3
<1>11. QED
  BY <1>6, <1>7, <1>8, <1>9, <1>10 DEF DecodeInv

\* A value that nobody wants is read, or cannot be.
LEMMA SkipStep ==
    ASSUME DecodeInv, Skip
    PROVE  DecodeInv'
<1>1. /\ pc = "skip" /\ path' = Front(path)
      /\ UNCHANGED <<schema, fail_fast, want, where, seen, oneofs, errors, unwinding>>
      /\ IF feed = <<>> THEN read' = read + 1 /\ feed' = feed ELSE feed' = Tail(feed) /\ read' = read
      /\ pc' \in {"next", "err"}
      /\ pc' = "next" => UNCHANGED <<frames, open, irrecoverable, broken, wrong>>
      /\ pc' = "err"  => /\ feed = <<>> /\ frames' = Front(frames) /\ open' = Front(open)
                         /\ irrecoverable' = TRUE /\ broken' = TRUE /\ wrong' = wrong + 1
  BY DEF Skip, Leave, GiveUp, Pop, state
<1>2. frames # <<>> /\ path = open /\ Len(open) = Len(frames)
  BY <1>1 DEF DecodeInv, Aligned, InMember
<1>3. /\ Front(frames) \in Seq(Frames) /\ Front(open) \in Seq(Keys) /\ Len(Front(open)) = Len(Front(frames))
  <2>1. frames \in Seq(Frames) /\ open \in Seq(Keys) /\ Len(frames) # 0 /\ open # <<>>
    BY <1>2, EmptySeq DEF DecodeInv, DecodeTypeOK
  <2>2. QED
    BY <1>2, <2>1, FrontOf
<1>4. FramesGrow /\ (NoReplay => NoReplay')
  <2>1. CASE frames' = Front(frames) /\ open' = Front(open)
    BY <1>2, <2>1, LeaveIs DEF DecodeInv
  <2>2. CASE frames' = frames
    BY <2>2 DEF FramesGrow, NoReplay
  <2>3. QED
    BY <1>1, <2>1, <2>2
<1>5. wrong \in Nat /\ broken \in BOOLEAN /\ unwinding \in BOOLEAN /\ irrecoverable \in BOOLEAN
      /\ feed \in Seq(Items) /\ read \in Nat /\ Len(errors) \in Nat
  BY LenProperties DEF DecodeInv, DecodeTypeOK
<1>6. /\ read' \in Nat /\ feed' \in Seq(Items)
  <2>1. feed # <<>> => Tail(feed) \in Seq(Items)
    BY <1>5, HeadTailProperties
  <2>2. QED
    BY <1>1, <1>5, <2>1
<1>7. DecodeTypeOK'
  <2>1. frames' \in Seq(Frames) /\ path' \in Seq(Keys) /\ open' \in Seq(Keys)
    BY <1>1, <1>2, <1>3 DEF DecodeInv, DecodeTypeOK
  <2>2. irrecoverable' \in BOOLEAN /\ broken' \in BOOLEAN
    BY <1>1, <1>5
  <2>3. wrong' = wrong \/ wrong' = wrong + 1
    BY <1>1
  <2>4. wrong' \in Nat
    BY <1>5, <2>3
  <2>5. QED
    BY <1>1, <1>6, <2>1, <2>2, <2>4, TypesKept DEF DecodeInv, DecodeTypeOK
<1>8. Aligned'
  BY <1>1, <1>2, <1>3 DEF Aligned, InMember
<1>9. FollowsSchema'
  <2>1. Grows
    BY <1>1, NothingGrows DEF DecodeInv, FollowsSchema
  <2>2. HereOK'
    BY <1>1 DEF HereOK
  <2>3. QED
    BY <1>4, <2>1, <2>2, GrowthKeeps DEF DecodeInv, FollowsSchema
<1>10. Fed'
  <2>1. CASE feed = <<>>
    BY <2>1, <1>1, <1>4, BetweenFed DEF DecodeInv, Fed
  <2>2. CASE feed # <<>>
    <3>1. /\ FedMembers /\ ~broken /\ ~unwinding /\ broken' = broken /\ pc' = "next"
          /\ feed' = Tail(feed) /\ frames' = frames
      BY <1>1, <2>2, BetweenFed
    <3>2. Len(feed) % 2 = 0 /\ IsMembers(Word(feed))
      BY <1>1, <3>1 DEF FedMembers
    <3>3. feed' # <<>> /\ IsMembers(Word(feed')) /\ Len(feed') % 2 = 1
      BY <1>5, <2>2, <3>1, <3>2, MembersAre
    <3>4. ReplayAt(Len(frames) - 1)' /\ Kind(Top.type)' = "message"
      BY <1>1, <3>1 DEF FedMembers, ReplayAt, Kind, Top
    <3>5. FedMembers'
      BY <3>1, <3>3, <3>4 DEF FedMembers
    <3>6. QED
      BY <1>1, <3>1, <3>5 DEF DecodeInv, Fed
  <2>3. QED
    BY <2>1, <2>2
<1>11. Collected'
  <2>1. ~unwinding /\ ErrorsOK' /\ errors' = errors /\ unwinding' = unwinding
    BY <1>1, BetweenFed DEF DecodeInv, Collected, ErrorsOK
  <2>2. CASE pc' = "next"
    BY <1>1, <1>5, <2>1, <2>2 DEF DecodeInv, Collected, Leaving
  <2>3. CASE pc' = "err"
    BY <1>1, <2>1, <2>3 DEF Collected
  <2>4. QED
    BY <1>1, <2>2, <2>3
<1>12. QED
  BY <1>7, <1>8, <1>9, <1>10, <1>11 DEF DecodeInv

\* A tag, once there is one, and what is buffered.
OneOfsGrow ==
    /\ \A p \in DOMAIN oneofs : /\ p \in DOMAIN oneofs'
                                /\ oneofs[p].tag # Stranger => oneofs'[p].tag = oneofs[p].tag
    /\ \A p \in DOMAIN oneofs' :
          /\ p \in DOMAIN seen /\ Kind(seen[p]) = "tagged"
          /\ oneofs'[p].tag \in DOMAIN schema[seen[p]].fields \union {Stranger}

\* The type of what is at a key inside the innermost visitor's place.
TypeAt(key, type) ==
    \/ Kind(Top.type) \in {"map", "list"} /\ type = schema[Top.type].of
    \/ /\ Kind(Top.type) = "message" /\ key \in DOMAIN schema[Top.type].fields
       /\ type = schema[Top.type].fields[key]
    \/ Kind(Top.type) = "tagged" /\ Tagged(Place) /\ type = schema[Top.type].fields[oneofs[Place].tag]

\* The tracker of a member is there, as the schema says.
LEMMA DecodeIs ==
    ASSUME DecodeInv, frames # <<>>, NEW key \in Keys, NEW type, TypeAt(key, type),
           seen' = Put(seen, Within(key), type), schema' = schema, OneOfsGrow
    PROVE  /\ Grows /\ type \in DOMAIN schema
           /\ Within(key) \in Seq(Keys) /\ Within(key) \in DOMAIN seen' /\ seen'[Within(key)] = type
           /\ \A p \in DOMAIN seen' : p \in Seq(Keys) /\ seen'[p] \in DOMAIN schema'
<1>. PICK q : q = Within(key)
  OBVIOUS
<1>1. /\ Top.type \in DOMAIN schema /\ Place \in Seq(Keys)
      /\ Top = frames[Len(frames)] /\ Len(frames) \in DOMAIN frames
  BY TopIs DEF DecodeInv
<1>2. Place \in DOMAIN seen /\ seen[Place] = Top.type
  BY <1>1 DEF DecodeInv, FollowsSchema, FramesOK, Place
<1>3. q \in Seq(Keys) /\ q # <<>> /\ Front(q) = Place /\ Last(q) = key
  BY <1>1, FrontOfAppend DEF Within, Place
<1>4. q \in DOMAIN seen => seen[q] = type
  <2>1. q \in DOMAIN seen => Child(q)
    BY <1>3 DEF DecodeInv, FollowsSchema, SeenOK
  <2>2. QED
    BY <1>2, <1>3, <2>1 DEF Child, TypeAt
<1>5. /\ DOMAIN seen' = DOMAIN seen \union {q}
      /\ \A p \in DOMAIN seen' : seen'[p] = IF p = q THEN type ELSE seen[p]
  BY DEF Put
<1>6. \A p \in DOMAIN seen : p \in DOMAIN seen' /\ seen'[p] = seen[p]
  BY <1>4, <1>5
<1>7. type \in DOMAIN schema
  <2>1. CASE Kind(Top.type) = "tagged" /\ Tagged(Place) /\ type = schema[Top.type].fields[oneofs[Place].tag]
    <3>1. oneofs[Place].tag \in DOMAIN schema[Top.type].fields
      BY <2>1, <1>2 DEF DecodeInv, FollowsSchema, OneOfsOK, Tagged
    <3>2. QED
      BY <2>1, <3>1, <1>1, SchemaIs DEF DecodeInv
  <2>2. CASE Kind(Top.type) \in {"map", "list"} /\ type = schema[Top.type].of
    BY <2>2, <1>1, SchemaIs DEF DecodeInv
  <2>3. CASE /\ Kind(Top.type) = "message" /\ key \in DOMAIN schema[Top.type].fields
             /\ type = schema[Top.type].fields[key]
    BY <2>3, <1>1, SchemaIs DEF DecodeInv
  <2>4. QED
    BY <2>1, <2>2, <2>3 DEF TypeAt
<1>8. Child(q)'
  <2>1. /\ Front(q) \in DOMAIN seen' /\ seen'[Front(q)] = Top.type
        /\ q \in DOMAIN seen' /\ seen'[q] = type
    BY <1>2, <1>3, <1>5, <1>6
  <2>2. Tagged(Place) => /\ Place \in DOMAIN oneofs' /\ oneofs'[Place].tag # Stranger
                         /\ oneofs'[Place].tag = oneofs[Place].tag
    BY DEF OneOfsGrow, Tagged
  <2>3. \A t : Kind(t)' = Kind(t)
    BY SameSchema
  <2>4. QED
    BY <1>3, <2>1, <2>2, <2>3 DEF Child, TypeAt
<1>9. Grows
  BY <1>5, <1>6, <1>8 DEF Grows, OneOfsGrow
<1>10. \A p \in DOMAIN seen' : p \in Seq(Keys) /\ seen'[p] \in DOMAIN schema'
  BY <1>3, <1>5, <1>7 DEF DecodeInv, DecodeTypeOK
<1>11. QED
  BY <1>3, <1>5, <1>7, <1>9, <1>10
-----------------------------------------------------------------------------
(* Members, elements and values.                                             *)

\* A member's name comes to the path.
LEMMA NamedIs ==
    ASSUME DecodeInv, pc = "next", NEW key \in Keys, path' = Append(path, key), open' = At(key)
    PROVE  /\ frames # <<>> /\ path' = open' /\ open' \in Seq(Keys) /\ Len(open') = Len(frames)
           /\ path' # <<>>
<1>1. /\ frames # <<>> /\ path = Front(open) /\ Len(open) = Len(frames)
      /\ open \in Seq(Keys) /\ frames \in Seq(Frames)
  BY DEF DecodeInv, DecodeTypeOK, Aligned
<1>2. Len(open) \in Nat /\ Len(open) > 0 /\ open # <<>>
  BY <1>1, EmptySeq
<1>3. open' = Append(Front(open), key)
  BY <1>1, <1>2, LastReplaced DEF At
<1>4. Front(open) \in Seq(Keys) /\ Len(Front(open)) = Len(open) - 1
  BY <1>1, <1>2, FrontOf
<1>5. /\ Append(Front(open), key) \in Seq(Keys) /\ Append(Front(open), key) # <<>>
      /\ Len(Append(Front(open), key)) = Len(Front(open)) + 1
  BY <1>4, FrontOfAppend
<1>6. QED
  BY <1>1, <1>2, <1>3, <1>4, <1>5

\* What is left of a buffered object when the name of a member was read.
FedLeft ==
    \/ feed' = <<>> /\ NoReplay
    \/ /\ Len(frames) > 1 /\ ReplayAt(Len(frames) - 1) /\ Kind(Top.type) = "message"
       /\ feed' # <<>> /\ IsMembers(Word(feed')) /\ Len(feed') % 2 = 0

\* The value of a member is decoded next.
LEMMA MemberDecoded ==
    ASSUME DecodeInv, pc = "next", ~broken, NEW name \in Keys, NEW key \in Keys, NEW type,
           path' = Append(path, name), open' = At(name), TypeAt(key, type), Decode(type, Within(key)),
           FedLeft, read' \in Nat, feed' \in Seq(Items),
           UNCHANGED <<schema, fail_fast, oneofs, irrecoverable, broken>>
    PROVE  DecodeInv'
<1>1. /\ pc' = "value" /\ want' = type /\ where' = Within(key) /\ seen' = Put(seen, Within(key), type)
      /\ UNCHANGED <<frames, errors, unwinding, wrong, schema, fail_fast, oneofs, irrecoverable, broken>>
  BY DEF Decode
<1>2. /\ frames # <<>> /\ path' = open' /\ open' \in Seq(Keys) /\ Len(open') = Len(frames)
  BY NamedIs
<1>3. OneOfsGrow
  BY <1>1 DEF OneOfsGrow, DecodeInv, FollowsSchema, OneOfsOK
<1>4. /\ Grows /\ type \in DOMAIN schema
      /\ Within(key) \in Seq(Keys) /\ Within(key) \in DOMAIN seen' /\ seen'[Within(key)] = type
      /\ \A p \in DOMAIN seen' : p \in Seq(Keys) /\ seen'[p] \in DOMAIN schema'
  BY <1>1, <1>2, <1>3, DecodeIs
<1>5. DecodeTypeOK'
  BY <1>1, <1>2, <1>4, TypesKept DEF DecodeInv, DecodeTypeOK
<1>6. Aligned'
  BY <1>1, <1>2 DEF Aligned, InMember
<1>7. FollowsSchema'
  <2>1. FramesGrow
    BY <1>1 DEF FramesGrow
  <2>2. HereOK'
    BY <1>1, <1>4 DEF HereOK
  <2>3. QED
    BY <1>4, <2>1, <2>2, GrowthKeeps DEF DecodeInv, FollowsSchema
<1>8. ~unwinding
  BY BetweenFed
<1>9. Fed'
  <2>1. (feed' = <<>> /\ NoReplay') \/ FedMembers'
    BY <1>1 DEF FedLeft, FedMembers, NoReplay, ReplayAt, Kind, Top
  <2>2. \A p \in DOMAIN oneofs' : \A i \in DOMAIN oneofs'[p].contents : IsContent(oneofs'[p].contents[i])
    BY <1>1 DEF DecodeInv, Fed
  <2>3. QED
    BY <1>1, <1>8, <2>1, <2>2 DEF Fed
<1>10. Collected'
  BY <1>1, <1>8 DEF DecodeInv, Collected, ErrorsOK, Leaving
<1>11. QED
  BY <1>5, <1>6, <1>7, <1>9, <1>10 DEF DecodeInv

\* A member is refused: the error is collected, and its value is skipped.
LEMMA MemberRefused ==
    ASSUME DecodeInv, pc = "next", ~broken, NEW name \in Keys, NEW fatal \in BOOLEAN,
           path' = Append(path, name), open' = At(name), Refuse(fatal),
           FedLeft, read' \in Nat, feed' \in Seq(Items),
           UNCHANGED <<schema, fail_fast, oneofs, irrecoverable, broken>>
    PROVE  DecodeInv'
<1>1. /\ pc' = (IF Fatal(fatal) THEN "leave" ELSE "skip") /\ Report(fatal, path') /\ wrong' = wrong + 1
      /\ UNCHANGED <<frames, seen, want, where, schema, fail_fast, oneofs, irrecoverable, broken>>
  BY DEF Refuse
<1>2. /\ frames # <<>> /\ path' = open' /\ open' \in Seq(Keys) /\ Len(open') = Len(frames)
  BY NamedIs
<1>3. ~unwinding /\ ~irrecoverable
  BY BetweenFed DEF DecodeInv, Collected
<1>4. /\ errors' \in Seq(Problems) /\ unwinding' \in BOOLEAN /\ unwinding' = Fatal(fatal)
      /\ Len(errors') = Len(errors) + 1 /\ ErrorsOK'
  BY <1>1, <1>2, <1>3, ReportIs DEF DecodeInv, Refuses
<1>5. Len(errors) \in Nat /\ wrong \in Nat
  BY LenProperties DEF DecodeInv, DecodeTypeOK
<1>6. pc' = IF unwinding' THEN "leave" ELSE "skip"
  BY <1>1, <1>4
<1>7. DecodeTypeOK'
  BY <1>1, <1>2, <1>4, <1>5, <1>6, TypesKept DEF DecodeInv, DecodeTypeOK, InMember
<1>8. Aligned'
  BY <1>1, <1>2, <1>6 DEF Aligned, InMember
<1>9. FollowsSchema'
  <2>1. Grows /\ FramesGrow
    BY <1>1, NothingGrows DEF DecodeInv, FollowsSchema, FramesGrow
  <2>2. HereOK'
    BY <1>6 DEF HereOK
  <2>3. QED
    BY <2>1, <2>2, GrowthKeeps DEF DecodeInv, FollowsSchema
<1>10. Fed'
  <2>1. ~unwinding' => (feed' = <<>> /\ NoReplay') \/ FedMembers'
    BY <1>1, <1>6 DEF FedLeft, FedMembers, NoReplay, ReplayAt, Kind, Top
  <2>2. \A p \in DOMAIN oneofs' : \A i \in DOMAIN oneofs'[p].contents : IsContent(oneofs'[p].contents[i])
    BY <1>1 DEF DecodeInv, Fed
  <2>3. QED
    BY <1>1, <1>6, <2>1, <2>2 DEF Fed
<1>11. Collected'
  <2>1. wrong = Len(errors)
    BY <1>3, <1>5 DEF DecodeInv, Collected, Leaving
  <2>2. Leaving' = 0
    BY <1>6 DEF Leaving
  <2>3. QED
    BY <1>1, <1>3, <1>4, <1>5, <2>1, <2>2 DEF Collected
<1>12. QED
  BY <1>7, <1>8, <1>9, <1>10, <1>11 DEF DecodeInv

\* The name of a tag or a content, and its value is read by the next step.
LEMMA MemberNoted ==
    ASSUME DecodeInv, pc = "next", ~broken, NEW name \in Keys,
           path' = Append(path, name), open' = At(name), pc' \in {"tag", "skip", "hold"},
           Kind(Top.type) = "tagged", FedLeft, read' \in Nat, feed' \in Seq(Items),
           UNCHANGED <<schema, fail_fast, oneofs, irrecoverable, broken, seen, want, where, frames,
                       errors, unwinding, wrong>>
    PROVE  DecodeInv'
<1>1. /\ frames # <<>> /\ path' = open' /\ open' \in Seq(Keys) /\ Len(open') = Len(frames)
  BY NamedIs
<1>2. ~unwinding /\ feed' = <<>> /\ NoReplay
  BY BetweenFed DEF FedLeft
<1>3. DecodeTypeOK'
  BY <1>1, TypesKept DEF DecodeInv, DecodeTypeOK, InMember
<1>4. Aligned'
  BY <1>1 DEF Aligned, InMember
<1>5. FollowsSchema'
  <2>1. Grows /\ FramesGrow
    BY NothingGrows DEF DecodeInv, FollowsSchema, FramesGrow
  <2>2. HereOK'
    BY DEF HereOK, Kind, Top
  <2>3. QED
    BY <2>1, <2>2, GrowthKeeps DEF DecodeInv, FollowsSchema
<1>6. Fed'
  BY <1>2 DEF DecodeInv, Fed, NoReplay
<1>7. Collected'
  BY <1>2 DEF DecodeInv, Collected, ErrorsOK, Leaving
<1>8. QED
  BY <1>3, <1>4, <1>5, <1>6, <1>7 DEF DecodeInv

\* A member of a message, a map or a tagged oneof.
LEMMA NextKeyStep ==
    ASSUME DecodeInv, NEW key \in Keys, NextKey(key)
    PROVE  DecodeInv'
<1>1. /\ pc = "next" /\ ~broken /\ Read(key) /\ key \in Names(Top.type)
      /\ path' = Append(path, key) /\ open' = At(key)
      /\ Member(key) \/ TaggedMember(key)
      /\ UNCHANGED <<schema, fail_fast, oneofs, irrecoverable, broken>>
  BY DEF NextKey
<1>2. /\ frames # <<>> /\ Top.type \in DOMAIN schema
  BY <1>1, NamedIs, TopIs DEF DecodeInv
<1>3. read' \in Nat /\ feed' \in Seq(Items)
  BY <1>1, ReadIs DEF DecodeInv
<1>4. FedLeft
  <2>1. CASE feed = <<>>
    BY <1>1, <2>1, BetweenFed, ReadIs DEF DecodeInv, FedLeft
  <2>2. CASE feed # <<>>
    <3>1. FedMembers /\ feed \in Seq(Items)
      BY <1>1, <2>2, BetweenFed DEF DecodeInv, DecodeTypeOK
    <3>2. feed[1].token = key /\ feed' = Tail(feed)
      BY <1>1, <2>2, ReadIs DEF DecodeInv
    <3>3. key # "}"
      <4>1. Kind(Top.type) = "message"
        BY <3>1 DEF FedMembers
      <4>2. "}" \notin DOMAIN schema[Top.type].fields
        BY <1>2, <4>1, SchemaIs DEF DecodeInv
      <4>3. Names(Top.type) = DOMAIN schema[Top.type].fields \union {Stranger}
        BY <4>1 DEF Names
      <4>4. QED
        BY <1>1, <4>2, <4>3, DecodeAssumption
    <3>4. Len(feed) % 2 = 1 /\ IsMembers(Word(feed))
      BY <1>1, <3>1 DEF FedMembers
    <3>5. feed' # <<>> /\ IsMembers(Word(feed')) /\ Len(feed') % 2 = 0
      BY <2>2, <3>1, <3>2, <3>3, <3>4, MembersAre
    <3>6. QED
      BY <3>1, <3>5 DEF FedLeft, FedMembers
  <2>3. QED
    BY <2>1, <2>2
<1>5. CASE Member(key)
  <2>1. CASE key = Stranger /\ Refuse(FALSE)
    BY <1>1, <1>3, <1>4, <2>1, MemberRefused
  <2>2. CASE Refuse(TRUE)
    BY <1>1, <1>3, <1>4, <2>2, MemberRefused
  <2>3. CASE key # Stranger /\ Decode(TypeOf(key), Within(key))
    <3>1. Kind(Top.type) \in {"message", "map"}
      BY <1>5 DEF Member
    <3>2. TypeAt(key, TypeOf(key))
      BY <1>1, <2>3, <3>1 DEF TypeAt, TypeOf, Names
    <3>3. QED
      BY <1>1, <1>3, <1>4, <2>3, <3>2, MemberDecoded
  <2>4. QED
    BY <1>5, <2>1, <2>2, <2>3 DEF Member
<1>6. CASE TaggedMember(key)
  <2>1. CASE Refuse(FALSE)
    BY <1>1, <1>3, <1>4, <2>1, MemberRefused
  <2>2. CASE Refuse(TRUE)
    BY <1>1, <1>3, <1>4, <2>2, MemberRefused
  <2>3. CASE pc' \in {"tag", "skip", "hold"} /\ UNCHANGED <<seen, want, where, frames, target, errors, unwinding, wrong>>
    <3>1. Kind(Top.type) = "tagged"
      BY <1>6 DEF TaggedMember
    <3>2. QED
      BY <1>1, <1>3, <1>4, <2>3, <3>1, MemberNoted
  <2>4. CASE OneOf.tag # Stranger /\ Variant(OneOf.tag)
    <3>1. Kind(Top.type) = "tagged" /\ Tagged(Place) /\ OneOf.tag = oneofs[Place].tag
      BY <1>6, <2>4, OneOfIs DEF DecodeInv, TaggedMember, Tagged
    <3>2. Decode(schema[Top.type].fields[OneOf.tag], Within("content"))
      BY <2>4 DEF Variant
    <3>3. TypeAt("content", schema[Top.type].fields[OneOf.tag]) /\ "content" \in Keys
      BY <3>1, KeysHave DEF TypeAt
    <3>4. QED
      BY <1>1, <1>3, <1>4, <3>2, <3>3, MemberDecoded
  <2>5. QED
    BY <1>6, <2>1, <2>2, <2>3, <2>4 DEF TaggedMember
<1>7. QED
  BY <1>1, <1>5, <1>6

\* An element of a list, its end, or neither.
LEMMA NextElementStep ==
    ASSUME DecodeInv, NextElement
    PROVE  DecodeInv'
<1>1. /\ pc = "next" /\ Kind(Top.type) = "list"
      /\ UNCHANGED <<schema, fail_fast, oneofs, irrecoverable, feed>>
  BY DEF NextElement
<1>2. frames # <<>> /\ path = Front(open) /\ Len(open) = Len(frames)
  BY <1>1 DEF DecodeInv, Aligned
<1>3. Top.type \in DOMAIN schema /\ Top.index \in Keys
  BY <1>2, TopIs, KeysHave DEF DecodeInv
<1>4. feed = <<>> /\ NoReplay /\ ~unwinding
  BY <1>1, BetweenFed DEF FedMembers
<1>5. /\ feed \in Seq(Items) /\ read \in Nat /\ wrong \in Nat /\ broken \in BOOLEAN /\ unwinding \in BOOLEAN
      /\ Len(errors) \in Nat
  BY LenProperties DEF DecodeInv, DecodeTypeOK
<1>6. CASE /\ ~broken
           /\ path' = Append(path, Top.index) /\ open' = At(Top.index)
           /\ Decode(schema[Top.type].of, Within(Top.index))
           /\ broken' = broken /\ read' = read
  <2>1. TypeAt(Top.index, schema[Top.type].of) /\ FedLeft
    BY <1>1, <1>4 DEF TypeAt, FedLeft
  <2>2. QED
    BY <1>1, <1>3, <1>5, <1>6, <2>1, MemberDecoded
<1>7. CASE /\ ~broken /\ read' = read + 1
           /\ Leave("ok")
           /\ UNCHANGED <<path, seen, want, where, errors, unwinding, broken, wrong>>
  <2>1. frames' = Front(frames) /\ open' = Front(open) /\ pc' = "ok"
    BY <1>7 DEF Leave
  <2>2. /\ frames' \in Seq(Frames) /\ open' \in Seq(Keys) /\ Len(open') = Len(frames')
        /\ FramesGrow /\ (NoReplay => NoReplay')
    BY <1>2, <2>1, LeaveIs DEF DecodeInv
  <2>3. DecodeTypeOK'
    BY <1>1, <1>5, <1>7, <2>1, <2>2, TypesKept DEF DecodeInv, DecodeTypeOK
  <2>4. Aligned'
    BY <1>2, <1>7, <2>1, <2>2 DEF Aligned, InMember
  <2>5. FollowsSchema'
    <3>1. Grows
      BY <1>1, <1>7, NothingGrows DEF DecodeInv, FollowsSchema
    <3>2. HereOK'
      BY <2>1 DEF HereOK
    <3>3. QED
      BY <2>2, <3>1, <3>2, GrowthKeeps DEF DecodeInv, FollowsSchema
  <2>6. Fed'
    BY <1>1, <1>4, <1>7, <2>1, <2>2 DEF DecodeInv, Fed
  <2>7. Collected'
    BY <1>1, <1>4, <1>7, <2>1 DEF DecodeInv, Collected, ErrorsOK, Leaving
  <2>8. QED
    BY <2>3, <2>4, <2>5, <2>6, <2>7 DEF DecodeInv
<1>8. CASE /\ path' = Append(path, Top.index) /\ open' = At(Top.index)
           /\ pc' = "err" /\ broken' = TRUE /\ wrong' = wrong + 1
           /\ UNCHANGED <<frames, seen, want, where, errors, unwinding, read>>
  <2>1. path' = open' /\ open' \in Seq(Keys) /\ Len(open') = Len(frames)
    BY <1>1, <1>3, <1>8, NamedIs
  <2>2. wrong' \in Nat /\ broken' \in BOOLEAN
    BY <1>5, <1>8
  <2>3. DecodeTypeOK'
    BY <1>1, <1>8, <2>1, <2>2, TypesKept DEF DecodeInv, DecodeTypeOK
  <2>4. Aligned'
    BY <1>8, <2>1 DEF Aligned, InMember
  <2>5. FollowsSchema'
    <3>1. Grows /\ FramesGrow
      BY <1>1, <1>8, NothingGrows DEF DecodeInv, FollowsSchema, FramesGrow
    <3>2. HereOK'
      BY <1>8 DEF HereOK
    <3>3. QED
      BY <3>1, <3>2, GrowthKeeps DEF DecodeInv, FollowsSchema
  <2>6. Fed'
    BY <1>1, <1>4, <1>8 DEF DecodeInv, Fed, NoReplay
  <2>7. Collected'
    BY <1>1, <1>8 DEF DecodeInv, Collected, ErrorsOK
  <2>8. QED
    BY <2>3, <2>4, <2>5, <2>6, <2>7 DEF DecodeInv
<1>9. QED
  BY <1>6, <1>7, <1>8 DEF NextElement
-----------------------------------------------------------------------------
(* Tags and contents.                                                        *)

\* What a oneof remembers changes in the order that its tag allows.
LEMMA SetOneOfIs ==
    ASSUME DecodeInv, frames # <<>>, Kind(Top.type) = "tagged", schema' = schema,
           NEW o \in OneOfs, SetOneOf(o),
           o.tag \in DOMAIN schema[Top.type].fields \union {Stranger},
           OneOf.tag # Stranger => o.tag = OneOf.tag,
           \A i \in DOMAIN o.contents : IsContent(o.contents[i])
    PROVE  /\ OneOfsGrow
           /\ \A p \in DOMAIN oneofs' : oneofs'[p] \in OneOfs'
           /\ \A p \in DOMAIN oneofs' : \A i \in DOMAIN oneofs'[p].contents : IsContent(oneofs'[p].contents[i])
           /\ Place \in DOMAIN oneofs' /\ oneofs'[Place] = o
           /\ Grows \/ seen' # seen
<1>1. Top = frames[Len(frames)] /\ Len(frames) \in DOMAIN frames
  BY TopIs DEF DecodeInv
<1>2. Place \in DOMAIN seen /\ seen[Place] = Top.type
  BY <1>1 DEF DecodeInv, FollowsSchema, FramesOK, Place
<1>3. /\ DOMAIN oneofs' = DOMAIN oneofs \union {Place}
      /\ \A p \in DOMAIN oneofs' : oneofs'[p] = IF p = Place THEN o ELSE oneofs[p]
  BY DEF SetOneOf, Put
<1>4. Place \in DOMAIN oneofs => OneOf = oneofs[Place]
  BY DEF OneOf
<1>5. OneOfsGrow
  BY <1>2, <1>3, <1>4 DEF OneOfsGrow, DecodeInv, FollowsSchema, OneOfsOK
<1>6. \A p \in DOMAIN oneofs' : oneofs'[p] \in OneOfs'
  BY <1>3, SameSchema DEF DecodeInv, DecodeTypeOK
<1>7. \A p \in DOMAIN oneofs' : \A i \in DOMAIN oneofs'[p].contents : IsContent(oneofs'[p].contents[i])
  BY <1>3 DEF DecodeInv, Fed
<1>8. Grows \/ seen' # seen
  BY <1>5 DEF Grows, OneOfsGrow
<1>9. QED
  BY <1>3, <1>5, <1>6, <1>7, <1>8

\* The contents that are buffered are contents.
LEMMA BufferedAre ==
    ASSUME DecodeInv
    PROVE  \A i \in DOMAIN OneOf.contents : IsContent(OneOf.contents[i])
<1>1. OneOf.contents = <<>> \/ (Place \in DOMAIN oneofs /\ OneOf = oneofs[Place])
  BY OneOfIs DEF DecodeInv
<1>2. DOMAIN <<>> = {}
  OBVIOUS
<1>3. QED
  BY <1>1, <1>2 DEF DecodeInv, Fed

\* A tag is read.
LEMMA TagStep ==
    ASSUME DecodeInv, NEW tag, Tag(tag)
    PROVE  DecodeInv'
<1>1. /\ pc = "tag" /\ read' = read + 1
      /\ UNCHANGED <<feed, open, schema, fail_fast, want, where, frames, path, seen, irrecoverable>>
  BY DEF Tag
<1>2. frames # <<>> /\ path = open /\ Kind(Top.type) = "tagged"
  BY <1>1 DEF DecodeInv, Aligned, InMember, FollowsSchema, HereOK
<1>3. /\ ~unwinding /\ ~broken /\ broken \in BOOLEAN /\ ~irrecoverable /\ feed = <<>> /\ NoReplay
  BY <1>1, BetweenFed DEF DecodeInv, DecodeTypeOK, Collected
<1>4. /\ read \in Nat /\ wrong \in Nat /\ Len(errors) \in Nat /\ wrong = Len(errors) /\ open \in Seq(Keys)
      /\ errors \in Seq(Problems)
  <2>1. /\ read \in Nat /\ wrong \in Nat /\ Len(errors) \in Nat /\ open \in Seq(Keys) /\ errors \in Seq(Problems)
    BY LenProperties DEF DecodeInv, DecodeTypeOK
  <2>2. wrong = Len(errors)
    BY <1>1, <1>3, <2>1 DEF DecodeInv, Collected, Leaving
  <2>3. QED
    BY <2>1, <2>2
<1>5. Top.type \in DOMAIN schema /\ DOMAIN schema[Top.type].fields \subseteq Fields("tagged")
  BY <1>2, TopIs, TagsHave DEF DecodeInv
<1>6. /\ OneOf \in OneOfs /\ \A i \in DOMAIN OneOf.contents : IsContent(OneOf.contents[i])
      /\ OneOf.tag \in DOMAIN schema[Top.type].fields \union {Stranger}
  <2>1. OneOf \in OneOfs /\ \A i \in DOMAIN OneOf.contents : IsContent(OneOf.contents[i])
    BY OneOfIs, BufferedAre DEF DecodeInv
  <2>2. Top = frames[Len(frames)] /\ Len(frames) \in DOMAIN frames
    BY <1>2, TopIs DEF DecodeInv
  <2>3. Place \in DOMAIN oneofs => oneofs[Place].tag \in DOMAIN schema[Top.type].fields \union {Stranger}
    BY <2>2 DEF DecodeInv, FollowsSchema, FramesOK, OneOfsOK, Place
  <2>4. QED
    BY <2>1, <2>3, OneOfIs DEF DecodeInv
<1>7. Report(TRUE, path) /\ wrong' = wrong + 1 =>
         /\ errors' \in Seq(Problems) /\ unwinding' \in BOOLEAN /\ unwinding' = Fatal(TRUE)
         /\ Len(errors') = Len(errors) + 1 /\ wrong' = Len(errors') /\ ErrorsOK'
  BY <1>1, <1>2, <1>3, <1>4, ReportIs DEF DecodeInv, Refuses
<1>8. UNCHANGED <<errors, unwinding>> =>
         errors' \in Seq(Problems) /\ unwinding' \in BOOLEAN /\ ~unwinding' /\ ErrorsOK'
  BY <1>1, <1>3, <1>4 DEF DecodeInv, DecodeTypeOK, Collected, ErrorsOK
<1>9. ASSUME errors' \in Seq(Problems), unwinding' \in BOOLEAN, ErrorsOK', wrong' \in Nat,
             broken' \in BOOLEAN, pc' \in {"replay", "replayed", "leave"},
             pc' # "leave" => ~broken' /\ ~unwinding',
             broken' => ~unwinding',
             ~broken' => wrong' = Len(errors') + Leaving',
             Grows,
             \A p \in DOMAIN oneofs' : oneofs'[p] \in OneOfs',
             \A p \in DOMAIN oneofs' : \A i \in DOMAIN oneofs'[p].contents : IsContent(oneofs'[p].contents[i]),
             pc' = "replay" => Place \in DOMAIN oneofs' /\ oneofs'[Place].tag # Stranger
      PROVE  DecodeInv'
  <2>1. DecodeTypeOK'
    BY <1>1, <1>4, <1>9, TypesKept DEF DecodeInv, DecodeTypeOK, InMember
  <2>2. Aligned'
    <3>1. path # <<>>
      <4>1. Len(open) = Len(frames) /\ Len(frames) # 0
        BY <1>2, EmptySeq DEF DecodeInv, DecodeTypeOK, Aligned
      <4>2. QED
        BY <1>2, <4>1, EmptySeq
    <3>2. QED
      BY <1>1, <1>2, <1>9, <3>1 DEF DecodeInv, Aligned, InMember
  <2>3. FollowsSchema'
    <3>1. FramesGrow
      BY <1>1 DEF FramesGrow
    <3>2. HereOK'
      BY <1>1, <1>2, <1>9 DEF HereOK, Kind, Top, Place, Tagged
    <3>3. QED
      BY <1>9, <3>1, <3>2, GrowthKeeps DEF DecodeInv, FollowsSchema
  <2>4. Fed'
    BY <1>1, <1>3, <1>9 DEF Fed, NoReplay
  <2>5. Collected'
    BY <1>1, <1>3, <1>9 DEF Collected
  <2>6. QED
    BY <2>1, <2>2, <2>3, <2>4, <2>5 DEF DecodeInv
<1>10. CASE /\ tag \in DOMAIN schema[Top.type].fields /\ ~OneOf.invalid
            /\ IF OneOf.tag \in {Stranger, tag}
               THEN pc' = "replay" /\ UNCHANGED <<errors, unwinding, wrong>>
               ELSE /\ Report(TRUE, path)
                    /\ pc' = IF Fatal(TRUE) THEN "leave" ELSE "replay"
                    /\ wrong' = wrong + 1
            /\ SetOneOf([OneOf EXCEPT !.tag = IF @ = Stranger THEN tag ELSE @])
            /\ broken' = broken
  <2>. DEFINE o == [OneOf EXCEPT !.tag = IF OneOf.tag = Stranger THEN tag ELSE OneOf.tag]
  <2>1. tag # Stranger
    <3>1. Stranger \notin DOMAIN schema[Top.type].fields
      BY <1>2, <1>5, SchemaIs DEF DecodeInv
    <3>2. QED
      BY <1>10, <3>1
  <2>2. /\ o \in OneOfs /\ o.contents = OneOf.contents
        /\ o.tag = (IF OneOf.tag = Stranger THEN tag ELSE OneOf.tag)
    BY <1>5, <1>6, <1>10 DEF OneOfs
  <2>3. SetOneOf(o)
    BY <1>10
  <2>. HIDE DEF o
  <2>4. /\ o.tag \in DOMAIN schema[Top.type].fields \union {Stranger} /\ o.tag # Stranger
        /\ OneOf.tag # Stranger => o.tag = OneOf.tag
    BY <1>6, <1>10, <2>1, <2>2
  <2>5. /\ Grows
        /\ \A p \in DOMAIN oneofs' : oneofs'[p] \in OneOfs'
        /\ \A p \in DOMAIN oneofs' : \A i \in DOMAIN oneofs'[p].contents : IsContent(oneofs'[p].contents[i])
        /\ Place \in DOMAIN oneofs' /\ oneofs'[Place].tag # Stranger
    BY <1>1, <1>2, <1>6, <2>2, <2>3, <2>4, SetOneOfIs
  <2>6. CASE pc' = "replay" /\ UNCHANGED <<errors, unwinding, wrong>>
    <3>1. /\ errors' \in Seq(Problems) /\ unwinding' \in BOOLEAN /\ ~unwinding' /\ ErrorsOK'
          /\ ~broken' /\ broken' \in BOOLEAN
      BY <1>3, <1>8, <1>10, <2>6
    <3>2. Leaving' = 0 /\ wrong' \in Nat /\ wrong' = Len(errors') + Leaving'
      BY <1>4, <2>6 DEF Leaving
    <3>3. QED
      BY <1>9, <3>1, <3>2, <2>5, <2>6
  <2>7. CASE /\ Report(TRUE, path)
             /\ pc' = IF Fatal(TRUE) THEN "leave" ELSE "replay"
             /\ wrong' = wrong + 1
    <3>1. pc' = IF unwinding' THEN "leave" ELSE "replay"
      BY <1>7, <2>7
    <3>2. Leaving' = 0
      BY <3>1 DEF Leaving
    <3>3. wrong' \in Nat /\ wrong' = Len(errors') + Leaving'
      BY <1>4, <1>7, <2>7, <3>2
    <3>4. errors' \in Seq(Problems) /\ unwinding' \in BOOLEAN /\ ErrorsOK' /\ ~broken' /\ broken' \in BOOLEAN
      BY <1>3, <1>7, <1>10, <2>7
    <3>5. QED
      BY <1>9, <2>5, <3>1, <3>3, <3>4
  <2>8. QED
    BY <1>10, <2>6, <2>7
<1>11. CASE /\ tag \in DOMAIN schema[Top.type].fields /\ OneOf.invalid
            /\ pc' = "replayed"
            /\ UNCHANGED <<errors, unwinding, wrong, oneofs, broken>>
  <2>1. Grows
    BY <1>1, <1>11, NothingGrows DEF DecodeInv, FollowsSchema
  <2>2. /\ \A p \in DOMAIN oneofs' : oneofs'[p] \in OneOfs'
        /\ \A p \in DOMAIN oneofs' : \A i \in DOMAIN oneofs'[p].contents : IsContent(oneofs'[p].contents[i])
    BY <1>1, <1>11, SameSchema DEF DecodeInv, DecodeTypeOK, Fed
  <2>3. QED
    <3>1. /\ errors' \in Seq(Problems) /\ unwinding' \in BOOLEAN /\ ~unwinding' /\ ErrorsOK'
          /\ ~broken' /\ broken' \in BOOLEAN
      BY <1>3, <1>8, <1>11
    <3>2. Leaving' = 0 /\ wrong' \in Nat /\ wrong' = Len(errors') + Leaving'
      BY <1>4, <1>11 DEF Leaving
    <3>3. QED
      BY <1>9, <3>1, <3>2, <1>11, <2>1, <2>2
<1>12. CASE /\ SetOneOf([OneOf EXCEPT !.invalid = TRUE])
            /\ Report(TRUE, path)
            /\ pc' = IF Fatal(TRUE) THEN "leave" ELSE "replayed"
            /\ wrong' = wrong + 1
            /\ broken' = broken
  <2>. DEFINE o == [OneOf EXCEPT !.invalid = TRUE]
  <2>1. o \in OneOfs /\ o.contents = OneOf.contents /\ o.tag = OneOf.tag
    BY <1>6 DEF OneOfs
  <2>2. SetOneOf(o)
    BY <1>12
  <2>. HIDE DEF o
  <2>3. /\ Grows
        /\ \A p \in DOMAIN oneofs' : oneofs'[p] \in OneOfs'
        /\ \A p \in DOMAIN oneofs' : \A i \in DOMAIN oneofs'[p].contents : IsContent(oneofs'[p].contents[i])
    BY <1>1, <1>2, <1>6, <2>1, <2>2, SetOneOfIs
  <2>4. pc' = IF unwinding' THEN "leave" ELSE "replayed"
    BY <1>7, <1>12
  <2>5. Leaving' = 0
    BY <2>4 DEF Leaving
  <2>6. wrong' \in Nat /\ wrong' = Len(errors') + Leaving'
    BY <1>4, <1>7, <1>12, <2>5
  <2>7. errors' \in Seq(Problems) /\ unwinding' \in BOOLEAN /\ ErrorsOK' /\ ~broken' /\ broken' \in BOOLEAN
    BY <1>3, <1>7, <1>12
  <2>8. QED
    BY <1>9, <2>3, <2>4, <2>6, <2>7
<1>13. CASE /\ pc' = "leave" /\ wrong' = wrong + 1
            /\ broken' \in BOOLEAN
            /\ UNCHANGED <<errors, unwinding, oneofs>>
  <2>1. Grows
    BY <1>1, <1>13, NothingGrows DEF DecodeInv, FollowsSchema
  <2>2. /\ \A p \in DOMAIN oneofs' : oneofs'[p] \in OneOfs'
        /\ \A p \in DOMAIN oneofs' : \A i \in DOMAIN oneofs'[p].contents : IsContent(oneofs'[p].contents[i])
    BY <1>1, <1>13, SameSchema DEF DecodeInv, DecodeTypeOK, Fed
  <2>3. Leaving' = 1 /\ wrong' \in Nat /\ wrong' = Len(errors') + Leaving'
    BY <1>3, <1>4, <1>13 DEF Leaving
  <2>4. QED
    BY <1>8, <1>9, <1>13, <2>1, <2>2, <2>3
<1>14. QED
  <2>1. \/ /\ tag \in DOMAIN schema[Top.type].fields /\ ~OneOf.invalid
           /\ IF OneOf.tag \in {Stranger, tag}
              THEN pc' = "replay" /\ UNCHANGED <<errors, unwinding, wrong>>
              ELSE /\ Report(TRUE, path)
                   /\ pc' = IF Fatal(TRUE) THEN "leave" ELSE "replay"
                   /\ wrong' = wrong + 1
           /\ SetOneOf([OneOf EXCEPT !.tag = IF @ = Stranger THEN tag ELSE @])
           /\ broken' = broken
        \/ /\ tag \in DOMAIN schema[Top.type].fields /\ OneOf.invalid
           /\ pc' = "replayed"
           /\ UNCHANGED <<errors, unwinding, wrong, oneofs, broken>>
        \/ /\ SetOneOf([OneOf EXCEPT !.invalid = TRUE])
           /\ Report(TRUE, path)
           /\ pc' = IF Fatal(TRUE) THEN "leave" ELSE "replayed"
           /\ wrong' = wrong + 1
           /\ broken' = broken
        \/ /\ pc' = "leave" /\ wrong' = wrong + 1
           /\ broken' \in BOOLEAN
           /\ UNCHANGED <<errors, unwinding, oneofs>>
    BY DEF Tag
  <2>2. QED
    BY <2>1, <1>10, <1>11, <1>12, <1>13

\* The tokens of a content of the document.
LEMMA ContentHas ==
    ASSUME NEW content \in Contents
    PROVE  content # <<>> => /\ Len(content) \in Nat /\ Len(content) > 0 /\ Head(content) = content[1]
                             /\ DOMAIN content = 1 .. Len(content)
                             /\ Len(Tail(content)) = Len(content) - 1
                             /\ DOMAIN Tail(content) = 1 .. Len(content) - 1
                             /\ \A k \in 1 .. Len(content) - 1 : Tail(content)[k] = content[k + 1]
<1>. PICK T : T = UNION {Range(c) : c \in Contents}
  OBVIOUS
<1>1. content \in Seq(T)
  BY DecodeAssumption
<1>2. QED
  BY <1>1, TailOf

\* A content that is buffered, with what its tokens are called.
LEMMA ContentIs ==
    ASSUME NEW content \in Contents, NEW n \in Nat, NEW tokens,
           tokens = [k \in DOMAIN content |-> [token |-> content[k], id |-> <<n, k>>]]
    PROVE  tokens \in Seq(Items) /\ IsContent(tokens)
<1>. PICK T : T = UNION {Range(c) : c \in Contents}
  OBVIOUS
<1>1. content \in Seq(T)
  BY DecodeAssumption
<1>2. /\ Len(content) \in Nat /\ DOMAIN content = 1 .. Len(content)
      /\ \A k \in 1 .. Len(content) : content[k] \in T
  BY <1>1, LenProperties, ElementOfSeq
<1>3. tokens \in [1 .. Len(content) -> Items]
  <2>1. \A k \in 1 .. Len(content) : [token |-> content[k], id |-> <<n, k>>] \in Items
    BY <1>2 DEF Items
  <2>2. QED
    BY <1>2, <2>1
<1>4. tokens \in Seq(Items)
  BY <1>2, <1>3, SeqDef
<1>5. Len(tokens) = Len(content) /\ \A k \in 1 .. Len(content) : tokens[k].token = content[k]
  <2>1. Len(tokens) \in Nat /\ 1 .. Len(tokens) = 1 .. Len(content)
    BY <1>3, <1>4, LenProperties
  <2>2. QED
    BY <1>2, <2>1
<1>6. CASE \E scalar \in Scalars : content = <<scalar>>
  <2>1. PICK scalar \in Scalars : content = <<scalar>>
    BY <1>6
  <2>2. Len(content) = 1 /\ content[1] = scalar
    BY <2>1
  <2>3. Len(tokens) = 1 /\ tokens[1].token = scalar /\ tokens # <<>>
    BY <1>2, <1>5, <2>2, EmptySeq
  <2>4. QED
    BY <1>4, <2>1, <2>3 DEF IsContent
<1>7. CASE content # <<>> /\ Head(content) = "{" /\ Len(content) % 2 = 0 /\ IsMembers(Tail(content))
  <2>1. /\ Len(content) > 0 /\ Head(content) = content[1]
        /\ Len(Tail(content)) = Len(content) - 1
        /\ DOMAIN Tail(content) = 1 .. Len(content) - 1
        /\ \A k \in 1 .. Len(content) - 1 : Tail(content)[k] = content[k + 1]
    BY <1>7, ContentHas
  <2>2. tokens # <<>> /\ tokens[1].token = "{"
    <3>1. content[1] = "{"
      BY <1>7, <2>1, Zenon
    <3>2. 1 \in 1 .. Len(content)
      BY <1>2, <2>1
    <3>3. tokens # <<>>
      BY <1>5, <2>1, EmptySeq
    <3>4. QED
      BY <1>5, <3>1, <3>2, <3>3
  <2>3. /\ Tail(tokens) \in Seq(Items) /\ Len(Tail(tokens)) = Len(content) - 1
        /\ \A k \in 1 .. Len(Tail(tokens)) : Tail(tokens)[k] = tokens[k + 1]
    BY <1>4, <1>5, <2>2, HeadTailProperties
  <2>4. \A k \in 1 .. Len(content) - 1 : Fits(Len(content) - 1 - k, content[k + 1])
    <3>1. \A k \in 1 .. Len(content) - 1 : Fits(Len(Tail(content)) - k, Tail(content)[k])
      BY <1>7, <2>1 DEF IsMembers
    <3>2. QED
      BY <2>1, <3>1
  <2>5. \A k \in 1 .. Len(content) - 1 : Tail(tokens)[k].token = content[k + 1]
    BY <1>2, <1>5, <2>3
  <2>6. /\ DOMAIN Word(Tail(tokens)) = 1 .. Len(content) - 1 /\ Len(Word(Tail(tokens))) = Len(content) - 1
        /\ \A k \in 1 .. Len(content) - 1 : Word(Tail(tokens))[k] = Tail(tokens)[k].token
    BY <2>3, WordIs
  <2>7. IsMembers(Word(Tail(tokens)))
    BY <2>4, <2>5, <2>6 DEF IsMembers
  <2>8. QED
    BY <1>4, <1>5, <1>7, <2>2, <2>7 DEF IsContent
<1>8. QED
  BY <1>6, <1>7, DecodeAssumption

\* A content is buffered until its tag comes.
LEMMA HoldStep ==
    ASSUME DecodeInv, Hold
    PROVE  DecodeInv'
<1>1. /\ pc = "hold" /\ read' = read + 1 /\ path' = Front(path)
      /\ UNCHANGED <<schema, fail_fast, want, where, seen, feed>>
  BY DEF Hold, Pop
<1>2. frames # <<>> /\ path = open /\ Kind(Top.type) = "tagged" /\ Len(open) = Len(frames)
  BY <1>1 DEF DecodeInv, Aligned, InMember, FollowsSchema, HereOK
<1>3. /\ ~unwinding /\ ~broken /\ ~irrecoverable /\ feed = <<>> /\ NoReplay
  BY <1>1, BetweenFed DEF DecodeInv, Collected
<1>4. /\ read \in Nat /\ read' \in Nat /\ wrong \in Nat /\ open \in Seq(Keys) /\ path' \in Seq(Keys)
      /\ open # <<>> /\ path' = Front(open)
  <2>1. read \in Nat /\ wrong \in Nat /\ open \in Seq(Keys) /\ Len(frames) # 0
    BY <1>2, EmptySeq DEF DecodeInv, DecodeTypeOK
  <2>2. QED
    BY <1>1, <1>2, <2>1, FrontOf, EmptySeq
<1>5. ASSUME NEW content \in Contents, NEW tokens,
             tokens = [k \in DOMAIN content |-> [token |-> content[k], id |-> <<read', k>>]],
             SetOneOf([OneOf EXCEPT !.contents = Append(OneOf.contents, tokens)]),
             pc' = "next",
             UNCHANGED <<frames, open, errors, irrecoverable, unwinding, broken, wrong>>
      PROVE  DecodeInv'
  <2>1. tokens \in Seq(Items) /\ IsContent(tokens)
    BY <1>4, <1>5, ContentIs
  <2>2. /\ OneOf \in OneOfs /\ OneOf.contents \in Seq(Seq(Items))
        /\ \A i \in DOMAIN OneOf.contents : IsContent(OneOf.contents[i])
    BY OneOfIs, BufferedAre DEF DecodeInv
  <2>3. /\ Append(OneOf.contents, tokens) \in Seq(Seq(Items))
        /\ \A i \in DOMAIN Append(OneOf.contents, tokens) : IsContent(Append(OneOf.contents, tokens)[i])
    BY <2>1, <2>2, FrontOfAppend
  <2>. DEFINE o == [OneOf EXCEPT !.contents = Append(OneOf.contents, tokens)]
  <2>4. o \in OneOfs /\ o.contents = Append(OneOf.contents, tokens) /\ o.tag = OneOf.tag
    BY <2>2, <2>3 DEF OneOfs
  <2>5. SetOneOf(o)
    BY <1>5
  <2>. HIDE DEF o
  <2>6. OneOf.tag \in DOMAIN schema[Top.type].fields \union {Stranger}
    <3>1. Top = frames[Len(frames)] /\ Len(frames) \in DOMAIN frames
      BY <1>2, TopIs DEF DecodeInv
    <3>2. Place \in DOMAIN oneofs => oneofs[Place].tag \in DOMAIN schema[Top.type].fields \union {Stranger}
      BY <3>1 DEF DecodeInv, FollowsSchema, FramesOK, OneOfsOK, Place
    <3>3. QED
      BY <3>2, OneOfIs DEF DecodeInv
  <2>7. \A i \in DOMAIN o.contents : IsContent(o.contents[i])
    BY <2>3, <2>4
  <2>8. /\ Grows
        /\ \A p \in DOMAIN oneofs' : oneofs'[p] \in OneOfs'
        /\ \A p \in DOMAIN oneofs' : \A i \in DOMAIN oneofs'[p].contents : IsContent(oneofs'[p].contents[i])
    BY <1>1, <1>2, <2>4, <2>5, <2>6, <2>7, SetOneOfIs
  <2>9. DecodeTypeOK'
    BY <1>1, <1>4, <1>5, <2>8, TypesKept DEF DecodeInv, DecodeTypeOK
  <2>10. Aligned'
    BY <1>2, <1>4, <1>5 DEF Aligned
  <2>11. FollowsSchema'
    <3>1. FramesGrow /\ HereOK'
      BY <1>5 DEF FramesGrow, HereOK
    <3>2. QED
      BY <2>8, <3>1, GrowthKeeps DEF DecodeInv, FollowsSchema
  <2>12. Fed'
    BY <1>1, <1>3, <1>5, <2>8 DEF Fed, NoReplay
  <2>13. Collected'
    BY <1>1, <1>3, <1>5 DEF DecodeInv, Collected, ErrorsOK, Leaving
  <2>14. QED
    BY <2>9, <2>10, <2>11, <2>12, <2>13 DEF DecodeInv
<1>6. CASE GiveUp /\ broken' = TRUE /\ wrong' = wrong + 1 /\ oneofs' = oneofs
  <2>1. /\ frames' = Front(frames) /\ open' = Front(open) /\ pc' = "err"
        /\ irrecoverable' = TRUE /\ UNCHANGED <<errors, unwinding>>
    BY <1>6 DEF GiveUp, Leave
  <2>2. /\ frames' \in Seq(Frames) /\ open' \in Seq(Keys) /\ Len(open') = Len(frames')
        /\ FramesGrow /\ (NoReplay => NoReplay')
    BY <1>2, <2>1, LeaveIs DEF DecodeInv
  <2>3. DecodeTypeOK'
    <3>1. irrecoverable' \in BOOLEAN /\ broken' \in BOOLEAN /\ wrong' \in Nat
      BY <1>4, <1>6, <2>1
    <3>2. QED
      BY <1>1, <1>4, <1>6, <2>1, <2>2, <3>1, TypesKept DEF DecodeInv, DecodeTypeOK
  <2>4. Aligned'
    BY <1>4, <2>1, <2>2 DEF Aligned, InMember
  <2>5. FollowsSchema'
    <3>1. Grows
      BY <1>1, <1>6, NothingGrows DEF DecodeInv, FollowsSchema
    <3>2. HereOK'
      BY <2>1 DEF HereOK
    <3>3. QED
      BY <2>2, <3>1, <3>2, GrowthKeeps DEF DecodeInv, FollowsSchema
  <2>6. Fed'
    <3>1. \A p \in DOMAIN oneofs' : \A i \in DOMAIN oneofs'[p].contents : IsContent(oneofs'[p].contents[i])
      BY <1>6 DEF DecodeInv, Fed
    <3>2. QED
      BY <1>1, <1>3, <2>1, <2>2, <3>1 DEF Fed
  <2>7. Collected'
    BY <1>1, <1>3, <1>6, <2>1 DEF DecodeInv, Collected, ErrorsOK
  <2>8. QED
    BY <2>3, <2>4, <2>5, <2>6, <2>7 DEF DecodeInv
<1>7. QED
  <2>1. \/ \E content \in Contents :
              LET tokens == [k \in DOMAIN content |-> [token |-> content[k], id |-> <<read', k>>]] IN
              /\ SetOneOf([OneOf EXCEPT !.contents = Append(OneOf.contents, tokens)])
              /\ pc' = "next"
              /\ UNCHANGED <<frames, open, errors, irrecoverable, unwinding, broken, wrong>>
        \/ GiveUp /\ broken' = TRUE /\ wrong' = wrong + 1 /\ oneofs' = oneofs
    BY DEF Hold, state
  <2>2. QED
    BY <2>1, <1>5, <1>6

\* The next of the buffered contents is decoded, or refused.
LEMMA ReplayStep ==
    ASSUME DecodeInv, Replay
    PROVE  DecodeInv'
<1>. DEFINE contents == OneOf.contents
<1>1. /\ pc = "replay" /\ read' = read
      /\ path' = [path EXCEPT ![Len(path)] = "content"]
      /\ UNCHANGED <<schema, fail_fast, irrecoverable, broken>>
  BY DEF Replay
<1>2. frames # <<>> /\ path = open /\ Kind(Top.type) = "tagged" /\ Len(open) = Len(frames) /\ Tagged(Place)
  BY <1>1 DEF DecodeInv, Aligned, InMember, FollowsSchema, HereOK
<1>3. /\ ~unwinding /\ ~broken /\ ~irrecoverable /\ feed = <<>> /\ NoReplay
  BY <1>1, BetweenFed DEF DecodeInv, Collected
<1>4. /\ open \in Seq(Keys) /\ open # <<>> /\ frames \in Seq(Frames)
  <2>1. open \in Seq(Keys) /\ Len(frames) # 0 /\ frames \in Seq(Frames)
    BY <1>2, EmptySeq DEF DecodeInv, DecodeTypeOK
  <2>2. QED
    BY <1>2, <2>1, EmptySeq
<1>5. /\ path' \in Seq(Keys) /\ path' # <<>> /\ Front(path') = Front(open) /\ Len(path') = Len(frames)
      /\ path' = Append(Front(open), "content")
  <2>1. path' = Append(Front(open), "content") /\ "content" \in Keys
    BY <1>1, <1>2, <1>4, LastReplaced, KeysHave
  <2>2. Front(open) \in Seq(Keys) /\ Len(Front(open)) = Len(open) - 1 /\ Len(open) \in Nat
    BY <1>4, FrontOf, LenProperties
  <2>. DEFINE a == Append(Front(open), "content")
  <2>3. a \in Seq(Keys) /\ a # <<>> /\ Len(a) = Len(Front(open)) + 1 /\ Front(a) = Front(open)
    BY <2>1, <2>2, FrontOfAppend
  <2>. HIDE DEF a
  <2>4. path' = a
    BY <2>1 DEF a
  <2>5. Len(a) = Len(frames)
    BY <1>2, <2>2, <2>3
  <2>6. QED
    BY <2>1, <2>3, <2>4, <2>5
<1>6. open' = At("content") => open' = path'
  <2>1. At("content") = Append(Front(open), "content")
    BY <1>4, LastReplaced, KeysHave DEF At
  <2>2. QED
    BY <1>5, <2>1
<1>7. /\ read \in Nat /\ wrong \in Nat /\ Len(errors) \in Nat /\ wrong = Len(errors)
      /\ errors \in Seq(Problems)
  <2>1. /\ read \in Nat /\ wrong \in Nat /\ Len(errors) \in Nat /\ errors \in Seq(Problems)
    BY LenProperties DEF DecodeInv, DecodeTypeOK
  <2>2. wrong = Len(errors)
    BY <1>1, <1>3, <2>1 DEF DecodeInv, Collected, Leaving
  <2>3. QED
    BY <2>1, <2>2
<1>8. /\ OneOf \in OneOfs /\ contents \in Seq(Seq(Items)) /\ OneOf.tag # Stranger
      /\ OneOf.tag = oneofs[Place].tag /\ \A i \in DOMAIN contents : IsContent(contents[i])
  BY <1>2, OneOfIs, BufferedAre DEF DecodeInv, Tagged
<1>9. /\ Top.type \in DOMAIN schema /\ OneOf.tag \in DOMAIN schema[Top.type].fields
      /\ Top = frames[Len(frames)] /\ Len(frames) \in DOMAIN frames
  <2>1. Top.type \in DOMAIN schema /\ Top = frames[Len(frames)] /\ Len(frames) \in DOMAIN frames
    BY <1>2, TopIs DEF DecodeInv
  <2>2. oneofs[Place].tag \in DOMAIN schema[Top.type].fields
    BY <1>2, <2>1 DEF DecodeInv, FollowsSchema, FramesOK, OneOfsOK, Place, Tagged
  <2>3. QED
    BY <1>8, <2>1, <2>2
<1>10. CASE /\ contents = <<>>
            /\ pc' = "replayed"
            /\ UNCHANGED <<frames, oneofs, feed, open, wrong, seen, want, where, errors, unwinding>>
  <2>1. DecodeTypeOK'
    BY <1>1, <1>5, <1>10, TypesKept DEF DecodeInv, DecodeTypeOK, InMember
  <2>2. Aligned'
    BY <1>2, <1>5, <1>10 DEF Aligned
  <2>3. FollowsSchema'
    <3>1. Grows /\ FramesGrow
      BY <1>1, <1>10, NothingGrows DEF DecodeInv, FollowsSchema, FramesGrow
    <3>2. HereOK'
      BY <1>1, <1>2, <1>10 DEF HereOK, Kind, Top
    <3>3. QED
      BY <3>1, <3>2, GrowthKeeps DEF DecodeInv, FollowsSchema
  <2>4. Fed'
    BY <1>1, <1>3, <1>10 DEF DecodeInv, Fed, NoReplay
  <2>5. Collected'
    BY <1>1, <1>3, <1>10 DEF DecodeInv, Collected, ErrorsOK, Leaving
  <2>6. QED
    BY <2>1, <2>2, <2>3, <2>4, <2>5 DEF DecodeInv
<1>11. ASSUME contents # <<>>,
              SetOneOf([OneOf EXCEPT !.contents = Tail(contents)]),
              open' = At("content"),
              \/ /\ seen' = Put(seen, Within("content"), schema[Top.type].fields[OneOf.tag])
                 /\ want' = schema[Top.type].fields[OneOf.tag] /\ where' = Within("content")
                 /\ frames' = [frames EXCEPT ![Len(frames)].replays = TRUE]
                 /\ feed' = Head(contents) /\ pc' = "value"
                 /\ UNCHANGED <<errors, unwinding, wrong>>
              \/ /\ feed' = feed /\ wrong' = wrong + 1
                 /\ Report(TRUE, path')
                 /\ pc' = IF Fatal(TRUE) THEN "leave" ELSE "replay"
                 /\ UNCHANGED <<frames, seen, want, where>>
       PROVE  DecodeInv'
  <2>1. /\ Head(contents) = contents[1] /\ 1 \in DOMAIN contents /\ Head(contents) \in Seq(Items)
        /\ Tail(contents) \in Seq(Seq(Items)) /\ \A i \in DOMAIN Tail(contents) : IsContent(Tail(contents)[i])
    <3>. PICK c : c = contents
      OBVIOUS
    <3>1. c \in Seq(Seq(Items)) /\ c # <<>> /\ \A i \in DOMAIN c : IsContent(c[i])
      BY <1>8, <1>11
    <3>2. /\ Head(c) = c[1] /\ 1 \in DOMAIN c /\ Head(c) \in Seq(Items)
          /\ Tail(c) \in Seq(Seq(Items)) /\ DOMAIN Tail(c) = 1 .. Len(c) - 1
          /\ \A k \in 1 .. Len(c) - 1 : k + 1 \in DOMAIN c /\ Tail(c)[k] = c[k + 1]
      BY <3>1, TailOf
    <3>3. \A i \in DOMAIN Tail(c) : IsContent(Tail(c)[i])
      BY <3>1, <3>2
    <3>4. QED
      BY <3>2, <3>3
  <2>. DEFINE o == [OneOf EXCEPT !.contents = Tail(contents)]
  <2>2. o \in OneOfs /\ o.contents = Tail(contents) /\ o.tag = OneOf.tag
    BY <1>8, <2>1 DEF OneOfs
  <2>3. SetOneOf(o)
    BY <1>11
  <2>. HIDE DEF o
  <2>4. /\ OneOfsGrow
        /\ \A p \in DOMAIN oneofs' : oneofs'[p] \in OneOfs'
        /\ \A p \in DOMAIN oneofs' : \A i \in DOMAIN oneofs'[p].contents : IsContent(oneofs'[p].contents[i])
        /\ Place \in DOMAIN oneofs' /\ oneofs'[Place].tag # Stranger
        /\ Grows \/ seen' # seen
    BY <1>1, <1>2, <1>8, <1>9, <2>1, <2>2, <2>3, SetOneOfIs
  <2>5. open' = path'
    BY <1>6, <1>11
  <2>6. CASE /\ seen' = Put(seen, Within("content"), schema[Top.type].fields[OneOf.tag])
             /\ want' = schema[Top.type].fields[OneOf.tag] /\ where' = Within("content")
             /\ frames' = [frames EXCEPT ![Len(frames)].replays = TRUE]
             /\ feed' = Head(contents) /\ pc' = "value"
             /\ UNCHANGED <<errors, unwinding, wrong>>
    <3>1. TypeAt("content", schema[Top.type].fields[OneOf.tag]) /\ "content" \in Keys
      BY <1>2, <1>8, KeysHave DEF TypeAt
    <3>2. /\ Grows /\ want' \in DOMAIN schema
          /\ where' \in Seq(Keys) /\ where' \in DOMAIN seen' /\ seen'[where'] = want'
          /\ \A p \in DOMAIN seen' : p \in Seq(Keys) /\ seen'[p] \in DOMAIN schema'
      BY <1>1, <1>2, <2>4, <2>6, <3>1, DecodeIs
    <3>3. Kind(want') \in {"value", "message"}
      BY <1>2, <1>9, <2>6, SchemaIs DEF DecodeInv
    <3>. DEFINE f == [Top EXCEPT !.replays = TRUE]
    <3>4. Top \in Frames
      BY <1>2, TopIs DEF DecodeInv
    <3>5. f \in Frames /\ f.type = Top.type /\ f.place = Place /\ f.replays
      BY <3>4 DEF Frames, Place
    <3>6. frames' = [frames EXCEPT ![Len(frames)] = f]
      BY <1>9, <2>6
    <3>. HIDE DEF f
    <3>7. /\ frames' \in Seq(Frames) /\ Len(frames') = Len(frames) /\ DOMAIN frames' = DOMAIN frames
          /\ \A i \in DOMAIN frames : frames'[i] = IF i = Len(frames) THEN f ELSE frames[i]
          /\ FramesGrow
      BY <1>2, <3>5, <3>6, FramesReplaced DEF DecodeInv
    <3>8. DecodeTypeOK'
      BY <1>1, <1>5, <1>7, <2>1, <2>4, <2>5, <2>6, <3>2, <3>7, TypesKept DEF DecodeInv, DecodeTypeOK
    <3>9. Aligned'
      BY <1>5, <2>5, <2>6, <3>7 DEF Aligned, InMember
    <3>10. FollowsSchema'
      <4>1. HereOK'
        BY <2>6, <3>2 DEF HereOK
      <4>2. QED
        BY <3>2, <3>7, <4>1, GrowthKeeps DEF DecodeInv, FollowsSchema
    <3>11. FedContent'
      <4>1. frames' # <<>>
        BY <1>9, <3>7
      <4>2. ReplayAt(Len(frames))'
        BY <1>3, <3>5, <3>7 DEF ReplayAt, NoReplay
      <4>3. IsContent(feed')
        BY <1>8, <2>1, <2>6
      <4>4. Kind(want)' \in {"value", "message"}
        BY <1>1, <3>3 DEF Kind
      <4>5. QED
        BY <2>6, <4>1, <4>2, <4>3, <4>4 DEF FedContent
    <3>12. Fed'
      BY <1>1, <1>3, <2>4, <2>6, <3>11 DEF Fed
    <3>13. Collected'
      BY <1>1, <1>3, <2>6 DEF DecodeInv, Collected, ErrorsOK, Leaving
    <3>14. QED
      BY <3>8, <3>9, <3>10, <3>12, <3>13 DEF DecodeInv
  <2>7. CASE /\ feed' = feed /\ wrong' = wrong + 1
             /\ Report(TRUE, path')
             /\ pc' = IF Fatal(TRUE) THEN "leave" ELSE "replay"
             /\ UNCHANGED <<frames, seen, want, where>>
    <3>1. /\ errors' \in Seq(Problems) /\ unwinding' \in BOOLEAN /\ unwinding' = Fatal(TRUE)
          /\ Len(errors') = Len(errors) + 1 /\ ErrorsOK'
      BY <1>1, <1>3, <1>5, <2>5, <2>7, ReportIs DEF DecodeInv, Refuses
    <3>2. pc' = IF unwinding' THEN "leave" ELSE "replay"
      BY <2>7, <3>1
    <3>3. DecodeTypeOK'
      <4>1. wrong' \in Nat /\ read' \in Nat
        BY <1>1, <1>7, <2>7
      <4>2. pc' \in {"leave", "replay"}
        BY <3>2
      <4>3. Problems' = Problems /\ Keys' = Keys /\ Frames' = Frames /\ schema' \in Schemas
            /\ \A p \in DOMAIN seen' : p \in Seq(Keys) /\ seen'[p] \in DOMAIN schema'
        BY <1>1, <2>7, TypesKept DEF DecodeInv
      <4>4. feed' \in Seq(Items) /\ open' \in Seq(Keys)
        BY <1>5, <2>5, <2>7 DEF DecodeInv, DecodeTypeOK
      <4>5. QED
        BY <1>1, <1>5, <2>4, <2>7, <3>1, <4>1, <4>2, <4>3, <4>4 DEF DecodeInv, DecodeTypeOK, InMember
    <3>4. Aligned'
      BY <1>2, <1>5, <2>5, <2>7, <3>2 DEF Aligned, InMember
    <3>5. FollowsSchema'
      <4>1. FramesGrow
        BY <2>7 DEF FramesGrow
      <4>2. HereOK'
        BY <1>1, <1>2, <2>4, <2>7, <3>2 DEF HereOK, Kind, Top, Place, Tagged
      <4>3. QED
        BY <2>4, <2>7, <4>1, <4>2, GrowthKeeps DEF DecodeInv, FollowsSchema
    <3>6. Fed'
      BY <1>1, <1>3, <2>4, <2>7, <3>2 DEF Fed, NoReplay
    <3>7. Collected'
      <4>1. Leaving' = 0
        BY <3>2 DEF Leaving
      <4>2. QED
        BY <1>1, <1>3, <1>7, <2>7, <3>1, <4>1 DEF Collected
    <3>8. QED
      BY <3>3, <3>4, <3>5, <3>6, <3>7 DEF DecodeInv
  <2>8. QED
    BY <1>11, <2>6, <2>7
<1>12. QED
  BY <1>10, <1>11 DEF Replay, Buffered
-----------------------------------------------------------------------------
(* Values, and the theorems.                                                 *)

\* What comes next of a buffered value is a scalar, or begins an object.
LEMMA BufferedToken ==
    ASSUME DecodeInv, pc = "value", feed # <<>>
    PROVE  /\ ~broken /\ feed \in Seq(Items)
           /\ \/ FedMembers /\ Len(feed) % 2 = 0 /\ feed[1].token \in Scalars
              \/ /\ FedContent /\ IsContent(feed) /\ Kind(want) \in {"value", "message"}
                 /\ feed[1].token \in Scalars \union {"{"}
<1>1. ~broken /\ ~unwinding /\ feed \in Seq(Items)
  BY DEF DecodeInv, DecodeTypeOK, Fed
<1>2. FedContent \/ FedMembers
  BY <1>1 DEF DecodeInv, Fed
<1>3. CASE FedContent
  <2>1. IsContent(feed) /\ Kind(want) \in {"value", "message"}
    BY <1>3 DEF FedContent
  <2>2. feed[1].token \in Scalars \union {"{"}
    BY <2>1 DEF IsContent
  <2>3. QED
    BY <1>1, <1>3, <2>1, <2>2
<1>4. CASE FedMembers
  <2>1. IsMembers(Word(feed)) /\ Len(feed) % 2 = 0
    BY <1>4 DEF FedMembers
  <2>2. feed[1].token \in Scalars
    BY <1>1, <2>1, MembersAre
  <2>3. QED
    BY <1>1, <1>4, <2>1, <2>2
<1>5. QED
  BY <1>2, <1>3, <1>4

\* The document itself is read: no oneof's visitor replays.
LEMMA EmptyFed ==
    ASSUME DecodeInv, pc = "value", feed = <<>>
    PROVE  NoReplay
<1>1. ~unwinding /\ ~FedMembers
  BY DEF DecodeInv, Fed, FedMembers
<1>2. ~FedContent
  BY DEF FedContent, IsContent
<1>3. QED
  BY <1>1, <1>2 DEF DecodeInv, Fed

\* One less than an even number.
LEMMA OneLess ==
    ASSUME NEW n \in Nat, n > 0, n % 2 = 0
    PROVE  (n - 1) % 2 = 1
  OBVIOUS

\* A message, a map, a list or a oneof begins: its visitor is the innermost.
LEMMA ContainerBegins ==
    ASSUME DecodeInv, pc = "value", NEW token, Container(token, Kind(want)), Read(token),
           frames' = Append(frames, [type |-> want, place |-> where, index |-> 0, replays |-> FALSE]),
           open' = Append(open, Stranger), pc' = "next",
           UNCHANGED <<schema, fail_fast, want, where, path, seen, oneofs, errors, irrecoverable,
                       unwinding, broken, wrong>>
    PROVE  DecodeInv'
<1>. PICK v : v = [type |-> want, place |-> where, index |-> 0, replays |-> FALSE]
  OBVIOUS
<1>1. /\ frames \in Seq(Frames) /\ open \in Seq(Keys) /\ Stranger \in Keys /\ v \in Frames
      /\ Len(frames) \in Nat
  BY KeysHave, LenProperties DEF DecodeInv, DecodeTypeOK, Frames
<1>2. /\ where \in DOMAIN seen /\ want = seen[where] /\ path = open /\ Len(open) = Len(frames)
      /\ ~unwinding /\ ~broken
  BY DEF DecodeInv, Aligned, InMember, FollowsSchema, HereOK, Fed
<1>3. token \in {"{", "["} /\ Kind(want) # "value" /\ token \notin Scalars
  BY DEF Container, Scalars
<1>4. /\ frames' \in Seq(Frames) /\ frames' # <<>> /\ Len(frames') = Len(frames) + 1
      /\ Last(frames') = v
      /\ \A i \in DOMAIN frames' : frames'[i] = IF i = Len(frames) + 1 THEN v ELSE frames[i]
      /\ DOMAIN frames' = DOMAIN frames \union {Len(frames) + 1}
      /\ Len(frames) + 1 \notin DOMAIN frames
  BY <1>1, FrontOfAppend
<1>5. /\ open' \in Seq(Keys) /\ Len(open') = Len(open) + 1 /\ Front(open') = open
  BY <1>1, FrontOfAppend
<1>6. DecodeTypeOK'
  <2>1. read' \in Nat /\ feed' \in Seq(Items)
    BY ReadIs DEF DecodeInv
  <2>2. QED
    BY <1>4, <1>5, <2>1, TypesKept DEF DecodeInv, DecodeTypeOK
<1>7. Aligned'
  BY <1>2, <1>4, <1>5 DEF Aligned, InMember
<1>8. FollowsSchema'
  <2>1. Grows
    BY NothingGrows DEF DecodeInv, FollowsSchema
  <2>2. FramesGrow
    <3>1. v.place \in DOMAIN seen /\ v.type = seen[v.place] /\ Kind(v.type) # "value" /\ ~v.replays
      BY <1>2, <1>3
    <3>2. \A i \in DOMAIN frames' : (i \in DOMAIN frames /\ frames'[i] = frames[i]) \/ frames'[i] = v
      BY <1>1, <1>4
    <3>3. QED
      BY <3>1, <3>2 DEF FramesGrow
  <2>3. HereOK'
    BY DEF HereOK
  <2>4. QED
    BY <2>1, <2>2, <2>3, GrowthKeeps DEF DecodeInv, FollowsSchema
<1>9. (feed' = <<>> /\ NoReplay') \/ FedMembers'
  <2>1. CASE feed = <<>>
    <3>1. feed' = <<>>
      BY <2>1, ReadIs DEF DecodeInv
    <3>2. NoReplay
      BY <1>2, <2>1, EmptyFed
    <3>3. QED
      BY <1>4, <3>1, <3>2 DEF NoReplay
  <2>2. CASE feed # <<>>
    <3>1. feed[1].token = token /\ feed' = Tail(feed)
      BY <1>3, <2>2, ReadIs DEF DecodeInv
    <3>2. /\ feed \in Seq(Items) /\ FedContent /\ IsContent(feed)
          /\ Kind(want) \in {"value", "message"}
      BY <1>3, <2>2, <3>1, BufferedToken
    <3>3. Kind(want) = "message"
      BY <1>3, <3>2
    <3>4. Len(feed) % 2 = 0 /\ IsMembers(Word(feed'))
      BY <1>3, <3>1, <3>2 DEF IsContent
    <3>5. feed' # <<>> /\ Len(feed') % 2 = 1
      <4>1. Len(feed') = Len(feed) - 1 /\ Len(feed) \in Nat /\ Len(feed) > 0
        BY <2>2, <3>1, <3>2, TailOf
      <4>2. Len(feed') % 2 = 1
        <5>1. Len(feed) % 2 = 0
          BY <3>4
        <5>2. QED
          BY <4>1, <5>1, OneLess
      <4>3. feed' # <<>>
        BY <4>2, EmptySeq
      <4>4. QED
        BY <4>2, <4>3
    <3>6. Len(frames)' > 1 /\ ReplayAt(Len(frames) - 1)'
      <4>1. frames # <<>> /\ ReplayAt(Len(frames))
        BY <3>2 DEF FedContent
      <4>2. Len(frames) > 0
        BY <1>1, <4>1, EmptySeq
      <4>3. \A i \in DOMAIN frames' : frames'[i].replays <=> i = Len(frames)
        BY <1>1, <1>4, <4>1 DEF ReplayAt
      <4>4. QED
        BY <1>1, <1>4, <4>2, <4>3 DEF ReplayAt
    <3>7. Kind(Top.type)' = "message"
      BY <1>4, <3>3 DEF Top, Kind
    <3>8. QED
      BY <3>4, <3>5, <3>6, <3>7 DEF FedMembers
  <2>3. QED
    BY <2>1, <2>2
<1>10. Fed'
  BY <1>2, <1>9 DEF DecodeInv, Fed
<1>11. Collected'
  BY <1>2 DEF DecodeInv, Collected, ErrorsOK, Leaving
<1>12. QED
  BY <1>6, <1>7, <1>8, <1>10, <1>11 DEF DecodeInv

\* A value is decoded, or refused.
LEMMA ValueEnds ==
    ASSUME DecodeInv, pc = "value", NEW token, Read(token), pc' \in {"ok", "err"},
           token \in Scalars \/ ~Container(token, Kind(want)),
           wrong' = IF pc' = "ok" THEN wrong ELSE wrong + 1,
           broken' \in BOOLEAN, broken' => pc' = "err" /\ feed = <<>>,
           feed # <<>> /\ token \notin Scalars => pc' = "err",
           UNCHANGED <<schema, fail_fast, want, where, path, seen, oneofs, errors, irrecoverable,
                       unwinding, frames, open>>
    PROVE  DecodeInv'
<1>1. /\ ~unwinding /\ ~broken /\ ~irrecoverable /\ path = open /\ Len(open) = Len(frames)
  BY DEF DecodeInv, Aligned, InMember, Fed, Collected
<1>2. wrong \in Nat /\ Len(errors) \in Nat /\ wrong = Len(errors)
  <2>1. wrong \in Nat /\ Len(errors) \in Nat
    BY LenProperties DEF DecodeInv, DecodeTypeOK
  <2>2. wrong = Len(errors)
    BY <1>1, <2>1 DEF DecodeInv, Collected, Leaving
  <2>3. QED
    BY <2>1, <2>2
<1>3. read' \in Nat /\ feed' \in Seq(Items)
  BY ReadIs DEF DecodeInv
<1>4. DecodeTypeOK'
  <2>1. wrong' \in Nat
    BY <1>2
  <2>2. QED
    BY <1>3, <2>1, TypesKept DEF DecodeInv, DecodeTypeOK
<1>5. Aligned'
  BY <1>1 DEF Aligned, InMember
<1>6. FollowsSchema'
  <2>1. Grows /\ FramesGrow
    BY NothingGrows DEF DecodeInv, FollowsSchema, FramesGrow
  <2>2. HereOK'
    BY DEF HereOK
  <2>3. QED
    BY <2>1, <2>2, GrowthKeeps DEF DecodeInv, FollowsSchema
<1>7. (feed' = <<>> /\ (feed = <<>> => NoReplay')) \/ FedMembers'
  <2>1. CASE feed = <<>>
    <3>1. feed' = <<>>
      BY <2>1, ReadIs DEF DecodeInv
    <3>2. NoReplay
      BY <1>1, <2>1, EmptyFed
    <3>3. QED
      BY <3>1, <3>2 DEF NoReplay
  <2>2. CASE FedContent /\ IsContent(feed) /\ Kind(want) \in {"value", "message"} /\ feed # <<>>
    <3>1. feed[1].token = token /\ feed \in Seq(Items)
      BY <2>2, ReadIs DEF DecodeInv, DecodeTypeOK
    <3>2. CASE token = "{"
      <4>1. Kind(want) = "value"
        BY <2>2, <3>2 DEF Container, Scalars
      <4>2. feed' = <<>>
        BY <2>2, <3>2, <4>1, ReadIs DEF DecodeInv
      <4>3. QED
        BY <2>2, <4>2
    <3>3. CASE token # "{"
      <4>1. Len(feed) = 1
        BY <2>2, <3>1, <3>3 DEF IsContent
      <4>2. feed' = Tail(feed)
        BY <2>2, <3>3, ReadIs DEF DecodeInv
      <4>3. Len(feed') = 0
        BY <2>2, <3>1, <4>1, <4>2, TailOf
      <4>4. feed' = <<>>
        BY <1>3, <4>3, EmptySeq
      <4>5. QED
        BY <2>2, <4>4
    <3>4. QED
      BY <3>2, <3>3
  <2>3. CASE FedMembers /\ feed # <<>> /\ Len(feed) % 2 = 0 /\ feed[1].token \in Scalars
    <3>1. feed \in Seq(Items) /\ IsMembers(Word(feed))
      BY <2>3 DEF DecodeInv, DecodeTypeOK, FedMembers
    <3>2. feed' = Tail(feed)
      BY <2>3, ReadIs DEF DecodeInv, Scalars
    <3>3. feed' # <<>> /\ IsMembers(Word(feed')) /\ Len(feed') % 2 = 1
      BY <2>3, <3>1, <3>2, MembersAre
    <3>4. Len(frames)' > 1 /\ ReplayAt(Len(frames) - 1)' /\ Kind(Top.type)' = "message"
      BY <2>3 DEF FedMembers, ReplayAt, Kind, Top
    <3>5. QED
      BY <3>3, <3>4 DEF FedMembers
  <2>4. QED
    BY <2>1, <2>2, <2>3, BufferedToken
<1>8. (feed' = <<>> /\ NoReplay') \/ FedContent' \/ FedMembers'
  <2>1. CASE feed # <<>> /\ feed' = <<>> /\ FedContent
    BY <2>1 DEF FedContent, ReplayAt
  <2>2. CASE feed # <<>> /\ feed' = <<>> /\ FedMembers
    <3>1. FALSE
      <4>1. feed \in Seq(Items) /\ IsMembers(Word(feed)) /\ Len(feed) % 2 = 0
        BY <2>2 DEF DecodeInv, DecodeTypeOK, FedMembers
      <4>2. feed[1].token \in Scalars /\ Tail(feed) # <<>>
        BY <2>2, <4>1, MembersAre
      <4>3. feed' = Tail(feed)
        BY <2>2, <4>2, ReadIs DEF DecodeInv, Scalars
      <4>4. QED
        BY <2>2, <4>2, <4>3
    <3>2. QED
      BY <3>1
  <2>3. QED
    BY <1>7, <2>1, <2>2, BufferedToken
<1>9. Fed'
  <2>1. broken' => feed' = <<>> /\ NoReplay'
    <3>1. broken' => feed = <<>> /\ feed' = <<>>
      BY ReadIs DEF DecodeInv
    <3>2. feed = <<>> => NoReplay
      BY <1>1, EmptyFed
    <3>3. QED
      BY <3>1, <3>2 DEF NoReplay
  <2>2. QED
    BY <1>1, <1>8, <2>1 DEF DecodeInv, Fed
<1>10. Collected'
  BY <1>1, <1>2 DEF DecodeInv, Collected, ErrorsOK, Leaving
<1>11. QED
  BY <1>4, <1>5, <1>6, <1>9, <1>10 DEF DecodeInv

\* A value is read.
LEMMA DecodeValueStep ==
    ASSUME DecodeInv, NEW token, DecodeValue(token)
    PROVE  DecodeInv'
<1>1. /\ pc = "value" /\ Read(token) /\ ~broken
      /\ UNCHANGED <<schema, fail_fast, want, where, path, seen, oneofs, errors, irrecoverable,
                     unwinding>>
  BY DEF DecodeValue, state, DecodeInv, Fed
<1>2. feed # <<>> => feed[1].token = token /\ token \in Scalars \union {"{"}
  BY <1>1, ReadIs, BufferedToken DEF DecodeInv
<1>3. CASE /\ Container(token, Kind(want))
           /\ frames' = Append(frames, [type |-> want, place |-> where, index |-> 0,
                                        replays |-> FALSE])
           /\ open' = Append(open, Stranger) /\ pc' = "next"
           /\ UNCHANGED <<broken, wrong>>
  BY <1>1, <1>3, ContainerBegins
<1>4. CASE /\ token \in Scalars
           /\ \/ pc' = "ok" /\ wrong' = wrong
              \/ pc' = "err" /\ wrong' = wrong + 1
           /\ UNCHANGED <<broken, frames, open>>
  <2>1. broken' = FALSE
    BY <1>1, <1>4 DEF DecodeInv, DecodeTypeOK
  <2>2. pc' \in {"ok", "err"} /\ wrong' = IF pc' = "ok" THEN wrong ELSE wrong + 1
    BY <1>4
  <2>3. QED
    BY <1>1, <1>4, <2>1, <2>2, ValueEnds
<1>5. CASE /\ token = "other" \/ (feed # <<>> /\ ~Container(token, Kind(want)) /\ token \notin Scalars)
           /\ pc' = "err" /\ wrong' = wrong + 1
           /\ broken' \in IF feed # <<>> THEN {FALSE}
                          ELSE IF Kind(want) \in {"message", "tagged"} THEN BOOLEAN ELSE {TRUE}
           /\ UNCHANGED <<frames, open>>
  <2>1. broken' \in BOOLEAN /\ (broken' => feed = <<>>)
    BY <1>5
  <2>2. ~Container(token, Kind(want))
    BY <1>5 DEF Container
  <2>3. pc' \in {"ok", "err"} /\ wrong' = IF pc' = "ok" THEN wrong ELSE wrong + 1
    BY <1>5
  <2>4. QED
    BY <1>1, <1>5, <2>1, <2>2, <2>3, ValueEnds
<1>6. CASE token = "junk" /\ pc' = "err" /\ broken' = TRUE /\ wrong' = wrong + 1 /\ UNCHANGED <<frames, open>>
  <2>1. ~Container(token, Kind(want)) /\ feed = <<>>
    BY <1>2, <1>6 DEF Container, Scalars
  <2>2. pc' \in {"ok", "err"} /\ wrong' = IF pc' = "ok" THEN wrong ELSE wrong + 1
    BY <1>6
  <2>3. QED
    BY <1>1, <1>6, <2>1, <2>2, ValueEnds
<1>7. QED
  BY <1>3, <1>4, <1>5, <1>6 DEF DecodeValue

\* A document begins.
LEMMA DecodeInitInv == DecodeInit => DecodeInv
<1>. SUFFICES ASSUME DecodeInit PROVE DecodeInv
  OBVIOUS
<1>1. /\ schema \in Schemas /\ fail_fast \in BOOLEAN /\ pc = "value" /\ want = "root" /\ where = <<>>
      /\ frames = <<>> /\ path = <<>> /\ open = <<>> /\ errors = <<>> /\ feed = <<>>
      /\ irrecoverable = FALSE /\ unwinding = FALSE /\ broken = FALSE /\ read = 0 /\ wrong = 0
      /\ DOMAIN seen = {<<>>} /\ seen[<<>>] = "root" /\ DOMAIN oneofs = {}
  BY DEF DecodeInit
<1>2. "root" \in DOMAIN schema
  BY <1>1, DecodeAssumption DEF IsSchema
<1>3. \A S : <<>> \in Seq(S) /\ Len(<<>>) = 0 /\ DOMAIN <<>> = {}
  BY EmptySeq
<1>4. DecodeTypeOK
  BY <1>1, <1>2, <1>3 DEF DecodeTypeOK
<1>5. Aligned
  BY <1>1 DEF Aligned, InMember
<1>6. FollowsSchema
  BY <1>1, <1>3 DEF FollowsSchema, SeenOK, OneOfsOK, FramesOK, HereOK
<1>7. Fed
  BY <1>1, <1>3 DEF Fed, NoReplay
<1>8. Collected
  BY <1>1, <1>3 DEF Collected, Leaving, ErrorsOK
<1>9. QED
  BY <1>4, <1>5, <1>6, <1>7, <1>8 DEF DecodeInv

\* Every step of the decoding keeps the invariant.
LEMMA DecodeNextInv == DecodeInv /\ [DecodeNext]_decodeVars => DecodeInv'
<1>. SUFFICES ASSUME DecodeInv, [DecodeNext]_decodeVars
              PROVE  DecodeInv'
  OBVIOUS
<1>1. ASSUME NEW token \in Tokens, DecodeValue(token) PROVE DecodeInv'
  BY <1>1, DecodeValueStep
<1>2. ASSUME NEW key \in MapKeys \union Fields("message") \union {"tag", "content", Stranger}, NextKey(key)
      PROVE  DecodeInv'
  BY <1>2, KeysHave, NextKeyStep
<1>3. ASSUME NEW tag \in Fields("tagged") \union {Stranger, "bad", "other", "junk"}, Tag(tag)
      PROVE  DecodeInv'
  BY <1>3, TagStep
<1>4. CASE Skip
  BY <1>4, SkipStep
<1>5. CASE LeaveMember
  BY <1>5, LeaveMemberStep
<1>6. CASE EndKeys
  BY <1>6, EndKeysStep
<1>7. CASE NextElement
  BY <1>7, NextElementStep
<1>8. CASE Hold
  BY <1>8, HoldStep
<1>9. CASE Replay
  BY <1>9, ReplayStep
<1>10. CASE Replayed
  BY <1>10, ReplayedStep
<1>11. CASE Decoded
  BY <1>11, DecodedStep
<1>12. CASE Failed
  BY <1>12, FailedStep
<1>13. CASE Validate
  BY <1>13, ValidateStep
<1>14. CASE Answered \/ UNCHANGED decodeVars
  BY <1>14, AnsweredStep DEF Answered
<1>15. QED
  BY <1>1, <1>2, <1>3, <1>4, <1>5, <1>6, <1>7, <1>8, <1>9, <1>10, <1>11, <1>12, <1>13, <1>14
     DEF DecodeNext

\* The invariant holds of every document, every schema and every MaxTokens.
THEOREM DecodeFollows == DecodeSpec => []DecodeInv
  BY DecodeInitInv, DecodeNextInv, PTL DEF DecodeSpec

\* The path, the visitors, the trackers and the buffers of oneofs are of their
\* types, and whatever is decoded next has a type of the schema.
THEOREM DecodeTypes == DecodeSpec => []DecodeTypeOK
<1>1. DecodeInv => DecodeTypeOK
  BY DEF DecodeInv
<1>2. QED
  BY <1>1, DecodeFollows, PTL

\* SERDE_PATH_BUFFER names the place in the document whenever a member's value
\* is read, and a tracker keeps the type that the schema gives to its place.
THEOREM DecodeAligned == DecodeSpec => [](Aligned /\ FollowsSchema)
<1>1. DecodeInv => Aligned /\ FollowsSchema
  BY DEF DecodeInv
<1>2. QED
  BY <1>1, DecodeFollows, PTL

\* report_de_error and report_tracked_error: an error is collected once, with
\* the path it has in the document; a fatal one is the last with fail_fast;
\* and in a document that is read to its end, everything wrong is collected.
THEOREM DecodeErrorsOnce == DecodeSpec => []ErrorsOnce
<1>1. DecodeInv => ErrorsOnce
  <2>. SUFFICES ASSUME DecodeInv PROVE ErrorsOnce
    OBVIOUS
  <2>1. Len(errors) \in Nat /\ wrong \in Nat
    BY LenProperties DEF DecodeInv, DecodeTypeOK
  <2>2. ~broken => wrong = Len(errors) + Leaving
    BY DEF DecodeInv, Collected
  <2>3. Leaving \in {0, 1} /\ (pc \in {"accepted", "rejected"} => Leaving = 0)
    BY DEF Leaving
  <2>4. ~broken => Len(errors) <= wrong
    BY <2>1, <2>2, <2>3
  <2>5. pc \in {"accepted", "rejected"} /\ ~broken => Len(errors) = wrong
    BY <2>1, <2>2, <2>3
  <2>6. ErrorsOK
    BY DEF DecodeInv, Collected
  <2>7. QED
    BY <2>4, <2>5, <2>6 DEF ErrorsOnce, ErrorsOK
<1>2. QED
  BY <1>1, DecodeFollows, PTL
-----------------------------------------------------------------------------
(* What is accepted.  As long as nothing is wrong, each scalar that came is  *)
(* in the message, in a oneof's buffers, or in the content that is replayed. *)

\* the visitors are where the document is
InPlace ==
    /\ \A i \in DOMAIN frames : /\ Len(frames[i].place) = i - 1
                                /\ i > 1 => frames[i - 1].place = Front(frames[i].place)
    /\ frames # <<>> => Front(open) = Place
    /\ pc = "value" => where = open
    /\ pc \in {"validate", "accepted", "rejected"} => frames = <<>>

\* nothing is skipped
Quiet == ~broken /\ ~unwinding /\ pc # "skip" /\ \A p \in DOMAIN oneofs : ~oneofs[p].invalid

\* what is decoded of a oneof is its content, after both its names came
Named(q) == Last(q) = "content" /\ {Append(Front(q), "tag"), q} \subseteq keys

Rooted ==
    /\ \A q \in DOMAIN seen :
          /\ \A n \in 0 .. Len(q) : SubSeq(q, 1, n) \in DOMAIN seen
          /\ q # <<>> /\ Kind(seen[Front(q)]) = "tagged" => Named(q)
    /\ \A k \in keys : k # <<>> /\ Front(k) \in DOMAIN seen

\* the message has values, and tags of what is decoded
IsScalar(q) == q \in DOMAIN seen /\ Kind(seen[q]) = "value"
IsTag(q) ==
    /\ q # <<>> /\ Last(q) = "tag" /\ Tagged(Front(q)) /\ target[q] = oneofs[Front(q)].tag
    /\ Append(Front(q), "content") \in DOMAIN seen

Targeted == \A q \in DOMAIN target : q \in Seq(Keys) /\ (IsScalar(q) \/ IsTag(q))

\* a value is not decoded over another, and a list is decoded once
Below(q, p) == q # <<>> /\ Front(q) = p

NewValue == pc = "value" => /\ Kind(want) = "value" => where \notin DOMAIN target
                            /\ Kind(want) = "list" => \A q \in DOMAIN seen : ~Below(q, where)
NewElements ==
    \A i \in DOMAIN frames : Kind(frames[i].type) = "list" =>
        \A q \in DOMAIN seen : Below(q, frames[i].place) =>
            /\ Last(q) \in 0 .. frames[i].index
            /\ i = Len(frames) /\ pc = "next" => Last(q) # frames[i].index

\* what came of a oneof: its tag and its content
OneOfAt(p)    == IF p \in DOMAIN oneofs THEN oneofs[p] ELSE Untagged
IsAt(p, phase0) == pc = phase0 /\ Place = p
Replays(p)    == IsAt(p, "replay") \/ \E i \in DOMAIN frames : frames[i].replays /\ frames[i].place = p

Halves(p) ==
    LET o == OneOfAt(p)  tag == Append(p, "tag")  content == Append(p, "content") IN
    /\ o.contents # <<>> => content \in keys
    /\ o.tag # Stranger => tag \in keys
    /\ tag \in keys => o.tag # Stranger \/ IsAt(p, "tag")
    /\ content \in keys /\ o.tag = Stranger => o.contents # <<>> \/ IsAt(p, "hold")
    /\ content \in keys /\ o.tag # Stranger => o.contents # <<>> \/ tag \in DOMAIN target
    /\ o.tag # Stranger /\ o.contents # <<>> => Replays(p)

AllHalves == \A p \in DOMAIN seen : Kind(seen[p]) = "tagged" => Halves(p)

NameRead ==
    /\ pc = "tag"  => open = Within("tag") /\ open \in keys
    /\ pc = "hold" => open = Within("content") /\ open \in keys /\ OneOf.tag = Stranger

\* where the scalars of buffered tokens are, of which the first is at a place
\* and the others are members of another
Entries(first, base, tokens) ==
    {<<IF k = 1 THEN first ELSE Append(base, tokens[k - 1].token), tokens[k].id>> :
        k \in {k \in DOMAIN tokens : tokens[k].token = "good"}}

InMessage == {<<q, target[q]>> : q \in DOMAIN target}
TagsRead  == {<<Append(p, "tag"), oneofs[p].tag>> : p \in {p \in DOMAIN oneofs : oneofs[p].tag # Stranger}}
HeldAt(p, contents) ==
    UNION {Entries(Append(p, "content"), Append(p, "content"), contents[i]) : i \in DOMAIN contents}
Held      == UNION {HeldAt(p, oneofs[p].contents) : p \in DOMAIN oneofs}
Feeding   == IF feed = <<>> THEN {} ELSE Entries(open, IF Top.replays THEN open ELSE Place, feed)

Ledger == given = InMessage \union TagsRead \union Held \union Feeding

Kept == Quiet /\ Rooted /\ Targeted /\ NewValue /\ NewElements /\ AllHalves /\ NameRead /\ Ledger

Answers ==
    /\ broken \/ unwinding => wrong > 0
    /\ pc = "rejected" => wrong > 0 \/ Missing
    /\ pc = "accepted" => wrong = 0

GivenInv == InPlace /\ Answers /\ (wrong = 0 => Kept)
-----------------------------------------------------------------------------
(* Places.                                                                   *)

\* Where the innermost visitor is.
LEMMA SpotIs ==
    ASSUME DecodeInv, InPlace, frames # <<>>
    PROVE  /\ Place \in DOMAIN seen /\ seen[Place] = Top.type /\ Place \in Seq(Keys)
           /\ Len(Place) = Len(frames) - 1 /\ Len(frames) \in Nat /\ Len(frames) > 0
           /\ DOMAIN frames = 1 .. Len(frames) /\ Top = frames[Len(frames)]
           /\ open \in Seq(Keys) /\ open # <<>> /\ Front(open) = Place
           /\ \A i \in DOMAIN frames : frames[i].place \in Seq(Keys) /\ Len(frames[i].place) = i - 1
           /\ \A i \in DOMAIN frames : frames[i].place = Place => i = Len(frames)
<1>1. /\ Len(frames) \in Nat /\ Len(frames) > 0 /\ DOMAIN frames = 1 .. Len(frames)
      /\ Top = frames[Len(frames)] /\ Len(frames) \in DOMAIN frames /\ Place \in Seq(Keys)
  BY TopIs DEF DecodeInv
<1>2. Place \in DOMAIN seen /\ seen[Place] = Top.type
  BY <1>1 DEF DecodeInv, FollowsSchema, FramesOK, Place
<1>3. open \in Seq(Keys) /\ open # <<>>
  BY <1>1, EmptySeq DEF DecodeInv, DecodeTypeOK, Aligned
<1>4. \A i \in DOMAIN frames : frames[i].place \in Seq(Keys)
  BY DEF DecodeInv, DecodeTypeOK, FollowsSchema, FramesOK
<1>5. \A i \in DOMAIN frames : Len(frames[i].place) = i - 1
  BY DEF InPlace
<1>6. Len(Place) = Len(frames) - 1
  BY <1>1, <1>5 DEF Place
<1>7. \A i \in DOMAIN frames : frames[i].place = Place => i = Len(frames)
  BY <1>1, <1>5, <1>6
<1>8. Front(open) = Place
  BY DEF InPlace
<1>9. QED
  BY <1>1, <1>2, <1>3, <1>4, <1>5, <1>6, <1>7, <1>8

\* A member of the innermost visitor's place.
LEMMA WithinIs ==
    ASSUME DecodeInv, InPlace, frames # <<>>, NEW key \in Keys
    PROVE  /\ Within(key) \in Seq(Keys) /\ Within(key) # <<>> /\ At(key) = Within(key)
           /\ Front(Within(key)) = Place /\ Last(Within(key)) = key
           /\ Within(key) # Place /\ Len(Within(key)) = Len(frames)
<1>1. /\ Place \in Seq(Keys) /\ open \in Seq(Keys) /\ open # <<>> /\ Front(open) = Place
      /\ Len(Place) = Len(frames) - 1 /\ Len(frames) \in Nat
  BY SpotIs
<1>2. Within(key) = Append(Place, key)
  BY DEF Within, Place
<1>3. /\ Append(Place, key) \in Seq(Keys) /\ Append(Place, key) # <<>> /\ Front(Append(Place, key)) = Place
      /\ Last(Append(Place, key)) = key /\ Len(Append(Place, key)) = Len(Place) + 1
  BY <1>1, FrontOfAppend
<1>4. At(key) = Append(Front(open), key)
  BY <1>1, LastReplaced DEF At
<1>5. Within(key) # Place
  BY <1>1, <1>2, <1>3
<1>6. QED
  BY <1>1, <1>2, <1>3, <1>4, <1>5

\* The visitors stay where they are.
LEMMA InPlaceStays ==
    ASSUME DecodeInv, DecodeInv', InPlace, DOMAIN frames' = DOMAIN frames,
           \A i \in DOMAIN frames : frames'[i].place = frames[i].place,
           frames # <<>> => Front(open') = Place,
           pc' = "value" => where' = open',
           pc' \in {"validate", "accepted", "rejected"} => frames' = <<>>
    PROVE  InPlace'
<1>1. frames \in Seq(Frames) /\ frames' \in Seq(Frames')
  BY DEF DecodeInv, DecodeTypeOK
<1>2. Len(frames') = Len(frames) /\ DOMAIN frames = 1 .. Len(frames) /\ Len(frames) \in Nat
  <2>1. /\ Len(frames) \in Nat /\ Len(frames') \in Nat
        /\ DOMAIN frames = 1 .. Len(frames) /\ DOMAIN frames' = 1 .. Len(frames')
    BY <1>1, LenProperties
  <2>2. QED
    BY <2>1
<1>3. frames' # <<>> => frames # <<>> /\ Place' = Place
  <2>. SUFFICES ASSUME frames' # <<>> PROVE frames # <<>> /\ Place' = Place
    OBVIOUS
  <2>1. Len(frames') # 0
    BY <1>1, EmptySeq
  <2>2. frames # <<>> /\ Len(frames) \in DOMAIN frames
    BY <1>1, <1>2, <2>1, EmptySeq
  <2>3. QED
    BY <1>2, <2>2 DEF Place, Top, Last
<1>4. \A i \in DOMAIN frames' : /\ Len(frames'[i].place) = i - 1
                                /\ i > 1 => frames'[i - 1].place = Front(frames'[i].place)
  <2>1. \A i \in DOMAIN frames : i > 1 => i - 1 \in DOMAIN frames
    BY <1>2
  <2>2. QED
    BY <2>1 DEF InPlace
<1>5. QED
  BY <1>3, <1>4 DEF InPlace

\* The innermost visitor ends.
LEMMA InPlaceLeaves ==
    ASSUME DecodeInv, DecodeInv', InPlace, frames # <<>>, frames' = Front(frames), open' = Front(open),
           pc' \in {"ok", "err"}
    PROVE  InPlace'
<1>1. /\ Len(frames) \in Nat /\ Len(frames) > 0 /\ DOMAIN frames = 1 .. Len(frames)
      /\ open' = frames[Len(frames)].place
  BY SpotIs DEF Place
<1>2. /\ frames' \in Seq(Frames) /\ Len(frames') = Len(frames) - 1 /\ DOMAIN frames' = 1 .. Len(frames) - 1
      /\ \A i \in 1 .. Len(frames) - 1 : frames'[i] = frames[i]
  BY FrontOf DEF DecodeInv, DecodeTypeOK
<1>3. \A i \in DOMAIN frames' : /\ Len(frames'[i].place) = i - 1
                                /\ i > 1 => frames'[i - 1].place = Front(frames'[i].place)
  <2>. SUFFICES ASSUME NEW i \in DOMAIN frames'
                PROVE  /\ Len(frames'[i].place) = i - 1
                       /\ i > 1 => frames'[i - 1].place = Front(frames'[i].place)
    OBVIOUS
  <2>1. i \in DOMAIN frames /\ frames'[i] = frames[i]
    BY <1>1, <1>2
  <2>2. i > 1 => frames'[i - 1] = frames[i - 1]
    BY <1>1, <1>2
  <2>3. QED
    BY <2>1, <2>2 DEF InPlace
<1>4. frames' # <<>> => Front(open') = Place'
  <2>. SUFFICES ASSUME frames' # <<>> PROVE Front(open') = Place'
    OBVIOUS
  <2>1. Len(frames) > 1
    BY <1>1, <1>2, EmptySeq
  <2>2. Len(frames) \in DOMAIN frames /\ Len(frames) - 1 \in DOMAIN frames'
    BY <1>1, <1>2, <2>1
  <2>3. frames[Len(frames) - 1].place = Front(frames[Len(frames)].place)
    BY <2>1, <2>2 DEF InPlace
  <2>4. Place' = frames[Len(frames) - 1].place
    BY <1>1, <1>2, <2>2 DEF Place, Top, Last
  <2>5. QED
    BY <1>1, <2>3, <2>4
<1>5. QED
  BY <1>3, <1>4 DEF InPlace

\* A visitor begins where its value is.
LEMMA InPlaceBegins ==
    ASSUME DecodeInv, DecodeInv', InPlace, pc = "value", pc' = "next",
           frames' = Append(frames, [type |-> want, place |-> where, index |-> 0, replays |-> FALSE]),
           open' = Append(open, Stranger)
    PROVE  InPlace' /\ Place' = where /\ where = open
<1>. PICK v : v = [type |-> want, place |-> where, index |-> 0, replays |-> FALSE]
  OBVIOUS
<1>1. /\ frames \in Seq(Frames) /\ open \in Seq(Keys) /\ Stranger \in Keys /\ v \in Frames
      /\ Len(open) = Len(frames) /\ where = open
  BY KeysHave DEF DecodeInv, DecodeTypeOK, Aligned, Frames, InPlace
<1>2. /\ frames' # <<>> /\ Len(frames') = Len(frames) + 1 /\ Last(frames') = v
      /\ \A i \in DOMAIN frames' : frames'[i] = IF i = Len(frames) + 1 THEN v ELSE frames[i]
      /\ DOMAIN frames' = DOMAIN frames \union {Len(frames) + 1}
      /\ Front(open') = open
  BY <1>1, FrontOfAppend
<1>3. Len(frames) \in Nat /\ DOMAIN frames = 1 .. Len(frames)
  BY <1>1, LenProperties
<1>4. Place' = where
  BY <1>2 DEF Place, Top
<1>5. \A i \in DOMAIN frames : frames'[i] = frames[i]
  BY <1>2, <1>3
<1>6. \A i \in DOMAIN frames : /\ Len(frames'[i].place) = i - 1
                               /\ i > 1 => frames'[i - 1].place = Front(frames'[i].place)
  <2>1. \A i \in DOMAIN frames : i > 1 => i - 1 \in DOMAIN frames
    BY <1>3
  <2>2. QED
    BY <1>5, <2>1 DEF InPlace
<1>7. frames'[Len(frames) + 1] = v /\ Len(v.place) = Len(frames)
  BY <1>1, <1>2
<1>8. Len(frames) + 1 > 1 => frames'[Len(frames)].place = Front(v.place)
  <2>. SUFFICES ASSUME Len(frames) + 1 > 1 PROVE frames'[Len(frames)].place = Front(v.place)
    OBVIOUS
  <2>1. frames # <<>> /\ Len(frames) \in DOMAIN frames
    BY <1>3, EmptySeq
  <2>2. Front(open) = frames[Len(frames)].place
    BY <2>1, SpotIs DEF Place
  <2>3. QED
    BY <1>1, <1>5, <2>1, <2>2
<1>9. \A i \in DOMAIN frames' : /\ Len(frames'[i].place) = i - 1
                                /\ i > 1 => frames'[i - 1].place = Front(frames'[i].place)
  <2>. SUFFICES ASSUME NEW i \in DOMAIN frames'
                PROVE  /\ Len(frames'[i].place) = i - 1
                       /\ i > 1 => frames'[i - 1].place = Front(frames'[i].place)
    OBVIOUS
  <2>1. CASE i \in DOMAIN frames
    BY <1>6, <2>1
  <2>2. CASE i = Len(frames) + 1
    <3>1. i - 1 = Len(frames)
      BY <1>3, <2>2
    <3>2. QED
      BY <1>7, <1>8, <2>2, <3>1
  <2>3. QED
    BY <1>2, <2>1, <2>2
<1>10. QED
  BY <1>1, <1>2, <1>4, <1>9 DEF InPlace

\* The next step of a member leaves its visitor in place.
LEMMA InPlaceKey ==
    ASSUME DecodeInv, DecodeInv', InPlace, NEW key \in Keys, frames # <<>>, frames' = frames,
           open' = At(key), pc' = "value" => where' = Within(key),
           pc' \notin {"validate", "accepted", "rejected"}
    PROVE  InPlace'
<1>1. open' = Within(key) /\ Front(open') = Place
  BY WithinIs
<1>2. QED
  BY <1>1, InPlaceStays

\* Whatever is done, the visitors are where the document is.
LEMMA InPlaceStep ==
    ASSUME DecodeInv, DecodeInv', InPlace, [DecodeNext]_decodeVars
    PROVE  InPlace'
<1>1. \A key \in Keys : pc = "next" => frames # <<>>
  BY DEF DecodeInv, Aligned
<1>2. frames # <<>> => Front(open) = Place
  BY DEF InPlace
<1>3. ASSUME frames' = frames, open' = open,
             pc' \notin {"value", "validate", "accepted", "rejected"}
      PROVE  InPlace'
  BY <1>2, <1>3, InPlaceStays
<1>4. ASSUME frames # <<>>, NEW ending \in {"ok", "err"}, Leave(ending) PROVE InPlace'
  BY <1>4, InPlaceLeaves DEF Leave
<1>5. ASSUME frames # <<>>, GiveUp PROVE InPlace'
  BY <1>4, <1>5 DEF GiveUp
<1>6. ASSUME frames # <<>>, Continue, schema' = schema PROVE InPlace'
  <2>1. /\ DOMAIN frames' = DOMAIN frames /\ open' = open
        /\ \A i \in DOMAIN frames : frames'[i].place = frames[i].place
        /\ pc' \in {"replay", "next"}
    BY <1>6, ContinueIs DEF DecodeInv
  <2>2. QED
    BY <1>2, <2>1, InPlaceStays
<1>7. ASSUME NEW token, DecodeValue(token) PROVE InPlace'
  <2>1. CASE /\ frames' = Append(frames, [type |-> want, place |-> where, index |-> 0, replays |-> FALSE])
             /\ open' = Append(open, Stranger) /\ pc' = "next"
    <3>1. pc = "value"
      BY <1>7 DEF DecodeValue
    <3>2. QED
      BY <2>1, <3>1, InPlaceBegins
  <2>2. CASE frames' = frames /\ open' = open /\ pc' \in {"ok", "err"}
    BY <1>3, <2>2
  <2>3. QED
    BY <1>7, <2>1, <2>2 DEF DecodeValue
<1>8. ASSUME NEW key \in Keys, NextKey(key) PROVE InPlace'
  <2>1. pc = "next" /\ open' = At(key) /\ frames # <<>>
    BY <1>1, <1>8 DEF NextKey
  <2>2. frames' = frames
    BY <1>8 DEF NextKey, Member, TaggedMember, Decode, Refuse, Variant
  <2>3. pc' \in {"value", "tag", "skip", "hold", "leave"}
    BY <1>8 DEF NextKey, Member, TaggedMember, Decode, Refuse, Variant
  <2>4. pc' = "value" => where' = Within(key)
    BY <1>8 DEF NextKey, Member, TaggedMember, Decode, Refuse, Variant
  <2>5. QED
    BY <2>1, <2>2, <2>3, <2>4, InPlaceKey
<1>9. ASSUME NEW tag, Tag(tag) PROVE InPlace'
  <2>1. frames' = frames /\ open' = open /\ pc' \in {"replay", "replayed", "leave"}
    BY <1>9 DEF Tag
  <2>2. QED
    BY <1>3, <2>1
<1>10. ASSUME Skip PROVE InPlace'
  <2>1. frames # <<>>
    BY <1>10 DEF DecodeInv, Aligned, InMember, Skip
  <2>2. QED
    BY <1>3, <1>5, <1>10, <2>1 DEF Skip
<1>11. ASSUME LeaveMember PROVE InPlace'
  <2>1. frames # <<>> /\ Leave("err")
    BY <1>11 DEF DecodeInv, Aligned, InMember, LeaveMember
  <2>2. QED
    BY <1>4, <2>1
<1>12. ASSUME EndKeys PROVE InPlace'
  <2>1. frames # <<>> /\ (Leave("ok") \/ GiveUp)
    BY <1>12 DEF DecodeInv, Aligned, EndKeys
  <2>2. QED
    BY <1>4, <1>5, <2>1
<1>13. ASSUME NextElement PROVE InPlace'
  <2>1. frames # <<>> /\ Top.index \in Keys
    BY <1>13, TopIs, KeysHave DEF DecodeInv, Aligned, NextElement
  <2>2. \/ /\ frames' = frames /\ open' = At(Top.index) /\ pc' \in {"value", "err"}
           /\ pc' = "value" => where' = Within(Top.index)
        \/ Leave("ok")
    BY <1>13 DEF NextElement, Decode
  <2>3. QED
    BY <1>4, <2>1, <2>2, InPlaceKey
<1>14. ASSUME Hold PROVE InPlace'
  <2>1. frames # <<>>
    BY <1>14 DEF DecodeInv, Aligned, InMember, Hold
  <2>2. (frames' = frames /\ open' = open /\ pc' = "next") \/ GiveUp
    BY <1>14 DEF Hold
  <2>3. QED
    BY <1>3, <1>5, <2>1, <2>2
<1>15. ASSUME Replay PROVE InPlace'
  <2>1. frames # <<>> /\ "content" \in Keys
    BY <1>15, KeysHave DEF DecodeInv, Aligned, InMember, Replay
  <2>2. CASE frames' = frames /\ open' = open /\ pc' = "replayed"
    BY <1>3, <2>2
  <2>3. CASE frames' = frames /\ open' = At("content") /\ pc' \in {"leave", "replay"}
    BY <2>1, <2>3, InPlaceKey
  <2>4. CASE /\ frames' = [frames EXCEPT ![Len(frames)].replays = TRUE]
             /\ open' = At("content") /\ pc' = "value" /\ where' = Within("content")
    <3>1. open' = Within("content") /\ Front(open') = Place
      BY <2>1, <2>4, WithinIs
    <3>2. \A i \in DOMAIN frames : frames[i] \in Frames
      BY ElementOfSeq, LenProperties DEF DecodeInv, DecodeTypeOK
    <3>3. DOMAIN frames' = DOMAIN frames /\ \A i \in DOMAIN frames : frames'[i].place = frames[i].place
      BY <2>4, <3>2 DEF Frames
    <3>4. QED
      BY <2>4, <3>1, <3>3, InPlaceStays
  <2>5. QED
    BY <1>15, <2>2, <2>3, <2>4 DEF Replay
<1>16. ASSUME Replayed PROVE InPlace'
  <2>1. frames' = frames /\ open' = open /\ pc' = "next"
    BY <1>16 DEF Replayed, parser
  <2>2. QED
    BY <1>3, <2>1
<1>17. ASSUME Decoded PROVE InPlace'
  <2>1. CASE frames = <<>>
    <3>1. frames' = <<>> /\ open' = open /\ pc' = "validate"
      BY <1>17, <2>1 DEF Decoded
    <3>2. QED
      BY <2>1, <3>1, InPlaceStays
  <2>2. CASE frames # <<>>
    BY <1>6, <1>17, <2>2 DEF Decoded
  <2>3. QED
    BY <2>1, <2>2
<1>18. ASSUME Failed PROVE InPlace'
  <2>1. \/ frames' = frames /\ open' = open /\ pc' \in {"failed", "leave"}
        \/ frames # <<>> /\ frames' = Front(frames) /\ open' = Front(open) /\ pc' \in {"ok", "err"}
        \/ frames # <<>> /\ Continue /\ schema' = schema
    BY <1>18 DEF Failed
  <2>2. QED
    BY <1>3, <1>6, <2>1, InPlaceLeaves
<1>19. ASSUME Validate PROVE InPlace'
  <2>1. frames = <<>> /\ frames' = frames
    BY <1>19 DEF Validate, InPlace
  <2>2. pc' # "value"
    BY <1>19 DEF Validate
  <2>3. QED
    BY <2>1, <2>2, InPlaceStays
<1>20. ASSUME UNCHANGED decodeVars PROVE InPlace'
  BY <1>20 DEF decodeVars, parser, InPlace, Place, Top
<1>21. \A key \in MapKeys \union Fields("message") \union {"tag", "content", Stranger} : key \in Keys
  BY KeysHave
<1>22. QED
  BY <1>7, <1>8, <1>9, <1>10, <1>11, <1>12, <1>13, <1>14, <1>15, <1>16, <1>17, <1>18, <1>19, <1>20, <1>21
     DEF DecodeNext, Answered

\* When something is wrong, it stays so, and what stops the decoding is wrong.
LEMMA AnswersStep ==
    ASSUME DecodeInv, Answers, [DecodeNext]_decodeVars
    PROVE  Answers' /\ (wrong' = 0 => wrong = 0)
<1>1. wrong \in Nat /\ Len(errors) \in Nat /\ errors \in Seq(Problems)
  BY LenProperties DEF DecodeInv, DecodeTypeOK
<1>2. pc = "err" => wrong > 0
  <2>1. ~broken => wrong = Len(errors) + Leaving
    BY DEF DecodeInv, Collected
  <2>2. pc = "err" /\ ~unwinding => Leaving = 1
    BY DEF Leaving
  <2>3. pc = "err" /\ ~unwinding /\ ~broken => wrong = Len(errors) + 1
    BY <2>1, <2>2
  <2>4. QED
    BY <1>1, <2>3 DEF Answers
<1>3. errors # <<>> => wrong > 0
  <2>. SUFFICES ASSUME errors # <<>>, ~broken PROVE wrong > 0
    BY <1>1 DEF Answers
  <2>1. Len(errors) > 0
    BY <1>1, EmptySeq
  <2>2. wrong = Len(errors) + Leaving /\ Leaving \in {0, 1}
    BY DEF DecodeInv, Collected, Leaving
  <2>3. QED
    BY <1>1, <2>1, <2>2
<1>4. ASSUME wrong' = wrong + 1, pc' # "accepted" PROVE Answers' /\ wrong' > 0
  BY <1>1, <1>4 DEF Answers
<1>5. ASSUME broken' = broken, unwinding' = unwinding, wrong' = wrong, pc' \notin {"accepted", "rejected"}
      PROVE  Answers' /\ (wrong' = 0 => wrong = 0)
  BY <1>5 DEF Answers
<1>6. ASSUME NEW token, DecodeValue(token)
      PROVE  /\ wrong' = wrong + 1 \/ UNCHANGED <<broken, unwinding, wrong>>
             /\ pc' \notin {"accepted", "rejected"}
  BY <1>6 DEF DecodeValue, state
<1>7. ASSUME NEW key, NextKey(key)
      PROVE  /\ wrong' = wrong + 1 \/ UNCHANGED <<broken, unwinding, wrong>>
             /\ pc' \notin {"accepted", "rejected"}
  BY <1>7 DEF NextKey, Member, TaggedMember, Decode, Refuse, Variant
<1>8. ASSUME NEW tag, Tag(tag)
      PROVE  /\ wrong' = wrong + 1 \/ UNCHANGED <<broken, unwinding, wrong>>
             /\ pc' \notin {"accepted", "rejected"}
  BY <1>8 DEF Tag
<1>9. ASSUME Skip \/ LeaveMember \/ EndKeys \/ NextElement
      PROVE  /\ wrong' = wrong + 1 \/ UNCHANGED <<broken, unwinding, wrong>>
             /\ pc' \notin {"accepted", "rejected"}
  BY <1>9 DEF Skip, LeaveMember, EndKeys, NextElement, Decode, GiveUp, Leave, state
<1>10. ASSUME Hold \/ Replay \/ Replayed \/ Decoded
       PROVE  /\ wrong' = wrong + 1 \/ UNCHANGED <<broken, unwinding, wrong>>
             /\ pc' \notin {"accepted", "rejected"}
  BY <1>10 DEF Hold, Replay, Replayed, Decoded, Continue, GiveUp, Leave, state, parser
<1>11. ASSUME Failed PROVE Answers' /\ (wrong' = 0 => wrong = 0)
  <2>1. pc = "err" /\ wrong' = wrong /\ pc' # "accepted"
    BY <1>11 DEF Failed, Continue
  <2>2. wrong' > 0
    BY <1>2, <2>1
  <2>3. QED
    BY <1>1, <2>1, <2>2 DEF Answers
<1>12. ASSUME Validate PROVE Answers' /\ (wrong' = 0 => wrong = 0)
  <2>1. UNCHANGED <<schema, seen, target, errors, unwinding, broken, wrong>>
    BY <1>12 DEF Validate, state, parser
  <2>2. Missing' = Missing
    BY <2>1 DEF Missing, Kind
  <2>3. pc' = "rejected" => errors # <<>> \/ Missing
    BY <1>12 DEF Validate
  <2>4. pc' = "accepted" => wrong = 0
    <3>1. pc = "validate"
      BY <1>12 DEF Validate
    <3>2. ~broken
      BY <3>1 DEF DecodeInv, Fed
    <3>3. wrong = Len(errors)
      BY <1>1, <3>1, <3>2 DEF DecodeInv, Collected, Leaving
    <3>4. QED
      BY <1>12, <3>3 DEF Validate
  <2>5. QED
    BY <1>3, <2>1, <2>2, <2>3, <2>4 DEF Answers
<1>13. ASSUME UNCHANGED decodeVars PROVE Answers' /\ (wrong' = 0 => wrong = 0)
  <2>1. UNCHANGED <<pc, schema, seen, target, unwinding, broken, wrong>>
    BY <1>13 DEF decodeVars, state, parser
  <2>2. Missing' = Missing
    BY <2>1 DEF Missing, Kind
  <2>3. QED
    BY <2>1, <2>2 DEF Answers
<1>14. ASSUME /\ wrong' = wrong + 1 \/ UNCHANGED <<broken, unwinding, wrong>>
              /\ pc' \notin {"accepted", "rejected"}
       PROVE  Answers' /\ (wrong' = 0 => wrong = 0)
  BY <1>1, <1>4, <1>5, <1>14
<1>15. QED
  BY <1>6, <1>7, <1>8, <1>9, <1>10, <1>11, <1>12, <1>13, <1>14 DEF DecodeNext, Answered
-----------------------------------------------------------------------------
(* What keeps the parts of the invariant.                                    *)

\* Nothing is wrong so far.
Live == DecodeInv /\ InPlace /\ Answers /\ wrong = 0 /\ Kept

\* and after the step
StillLive == DecodeInv' /\ InPlace' /\ Answers' /\ wrong' = 0 /\ Grows

\* Then nothing stands in the way of the document.
LEMMA LiveIs ==
    ASSUME Live
    PROVE  /\ ~broken /\ ~unwinding /\ errors = <<>> /\ pc \notin {"err", "leave", "failed", "skip"}
           /\ \A p \in DOMAIN oneofs : ~oneofs[p].invalid
           /\ ~OneOf.invalid
<1>1. ~broken /\ ~unwinding
  BY DEF Live, Answers
<1>2. errors \in Seq(Problems) /\ Len(errors) \in Nat
  BY LenProperties DEF Live, DecodeInv, DecodeTypeOK
<1>3. wrong = Len(errors) + Leaving /\ Leaving \in {0, 1}
  BY <1>1 DEF Live, DecodeInv, Collected, Leaving
<1>4. Len(errors) = 0 /\ Leaving = 0
  BY <1>2, <1>3 DEF Live
<1>5. errors = <<>> /\ pc \notin {"err", "leave", "failed"}
  BY <1>1, <1>2, <1>4, EmptySeq DEF Leaving
<1>6. pc # "skip" /\ \A p \in DOMAIN oneofs : ~oneofs[p].invalid
  BY DEF Live, Kept, Quiet
<1>7. ~OneOf.invalid
  BY <1>6 DEF OneOf, Untagged
<1>8. QED
  BY <1>1, <1>5, <1>6, <1>7

\* What is in front of a place.
LEMMA PrefixIs ==
    ASSUME NEW S, NEW s \in Seq(S)
    PROVE  /\ SubSeq(s, 1, Len(s)) = s
           /\ s # <<>> => \A n \in 0 .. Len(s) - 1 : SubSeq(s, 1, n) = SubSeq(Front(s), 1, n)
<1>1. Len(s) \in Nat /\ \A i \in 1 .. Len(s) : s[i] \in S
  BY LenProperties, ElementOfSeq
<1>2. \A n \in 0 .. Len(s) : /\ SubSeq(s, 1, n) \in Seq(S) /\ Len(SubSeq(s, 1, n)) = n
                             /\ \A i \in 1 .. n : SubSeq(s, 1, n)[i] = s[i]
  <2>. SUFFICES ASSUME NEW n \in 0 .. Len(s)
                PROVE  /\ SubSeq(s, 1, n) \in Seq(S) /\ Len(SubSeq(s, 1, n)) = n
                       /\ \A i \in 1 .. n : SubSeq(s, 1, n)[i] = s[i]
    OBVIOUS
  <2>1. n \in Nat /\ \A i \in 1 .. n : s[i] \in S
    BY <1>1
  <2>2. SubSeq(s, 1, n) \in Seq(S) /\ Len(SubSeq(s, 1, n)) = n
    BY <1>1, <2>1, SubSeqProperties
  <2>3. QED
    BY <1>1, <2>1, <2>2
<1>3. SubSeq(s, 1, Len(s)) = s
  BY <1>1, <1>2, SeqEqual
<1>4. ASSUME s # <<>>, NEW n \in 0 .. Len(s) - 1 PROVE SubSeq(s, 1, n) = SubSeq(Front(s), 1, n)
  <2>. PICK f : f = Front(s)
    OBVIOUS
  <2>1. f \in Seq(S) /\ Len(f) = Len(s) - 1 /\ \A i \in 1 .. Len(s) - 1 : f[i] = s[i] /\ f[i] \in S
    BY <1>1, <1>4, FrontOf
  <2>2. n \in Nat /\ \A i \in 1 .. n : f[i] = s[i] /\ f[i] \in S
    BY <1>1, <2>1
  <2>3. /\ SubSeq(f, 1, n) \in Seq(S) /\ Len(SubSeq(f, 1, n)) = n
        /\ \A i \in 1 .. n : SubSeq(f, 1, n)[i] = f[i]
    <3>1. SubSeq(f, 1, n) \in Seq(S) /\ Len(SubSeq(f, 1, n)) = n
      BY <1>1, <2>1, <2>2, SubSeqProperties
    <3>2. QED
      BY <1>1, <2>1, <2>2, <3>1
  <2>4. /\ SubSeq(s, 1, n) \in Seq(S) /\ Len(SubSeq(s, 1, n)) = n
        /\ \A i \in 1 .. n : SubSeq(s, 1, n)[i] = s[i]
    BY <1>1, <1>2
  <2>5. SubSeq(s, 1, n) = SubSeq(f, 1, n)
    BY <2>2, <2>3, <2>4, SeqEqual
  <2>6. QED
    BY <2>5
<1>5. QED
  BY <1>3, <1>4

\* Members come in what was given.
LEMMA RootedStays ==
    ASSUME Rooted, Grows, seen' = seen, keys \subseteq keys',
           \A k \in keys' : k \in keys \/ (k # <<>> /\ Front(k) \in DOMAIN seen)
    PROVE  Rooted'
<1>1. \A t : Kind(t)' = Kind(t)
  BY SameSchema DEF Grows
<1>2. \A q : Named(q) => Named(q)'
  BY DEF Named
<1>3. \A k \in keys' : k # <<>> /\ Front(k) \in DOMAIN seen
  BY DEF Rooted
<1>4. \A q \in DOMAIN seen :
         /\ \A n \in 0 .. Len(q) : SubSeq(q, 1, n) \in DOMAIN seen
         /\ q # <<>> /\ Kind(seen[Front(q)]) = "tagged" => Named(q)
  BY DEF Rooted
<1>5. QED
  BY <1>1, <1>2, <1>3, <1>4 DEF Rooted

\* A value is decoded in what was given.
LEMMA RootedGrows ==
    ASSUME DecodeInv, Rooted, Grows, NEW q \in Seq(Keys), NEW type, q # <<>>, Front(q) \in DOMAIN seen,
           seen' = Put(seen, q, type), keys' \in {keys, keys \union {q}},
           Kind(seen[Front(q)]) = "tagged" => Named(q)'
    PROVE  Rooted'
<1>1. \A t : Kind(t)' = Kind(t)
  BY SameSchema DEF Grows
<1>2. \A r : Named(r) => Named(r)'
  BY DEF Named
<1>3. DOMAIN seen' = DOMAIN seen \union {q}
  BY OneMore
<1>4. \A r \in DOMAIN seen : seen'[r] = seen[r]
  BY DEF Grows
<1>5. \A k \in keys' : k # <<>> /\ Front(k) \in DOMAIN seen'
  BY <1>3 DEF Rooted
<1>6. \A n \in 0 .. Len(q) : SubSeq(q, 1, n) \in DOMAIN seen'
  <2>. SUFFICES ASSUME NEW n \in 0 .. Len(q) PROVE SubSeq(q, 1, n) \in DOMAIN seen'
    OBVIOUS
  <2>1. Len(q) \in Nat /\ Len(Front(q)) = Len(q) - 1
    BY FrontOf, LenProperties
  <2>2. CASE n = Len(q)
    BY <1>3, <2>2, PrefixIs
  <2>3. CASE n # Len(q)
    <3>1. n \in 0 .. Len(Front(q)) /\ n \in 0 .. Len(q) - 1
      BY <2>1, <2>3
    <3>2. SubSeq(q, 1, n) = SubSeq(Front(q), 1, n)
      BY <3>1, PrefixIs
    <3>3. SubSeq(Front(q), 1, n) \in DOMAIN seen
      BY <3>1 DEF Rooted
    <3>4. QED
      BY <1>3, <3>2, <3>3
  <2>4. QED
    BY <2>2, <2>3
<1>7. \A r \in DOMAIN seen : \A n \in 0 .. Len(r) : SubSeq(r, 1, n) \in DOMAIN seen'
  BY <1>3 DEF Rooted
<1>8. \A r \in DOMAIN seen' : r # <<>> /\ schema'[seen'[Front(r)]].kind = "tagged" => Named(r)'
  <2>. SUFFICES ASSUME NEW r \in DOMAIN seen', r # <<>>, Kind(seen'[Front(r)]) = "tagged" PROVE Named(r)'
    BY DEF Kind, Grows
  <2>1. CASE r = q
    <3>1. seen'[Front(q)] = seen[Front(q)]
      BY <1>4
    <3>2. QED
      BY <2>1, <3>1
  <2>2. CASE r # q
    <3>1. r \in DOMAIN seen /\ Child(r)
      BY <1>3, <2>2 DEF DecodeInv, FollowsSchema, SeenOK
    <3>2. seen'[Front(r)] = seen[Front(r)]
      BY <1>4, <3>1 DEF Child
    <3>3. Named(r)
      BY <3>1, <3>2 DEF Rooted
    <3>4. QED
      BY <1>2, <3>3
  <2>3. QED
    BY <2>1, <2>2
<1>9. QED
  BY <1>3, <1>5, <1>6, <1>7, <1>8 DEF Rooted, Kind

\* The message keeps its values, and has new ones.
LEMMA TargetedStays ==
    ASSUME Targeted, Grows, Keys' = Keys,
           \A q \in DOMAIN target' : \/ q \in DOMAIN target /\ target'[q] = target[q]
                                     \/ q \in Seq(Keys) /\ (IsScalar(q)' \/ IsTag(q)')
    PROVE  Targeted'
<1>1. \A t : Kind(t)' = Kind(t)
  BY SameSchema DEF Grows
<1>2. ASSUME NEW q \in DOMAIN target', q \in DOMAIN target, target'[q] = target[q]
      PROVE  q \in Seq(Keys) /\ (IsScalar(q)' \/ IsTag(q)')
  <2>1. q \in Seq(Keys) /\ (IsScalar(q) \/ IsTag(q))
    BY <1>2 DEF Targeted
  <2>2. IsScalar(q) => IsScalar(q)'
    BY <1>1 DEF IsScalar, Grows
  <2>3. IsTag(q) => IsTag(q)'
    <3>. SUFFICES ASSUME IsTag(q) PROVE IsTag(q)'
      OBVIOUS
    <3>1. /\ q # <<>> /\ Last(q) = "tag" /\ Front(q) \in DOMAIN oneofs /\ oneofs[Front(q)].tag # Stranger
          /\ target[q] = oneofs[Front(q)].tag /\ Append(Front(q), "content") \in DOMAIN seen
      BY DEF IsTag, Tagged
    <3>2. Front(q) \in DOMAIN oneofs' /\ oneofs'[Front(q)].tag = oneofs[Front(q)].tag
      BY <3>1 DEF Grows
    <3>3. Append(Front(q), "content") \in DOMAIN seen'
      BY <3>1 DEF Grows
    <3>4. QED
      BY <1>2, <3>1, <3>2, <3>3 DEF IsTag, Tagged
  <2>4. QED
    BY <2>1, <2>2, <2>3
<1>3. QED
  BY <1>2 DEF Targeted

\* Lists keep their elements; none is at its next one.
LEMMA ElementsStay ==
    ASSUME NewElements, Grows, seen' = seen,
           \A i \in DOMAIN frames' : /\ i \in DOMAIN frames /\ frames'[i].type = frames[i].type
                                     /\ frames'[i].place = frames[i].place
                                     /\ frames'[i].index = frames[i].index,
           frames' # <<>> /\ pc' = "next" => Kind(Top'.type) # "list"
    PROVE  NewElements'
<1>1. \A t : Kind(t)' = Kind(t)
  BY SameSchema DEF Grows
<1>3. ASSUME NEW i \in DOMAIN frames', Kind(frames'[i].type) = "list",
             NEW q \in DOMAIN seen', Below(q, frames'[i].place)
      PROVE  /\ Last(q) \in 0 .. frames'[i].index
             /\ i = Len(frames') /\ pc' = "next" => Last(q) # frames'[i].index
  <2>1. /\ i \in DOMAIN frames /\ Kind(frames[i].type) = "list" /\ Below(q, frames[i].place)
        /\ frames'[i].index = frames[i].index /\ q \in DOMAIN seen
    BY <1>3
  <2>2. Last(q) \in 0 .. frames'[i].index
    BY <2>1 DEF NewElements
  <2>3. ~(i = Len(frames') /\ pc' = "next")
    <3>. SUFFICES ASSUME i = Len(frames'), pc' = "next" PROVE FALSE
      OBVIOUS
    <3>1. frames' # <<>> /\ Top' = frames'[i]
      BY <1>3, EmptySeq DEF Top, Last
    <3>2. QED
      BY <1>3, <3>1
  <2>4. QED
    BY <2>2, <2>3
<1>4. QED
  BY <1>3 DEF NewElements, Kind, Grows

\* A oneof to which nothing happens.
LEMMA HalvesStay ==
    ASSUME NEW p, Halves(p), OneOfAt(p)' = OneOfAt(p),
           Append(p, "tag") \in keys' <=> Append(p, "tag") \in keys,
           Append(p, "content") \in keys' <=> Append(p, "content") \in keys,
           Append(p, "tag") \in DOMAIN target => Append(p, "tag") \in DOMAIN target',
           ~IsAt(p, "tag"), ~IsAt(p, "hold"),
           OneOfAt(p).contents = <<>> \/ (Replays(p) => Replays(p)')
    PROVE  Halves(p)'
  BY DEF Halves
-----------------------------------------------------------------------------
(* Where the scalars are that came.                                          *)

\* The scalar that is first, and those after it.
LEMMA EntriesTail ==
    ASSUME NEW first, NEW base, NEW tokens \in Seq(Items), tokens # <<>>
    PROVE  Entries(first, base, tokens) =
              (IF tokens[1].token = "good" THEN {<<first, tokens[1].id>>} ELSE {})
                  \union Entries(Append(base, tokens[1].token), base, Tail(tokens))
<1>. PICK rest : rest = Tail(tokens)
  OBVIOUS
<1>. PICK n \in Nat : n = Len(tokens)
  BY TailOf
<1>1. /\ n > 0 /\ DOMAIN tokens = 1 .. n /\ DOMAIN rest = 1 .. n - 1
      /\ \A k \in 1 .. n - 1 : rest[k] = tokens[k + 1]
  BY TailOf
<1>. DEFINE at(k) == IF k = 1 THEN first ELSE Append(base, tokens[k - 1].token)
            later(k) == IF k = 1 THEN Append(base, tokens[1].token) ELSE Append(base, rest[k - 1].token)
<1>2. at(1) = first /\ \A k \in 1 .. n - 1 : at(k + 1) = later(k)
  <2>1. at(1) = first
    OBVIOUS
  <2>2. ASSUME NEW k \in 1 .. n - 1 PROVE at(k + 1) = later(k)
    <3>1. k + 1 # 1 /\ k + 1 - 1 = k
      OBVIOUS
    <3>2. k # 1 => rest[k - 1] = tokens[k]
      <4>. SUFFICES ASSUME k # 1 PROVE rest[k - 1] = tokens[k]
        OBVIOUS
      <4>1. k - 1 \in 1 .. n - 1 /\ k - 1 + 1 = k
        OBVIOUS
      <4>2. QED
        BY <1>1, <4>1
    <3>3. at(k + 1) = Append(base, tokens[k].token)
      BY <3>1
    <3>4. QED
      BY <3>2, <3>3
  <2>3. QED
    BY <2>1, <2>2
<1>3. Entries(first, base, tokens) = {<<at(k), tokens[k].id>> : k \in {k \in DOMAIN tokens : tokens[k].token = "good"}}
  BY DEF Entries
<1>4. Entries(Append(base, tokens[1].token), base, rest)
          = {<<later(k), rest[k].id>> : k \in {k \in DOMAIN rest : rest[k].token = "good"}}
  BY DEF Entries
<1>. HIDE DEF at, later
<1>5. ASSUME NEW x
      PROVE  x \in Entries(first, base, tokens) <=>
                \/ tokens[1].token = "good" /\ x = <<first, tokens[1].id>>
                \/ x \in Entries(Append(base, tokens[1].token), base, rest)
  <2>1. x \in Entries(first, base, tokens) <=>
           \E k \in 1 .. n : tokens[k].token = "good" /\ x = <<at(k), tokens[k].id>>
    BY <1>1, <1>3
  <2>2. x \in Entries(Append(base, tokens[1].token), base, rest) <=>
           \E k \in 1 .. n - 1 : rest[k].token = "good" /\ x = <<later(k), rest[k].id>>
    BY <1>1, <1>4
  <2>3. (\E k \in 1 .. n : tokens[k].token = "good" /\ x = <<at(k), tokens[k].id>>) <=>
           \/ tokens[1].token = "good" /\ x = <<at(1), tokens[1].id>>
           \/ \E k \in 1 .. n - 1 : tokens[k + 1].token = "good" /\ x = <<at(k + 1), tokens[k + 1].id>>
    <3>1. ASSUME NEW k \in 1 .. n, tokens[k].token = "good", x = <<at(k), tokens[k].id>>, k # 1
          PROVE  \E j \in 1 .. n - 1 : tokens[j + 1].token = "good" /\ x = <<at(j + 1), tokens[j + 1].id>>
      <4>1. k - 1 \in 1 .. n - 1 /\ k - 1 + 1 = k
        BY <3>1
      <4>2. QED
        BY <3>1, <4>1
    <3>2. 1 \in 1 .. n /\ \A k \in 1 .. n - 1 : k + 1 \in 1 .. n
      BY <1>1
    <3>3. QED
      BY <3>1, <3>2
  <2>4. QED
    BY <1>1, <1>2, <2>1, <2>2, <2>3
<1>6. QED
  BY <1>5

\* There are none in nothing, and where the first token is does not matter
\* when it is no scalar.
LEMMA EntriesFirst ==
    ASSUME NEW base, NEW tokens \in Seq(Items), tokens = <<>> \/ tokens[1].token # "good"
    PROVE  \A first, other : Entries(first, base, tokens) = Entries(other, base, tokens)
<1>1. \A first : Entries(first, base, <<>>) = {}
  BY DEF Entries
<1>2. ASSUME tokens # <<>>
      PROVE  \A first, other : Entries(first, base, tokens) = Entries(other, base, tokens)
  <2>. PICK rest : rest = Entries(Append(base, tokens[1].token), base, Tail(tokens))
    OBVIOUS
  <2>1. \A f : Entries(f, base, tokens) = (IF tokens[1].token = "good" THEN {<<f, tokens[1].id>>} ELSE {}) \union rest
    BY <1>2, EntriesTail
  <2>2. \A f : Entries(f, base, tokens) = rest
    BY <1>2, <2>1
  <2>3. QED
    BY <2>2
<1>3. QED
  BY <1>1, <1>2

\* Past a name or a brace.
LEMMA EntriesNext ==
    ASSUME NEW first, NEW base, NEW tokens \in Seq(Items), tokens # <<>>, tokens[1].token # "good"
    PROVE  Entries(first, base, tokens) = Entries(Append(base, tokens[1].token), base, Tail(tokens))
<1>. PICK rest : rest = Entries(Append(base, tokens[1].token), base, Tail(tokens))
  OBVIOUS
<1>1. Entries(first, base, tokens) = (IF tokens[1].token = "good" THEN {<<first, tokens[1].id>>} ELSE {}) \union rest
  BY EntriesTail
<1>2. QED
  BY <1>1

\* A content that is buffered after the others, or is the first of them.
LEMMA HeldAppend ==
    ASSUME NEW p, NEW contents \in Seq(Seq(Items)), NEW tokens \in Seq(Items)
    PROVE  HeldAt(p, Append(contents, tokens)) =
              HeldAt(p, contents) \union Entries(Append(p, "content"), Append(p, "content"), tokens)
<1>. PICK c : c = Append(p, "content")
  OBVIOUS
<1>. PICK more : more = Append(contents, tokens)
  OBVIOUS
<1>1. /\ \A i \in DOMAIN more : more[i] = IF i = Len(contents) + 1 THEN tokens ELSE contents[i]
      /\ DOMAIN more = DOMAIN contents \union {Len(contents) + 1} /\ Len(contents) + 1 \notin DOMAIN contents
  BY FrontOfAppend
<1>2. ASSUME NEW x
      PROVE  x \in HeldAt(p, more) <=> x \in HeldAt(p, contents) \union Entries(c, c, tokens)
  <2>1. \A s : x \in HeldAt(p, s) <=> \E i \in DOMAIN s : x \in Entries(c, c, s[i])
    BY DEF HeldAt
  <2>2. (\E i \in DOMAIN more : x \in Entries(c, c, more[i])) <=>
           (\E i \in DOMAIN contents : x \in Entries(c, c, contents[i])) \/ x \in Entries(c, c, tokens)
    <3>. DEFINE P(s) == x \in Entries(c, c, s)
    <3>. HIDE DEF P
    <3>1. (\E i \in DOMAIN more : P(more[i])) <=> (\E i \in DOMAIN contents : P(contents[i])) \/ P(tokens)
      BY <1>1
    <3>2. QED
      BY <3>1 DEF P
  <2>3. QED
    BY <2>1, <2>2
<1>3. QED
  BY <1>2

\* The first of the buffered contents, and the others.
LEMMA HeldTail ==
    ASSUME NEW p, NEW contents \in Seq(Seq(Items)), contents # <<>>
    PROVE  HeldAt(p, contents) =
              Entries(Append(p, "content"), Append(p, "content"), Head(contents))
                  \union HeldAt(p, Tail(contents))
<1>. PICK c : c = Append(p, "content")
  OBVIOUS
<1>. PICK rest : rest = Tail(contents)
  OBVIOUS
<1>. PICK n \in Nat : n = Len(contents)
  BY TailOf
<1>1. /\ n > 0 /\ DOMAIN contents = 1 .. n /\ DOMAIN rest = 1 .. n - 1 /\ Head(contents) = contents[1]
      /\ \A k \in 1 .. n - 1 : rest[k] = contents[k + 1]
  BY TailOf
<1>2. ASSUME NEW x
      PROVE  x \in HeldAt(p, contents) <=> x \in Entries(c, c, Head(contents)) \union HeldAt(p, rest)
  <2>1. \A s : x \in HeldAt(p, s) <=> \E i \in DOMAIN s : x \in Entries(c, c, s[i])
    BY DEF HeldAt
  <2>2. (\E i \in DOMAIN contents : x \in Entries(c, c, contents[i])) <=>
           x \in Entries(c, c, contents[1]) \/ \E i \in DOMAIN rest : x \in Entries(c, c, rest[i])
    <3>. DEFINE P(s) == x \in Entries(c, c, s)
    <3>. HIDE DEF P
    <3>1. ASSUME NEW i \in DOMAIN contents, P(contents[i]), i # 1
          PROVE  \E j \in DOMAIN rest : P(rest[j])
      <4>1. i - 1 \in 1 .. n - 1 /\ i - 1 + 1 = i
        BY <1>1, <3>1
      <4>2. i - 1 \in DOMAIN rest /\ rest[i - 1] = contents[i]
        BY <1>1, <4>1
      <4>3. QED
        BY <3>1, <4>2
    <3>2. 1 \in DOMAIN contents /\ \A j \in DOMAIN rest : j + 1 \in DOMAIN contents /\ rest[j] = contents[j + 1]
      BY <1>1
    <3>3. (\E i \in DOMAIN contents : P(contents[i])) <=> P(contents[1]) \/ \E j \in DOMAIN rest : P(rest[j])
      BY <3>1, <3>2
    <3>4. QED
      BY <3>3 DEF P
  <2>3. QED
    BY <1>1, <2>1, <2>2
<1>3. QED
  BY <1>2

\* What the other oneofs hold stays.
LEMMA HeldPut ==
    ASSUME DecodeInv, NEW o, SetOneOf(o)
    PROVE  \E others : /\ Held = others \union HeldAt(Place, OneOf.contents)
                       /\ Held' = others \union HeldAt(Place, o.contents)
<1>1. /\ DOMAIN oneofs' = DOMAIN oneofs \union {Place}
      /\ \A p \in DOMAIN oneofs' : oneofs'[p] = IF p = Place THEN o ELSE oneofs[p]
  BY DEF SetOneOf, Put
<1>2. Place \in DOMAIN oneofs => OneOf = oneofs[Place]
  BY DEF OneOf
<1>3. Place \notin DOMAIN oneofs => HeldAt(Place, OneOf.contents) = {}
  BY OneOfIs DEF DecodeInv, HeldAt
<1>. DEFINE others == UNION {HeldAt(p, oneofs[p].contents) : p \in DOMAIN oneofs \ {Place}}
<1>4. Held = others \union HeldAt(Place, OneOf.contents)
  <2>1. CASE Place \in DOMAIN oneofs
    BY <1>2, <2>1 DEF Held
  <2>2. CASE Place \notin DOMAIN oneofs
    BY <1>3, <2>2 DEF Held
  <2>3. QED
    BY <2>1, <2>2
<1>5. Held' = others \union HeldAt(Place, o.contents)
  <2>1. \A x : x \in Held' <=> \E p \in DOMAIN oneofs' : x \in HeldAt(p, oneofs'[p].contents)
    BY DEF Held
  <2>2. \A x : x \in others <=> \E p \in DOMAIN oneofs \ {Place} : x \in HeldAt(p, oneofs[p].contents)
    OBVIOUS
  <2>3. QED
    BY <1>1, <2>1, <2>2
<1>6. QED
  BY <1>4, <1>5

\* The tags that were read, and one more.
LEMMA TagsPut ==
    ASSUME DecodeInv, NEW o, SetOneOf(o), OneOf.tag \in {Stranger, o.tag}
    PROVE  TagsRead' = TagsRead \union (IF o.tag = Stranger THEN {} ELSE {<<Within("tag"), o.tag>>})
<1>1. /\ DOMAIN oneofs' = DOMAIN oneofs \union {Place}
      /\ \A p \in DOMAIN oneofs' : oneofs'[p] = IF p = Place THEN o ELSE oneofs[p]
  BY DEF SetOneOf, Put
<1>2. Place \in DOMAIN oneofs => OneOf = oneofs[Place]
  BY DEF OneOf
<1>3. Within("tag") = Append(Place, "tag")
  BY DEF Within, Place
<1>4. ASSUME NEW x
      PROVE  x \in TagsRead' <=> x \in TagsRead \/ (o.tag # Stranger /\ x = <<Within("tag"), o.tag>>)
  <2>1. x \in TagsRead' <=> \E p \in DOMAIN oneofs' : oneofs'[p].tag # Stranger /\ x = <<Append(p, "tag"), oneofs'[p].tag>>
    BY DEF TagsRead
  <2>2. x \in TagsRead <=> \E p \in DOMAIN oneofs : oneofs[p].tag # Stranger /\ x = <<Append(p, "tag"), oneofs[p].tag>>
    BY DEF TagsRead
  <2>3. QED
    BY <1>1, <1>2, <1>3, <2>1, <2>2
<1>5. QED
  BY <1>4

\* Nothing came, and nothing was moved.
LEMMA LedgerStays ==
    ASSUME Ledger, given' = given, target' = target, oneofs' = oneofs, Feeding' = Feeding
    PROVE  Ledger'
<1>1. InMessage' = InMessage /\ TagsRead' = TagsRead /\ Held' = Held
  BY DEF InMessage, TagsRead, Held
<1>2. QED
  BY <1>1 DEF Ledger
-----------------------------------------------------------------------------
(* What each action keeps, as long as nothing is wrong.                      *)

\* No member comes, and nothing is buffered.
LEMMA RestStays ==
    ASSUME Live, StillLive, UNCHANGED <<seen, oneofs, keys>>,
           pc' \notin {"value", "skip", "tag", "hold"}, pc \notin {"tag", "hold"},
           target' = target \/ (Targeted' /\ DOMAIN target \subseteq DOMAIN target'),
           \A p : OneOfAt(p).contents = <<>> \/ (Replays(p) => Replays(p)'), NewElements', Ledger'
    PROVE  Kept'
<1>1. Quiet'
  <2>1. ~broken' /\ ~unwinding'
    BY DEF StillLive, Answers
  <2>2. \A p \in DOMAIN oneofs' : ~oneofs'[p].invalid
    BY LiveIs
  <2>3. QED
    BY <2>1, <2>2 DEF Quiet
<1>2. Rooted'
  BY RootedStays DEF Live, Kept, StillLive
<1>3. Targeted'
  <2>1. Keys' = Keys
    BY SameSchema DEF StillLive, Grows
  <2>2. CASE target' = target
    <3>1. \A q \in DOMAIN target' : q \in DOMAIN target /\ target'[q] = target[q]
      BY <2>2
    <3>2. QED
      BY <2>1, <3>1, TargetedStays DEF Live, Kept, StillLive
  <2>3. QED
    BY <2>2
<1>4. NewValue' /\ NameRead'
  BY DEF NewValue, NameRead
<1>5. AllHalves'
  <2>. SUFFICES ASSUME NEW p \in DOMAIN seen', Kind(seen'[p]) = "tagged" PROVE Halves(p)'
    BY SameSchema DEF AllHalves, StillLive, Grows, Kind
  <2>1. Halves(p)
    BY DEF Live, Kept, AllHalves
  <2>2. OneOfAt(p)' = OneOfAt(p)
    BY DEF OneOfAt, Untagged
  <2>3. ~IsAt(p, "tag") /\ ~IsAt(p, "hold")
    BY DEF IsAt
  <2>4. QED
    BY <2>1, <2>2, <2>3, HalvesStay
<1>6. QED
  BY <1>1, <1>2, <1>3, <1>4, <1>5 DEF Kept

\* A message, a map, a list or a oneof begins.
LEMMA BeginsKept ==
    ASSUME Live, StillLive, pc = "value", NEW token, Container(token, Kind(want)), Read(token),
           frames' = Append(frames, [type |-> want, place |-> where, index |-> 0, replays |-> FALSE]),
           open' = Append(open, Stranger), pc' = "next",
           UNCHANGED <<seen, target, oneofs, keys, given>>
    PROVE  Kept'
<1>. PICK v : v = [type |-> want, place |-> where, index |-> 0, replays |-> FALSE]
  OBVIOUS
<1>1. /\ frames \in Seq(Frames) /\ open \in Seq(Keys) /\ v \in Frames
      /\ Len(frames) \in Nat /\ DOMAIN frames = 1 .. Len(frames)
  BY LenProperties DEF Live, DecodeInv, DecodeTypeOK, Frames
<1>2. /\ Len(frames') = Len(frames) + 1
      /\ frames' # <<>> /\ Last(frames') = v
      /\ \A i \in DOMAIN frames' : frames'[i] = IF i = Len(frames) + 1 THEN v ELSE frames[i]
      /\ DOMAIN frames' = DOMAIN frames \union {Len(frames) + 1}
      /\ Len(frames) + 1 \notin DOMAIN frames
  BY <1>1, FrontOfAppend
<1>3. where = open
  BY DEF Live, InPlace
<1>4. \A p : Replays(p) => Replays(p)'
  <2>1. \A i \in DOMAIN frames : i \in DOMAIN frames' /\ frames'[i] = frames[i]
    BY <1>2
  <2>2. QED
    BY <2>1 DEF Replays, IsAt
<1>5. NewElements'
  <2>. SUFFICES ASSUME NEW i \in DOMAIN frames', Kind(frames'[i].type) = "list",
                       NEW q \in DOMAIN seen, Below(q, frames'[i].place)
                PROVE  /\ Last(q) \in 0 .. frames'[i].index
                       /\ i = Len(frames') => Last(q) # frames'[i].index
    BY DEF NewElements, Kind, StillLive, Grows
  <2>1. CASE i \in DOMAIN frames
    <3>1. frames'[i] = frames[i] /\ i # Len(frames')
      BY <1>2, <2>1
    <3>2. QED
      BY <2>1, <3>1 DEF Live, Kept, NewElements
  <2>2. CASE i = Len(frames) + 1
    <3>1. Kind(want) = "list" /\ Below(q, where)
      BY <1>2, <2>2
    <3>2. QED
      BY <3>1 DEF Live, Kept, NewValue
  <2>3. QED
    BY <1>2, <2>1, <2>2
<1>6. Feeding' = Feeding
  <2>1. CASE feed = <<>>
    <3>1. feed' = <<>>
      BY <2>1, ReadIs DEF Live, DecodeInv
    <3>2. QED
      BY <2>1, <3>1 DEF Feeding
  <2>2. CASE feed # <<>>
    <3>1. token \in {"{", "["} /\ Kind(want) # "value" /\ token \notin Scalars
      BY DEF Container, Scalars
    <3>2. feed[1].token = token /\ feed' = Tail(feed)
      BY <2>2, <3>1, ReadIs DEF Live, DecodeInv
    <3>3. feed \in Seq(Items) /\ FedContent /\ IsContent(feed)
      BY <2>2, <3>1, <3>2, BufferedToken DEF Live
    <3>4. frames # <<>> /\ Top.replays
      <4>1. frames # <<>> /\ ReplayAt(Len(frames))
        BY <3>3 DEF FedContent
      <4>2. Top = frames[Len(frames)] /\ Len(frames) \in DOMAIN frames
        BY <4>1, TopIs DEF Live, DecodeInv
      <4>3. QED
        BY <4>1, <4>2 DEF ReplayAt
    <3>5. Feeding = Entries(open, open, feed)
      BY <2>2, <3>4 DEF Feeding
    <3>6. Top' = v /\ Place' = open
      BY <1>2, <1>3 DEF Top, Place
    <3>7. feed' \in Seq(Items) /\ (feed' = <<>> \/ feed'[1].token # "good")
      <4>1. Len(feed) % 2 = 0 /\ IsMembers(Word(feed'))
        BY <3>1, <3>2, <3>3 DEF IsContent
      <4>2. feed' \in Seq(Items) /\ Len(feed') = Len(feed) - 1 /\ Len(feed) \in Nat /\ Len(feed) > 0
        BY <2>2, <3>2, <3>3, TailOf
      <4>3. Len(feed') % 2 = 1
        <5>1. Len(feed) % 2 = 0
          BY <4>1
        <5>2. QED
          BY <4>2, <5>1, OneLess
      <4>4. feed' # <<>> => feed'[1].token = "}" \/ feed'[1].token \notin Scalars \union {"}"}
        BY <4>1, <4>2, <4>3, MembersAre
      <4>5. QED
        BY <4>2, <4>4 DEF Scalars
    <3>8. feed[1].token # "good"
      BY <3>1, <3>2
    <3>9. Entries(open, open, feed) = Entries(Append(open, token), open, feed')
      <4>1. Entries(open, open, feed) = Entries(Append(open, feed[1].token), open, Tail(feed))
        BY <2>2, <3>3, <3>8, EntriesNext
      <4>2. QED
        BY <3>2, <4>1
    <3>10. Entries(Append(open, token), open, feed') = Entries(open', open, feed')
      BY <3>7, EntriesFirst
    <3>11. Feeding' = Entries(open', open, feed')
      <4>1. Feeding' = IF feed' = <<>> THEN {} ELSE Entries(open', IF Top'.replays THEN open' ELSE Place', feed')
        BY DEF Feeding
      <4>2. CASE feed' = <<>>
        <5>1. Entries(open', open, feed') = {}
          BY <4>2 DEF Entries
        <5>2. QED
          BY <4>1, <4>2, <5>1
      <4>3. CASE feed' # <<>>
        BY <3>6, <4>1, <4>3
      <4>4. QED
        BY <4>2, <4>3
    <3>12. QED
      BY <3>5, <3>9, <3>10, <3>11
  <2>3. QED
    BY <2>1, <2>2
<1>7. Ledger'
  BY <1>6, LedgerStays DEF Live, Kept
<1>8. QED
  BY <1>4, <1>5, <1>7, RestStays

\* One more value of the message.
LEMMA MessagePut ==
    ASSUME NEW q, NEW v, target' = Put(target, q, v), q \in DOMAIN target => target[q] = v
    PROVE  InMessage' = InMessage \union {<<q, v>>}
<1>1. DOMAIN target' = DOMAIN target \union {q} /\ \A r \in DOMAIN target' : target'[r] = IF r = q THEN v ELSE target[r]
  BY DEF Put
<1>2. ASSUME NEW x
      PROVE  x \in InMessage' <=> x \in InMessage \/ x = <<q, v>>
  <2>1. x \in InMessage' <=> \E r \in DOMAIN target' : x = <<r, target'[r]>>
    BY DEF InMessage
  <2>2. x \in InMessage <=> \E r \in DOMAIN target : x = <<r, target[r]>>
    BY DEF InMessage
  <2>3. QED
    BY <1>1, <2>1, <2>2
<1>3. QED
  BY <1>2

\* Nothing replays that did not, and none stops.
LEMMA ReplaysStay ==
    ASSUME pc # "replay", frames' = frames
    PROVE  \A p : Replays(p) => Replays(p)'
  BY DEF Replays, IsAt

\* The scalar that comes next, and those after it.
LEMMA ScalarEntries ==
    ASSUME NEW first, NEW base, NEW tokens \in Seq(Items), tokens # <<>>, tokens[1].token = "good",
           (IsMembers(Word(tokens)) /\ Len(tokens) % 2 = 0) \/ IsContent(tokens)
    PROVE  Entries(first, base, tokens) = {<<first, tokens[1].id>>} \union Entries(first, base, Tail(tokens))
<1>. PICK rest : rest = Tail(tokens)
  OBVIOUS
<1>1. rest \in Seq(Items) /\ Len(rest) = Len(tokens) - 1 /\ Len(tokens) \in Nat /\ Len(tokens) > 0
  BY TailOf
<1>2. rest = <<>> \/ rest[1].token # "good"
  <2>1. CASE IsMembers(Word(tokens)) /\ Len(tokens) % 2 = 0
    <3>1. IsMembers(Word(rest)) /\ Len(rest) % 2 = 1 /\ rest # <<>>
      BY <2>1, MembersAre
    <3>2. rest[1].token = "}" \/ rest[1].token \notin Scalars \union {"}"}
      BY <1>1, <3>1, MembersAre
    <3>3. QED
      BY <3>2 DEF Scalars
  <2>2. CASE IsContent(tokens)
    <3>1. Len(tokens) = 1
      BY <2>2 DEF IsContent
    <3>2. QED
      BY <1>1, <3>1, EmptySeq
  <2>3. QED
    BY <2>1, <2>2
<1>3. \A f, other : Entries(f, base, rest) = Entries(other, base, rest)
  BY <1>1, <1>2, EntriesFirst
<1>4. Entries(first, base, tokens) =
         (IF tokens[1].token = "good" THEN {<<first, tokens[1].id>>} ELSE {})
             \union Entries(Append(base, tokens[1].token), base, rest)
  BY EntriesTail
<1>5. QED
  BY <1>3, <1>4

\* A scalar comes to its place in the message.
LEMMA ScalarKept ==
    ASSUME Live, StillLive, pc = "value", NEW token, token = "good", Read(token), Kind(want) = "value",
           target' = Put(target, where, Id), pc' = "ok", given' = given \union {<<open, Id>>},
           UNCHANGED <<frames, open, seen, oneofs, keys>>
    PROVE  Kept'
<1>. PICK w : w = where
  OBVIOUS
<1>1. w = open /\ w \in Seq(Keys) /\ w \in DOMAIN seen /\ want = seen[w]
  BY DEF Live, DecodeInv, DecodeTypeOK, FollowsSchema, HereOK, InPlace
<1>2. w \notin DOMAIN target
  BY DEF Live, Kept, NewValue
<1>3. DOMAIN target' = DOMAIN target \union {w} /\ \A q \in DOMAIN target : target'[q] = target[q]
  BY <1>2 DEF Put
<1>4. Targeted'
  <2>1. IsScalar(w)'
    BY <1>1 DEF IsScalar, Kind, StillLive, Grows
  <2>2. Keys' = Keys
    BY SameSchema DEF StillLive, Grows
  <2>3. ASSUME NEW q \in DOMAIN target'
        PROVE  \/ q \in DOMAIN target /\ target'[q] = target[q]
               \/ q \in Seq(Keys) /\ (IsScalar(q)' \/ IsTag(q)')
    <3>1. CASE q = w
      BY <1>1, <2>1, <3>1
    <3>2. CASE q # w
      BY <1>3, <3>2
    <3>3. QED
      BY <3>1, <3>2
  <2>4. QED
    BY <2>2, <2>3, TargetedStays DEF Live, Kept, StillLive
<1>5. NewElements'
  BY ElementsStay DEF Live, Kept, StillLive
<1>6. \A p : Replays(p) => Replays(p)'
  BY ReplaysStay
<1>7. InMessage' = InMessage \union {<<open, Id>>}
  <2>1. target' = Put(target, w, Id)
    OBVIOUS
  <2>2. InMessage' = InMessage \union {<<w, Id>>}
    BY <1>2, <2>1, MessagePut
  <2>3. QED
    BY <1>1, <2>2
<1>8. Feeding' \union {<<open, Id>>} = Feeding \union {<<open, Id>>}
  <2>1. CASE feed = <<>>
    <3>1. feed' = <<>>
      BY <2>1, ReadIs DEF Live, DecodeInv
    <3>2. QED
      BY <2>1, <3>1 DEF Feeding
  <2>2. CASE feed # <<>>
    <3>1. feed[1].token = "good" /\ feed' = Tail(feed)
      <4>1. token # "{"
        OBVIOUS
      <4>2. DecodeTypeOK /\ Read(token)
        BY DEF Live, DecodeInv
      <4>3. feed[1].token = token /\ feed' = Tail(feed)
        BY <2>2, <4>1, <4>2, ReadIs
      <4>4. QED
        BY <4>3
    <3>2. /\ feed \in Seq(Items)
          /\ \/ FedMembers /\ Len(feed) % 2 = 0
             \/ IsContent(feed)
      BY <2>2, BufferedToken DEF Live
    <3>3. (IsMembers(Word(feed)) /\ Len(feed) % 2 = 0) \/ IsContent(feed)
      BY <3>2 DEF FedMembers
    <3>4. \A base : Entries(open, base, feed) = {<<open, feed[1].id>>} \union Entries(open, base, Tail(feed))
      BY <2>2, <3>1, <3>2, <3>3, ScalarEntries
    <3>5. \E base : Feeding = Entries(open, base, feed) /\ Feeding' = Entries(open, base, feed')
      <4>1. Feeding = Entries(open, IF Top.replays THEN open ELSE Place, feed)
        BY <2>2 DEF Feeding
      <4>2. Feeding' = IF feed' = <<>> THEN {} ELSE Entries(open, IF Top.replays THEN open ELSE Place, feed')
        BY DEF Feeding, Place, Top
      <4>3. Entries(open, IF Top.replays THEN open ELSE Place, <<>>) = {}
        BY DEF Entries
      <4>4. Feeding' = Entries(open, IF Top.replays THEN open ELSE Place, feed')
        BY <4>2, <4>3
      <4>5. QED
        BY <4>1, <4>4
    <3>6. Id = feed[1].id
      BY <2>2, <3>2, TailOf DEF Id
    <3>7. QED
      BY <3>1, <3>4, <3>5, <3>6
  <2>3. QED
    BY <2>1, <2>2
<1>9. Ledger'
  <2>1. given = InMessage \union TagsRead \union Held \union Feeding
    BY DEF Live, Kept, Ledger
  <2>2. TagsRead' = TagsRead /\ Held' = Held
    BY DEF TagsRead, Held
  <2>3. given' = InMessage' \union TagsRead' \union Held' \union Feeding'
    BY <1>7, <1>8, <2>1, <2>2
  <2>4. QED
    BY <2>3 DEF Ledger
<1>10. DOMAIN target \subseteq DOMAIN target'
  BY <1>3
<1>11. QED
  BY <1>4, <1>5, <1>6, <1>9, <1>10, RestStays

\* A visitor ends, and nothing that was buffered is left to it.
LEMMA LeaveKept ==
    ASSUME Live, StillLive, pc = "next", Leave("ok"), Feeding = {}, feed' = <<>>,
           UNCHANGED <<seen, target, oneofs, keys, given>>
    PROVE  Kept'
<1>1. frames # <<>> /\ frames' = Front(frames) /\ open' = Front(open) /\ pc' = "ok"
  BY DEF Live, DecodeInv, Aligned, Leave
<1>2. /\ DOMAIN frames' = 1 .. Len(frames) - 1 /\ Len(frames) \in Nat /\ DOMAIN frames = 1 .. Len(frames)
      /\ \A i \in DOMAIN frames' : i \in DOMAIN frames /\ frames'[i] = frames[i]
  BY <1>1, TopIs, LeaveIs DEF Live, DecodeInv
<1>3. ~frames[Len(frames)].replays
  <2>1. NoReplay \/ ReplayAt(Len(frames) - 1)
    BY BetweenFed DEF Live, FedMembers
  <2>2. Len(frames) \in DOMAIN frames
    BY <1>1, TopIs DEF Live, DecodeInv
  <2>3. QED
    BY <1>2, <2>1, <2>2 DEF NoReplay, ReplayAt
<1>4. \A p : Replays(p) => Replays(p)'
  <2>1. \A i \in DOMAIN frames : frames[i].replays => i \in DOMAIN frames' /\ frames'[i] = frames[i]
    BY <1>2, <1>3
  <2>2. QED
    BY <2>1 DEF Replays, IsAt
<1>5. NewElements'
  BY <1>1, <1>2, ElementsStay DEF Live, Kept, StillLive
<1>6. Ledger'
  <2>1. Feeding' = Feeding
    BY DEF Feeding
  <2>2. QED
    BY <2>1, LedgerStays DEF Live, Kept
<1>7. QED
  BY <1>1, <1>4, <1>5, <1>6, RestStays

\* The end of an object.
LEMMA EndKeysKept ==
    ASSUME Live, StillLive, EndKeys
    PROVE  Kept'
<1>1. /\ pc = "next" /\ Read("}") /\ Leave("ok")
      /\ UNCHANGED <<seen, target, oneofs, keys, given>>
  <2>1. ~(wrong' = wrong + 1)
    BY DEF Live, StillLive
  <2>2. QED
    BY <2>1 DEF EndKeys
<1>2. Feeding = {} /\ feed' = <<>>
  <2>1. CASE feed = <<>>
    BY <1>1, <2>1, ReadIs DEF Live, DecodeInv, Feeding
  <2>2. CASE feed # <<>>
    <3>1. FedMembers /\ feed \in Seq(Items)
      BY <1>1, <2>2, BetweenFed DEF Live, DecodeInv, DecodeTypeOK
    <3>2. feed[1].token = "}" /\ feed' = Tail(feed)
      BY <1>1, <2>2, ReadIs DEF Live, DecodeInv
    <3>3. IsMembers(Word(feed)) /\ Len(feed) % 2 = 1
      BY <1>1, <3>1 DEF FedMembers
    <3>4. feed' = <<>>
      BY <2>2, <3>1, <3>2, <3>3, MembersAre
    <3>. PICK base : base = IF Top.replays THEN open ELSE Place
      OBVIOUS
    <3>5. Feeding = Entries(open, base, feed)
      BY <2>2 DEF Feeding
    <3>6. Entries(open, base, feed) = Entries(Append(base, feed[1].token), base, Tail(feed))
      BY <2>2, <3>1, <3>2, EntriesNext
    <3>7. Entries(Append(base, feed[1].token), base, <<>>) = {}
      BY DEF Entries
    <3>8. QED
      BY <3>2, <3>4, <3>5, <3>6, <3>7
  <2>3. QED
    BY <2>1, <2>2
<1>3. QED
  BY <1>1, <1>2, LeaveKept

\* The result of a value, or of the document, comes.
LEMMA DecodedKept ==
    ASSUME Live, StillLive, Decoded
    PROVE  Kept'
<1>1. /\ pc = "ok" /\ UNCHANGED <<schema, seen, target, oneofs, feed, keys, given>>
      /\ open' = open
  BY DEF Decoded, Continue
<1>2. /\ ~unwinding
      /\ feed = <<>> \/ FedMembers
  BY <1>1, LiveIs DEF Live, DecodeInv, Fed, FedContent
<1>3. CASE frames = <<>>
  <2>1. frames' = frames /\ pc' = "validate"
    BY <1>1, <1>3 DEF Decoded
  <2>2. feed = <<>>
    <3>1. Len(frames) = 0
      BY <1>3
    <3>2. QED
      BY <1>2, <3>1 DEF FedMembers
  <2>3. NewElements'
    BY <1>1, <2>1, ElementsStay DEF Live, Kept, StillLive
  <2>4. Ledger'
    <3>1. Feeding' = Feeding
      BY <1>1, <2>2 DEF Feeding
    <3>2. QED
      BY <1>1, <3>1, LedgerStays DEF Live, Kept
  <2>5. \A p : Replays(p) => Replays(p)'
    BY <1>1, <2>1, ReplaysStay
  <2>6. QED
    BY <1>1, <2>1, <2>3, <2>4, <2>5, RestStays
<1>4. CASE frames # <<>>
  <2>. PICK n \in Nat : n = Len(frames)
    BY <1>4, TopIs DEF Live, DecodeInv
  <2>1. Continue
    BY <1>1, <1>4 DEF Decoded
  <2>2. /\ Top = frames[n] /\ n \in DOMAIN frames /\ Place = frames[n].place
        /\ frames \in Seq(Frames) /\ frames[n] \in Frames /\ Top.index \in Nat
    BY <1>4, TopIs DEF Live, DecodeInv, DecodeTypeOK, Place
  <2>3. /\ Len(frames') = n /\ DOMAIN frames' = DOMAIN frames
        /\ \A i \in DOMAIN frames :
              /\ frames'[i].place = frames[i].place /\ frames'[i].type = frames[i].type
              /\ frames'[i].replays = IF i = n /\ pc' = "replay" THEN FALSE ELSE frames[i].replays
        /\ pc' = IF Kind(Top.type) = "tagged" /\ Top.replays THEN "replay" ELSE "next"
    BY <1>1, <1>4, <2>1, ContinueIs DEF Live, DecodeInv
  <2>4. \A i \in DOMAIN frames : frames'[i].index = IF i = n /\ pc' = "next" THEN frames[i].index + 1
                                                    ELSE frames[i].index
    <3>1. \A i \in DOMAIN frames : frames[i] \in Frames
      BY <2>2, ElementOfSeq, LenProperties
    <3>2. CASE pc' = "replay"
      <4>1. frames' = [frames EXCEPT ![n].replays = FALSE]
        BY <2>1, <2>3, <3>2 DEF Continue
      <4>2. QED
        BY <3>1, <3>2, <4>1 DEF Frames
    <3>3. CASE pc' = "next"
      <4>1. frames' = [frames EXCEPT ![n].index = @ + 1]
        BY <2>1, <2>3, <3>3 DEF Continue
      <4>2. QED
        BY <3>1, <3>3, <4>1 DEF Frames
    <3>4. QED
      BY <2>3, <3>2, <3>3
  <2>5. Top' = frames'[n] /\ Place' = Place /\ frames' # <<>>
    <3>1. Top' = frames'[n]
      BY <2>3 DEF Top, Last
    <3>2. frames' # <<>>
      BY <2>2, <2>3, EmptySeq
    <3>3. QED
      BY <2>2, <2>3, <3>1, <3>2 DEF Place
  <2>6. \A p : Replays(p) => Replays(p)'
    <3>. SUFFICES ASSUME NEW p, NEW i \in DOMAIN frames, frames[i].replays, frames[i].place = p
                  PROVE  Replays(p)'
      BY <1>1 DEF Replays, IsAt
    <3>1. CASE i = n /\ pc' = "replay"
      BY <2>2, <2>5, <3>1 DEF Replays, IsAt
    <3>2. CASE ~(i = n /\ pc' = "replay")
      BY <2>3, <3>2 DEF Replays
    <3>3. QED
      BY <3>1, <3>2
  <2>7. NewElements'
    <3>. SUFFICES ASSUME NEW i \in DOMAIN frames, Kind(frames[i].type) = "list",
                         NEW q \in DOMAIN seen, Below(q, frames[i].place)
                  PROVE  /\ Last(q) \in 0 .. frames'[i].index
                         /\ i = n /\ pc' = "next" => Last(q) # frames'[i].index
      BY <1>1, <2>3 DEF NewElements, Kind
    <3>1. Last(q) \in 0 .. frames[i].index
      BY DEF Live, Kept, NewElements
    <3>2. frames[i].index \in Nat
      <4>1. frames[i] \in Frames
        BY <2>2, ElementOfSeq, LenProperties
      <4>2. QED
        BY <4>1 DEF Frames
    <3>3. QED
      BY <2>4, <3>1, <3>2
  <2>8. Ledger'
    <3>1. Feeding' = Feeding
      <4>1. CASE feed = <<>>
        BY <1>1, <4>1 DEF Feeding
      <4>2. CASE FedMembers
        <5>1. Kind(Top.type) = "message"
          BY <4>2 DEF FedMembers
        <5>2. Top'.replays = Top.replays
          BY <2>2, <2>3, <2>5, <5>1
        <5>3. QED
          BY <1>1, <2>5, <5>2 DEF Feeding
      <4>3. QED
        BY <1>2, <4>1, <4>2
    <3>2. QED
      BY <1>1, <3>1, LedgerStays DEF Live, Kept
  <2>9. QED
    BY <1>1, <2>3, <2>6, <2>7, <2>8, RestStays
<1>5. QED
  BY <1>3, <1>4

\* The buffered contents of a oneof were decoded.
LEMMA ReplayedKept ==
    ASSUME Live, StillLive, Replayed
    PROVE  Kept'
<1>1. /\ pc = "replayed" /\ pc' = "next"
      /\ UNCHANGED <<frames, schema, seen, target, oneofs, feed, open, keys, given>>
  BY DEF Replayed, parser
<1>2. Kind(Top.type) = "tagged" /\ Top' = Top
  BY <1>1 DEF Live, DecodeInv, FollowsSchema, HereOK, Top
<1>3. NewElements'
  BY <1>1, <1>2, ElementsStay DEF Live, Kept, StillLive
<1>4. Ledger'
  <2>1. Feeding' = Feeding
    BY <1>1, <1>2 DEF Feeding, Place
  <2>2. QED
    BY <1>1, <2>1, LedgerStays DEF Live, Kept
<1>5. \A p : Replays(p) => Replays(p)'
  BY <1>1, ReplaysStay
<1>6. QED
  BY <1>1, <1>3, <1>4, <1>5, RestStays

\* validate_http answers.
LEMMA ValidateKept ==
    ASSUME Live, StillLive, Validate
    PROVE  Kept'
<1>1. /\ pc = "validate" /\ pc' \in {"accepted", "rejected"}
      /\ UNCHANGED <<frames, seen, target, oneofs, feed, open, keys, given>>
  BY DEF Validate, parser
<1>2. NewElements'
  BY <1>1, ElementsStay DEF Live, Kept, StillLive
<1>3. Ledger'
  <2>1. Feeding' = Feeding
    BY <1>1 DEF Feeding, Place, Top
  <2>2. QED
    BY <1>1, <2>1, LedgerStays DEF Live, Kept
<1>4. \A p : Replays(p) => Replays(p)'
  BY <1>1, ReplaysStay
<1>5. QED
  BY <1>1, <1>2, <1>3, <1>4, RestStays

\* Nothing happens.
LEMMA NothingKept ==
    ASSUME Live, UNCHANGED decodeVars
    PROVE  Kept'
<1>1. UNCHANGED <<schema, pc, want, where, frames, seen, target, oneofs, unwinding, feed, broken, open, keys, given>>
  BY DEF decodeVars, state, parser
<1>2. \A t : Kind(t)' = Kind(t)
  BY <1>1 DEF Kind
<1>3. Place' = Place /\ Top' = Top /\ Keys' = Keys /\ OneOf' = OneOf /\ Within("tag")' = Within("tag")
      /\ Within("content")' = Within("content")
  BY <1>1 DEF Place, Top, Keys, Fields, Kind, OneOf, Untagged, Within
<1>4. Quiet'
  BY <1>1 DEF Live, Kept, Quiet
<1>5. Rooted'
  BY <1>1, <1>2 DEF Live, Kept, Rooted, Named
<1>6. Targeted'
  BY <1>1, <1>2, <1>3 DEF Live, Kept, Targeted, IsScalar, IsTag, Tagged
<1>7. NewValue' /\ NewElements'
  BY <1>1, <1>2 DEF Live, Kept, NewValue, NewElements
<1>8. AllHalves'
  <2>1. \A p : Halves(p)' = Halves(p)
    BY <1>1, <1>3 DEF Halves, OneOfAt, IsAt, Replays, Untagged
  <2>2. QED
    BY <1>1, <1>2, <2>1 DEF Live, Kept, AllHalves
<1>9. NameRead'
  BY <1>1, <1>3 DEF Live, Kept, NameRead
<1>10. Ledger'
  <2>1. Feeding' = Feeding
    BY <1>1, <1>3 DEF Feeding
  <2>2. QED
    BY <1>1, <2>1, LedgerStays DEF Live, Kept
<1>11. QED
  BY <1>4, <1>5, <1>6, <1>7, <1>8, <1>9, <1>10 DEF Kept
-----------------------------------------------------------------------------
(* Members.                                                                  *)

\* What a tracker that is there allows.
LEMMA AllowedIs ==
    ASSUME NEW place, AllowDuplicates(place)
    PROVE  /\ place \in DOMAIN seen => Kind(seen[place]) \notin {"value", "list"}
           /\ place \in DOMAIN seen /\ Kind(seen[place]) = "tagged" =>
                 (Append(place, "content") \in DOMAIN seen
                     => Kind(seen[Append(place, "content")]) \in {"message", "map"})
  BY DEF AllowDuplicates

\* A value comes under a name that its place has not had, or may have again.
LEMMA EnterValue ==
    ASSUME Live, StillLive, frames # <<>>, NEW key \in Keys, NEW type,
           seen' = Put(seen, Within(key), type), want' = type, where' = Within(key),
           Within(key) \in DOMAIN seen => Kind(type) \notin {"value", "list"},
           \A r \in DOMAIN target' : r \in DOMAIN target \/ (r = Within("tag") /\ key = "content"),
           Kind(Top.type) = "tagged" => key = "content"
    PROVE  NewValue'
<1>. PICK q : q = Within(key)
  OBVIOUS
<1>1. /\ q \in Seq(Keys) /\ q # <<>> /\ Front(q) = Place /\ Last(q) = key /\ q # Place
      /\ Place \in DOMAIN seen /\ seen[Place] = Top.type
  BY WithinIs, SpotIs DEF Live
<1>2. DOMAIN seen' = DOMAIN seen \union {q} /\ where' = q
  BY DEF Put
<1>3. ASSUME Kind(type) = "value" PROVE q \notin DOMAIN target'
  <2>1. q \notin DOMAIN seen
    BY <1>3
  <2>2. q # Within("tag") \/ key # "content"
    <3>1. Last(Within("tag")) = "tag"
      BY WithinIs, KeysHave DEF Live
    <3>2. QED
      BY <1>1, <3>1
  <2>3. SUFFICES ASSUME q \in DOMAIN target PROVE FALSE
    BY <2>2
  <2>4. IsTag(q)
    BY <2>1, <2>3 DEF Live, Kept, Targeted, IsScalar
  <2>5. key = "tag" /\ Place \in DOMAIN oneofs
    BY <1>1, <2>4 DEF IsTag, Tagged
  <2>6. Kind(Top.type) = "tagged"
    BY <1>1, <2>5 DEF Live, DecodeInv, FollowsSchema, OneOfsOK
  <2>7. QED
    BY <2>5, <2>6
<1>4. ASSUME Kind(type) = "list", NEW r \in DOMAIN seen', Below(r, q) PROVE FALSE
  <2>1. q \notin DOMAIN seen
    BY <1>4
  <2>2. r # q
    BY <1>1, <1>4 DEF Below
  <2>3. r \in DOMAIN seen /\ r # <<>> /\ Front(r) = q
    BY <1>2, <1>4, <2>2 DEF Below
  <2>4. QED
    BY <2>1, <2>3 DEF Live, DecodeInv, FollowsSchema, SeenOK, Child
<1>5. QED
  BY <1>2, <1>3, <1>4 DEF NewValue, Kind, StillLive, Grows

\* A list has its next element, and the others none.
LEMMA EnterElements ==
    ASSUME Live, StillLive, frames # <<>>, NEW key \in Keys, NEW type,
           seen' = Put(seen, Within(key), type), pc' = "value", DOMAIN frames' = DOMAIN frames,
           \A i \in DOMAIN frames : /\ frames'[i].type = frames[i].type
                                    /\ frames'[i].place = frames[i].place
                                    /\ frames'[i].index = frames[i].index,
           Kind(Top.type) = "list" => key = Top.index
    PROVE  NewElements'
<1>. PICK q : q = Within(key)
  OBVIOUS
<1>1. Front(q) = Place /\ Last(q) = key
  BY WithinIs DEF Live
<1>2. DOMAIN seen' = DOMAIN seen \union {q}
  BY DEF Put
<1>3. ASSUME NEW i \in DOMAIN frames, Kind(frames[i].type) = "list",
             NEW r \in DOMAIN seen', Below(r, frames[i].place)
      PROVE  Last(r) \in 0 .. frames[i].index
  <2>1. CASE r \in DOMAIN seen
    BY <1>3, <2>1 DEF Live, Kept, NewElements
  <2>2. CASE r = q
    <3>1. frames[i].place = Place
      BY <1>1, <1>3, <2>2 DEF Below
    <3>2. Top = frames[i]
      BY <3>1, SpotIs DEF Live
    <3>3. key = frames[i].index /\ Top.index \in Nat
      BY <1>3, <3>2, TopIs DEF Live, DecodeInv
    <3>4. QED
      BY <1>1, <2>2, <3>2, <3>3
  <2>3. QED
    BY <1>2, <2>1, <2>2
<1>4. QED
  BY <1>3 DEF NewElements, Kind, StillLive, Grows

\* A member that is no oneof's is nothing to the oneofs.
LEMMA EnterHalves ==
    ASSUME Live, StillLive, frames # <<>>, pc = "next", NEW key \in Keys, NEW type,
           seen' = Put(seen, Within(key), type), keys' \in {keys, keys \union {Within(key)}},
           UNCHANGED <<oneofs, target, frames>>, Kind(Top.type) # "tagged"
    PROVE  AllHalves'
<1>. PICK q : q = Within(key)
  OBVIOUS
<1>1. /\ q \in Seq(Keys) /\ Front(q) = Place /\ q # Place
      /\ Place \in DOMAIN seen /\ seen[Place] = Top.type
  BY WithinIs, SpotIs DEF Live
<1>2. DOMAIN seen' = DOMAIN seen \union {q} /\ \A p \in DOMAIN seen : seen'[p] = seen[p]
  BY DEF Put, StillLive, Grows
<1>3. \A p \in Seq(Keys) : /\ Front(Append(p, "tag")) = p /\ Front(Append(p, "content")) = p
                           /\ Append(p, "tag") # <<>> /\ Append(p, "content") # <<>>
  BY FrontOfAppend, KeysHave
<1>4. ASSUME NEW p \in DOMAIN seen', Kind(seen'[p]) = "tagged" PROVE Halves(p)'
  <2>1. CASE p \in DOMAIN seen
    <3>1. Kind(seen[p]) = "tagged" /\ Halves(p) /\ p \in Seq(Keys) /\ p # Place
      BY <1>1, <1>2, <1>4, <2>1 DEF Live, Kept, AllHalves, DecodeInv, DecodeTypeOK
    <3>2. Append(p, "tag") # q /\ Append(p, "content") # q
      BY <1>1, <1>3, <3>1
    <3>3. /\ Append(p, "tag") \in keys' <=> Append(p, "tag") \in keys
          /\ Append(p, "content") \in keys' <=> Append(p, "content") \in keys
      BY <3>2
    <3>4. OneOfAt(p)' = OneOfAt(p) /\ ~IsAt(p, "tag") /\ ~IsAt(p, "hold")
      BY DEF OneOfAt, Untagged, IsAt
    <3>5. Replays(p) => Replays(p)'
      BY ReplaysStay
    <3>6. QED
      BY <3>1, <3>3, <3>4, <3>5, HalvesStay
  <2>2. CASE p = q /\ q \notin DOMAIN seen
    <3>1. p \notin DOMAIN oneofs'
      BY <2>2 DEF Live, DecodeInv, FollowsSchema, OneOfsOK
    <3>2. OneOfAt(p)'.contents = <<>> /\ OneOfAt(p)'.tag = Stranger
      BY <3>1 DEF OneOfAt, Untagged
    <3>3. Append(p, "tag") # q /\ Append(p, "content") # q
      BY <1>1, <1>3, <2>2
    <3>4. Append(p, "tag") \notin keys' /\ Append(p, "content") \notin keys'
      BY <1>1, <1>3, <2>2, <3>3 DEF Live, Kept, Rooted
    <3>5. QED
      BY <3>2, <3>4 DEF Halves
  <2>3. QED
    BY <1>2, <2>1, <2>2
<1>5. QED
  BY <1>4 DEF AllHalves, Kind, StillLive, Grows

\* The name of a member is no scalar.
LEMMA NameFed ==
    ASSUME Live, pc = "next", frames # <<>>, NEW key \in Keys, Read(key), open' = At(key), frames' = frames
    PROVE  Feeding' = Feeding
<1>1. Place' = Place /\ Top' = Top
  BY DEF Place, Top
<1>2. CASE feed = <<>>
  BY <1>2, ReadIs DEF Live, DecodeInv, Feeding
<1>3. CASE feed # <<>>
  <2>1. FedMembers /\ feed \in Seq(Items)
    BY <1>3, BetweenFed DEF Live, DecodeInv, DecodeTypeOK
  <2>2. feed[1].token = key /\ feed' = Tail(feed)
    BY <1>3, ReadIs DEF Live, DecodeInv
  <2>3. ~Top.replays
    <3>1. ReplayAt(Len(frames) - 1)
      BY <2>1 DEF FedMembers
    <3>2. Top = frames[Len(frames)] /\ Len(frames) \in DOMAIN frames /\ Len(frames) \in Nat
      BY TopIs DEF Live, DecodeInv
    <3>3. QED
      BY <3>1, <3>2 DEF ReplayAt
  <2>4. feed[1].token # "good"
    <3>1. IsMembers(Word(feed)) /\ Len(feed) % 2 = 1
      BY <2>1 DEF FedMembers
    <3>2. feed[1].token = "}" \/ feed[1].token \notin Scalars \union {"}"}
      BY <1>3, <2>1, <3>1, MembersAre
    <3>3. QED
      BY <3>2 DEF Scalars
  <2>5. Entries(open, Place, feed) = Entries(Append(Place, key), Place, Tail(feed))
    <3>1. Entries(open, Place, feed) = Entries(Append(Place, feed[1].token), Place, Tail(feed))
      BY <1>3, <2>1, <2>4, EntriesNext
    <3>2. QED
      BY <2>2, <3>1
  <2>6. open' = Append(Place, key)
    BY WithinIs DEF Live, Within, Place
  <2>7. Feeding = Entries(open, Place, feed)
    BY <1>3, <2>3 DEF Feeding
  <2>8. Feeding' = IF feed' = <<>> THEN {} ELSE Entries(open', Place, feed')
    BY <1>1, <2>3 DEF Feeding
  <2>9. Entries(open', Place, <<>>) = {}
    BY DEF Entries
  <2>10. Feeding' = Entries(open', Place, feed')
    BY <2>8, <2>9
  <2>11. QED
    BY <2>2, <2>5, <2>6, <2>7, <2>10
<1>4. QED
  BY <1>2, <1>3

\* A value of a message, a map or a list is decoded next.
LEMMA EnterKept ==
    ASSUME Live, StillLive, frames # <<>>, pc = "next", NEW key \in Keys, NEW type,
           Decode(type, Within(key)), open' = At(key), Feeding' = Feeding,
           Within(key) \in DOMAIN seen => Kind(type) \notin {"value", "list"},
           keys' \in {keys, keys \union {Within(key)}}, UNCHANGED <<oneofs, target, given>>,
           Kind(Top.type) # "tagged", Kind(Top.type) = "list" => key = Top.index
    PROVE  Kept'
<1>. PICK q : q = Within(key)
  OBVIOUS
<1>1. /\ seen' = Put(seen, q, type) /\ want' = type /\ where' = q /\ pc' = "value"
      /\ frames' = frames
  BY DEF Decode
<1>2. /\ q \in Seq(Keys) /\ q # <<>> /\ Front(q) = Place /\ q # Place
      /\ Place \in DOMAIN seen /\ seen[Place] = Top.type
  BY WithinIs, SpotIs DEF Live
<1>3. Quiet'
  BY <1>1, LiveIs DEF Quiet, StillLive, Answers
<1>4. Rooted'
  <2>1. DecodeInv /\ Rooted /\ Grows
    BY DEF Live, Kept, StillLive
  <2>2. Kind(seen[Front(q)]) # "tagged"
    BY <1>2
  <2>3. keys' \in {keys, keys \union {q}}
    OBVIOUS
  <2>4. QED
    BY <1>1, <1>2, <2>1, <2>2, <2>3, RootedGrows
<1>5. Targeted'
  <2>1. Keys' = Keys
    BY SameSchema DEF StillLive, Grows
  <2>2. \A r \in DOMAIN target' : r \in DOMAIN target /\ target'[r] = target[r]
    OBVIOUS
  <2>3. QED
    BY <2>1, <2>2, TargetedStays DEF Live, Kept, StillLive
<1>6. NewValue'
  BY <1>1, EnterValue
<1>7. NewElements'
  BY <1>1, EnterElements
<1>8. AllHalves'
  BY <1>1, EnterHalves
<1>9. NameRead'
  BY <1>1 DEF NameRead
<1>10. Ledger'
  BY LedgerStays DEF Live, Kept
<1>11. QED
  BY <1>3, <1>4, <1>5, <1>6, <1>7, <1>8, <1>9, <1>10 DEF Kept

\* A name that is one of a oneof's two, and its place.
LEMMA TwoNames ==
    ASSUME Live, frames # <<>>
    PROVE  /\ {"tag", "content"} \subseteq Keys /\ Within("tag") # Within("content")
           /\ Within("tag") = Append(Place, "tag") /\ Within("content") = Append(Place, "content")
           /\ \A p \in Seq(Keys) : p # Place =>
                 \A name \in {"tag", "content"} : \A key \in Keys : Append(p, name) # Within(key)
           /\ Place \in Seq(Keys) /\ Place \in DOMAIN seen /\ seen[Place] = Top.type
           /\ OneOfAt(Place) = OneOf
<1>1. {"tag", "content"} \subseteq Keys
  BY KeysHave
<1>2. Last(Within("tag")) = "tag" /\ Last(Within("content")) = "content"
  BY <1>1, WithinIs DEF Live
<1>3. \A p \in Seq(Keys) : \A name \in {"tag", "content"} : Front(Append(p, name)) = p
  BY <1>1, FrontOfAppend
<1>4. \A key \in Keys : Front(Within(key)) = Place
  BY WithinIs DEF Live
<1>5. Place \in Seq(Keys) /\ Place \in DOMAIN seen /\ seen[Place] = Top.type
  BY SpotIs DEF Live
<1>6. OneOfAt(Place) = OneOf
  BY DEF OneOfAt, OneOf
<1>7. QED
  BY <1>1, <1>2, <1>3, <1>4, <1>5, <1>6 DEF Within, Place

\* In a oneof that is not replayed, nothing is buffered once its tag is there.
LEMMA NothingHeld ==
    ASSUME Live, pc = "next", Kind(Top.type) = "tagged", OneOf.tag # Stranger
    PROVE  OneOf.contents = <<>> /\ feed = <<>>
<1>1. frames # <<>> /\ feed = <<>> /\ NoReplay
  BY BetweenFed DEF Live, DecodeInv, Aligned, FedMembers
<1>2. Place \in DOMAIN seen /\ Kind(seen[Place]) = "tagged" /\ OneOfAt(Place) = OneOf
  BY <1>1, TwoNames
<1>3. Halves(Place)
  BY <1>2 DEF Live, Kept, AllHalves
<1>4. ~Replays(Place)
  BY <1>1 DEF Replays, IsAt, NoReplay
<1>5. QED
  BY <1>1, <1>2, <1>3, <1>4 DEF Halves

\* The name of a tag, or of a content before it.
LEMMA NotedKept ==
    ASSUME Live, StillLive, frames # <<>>, pc = "next", Kind(Top.type) = "tagged",
           NEW key \in {"tag", "content"}, pc' = (IF key = "tag" THEN "tag" ELSE "hold"),
           key = "content" => OneOf.tag = Stranger,
           open' = At(key), keys' = keys \union {Within(key)}, Feeding' = Feeding,
           UNCHANGED <<seen, oneofs, target, frames, given>>
    PROVE  Kept'
<1>. PICK P : P = Place
  OBVIOUS
<1>. PICK q : q = Within(key)
  OBVIOUS
<1>1. /\ {"tag", "content"} \subseteq Keys /\ key \in Keys
      /\ \A p \in Seq(Keys) : p # P => Append(p, "tag") # q /\ Append(p, "content") # q
      /\ q = Append(P, key) /\ Append(P, "tag") # Append(P, "content")
      /\ P \in Seq(Keys) /\ P \in DOMAIN seen /\ seen[P] = Top.type
      /\ OneOfAt(P) = OneOf
  BY TwoNames DEF Within, Place
<1>2. open' = q /\ q # <<>> /\ Front(q) = P /\ keys' = keys \union {q}
  BY <1>1, WithinIs DEF Live
<1>3. Place' = P /\ OneOf' = OneOf /\ Within("tag")' = Append(P, "tag") /\ Within("content")' = Append(P, "content")
  BY DEF Place, Top, OneOf, Untagged, Within
<1>4. Quiet'
  BY LiveIs DEF Quiet, StillLive, Answers
<1>5. Rooted'
  BY <1>1, <1>2, RootedStays DEF Live, Kept, StillLive
<1>6. Targeted'
  <2>1. Keys' = Keys
    BY SameSchema DEF StillLive, Grows
  <2>2. \A r \in DOMAIN target' : r \in DOMAIN target /\ target'[r] = target[r]
    OBVIOUS
  <2>3. QED
    BY <2>1, <2>2, TargetedStays DEF Live, Kept, StillLive
<1>7. NewValue'
  BY DEF NewValue
<1>8. NewElements'
  <2>1. pc' # "next"
    OBVIOUS
  <2>2. QED
    BY <2>1, ElementsStay DEF Live, Kept, StillLive
<1>9. AllHalves'
  <2>. SUFFICES ASSUME NEW p \in DOMAIN seen, Kind(seen[p]) = "tagged" PROVE Halves(p)'
    BY DEF AllHalves, StillLive, Grows, Kind
  <2>1. Halves(p) /\ p \in Seq(Keys)
    BY DEF Live, Kept, AllHalves, DecodeInv, DecodeTypeOK
  <2>2. OneOfAt(p)' = OneOfAt(p) /\ ~IsAt(p, "tag") /\ ~IsAt(p, "hold") /\ (Replays(p) => Replays(p)')
    BY ReplaysStay DEF OneOfAt, Untagged, IsAt
  <2>3. CASE p # P
    <3>1. /\ Append(p, "tag") \in keys' <=> Append(p, "tag") \in keys
          /\ Append(p, "content") \in keys' <=> Append(p, "content") \in keys
      BY <1>1, <1>2, <2>1, <2>3
    <3>2. QED
      BY <2>1, <2>2, <3>1, HalvesStay
  <2>4. CASE p = P /\ key = "tag"
    <3>1. IsAt(p, "tag")'
      BY <1>3, <2>4 DEF IsAt
    <3>2. /\ Append(p, "tag") \in keys'
          /\ Append(p, "content") \in keys' <=> Append(p, "content") \in keys
      BY <1>1, <1>2, <2>4
    <3>3. QED
      BY <2>1, <2>2, <3>1, <3>2 DEF Halves
  <2>5. CASE p = P /\ key = "content"
    <3>1. IsAt(p, "hold")' /\ OneOfAt(p).tag = Stranger
      BY <1>1, <1>3, <2>5 DEF IsAt
    <3>2. /\ Append(p, "tag") \in keys' <=> Append(p, "tag") \in keys
          /\ Append(p, "content") \in keys'
      BY <1>1, <1>2, <2>5
    <3>3. QED
      BY <2>1, <2>2, <3>1, <3>2 DEF Halves
  <2>6. QED
    BY <2>3, <2>4, <2>5
<1>10. NameRead'
  <2>1. pc' = "tag" => open' = Within("tag")' /\ open' \in keys'
    BY <1>1, <1>2, <1>3
  <2>2. pc' = "hold" => open' = Within("content")' /\ open' \in keys' /\ OneOf'.tag = Stranger
    BY <1>1, <1>2, <1>3
  <2>3. QED
    BY <2>1, <2>2 DEF NameRead
<1>11. Ledger'
  BY LedgerStays DEF Live, Kept
<1>12. QED
  BY <1>4, <1>5, <1>6, <1>7, <1>8, <1>9, <1>10, <1>11 DEF Kept

\* The tag of what is decoded of a oneof comes to the message.
LEMMA TagTold ==
    ASSUME Live, Grows, frames # <<>>, Kind(Top.type) = "tagged", OneOf.tag # Stranger,
           target' = Put(target, Within("tag"), OneOf.tag), Within("content") \in DOMAIN seen'
    PROVE  /\ Targeted' /\ InMessage' = InMessage \union {<<Within("tag"), OneOf.tag>>}
           /\ <<Within("tag"), OneOf.tag>> \in TagsRead
           /\ DOMAIN target' = DOMAIN target \union {Within("tag")}
<1>. PICK P : P = Place
  OBVIOUS
<1>. PICK t : t = Within("tag")
  OBVIOUS
<1>. PICK tag : tag = OneOf.tag
  OBVIOUS
<1>1. /\ P \in DOMAIN oneofs /\ oneofs[P].tag = tag /\ tag # Stranger
      /\ Kind(seen[P]) = "tagged" /\ t = Append(P, "tag") /\ Within("content") = Append(P, "content")
  BY OneOfIs, TwoNames DEF Live, DecodeInv
<1>2. t \in Seq(Keys) /\ t # <<>> /\ Front(t) = P /\ Last(t) = "tag"
  BY WithinIs, KeysHave DEF Live
<1>3. ASSUME t \in DOMAIN target PROVE target[t] = tag
  <2>1. t \notin DOMAIN seen
    <3>. SUFFICES ASSUME t \in DOMAIN seen PROVE FALSE
      OBVIOUS
    <3>1. Named(t)
      BY <1>1, <1>2 DEF Live, Kept, Rooted
    <3>2. QED
      BY <1>2, <3>1 DEF Named
  <2>2. IsTag(t)
    BY <1>3, <2>1 DEF Live, Kept, Targeted, IsScalar
  <2>3. QED
    BY <1>1, <1>2, <2>2 DEF IsTag
<1>4. InMessage' = InMessage \union {<<t, tag>>}
  <2>1. target' = Put(target, t, tag)
    OBVIOUS
  <2>2. QED
    BY <1>3, <2>1, MessagePut
<1>5. DOMAIN target' = DOMAIN target \union {t} /\ \A r \in DOMAIN target' : target'[r] = IF r = t THEN tag ELSE target[r]
  BY DEF Put
<1>6. Targeted'
  <2>1. Keys' = Keys
    BY SameSchema DEF Grows
  <2>2. IsTag(t)'
    <3>1. P \in DOMAIN oneofs' /\ oneofs'[P].tag = tag
      BY <1>1 DEF Grows
    <3>2. QED
      BY <1>1, <1>2, <1>5, <3>1 DEF IsTag, Tagged
  <2>3. \A r \in DOMAIN target' : \/ r \in DOMAIN target /\ target'[r] = target[r]
                                  \/ r \in Seq(Keys) /\ (IsScalar(r)' \/ IsTag(r)')
    BY <1>2, <1>5, <2>2
  <2>4. QED
    BY <2>1, <2>3, TargetedStays DEF Live, Kept
<1>7. <<t, tag>> \in TagsRead
  BY <1>1 DEF TagsRead
<1>8. QED
  BY <1>4, <1>5, <1>6, <1>7

\* Where a content is decoded, both names have come.
LEMMA ContentNamed ==
    ASSUME Live, frames # <<>>, Kind(Top.type) = "tagged", OneOf.tag # Stranger, pc # "tag",
           keys \subseteq keys', Within("content") \in keys'
    PROVE  {Within("tag"), Within("content")} \subseteq keys'
<1>1. /\ Place \in DOMAIN seen /\ Kind(seen[Place]) = "tagged" /\ OneOfAt(Place) = OneOf
      /\ Within("tag") = Append(Place, "tag")
  BY TwoNames
<1>2. Halves(Place)
  BY <1>1 DEF Live, Kept, AllHalves
<1>3. Within("tag") \in keys
  BY <1>1, <1>2 DEF Halves
<1>4. QED
  BY <1>3

\* A content that comes after its tag is decoded next.
LEMMA VariantKept ==
    ASSUME Live, StillLive, frames # <<>>, pc = "next", Kind(Top.type) = "tagged", OneOf.tag # Stranger,
           Variant(OneOf.tag), open' = At("content"), keys' = keys \union {At("content")}, Feeding' = Feeding,
           UNCHANGED <<oneofs, given>>
    PROVE  Kept'
<1>. PICK P : P = Place
  OBVIOUS
<1>. PICK q : q = Within("content")
  OBVIOUS
<1>. PICK type : type = schema[Top.type].fields[OneOf.tag]
  OBVIOUS
<1>1. /\ seen' = Put(seen, q, type) /\ want' = type /\ where' = q /\ pc' = "value"
      /\ frames' = frames /\ AllowDuplicates(P) /\ target' = Put(target, Within("tag"), OneOf.tag)
  BY DEF Variant, Decode
<1>2. /\ q \in Seq(Keys) /\ q # <<>> /\ Front(q) = P /\ q # P /\ Last(q) = "content"
      /\ P \in DOMAIN seen /\ seen[P] = Top.type /\ Kind(seen[P]) = "tagged"
      /\ At("content") = q /\ q = Append(P, "content") /\ Within("tag") = Append(P, "tag")
  BY WithinIs, SpotIs, TwoNames DEF Live
<1>3. \A p \in Seq(Keys) : p # P => Append(p, "tag") # q /\ Append(p, "content") # q
  BY TwoNames
<1>4. DOMAIN seen' = DOMAIN seen \union {q} /\ seen'[q] = type /\ \A p \in DOMAIN seen : seen'[p] = seen[p]
  BY <1>1 DEF Put, StillLive, Grows
<1>5. /\ Targeted' /\ InMessage' = InMessage \union {<<Within("tag"), OneOf.tag>>}
      /\ <<Within("tag"), OneOf.tag>> \in TagsRead
      /\ DOMAIN target' = DOMAIN target \union {Within("tag")}
  BY <1>1, <1>4, TagTold DEF StillLive
<1>6. Quiet'
  BY <1>1, LiveIs DEF Quiet, StillLive, Answers
<1>7. Rooted'
  <2>1. {Append(P, "tag"), q} \subseteq keys'
    BY <1>2, ContentNamed
  <2>2. Named(q)'
    BY <1>2, <2>1 DEF Named
  <2>3. DecodeInv /\ Rooted /\ Grows
    BY DEF Live, Kept, StillLive
  <2>4. keys' \in {keys, keys \union {q}}
    BY <1>2
  <2>5. QED
    BY <1>1, <1>2, <2>2, <2>3, <2>4, RootedGrows
<1>8. NewValue'
  <2>1. q \in DOMAIN seen => Kind(type) \notin {"value", "list"}
    BY <1>1, <1>2, <1>4, AllowedIs
  <2>2. \A r \in DOMAIN target' : r \in DOMAIN target \/ (r = Within("tag") /\ "content" = "content")
    BY <1>5
  <2>3. QED
    BY <1>1, <2>1, <2>2, KeysHave, EnterValue
<1>9. NewElements'
  BY <1>1, KeysHave, EnterElements
<1>10. AllHalves'
  <2>. SUFFICES ASSUME NEW p \in DOMAIN seen', Kind(seen'[p]) = "tagged" PROVE Halves(p)'
    BY DEF AllHalves, StillLive, Grows, Kind
  <2>1. p # q
    <3>1. seen[P] \in DOMAIN schema /\ OneOf.tag \in DOMAIN schema[seen[P]].fields
      BY <1>2, OneOfIs DEF Live, DecodeInv, DecodeTypeOK, FollowsSchema, OneOfsOK
    <3>2. Kind(type) \in {"value", "message"}
      BY <1>2, <3>1, SchemaIs DEF Live, DecodeInv
    <3>3. QED
      BY <1>4, <3>2
  <2>2. p \in DOMAIN seen /\ Kind(seen[p]) = "tagged" /\ Halves(p) /\ p \in Seq(Keys)
    BY <1>4, <2>1 DEF Live, Kept, AllHalves, DecodeInv, DecodeTypeOK
  <2>3. OneOfAt(p)' = OneOfAt(p) /\ ~IsAt(p, "tag") /\ ~IsAt(p, "hold") /\ (Replays(p) => Replays(p)')
    BY <1>1, ReplaysStay DEF OneOfAt, Untagged, IsAt
  <2>4. CASE p # P
    <3>1. /\ Append(p, "tag") \in keys' <=> Append(p, "tag") \in keys
          /\ Append(p, "content") \in keys' <=> Append(p, "content") \in keys
      BY <1>2, <1>3, <2>2, <2>4
    <3>2. Append(p, "tag") \in DOMAIN target => Append(p, "tag") \in DOMAIN target'
      BY <1>5
    <3>3. QED
      BY <2>2, <2>3, <3>1, <3>2, HalvesStay
  <2>5. CASE p = P
    <3>1. OneOfAt(p) = OneOf
      BY <2>5, TwoNames
    <3>2. OneOfAt(p)'.contents = <<>> /\ OneOfAt(p)'.tag # Stranger
      BY <2>3, <3>1, NothingHeld
    <3>3. Append(p, "tag") \in DOMAIN target' /\ Append(p, "tag") \in keys'
      <4>1. Append(p, "tag") \in keys
        BY <2>2, <3>1 DEF Halves
      <4>2. QED
        BY <1>2, <1>5, <2>5, <4>1
    <3>4. QED
      BY <3>2, <3>3 DEF Halves
  <2>6. QED
    BY <2>4, <2>5
<1>11. NameRead'
  BY <1>1 DEF NameRead
<1>12. Ledger'
  <2>1. given = InMessage \union TagsRead \union Held \union Feeding
    BY DEF Live, Kept, Ledger
  <2>2. TagsRead' = TagsRead /\ Held' = Held
    BY DEF TagsRead, Held
  <2>3. given' = InMessage' \union TagsRead' \union Held' \union Feeding'
    BY <1>5, <2>1, <2>2
  <2>4. QED
    BY <2>3 DEF Ledger
<1>13. QED
  BY <1>5, <1>6, <1>7, <1>8, <1>9, <1>10, <1>11, <1>12 DEF Kept

\* A member's name is read.
LEMMA NextKeyKept ==
    ASSUME Live, StillLive, NEW key \in Keys, NextKey(key)
    PROVE  Kept'
<1>1. /\ pc = "next" /\ Kind(Top.type) # "list" /\ Read(key) /\ open' = At(key)
      /\ keys' = keys \union {At(key)}
      /\ Member(key) \/ TaggedMember(key)
      /\ UNCHANGED <<schema, oneofs, given>> /\ frames # <<>>
  BY DEF NextKey, Live, DecodeInv, Aligned
<1>2. wrong' # wrong + 1
  BY DEF Live, StillLive
<1>3. frames' = frames
  BY <1>1 DEF Member, TaggedMember, Decode, Refuse, Variant
<1>4. Feeding' = Feeding
  BY <1>1, <1>3, NameFed
<1>5. At(key) = Within(key) /\ keys' = keys \union {Within(key)} /\ keys' \in {keys, keys \union {Within(key)}}
  BY <1>1, WithinIs DEF Live
<1>6. CASE Member(key)
  <2>1. /\ Kind(Top.type) \in {"message", "map"} /\ target' = target
        /\ AllowDuplicates(Within(key)) /\ Decode(TypeOf(key), Within(key))
    BY <1>2, <1>6 DEF Member, Refuse
  <2>2. Within(key) \in DOMAIN seen => Kind(TypeOf(key)) \notin {"value", "list"}
    <3>1. seen' = Put(seen, Within(key), TypeOf(key))
      BY <2>1 DEF Decode
    <3>2. Within(key) \in DOMAIN seen => seen[Within(key)] = TypeOf(key)
      BY <3>1 DEF Put, StillLive, Grows
    <3>3. QED
      BY <2>1, <3>2, AllowedIs
  <2>3. /\ Kind(Top.type) # "tagged" /\ (Kind(Top.type) = "list" => key = Top.index)
        /\ UNCHANGED <<oneofs, target, given>>
    BY <1>1, <2>1
  <2>4. QED
    BY <1>1, <1>4, <1>5, <2>1, <2>2, <2>3, EnterKept
<1>7. CASE TaggedMember(key)
  <2>1. Kind(Top.type) = "tagged" /\ ~OneOf.invalid
    BY <1>7, LiveIs DEF TaggedMember
  <2>2. CASE /\ key = "tag" /\ pc' = "tag"
             /\ UNCHANGED <<seen, want, where, frames, target, errors, unwinding, wrong>>
    <3>1. /\ key \in {"tag", "content"} /\ pc' = (IF key = "tag" THEN "tag" ELSE "hold")
          /\ key = "content" => OneOf.tag = Stranger
      BY <2>2
    <3>2. UNCHANGED <<seen, oneofs, target, frames, given>>
      BY <1>1, <2>2
    <3>3. QED
      BY <1>1, <1>4, <1>5, <2>1, <3>1, <3>2, NotedKept
  <2>3. CASE /\ key = "content" /\ OneOf.tag = Stranger /\ pc' = "hold"
             /\ UNCHANGED <<seen, want, where, frames, target, errors, unwinding, wrong>>
    <3>1. /\ key \in {"tag", "content"} /\ pc' = (IF key = "tag" THEN "tag" ELSE "hold")
          /\ key = "content" => OneOf.tag = Stranger
      BY <2>3
    <3>2. UNCHANGED <<seen, oneofs, target, frames, given>>
      BY <1>1, <2>3
    <3>3. QED
      BY <1>1, <1>4, <1>5, <2>1, <3>1, <3>2, NotedKept
  <2>4. CASE key = "content" /\ OneOf.tag # Stranger /\ Variant(OneOf.tag)
    <3>1. open' = At("content") /\ keys' = keys \union {At("content")} /\ UNCHANGED <<oneofs, given>>
      BY <1>1, <2>4
    <3>2. QED
      BY <1>1, <1>4, <2>1, <2>4, <3>1, VariantKept
  <2>5. QED
    BY <1>2, <1>7, <2>1, <2>2, <2>3, <2>4 DEF TaggedMember, Refuse
<1>8. QED
  BY <1>1, <1>6, <1>7

\* An element of a list, or its end.
LEMMA NextElementKept ==
    ASSUME Live, StillLive, NextElement
    PROVE  Kept'
<1>1. /\ pc = "next" /\ Kind(Top.type) = "list" /\ frames # <<>>
      /\ UNCHANGED <<schema, target, oneofs, feed, keys, given>>
  BY DEF NextElement, Live, DecodeInv, Aligned
<1>2. feed = <<>> /\ Top.index \in Keys /\ Top.index \in Nat
  BY <1>1, BetweenFed, TopIs, KeysHave DEF FedMembers, Live, DecodeInv
<1>3. Feeding = {} /\ Feeding' = {}
  BY <1>1, <1>2 DEF Feeding
<1>4. CASE /\ open' = At(Top.index)
           /\ Decode(schema[Top.type].of, Within(Top.index))
  <2>. PICK q : q = Within(Top.index)
    OBVIOUS
  <2>1. q \notin DOMAIN seen
    <3>. SUFFICES ASSUME q \in DOMAIN seen PROVE FALSE
      OBVIOUS
    <3>1. q # <<>> /\ Front(q) = Place /\ Last(q) = Top.index
      BY <1>1, <1>2, WithinIs DEF Live
    <3>2. Top = frames[Len(frames)] /\ Len(frames) \in DOMAIN frames
      BY <1>1, TopIs DEF Live, DecodeInv
    <3>3. Below(q, frames[Len(frames)].place)
      BY <3>1, <3>2 DEF Below, Place
    <3>4. QED
      BY <1>1, <3>1, <3>2, <3>3 DEF Live, Kept, NewElements
  <2>2. QED
    BY <1>1, <1>2, <1>3, <1>4, <2>1, EnterKept
<1>5. CASE Leave("ok") /\ seen' = seen
  BY <1>1, <1>2, <1>3, <1>5, LeaveKept
<1>6. QED
  <2>1. wrong' # wrong + 1
    BY DEF Live, StillLive
  <2>2. QED
    BY <1>4, <1>5, <2>1 DEF NextElement
-----------------------------------------------------------------------------
(* Tags and contents that are read, and contents that are replayed.          *)

\* One oneof's buffers change.
LEMMA OneOfPut ==
    ASSUME NEW o, NEW P, P = Place, SetOneOf(o)
    PROVE  /\ OneOfAt(P)' = o /\ \A p : p # P => OneOfAt(p)' = OneOfAt(p)
           /\ \A p \in DOMAIN oneofs' : (p = P /\ oneofs'[p] = o) \/ (p \in DOMAIN oneofs /\ oneofs'[p] = oneofs[p])
<1>1. /\ DOMAIN oneofs' = DOMAIN oneofs \union {P}
      /\ \A p \in DOMAIN oneofs' : oneofs'[p] = IF p = P THEN o ELSE oneofs[p]
  BY DEF SetOneOf, Put
<1>2. QED
  BY <1>1 DEF OneOfAt, Untagged

\* A oneof remembers its tag, or a content.
LEMMA BufferKept ==
    ASSUME Live, StillLive, frames # <<>>, Kind(Top.type) = "tagged", pc \in {"tag", "hold"},
           pc' \in {"replay", "next"}, NEW o, SetOneOf(o), ~o.invalid, NEW P, P = Place,
           UNCHANGED <<seen, target, keys, frames>>, Halves(P)', Ledger'
    PROVE  Kept'
<1>1. /\ OneOfAt(P)' = o /\ \A p : p # P => OneOfAt(p)' = OneOfAt(p)
      /\ \A p \in DOMAIN oneofs' : (p = P /\ oneofs'[p] = o) \/ (p \in DOMAIN oneofs /\ oneofs'[p] = oneofs[p])
  BY OneOfPut
<1>2. Quiet'
  <2>1. ~broken' /\ ~unwinding'
    BY DEF StillLive, Answers
  <2>2. \A p \in DOMAIN oneofs' : ~oneofs'[p].invalid
    BY <1>1, LiveIs
  <2>3. QED
    BY <2>1, <2>2 DEF Quiet
<1>3. Rooted'
  BY RootedStays DEF Live, Kept, StillLive
<1>4. Targeted'
  <2>1. Keys' = Keys
    BY SameSchema DEF StillLive, Grows
  <2>2. \A r \in DOMAIN target' : r \in DOMAIN target /\ target'[r] = target[r]
    OBVIOUS
  <2>3. QED
    BY <2>1, <2>2, TargetedStays DEF Live, Kept, StillLive
<1>5. NewValue' /\ NameRead'
  BY DEF NewValue, NameRead
<1>6. NewElements'
  <2>1. Top' = Top
    BY DEF Top
  <2>2. QED
    BY <2>1, ElementsStay DEF Live, Kept, StillLive
<1>7. AllHalves'
  <2>. SUFFICES ASSUME NEW p \in DOMAIN seen, Kind(seen[p]) = "tagged", p # P PROVE Halves(p)'
    BY DEF AllHalves, StillLive, Grows, Kind
  <2>1. Halves(p)
    BY DEF Live, Kept, AllHalves
  <2>2. OneOfAt(p)' = OneOfAt(p)
    BY <1>1
  <2>3. ~IsAt(p, "tag") /\ ~IsAt(p, "hold") /\ (Replays(p) => Replays(p)')
    BY ReplaysStay DEF IsAt
  <2>4. QED
    BY <2>1, <2>2, <2>3, HalvesStay
<1>8. QED
  BY <1>2, <1>3, <1>4, <1>5, <1>6, <1>7 DEF Kept

\* A tag is read.
LEMMA TagKept ==
    ASSUME Live, StillLive, NEW tag, Tag(tag)
    PROVE  Kept'
<1>. PICK P : P = Place
  OBVIOUS
<1>. DEFINE o == [OneOf EXCEPT !.tag = IF @ = Stranger THEN tag ELSE @]
<1>1. /\ pc = "tag" /\ frames # <<>> /\ Kind(Top.type) = "tagged" /\ feed = <<>>
      /\ open = Within("tag") /\ open \in keys
      /\ UNCHANGED <<feed, open, schema, frames, seen, target, keys>>
  BY BetweenFed DEF Tag, Live, DecodeInv, Aligned, InMember, FollowsSchema, HereOK, FedMembers, Kept, NameRead
<1>2. wrong' # wrong + 1 /\ ~OneOf.invalid
  BY LiveIs DEF Live, StillLive
<1>3. /\ tag \in DOMAIN schema[Top.type].fields /\ OneOf.tag \in {Stranger, tag} /\ pc' = "replay"
      /\ SetOneOf(o) /\ given' = given \union {<<open, tag>>}
  BY <1>2 DEF Tag
<1>4. tag # Stranger
  <2>1. Stranger \notin DOMAIN schema[Top.type].fields
    BY <1>1, TopIs, SchemaIs DEF Live, DecodeInv
  <2>2. QED
    BY <1>3, <2>1
<1>5. o.tag = tag /\ o.contents = OneOf.contents /\ ~o.invalid
  <2>1. OneOf \in OneOfs
    BY OneOfIs DEF Live, DecodeInv
  <2>2. QED
    BY <1>2, <1>3, <2>1 DEF OneOfs
<1>. HIDE DEF o
<1>6. /\ P \in DOMAIN seen /\ Kind(seen[P]) = "tagged" /\ OneOfAt(P) = OneOf /\ open = Append(P, "tag")
      /\ Halves(P)
  BY <1>1, TwoNames DEF Live, Kept, AllHalves
<1>7. OneOfAt(P)' = o
  BY <1>3, OneOfPut
<1>8. Halves(P)'
  <2>1. Replays(P)'
    BY <1>1, <1>3 DEF Replays, IsAt, Place, Top
  <2>2. ~IsAt(P, "hold")
    BY <1>1 DEF IsAt
  <2>3. Append(P, "content") \in keys => OneOf.contents # <<>> \/ Append(P, "tag") \in DOMAIN target
    BY <1>6, <2>2 DEF Halves
  <2>4. OneOf.contents # <<>> => Append(P, "content") \in keys
    BY <1>6 DEF Halves
  <2>5. QED
    BY <1>1, <1>4, <1>5, <1>6, <1>7, <2>1, <2>3, <2>4 DEF Halves
<1>9. Ledger'
  <2>1. given = InMessage \union TagsRead \union Held \union Feeding
    BY DEF Live, Kept, Ledger
  <2>2. TagsRead' = TagsRead \union {<<open, tag>>}
    BY <1>1, <1>3, <1>4, <1>5, TagsPut DEF Live
  <2>3. Held' = Held
    BY <1>3, <1>5, HeldPut DEF Live
  <2>4. InMessage' = InMessage /\ Feeding = {} /\ Feeding' = {}
    BY <1>1 DEF InMessage, Feeding
  <2>5. given' = InMessage' \union TagsRead' \union Held' \union Feeding'
    BY <1>3, <2>1, <2>2, <2>3, <2>4
  <2>6. QED
    BY <2>5 DEF Ledger
<1>10. QED
  BY <1>1, <1>3, <1>5, <1>8, <1>9, BufferKept

\* The scalars of a content that is buffered.
LEMMA ContentEntries ==
    ASSUME NEW content \in Contents, NEW n \in Nat, NEW tokens, NEW c,
           tokens = [k \in DOMAIN content |-> [token |-> content[k], id |-> <<n, k>>]]
    PROVE  {<<IF k = 1 THEN c ELSE Append(c, content[k - 1]), tokens[k].id>> :
               k \in {k \in DOMAIN content : content[k] = "good"}} = Entries(c, c, tokens)
<1>. PICK m \in Nat : m = Len(content) /\ DOMAIN content = 1 .. m
  <2>. PICK T : T = UNION {Range(s) : s \in Contents}
    OBVIOUS
  <2>1. content \in Seq(T)
    BY DecodeAssumption
  <2>2. QED
    BY <2>1, LenProperties
<1>1. DOMAIN tokens = 1 .. m /\ \A k \in 1 .. m : tokens[k].token = content[k]
  OBVIOUS
<1>2. \A k \in 1 .. m : k # 1 => tokens[k - 1].token = content[k - 1]
  <2>1. \A k \in 1 .. m : k # 1 => k - 1 \in 1 .. m
    OBVIOUS
  <2>2. QED
    BY <1>1, <2>1
<1>. DEFINE at(k) == IF k = 1 THEN c ELSE Append(c, content[k - 1])
            of(k) == IF k = 1 THEN c ELSE Append(c, tokens[k - 1].token)
<1>3. \A k \in 1 .. m : at(k) = of(k)
  BY <1>2
<1>4. Entries(c, c, tokens) = {<<of(k), tokens[k].id>> : k \in {k \in DOMAIN tokens : tokens[k].token = "good"}}
  BY DEF Entries
<1>. HIDE DEF at, of
<1>5. {<<at(k), tokens[k].id>> : k \in {k \in DOMAIN content : content[k] = "good"}} = Entries(c, c, tokens)
  BY <1>1, <1>3, <1>4
<1>6. QED
  BY <1>5 DEF at

\* A content is buffered.
LEMMA HoldKept ==
    ASSUME Live, StillLive, Hold
    PROVE  Kept'
<1>. PICK P : P = Place
  OBVIOUS
<1>1. /\ pc = "hold" /\ frames # <<>> /\ Kind(Top.type) = "tagged" /\ feed = <<>>
      /\ open = Within("content") /\ open \in keys /\ OneOf.tag = Stranger
      /\ UNCHANGED <<feed, schema, seen, target, keys>> /\ read' = read + 1
  BY BetweenFed DEF Hold, Live, DecodeInv, Aligned, InMember, FollowsSchema, HereOK, FedMembers, Kept, NameRead
<1>. PICK n \in Nat : n = read'
  BY <1>1 DEF Live, DecodeInv, DecodeTypeOK
<1>2. PICK content \in Contents :
         LET tokens == [k \in DOMAIN content |-> [token |-> content[k], id |-> <<read', k>>]] IN
         /\ SetOneOf([OneOf EXCEPT !.contents = Append(@, tokens)])
         /\ given' = given \union
                {<<IF k = 1 THEN open ELSE Append(open, content[k - 1]), tokens[k].id>> :
                     k \in {k \in DOMAIN content : content[k] = "good"}}
         /\ pc' = "next"
         /\ UNCHANGED <<frames, open>>
  <2>1. wrong' # wrong + 1
    BY DEF Live, StillLive
  <2>2. QED
    BY <2>1 DEF Hold
<1>. PICK tokens : tokens = [k \in DOMAIN content |-> [token |-> content[k], id |-> <<n, k>>]]
  OBVIOUS
<1>3. tokens \in Seq(Items)
  BY ContentIs
<1>. PICK c : c = open
  OBVIOUS
<1>4. /\ SetOneOf([OneOf EXCEPT !.contents = Append(@, tokens)])
      /\ given' = given \union Entries(c, c, tokens)
      /\ pc' = "next" /\ UNCHANGED <<frames, open>>
  <2>1. given' = given \union
                {<<IF k = 1 THEN c ELSE Append(c, content[k - 1]), tokens[k].id>> :
                     k \in {k \in DOMAIN content : content[k] = "good"}}
    BY <1>2
  <2>2. {<<IF k = 1 THEN c ELSE Append(c, content[k - 1]), tokens[k].id>> :
                     k \in {k \in DOMAIN content : content[k] = "good"}} = Entries(c, c, tokens)
    BY ContentEntries
  <2>3. QED
    BY <1>2, <2>1, <2>2
<1>. DEFINE o == [OneOf EXCEPT !.contents = Append(@, tokens)]
<1>5. /\ o.tag = Stranger /\ o.contents = Append(OneOf.contents, tokens) /\ ~o.invalid /\ SetOneOf(o)
      /\ OneOf.contents \in Seq(Seq(Items))
  <2>1. OneOf \in OneOfs /\ OneOf.contents \in Seq(Seq(Items)) /\ ~OneOf.invalid
    BY OneOfIs, LiveIs DEF Live, DecodeInv
  <2>2. QED
    BY <1>1, <1>4, <2>1 DEF OneOfs
<1>. HIDE DEF o
<1>6. o.contents # <<>>
  BY <1>3, <1>5, FrontOfAppend
<1>7. /\ P \in DOMAIN seen /\ Kind(seen[P]) = "tagged" /\ OneOfAt(P) = OneOf /\ c = Append(P, "content")
      /\ Halves(P)
  BY <1>1, TwoNames DEF Live, Kept, AllHalves
<1>8. OneOfAt(P)' = o
  BY <1>5, OneOfPut
<1>9. Halves(P)'
  <2>1. Append(P, "tag") \notin keys
    <3>1. ~IsAt(P, "tag")
      BY <1>1 DEF IsAt
    <3>2. QED
      BY <1>1, <1>7, <3>1 DEF Halves
  <2>2. QED
    BY <1>1, <1>5, <1>6, <1>7, <1>8, <2>1 DEF Halves
<1>10. Ledger'
  <2>1. given = InMessage \union TagsRead \union Held \union Feeding
    BY DEF Live, Kept, Ledger
  <2>2. TagsRead' = TagsRead
    <3>1. OneOf.tag \in {Stranger, o.tag}
      BY <1>1
    <3>2. TagsRead' = TagsRead \union (IF o.tag = Stranger THEN {} ELSE {<<Within("tag"), o.tag>>})
      BY <1>5, <3>1, TagsPut DEF Live
    <3>3. QED
      BY <1>5, <3>2
  <2>3. Held' = Held \union Entries(c, c, tokens)
    <3>1. HeldAt(P, o.contents) = HeldAt(P, OneOf.contents) \union Entries(c, c, tokens)
      <4>1. HeldAt(P, Append(OneOf.contents, tokens)) =
               HeldAt(P, OneOf.contents) \union Entries(Append(P, "content"), Append(P, "content"), tokens)
        BY <1>3, <1>5, HeldAppend
      <4>2. QED
        BY <1>5, <1>7, <4>1
    <3>2. PICK others : Held = others \union HeldAt(P, OneOf.contents) /\ Held' = others \union HeldAt(P, o.contents)
      BY <1>5, HeldPut DEF Live
    <3>3. QED
      BY <3>1, <3>2
  <2>4. InMessage' = InMessage /\ Feeding = {} /\ Feeding' = {}
    BY <1>1 DEF InMessage, Feeding
  <2>5. given' = InMessage' \union TagsRead' \union Held' \union Feeding'
    BY <1>4, <2>1, <2>2, <2>3, <2>4
  <2>6. QED
    BY <2>5 DEF Ledger
<1>11. QED
  BY <1>1, <1>4, <1>5, <1>9, <1>10, BufferKept

\* The buffered contents of a oneof are all decoded.
LEMMA EmptyKept ==
    ASSUME Live, StillLive, pc = "replay", frames # <<>>, OneOf.contents = <<>>, feed = <<>>, NoReplay,
           pc' = "replayed", Kind(Top.type) = "tagged",
           UNCHANGED <<frames, oneofs, feed, open, seen, target, keys, given>>
    PROVE  Kept'
<1>1. OneOfAt(Place) = OneOf
  BY TwoNames
<1>2. \A p : OneOfAt(p).contents = <<>> \/ (Replays(p) => Replays(p)')
  <2>. SUFFICES ASSUME NEW p, OneOfAt(p).contents # <<>> PROVE ~Replays(p)
    OBVIOUS
  <2>1. p # Place
    BY <1>1
  <2>2. QED
    BY <2>1 DEF Replays, IsAt, NoReplay
<1>3. NewElements'
  BY ElementsStay DEF Live, Kept, StillLive
<1>4. Ledger'
  <2>1. Feeding' = Feeding
    BY DEF Feeding
  <2>2. QED
    BY <2>1, LedgerStays DEF Live, Kept
<1>5. QED
  BY <1>2, <1>3, <1>4, RestStays

\* The visitor that replays is the innermost one.
LEMMA ReplayBegins ==
    ASSUME Live, frames # <<>>, frames' = [frames EXCEPT ![Len(frames)].replays = TRUE]
    PROVE  /\ DOMAIN frames' = DOMAIN frames /\ Len(frames') = Len(frames)
           /\ \A i \in DOMAIN frames : /\ frames'[i].type = frames[i].type
                                       /\ frames'[i].place = frames[i].place
                                       /\ frames'[i].index = frames[i].index
           /\ Top'.replays /\ Replays(Place)' /\ frames' # <<>>
<1>. PICK n : n = Len(frames)
  OBVIOUS
<1>1. /\ frames \in Seq(Frames) /\ n \in DOMAIN frames /\ n \in Nat /\ n > 0 /\ DOMAIN frames = 1 .. n
      /\ \A i \in DOMAIN frames : frames[i] \in Frames
  <2>1. frames \in Seq(Frames)
    BY DEF Live, DecodeInv, DecodeTypeOK
  <2>2. n \in DOMAIN frames /\ n \in Nat /\ n > 0 /\ DOMAIN frames = 1 .. n
    BY SpotIs DEF Live
  <2>3. QED
    BY <2>1, <2>2, ElementOfSeq
<1>2. DOMAIN frames' = DOMAIN frames
  OBVIOUS
<1>3. Len(frames') = n
  <2>. PICK f : f = [frames[n] EXCEPT !.replays = TRUE]
    OBVIOUS
  <2>1. f \in Frames
    BY <1>1 DEF Frames
  <2>2. frames' = [frames EXCEPT ![n] = f]
    BY <1>1
  <2>3. frames' \in Seq(Frames)
    BY <1>1, <2>1, <2>2, ExceptSeq
  <2>4. QED
    BY <1>1, <1>2, <2>3, LenProperties
<1>4. \A i \in DOMAIN frames : /\ frames'[i].type = frames[i].type
                               /\ frames'[i].place = frames[i].place
                               /\ frames'[i].index = frames[i].index
  BY <1>1 DEF Frames
<1>5. frames'[n].replays
  BY <1>1 DEF Frames
<1>6. Top' = frames'[n] /\ Place' = Place
  <2>1. Top' = frames'[n] /\ Top = frames[n]
    BY <1>3 DEF Top, Last
  <2>2. QED
    BY <1>1, <1>4, <2>1 DEF Place
<1>7. Replays(Place)'
  <2>1. n \in DOMAIN frames' /\ frames'[n].replays /\ frames'[n].place = Place'
    BY <1>1, <1>2, <1>5, <1>6 DEF Place
  <2>2. QED
    BY <2>1 DEF Replays
<1>8. frames' # <<>>
  BY <1>1, <1>2
<1>9. QED
  BY <1>2, <1>3, <1>4, <1>5, <1>6, <1>7, <1>8

\* The first of the buffered contents is decoded next.
LEMMA ReplayKept ==
    ASSUME Live, StillLive, Replay
    PROVE  Kept'
<1>. PICK P : P = Place
  OBVIOUS
<1>. PICK q : q = Within("content")
  OBVIOUS
<1>. PICK type : type = schema[Top.type].fields[OneOf.tag]
  OBVIOUS
<1>. DEFINE o == [OneOf EXCEPT !.contents = Tail(OneOf.contents)]
<1>1. /\ pc = "replay" /\ frames # <<>> /\ Kind(Top.type) = "tagged" /\ feed = <<>> /\ NoReplay
      /\ keys' = keys /\ given' = given
  BY BetweenFed DEF Replay, Live, DecodeInv, Aligned, InMember, FollowsSchema, HereOK, FedMembers
<1>2. wrong' # wrong + 1
  BY DEF Live, StillLive
<1>3. CASE OneOf.contents = <<>>
  <2>1. /\ pc' = "replayed" /\ UNCHANGED <<frames, oneofs, feed, open, seen, target>>
    BY <1>3 DEF Replay, Buffered
  <2>2. QED
    BY <1>1, <1>3, <2>1, EmptyKept
<1>4. CASE OneOf.contents # <<>>
  <2>1. /\ SetOneOf(o) /\ open' = At("content") /\ AllowDuplicates(P)
        /\ seen' = Put(seen, q, type) /\ want' = type /\ where' = q
        /\ target' = Put(target, Within("tag"), OneOf.tag)
        /\ frames' = [frames EXCEPT ![Len(frames)].replays = TRUE]
        /\ feed' = Head(OneOf.contents) /\ pc' = "value"
    BY <1>2, <1>4 DEF Replay, Buffered
  <2>2. /\ OneOf.tag # Stranger /\ OneOf \in OneOfs /\ OneOf.contents \in Seq(Seq(Items))
    BY <1>1, OneOfIs DEF Live, DecodeInv, FollowsSchema, HereOK, Tagged
  <2>3. o.tag = OneOf.tag /\ o.contents = Tail(OneOf.contents) /\ o.invalid = OneOf.invalid
    BY <2>2 DEF OneOfs
  <2>. HIDE DEF o
  <2>4. /\ q \in Seq(Keys) /\ q # <<>> /\ Front(q) = P /\ q # P /\ Last(q) = "content"
        /\ P \in DOMAIN seen /\ seen[P] = Top.type /\ Kind(seen[P]) = "tagged" /\ OneOfAt(P) = OneOf
        /\ At("content") = q /\ q = Append(P, "content") /\ Within("tag") = Append(P, "tag")
    BY <1>1, WithinIs, SpotIs, TwoNames DEF Live
  <2>5. \A p \in Seq(Keys) : p # P => Append(p, "tag") # q /\ Append(p, "content") # q
    BY <1>1, TwoNames
  <2>6. DOMAIN seen' = DOMAIN seen \union {q} /\ seen'[q] = type /\ \A p \in DOMAIN seen : seen'[p] = seen[p]
    BY <2>1 DEF Put, StillLive, Grows
  <2>7. /\ Targeted' /\ InMessage' = InMessage \union {<<Within("tag"), OneOf.tag>>}
        /\ <<Within("tag"), OneOf.tag>> \in TagsRead
        /\ DOMAIN target' = DOMAIN target \union {Within("tag")}
    BY <1>1, <2>1, <2>2, <2>6, TagTold DEF StillLive
  <2>8. Halves(P)
    BY <2>4 DEF Live, Kept, AllHalves
  <2>9. Append(P, "content") \in keys /\ Append(P, "tag") \in keys
    BY <1>4, <2>2, <2>4, <2>8 DEF Halves
  <2>10. /\ OneOfAt(P)' = o /\ \A p : p # P => OneOfAt(p)' = OneOfAt(p)
         /\ \A p \in DOMAIN oneofs' : (p = P /\ oneofs'[p] = o) \/ (p \in DOMAIN oneofs /\ oneofs'[p] = oneofs[p])
    BY <2>1, OneOfPut
  <2>11. /\ DOMAIN frames' = DOMAIN frames
         /\ \A i \in DOMAIN frames : /\ frames'[i].type = frames[i].type
                                     /\ frames'[i].place = frames[i].place
                                     /\ frames'[i].index = frames[i].index
         /\ Top'.replays /\ Replays(Place)' /\ frames' # <<>>
    BY <1>1, <2>1, ReplayBegins
  <2>12. Place' = P
    <3>1. InPlace' /\ DecodeInv' /\ open' = q
      BY <2>1, <2>4 DEF StillLive
    <3>2. Front(open') = Place'
      BY <2>11, <3>1 DEF InPlace
    <3>3. QED
      BY <2>4, <3>1, <3>2
  <2>13. Quiet'
    <3>1. ~broken' /\ ~unwinding'
      BY DEF StillLive, Answers
    <3>2. \A p \in DOMAIN oneofs' : ~oneofs'[p].invalid
      BY <2>3, <2>10, LiveIs
    <3>3. QED
      BY <2>1, <3>1, <3>2 DEF Quiet
  <2>14. Rooted'
    <3>1. Named(q)'
      BY <1>1, <2>4, <2>9 DEF Named
    <3>2. DecodeInv /\ Rooted /\ Grows
      BY DEF Live, Kept, StillLive
    <3>3. keys' \in {keys, keys \union {q}}
      BY <1>1
    <3>4. QED
      BY <2>1, <2>4, <3>1, <3>2, <3>3, RootedGrows
  <2>15. NewValue'
    <3>1. q \in DOMAIN seen => Kind(type) \notin {"value", "list"}
      BY <2>1, <2>4, <2>6, AllowedIs
    <3>2. \A r \in DOMAIN target' : r \in DOMAIN target \/ (r = Within("tag") /\ "content" = "content")
      BY <2>7
    <3>3. QED
      BY <1>1, <2>1, <3>1, <3>2, KeysHave, EnterValue
  <2>16. NewElements'
    BY <1>1, <2>1, <2>11, KeysHave, EnterElements
  <2>17. AllHalves'
    <3>. SUFFICES ASSUME NEW p \in DOMAIN seen', Kind(seen'[p]) = "tagged" PROVE Halves(p)'
      BY DEF AllHalves, StillLive, Grows, Kind
    <3>1. p # q
      <4>1. seen[P] \in DOMAIN schema /\ OneOf.tag \in DOMAIN schema[seen[P]].fields
        BY <2>2, <2>4, OneOfIs DEF Live, DecodeInv, DecodeTypeOK, FollowsSchema, OneOfsOK
      <4>2. Kind(type) \in {"value", "message"}
        BY <2>4, <4>1, SchemaIs DEF Live, DecodeInv
      <4>3. QED
        BY <2>6, <4>2
    <3>2. p \in DOMAIN seen /\ Kind(seen[p]) = "tagged" /\ Halves(p) /\ p \in Seq(Keys)
      BY <2>6, <3>1 DEF Live, Kept, AllHalves, DecodeInv, DecodeTypeOK
    <3>3. CASE p # P
      <4>1. ~Replays(p) /\ ~IsAt(p, "tag") /\ ~IsAt(p, "hold")
        BY <1>1, <3>3 DEF Replays, IsAt, NoReplay
      <4>2. Append(p, "tag") \in DOMAIN target => Append(p, "tag") \in DOMAIN target'
        BY <2>7
      <4>3. OneOfAt(p)' = OneOfAt(p)
        BY <2>10, <3>3
      <4>4. QED
        BY <1>1, <3>2, <4>1, <4>2, <4>3, HalvesStay
    <3>4. CASE p = P
      <4>1. Replays(P)'
        BY <2>11, <2>12 DEF Replays, IsAt
      <4>2. Append(P, "tag") \in DOMAIN target' /\ Append(P, "tag") \in keys' /\ Append(P, "content") \in keys'
        BY <1>1, <2>4, <2>7, <2>9
      <4>3. OneOfAt(P)'.tag # Stranger
        BY <2>2, <2>3, <2>10
      <4>4. QED
        BY <3>4, <4>1, <4>2, <4>3 DEF Halves
    <3>5. QED
      BY <3>3, <3>4
  <2>18. NameRead'
    BY <2>1 DEF NameRead
  <2>19. Ledger'
    <3>1. given = InMessage \union TagsRead \union Held \union Feeding
      BY DEF Live, Kept, Ledger
    <3>2. TagsRead' = TagsRead
      <4>1. TagsRead' = TagsRead \union {<<Within("tag"), OneOf.tag>>}
        BY <2>1, <2>2, <2>3, TagsPut DEF Live
      <4>2. QED
        BY <2>7, <4>1
    <3>3. Held = Held' \union Entries(q, q, Head(OneOf.contents))
      <4>1. PICK others : /\ Held = others \union HeldAt(P, OneOf.contents)
                          /\ Held' = others \union HeldAt(P, o.contents)
        BY <2>1, HeldPut DEF Live
      <4>2. HeldAt(P, OneOf.contents) = Entries(q, q, Head(OneOf.contents)) \union HeldAt(P, Tail(OneOf.contents))
        <5>1. PICK contents \in Seq(Seq(Items)) : contents = OneOf.contents /\ contents # <<>>
          BY <1>4, <2>2
        <5>2. HeldAt(P, contents) =
                 Entries(Append(P, "content"), Append(P, "content"), Head(contents)) \union HeldAt(P, Tail(contents))
          BY <5>1, HeldTail
        <5>3. Entries(Append(P, "content"), Append(P, "content"), Head(contents)) = Entries(q, q, Head(contents))
          BY <2>4
        <5>4. QED
          BY <5>1, <5>2, <5>3
      <4>3. QED
        BY <2>3, <4>1, <4>2
    <3>4. Feeding = {}
      BY <1>1 DEF Feeding
    <3>5. Feeding' = Entries(q, q, Head(OneOf.contents))
      <4>1. Feeding' = IF feed' = <<>> THEN {} ELSE Entries(open', IF Top'.replays THEN open' ELSE Place', feed')
        BY DEF Feeding
      <4>2. open' = q
        BY <2>1, <2>4
      <4>3. Entries(q, q, <<>>) = {}
        BY DEF Entries
      <4>4. QED
        BY <2>1, <2>11, <4>1, <4>2, <4>3
    <3>6. given' = InMessage' \union TagsRead' \union Held' \union Feeding'
      BY <1>1, <2>7, <3>1, <3>2, <3>3, <3>4, <3>5
    <3>7. QED
      BY <3>6 DEF Ledger
  <2>20. QED
    BY <2>7, <2>13, <2>14, <2>15, <2>16, <2>17, <2>18, <2>19 DEF Kept
<1>5. QED
  BY <1>3, <1>4
-----------------------------------------------------------------------------
(* Every action.                                                             *)

\* A oneof keeps its tag, or has one of its type's.
LEMMA OneOfGrows ==
    ASSUME DecodeInv, frames # <<>>, Kind(Top.type) = "tagged", NEW o, SetOneOf(o),
           o.tag \in DOMAIN schema[Top.type].fields \union {Stranger}, OneOf.tag # Stranger => o.tag = OneOf.tag
    PROVE  OneOfsGrow
<1>1. Place \in DOMAIN seen /\ seen[Place] = Top.type
  BY TopIs DEF DecodeInv, FollowsSchema, FramesOK, Place
<1>2. /\ DOMAIN oneofs' = DOMAIN oneofs \union {Place}
      /\ \A p \in DOMAIN oneofs' : oneofs'[p] = IF p = Place THEN o ELSE oneofs[p]
  BY DEF SetOneOf, Put
<1>3. Place \in DOMAIN oneofs => OneOf = oneofs[Place]
  BY DEF OneOf
<1>4. QED
  BY <1>1, <1>2, <1>3 DEF OneOfsGrow, DecodeInv, FollowsSchema, OneOfsOK

\* Whatever is done, the trackers and the oneofs grow by what the schema says.
LEMMA DecodeGrows ==
    ASSUME DecodeInv, [DecodeNext]_decodeVars
    PROVE  Grows
<1>1. ASSUME UNCHANGED <<schema, seen, oneofs>> PROVE Grows
  BY <1>1, NothingGrows DEF DecodeInv, FollowsSchema
<1>2. ASSUME oneofs' = oneofs PROVE OneOfsGrow
  BY <1>2 DEF OneOfsGrow, DecodeInv, FollowsSchema, OneOfsOK
<1>3. ASSUME OneOfsGrow, UNCHANGED <<schema, seen>> PROVE Grows
  BY <1>3 DEF OneOfsGrow, Grows
<1>4. pc \in {"next", "tag", "hold", "replay"} => frames # <<>> /\ Top.type \in DOMAIN schema
  BY TopIs DEF DecodeInv, Aligned, InMember
<1>5. ASSUME NEW token, DecodeValue(token) PROVE Grows
  BY <1>1, <1>5 DEF DecodeValue
<1>6. ASSUME NEW key \in Keys, NextKey(key) PROVE Grows
  <2>1. pc = "next" /\ frames # <<>> /\ UNCHANGED <<schema, oneofs>> /\ key \in Names(Top.type)
    BY <1>4, <1>6 DEF NextKey
  <2>2. CASE seen' = seen
    BY <1>1, <2>1, <2>2
  <2>3. CASE /\ Kind(Top.type) \in {"message", "map"} /\ key # Stranger
             /\ seen' = Put(seen, Within(key), TypeOf(key))
    <3>1. TypeAt(key, TypeOf(key))
      BY <2>1, <2>3 DEF TypeAt, TypeOf, Names
    <3>2. QED
      BY <1>2, <2>1, <2>3, <3>1, DecodeIs
  <2>4. CASE /\ Kind(Top.type) = "tagged" /\ OneOf.tag # Stranger
             /\ seen' = Put(seen, Within("content"), schema[Top.type].fields[OneOf.tag])
    <3>1. Tagged(Place) /\ OneOf.tag = oneofs[Place].tag
      BY <2>4, OneOfIs DEF DecodeInv, Tagged
    <3>2. TypeAt("content", schema[Top.type].fields[OneOf.tag]) /\ "content" \in Keys
      BY <2>4, <3>1, KeysHave DEF TypeAt
    <3>3. QED
      BY <1>2, <2>1, <2>4, <3>2, DecodeIs
  <2>5. QED
    BY <1>6, <2>2, <2>3, <2>4 DEF NextKey, Member, TaggedMember, Decode, Refuse, Variant
<1>7. ASSUME NextElement PROVE Grows
  <2>1. /\ pc = "next" /\ frames # <<>> /\ UNCHANGED <<schema, oneofs>> /\ Kind(Top.type) = "list"
        /\ Top.index \in Keys
    BY <1>4, <1>7, TopIs, KeysHave DEF NextElement, DecodeInv
  <2>2. CASE seen' = seen
    BY <1>1, <2>1, <2>2
  <2>3. CASE seen' = Put(seen, Within(Top.index), schema[Top.type].of)
    <3>1. TypeAt(Top.index, schema[Top.type].of)
      BY <2>1 DEF TypeAt
    <3>2. QED
      BY <1>2, <2>1, <2>3, <3>1, DecodeIs
  <2>4. QED
    BY <1>7, <2>2, <2>3 DEF NextElement, Decode
<1>8. pc \in {"tag", "hold", "replay"} => /\ Kind(Top.type) = "tagged" /\ OneOf \in OneOfs
                                          /\ OneOf.tag \in DOMAIN schema[Top.type].fields \union {Stranger}
  <2>. SUFFICES ASSUME pc \in {"tag", "hold", "replay"}
                PROVE  /\ Kind(Top.type) = "tagged" /\ OneOf \in OneOfs
                       /\ OneOf.tag \in DOMAIN schema[Top.type].fields \union {Stranger}
    OBVIOUS
  <2>1. Kind(Top.type) = "tagged" /\ OneOf \in OneOfs
    BY OneOfIs DEF DecodeInv, FollowsSchema, HereOK
  <2>2. Place \in DOMAIN oneofs => OneOf = oneofs[Place]
    BY DEF OneOf
  <2>3. Place \in DOMAIN seen /\ seen[Place] = Top.type
    BY <1>4, TopIs DEF DecodeInv, FollowsSchema, FramesOK, Place
  <2>4. Place \notin DOMAIN oneofs => OneOf.tag = Stranger
    BY OneOfIs DEF DecodeInv
  <2>5. QED
    BY <2>1, <2>2, <2>3, <2>4 DEF DecodeInv, FollowsSchema, OneOfsOK
<1>9. ASSUME NEW tag, Tag(tag) PROVE Grows
  <2>1. pc = "tag" /\ frames # <<>> /\ UNCHANGED <<schema, seen>>
    BY <1>4, <1>9 DEF Tag
  <2>2. CASE oneofs' = oneofs
    BY <1>1, <2>1, <2>2
  <2>3. CASE tag \in DOMAIN schema[Top.type].fields /\ SetOneOf([OneOf EXCEPT !.tag = IF @ = Stranger THEN tag ELSE @])
    <3>. PICK o : o = [OneOf EXCEPT !.tag = IF @ = Stranger THEN tag ELSE @]
      OBVIOUS
    <3>1. o.tag = (IF OneOf.tag = Stranger THEN tag ELSE OneOf.tag) /\ SetOneOf(o)
      BY <1>8, <2>1, <2>3 DEF OneOfs
    <3>2. QED
      BY <1>3, <1>8, <2>1, <2>3, <3>1, OneOfGrows
  <2>4. CASE SetOneOf([OneOf EXCEPT !.invalid = TRUE])
    <3>. PICK o : o = [OneOf EXCEPT !.invalid = TRUE]
      OBVIOUS
    <3>1. o.tag = OneOf.tag /\ SetOneOf(o)
      BY <1>8, <2>1, <2>4 DEF OneOfs
    <3>2. QED
      BY <1>3, <1>8, <2>1, <3>1, OneOfGrows
  <2>5. QED
    BY <1>9, <2>2, <2>3, <2>4 DEF Tag
<1>10. ASSUME Hold PROVE Grows
  <2>1. pc = "hold" /\ frames # <<>> /\ UNCHANGED <<schema, seen>>
    BY <1>4, <1>10 DEF Hold
  <2>2. CASE oneofs' = oneofs
    BY <1>1, <2>1, <2>2
  <2>3. ASSUME NEW tokens, SetOneOf([OneOf EXCEPT !.contents = Append(@, tokens)]) PROVE Grows
    <3>. PICK o : o = [OneOf EXCEPT !.contents = Append(@, tokens)]
      OBVIOUS
    <3>1. o.tag = OneOf.tag /\ SetOneOf(o)
      BY <1>8, <2>1, <2>3 DEF OneOfs
    <3>2. QED
      BY <1>3, <1>8, <2>1, <3>1, OneOfGrows
  <2>4. QED
    BY <1>10, <2>2, <2>3 DEF Hold
<1>11. ASSUME Replay PROVE Grows
  <2>1. pc = "replay" /\ frames # <<>> /\ schema' = schema /\ Tagged(Place) /\ OneOf = oneofs[Place]
    BY <1>4, <1>11, OneOfIs DEF Replay, DecodeInv, FollowsSchema, HereOK, Tagged
  <2>2. OneOfsGrow
    <3>1. CASE oneofs' = oneofs
      BY <1>2, <3>1
    <3>2. CASE SetOneOf([OneOf EXCEPT !.contents = Tail(OneOf.contents)])
      <4>. PICK o : o = [OneOf EXCEPT !.contents = Tail(OneOf.contents)]
        OBVIOUS
      <4>1. o.tag = OneOf.tag /\ SetOneOf(o)
        BY <1>8, <2>1, <3>2 DEF OneOfs
      <4>2. QED
        BY <1>8, <2>1, <4>1, OneOfGrows
    <3>3. QED
      BY <1>11, <3>1, <3>2 DEF Replay, Buffered
  <2>3. CASE seen' = seen
    BY <1>3, <2>1, <2>2, <2>3
  <2>4. CASE seen' = Put(seen, Within("content"), schema[Top.type].fields[OneOf.tag])
    <3>1. TypeAt("content", schema[Top.type].fields[OneOf.tag]) /\ "content" \in Keys
      BY <1>8, <2>1, KeysHave DEF TypeAt
    <3>2. QED
      BY <2>1, <2>2, <2>4, <3>1, DecodeIs
  <2>5. QED
    BY <1>11, <2>3, <2>4 DEF Replay
<1>12. ASSUME Skip \/ LeaveMember \/ EndKeys \/ Replayed \/ Decoded \/ Failed \/ Validate \/ Answered PROVE Grows
  BY <1>1, <1>12 DEF Skip, LeaveMember, EndKeys, Replayed, Decoded, Failed, Validate, Answered, decodeVars
<1>13. ASSUME UNCHANGED decodeVars PROVE Grows
  BY <1>1, <1>13 DEF decodeVars
<1>14. MapKeys \union Fields("message") \union {"tag", "content", Stranger} \subseteq Keys
  BY DEF Keys
<1>15. ASSUME DecodeNext PROVE Grows
  BY <1>5, <1>6, <1>7, <1>9, <1>10, <1>11, <1>12, <1>14, <1>15 DEF DecodeNext
<1>16. QED
  BY <1>13, <1>15

\* A value is read.
LEMMA ValueKept ==
    ASSUME Live, StillLive, NEW token, DecodeValue(token)
    PROVE  Kept'
<1>1. wrong' # wrong + 1
  BY DEF Live, StillLive
<1>2. pc = "value" /\ Read(token) /\ UNCHANGED <<seen, oneofs, keys>>
  BY DEF DecodeValue
<1>3. CASE /\ Container(token, Kind(want))
           /\ frames' = Append(frames, [type |-> want, place |-> where, index |-> 0, replays |-> FALSE])
           /\ open' = Append(open, Stranger) /\ pc' = "next" /\ UNCHANGED <<target, given>>
  BY <1>2, <1>3, BeginsKept
<1>4. CASE /\ token = "good" /\ Kind(want) = "value"
           /\ target' = Put(target, where, Id) /\ pc' = "ok" /\ UNCHANGED <<frames, open>>
           /\ given' = given \union {<<open, Id>>}
  BY <1>2, <1>4, ScalarKept
<1>5. QED
  BY <1>1, <1>3, <1>4 DEF DecodeValue

\* As long as nothing is wrong, every step keeps what was given.
LEMMA KeptStep ==
    ASSUME Live, StillLive, [DecodeNext]_decodeVars
    PROVE  Kept'
<1>1. ASSUME NEW token \in Tokens, DecodeValue(token) PROVE Kept'
  BY <1>1, ValueKept
<1>2. ASSUME NEW key \in MapKeys \union Fields("message") \union {"tag", "content", Stranger}, NextKey(key)
      PROVE  Kept'
  BY <1>2, NextKeyKept DEF Keys
<1>3. ASSUME NEW tag \in Fields("tagged") \union {Stranger, "bad", "other", "junk"}, Tag(tag)
      PROVE  Kept'
  BY <1>3, TagKept
<1>4. ~Skip /\ ~LeaveMember /\ ~Failed
  BY LiveIs DEF Skip, LeaveMember, Failed
<1>5. CASE EndKeys
  BY <1>5, EndKeysKept
<1>6. CASE NextElement
  BY <1>6, NextElementKept
<1>7. CASE Hold
  BY <1>7, HoldKept
<1>8. CASE Replay
  BY <1>8, ReplayKept
<1>9. CASE Replayed
  BY <1>9, ReplayedKept
<1>10. CASE Decoded
  BY <1>10, DecodedKept
<1>11. CASE Validate
  BY <1>11, ValidateKept
<1>12. CASE Answered \/ UNCHANGED decodeVars
  BY <1>12, NothingKept DEF Answered
<1>13. QED
  BY <1>1, <1>2, <1>3, <1>4, <1>5, <1>6, <1>7, <1>8, <1>9, <1>10, <1>11, <1>12 DEF DecodeNext

\* Every step keeps the invariant.
LEMMA GivenNext == DecodeInv /\ GivenInv /\ [DecodeNext]_decodeVars => GivenInv'
<1>. SUFFICES ASSUME DecodeInv, GivenInv, [DecodeNext]_decodeVars PROVE GivenInv'
  OBVIOUS
<1>1. DecodeInv' /\ Grows
  BY DecodeNextInv, DecodeGrows
<1>2. InPlace'
  BY <1>1, InPlaceStep DEF GivenInv
<1>3. Answers' /\ (wrong' = 0 => wrong = 0)
  BY AnswersStep DEF GivenInv
<1>4. wrong' = 0 => Kept'
  BY <1>1, <1>2, <1>3, KeptStep DEF GivenInv, Live, StillLive
<1>5. QED
  BY <1>2, <1>3, <1>4 DEF GivenInv

\* A document begins.
LEMMA GivenInit == DecodeInit => GivenInv
<1>. SUFFICES ASSUME DecodeInit PROVE GivenInv
  OBVIOUS
<1>1. DecodeInv
  BY DecodeInitInv
<1>2. /\ pc = "value" /\ want = "root" /\ where = <<>> /\ open = <<>> /\ frames = <<>>
      /\ seen = [place \in {<<>>} |-> "root"] /\ target = <<>> /\ oneofs = <<>>
      /\ ~unwinding /\ ~broken /\ feed = <<>> /\ keys = {} /\ given = {} /\ wrong = 0
  BY DEF DecodeInit
<1>3. /\ DOMAIN target = {} /\ DOMAIN oneofs = {} /\ DOMAIN frames = {}
      /\ DOMAIN seen = {<<>>} /\ Len(<<>>) = 0
  <2>1. DOMAIN <<>> = {} /\ Len(<<>>) = 0
    BY EmptySeq
  <2>2. QED
    BY <1>2, <2>1
<1>4. InPlace
  BY <1>2, <1>3 DEF InPlace
<1>5. Answers
  BY <1>2 DEF Answers
<1>6. Quiet /\ Targeted /\ NewElements /\ NameRead
  BY <1>2, <1>3 DEF Quiet, Targeted, NewElements, NameRead
<1>7. Rooted
  <2>1. \A n \in 0 .. 0 : SubSeq(<<>>, 1, n) = <<>>
    OBVIOUS
  <2>2. QED
    BY <1>2, <1>3, <2>1 DEF Rooted
<1>8. NewValue
  BY <1>2, <1>3 DEF NewValue, Below
<1>9. AllHalves
  <2>1. \A p : OneOfAt(p) = Untagged
    BY <1>3 DEF OneOfAt
  <2>2. QED
    BY <1>2, <2>1 DEF AllHalves, Halves, Untagged
<1>10. Ledger
  BY <1>2, <1>3 DEF Ledger, InMessage, TagsRead, Held, Feeding
<1>11. QED
  BY <1>4, <1>5, <1>6, <1>7, <1>8, <1>9, <1>10 DEF GivenInv, Kept
-----------------------------------------------------------------------------
(* What is told.                                                             *)

\* A place is in front of what is in it.
LEMMA PrefixOf ==
    ASSUME NEW S, NEW p \in Seq(S), NEW x \in S, NEW y \in S
    PROVE  IsPrefix(p, Append(p, x)) /\ IsPrefix(p, Append(Append(p, x), y))
<1>. PICK n \in Nat : n = Len(p)
  BY LenProperties
<1>. DEFINE a == Append(p, x)
            b == Append(a, y)
<1>1. a \in Seq(S) /\ Len(a) = n + 1 /\ \A i \in 1 .. n : a[i] = p[i]
  BY LenProperties
<1>. HIDE DEF a
<1>2. b \in Seq(S) /\ Len(b) = n + 2 /\ \A i \in 1 .. n : b[i] = p[i]
  BY <1>1, LenProperties
<1>. HIDE DEF b
<1>3. ASSUME NEW s \in Seq(S), Len(s) >= n, \A i \in 1 .. n : s[i] = p[i] PROVE IsPrefix(p, s)
  <2>1. SubSeq(p, 1, n) = SubSeq(s, 1, n)
    <3>1. \A i \in 1 .. n : p[i] \in S
      BY ElementOfSeq
    <3>2. /\ SubSeq(p, 1, n) \in Seq(S) /\ Len(SubSeq(p, 1, n)) = n
          /\ SubSeq(s, 1, n) \in Seq(S) /\ Len(SubSeq(s, 1, n)) = n
      BY <1>3, <3>1, SubSeqProperties
    <3>3. \A i \in 1 .. n : SubSeq(p, 1, n)[i] = p[i] /\ SubSeq(s, 1, n)[i] = s[i]
      BY <1>3, <3>1, <3>2
    <3>4. QED
      BY <1>3, <3>2, <3>3, SeqEqual
  <2>2. QED
    BY <1>3, <2>1 DEF IsPrefix
<1>4. IsPrefix(p, a)
  <2>1. n + 1 >= n
    OBVIOUS
  <2>2. QED
    BY <1>1, <1>3, <2>1
<1>5. IsPrefix(p, b)
  <2>1. n + 2 >= n
    OBVIOUS
  <2>2. QED
    BY <1>2, <1>3, <2>1
<1>6. QED
  BY <1>4, <1>5 DEF a, b

\* A sequence with one element more than another.
LEMMA LongerIs ==
    ASSUME NEW S, NEW f \in Seq(S), NEW r \in Seq(S), Len(r) = Len(f) + 1,
           \A i \in 1 .. Len(f) : r[i] = f[i]
    PROVE  r # <<>> /\ r = Append(f, Last(r)) /\ Front(r) = f
<1>. PICK n \in Nat : n = Len(f)
  BY LenProperties
<1>. PICK x : x = r[n + 1]
  OBVIOUS
<1>1. x \in S
  BY ElementOfSeq
<1>. DEFINE a == Append(f, x)
<1>2. /\ a \in Seq(S) /\ Len(a) = n + 1 /\ \A i \in 1 .. n : a[i] = f[i]
      /\ a[n + 1] = x /\ Front(a) = f /\ Last(a) = x /\ a # <<>>
  BY <1>1, FrontOfAppend
<1>. HIDE DEF a
<1>3. \A i \in 1 .. n + 1 : a[i] = r[i]
  BY <1>2
<1>4. r = a
  BY <1>2, <1>3, SeqEqual
<1>5. QED
  BY <1>2, <1>4 DEF a

\* so, too, of whatever names.
LEMMA PrefixOfAny ==
    ASSUME NEW S, NEW p \in Seq(S), NEW name
    PROVE  /\ IsPrefix(p, Append(p, name))
           /\ \A x : IsPrefix(p, Append(Append(p, name), x))
<1>. SUFFICES ASSUME NEW x
             PROVE  IsPrefix(p, Append(p, name)) /\ IsPrefix(p, Append(Append(p, name), x))
  OBVIOUS
<1>1. p \in Seq(S \union {name, x})
  BY SeqDef
<1>2. QED
  BY <1>1, PrefixOf

\* What is in front of a name is in front of other names, too.
LEMMA PrefixReplaced ==
    ASSUME NEW S, NEW p \in Seq(S), NEW f \in Seq(S), NEW x \in S, NEW y \in S,
           IsPrefix(p, Append(f, x)), p # Append(f, x)
    PROVE  IsPrefix(p, Append(f, y))
<1>. PICK n \in Nat : n = Len(p)
  BY LenProperties
<1>. PICK m \in Nat : m = Len(f)
  BY LenProperties
<1>. PICK a \in Seq(S) : a = Append(f, x)
  BY FrontOfAppend
<1>. PICK b \in Seq(S) : b = Append(f, y)
  BY FrontOfAppend
<1>1. /\ Len(a) = m + 1 /\ \A i \in 1 .. m : a[i] = f[i]
      /\ Len(b) = m + 1 /\ \A i \in 1 .. m : b[i] = f[i]
  BY LenProperties
<1>2. n <= m + 1 /\ SubSeq(a, 1, n) = p
  <2>1. SubSeq(p, 1, n) = p
    BY PrefixIs
  <2>2. QED
    BY <1>1, <2>1 DEF IsPrefix
<1>3. n <= m
  <2>1. SubSeq(a, 1, m + 1) = a
    BY <1>1, PrefixIs
  <2>2. QED
    BY <1>2, <2>1
<1>4. \A i \in 1 .. n : a[i] \in S /\ b[i] \in S
  BY <1>1, <1>3, ElementOfSeq
<1>5. /\ SubSeq(a, 1, n) \in Seq(S) /\ Len(SubSeq(a, 1, n)) = n
      /\ SubSeq(b, 1, n) \in Seq(S) /\ Len(SubSeq(b, 1, n)) = n
  BY <1>1, <1>3, <1>4, SubSeqProperties
<1>6. \A i \in 1 .. n : SubSeq(a, 1, n)[i] = SubSeq(b, 1, n)[i]
  <2>1. \A i \in 1 .. n : SubSeq(a, 1, n)[i] = a[i] /\ SubSeq(b, 1, n)[i] = b[i]
    BY <1>1, <1>3, <1>4
  <2>2. \A i \in 1 .. n : a[i] = b[i]
    BY <1>1, <1>3
  <2>3. QED
    BY <2>1, <2>2
<1>7. SubSeq(a, 1, n) = SubSeq(b, 1, n)
  BY <1>5, <1>6, SeqEqual
<1>8. SubSeq(p, 1, n) = SubSeq(b, 1, n)
  BY <1>2, <1>7, PrefixIs
<1>9. QED
  BY <1>1, <1>3, <1>8 DEF IsPrefix

\* A sequence is its last element after what is in front of it.
LEMMA AppendFront ==
    ASSUME NEW S, NEW q \in Seq(S), q # <<>>
    PROVE  q = Append(Front(q), Last(q))
<1>. PICK f : f = Front(q)
  OBVIOUS
<1>1. /\ f \in Seq(S) /\ Len(f) = Len(q) - 1 /\ Len(q) \in Nat /\ \A i \in 1 .. Len(q) - 1 : f[i] = q[i]
  BY FrontOf, LenProperties
<1>2. Len(q) = Len(f) + 1 /\ \A i \in 1 .. Len(f) : q[i] = f[i]
  BY <1>1
<1>3. QED
  BY <1>1, <1>2, LongerIs

\* Of a oneof in which something is decoded, both names came.
LEMMA InOneOf ==
    ASSUME DecodeInv, Rooted, NEW p \in DOMAIN seen, Kind(seen[p]) = "tagged",
           NEW q \in DOMAIN seen, IsPrefix(p, q), q # p
    PROVE  {Append(p, "tag"), Append(p, "content")} \subseteq keys
<1>1. p \in Seq(Keys) /\ q \in Seq(Keys)
  BY DEF DecodeInv, DecodeTypeOK
<1>. PICK n \in Nat : n = Len(p)
  BY <1>1, LenProperties
<1>. PICK m \in Nat : m = Len(q)
  BY <1>1, LenProperties
<1>2. n <= m /\ SubSeq(q, 1, n) = p
  <2>1. SubSeq(p, 1, n) = p
    BY <1>1, PrefixIs
  <2>2. QED
    BY <2>1 DEF IsPrefix
<1>3. n # m
  BY <1>1, <1>2, PrefixIs
<1>4. \A i \in 1 .. n + 1 : q[i] \in Keys
  BY <1>1, <1>2, <1>3, ElementOfSeq
<1>5. PICK r \in DOMAIN seen : Len(r) = n + 1 /\ \A i \in 1 .. n : r[i] = p[i]
  <2>1. SubSeq(q, 1, n + 1) \in DOMAIN seen
    BY <1>2, <1>3 DEF Rooted
  <2>2. Len(SubSeq(q, 1, n + 1)) = n + 1
    BY <1>1, <1>4, SubSeqProperties
  <2>3. \A i \in 1 .. n : SubSeq(q, 1, n + 1)[i] = q[i]
    BY <1>1, <1>4
  <2>4. \A i \in 1 .. n : p[i] = q[i]
    <3>1. \A i \in 1 .. n : SubSeq(q, 1, n)[i] = q[i]
      BY <1>1, <1>4
    <3>2. QED
      BY <1>2, <3>1
  <2>5. QED
    BY <2>1, <2>2, <2>3, <2>4
<1>6. r \in Seq(Keys)
  BY <1>5 DEF DecodeInv, DecodeTypeOK
<1>7. r # <<>> /\ r = Append(p, Last(r)) /\ Front(r) = p
  BY <1>1, <1>5, <1>6, LongerIs
<1>8. Named(r)
  BY <1>7 DEF Rooted
<1>9. QED
  BY <1>7, <1>8 DEF Named

\* When the message is accepted, everything that is told is in it.
LEMMA MessageTold ==
    ASSUME DecodeInv, InPlace, Answers, Kept, pc = "accepted"
    PROVE  InMessage = Told
<1>. DEFINE halves == {p \in DOMAIN seen : /\ Kind(seen[p]) = "tagged"
                                           /\ ~({Append(p, "tag"), Append(p, "content")} \subseteq keys)}
<1>1. frames = <<>> /\ DOMAIN frames = {} /\ feed = <<>>
  <2>1. frames = <<>>
    BY DEF InPlace
  <2>2. Len(frames) = 0 /\ DOMAIN frames = {}
    BY <2>1, EmptySeq
  <2>3. ~unwinding
    BY DEF DecodeInv, Fed
  <2>4. QED
    BY <2>1, <2>2, <2>3 DEF DecodeInv, Fed, FedContent, FedMembers
<1>2. given = InMessage \union TagsRead \union Held
  BY <1>1 DEF Kept, Ledger, Feeding
<1>3. \A p : ~Replays(p)
  BY <1>1 DEF Replays, IsAt
<1>4. \A p \in DOMAIN oneofs : /\ p \in DOMAIN seen /\ Kind(seen[p]) = "tagged" /\ p \in Seq(Keys)
                               /\ OneOfAt(p) = oneofs[p] /\ Halves(p)
  BY DEF DecodeInv, FollowsSchema, OneOfsOK, DecodeTypeOK, OneOfAt, Kept, AllHalves
<1>5. \A p \in halves : \A q \in DOMAIN seen : q # p => ~IsPrefix(p, q)
  BY InOneOf DEF Kept
<1>6. {"tag", "content"} \subseteq Keys
  BY KeysHave
<1>7. \A p \in DOMAIN seen : p \in Seq(Keys)
  BY DEF DecodeInv, DecodeTypeOK
<1>8. ASSUME NEW q \in DOMAIN target, NEW p \in halves PROVE ~IsPrefix(p, q)
  <2>1. q \in Seq(Keys) /\ (IsScalar(q) \/ IsTag(q))
    BY DEF Kept, Targeted
  <2>2. CASE IsScalar(q)
    BY <1>5, <2>2 DEF IsScalar
  <2>3. CASE IsTag(q)
    <3>. PICK f : f = Front(q)
      OBVIOUS
    <3>1. /\ q # <<>> /\ Last(q) = "tag" /\ f \in DOMAIN oneofs /\ Append(f, "content") \in DOMAIN seen
      BY <2>3 DEF IsTag, Tagged
    <3>2. f \in DOMAIN seen /\ Kind(seen[f]) = "tagged" /\ f \in Seq(Keys)
      BY <1>4, <3>1
    <3>3. q \notin DOMAIN seen
      BY <3>1, <3>2 DEF Kept, Rooted, Named
    <3>4. SUFFICES ASSUME IsPrefix(p, q) PROVE FALSE
      OBVIOUS
    <3>5. IsPrefix(p, Append(f, "content"))
      <4>1. p # q /\ p \in Seq(Keys)
        BY <1>7, <3>3
      <4>2. q = Append(f, "tag")
        BY <1>6, <2>1, <3>1, AppendFront
      <4>3. QED
        BY <1>6, <3>2, <3>4, <4>1, <4>2, PrefixReplaced
    <3>6. Append(f, "content") # p
      <4>2. SUFFICES ASSUME p = Append(f, "content") PROVE FALSE
        OBVIOUS
      <4>3. Len(p) = Len(q) /\ p # q /\ p \in Seq(Keys)
        <5>1. q = Append(f, "tag")
          BY <1>6, <2>1, <3>1, AppendFront
        <5>2. QED
          BY <1>6, <1>7, <3>2, <3>3, <4>2, <5>1, FrontOfAppend
      <4>4. p = q
        BY <2>1, <3>4, <4>3, PrefixIs DEF IsPrefix
      <4>5. QED
        BY <4>3, <4>4
    <3>7. QED
      BY <1>5, <3>1, <3>5, <3>6
  <2>4. QED
    BY <2>1, <2>2, <2>3
<1>9. ASSUME NEW p \in DOMAIN oneofs, oneofs[p].tag # Stranger, p \notin halves
      PROVE  <<Append(p, "tag"), oneofs[p].tag>> \in InMessage
  <2>. PICK t : t = Append(p, "tag")
    OBVIOUS
  <2>1. t \in keys /\ Append(p, "content") \in keys
    BY <1>4, <1>9
  <2>2. t \in DOMAIN target
    BY <1>3, <1>4, <1>9, <2>1 DEF Halves
  <2>3. t # <<>> /\ Last(t) = "tag" /\ Front(t) = p
    BY <1>4, <1>6, FrontOfAppend
  <2>4. t \notin DOMAIN seen
    BY <1>4, <2>3 DEF Kept, Rooted, Named
  <2>5. IsTag(t)
    BY <2>2, <2>4 DEF Kept, Targeted, IsScalar
  <2>6. QED
    BY <2>2, <2>3, <2>5 DEF InMessage, IsTag
<1>10. ASSUME NEW p \in DOMAIN oneofs, NEW g \in HeldAt(p, oneofs[p].contents)
       PROVE  p \in halves /\ IsPrefix(p, g[1])
  <2>. PICK c : c = Append(p, "content")
    OBVIOUS
  <2>1. PICK i \in DOMAIN oneofs[p].contents : g \in Entries(c, c, oneofs[p].contents[i])
    BY <1>10 DEF HeldAt
  <2>2. oneofs[p].contents # <<>>
    BY <2>1, EmptySeq
  <2>3. p \in halves
    BY <1>3, <1>4, <2>2 DEF Halves, IsAt
  <2>4. g[1] = c \/ \E x : g[1] = Append(c, x)
    <3>1. PICK k, tokens, id : g = <<IF k = 1 THEN c ELSE Append(c, tokens[k - 1].token), id>>
      BY <2>1 DEF Entries
    <3>2. g[1] = IF k = 1 THEN c ELSE Append(c, tokens[k - 1].token)
      BY <3>1
    <3>3. QED
      BY <3>2
  <2>5. \A x : IsPrefix(p, c) /\ IsPrefix(p, Append(c, x))
    BY <1>4, PrefixOfAny
  <2>6. QED
    BY <2>3, <2>4, <2>5
<1>11. Told = {g \in given : \A p \in halves : ~IsPrefix(p, g[1])}
  BY DEF Told
<1>. HIDE DEF halves
<1>12. ASSUME NEW g \in InMessage PROVE g \in Told
  BY <1>2, <1>8, <1>11 DEF InMessage
<1>13. ASSUME NEW g \in Told PROVE g \in InMessage
  <2>1. g \in given /\ \A p \in halves : ~IsPrefix(p, g[1])
    BY <1>11
  <2>2. CASE g \in TagsRead
    <3>1. PICK p \in DOMAIN oneofs : oneofs[p].tag # Stranger /\ g = <<Append(p, "tag"), oneofs[p].tag>>
      BY <2>2 DEF TagsRead
    <3>2. IsPrefix(p, Append(p, "tag"))
      BY <1>4, PrefixOfAny
    <3>3. p \notin halves
      BY <2>1, <3>1, <3>2
    <3>4. QED
      BY <1>9, <3>1, <3>3
  <2>3. g \notin Held
    <3>. SUFFICES ASSUME g \in Held PROVE FALSE
      OBVIOUS
    <3>1. PICK p \in DOMAIN oneofs : g \in HeldAt(p, oneofs[p].contents)
      BY DEF Held
    <3>2. QED
      BY <1>10, <2>1, <3>1
  <2>4. QED
    BY <1>2, <2>1, <2>2, <2>3
<1>14. QED
  BY <1>12, <1>13

\* What the invariant says of the answer.
LEMMA AnswerIs == DecodeInv /\ GivenInv => AcceptsTheDocument
<1>. SUFFICES ASSUME DecodeInv, GivenInv PROVE AcceptsTheDocument
  OBVIOUS
<1>1. wrong \in Nat /\ Len(errors) \in Nat
  BY LenProperties DEF DecodeInv, DecodeTypeOK
<1>2. ASSUME pc = "accepted" PROVE ~broken /\ {<<p, target[p]>> : p \in DOMAIN target} = Told
  <2>1. wrong = 0 /\ Kept /\ InPlace /\ Answers
    BY <1>2 DEF GivenInv, Answers
  <2>2. ~broken
    BY <2>1 DEF Answers
  <2>3. QED
    BY <1>2, <2>1, <2>2, MessageTold DEF InMessage
<1>3. pc = "rejected" => wrong > 0 \/ Missing
  BY DEF GivenInv, Answers
<1>4. ASSUME pc = "failed" PROVE wrong > 0
  <2>1. CASE broken \/ unwinding
    BY <2>1 DEF GivenInv, Answers
  <2>2. CASE ~broken /\ ~unwinding
    <3>1. wrong = Len(errors) + 1
      BY <1>4, <2>2 DEF DecodeInv, Collected, Leaving
    <3>2. QED
      BY <1>1, <3>1
  <2>3. QED
    BY <2>1, <2>2
<1>5. QED
  BY <1>2, <1>3, <1>4 DEF AcceptsTheDocument

\* validate_http accepts a message only if it holds exactly the scalars that
\* the document gave, at their places; a document is rejected, or fails, only
\* if something in it is wrong or missing: for every schema and document.
THEOREM DecodeAccepts == DecodeSpec => []AcceptsTheDocument
<1>1. DecodeInit => DecodeInv /\ GivenInv
  BY DecodeInitInv, GivenInit
<1>2. DecodeInv /\ GivenInv /\ [DecodeNext]_decodeVars => (DecodeInv /\ GivenInv)'
  BY DecodeNextInv, GivenNext
<1>3. DecodeInv /\ GivenInv => AcceptsTheDocument
  BY AnswerIs
<1>4. QED
  BY <1>1, <1>2, <1>3, PTL DEF DecodeSpec
=============================================================================
