----------------------------- MODULE HttpServer -----------------------------
(***************************************************************************)
(* crates/http: HttpServer::run with its hyper (TCP) and h3 (QUIC)         *)
(* backends.  Each backend makes a child of the server's context, spawns   *)
(* workers that accept connections on one socket, joins the workers, and   *)
(* shuts the child handler down, which waits for the contexts that         *)
(* connections and requests hold.                                          *)
(*                                                                         *)
(* The server's handler Root and the child handlers are Graceful, the      *)
(* promise that Context implements.  A child made after Root is cancelled  *)
(* is born cancelled: done holds every backend as soon as it holds Root.   *)
(***************************************************************************)
EXTENDS Integers, FiniteSets

CONSTANTS
    Backends,     \* the backends HttpServer::run starts, each with a child handler
    WorkerTasks,  \* worker_tasks of each backend
    Conns,        \* connections that clients may make (a bound)
    MaxFaults,    \* bound on the workers that fail or panic
    Root,         \* the handler of the server's context
    Owner,        \* the call of shutdown on it
    NoHandler

ASSUME HttpAssumption ==
    /\ Backends \subseteq {"hyper", "h3"} /\ Backends # {}
    /\ WorkerTasks \in [Backends -> Nat] /\ MaxFaults \in Nat
    /\ Root \notin Backends /\ Owner \notin Backends /\ NoHandler \notin Backends \union {Root}

VARIABLES
    held, done, phase, request, owed,  \* the handlers, as in Graceful
    run,      \* run[b]: progress of backend b's run
    result,   \* result[b]: what it returns, or how else it ends
    worker,   \* worker[w]: state of a worker task
    conn,     \* conn[c]: state of a connection
    via,      \* via[c]: the backend, then the worker c came to
    reqs      \* reqs[c]: the request of an h3 connection (one each, a bound): awaited by the
              \* task of the connection ("resolving"), then a task of its own ("running")

handlers == <<held, done, phase, request, owed>>
tasks == <<worker, conn, via, reqs>>
vars == <<handlers, run, result, tasks>>

Workers == UNION {{b} \X (1 .. WorkerTasks[b]) : b \in Backends}
WorkersOf(b) == {w \in Workers : w[1] = b}

\* who holds a context: run holds the server's context and worker_ctx
ServerCtx(b)  == <<"server", b>>
WorkerCtx(b)  == <<"worker_ctx", b>>
ConnCtx(c)    == <<"conn", c>>
RequestCtx(c) == <<"request", c>>
Holders == {ServerCtx(b) : b \in Backends} \union {WorkerCtx(b) : b \in Backends}
             \union Workers
             \union {ConnCtx(c) : c \in Conns} \union {RequestCtx(c) : c \in Conns}

Global == INSTANCE Graceful WITH
    Handlers <- {Root} \union Backends, Contexts <- Holders, Callers <- {Owner} \union Backends

NoWorker == <<"none", 0>>
Over   == {"ok", "err", "panic"}
Phases == {"new", "bind", "spawn", "join", "close", "shutdown", "unwind", "free", "end", "returned"}

Init ==
    /\ Global!Init
    /\ run = [b \in Backends |-> "new"]
    /\ result = [b \in Backends |-> "none"]
    /\ worker = [w \in Workers |-> "new"]
    /\ conn = [c \in Conns |-> "outside"]
    /\ via = [c \in Conns |-> NoWorker]
    /\ reqs = [c \in Conns |-> "none"]

Goto(b, label) == run' = [run EXCEPT ![b] = label]
Result(b, r)   == result' = [result EXCEPT ![b] = r]
-----------------------------------------------------------------------------
(* run of a backend *)

\* HttpServer::run gives each backend the server's context, or a clone of it
Build(b) ==
    /\ run[b] = "new"
    /\ Goto(b, "bind")
    /\ UNCHANGED done /\ Global!Open(ServerCtx(b), Root)
    /\ UNCHANGED <<result, tasks>>

\* select polls the two runs in one task, hyper first: one moves while the other
\* awaits, and no more once the other has returned
Polled(b) == \A a \in Backends \ {b} :
    run[a] \in {"join", "shutdown"} \/ (a = "h3" /\ run[a] = "bind")

\* bind, then ctx.new_child()
Bind(b) ==
    /\ run[b] = "bind"
    /\ Goto(b, "spawn")
    /\ UNCHANGED done /\ Global!Open(WorkerCtx(b), b)
    /\ UNCHANGED <<result, tasks>>

BindFails(b) ==
    /\ run[b] = "bind"
    /\ Goto(b, "end") /\ Result(b, "failed")
    /\ UNCHANGED <<handlers, tasks>>

Spawn(w) ==
    /\ run[w[1]] = "spawn" /\ worker[w] = "new"
    /\ \A v \in WorkersOf(w[1]) : v[2] < w[2] => worker[v] # "new"
    /\ worker' = [worker EXCEPT ![w] = "accepting"]
    /\ UNCHANGED done /\ Global!Open(w, w[1])
    /\ UNCHANGED <<run, result, conn, via, reqs>>

\* a clone of the socket fails: run returns, workers spawned before are detached
SpawnFails(b) ==
    /\ run[b] = "spawn" /\ \E w \in WorkersOf(b) : worker[w] = "new"
    /\ Goto(b, "unwind") /\ Result(b, "failed")
    /\ UNCHANGED <<handlers, tasks>>

Spawned(b) ==
    /\ run[b] = "spawn" /\ \A w \in WorkersOf(b) : worker[w] # "new"
    /\ Goto(b, "join")
    /\ UNCHANGED <<handlers, result, tasks>>

Ended(b, how) == \E w \in WorkersOf(b) : worker[w] = how
AllEnded(b)   == \A w \in WorkersOf(b) : worker[w] \in Over

\* try_join_all over the JoinHandles ends early only for a task that panicked: an
\* error that a worker returned is a success to it
JoinEnds(b) == AllEnded(b) \/ Ended(b, "panic")

\* only hyper looks at what the workers returned
JoinResult(b) ==
    IF b = "hyper" /\ Ended(b, "err") /\ ~Ended(b, "panic") THEN "err" ELSE "ok"

Joined(b) ==
    /\ run[b] = "join" /\ JoinEnds(b)
    /\ Result(b, JoinResult(b))
    /\ Goto(b, "close")
    /\ UNCHANGED <<handlers, tasks>>

\* slip: worker_ctx lives to the end of run
CloseWorkerCtx_Kept(b) ==
    /\ run[b] = "close"
    /\ Goto(b, "shutdown")
    /\ UNCHANGED <<handlers, result, tasks>>

\* drop(worker_ctx)
CloseWorkerCtx(b) ==
    /\ run[b] = "close"
    /\ Goto(b, "shutdown")
    /\ Global!Close(WorkerCtx(b))
    /\ UNCHANGED <<result, tasks>>

\* worker_handler.shutdown().await
CallShutdown(b) ==
    /\ run[b] = "shutdown"
    /\ Global!Call(b, "shutdown", b)
    /\ UNCHANGED <<run, result, tasks>>

CancelWorkers(b) ==
    /\ run[b] = "shutdown" /\ phase[b] = "waiting" /\ b \notin done
    /\ done' = done \union {b} /\ UNCHANGED phase /\ Global!Cancel
    /\ UNCHANGED <<run, result, tasks>>

ShutdownReturns(b) ==
    /\ run[b] = "shutdown"
    /\ Global!Return(b)
    /\ Goto(b, "unwind")
    /\ UNCHANGED <<result, tasks>>

\* slip: worker_handler is only a clone, so its drop cancels nothing
DropHandler_Clone(b) ==
    /\ run[b] = "unwind"
    /\ Goto(b, IF held[WorkerCtx(b)] = b THEN "free" ELSE "end")
    /\ UNCHANGED <<handlers, result, tasks>>

\* the locals of run go: worker_handler (which cancels), worker_ctx, self.ctx
DropHandler(b) ==
    /\ run[b] = "unwind"
    /\ Goto(b, IF held[WorkerCtx(b)] = b THEN "free" ELSE "end")
    /\ done' = done \union {b} /\ UNCHANGED phase /\ Global!Cancel
    /\ UNCHANGED <<result, tasks>>

DropWorkerCtx(b) ==
    /\ run[b] = "free"
    /\ Goto(b, "end")
    /\ Global!Close(WorkerCtx(b))
    /\ UNCHANGED <<result, tasks>>

End(b) ==
    /\ run[b] = "end"
    /\ Goto(b, "returned")
    /\ Global!Close(ServerCtx(b))
    /\ UNCHANGED <<result, tasks>>

\* select of HttpServer::run: one backend has returned, the future of the other is
\* dropped where it awaits; its JoinHandles go with it and detach the workers
DropRun(b) ==
    /\ \E a \in Backends : run[a] = "returned"
    /\ run[b] \in {"bind", "join", "shutdown"}
    /\ Goto(b, IF run[b] = "bind" THEN "end" ELSE "unwind")
    /\ Result(b, "dropped")
    /\ IF phase[b] = "waiting" THEN Global!Abandon(b) ELSE UNCHANGED handlers
    /\ UNCHANGED tasks

RunStep(b) ==
    \/ Build(b) \/ DropRun(b) \/ DropHandler(b) \/ DropWorkerCtx(b) \/ End(b)
    \/ /\ Polled(b)
       /\ \/ Bind(b) \/ Spawned(b) \/ Joined(b) \/ CloseWorkerCtx(b)
          \/ CallShutdown(b) \/ CancelWorkers(b) \/ ShutdownReturns(b)
          \/ \E w \in WorkersOf(b) : Spawn(w)

RunFails(b) == Polled(b) /\ (BindFails(b) \/ SpawnFails(b))
-----------------------------------------------------------------------------
(* the owner of the server's handler *)

OwnerShutdown ==
    /\ \A b \in Backends : run[b] # "new"
    /\ Global!Call(Owner, "shutdown", Root)
    /\ UNCHANGED <<run, result, tasks>>

OwnerCancels ==
    /\ phase[Owner] = "waiting" /\ Root \notin done
    /\ done' = {Root} \union Backends /\ UNCHANGED phase /\ Global!Cancel
    /\ UNCHANGED <<run, result, tasks>>

OwnerReturns ==
    /\ Global!Return(Owner)
    /\ UNCHANGED <<run, result, tasks>>
-----------------------------------------------------------------------------
(* workers *)

\* connections that accept would give worker w
Waiting(w) == {c \in Conns : conn[c] = "waiting" /\ via[c][1] = w[1]}

\* a connection that is ready wins over a done context
Accept(w, c) ==
    /\ worker[w] = "accepting" /\ c \in Waiting(w)
    /\ conn' = [conn EXCEPT ![c] = "setup"]
    /\ via' = [via EXCEPT ![c] = w]
    /\ UNCHANGED done /\ Global!Open(ConnCtx(c), w[1])
    /\ UNCHANGED <<run, result, worker, reqs>>

EndWorker(w, how) ==
    /\ worker' = [worker EXCEPT ![w] = how]
    /\ Global!Close(w)

Idle(w) ==
    /\ worker' = [worker EXCEPT ![w] = "idle"]
    /\ UNCHANGED handlers

\* a connection may wait in the kernel and accept be pending; h3 goes on to wait_idle
StopAccepting(w) ==
    /\ worker[w] = "accepting" /\ w[1] \in done
    /\ IF w[1] = "h3" THEN Idle(w) ELSE EndWorker(w, "ok")
    /\ UNCHANGED <<run, result, conn, via, reqs>>

\* all connections of the worker's own endpoint are closed: by their tasks, or by
\* the peers, which the tasks may notice later
WaitIdle(w) ==
    /\ worker[w] = "idle"
    /\ EndWorker(w, "ok")
    /\ UNCHANGED <<run, result, conn, via, reqs>>

Faults == Cardinality({w \in Workers : worker[w] \in {"err", "panic"}})

\* a fatal accept error, or no endpoint can be made
WorkerFails(w) ==
    /\ Faults < MaxFaults
    /\ worker[w] = "accepting"
    /\ w[1] = "h3" => \A c \in Conns : via[c] # w
    /\ EndWorker(w, "err")
    /\ UNCHANGED <<run, result, conn, via, reqs>>

\* accept returns None: the endpoint's driver is gone
EndpointLost(w) ==
    /\ worker[w] = "accepting" /\ w[1] = "h3"
    /\ Idle(w)
    /\ UNCHANGED <<run, result, conn, via, reqs>>

\* the clone of the user's service factory may panic
WorkerPanics(w) ==
    /\ Faults < MaxFaults
    /\ worker[w] = "accepting"
    /\ EndWorker(w, "panic")
    /\ UNCHANGED <<run, result, conn, via, reqs>>

TasksOver(w) == \A c \in Conns : via[c] = w => conn[c] = "over" /\ reqs[c] # "running"
-----------------------------------------------------------------------------
(* connections and requests *)

\* the socket is open while run or a worker has a clone of it
Listening(b) == \/ run[b] \notin {"new", "bind", "returned"}
                \/ \E w \in WorkersOf(b) : worker[w] \in {"accepting", "idle"}

Arrive(c, b) ==
    /\ conn[c] = "outside" /\ Listening(b)
    /\ conn' = [conn EXCEPT ![c] = "waiting"]
    /\ via' = [via EXCEPT ![c] = <<b, 0>>]
    /\ UNCHANGED <<handlers, run, result, worker, reqs>>

\* the handshake and new_service succeed
Established(c) ==
    /\ conn[c] = "setup"
    /\ conn' = [conn EXCEPT ![c] = "serving"]
    /\ UNCHANGED <<handlers, run, result, worker, via, reqs>>

\* the peer closes, the handshake or new_service fails, or the context is done; while
\* it awaits a request, the task looks at neither
EndConn(c) ==
    /\ conn[c] \in {"setup", "serving"} /\ reqs[c] # "resolving"
    /\ conn' = [conn EXCEPT ![c] = "over"]
    /\ Global!Close(ConnCtx(c))
    /\ UNCHANGED <<run, result, worker, via, reqs>>

\* h3 only: a hyper request is part of the future of its connection.  The peer has
\* opened a stream, which wins over a done context
AcceptStream(c) ==
    /\ conn[c] = "serving" /\ via[c][1] = "h3" /\ reqs[c] = "none"
    /\ reqs' = [reqs EXCEPT ![c] = "resolving"]
    /\ UNCHANGED <<handlers, run, result, worker, conn, via>>

\* slip: ctx is not moved into the task of the request
StartRequest_NoContext(c) ==
    /\ conn[c] = "serving" /\ reqs[c] = "resolving"
    /\ reqs' = [reqs EXCEPT ![c] = "running"]
    /\ UNCHANGED <<handlers, run, result, worker, conn, via>>

\* the headers are there: resolve_request returns
StartRequest(c) ==
    /\ conn[c] = "serving" /\ reqs[c] = "resolving"
    /\ reqs' = [reqs EXCEPT ![c] = "running"]
    /\ UNCHANGED done /\ Global!Open(RequestCtx(c), via[c][1])
    /\ UNCHANGED <<run, result, worker, conn, via>>

\* the headers are not those of a request, or the connection is gone
ResolveFails(c) ==
    /\ reqs[c] = "resolving"
    /\ reqs' = [reqs EXCEPT ![c] = "over"]
    /\ UNCHANGED <<handlers, run, result, worker, conn, via>>

EndRequest(c) ==
    /\ reqs[c] = "running"
    /\ reqs' = [reqs EXCEPT ![c] = "over"]
    /\ Global!Close(RequestCtx(c))
    /\ UNCHANGED <<run, result, worker, conn, via>>

Next ==
    \/ \E b \in Backends : RunStep(b) \/ RunFails(b)
    \/ OwnerShutdown \/ OwnerCancels \/ OwnerReturns
    \/ \E w \in Workers : \/ StopAccepting(w) \/ WaitIdle(w) \/ \E c \in Conns : Accept(w, c)
                            \/ WorkerFails(w) \/ EndpointLost(w) \/ WorkerPanics(w)
    \/ \E c \in Conns, b \in Backends : Arrive(c, b)
    \/ \E c \in Conns : \/ Established(c) \/ EndConn(c) \/ AcceptStream(c)
                         \/ StartRequest(c) \/ ResolveFails(c) \/ EndRequest(c)

Spec == Init /\ [][Next]_vars

\* tasks are scheduled; an endpoint whose tasks are over gets idle; a connection that awaits
\* no request ends when its context is done (with_context, and new_service returns)
Fairness ==
    /\ \A b \in Backends : WF_vars(RunStep(b))
    /\ WF_vars(OwnerCancels) /\ WF_vars(OwnerReturns)
    /\ \A w \in Workers : WF_vars(StopAccepting(w)) /\ WF_vars(TasksOver(w) /\ WaitIdle(w))
    /\ \A c \in Conns : WF_vars(via[c][1] \in done /\ EndConn(c))

FairSpec == Spec /\ Fairness
-----------------------------------------------------------------------------
\* no task of backend b runs any more
Drained(b) ==
    /\ \A w \in WorkersOf(b) : worker[w] \in {"new"} \union Over
    /\ \A c \in Conns : via[c][1] = b => conn[c] \in {"waiting", "over"} /\ reqs[c] # "running"

(* When run of a backend is past its shutdown, no worker, connection or      *)
(* request of it runs any more, whatever made the workers stop.              *)
RunDrains ==
    \A b \in Backends :
        (result[b] \in {"ok", "err"} /\ run[b] \in {"unwind", "free", "end", "returned"})
            => Drained(b)

(* The owner's shutdown, which knows nothing of the child handlers, returns  *)
(* only after every backend that ran to its end has drained.                 *)
OwnerDrains ==
    phase[Owner] = "returned" =>
        \A b \in Backends : result[b] \in {"ok", "err"} => Drained(b)

\* What the code does not see to: a peer that opened a stream sends its headers or goes
\* away, as resolve_request is awaited without the context, and requests come to an end,
\* which is up to services and peers.
RequestsGoOn == \A c \in Conns : []<>(reqs[c] \in {"none", "over"})

(* If requests go on, then once the server's context is cancelled every      *)
(* backend's run ends and the owner's shutdown returns.                      *)
ShutdownEnds ==
    RequestsGoOn =>
        (Root \in done ~> phase[Owner] = "returned" /\ \A b \in Backends : run[b] = "returned")

(* If requests go on, then what is left of a run that select dropped, for    *)
(* which nobody waits, comes to an end too, without a shutdown of the server. *)
DroppedDrains ==
    RequestsGoOn => \A b \in Backends : result[b] = "dropped" ~> Drained(b)
=============================================================================
