# A TLA+ development of scuffle

Scuffle is a workspace of Rust crates for video streaming services. This directory holds TLA+ modules that
model the parts of it that run concurrently and the sequential parts whose state is hard to get right,
configurations with which TLC checks them on small instances, and proofs, checked by TLAPS, of the
properties that matter most for every instance.

`PROJECT.json` is the index: the components, the runs with their properties, the lines of the code each
definition stands for (`map`), one plausible slip of the code per property that the run catches (`mutants`),
the disagreements between code and documentation that came up (`findings`), the places in the code that are hard
to test (`hazards`) and the theorems.

Contents: [inventory](#inventory) · [modules and code](#modules-and-code) · [runs](#runs) ·
[fairness](#fairness) · [proofs](#proofs) · [findings](#findings-and-observations) ·
[what is not modelled](#what-is-not-modelled) · [plan](#plan)

## Inventory

### The parts with a core of their own

**scuffle-context** (`src/crates/context`). A `Handler` owns a cancellation token and a `ContextTracker`: a
`stopped` flag, `active_count` and a tokio `Notify`. A `Context` is a counted reference to the tracker with a
clone of the token. *Operations*: `Handler::{new, context, new_child, clone, drop, cancel, shutdown, done,
wait}`, `Context::{clone, new_child, drop}`. Any thread may run any of them; they communicate only through
atomics and `Notify`. *Hard*: a drop is two atomic steps; `wait` creates a `Notified` future, loads the count
and only then awaits; cancelling a handler reaches the tokens of its children but not their trackers; all
atomics are `Relaxed`. *Correct if*: the count is exact, cancellation reaches the whole subtree, a
context never outlives everybody who could cancel it, `shutdown` never returns while a context it has to wait
for is alive, and always returns once they are gone.

**scuffle-batching** (`src/crates/batching`). `Batcher` and `DataLoader` keep one *current batch* behind an
async mutex. Calls add their requests (keys) to it and spawn it when it is full; `batch_loop`, a task with a
sleep, spawns it when its delay has passed; a spawned batch waits for a permit of a semaphore and calls the user's
executor. A `Batcher` call owns a oneshot channel per request; a `DataLoader` call keeps a list of waiters, one per
batch its keys are in, and shares the result of a batch with other calls. *Hard*: a call spans several batches and
shares them with others; callers drop their futures; the timer sleeps before the batch it will flush exists; the
executor panics or answers only some requests. *Correct if*: every request is in exactly one batch within the
bounds, no batch is overdue, every call gets precisely the answers to its own requests and always returns.

**scuffle-bootstrap** (`src/crates/bootstrap`). `main!` generates a `main` that runs `pre_init`, the config, `init`,
spawns the services that are enabled, waits for them with `select_all`, and calls the hooks `on_services_start`,
`on_service_exit` and `on_exit` of `Global`. *Hard*: services start while later ones are still being asked whether
they are enabled; each hook may fail; a task may panic; dropping a `JoinHandle` does not stop its task. *Correct
if*: `on_exit` gets `Ok` only when every service is over without an error, contexts and tasks agree, and a failure
ends the process.

**scuffle-signal** (`src/crates/signal`). `SignalSvc` is a service that waits for a signal, drops its own
context, shuts the global handler down and forces the end on a second signal or a timeout. *Hard*: the signal, the
second signal, the end of the shutdown and the timeout race; the service must not keep what it waits for.

**scuffle-http** (`src/crates/http`). `HttpServer::run` runs a TCP backend (hyper) and a QUIC backend (h3) under one
`select`. Each backend makes a child handler of the server's context, spawns `worker_tasks` workers that accept
connections, each with a context of its own, and when the workers are joined shuts the child handler down. *Hard*: a
worker fails or panics while the others run; the runs share a context and are dropped at an await; connections and
requests are accepted while the context is being cancelled. *Correct if*: a run that finishes has drained its tasks,
the server's owner waits for all of it, and cancellation ends everything.

**scuffle-rtmp** (`src/crates/rtmp`). `ServerSession` reads a byte stream through the handshake and the
`ChunkReader`, which reassembles messages that are interleaved in chunks, handles protocol control messages and
commands, and writes through the `ChunkWriter`. State: handshake state, acknowledgement window, byte count, chunk
sizes, partial messages, previous headers, publishing streams. *Hard*: bytes arrive in any pieces; sizes change
between chunks of a message; limits; counters that wrap. *Correct if*: what a peer sends is what the handler is
given, in any fragmentation; neither side waits for the other; memory is limited whatever the peer sends; acknowledgements
come when the peer needs them, and the result tells whether its streams were deleted.

**scuffle-ffmpeg's ChannelCompat** (`src/crates/ffmpeg/src/io/channel.rs`) makes a byte stream of a channel of
messages, for FFmpeg's callbacks: `write` sends a message, `read` waits for one, goes on while `try_channel_recv`
finds more, and keeps the rest of the last in `buffer`. *Hard*: clones share the channel but not the buffer; a
read of 0 ends FFmpeg's input for good; channels are bounded, unbounded or broadcast, whose receivers may be
overrun. *Correct if*: bytes come in order, none is lost without notice, and a read of 0 is the end.

**scuffle-transmuxer and the movie fragments of scuffle-mp4** (`src/crates/transmuxer`,
`src/crates/mp4/src/boxes/types`). FLV tags are queued; `mux` makes one initial segment, when the sequence headers
are there or it gives up waiting, and then one fragment for each frame. `Traf::optimize` moves what samples have in
common to the header. State: the queue, the settings, both durations, the sequence number and the last video
timestamp. *Hard*: headers come early, late, twice or broken; millisecond timestamps become whole frames; sizes go by
flags, bytes by fields. *Correct if*: each frame goes out once, in order and without a gap, says what its tag said,
and keeps its time.

**scuffle-bytes-util and scuffle-expgolomb** (`src/crates/bytes-util`, `src/crates/expgolomb`). `BitWriter` and
`BitReader` work at any bit of a byte, numbers may be Exp-Golomb codes, and `EmulationPreventionIo` hides start codes
of H.264 and H.265. *Hard*: bytes that cross byte borders, seeks by negative numbers of bits, errors half-way, zeros
counted alike on both sides. *Correct if*: what is read is what was written, wherever the reader is, and no start
code is in the stream.

**tinc's decoding of requests** (`src/crates/tinc/src/private`, with the code that `src/crates/tinc/build/src/codegen/serde.rs`
generates). Visitors for serde decode JSON into a message and record in trackers what was given; `report_de_error` and
`report_tracked_error` collect errors with their paths in a thread-local state, so that a request is answered with all of
them; `validate_http` refuses it if there are any or something required is missing. *Hard*: decoding goes on
behind an error, where the parser may have stopped half-way; an error passes the visitors around it; the content of a tagged
oneof may come before the tag that says what it is; members come twice. *Correct if*: only what the document says is accepted, and
each error is reported once, under its own path.

### The rest

Parsers and writers of data formats (amf0, flv, mp4, aac, av1, h264, h265), type adapters (http bodies and services,
openapiv3_1, nutype_enum), glue to libraries that keep the state themselves (metrics, pprof, bootstrap-telemetry,
settings, the FFI of ffmpeg), code generators (the compiler of tinc, derive macros), build tools and documents. They are listed in
`PROJECT.json` with the reason why each is left out: they are sequential and without states of their own,
or I/O.

### How the parts interact

`Context` is what everything else waits on: `main!` gives each service a context of the global handler,
`SignalSvc` shuts that handler down, `HttpServer` makes children of a context for its workers, and an RTMP session
takes a context to ask its peer to reconnect. So the promise of `Context` is a module of its own, `Graceful`; `Context`
implements it (checked and proved) and `SignalSvc`, `Bootstrap` and `HttpServer` are composed with the promise and
not with the counter and the flag. `Batcher`, `DataLoader`, the RTMP session, `ChannelCompat` and `TrackedDecode` stand alone;
`Transmuxer` uses the boxes of `Traf`, and the symbols of `BitStream` go through `EmulationPrevention` or not.

```
            Graceful  <---- implements ---- Context          BatchContract <-- implements -- Batcher
            ^      ^
   INSTANCE |      | INSTANCE                                DataLoader
      SignalSvc   HttpServer
            ^                          RtmpChunks
    EXTENDS |                               ^
        Bootstrap                           | EXTENDS
                                       RtmpSession

     Traf <-- EXTENDS -- Transmuxer    EmulationPrevention <-- EXTENDS -- BitStream    ChannelCompat    TrackedDecode
```

## Modules and code

**Graceful** — the promise. `held` says which handler an open context counts for, `done` which handlers are
cancelled, `owed[w]` what call `w` still waits for: the contexts open when it began and those opened since while any
of them was left. Once it is empty it stays so: the handler has had a moment without contexts, and the call may
return. `Cancel` lets `done` grow in any way, since how cancellation spreads is the business of who uses it.

**Context** — `src/crates/context/src/lib.rs`, one action per atomic operation. `active`, `stopped` and `notified`
are the tracker; `cancelled` and `above` the tokens; `handles` the clones that share a `TokenDropGuard`;
`cstate`/`cnode` the contexts, with `"dropping"` between `fetch_sub` and the rest of `ContextTracker::drop`; `pc` of a
call passes `stop`, `cancel`, `token`, `arm`, `check`, `await`, `parked` as `shutdown`, `done` and `wait` do.
`Handler::new_child` is `context`, `new_child` and a drop. Two constants name what the hardware and the callers
may do: `RelaxedReorder`, whether the load of `stopped` in a drop may be satisfied before its own decrement, and
`ReuseWhileDropping`, whether `Handler::context` may come between the two steps of the drop that emptied
the count.

**BatchContract** — what a batcher promises: each accepted request runs once, in a batch within the bounds, and a
call returns when all its requests are settled.

**Batcher** — `src/crates/batching/src/batch.rs`. `lock` and `cur` are the mutex and `current_batch`; `pc` and `next`
follow the two loops of `execute_many`; `left` and `age` are the sleep of `batch_loop` and `created_at`, in ticks;
`queued`, `running`, `finished` are spawned batches before, with and after their permit; `reply` the oneshot
channels. Since the mutex is held without an await, `batch_loop`'s body is one step. The timer may run late: `Tick` goes
on while it is due. `age` stops at `Delay`, from where on it makes no difference.

**DataLoader** — `src/crates/batching/src/dataloader.rs`. `batches` is every batch ever made, with its keys, its
progress and the contents of its `OnceCell`; `waiters`, `newBatch` and `results` are the locals of `load_many`. The
order in which `spawn`'s locals go (permit, then the guard that cancels the token) is kept. `batch_loop` is the loop
of `Batcher`, so its clock is not repeated: `Flush` comes at any time.

**SignalSvc** — `src/crates/signal`: `Listen` is the first poll of `run`, which installs the handlers; `pending` the signals
delivered and not received; `sig` the progress through `recv`, `on_shutdown`, the `select` and `on_force_shutdown`.
Signals before `Listen` meet the default disposition of the process and are not modelled.

**Bootstrap** — `src/crates/bootstrap/derive/src/main_impl.rs` with the traits of `src/crates/bootstrap`: `pc` is the progress
of `main`, `item` the macro item it spawns next, `remaining` the handles `select_all` has, `leaving` the arguments of
`on_service_exit`. A service is a task: `state` tells spawned from running, because a signal may come between.
Three variables that never change say what the user supplied: `timeout`, whether hooks are `overridden` (then they
return anything), and which services are `stubborn`, i.e. may ignore a done context.

**HttpServer** — `src/crates/http/src/server.rs` and the two backends. `run[b]` passes `bind`, `spawn`, `join`, `close`
(drop of `worker_ctx`), `shutdown`, `unwind`, `free`, `end` (the locals go in reverse order); `worker`, `conn` and `reqs`
are the tasks, each with a context; `via` says where a connection came to. `DropRun` is what `select` does to the backend
that has not finished. hyper's own tasks for upgrades and HTTP/2 hold no context and belong to their connection here; the
temporary clone that `accept` makes of a context is covered by the one that stays; accept errors that are not fatal
change nothing. A request of h3 is first awaited by the task of its connection (`AcceptStream`, `reqs[c]` = `"resolving"`), which until
then looks at nothing else, and then has a task of its own (`StartRequest`).

**RtmpChunks** — `src/crates/rtmp/src/chunk`. The stream is a sequence of *units* in place of bytes: one for the header of a
chunk (its bytes are decoded together or not at all) and one for each piece of payload. `wire` is what the reader has not split
off yet, of which the first `have` units are in `read_buf`; `prev` and `partial` are the two maps of `ChunkReader`. `TakeChunk`
is one turn of the loop of `read_chunk` for the header the buffer starts with: what it refuses, what it stores and when. The
coding of chunk stream ids and of extended timestamps is abstracted, the arithmetic on timestamps and lengths is not: `Overflows`
names where a build that checks overflows panics, the formulas around it what other builds compute.

**RtmpSession** — `src/crates/rtmp/src/session/server`: `run` as one task, with `pc` at `hello` and `echo` (the steps of
`drive_handshake`, `greet` between them), `drive`, `read`, `parse` (`process_chunks`), `flush`, `ended`. Between an await and the
next nothing else touches the session, so a read, a chunk and a flush are one action each. `owed` is what `write_buf` holds;
what is in it matters only to tell whether anything is. `Parse` is one chunk; a message that it completes is handled in
the same step. A handler may refuse any message given to it (`Rejects`, `TakenForGone`).
The client is external, of one of two sorts. A *polite* one splits messages as the specification of RTMP asks, interleaves chunk
streams, picks any header format that fits, and changes its chunk size; it never sends `Abort`, and starts a message with a
type 3 header only if its timestamp is that of the last. One that is not polite sends units of junk, each of which the reader may
take for any header of `reads` or for payload. A `calm` client stays, and the context is not done: sessions end by time-outs only.

**ChannelCompat** — `src/crates/ffmpeg/src/io/channel.rs`. `kind` is the sort of channel, `queue` what is in it,
`overrun` which receivers of a broadcast channel have missed messages; `mutex` is the lock around it, `buffer` the rest
each clone keeps. A read is `ReadBuffered`, or `Lock`, `Receive`, any number of `TryReceive` and `Return`; in between,
writers write and other readers wait. A byte is told by its message and its place in it, so that order and loss show.

**Traf** — the boxes of a fragment, `src/crates/mp4/src/boxes/types/{traf, tfhd, trun, moof}.rs`: a box is a record of the
fields it has (`Some`) and of its flags, which `new`, `optimize`, `validate`, `primitive_size` and `primitive_mux` go by,
each in its own way. `Effective` is what a player finds for a sample: its own field or the default.

**Transmuxer** — `src/crates/transmuxer/src/lib.rs`: `tags`, `settings`, `seq`, `end`, `last` are the fields of
`Transmuxer`. One call of `mux` is one step, in the cases of the code: no initial segment yet (`MuxWaits`,
`MuxInitFails`, `MuxInit`), a frame (`MuxMedia`), nothing to do (`MuxNothing`). Tags are records of what `mux` looks at. Frame rates, which the
code has in f64, are whole numbers; its casts to u32 and i32, which stay at the largest number of the type, are `Cast`.

**EmulationPrevention**, **BitStream** — `src/crates/bytes-util/src/{nal_emulation_prevention, bit_write, bit_read}.rs`
and `src/crates/expgolomb/src/lib.rs`. `stream` is the inner writer and later the inner reader; `wzeros`, `rzeros` the
two counts of zeros; `wpos`, `wbyte`, `rpos`, `rbyte` are `bit_pos` and `current_byte` of either side. A symbol is
written bit by bit (`WriteBit`) or byte by byte (`WriteByte`), and read likewise. A `Cursor` below a plain stream can be
moved: `SeekBits`, `Seek`. `stale` marks the reader after a `seek_bits` that failed past the end.

**TrackedDecode** — `src/crates/tinc/src/private`, which the generated code calls. `frames` is the stack of visitors, `pc` what
the innermost does next: decode a `value`, ask for the `next` key or element, `skip` a value, `hold` or `replay` a content, return
`ok` or `err`, `leave` after an error of a member. `seen` is all trackers in one, by place; `target` the scalars of the message;
`oneofs` the tags and buffered contents; `path` and `errors`, `irrecoverable`, `unwinding` the thread-locals of `error.rs`. The
document is not given but chosen token by token as it is read, so that all documents up to `MaxTokens` are; `feed` is a buffered
content that is being decoded. `broken` stands for a parser that finds no JSON where it stopped: after a syntax error, and in front of an array or an
object where serde_json does not read past one of the wrong type. `given`, `keys`, `open` and `wrong` are history: what the
document said, and where.

## Runs

| run | instance | shows |
|---|---|---|
| `context_safety` | 2 handlers, 2 contexts, 2 calls, 2 clones of a handler, relaxed loads reordered | the count is exact, no context is beyond cancellation, no call returns early, the promise is kept |
| `context_liveness` | 2 handlers, 2 contexts, 2 calls, one clone, reuse during the last drop, fair | no wakeup is lost; `shutdown` returns; `done` returns on root handlers |
| `context_reuse` | 1 handler, reuse during the last drop | *violation*: `shutdown` returns while a context is alive |
| `batcher` | calls of 3 and 1 requests, batches of 2, concurrency 0, delay 2 | exactly one batch per request, bounds, no overdue batch, contract, all calls return |
| `dataloader` | a call for keys k2 and k1, one for k1, batches of 2, one permit | waiters and keys match, results and failures are exact and fresh, all calls return |
| `bootstrap` | SignalSvc between two services, two signals, three sets of user choices | what `Ok` means, a signal ends the process, a second one or the timeout forces it |
| `http` | two hyper workers, one of h3, one connection, one fault | a run drains its tasks; if requests go on, a shutdown ends everything, and dropped runs drain |
| `rtmp` | two polite clients (interleaved chunks; commands), two of junk (headers; messages, windows) | messages come out as they went in, nothing complete is left waiting, memory is limited, acknowledgements and the result are right |
| `channel` | 2 writers, 2 readers, messages of 0, 1 and 3 bytes, reads of 1 and 2, all kinds of channels | bytes in order, no silent loss, 0 is the end |
| `transmuxer` | streams of all codecs with early, late, repeated and broken headers, up to five tags | one initial segment and then each frame, in order, without gaps, with its payload and its time |
| `bits` | bytes of 3 bits, up to 4 symbols of 8, seeks by -4, -1 and 2 bits and bytes | no start code, symbols come back, a reader is where it says |
| `tinc` | documents of 9 tokens for messages with values, lists, maps, messages and a tagged oneof, `fail_fast` or not | only what the document says is accepted; each error is collected once, where it is |

*Why the bounds are enough.* A handler and one other are a parent and a child, or two strangers; deeper trees add no case
because `cancel` treats all descendants alike. Two contexts are the smallest number for which a drop is not the last one and a
new context can come between the steps of a drop; two calls let a `cancel` race a `shutdown`, and two waiters share one
notification. For liveness it is the same: the two contexts count for a parent and its child, or both for one handler, the
second made or cloned while the drop of the first is half done. Each context is made once; more of them would only repeat this.
Three requests in batches of two make a call span two batches, and the second call's request fills one that the first began, or
begins one; a concurrency of 0 exercises the floor of 1 and makes batches queue. The keys make one call fill a batch that the
other may have begun, and share a key with it. `SignalSvc` between two services lets a signal come before the last service is
spawned. Two workers are needed for one to fail while the other runs; a third of the other backend makes `select` matter;
`MaxFaults`, the workers that fail or panic, is 1, after which the others may only stop.
Of RTMP, chunk sizes of 1 and 2 cut messages of 3 units into three chunks or two, and change in between; two chunk streams
are enough to interleave, and a third, for junk, is one above the limit of headers; messages of up to 4 units are one above the limit
of 3. A read returns up to 4 units, more than the biggest chunk, so it may end anywhere in the second; sequence numbers below 8 wrap
in a session, and windows of 0, 2, 3 and 7 are the one that divides by zero, two that need acknowledgements every other read, and one
whose sum overflows. A first read of the handshake longer than needed loses what follows, so clients wait for its answer.
`most` bounds the messages, or the junk, of a client. `MaxClones`, `Conns`, the sizes of calls and the single request per h3 connection are the only bounds of things that these modules leave unbounded.
In `channel`, a message of 3 bytes needs two reads and one of 1 is shorter than a read of 2; a capacity of 2 makes writers wait
and receivers of a broadcast channel lag; the bytes in all and the messages in an unbounded queue are bounded by `MaxBytes` and `MaxQueue`.
In `transmuxer` a second has 10 ticks in place of 1000 and video 3 frames, so that a frame is not a whole number of ticks, as in
the code at 24 or 30 per second; `Narrow`, `u32::MAX` in the code, is 25 ticks, so that some gaps, some offsets and some times
of segments are above it and others are not; five tags are the headers of two streams and three frames, and two as many as `mux`
waits for (30 in the code).
In `bits` a byte has 3 bits and a number 4 (8 and 64 in the code); 3 are more than the 2 that hold the escape byte, so that there are bytes which
are never escaped; four symbols are up
to 24 bits, 8 bytes: two zeros, an escaped byte and more after it at any bit; seeks go up to one byte past the end. In `tinc` nine tokens are a oneof with two contents before its tag, or a map's
key with a member given twice; a message gets one name that nobody has, and maps two keys. The proofs hold for all values of the constants of their modules, `MaxClones` included.

*Deadlock.* `Batcher` is checked for deadlock: its timer never stops. So is `TrackedDecode`, where every document ends. The other modules may really stop: sessions end (RtmpSession), all contexts are
gone and all calls over (Context), all calls are over and the idle turns of `batch_loop` are left out (DataLoader), the
process has ended (Bootstrap), the server has returned and no client comes (HttpServer), all bytes are read or their
readers gone (ChannelCompat), all tags are muxed (Transmuxer), all symbols are read (BitStream).

*Symmetry* is used in `context_safety` only, which has no liveness property.

## Fairness

All fairness is weak. What it assumes, and why the code may count on it:

- tasks and threads that can run do run (tokio's scheduler): calls in progress, half-done drops, `main`, workers;
- tokio's `Mutex` and `Semaphore` are FIFO, so weak fairness per call and per batch is what they give;
- user code ends: executors return or panic, hooks return — the crates document no remedy if they do not;
- the holder of a context whose token is cancelled lets go of it. This is what `with_context` is for and what the documentation
  asks for. In `Bootstrap`, `stubborn` services are excepted. In `HttpServer` the code races the awaits of a connection with its
  context, but for two: `new_service`, which is user code and assumed to return, and `resolve_request` of h3, of which nothing is
  assumed. That peers send the headers of a stream they opened, and that requests end, is a hypothesis of the properties
  (`RequestsGoOn`) and not fairness;
- a timeout that is set elapses.

Nothing forces a *new* event: contexts need not be cancelled, clients need not come or go, signals need not be raised,
executors need not answer a particular request, workers need not fail.

## Proofs

TLAPS checks these for all values of the constants, from the assumptions named in each module (sets are finite where counts
need it, the null values are not members, settings are natural numbers).

**ContextProofs.**
`TypedAccounting`, types together with `Accounting`, is inductive: a drop subtracts 1 from a count that equals the number of
counted contexts, one of which it is, so the count never wraps. From it `ContextTypes` and `ContextAccounting`.
`ContextNoLostWakeup` needs `WakeInv`: a `shutdown` past its first step has stopped its tracker, and no drop has loaded
`stopped` early, so the drop that brings the count to zero, itself still to come when `shutdown` saw the count above zero, finds
`stopped` set and notifies. It assumes `RelaxedReorder = FALSE`: with the load before the decrement it fails (see below).
`ContextGracefulReturn` needs `DrainInv`: while a drop is half done its handler's count is zero, a call owes only contexts that
are counted, and a notified call owes none; so the zero that ends a call is a zero it may rely on. It assumes
`ReuseWhileDropping = FALSE`, which `context_reuse` shows to be needed.
`ContextNoUnreachable` needs `TreeInv`: only handlers that were made are cancelled, above others or below others, and what is
above an ancestor of a handler is above the handler too; so cancelling one cancels all that is below it, however deep.
`ContextKeepsPromise` is the refinement, under the same assumption: every step of `Context` is one of `Graceful` or leaves
the mapped state alone.

**BatcherProofs.**
`BatcherTypes`, `BatcherRequestsOnce` (strengthened by: a call begins at its first request), `BatcherBounds` (strengthened by:
batches are finite sets, for their cardinalities to grow by one), `BatcherNeverOverdue` and `BatcherSettledByOwnBatch`
(inductive with types), and `BatcherMeetsContract`, the refinement to `BatchContract`. The last needs also `Received`: a call
that awaits its n-th answer has the ones before, so that one that returns has all of them. All
hold for any size of batches, any concurrency and any delay, zero included.

**DataLoaderProofs.** One invariant, `DataLoaderInv`, for `DataLoaderWaitersMatch`, `DataLoaderFresh`, `DataLoaderFailsByOwnBatch`
and `DataLoaderResultExact`. Who pushes holds the lock, and the current batch is the only open one (`Locked`); a call's waiters are
in the order in which their batches were made, and the last is for the current batch if the call has put a key there
(`WaitersOrdered`): this is what makes `load_many`'s comparison with the last waiter enough to have one per batch, also when others
fill and begin batches in between. `Collected` says of a call half-way through its waiters which are over and what their batches
found.

**HttpProofs.** Of HttpServer: `HttpInv`, from which `HttpRunDrains` and `HttpOwnerDrains`: every task that runs holds a context of its backend's
handler, and tasks that do not hold none (`TasksHold`); `run` holds its two (`RunsHold`); while a shutdown waits it is owed exactly
the contexts that are open, so that one which returns leaves none (`RunsWait`, `OwnerWaits`), and none is made afterwards (`Emptied`),
because only a worker, or a task with a context, makes one. For any backends, workers, connections and faults.
`OwnerDrains` is a consequence of the same invariant that no run checks by itself; of dropped runs it says nothing, which `DroppedDrains` does.

Of TrackedDecode, whose requests these are: `DecodeInv`, from which `DecodeTypes`, `DecodeAligned` and `DecodeErrorsOnce`.
`SERDE_PATH_BUFFER` names the place in the document except between two members (`Aligned`), so an error gets the path it has. What
is wrong has been collected, or it is one error on its way to the next visitor (`Collected`, `Leaving`), or nothing will be collected any more
because of `irrecoverable` or `fail_fast`. That needs that a visitor never goes on where it could not: each place keeps the type that the
schema gives it, and a oneof its first tag (`FollowsSchema`), so a content that is replayed is decoded as a value or a message, and of
a buffered content is left exactly what the visitor that decodes it still has to read (`Fed`): nothing, a whole content, or the members of its
object in turn. `DecodeAssumption` says of the schemas what the types of protobuf allow (no lists or maps as variants) and that no name is
taken for a token; and of the buffered contents that each is a scalar or an object of scalars. The last is a limit of the model: the code
buffers any JSON value.

`DecodeAccepts` (`AcceptsTheDocument`) rests on `GivenInv` on top of that: the visitors are where the document is (`InPlace`); what stops the
decoding is wrong (`Answers`); and as long as nothing is wrong, `Kept`. Its heart is `Ledger`, the accounts of a document: the scalars that
came are those in the message, the tags that were read, those in the oneofs' buffers, and what is left of the content that is replayed, with
the places at which it will be decoded; nothing else, and nothing is lost on the way from one to another. To keep the accounts, a value must
not come over another (`NewValue`, `NewElements`: a place that is decoded again holds a message or a map, and a list counts its
elements), what is decoded lies under names that came (`Rooted`), and of a oneof each half is where it must be (`Halves`): a content whose tag
has not come is buffered, one whose tag has come is decoded, with its tag in the message, or being replayed. When the message is
accepted no visitor is left, so the last account is empty, no oneof has both a tag and a buffer, and a buffer, or a tag
alone, is what `Told` leaves out (`MessageTold`). Scalars under which something was wrong need no account: then `Answers` says that it is not
accepted.

**BootstrapProofs.** `BootstrapOkMeansOver`, from `BootstrapInv`: main has the handle of every task that has not ended (`HandlesKept`),
comes to the items in order and never back to one (`InOrder`), and without hooks of its own every failure is of a task whose handle it still
has, or is the one it is about to report (`NoneFailed`); a task holds a context as long as it runs, `SignalSvc` until it shuts the
handler down (`TasksHold`). So `Ok`, which takes an empty set of handles, means that every task is over.

**ChannelProofs.** `ChannelInv`: every byte that was sent is lost, in the queue or with a reader, who got it or holds it, and never
with two unless it was copied; all that readers hold is before all that is in the queue (`Sound`). It needs `Placed`: a read that
still has room has emptied the buffer, so what it receives next comes after it. From it `ChannelInOrder`, `ChannelNothingLost` and
`ChannelEofIsEnd`, for any number of readers and writers, and any sizes.

**RtmpProofs.** `RtmpTypes`: types are inductive, for any clients and settings; that lengths and positions stay in their
sequences is part of it, so no chunk is ever split off that is not there. `RtmpLimits`: `LimitsHold` strengthened by *the maps are
finite* and by `Rest`, that already when `process_chunks` returns, and until the next read, less than a chunk is in the buffer:
what is missing is at most one chunk's payload, and the bound on that is the chunk size in force.
`RtmpAckInTime`: what was read since the last acknowledgement is at most the rest of `sequence_number` by the window, or, when the
number has just wrapped, less than a window more (`Behind`); a read that owes no acknowledgement has crossed no multiple of the window,
so it stays. `RtmpResultTells`: `publishing` is what the messages that came out published and did not delete, whatever they were.
`RtmpReassembly` and `RtmpNothingLeft` share `FlowInv`. Its heart, `Joined`, is that the chunks of a polite client which are
on the wire make a *chain*: there are states of a writer's knowledge (last headers, messages half sent, chunk size), from the one that
the reader mirrors in `prev`, `partial` and `max_chunk_size` to what the client knows now, one chunk between each two, and chunk after
chunk lies on the wire. The client makes the chain longer (`SendJoins`), the reader takes its first chunk and then mirrors the next
state (`ParseJoins`), so that a change of the chunk size applies to the same chunk on both sides, and a header of type 1, 2 or 3
says the same after any interleaving; that the reader decodes a header to what the writer meant, counts the same bytes and finds the same
pieces is proved for one chunk at a time (`HeaderReads`, `AmountReads`, `ChunkReads`). `Drained` adds that once `read_chunk` has
asked for more, less than the first chunk of the chain is in the buffer. Besides `RtmpSessionAssumption` they rest on
`PoliteAssumption`: the messages of a polite client are no longer than `MAX_PARTIAL_CHUNK_SIZE`, and the chunk sizes it sets are among those
that the session accepts; of others it refuses the session.

**MediaProofs.** The transmuxer: `OptimizeKeepsSamples`: for any fragment that the boxes accept, provided each field is given for all
samples or for none, a player finds in the optimized fragment what it found before, and `mux` accepts it; field by field, from
what `optimize` may take out (`Alike`). From it `TransmuxerKeepsSamples`, and by induction over the steps `TransmuxerFollowsTags`,
for any tags in any order and number: the queue is what was added and not yet muxed, and sequence numbers and decode times continue.
`TransmuxerInSync` needs that `last_video_timestamp` is the timestamp of the last video segment, whatever audio came since (`Clocked`);
then each frame adds to the drift at most the frame rate, in ticks of the track: what is off where a delta that is near a frame is taken
for one. A gap that a duration cannot say takes less, so the video falls behind; `InSync` says that it never gets ahead, and that it does
not fall behind while there is no such gap (`Unbroken`). Offsets that do not fit are cut off likewise (`CastOffset` in `SamplesKept`).

Emulation prevention: `WritesNoStartCode`: strengthened by *the count of zeros says whether the stream ends in one zero, or in two*.
`ReadsThePayload`: the invariant is that there are two functions, of the place of each byte of the payload in the stream and of the
zeros counted after it, such that writer and reader both are on them; so the reader drops an escape byte exactly where the writer
put one.

Bits: `ReaderKnowsItsPlace`: in bytes of any number of bits, and with moves by any number, `bit_stream_position` is the number of bits
the reader has come by, wherever `seek_bits` and `seek` have moved it, and also after one that failed; through emulation prevention
the bits it has come by are those of the payload it got. The invariant (`ReaderKnows`) is *whole bytes taken, less the bits that are
left of the last one*. For `seek_bits` it comes down to the divisions of the code, which round towards zero (`RemainderIs`), and
to one byte back for a negative remainder.

`ReaderReturnsWhatIsThere` (`ReaderIsThere`) says what is there: the bits that were written. For the writer, `WriterInv`: the bits of
`flat` are those of the payload's bytes and, behind them, the first `wpos` bits of `current_byte`, whose other bits are 0 (`Written`), and
what is left of a symbol are single bits, or whole bytes of an aligned writer (`Pending`). A bit more adds its power of two to
`current_byte` and changes no other bit (`BitAdded`), so the byte that goes out has the bits that were written (`LastBitWritten`);
`BitsHaveNoStartCode` comes with it, since all that goes out is a byte. For the reader, `HeldInv`: a `current_byte` that is not stale is
the payload's byte before the place that `ReaderKnows` counts (`Holds`), also after a seek to any bit, and what was returned are the
bits of `flat` up to it (`Shows`). The leaves need the powers of two; 2 ^ n is not defined by anything the provers know, so
`PowersAssumption` says of it, up to `NumberBits`, that 2 ^ 0 = 1 and 2 ^ (n + 1) = 2 * 2 ^ n, and TLC evaluates that in the run.

`ReaderReturnsTheSymbols` (`SymbolsReturn`) says that calls of the reader return what calls of the writer were given: numbers, Exp-Golomb
codes of either sign and bytes, at any bit of a byte and with aligns between them. `SymbolsInv`: there are `starts`, of which
the code of symbol j begins behind the first `starts[j]` bits of `flat` and the next one behind it, as far as they are written (`Laid`); what the
writer has left to write is the rest of the last code (`Left`); and the reader, which is past as many starts as it has returned
symbols, knows of the next one exactly what its bits so far say (`HalfRead`): of a number, v \div 2 ^ left; of an Exp-Golomb code, its
zeros, then the number after them (`CodeRead`); of bytes, those that are whole and the first bits of one (`BytesRead`). How many bits an
align takes depends on where the symbol begins (`RoomAt`), and writer and reader must find the same number. By
`ReaderReturnsWhatIsThere` a bit that is read is a bit of `flat`, so of the code; what is known when nothing is left is the symbol.
The proof also has that a code is as long as `size_of_exp_golomb` says (`SizesAre`).

TLC checked the inductive invariants before they were proved, each on the instance of its component's run. Of `Joined` it checked
what can be evaluated, as its states are witnesses and not variables: both ends of the chain (`Sane`, and `Mirrors` whenever nothing is on
the wire), the phases of the handshake, and what is in the buffer at a read. The `starts` of `SymbolsInv` it computed from the symbols written.

*Only model-checked* are the liveness properties, `ShutdownReturns`, `RootDoneReturns`, `CallsReturn` of both loaders, `SignalEnds`,
`SignalForcesEnd`, `ShutdownEnds` and `DroppedDrains`: TLAPS supports neither fairness nor ENABLED. Every other property of the passing runs is a theorem.

## Findings and observations

One finding has a run whose counterexample shows what the code does, against a line that says otherwise:

1. `context_reuse`: the drop that empties the count looks at `stopped` only afterwards; if a new context and a `shutdown` come
   in between, its notification ends that `shutdown` while the new context is alive.

Observations without a run of their own:

- only a stopped tracker notifies, so `Handler::wait` never returns on a handler that is not cancelled once it has parked, although
  `context/src/lib.rs:266` says that it "Returns once all contexts are done, even if the handler is not done";
- an error of `on_service_exit` detaches the services (`main_impl.rs:227` drops their handles); they run on during `on_exit`,
  although `global.rs:166` says that it "will stop all currently running services";
- `try_join_all` over join handles (`hyper/mod.rs:204`) does not look at what a worker returned, so a fatal error of one neither
  stops the others nor ends `run`; a panic does;
- the backend that finishes first (`http/src/server.rs:256`) drops the other's `run`, with the shutdown it awaits and the server's
  context it holds, so the server may return while requests of the other backend run;
- h3's connections await `resolve_request` without the context (`http/src/backend/h3/mod.rs:132`): a peer that opens a stream, keeps
  its headers back and its connection alive keeps the context of the connection, and with it every shutdown of the server;
- `ChannelCompat::read` copies the beginning of a message into the whole destination when nothing is left over from the last
  (`ffmpeg/src/io/channel.rs:199`), so a message that is shorter makes `copy_from_slice` panic, and the mutex it holds is poisoned
  for all other readers (`ReceivePanics`);
- with `RelaxedReorder = TRUE`, `ShutdownReturns` and `NoLostWakeup` fail: the `Relaxed` load of `stopped` in the drop may come
  before its `Relaxed` decrement becomes visible to the shutdown, and nobody notifies it;
- `Handler::done` on a *child* that was cancelled through its parent hangs for the same reason as `wait`: the child's
  tracker is not stopped. `RootDoneReturns` is therefore about roots, whose token only their own `cancel` cancels,
  which stops the tracker first;
- services start before `on_services_start` ran, although `global.rs` says that its error prevents them from starting;
- a signal during startup can let `shutdown` return before the last service has a context; that service is born cancelled, and
  if it ignores this, nothing forces the end. `SignalForcesEnd` is about signals after startup;
- h3's `run` logs the errors of its workers and returns `Ok`; hyper's returns `Ok` when a worker panicked;
- RTMP acknowledgements carry the sequence number from before the read that triggers them;
- a window of 0 from the client panics at the next read (remainder by zero), and one near 2^32 can make the sum beside it overflow:
  `AckInTime` is about windows that leave room for a read;
- `read_chunk` subtracts what it holds from a message length that a later header may have made smaller; only builds that check
  overflows notice, others read `max_chunk_size` and go on until `MAX_PARTIAL_CHUNK_SIZE` stops them. The timestamp of a type 2 header is
  added unchecked where that of type 1 is checked;
- a read of 0 in the handshake is taken for no news: after the peer closed its side the loop spins, and neither the timeout (each
  read returns at once) nor the end of the stream ends it, only a context that is done;
- the first step of the handshake needs a byte more than it uses and drops what is left of it; the second needs one byte of the first
  chunk before it answers;
- the request to reconnect is written without a chunk header and flushed only after the next read returns;
- a control message that is too short is an `UnexpectedEof`, which `is_client_closed` takes for a client that left, so that `run` returns
  `Ok`; likewise a timeout of the handler. A flush to a client that left, on the other hand, is an `Err`;
- `Abort` is not implemented: what is held of an aborted message stays, and the next on that chunk stream and message stream is appended;
- `drive` is not raced with the context, so a shutdown waits until clients leave or time out;
- the transmuxer rounds a composition offset to whole frames; AVC's is read as an unsigned number
  (`flv/src/video/header/legacy.rs:77`); audio always lasts 1024 samples; headers that come after the initial segment are ignored;
  while the last timestamp is 0 a frame counts as the first one, and lasts a fixed 1000 ticks; the video may drift by up to a
  millisecond per frame (`InSync`), and falls behind for good over a gap of more than `u32::MAX` ticks, about 40 hours at 30 frames per
  second; whether `mux` gives up on headers depends on the length of the queue at that call; an AVC configuration without an SPS makes
  `config.sps[0]` panic (`transmuxer/src/lib.rs:458`), at every call, while HEVC's is an error;
- `Traf::optimize` drops a sample description index from the flags while the field stays; the transmuxer never sets one;
- a `seek_bits` that fails past the end has set `bit_pos`, and the next bits read are those of the byte read before; an unaligned
  `read` at the end fails after it has taken the bits that were left; neither happens to aligned readers;
- `write_exp_golomb` of the largest `u64`, and the signed one of the smallest `i64`, overflow (`expgolomb/src/lib.rs:104`, `:115`);
- `EmulationPreventionIo` does not know the end of a NAL unit and so adds no escape byte after zeros at its end;
- `validate_http` refuses a message for any error that was collected, so for unknown members too, although they are not fatal unless
  `DENY_UNKNOWN_FIELDS`, which nothing sets;
- a tagged oneof that has only a content, or only a tag, counts as not given: where it may be left out, what was said is dropped
  without an error (`has_content` is never asked);
- an array or object in place of a scalar stops serde_json, so that the request is answered with a message about syntax instead of the errors
  that were collected; a list stops at its first bad element; a syntax error in a list is collected by the list and met again behind it;
  what follows the document is not looked at;
- a map's value that fails leaves what was decoded of it in `new_value` (`tinc/src/private/map.rs:139`), which the next new key starts from;
  since its error was collected, such a message is never accepted;
- `with_context` on a stream polls the stream also when the context is done, and drops the item it got
  (`context/src/ext.rs:149`); the crates use it on futures only;
- a panic in a task of xtask's semaphore keeps its permit (`dev-tools/xtask/src/utils.rs:193`);
- a worker goes on accepting after the shutdown as long as a connection is ready each time it polls.

## What is not modelled

Of RTMP: the bytes of messages and answers (amf0 among them), digests of the complete handshake. Of the transmuxer: the
contents of the initial segment, and of mp4 all boxes but those of a fragment. Of bytes-util: cursors and copy-on-write
wrappers. Of tinc: null and nullable fields, oneofs without a tag, flattened messages, enums, well-known types, expressions, and parameters in
paths and queries. Of the other components: the futures and streams of `with_context` (their outcome is used), builders and TLS
configuration, HTTP itself (hyper, h3, quinn, rustls), the accept backoff, the derive macro's parsing, tracing.

The larger part of the repository's lines is not control but data: parsers and writers of codec configurations and containers
(av1, h264, h265, aac, flv, mp4), schemas (openapiv3_1), enumerations of FFmpeg, and code that generates code (tinc's compiler with its
expressions, derive macros), each with long tests in the same files. They keep no state between calls, so a model of them
would repeat their layouts field by field. The share of lines that the modules stand for is therefore small, about a
twentieth, and covers nearly all of what runs concurrently or keeps state.

`Graceful` is used
by `Bootstrap` and `HttpServer` under the assumption of `ContextKeepsPromise`. The code does not rule out that a service or
worker gets its context just while the drop that emptied the handler is half done: the race of finding 1 is studied in `Context`
and not repeated there. Nothing is persisted, so a crash leaves no state
to recover.

## Plan

Done in this order: Context, Batcher, DataLoader, SignalSvc and Bootstrap, HttpServer, RtmpChunks and RtmpSession,
ChannelCompat, Traf and Transmuxer, EmulationPrevention and BitStream, TrackedDecode; proofs of Context, Batcher, DataLoader,
Bootstrap, HttpServer, RtmpSession, ChannelCompat, Transmuxer, EmulationPrevention, BitStream and TrackedDecode.

Next, most important first:

1. Specifications of a promise, as `Graceful` is of Context: a FIFO of messages per chunk stream for RtmpChunks, for which the chain of
   `RtmpProofs` is the refinement mapping; a contract of DataLoader, where each call is a function of its batches' results.
2. Modules. H.264 and H.265 parameter sets as sequences of the symbols of BitStream, for which fields are there when;
   `with_context` on streams; null and untagged oneofs in TrackedDecode.
