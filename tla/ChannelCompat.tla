--------------------------- MODULE ChannelCompat ---------------------------
(***************************************************************************)
(* crates/ffmpeg, io/channel.rs: a channel of messages used as a stream of *)
(* bytes.  Threads write to clones of its sending side; FFmpeg reads from  *)
(* its receiving side, through read_packet, as many bytes as it has room   *)
(* for, whatever the sizes of the messages.                                *)
(*                                                                         *)
(* A clone of the receiving side shares the channel, behind a mutex, and   *)
(* copies the bytes that are left of the last message.  Between two calls  *)
(* on the channel a read does nothing others could see: each is one step.  *)
(***************************************************************************)
EXTENDS Integers, Sequences, FiniteSets

CONSTANTS
    Writers,  \* clones of the sending side
    Readers,  \* clones of the receiving side, one of them the first
    First,
    Nobody,
    Kinds,    \* of channel: what becomes of a message when it is full
    Capacity, \* messages a channel holds, unless it is unbounded
    Sizes,    \* of the messages
    Wants,    \* buf.len() of the reads
    MaxBytes, \* bound on the bytes written
    MaxQueue  \* bound on the messages in an unbounded channel

ASSUME ChannelAssumption ==
    /\ First \in Readers /\ Nobody \notin Readers
    /\ Kinds \subseteq {"bounded", "unbounded", "broadcast"}
    /\ Capacity \in Nat \ {0}
    /\ Sizes \subseteq Nat /\ Wants \subseteq Nat \ {0} /\ MaxBytes \in Nat /\ MaxQueue \in Nat

VARIABLES
    kind,
    queue,     \* the messages in the channel; a message is a sequence of bytes
    overrun,   \* has the receiver of a broadcast missed messages?
    sent,      \* bytes written so far; the n-th of them is the number n
    senders,   \* writers that are not dropped
    holder,    \* who has the mutex inner
    poisoned,  \* has a thread panicked with it?
    pc,        \* progress of a reader
    want,      \* the size of the buf it is to fill
    out,       \* what it has put into buf: buf[..total_read]
    buffer,    \* the buffer of a ChannelCompat
    \* history
    given,     \* the bytes that a reader's reads returned
    ended,     \* readers that got 0, which is the end of the stream for FFmpeg
    lost,      \* bytes overrun, dropped with a reader or in a panic
    copied     \* bytes that were in a buffer when it was cloned

channel == <<kind, queue, overrun, sent, senders>>
mutex   == <<holder, poisoned>>
readers == <<pc, want, out, buffer>>
history == <<given, ended, lost, copied>>
vars == <<channel, mutex, readers, history>>

Bytes(s)  == {s[i] : i \in DOMAIN s}
Queued    == UNION {Bytes(queue[i]) : i \in DOMAIN queue}
Taken(r)  == given[r] \o out[r] \o buffer[r]
Smaller(a, b) == IF a < b THEN a ELSE b

\* a message of n bytes more
Message(n) == [i \in 1 .. n |-> sent + i]

\* cut a message in two
Front(m, n) == SubSeq(m, 1, n)
Rest(m, n)  == SubSeq(m, n + 1, Len(m))

Init ==
    /\ kind \in Kinds
    /\ queue = <<>> /\ overrun = FALSE /\ sent = 0 /\ senders = Writers
    /\ holder = Nobody /\ poisoned = FALSE
    /\ pc = [r \in Readers |-> IF r = First THEN "idle" ELSE "unborn"]
    /\ want = [r \in Readers |-> 0]
    /\ out = [r \in Readers |-> <<>>] /\ buffer = [r \in Readers |-> <<>>]
    /\ given = [r \in Readers |-> <<>>] /\ ended = {} /\ lost = {} /\ copied = {}

Over == {"unborn", "dropped", "panicked"}
Receiving == \E r \in Readers : pc[r] \notin Over
-----------------------------------------------------------------------------
(* the sending side *)

\* A write is a message.  Without a receiver it fails and changes nothing; a bounded
\* channel makes it wait for room, a broadcast drops the oldest message.
Write(w, n) ==
    /\ w \in senders /\ Receiving
    /\ sent + n <= MaxBytes
    /\ kind = "bounded" => Len(queue) < Capacity
    /\ kind = "unbounded" => Len(queue) < MaxQueue
    /\ sent' = sent + n
    /\ IF kind = "broadcast" /\ Len(queue) = Capacity
       THEN /\ queue' = Append(Tail(queue), Message(n))
            /\ overrun' = TRUE
            /\ lost' = lost \union Bytes(Head(queue))
       ELSE queue' = Append(queue, Message(n)) /\ UNCHANGED <<overrun, lost>>
    /\ UNCHANGED <<kind, senders, mutex, readers, given, ended, copied>>

DropWriter(w) ==
    /\ w \in senders
    /\ senders' = senders \ {w}
    /\ UNCHANGED <<kind, queue, overrun, sent, mutex, readers, history>>
-----------------------------------------------------------------------------
(* the receiving side *)

\* the channel may be cloned where its receiver may
Clone(r, copy) ==
    /\ pc[r] = "idle" /\ pc[copy] = "unborn" /\ kind # "broadcast"
    /\ pc' = [pc EXCEPT ![copy] = "idle"]
    /\ buffer' = [buffer EXCEPT ![copy] = buffer[r]]
    /\ copied' = copied \union Bytes(buffer[r])
    /\ UNCHANGED <<channel, mutex, want, out, given, ended, lost>>

\* with the last one the receiver goes, and what it has not received
DropReader(r) ==
    /\ pc[r] = "idle"
    /\ pc' = [pc EXCEPT ![r] = "dropped"]
    /\ buffer' = [buffer EXCEPT ![r] = <<>>]
    /\ LET last == \A q \in Readers \ {r} : pc[q] \in Over IN
        /\ lost' = lost \union Bytes(buffer[r]) \union (IF last THEN Queued ELSE {})
        /\ queue' = IF last THEN <<>> ELSE queue
    /\ UNCHANGED <<kind, overrun, sent, senders, mutex, want, out, given, ended, copied>>

\* the first branch of read: the buffer has enough
ReadBuffered(r, n) ==
    /\ pc[r] = "idle" /\ Len(buffer[r]) >= n
    /\ given' = [given EXCEPT ![r] = @ \o Front(buffer[r], n)]
    /\ buffer' = [buffer EXCEPT ![r] = Rest(@, n)]
    /\ UNCHANGED <<channel, mutex, pc, want, out, ended, lost, copied>>

\* slip: what is in the buffer waits for the message to be received
TakeBuffer_Later(r) == UNCHANGED <<out, buffer>>

\* what is in the buffer comes first
TakeBuffer(r) ==
    /\ out' = [out EXCEPT ![r] = buffer[r]]
    /\ buffer' = [buffer EXCEPT ![r] = <<>>]

Lock(r, n) ==
    /\ pc[r] = "idle" /\ Len(buffer[r]) < n
    /\ holder = Nobody /\ ~poisoned
    /\ holder' = r
    /\ pc' = [pc EXCEPT ![r] = IF buffer[r] = <<>> THEN "recv" ELSE "more"]
    /\ want' = [want EXCEPT ![r] = n]
    /\ TakeBuffer(r)
    /\ UNCHANGED <<channel, poisoned, history>>

\* lock().unwrap() of a poisoned mutex
LockFails(r, n) ==
    /\ pc[r] = "idle" /\ Len(buffer[r]) < n
    /\ holder = Nobody /\ poisoned
    /\ pc' = [pc EXCEPT ![r] = "panicked"]
    /\ lost' = lost \union Bytes(buffer[r])
    /\ buffer' = [buffer EXCEPT ![r] = <<>>]
    /\ UNCHANGED <<channel, mutex, want, out, given, ended, copied>>

\* slip: what does not fit into buf is gone
KeepRest_Not(r, rest) == UNCHANGED buffer

KeepRest(r, rest) == buffer' = [buffer EXCEPT ![r] = @ \o rest]

\* a message goes into what is left of buf
Fill(r) ==
    LET m == Head(queue)
        n == Smaller(Len(m), want[r] - Len(out[r]))
    IN  /\ out' = [out EXCEPT ![r] = @ \o Front(m, n)]
        /\ KeepRest(r, Rest(m, n))
        /\ queue' = Tail(queue)

\* channel_recv; a message that fills buf is copied into it
Receive(r) ==
    /\ pc[r] = "recv" /\ queue # <<>> /\ ~overrun
    /\ Len(Head(queue)) >= want[r]
    /\ Fill(r)
    /\ pc' = [pc EXCEPT ![r] = "more"]
    /\ UNCHANGED <<kind, overrun, sent, senders, mutex, want, history>>

\* copy_from_slice asks for as many bytes as buf has room for: a shorter message is
\* lost in a panic that poisons the mutex
ReceivePanics(r) ==
    /\ pc[r] = "recv" /\ queue # <<>> /\ ~overrun
    /\ Len(Head(queue)) < want[r]
    /\ pc' = [pc EXCEPT ![r] = "panicked"]
    /\ holder' = Nobody /\ poisoned' = TRUE
    /\ queue' = Tail(queue)
    /\ lost' = lost \union Bytes(Head(queue))
    /\ UNCHANGED <<kind, overrun, sent, senders, want, out, buffer, given, ended, copied>>

\* slip: try_channel_recv in place of channel_recv
Exhausted_Early == queue = <<>>

\* channel_recv returns None
Exhausted == queue = <<>> /\ senders = {}

\* ... also when the receiver of a broadcast was overrun; read returns 0
ReceiveNone(r) ==
    /\ pc[r] = "recv" /\ (overrun \/ Exhausted)
    /\ overrun' = FALSE
    /\ ended' = ended \union {r}
    /\ pc' = [pc EXCEPT ![r] = "idle"] /\ holder' = Nobody
    /\ UNCHANGED <<kind, queue, sent, senders, poisoned, want, out, buffer, given, lost, copied>>

\* try_channel_recv, as long as buf is not full
TryReceive(r) ==
    /\ pc[r] = "more" /\ Len(out[r]) < want[r]
    /\ queue # <<>> /\ ~overrun
    /\ Fill(r)
    /\ UNCHANGED <<kind, overrun, sent, senders, mutex, pc, want, history>>

\* buf is full, or nothing is there
Return(r) ==
    /\ pc[r] = "more"
    /\ \/ Len(out[r]) >= want[r] /\ UNCHANGED overrun
       \/ Len(out[r]) < want[r] /\ (queue = <<>> \/ overrun) /\ overrun' = FALSE
    /\ given' = [given EXCEPT ![r] = @ \o out[r]]
    /\ out' = [out EXCEPT ![r] = <<>>]
    /\ pc' = [pc EXCEPT ![r] = "idle"] /\ holder' = Nobody
    /\ UNCHANGED <<kind, queue, sent, senders, poisoned, want, buffer, ended, lost, copied>>

Next ==
    \/ \E w \in Writers : DropWriter(w) \/ \E n \in Sizes : Write(w, n)
    \/ \E r \in Readers : \/ Receive(r) \/ ReceivePanics(r) \/ ReceiveNone(r)
                            \/ TryReceive(r) \/ Return(r) \/ DropReader(r)
    \/ \E r \in Readers, n \in Wants : ReadBuffered(r, n) \/ Lock(r, n) \/ LockFails(r, n)
    \/ \E r, copy \in Readers : Clone(r, copy)

Spec == Init /\ [][Next]_vars
-----------------------------------------------------------------------------
Increasing(s) == \A i, j \in DOMAIN s : i < j => s[i] < s[j]

(* What a reader gets is in the order of the writes, over any number of      *)
(* reads: what a message left behind is never overtaken by what follows it   *)
(* in the channel, in whatever sizes the bytes are asked for.                *)
InOrder ==
    /\ \A r \in Readers :
        /\ Increasing(Taken(r))
        /\ \A x \in Bytes(Taken(r)), y \in Queued : x < y
    /\ \A i, j \in DOMAIN queue : i < j =>
        \A x \in Bytes(queue[i]), y \in Bytes(queue[j]) : x < y

(* No byte is lost but the ones overrun, dropped with their reader or in a   *)
(* panic, and no two readers get the same one unless it was in the buffer    *)
(* that the clone of one copied.                                             *)
NothingLost ==
    /\ 1 .. sent = lost \union Queued \union UNION {Bytes(Taken(r)) : r \in Readers}
    /\ \A q, r \in Readers : q # r => Bytes(Taken(q)) \intersect Bytes(Taken(r)) \subseteq copied
    /\ lost \intersect Queued = {}

(* The end of the stream, which is what FFmpeg takes a read of 0 for, is the *)
(* end of what was written: all writers are gone and the channel is empty.   *)
(* In a broadcast it may also be that messages were overrun.                 *)
EofIsEnd == ended # {} /\ kind # "broadcast" => Exhausted
=============================================================================
