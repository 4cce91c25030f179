---------------------------- MODULE RtmpSession ----------------------------
(***************************************************************************)
(* crates/rtmp, session: ServerSession::run, from the handshake to the     *)
(* result, with the client at the other end of its connection.             *)
(*                                                                         *)
(* The session is one task: it reads some units into read_buf, handles     *)
(* every message they complete, writes what it owes and reads again.       *)
(* The client is a polite one, that splits messages into chunks as the     *)
(* protocol asks, or one that sends junk, which the reader may take for    *)
(* any header.                                                             *)
(***************************************************************************)
EXTENDS RtmpChunks, SequencesExt

CONSTANTS
    Setups,    \* the clients, see SetupsAssumption
    HelloSize, \* RTMP_HANDSHAKE_SIZE
    MaxRead,   \* the most one read returns
    Window,    \* DEFAULT_ACKNOWLEDGEMENT_WINDOW_SIZE
    SeqLimit   \* sequence_number is below: 2^32

MsgOnStream == [cs : Nat, ts : Nat, len : Nat, type : Kinds \X Nat, ms : Nat]

ASSUME RtmpSessionAssumption ==
    /\ HelloSize \in Nat \ {0} /\ MaxRead \in Nat \ {0}
    /\ Window \in Nat \ {0} /\ SeqLimit \in Nat \ {0}
    \* A polite client sends messages of says in formats fmts; what others send is
    \* read as headers of reads; most bounds the messages, or the junk.  With calm
    \* clients, and their sessions, nothing ends before a timeout.
    /\ \A s \in Setups :
        /\ s.polite \in BOOLEAN /\ s.calm \in BOOLEAN
        /\ s.most \in Nat /\ s.fmts \subseteq 0 .. 3
        /\ s.says \subseteq MsgOnStream /\ s.reads \subseteq Header

\* the limits of the session hold for what a polite client sends
ASSUME PoliteAssumption ==
    \A s \in Setups : s.polite =>
        \A m \in s.says :
            m.len <= MaxPartialSize /\ (m.type[1] = "SetChunkSize" => Allowed(m.type[2]))

VARIABLES
    setup,
    \* the session
    pc,            \* progress of run
    seq,           \* sequence_number
    window,        \* acknowledgement_window_size
    skipRead,      \* skip_read
    app,           \* is app_name set?
    caps,          \* has caps_ex the Reconnect bit?
    asked,         \* reconnect_request_sent
    publishing,    \* publishing_stream_ids, without copies: retain removes them all
    owed,          \* what write_buf holds
    done,          \* is the context done?
    result,
    \* the client
    greeted,       \* its messages of the handshake so far; then, its junk
    conn,          \* open, shut (it will send no more) or reset
    writeSize,     \* the size of the chunks it writes
    said,          \* the messages it has begun
    last,          \* the last of them, by chunk stream
    sending,       \* the message it is sending, by chunk stream
    finished,      \* the messages it has sent, in that order
    \* history
    got,           \* the messages of a polite client that were handled
    unacked        \* units read since the last acknowledgement or window

buffers == <<wire, have>>
input   == <<buffers, seq, unacked, skipRead>>
control == <<window, app, caps, asked, publishing>>
client  == <<greeted, conn, writeSize, said, last, sending, finished>>
vars == <<setup, pc, reader, input, control, owed, done, result, client, got>>

Junk == [id |-> 0, i |-> 0]
READ_SIZE == HelloSize + 1

Init ==
    /\ setup \in Setups
    /\ ReaderInit /\ wire = <<>> /\ have = 0
    /\ pc = "hello" /\ seq = 0 /\ window = Window /\ skipRead = FALSE
    /\ app = FALSE /\ caps = FALSE /\ asked = FALSE /\ publishing = {}
    /\ owed = {} /\ done = FALSE /\ result = "none"
    /\ greeted = 0 /\ conn = "open" /\ writeSize = InitSize
    /\ said = <<>> /\ last = <<>> /\ sending = <<>> /\ finished = <<>>
    /\ got = <<>> /\ unacked = 0

End(r) == pc' = "ended" /\ result' = r
Finish == End(IF publishing = {} THEN "true" ELSE "false")
Owe(x) == owed' = owed \union {x}
-----------------------------------------------------------------------------
(* the client *)

Send(units) == wire' = wire \o units

\* C0 and C1; C2 once S0, S1 and S2 are there
Greet ==
    /\ conn = "open"
    /\ \/ greeted = 0 /\ Send([i \in 1 .. READ_SIZE |-> Junk])
       \/ greeted = 1 /\ pc \notin {"hello", "greet"}
            /\ Send([i \in 1 .. HelloSize |-> Junk])
    /\ greeted' = greeted + 1
    /\ UNCHANGED <<have, conn, writeSize, said, last, sending, finished>>

\* the formats that fit message m after the last one on its chunk stream
Formats(m) ==
    IF m.cs \notin DOMAIN last THEN {0} ELSE
    LET p == last[m.cs] IN
        {0} \union
        IF m.ms # p.ms \/ p.ts + m.ts >= TsLimit THEN {} ELSE
            {1} \union IF <<m.len, m.type>> # <<p.len, p.type>> THEN {} ELSE
                {2} \union IF m.ts # 0 THEN {} ELSE {3}

Timestamp(m, fmt) == IF fmt = 0 THEN m.ts ELSE last[m.cs].ts + m.ts

HeaderOf(m, fmt) ==
    [cs |-> m.cs, fmt |-> fmt, ts |-> m.ts, len |-> m.len, type |-> m.type, ms |-> m.ms]

\* send the next chunk of message id; a sent SetChunkSize is in force
Chunk(id, h, sent) ==
    /\ Send(ChunkUnits(id, h, sent, writeSize))
    /\ IF h.len - sent <= writeSize
       THEN /\ finished' = Append(finished, id)
            /\ sending' = Drop(sending, h.cs)
            /\ writeSize' = IF h.type[1] = "SetChunkSize" THEN h.type[2] ELSE writeSize
       ELSE /\ sending' = Put(sending, h.cs, [id |-> id, sent |-> sent + writeSize])
            /\ UNCHANGED <<finished, writeSize>>

Begin(m, fmt) ==
    /\ conn = "open" /\ greeted = 2 /\ setup.polite
    /\ Len(said) < setup.most
    /\ m.cs \notin DOMAIN sending
    /\ Cardinality(DOMAIN last \union {m.cs}) <= MaxHeaders
    /\ m.len > writeSize => Cardinality(DOMAIN sending) < MaxPartial
    /\ LET told == [m EXCEPT !.ts = Timestamp(m, fmt)] IN
        said' = Append(said, told) /\ last' = Put(last, m.cs, told)
    /\ Chunk(Len(said) + 1, HeaderOf(m, fmt), 0)
    /\ UNCHANGED <<have, greeted, conn>>

Continue(cs) ==
    /\ conn = "open" /\ cs \in DOMAIN sending
    /\ LET s == sending[cs] IN Chunk(s.id, HeaderOf(said[s.id], 3), s.sent)
    /\ UNCHANGED <<have, greeted, conn, said, last>>

\* units that are no chunk, and chunks that are none the protocol allows
Babble ==
    /\ conn = "open" /\ greeted \in 2 .. 1 + setup.most /\ ~setup.polite
    /\ Send(<<Junk>>)
    /\ greeted' = greeted + 1
    /\ UNCHANGED <<have, conn, writeSize, said, last, sending, finished>>

Leave ==
    /\ conn = "open" /\ ~setup.calm /\ conn' \in {"shut", "reset"}
    /\ UNCHANGED <<buffers, greeted, writeSize, said, last, sending, finished>>

\* What the client does matters to the session when it reads next: the steps it
\* takes meanwhile are put off until then.
Client ==
    /\ pc \in {"hello", "echo", "read"}
    /\ \/ Greet \/ Babble \/ Leave
       \/ \E m \in setup.says : \E fmt \in Formats(m) \intersect setup.fmts : Begin(m, fmt)
       \/ \E cs \in DOMAIN sending : Continue(cs)
    /\ UNCHANGED <<setup, pc, reader, seq, unacked, skipRead, control, owed, done, result, got>>

ContextDone ==
    /\ ~done /\ ~setup.calm /\ done' = TRUE
    /\ UNCHANGED <<setup, pc, reader, input, control, owed, result, client, got>>
-----------------------------------------------------------------------------
(* the session: reads and writes *)

Arrived == 1 .. Least(MaxRead, Len(wire) - have)
TakeIn(n) == have' = have + n /\ seq' = (seq + n) % SeqLimit

\* drive_handshake reads on until it has READ_SIZE bytes
HandshakeRead ==
    /\ pc \in {"hello", "echo"} /\ have < READ_SIZE
    /\ \E n \in Arrived : TakeIn(n)
    /\ UNCHANGED <<wire, unacked, skipRead, control, pc, reader, owed, result>>

\* what is left of the first read is dropped with the cursor
Hello ==
    /\ pc = "hello" /\ have >= READ_SIZE
    /\ SplitOff(have)
    /\ Owe("greeting")
    /\ pc' = "greet"
    /\ UNCHANGED <<seq, unacked, skipRead, control, reader, result>>

\* slip: skip_read is not set
NoOverRead == FALSE
OverRead == have > HelloSize

\* what is left of the second, over_read, is not
Echo ==
    /\ pc = "echo" /\ have >= READ_SIZE
    /\ SplitOff(HelloSize)
    /\ skipRead' = OverRead
    /\ Owe("SetChunkSize")
    /\ pc' = "drive"
    /\ UNCHANGED <<seq, unacked, control, reader, result>>

Cancelled ==
    /\ pc \in {"hello", "echo"} /\ done
    /\ End("false")
    /\ UNCHANGED <<input, control, reader, owed>>

\* a timeout or an error; at the end of the stream drive_handshake reads on
HandshakeFails ==
    /\ pc \in {"hello", "echo"} /\ have < READ_SIZE
    /\ End("err")
    /\ UNCHANGED <<input, control, reader, owed>>

Flush ==
    /\ pc \in {"greet", "flush"}
    /\ owed' = {}
    /\ pc' = IF pc = "greet" THEN "echo" ELSE "drive"
    /\ UNCHANGED <<input, control, reader, result>>

\* a timeout or an error of the write, closed connections included
FlushFails ==
    /\ pc \in {"greet", "flush"} /\ owed # {}
    /\ End("err")
    /\ UNCHANGED <<input, control, reader, owed>>

Reconnects == ~asked /\ caps /\ done

Drive ==
    /\ pc = "drive"
    /\ asked' = (asked \/ Reconnects)
    /\ IF Reconnects THEN Owe("reconnect") ELSE UNCHANGED owed
    /\ skipRead' = FALSE
    /\ pc' = IF skipRead THEN "parse" ELSE "read"
    /\ UNCHANGED <<buffers, seq, unacked, window, app, caps, publishing, reader, result>>

\* slip: > for >=
AcknowledgesLate(n) == ((seq % window) + n) % SeqLimit > window

\* the sum is of two u32
Acknowledges(n) == ((seq % window) + n) % SeqLimit >= window

Read ==
    /\ pc = "read" /\ window # 0
    /\ \E n \in Arrived :
        /\ TakeIn(n)
        /\ IF Acknowledges(n) THEN Owe("acknowledgement") /\ unacked' = 0
                              ELSE unacked' = unacked + n /\ UNCHANGED owed
    /\ pc' = "parse"
    /\ UNCHANGED <<wire, skipRead, control, reader, result>>

\* the end of the stream, a reset or a timeout
ClientGone ==
    /\ pc = "read"
    /\ Finish
    /\ UNCHANGED <<input, control, reader, owed>>

\* any other error of the read
BrokenRead ==
    /\ pc = "read" /\ conn = "reset"
    /\ End("err")
    /\ UNCHANGED <<input, control, reader, owed>>
-----------------------------------------------------------------------------
(* the session: process_chunks *)

Headers == IF "h" \in DOMAIN wire[1] THEN {wire[1].h} ELSE setup.reads
Seen == IF pc = "parse" /\ have > 0 THEN Headers ELSE {}

\* slip: the header is remembered before its payload is there
NoMoreRemembered ==
    /\ pc = "parse"
    /\ \/ have = 0 /\ UNCHANGED prev
       \/ \E h \in Seen : ~Refused(h) /\ ~Whole(h) /\ Remember(h)
    /\ pc' = "flush"
    /\ UNCHANGED <<input, control, maxChunk, partial, owed, result, got>>

NoMore ==
    /\ pc = "parse"
    /\ have = 0 \/ \E h \in Seen : ~Refused(h) /\ ~Whole(h)
    /\ pc' = "flush"
    /\ UNCHANGED <<input, control, reader, owed, result, got>>

Partly(h) ==
    /\ TakeChunk(h) /\ ~Complete(h)
    /\ UNCHANGED <<maxChunk, window, unacked, app, caps, publishing, owed, got>>

Kind(h) == MessageHeader(h).type[1]
Arg(h)  == MessageHeader(h).type[2]

\* a message is complete and of kind k
Message(h, k) ==
    /\ TakeChunk(h) /\ Complete(h) /\ Kind(h) = k
    /\ got' = IF ~setup.polite THEN got ELSE
        Append(got, [cs |-> h.cs, head |-> MessageHeader(h), payload |-> Assembled(h)])

OnSetChunkSize(h) ==
    /\ Message(h, "SetChunkSize") /\ Allowed(Arg(h))
    /\ maxChunk' = Arg(h)
    /\ UNCHANGED <<window, unacked, app, caps, publishing, owed>>

OnWindow(h) ==
    /\ Message(h, "WindowAcknowledgementSize")
    /\ window' = Arg(h) /\ unacked' = 0
    /\ UNCHANGED <<maxChunk, app, caps, publishing, owed>>

\* the argument tells if caps_ex has the Reconnect bit
OnConnect(h) ==
    /\ Message(h, "connect")
    /\ app' = TRUE /\ caps' = (Arg(h) = 1)
    /\ Owe("answer")
    /\ UNCHANGED <<maxChunk, window, unacked, publishing>>

OnCreateStream(h) ==
    /\ Message(h, "createStream")
    /\ Owe("answer")
    /\ UNCHANGED <<maxChunk, window, unacked, app, caps, publishing>>

OnPublish(h) ==
    /\ Message(h, "publish") /\ app
    /\ publishing' = publishing \union {MessageHeader(h).ms}
    /\ Owe("answer")
    /\ UNCHANGED <<maxChunk, window, unacked, app, caps>>

\* slip: the stream of the message, not the one it names
DeletedOwn(h) == MessageHeader(h).ms
\* the argument is the stream to delete
Deleted(h) == Arg(h)

OnDeleteStream(h) ==
    /\ Message(h, "deleteStream")
    /\ publishing' = publishing \ {Deleted(h)}
    /\ Owe("answer")
    /\ UNCHANGED <<maxChunk, window, unacked, app, caps>>

\* for the handler, or for nobody
OnData(h) ==
    /\ Message(h, "data")
    /\ UNCHANGED <<maxChunk, window, unacked, app, caps, publishing, owed>>

Parse ==
    /\ \E h \in Seen :
        \/ Partly(h) \/ OnSetChunkSize(h) \/ OnWindow(h) \/ OnConnect(h)
        \/ OnCreateStream(h) \/ OnPublish(h) \/ OnDeleteStream(h) \/ OnData(h)
    /\ UNCHANGED <<pc, seq, skipRead, asked, result>>

\* the session or its handler refuses the message
Handled == {"publish", "deleteStream", "data"}
Rejects(h) ==
    \/ Kind(h) \in Handled \union {"play"}
    \/ Kind(h) = "SetChunkSize" /\ ~Allowed(Arg(h))

\* A message too short to be read is an UnexpectedEof, and a handler may return a
\* timeout of its own: is_client_closed takes both for a client that left.
TakenForGone(h) ==
    \/ Kind(h) = "truncated"
    \/ Kind(h) \in Handled /\ (Kind(h) = "publish" => app)

ParseFails ==
    /\ \E h \in Seen :
        \/ ReadFails(h) /\ End("err")
        \/ ReadsWhole(h) /\ Complete(h) /\ Rejects(h) /\ End("err")
        \/ ReadsWhole(h) /\ Complete(h) /\ TakenForGone(h) /\ Finish
    /\ UNCHANGED <<input, control, reader, owed, got>>

\* a build with overflow checks; any build, when it divides by the window
Panic ==
    /\ \/ \E h \in Seen : ~Refused(h) /\ Overflows(h)
       \/ /\ pc = "read"
          /\ \E n \in Arrived :
                IF window = 0 THEN TRUE ELSE (seq % window) + n >= SeqLimit
    /\ End("panic")
    /\ UNCHANGED <<input, control, reader, owed, got>>

Session ==
    /\ \/ /\ \/ HandshakeRead \/ Hello \/ Echo \/ Cancelled \/ HandshakeFails
             \/ Flush \/ FlushFails \/ Drive \/ Read \/ ClientGone \/ BrokenRead
          /\ UNCHANGED got
       \/ NoMore \/ Parse \/ ParseFails \/ Panic
    /\ UNCHANGED <<setup, done, client>>

Next == Client \/ ContextDone \/ Session
Spec == Init /\ [][Next]_vars
-----------------------------------------------------------------------------
(* properties *)

PCs == {"hello", "greet", "echo", "drive", "read", "parse", "flush", "ended"}
Owable == {"greeting", "SetChunkSize", "reconnect", "acknowledgement", "answer"}

SessionTypeOK ==
    /\ setup \in Setups /\ pc \in PCs
    /\ seq \in 0 .. SeqLimit - 1 /\ window \in Nat /\ unacked \in Nat
    /\ skipRead \in BOOLEAN /\ app \in BOOLEAN /\ caps \in BOOLEAN
    /\ asked \in BOOLEAN /\ done \in BOOLEAN
    /\ publishing \subseteq Nat /\ owed \subseteq Owable
    /\ result \in {"none", "true", "false", "err", "panic"}
    /\ (result = "none") = (pc # "ended")
    /\ got \in Seq([cs : Nat, head : MsgHeader, payload : Seq(Unit)])

ClientTypeOK ==
    /\ greeted \in Nat /\ conn \in {"open", "shut", "reset"} /\ writeSize \in Nat
    /\ said \in Seq(MsgOnStream) /\ last \in [DOMAIN last -> MsgOnStream]
    /\ \A cs \in DOMAIN sending :
        sending[cs].id \in DOMAIN said /\ sending[cs].sent \in 0 .. said[sending[cs].id].len
    /\ finished \in Seq(DOMAIN said)

\* the types of the state of ChunkReader, ServerSession and the client
TypeOK == ReaderTypeOK /\ SessionTypeOK /\ ClientTypeOK

\* The messages of a polite client come out of read_chunk in the order in which
\* it finished them, each with its own header (the timestamp its deltas add up
\* to, its stream) and its own payload, however its chunks are interleaved,
\* whatever chunk size it changes to on the way and wherever reads cut the
\* stream.  None of its chunks is refused.
AsSent(id) ==
    LET m == said[id] IN
    [cs |-> m.cs,
     head |-> [ts |-> m.ts, len |-> m.len, type |-> m.type, ms |-> m.ms],
     payload |-> [i \in 1 .. m.len |-> [id |-> id, i |-> i]]]

Reassembly ==
    /\ IsPrefix(got, [n \in DOMAIN finished |-> AsSent(finished[n])])
    /\ setup.polite /\ Seen # {} =>
        /\ "h" \in DOMAIN wire[1]
        /\ \A h \in Seen : ~ReadFails(h) /\ ~Overflows(h)

\* The session never waits for bytes while the ones it has complete a message,
\* nor, but for a reconnect request, with an answer it has not written: the
\* client may be waiting for that answer (the comment at the end of
\* read_chunk's loop names the deadlock).
Finishes(u) == u # Junk /\ IF "h" \in DOMAIN u THEN u.h.len = 0 ELSE u.i = said[u.id].len

NothingLeft ==
    pc = "read" =>
        /\ owed \subseteq {"reconnect"}
        /\ setup.polite => \A i \in 1 .. have : ~Finishes(wire[i])

\* Whatever a client sends, the memory of a session is limited: the headers and
\* the partial messages it remembers (each on a chunk stream with a header), the
\* size of each, and what it leaves in read_buf, which is less than a chunk.
LimitsHold ==
    /\ \A k \in DOMAIN partial : k[1] \in DOMAIN prev
    /\ Cardinality(DOMAIN prev) <= MaxHeaders
    /\ Cardinality(DOMAIN partial) <= MaxPartial
    /\ \A k \in DOMAIN partial : Len(partial[k]) <= MaxPartialSize
    /\ pc = "read" => have <= maxChunk

\* A client that waits for an acknowledgement within two windows gets it, when
\* sequence_number wraps and when the window changes, too; for windows that can
\* be added to a read without an overflow.
AckInTime ==
    window + MaxRead <= SeqLimit => (unacked = 0 \/ unacked < 2 * window)

\* run returns true only when every stream that a client published was deleted
\* after it; at the end of a session, not of a handshake, it returns false only
\* if one was not.
Published(id) ==
    \E n \in DOMAIN got :
        /\ got[n].head.type[1] = "publish" /\ got[n].head.ms = id
        /\ \A k \in n + 1 .. Len(got) : got[k].head.type # <<"deleteStream", id>>

Publishers == {id \in {got[n].head.ms : n \in DOMAIN got} : Published(id)}

ResultTells ==
    [][setup.polite /\ pc # "ended" =>
        /\ result' = "true" => Publishers = {}
        /\ result' = "false" /\ pc \in {"read", "parse"} => Publishers # {}]_vars
=============================================================================
