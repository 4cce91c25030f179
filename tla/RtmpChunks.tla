----------------------------- MODULE RtmpChunks -----------------------------
(***************************************************************************)
(* crates/rtmp, chunk: the reader that reassembles messages from the       *)
(* chunks in a connection's read buffer, and a writer of chunks.           *)
(*                                                                         *)
(* The stream is a sequence of units.  A chunk is one header unit and one  *)
(* unit for each piece of its payload; a header of which bytes are missing *)
(* is a header that has not arrived.  A header's type stands for the type  *)
(* id and for what the payload parses to.                                  *)
(***************************************************************************)
EXTENDS Integers, Sequences, FiniteSets

CONSTANTS
    InitSize,       \* INIT_CHUNK_SIZE
    MaxSize,        \* MAX_CHUNK_SIZE
    MaxHeaders,     \* MAX_PREVIOUS_CHUNK_HEADERS
    MaxPartial,     \* MAX_PARTIAL_CHUNK_COUNT
    MaxPartialSize, \* MAX_PARTIAL_CHUNK_SIZE
    TsLimit         \* timestamps are below: 2^32

ASSUME RtmpChunksAssumption ==
    /\ InitSize \in Nat \ {0} /\ MaxSize \in Nat /\ InitSize <= MaxSize
    /\ MaxHeaders \in Nat \ {0} /\ MaxPartial \in Nat \ {0}
    /\ MaxPartialSize \in Nat /\ TsLimit \in Nat \ {0}

VARIABLES
    wire,     \* what the peer sent and the reader has not split off
    have,     \* how many units of it are in read_buf
    maxChunk, \* max_chunk_size
    prev,     \* previous_chunk_headers, by chunk stream
    partial   \* partial_chunks, by chunk stream and message stream

reader == <<maxChunk, prev, partial>>

\* what a message can be, as far as the session tells
Kinds == {"SetChunkSize", "WindowAcknowledgementSize", "connect", "createStream",
          "publish", "deleteStream", "play", "data", "truncated"}

MsgHeader == [ts : Nat, len : Nat, type : Kinds \X Nat, ms : Nat]
Header == [cs : Nat, fmt : 0 .. 3, ts : Nat, len : Nat, type : Kinds \X Nat, ms : Nat]

\* a piece of payload: the i-th of message id; a header, of a chunk of message id
Unit == [id : Nat, i : Nat] \union [id : Nat, h : Header]

ReaderTypeOK ==
    /\ wire \in Seq(Unit) /\ have \in 0 .. Len(wire)
    /\ maxChunk \in InitSize .. MaxSize
    /\ prev \in [DOMAIN prev -> MsgHeader]
    /\ partial \in [DOMAIN partial -> Seq(Unit)]

ReaderInit ==
    /\ maxChunk = InitSize
    /\ prev = <<>> /\ partial = <<>>

\* update_max_chunk_size
Allowed(size) == size \in InitSize .. MaxSize

\* HashMap::insert and remove
Put(map, k, v) == [x \in DOMAIN map \union {k} |-> IF x = k THEN v ELSE map[x]]
Drop(map, k) == [x \in DOMAIN map \ {k} |-> map[x]]

Least(a, b) == IF a <= b THEN a ELSE b
-----------------------------------------------------------------------------
(* read_message_header and get_payload_range, for a header h in the buffer *)

Refused(h) ==
    \/ h.fmt \in {0, 1} /\ h.len > MaxPartialSize
    \/ h.fmt # 0 /\ h.cs \notin DOMAIN prev

\* a delta that does not fit is dropped from a type 1 header and wraps in a
\* type 2 header
MessageHeader(h) ==
    CASE h.fmt = 0 -> [ts |-> h.ts, len |-> h.len, type |-> h.type, ms |-> h.ms]
      [] h.fmt = 1 -> LET t == prev[h.cs].ts IN
            [ts |-> IF t + h.ts < TsLimit THEN t + h.ts ELSE t,
             len |-> h.len, type |-> h.type, ms |-> prev[h.cs].ms]
      [] h.fmt = 2 -> [prev[h.cs] EXCEPT !.ts = (@ + h.ts) % TsLimit]
      [] h.fmt = 3 -> prev[h.cs]

MsgLength(h) == MessageHeader(h).len
Key(h) == <<h.cs, MessageHeader(h).ms>>
Held(h) == IF Key(h) \in DOMAIN partial THEN partial[Key(h)] ELSE <<>>

\* the subtraction wraps when more is held than the message is long
NeedRead(h) ==
    IF Len(Held(h)) <= MsgLength(h)
    THEN Least(MsgLength(h) - Len(Held(h)), maxChunk)
    ELSE maxChunk

\* arithmetic that a build with overflow checks panics at
Overflows(h) ==
    \/ h.fmt = 2 /\ prev[h.cs].ts + h.ts >= TsLimit
    \/ Len(Held(h)) > MsgLength(h)
-----------------------------------------------------------------------------
(* read_chunk: one turn of its loop, for a header h *)

Whole(h) == have >= 1 + NeedRead(h)
Payload(h) == SubSeq(wire, 2, 1 + NeedRead(h))

\* the payload is the whole message, with nothing to append it to
Direct(h) == NeedRead(h) = MsgLength(h)
Assembled(h) == IF Direct(h) THEN Payload(h) ELSE Held(h) \o Payload(h)
Complete(h) == Len(Assembled(h)) = MsgLength(h)

TooManyHeaders(h) == Cardinality(DOMAIN prev \union {h.cs}) > MaxHeaders
\* slip: one more than the limit
TooManyPartialsLate(h) ==
    Key(h) \notin DOMAIN partial /\ Cardinality(DOMAIN partial) > MaxPartial
TooManyPartials(h) ==
    Key(h) \notin DOMAIN partial /\ Cardinality(DOMAIN partial) >= MaxPartial
TooLarge(h) == Len(Assembled(h)) > MaxPartialSize

ReadFails(h) ==
    ~Refused(h) =>
        /\ Whole(h)
        /\ TooManyHeaders(h) \/ (~Direct(h) /\ (TooManyPartials(h) \/ TooLarge(h)))

ReadsWhole(h) == ~ReadFails(h) /\ Whole(h)

\* previous_chunk_headers.insert
Remember(h) == prev' = Put(prev, h.cs, MessageHeader(h))

SplitOff(n) ==
    /\ wire' = SubSeq(wire, n + 1, Len(wire))
    /\ have' = have - n

\* what is held of the message is given up with it, or what came is held
Keep(h) ==
    partial' = IF Direct(h) THEN partial
               ELSE IF Complete(h) THEN Drop(partial, Key(h))
               ELSE Put(partial, Key(h), Assembled(h))

TakeChunk(h) ==
    /\ ReadsWhole(h)
    /\ SplitOff(1 + NeedRead(h))
    /\ Remember(h)
    /\ Keep(h)
-----------------------------------------------------------------------------
(* ChunkWriter::write_chunk: the chunk of message id that follows the first *)
(* sent units of its payload, with header h and at most size units          *)

ChunkUnits(id, h, sent, size) ==
    <<[id |-> id, h |-> h]>>
        \o [i \in 1 .. Least(h.len - sent, size) |-> [id |-> id, i |-> sent + i]]
=============================================================================
