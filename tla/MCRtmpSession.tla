--------------------------- MODULE MCRtmpSession ---------------------------
(* Two polite clients, of chunks and of commands, and two of junk. *)
EXTENDS RtmpSession

Says(cs, ms, kind, arg, len, ts) ==
    [cs |-> cs, ms |-> ms, type |-> <<kind, arg>>, len |-> len, ts |-> ts]

\* interleaved messages of up to two chunks, and a change of the chunk size
Chunks == [polite |-> TRUE, calm |-> TRUE, most |-> 3, fmts |-> 0 .. 3, reads |-> {},
    says |-> {Says(1, 1, "data", 0, 2, 1), Says(2, 2, "data", 0, 2, 0),
              Says(2, 0, "SetChunkSize", 2, 1, 0)}]

\* streams published, deleted and published again
Commands == [polite |-> TRUE, calm |-> FALSE, most |-> 3, fmts |-> {0}, reads |-> {},
    says |-> {Says(1, 1, "connect", 1, 1, 0), Says(1, 0, "deleteStream", 1, 1, 0),
              Says(1, 1, "publish", 0, 1, 0), Says(1, 2, "publish", 0, 1, 0)}]

\* any header of three formats, which differ in the fields the reader takes
AnyHeader ==
    LET Fmt(css, fmt, lens, streams) ==
            [cs : css, fmt : {fmt}, ts : {0}, len : lens, type : {<<"data", 0>>}, ms : streams]
    IN Fmt(1 .. 3, 0, {0, 3, 4}, {1}) \union Fmt({1}, 0, {3}, {2})
         \union Fmt(1 .. 2, 1, {0, 3}, {1}) \union Fmt(1 .. 2, 3, {0}, {1})

Noise == [polite |-> FALSE, calm |-> TRUE, most |-> 6, fmts |-> {}, says |-> {}, reads |-> AnyHeader]

\* small messages, timestamps that overflow, and windows from none to one that overflows
Stream == [polite |-> FALSE, calm |-> TRUE, most |-> 8, fmts |-> {}, says |-> {},
    reads |-> [cs : {1}, fmt : {0, 2}, ts : {2}, len : {1},
               type : {<<"createStream", 0>>, <<"truncated", 0>>, <<"SetChunkSize", 3>>}
                 \union {<<"WindowAcknowledgementSize", w>> : w \in {0, 2, 7}},
               ms : {1}]]

AllSetups == {Chunks, Commands, Noise, Stream}
=============================================================================
