---------------------------- MODULE MCTransmuxer ----------------------------
(* Transmuxer with 10 milliseconds a second: streams whose headers come late, *)
(* twice, or are no good, and streams of 3 frames a second.                   *)
EXTENDS Transmuxer

AvcHeader  == [type |-> "avc header", sps |-> TRUE, valid |-> TRUE, fps |-> 3]
Unparsed   == [type |-> "avc header", sps |-> TRUE, valid |-> FALSE, fps |-> 0]
NoSps      == [type |-> "avc header", sps |-> FALSE, valid |-> FALSE, fps |-> 0]
Av1Header  == [type |-> "av1 header", valid |-> TRUE, fps |-> 0]
AacHeader  == [type |-> "audio header", valid |-> TRUE]
OnMetaData == [type |-> "meta", fps |-> 2]
Unknown    == [type |-> "other"]

AudioTag      == [type |-> "audio", ts |-> 4, size |-> 1]
Avc(ts, cto)  == [type |-> "avc", ts |-> ts, cto |-> cto, size |-> 2, key |-> cto = 0]
Hevc(ts, cto) == [type |-> "hevc", ts |-> ts, cto |-> cto, size |-> 2, key |-> FALSE]
Av1(ts)       == [type |-> "av1", ts |-> ts, size |-> 3, key |-> TRUE]

Headers == [first |-> <<>>,
            more  |-> {AvcHeader, Unparsed, NoSps, Av1Header, AacHeader, OnMetaData, AudioTag,
                      Av1(5)}]

Streams == [first |-> <<AacHeader, AvcHeader>>,
            more  |-> {AudioTag, Unknown, Avc(1, 0), Avc(0, 3), Avc(4, 4), Avc(5, 10), Hevc(8, -1),
                      Hevc(9, -5), Av1(15)}]

HeadersAndStreams == {Headers, Streams}
AllTags == Headers.more \union Streams.more
=============================================================================
