----------------------------- MODULE Transmuxer -----------------------------
(***************************************************************************)
(* crates/transmuxer, lib.rs and codecs/: FLV tags come in, an initial     *)
(* segment goes out once both sequence headers are there, and then one     *)
(* fragment of MP4 for every frame.  Its caller adds tags and calls mux as *)
(* it likes.                                                               *)
(*                                                                         *)
(* Time comes in milliseconds, of which a second has Second; the video     *)
(* goes out in ticks, of which a frame has Second and a second has Second  *)
(* times the frame rate.  A tag is a record: its type, and what the code   *)
(* reads of it.  Frame rates are whole numbers, for which the arithmetic of  *)
(* the code in f64 is exact; a cast from f64 takes the nearest number of its *)
(* type.                                                                     *)
(***************************************************************************)
EXTENDS Traf

CONSTANTS
    Second,     \* 1000
    AudioFrame, \* 1024 ticks
    MaxQueued,  \* 30
    Narrow,     \* u32::MAX: the longest duration, and the last tfdt of 32 bits
    Tags,       \* that may come
    Setups,     \* the ones that are there, in order, and the ones that may be added
    MaxTags     \* bound on their number

VideoHeaders == {"avc header", "hevc header", "av1 header"}
Frames == {"avc", "hevc", "av1", "audio"}

\* FlvTag, as far as it is read
TagTyped(tag) ==
    /\ tag.type \in VideoHeaders \union {"audio header"} => tag.valid \in BOOLEAN
    /\ tag.type = "avc header" => tag.sps \in BOOLEAN
    /\ tag.type \in VideoHeaders \union {"meta"} => tag.fps \in Nat
    /\ tag.type \in Frames => tag.size \in Nat
    /\ tag.type \in Frames \ {"audio"} => tag.ts \in Nat /\ tag.key \in BOOLEAN
    /\ tag.type = "hevc" => tag.cto \in Int
    /\ tag.type = "avc" => tag.cto \in Nat

ASSUME TransmuxerAssumption ==
    /\ Second \in Nat \ {0} /\ AudioFrame \in Nat \ {0}
    /\ MaxQueued \in Nat /\ Narrow \in Nat /\ MaxTags \in Nat
    /\ None \notin Int \union {"sync", "depends"} \union Tags
    /\ None \notin [video : Tags, audio : Tags, fps : Nat]
    /\ \A tag \in Tags : TagTyped(tag)
    /\ Setups \subseteq [first : Seq(Tags), more : SUBSET Tags]

VARIABLES
    setup,    \* the inputs of this behaviour
    tags,     \* VecDeque of the tags that mux has not taken
    settings, \* None before the initial segment
    seq,      \* sequence_number
    end,      \* audio_duration and video_duration
    last,     \* last_video_timestamp
    \* history
    fed,      \* all tags
    gone,     \* how many of them mux has taken
    segments, \* that mux returned
    refusal   \* the error that mux returned last, or that it panicked

history == <<fed, gone, segments, refusal>>
vars == <<setup, tags, settings, seq, end, last, history>>

Init ==
    /\ setup \in Setups
    /\ tags = setup.first /\ fed = setup.first /\ gone = 0
    /\ settings = None
    /\ seq = 1
    /\ end = [track \in {"audio", "video"} |-> 0]
    /\ last = 0
    /\ segments = <<>> /\ refusal = None

\* add_tag; demux calls it for every tag of its data
AddTag(tag) ==
    /\ Len(fed) < MaxTags
    /\ tags' = Append(tags, tag) /\ fed' = Append(fed, tag)
    /\ UNCHANGED <<setup, settings, seq, end, last, gone, segments, refusal>>
-----------------------------------------------------------------------------
(* the initial segment *)

Of(types) == {i \in DOMAIN tags : tags[i].type \in types}
Greatest(S) == CHOOSE i \in S : \A j \in S : j <= i
Least(S) == CHOOSE i \in S : \A j \in S : i <= j

\* find_tags stops when it has one of each kind; before, a later one replaces an earlier
Scanned ==
    LET whole == {n \in 0 .. Len(tags) :
                    \A types \in {VideoHeaders, {"audio header"}, {"meta"}} :
                        \E i \in Of(types) : i <= n}
    IN  IF whole = {} THEN Len(tags) ELSE Least(whole)

Found(types) ==
    LET there == {i \in Of(types) : i <= Scanned}
    IN  IF there = {} THEN None ELSE tags[Greatest(there)]

Video == Found(VideoHeaders)
Audio == Found({"audio header"})
Meta  == Found({"meta"})

\* the rate of the stream's own header comes before that of its metadata
FrameRate ==
    IF Video.fps # 0 THEN Video.fps ELSE IF Meta = None THEN 0 ELSE Meta.fps

\* slip: the queue is emptied when the transmuxer gives up
Waiting_Cleared == tags' = <<>>

Waiting == tags' = tags

\* init_sequence finds no pair of headers
MuxWaits ==
    /\ settings = None /\ (Video = None \/ Audio = None)
    /\ Waiting
    /\ refusal' = IF Len(tags) > MaxQueued THEN "no sequence headers" ELSE refusal
    /\ UNCHANGED <<setup, settings, seq, end, last, fed, gone, segments>>

\* the first SPS of a list that may be empty
Panics == Video.type = "avc header" /\ ~Video.sps

Sound == ~Panics /\ Video.valid /\ Audio.valid /\ FrameRate # 0

\* a header without SPS or that does not parse, or no frame rate: the next call will
\* find the same
MuxInitFails ==
    /\ settings = None /\ Video # None /\ Audio # None /\ ~Sound
    /\ refusal' = IF Panics THEN "panic" ELSE "invalid"
    /\ UNCHANGED <<setup, tags, settings, seq, end, last, fed, gone, segments>>

MuxInit ==
    /\ settings = None /\ Video # None /\ Audio # None /\ Sound
    /\ settings' = [video |-> Video, audio |-> Audio, fps |-> FrameRate]
    /\ segments' = Append(segments, [type |-> "init", settings |-> settings'])
    /\ UNCHANGED <<setup, tags, seq, end, last, fed, gone, refusal>>
-----------------------------------------------------------------------------
(* the media segments *)

Distance(a, b) == IF a < b THEN b - a ELSE a - b

\* a cast to a type of integers
Cast(x, low, high) == IF x < low THEN low ELSE IF high < x THEN high ELSE x

\* a delta that is one more or less than a frame takes is a frame
Ticks(delta, fps) ==
    IF Distance(delta * fps, Second) <= fps THEN Second ELSE Cast(delta * fps, 0, Narrow)

Duration(tag) ==
    IF last = 0 \/ tag.ts = 0 \/ tag.ts < last
    THEN Second
    ELSE Ticks(tag.ts - last, settings.fps)

\* an offset of AVC is a u32, one of HEVC an i32
CastOffset(tag, x) ==
    IF tag.type = "avc" THEN Cast(x, 0, Narrow) ELSE Cast(x, -(Narrow \div 2) - 1, Narrow \div 2)

\* in whole frames; below zero only for HEVC, as an offset of AVC is read without a sign
Composition(tag) == CastOffset(tag, ((tag.cto * settings.fps) \div Second) * Second)

\* trun_sample of the codecs; of the flags a keyframe tells
Sample(tag) ==
    [duration |-> IF tag.type = "audio" THEN AudioFrame ELSE Duration(tag),
     size     |-> tag.size,
     flags    |-> IF tag.type = "audio" \/ tag.key THEN "sync" ELSE "depends",
     cto      |-> IF tag.type \in {"audio", "av1"} THEN None ELSE Composition(tag)]

Track(tag) == IF tag.type = "audio" THEN "audio" ELSE "video"

\* slip: the offset is that of the moof before optimize
Fragment_Early(tag) ==
    LET plain == Traf(Tfhd(None, None, None, None), Trun(<<Sample(tag)>>, None), end[Track(tag)])
    IN  [Optimize(plain) EXCEPT !.trun.offset = MoofSize(plain, plain.tfdt > Narrow) + 2]

Fragment(tag) ==
    LET plain == Traf(Tfhd(None, None, None, None), Trun(<<Sample(tag)>>, None), end[Track(tag)])
        traf  == Optimize(plain)
    IN  [traf EXCEPT !.trun.offset = MoofSize(traf, traf.tfdt > Narrow) + 2]

Advance(tag) == [end EXCEPT ![Track(tag)] = @ + Sample(tag).duration]

\* slip: a frame of the audio sets last_video_timestamp as well
Clock_Any(tag) == tag.ts

Clock(tag) == IF Track(tag) = "video" THEN tag.ts ELSE last

\* the tags before the first frame are taken and dropped
NextFrame == {i \in DOMAIN tags : /\ tags[i].type \in Frames
                                  /\ \A j \in 1 .. i - 1 : tags[j].type \notin Frames}

MuxMedia ==
    /\ settings # None
    /\ \E i \in NextFrame :
        LET tag == tags[i] IN
        /\ segments' = Append(segments,
            [type |-> "media", seq |-> seq, traf |-> Fragment(tag), track |-> Track(tag),
             time |-> end[Track(tag)], keyframe |-> Track(tag) = "video" /\ tag.key,
             data |-> gone + i])
        /\ tags' = SubSeq(tags, i + 1, Len(tags)) /\ gone' = gone + i
        /\ seq' = seq + 1
        /\ end' = Advance(tag)
        /\ last' = Clock(tag)
    /\ UNCHANGED <<setup, settings, fed, refusal>>

\* no tag, or none that is supported
MuxNothing ==
    /\ settings # None /\ tags # <<>> /\ Of(Frames) = {}
    /\ tags' = <<>> /\ gone' = gone + Len(tags)
    /\ UNCHANGED <<setup, settings, seq, end, last, fed, segments, refusal>>

Mux == MuxWaits \/ MuxInitFails \/ MuxInit \/ MuxMedia \/ MuxNothing

Next == Mux \/ \E tag \in setup.more : AddTag(tag)

Spec == Init /\ [][Next]_vars
-----------------------------------------------------------------------------
Media == {i \in DOMAIN segments : segments[i].type = "media"}
OnTrack(track) == {i \in Media : segments[i].track = track}
TagOf(i) == fed[segments[i].data]

(* Whenever mux is called, before the headers are there, after it gave up or *)
(* failed: each frame that was fed goes out once, in the order it came, after *)
(* one initial segment.  Sequence numbers have no gaps, and on each track a  *)
(* segment starts where the one before it ends for who plays it.             *)
SegmentsFollowTags ==
    /\ fed = SubSeq(fed, 1, gone) \o tags
    /\ {segments[i].data : i \in Media} = {i \in 1 .. gone : fed[i].type \in Frames}
    /\ \A i, j \in Media : i < j => segments[i].data < segments[j].data
    /\ \A i \in DOMAIN segments : segments[i].type = "init" <=> i = 1
    /\ \A i \in Media :
        /\ segments[i].seq = i - 1
        /\ LET before == {j \in OnTrack(segments[i].track) : j < i} IN
            segments[i].traf.tfdt =
                IF before = {} THEN 0
                ELSE LET prev == segments[Greatest(before)].traf
                     IN  prev.tfdt + Effective(prev, 1, "duration")

(* Each fragment passes the checks of mux, its offset is where the payload   *)
(* begins, and a player finds in it, after optimize, what the tag said of    *)
(* the frame: its size, whether it is a keyframe, and when to show it, less  *)
(* than one frame early and as far as the field can hold it.                 *)
SamplesKept ==
    \A i \in Media :
        LET traf == segments[i].traf
            cto  == Effective(traf, 1, "cto")
        IN  /\ Valid(traf)
            /\ traf.trun.offset = 2 + MoofSize(traf, traf.tfdt > Narrow)
            /\ TrunSize(traf.trun) = TrunWritten(traf.trun)
            /\ Effective(traf, 1, "size") = TagOf(i).size
            /\ Effective(traf, 1, "flags") =
                IF segments[i].track = "audio" \/ segments[i].keyframe THEN "sync" ELSE "depends"
            /\ IF TagOf(i).type \in {"audio", "av1"} THEN cto = 0
               ELSE LET due == CastOffset(TagOf(i), TagOf(i).cto * settings.fps)
                    IN  cto <= due /\ due < cto + Second

\* no gap between a frame and the next takes more ticks than a duration can say, which
\* is about 40 hours at 30 frames per second
Unbroken ==
    LET video == OnTrack("video") IN
    \A i, j \in video :
        (i < j /\ \A k \in video : k <= i \/ j <= k)
            => (TagOf(j).ts - TagOf(i).ts) * settings.fps <= Narrow

(* "we can always represent the delta as an integer": as long as the video's *)
(* timestamps start after 0 and do not go back, what it has played at the    *)
(* end of a frame is never ahead of the time that its timestamps say, but    *)
(* for what a tick of the millisecond clock per frame makes up, and as long  *)
(* as no gap is too long for a duration it is not behind either, whatever    *)
(* audio comes between.                                                      *)
InSync ==
    LET video == OnTrack("video") IN
    (\A i, j \in video : 0 < TagOf(i).ts /\ (i < j => TagOf(i).ts <= TagOf(j).ts)) =>
        \A i \in video :
            LET traf   == segments[i].traf
                played == traf.tfdt + Effective(traf, 1, "duration")
                due    == Second + (TagOf(i).ts - TagOf(Least(video)).ts) * settings.fps
                slack  == settings.fps * Cardinality({j \in video : j < i})
            IN  played <= due + slack /\ (Unbroken => due <= played + slack)
=============================================================================
