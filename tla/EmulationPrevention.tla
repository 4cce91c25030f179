------------------------ MODULE EmulationPrevention ------------------------
(***************************************************************************)
(* crates/bytes-util, nal_emulation_prevention.rs: what is written through *)
(* an EmulationPreventionIo never looks like the beginning of another NAL  *)
(* unit, and is read back through one as it was.                           *)
(*                                                                         *)
(* Without one, in a plain stream, bytes are written and read as they are. *)
(* The count of zeros is a u8 in the code; in a stream that was written    *)
(* through an EmulationPreventionIo it never gets above 2, and no escape   *)
(* byte is the last one.                                                   *)
(***************************************************************************)
EXTENDS Integers, Sequences

CONSTANT Bytes

Escape == 3

ASSUME BytesAssumption == 0 \in Bytes /\ Escape \in Bytes /\ Bytes \subseteq Nat

VARIABLES
    nal,    \* is the stream written and read through an EmulationPreventionIo?
    stream, \* the bytes of the inner writer
    wzeros, \* zero_count of the writer
    rat,    \* how many bytes of the stream the reader has taken
    rzeros, \* zero_count of the reader
    \* history
    payload, \* the bytes written
    got      \* the bytes read

ephistory == <<payload, got>>
epvars  == <<nal, stream, wzeros, rat, rzeros, ephistory>>

EpInit ==
    /\ nal \in BOOLEAN
    /\ stream = <<>> /\ wzeros = 0
    /\ rat = 0 /\ rzeros = 0
    /\ payload = <<>> /\ got = <<>>

After(zeros, byte) == IF byte = 0 THEN zeros + 1 ELSE 0

\* slip: the zeros are counted one too far
Emulates_Late(byte) == wzeros > 2 /\ byte <= Escape

\* would byte complete a start code?
Emulates(byte) == wzeros >= 2 /\ byte <= Escape

\* write, of one byte
Put(byte) ==
    /\ payload' = Append(payload, byte)
    /\ \/ /\ nal /\ Emulates(byte)
          /\ stream' = stream \o <<Escape, byte>> /\ wzeros' = After(0, byte)
       \/ /\ nal /\ ~Emulates(byte)
          /\ stream' = Append(stream, byte) /\ wzeros' = After(wzeros, byte)
       \/ ~nal /\ stream' = Append(stream, byte) /\ UNCHANGED wzeros
    /\ UNCHANGED <<nal, rat, rzeros, got>>

\* is the next byte of the stream there to be dropped?
Escaped == nal /\ rzeros >= 2 /\ rat < Len(stream) /\ stream[rat + 1] = Escape

\* where the byte is that read returns next
Here == IF Escaped THEN rat + 2 ELSE rat + 1

AtEnd == Here > Len(stream)

\* read, of one byte; got is a record of what is read through an EmulationPreventionIo
Take ==
    /\ ~AtEnd
    /\ rat' = Here
    /\ rzeros' = IF nal THEN After(IF Escaped THEN 0 ELSE rzeros, stream[Here]) ELSE rzeros
    /\ got' = IF nal THEN Append(got, stream[Here]) ELSE got
    /\ UNCHANGED <<nal, stream, wzeros, payload>>

EpNext == Take \/ \E byte \in Bytes : Put(byte)

EpSpec == EpInit /\ [][EpNext]_epvars
-----------------------------------------------------------------------------
(* "Automatically inserts NAL emulation prevention bytes": whatever is       *)
(* written, in pieces of any size, the stream has no three bytes that begin  *)
(* another NAL unit.                                                         *)
NoStartCode ==
    nal => \A i \in 1 .. Len(stream) - 2 :
        stream[i] = 0 /\ stream[i + 1] = 0 => stream[i + 2] >= Escape

(* "... or removes" them: a reader, whatever it has read so far, has read    *)
(* the bytes that were written, in their order.                              *)
GetsPayload ==
    nal => Len(got) <= Len(payload) /\ got = SubSeq(payload, 1, Len(got))
=============================================================================
