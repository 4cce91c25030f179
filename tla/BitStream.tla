------------------------------ MODULE BitStream ------------------------------
(***************************************************************************)
(* crates/bytes-util, bit_write.rs and bit_read.rs, and crates/expgolomb:  *)
(* a BitWriter writes symbols, numbers of so many bits, Exp-Golomb codes   *)
(* and bytes; when it is finished, a BitReader reads them.                 *)
(*                                                                         *)
(* The parameter sets of H.264 and H.265 are written and read through an   *)
(* EmulationPreventionIo (module EmulationPrevention), one symbol after    *)
(* the other.  Through a plain stream a reader may also seek, and read     *)
(* bits and bytes from where it is.  A byte has ByteBits bits, a number    *)
(* NumberBits.                                                             *)
(***************************************************************************)
EXTENDS EmulationPrevention

CONSTANTS
    NoSymbol, \* when none is being read
    ByteBits, \* 8
    NumberBits, \* 64
    Symbols,  \* that may be written
    Moves,    \* counts to seek by, and counts of bytes to read or seek by
    MaxSymbols, \* bound on the symbols written
    MaxPast   \* bound on the bytes a seek goes past the end of the stream

Operations == {"bits", "ue", "se", "bytes", "align"}

\* what is known of a symbol while it is read
Readings == [op : Operations, counting : BOOLEAN, left : Nat, value : Nat, bytes : Seq(Bytes)]

ASSUME BitAssumption ==
    /\ ByteBits \in Nat \ {0} /\ NumberBits \in Nat /\ ByteBits <= NumberBits
    /\ Bytes = 0 .. 2 ^ ByteBits - 1
    /\ Moves \subseteq Int /\ {MaxSymbols, MaxPast} \subseteq Nat
    /\ NoSymbol \notin Readings

\* The numbers are below the largest one, whose Exp-Golomb code overflows.
ASSUME SymbolsAssumption == \A s \in Symbols :
    /\ s.op \in Operations
    /\ s.value \in Int /\ s.count \in Nat
    /\ s.op = "bits" => s.value \in 0 .. 2 ^ NumberBits - 1 /\ s.count <= NumberBits
    /\ s.op = "ue" => s.value \in 0 .. 2 ^ NumberBits - 2
    /\ s.op = "se" => 2 * s.value \in 2 - 2 ^ NumberBits .. 2 ^ NumberBits - 1
    /\ s.op = "bytes" => s.value \in Bytes

\* What proofs use of the powers of 2.
ASSUME PowersAssumption ==
    2 ^ 0 = 1 /\ \A n \in 0 .. NumberBits - 1 : 2 ^ (n + 1) = 2 * 2 ^ n

VARIABLES
    phase,  \* is the stream being written or read?
    wpos,   \* bit_pos of the writer
    wbyte,  \* its current_byte
    todo,   \* the pieces left of the symbol it writes: single bits or bytes
    rpos,   \* bit_pos of the reader
    rbyte,  \* its current_byte
    reading, \* progress of the symbol it reads
    \* history
    flat,   \* the bits written
    script, \* the symbols written
    said,   \* what was read of them
    position, \* how many bits the reader is past the beginning
    shown,  \* the bits it returned last
    stale   \* is current_byte another byte than the one bit_pos is in?

writer  == <<wpos, wbyte, todo>>
reader  == <<rpos, rbyte, reading>>
records == <<flat, script, said, position, shown, stale>>
bitVars == <<epvars, phase, writer, reader, records>>

BitInit ==
    /\ EpInit
    /\ phase = "write"
    /\ wpos = 0 /\ wbyte = 0 /\ todo = <<>>
    /\ rpos = 0 /\ rbyte = 0 /\ reading = NoSymbol
    /\ flat = <<>> /\ script = <<>> /\ said = <<>>
    /\ position = 0 /\ shown = <<>> /\ stale = FALSE
-----------------------------------------------------------------------------
(* the code *)

\* the bits of v, the first one first
BitsOf(v, count) == [i \in 1 .. count |-> (v \div 2 ^ (count - i)) % 2]

Zeros(count) == [i \in 1 .. count |-> 0]

\* leading_zeros of write_exp_golomb and size_of_exp_golomb
LeadingZeros(v) == CHOOSE z \in 0 .. NumberBits - 1 : 2 ^ z <= v + 1 /\ v + 1 < 2 ^ (z + 1)

ExpGolomb(v) == Zeros(LeadingZeros(v)) \o BitsOf(v + 1, LeadingZeros(v) + 1)

\* size_of_exp_golomb
SizeOf(v) == 2 * LeadingZeros(v) + 1

\* slip: zero and its neighbours share a code
Folded_Abs(v) == IF v <= 0 THEN -v * 2 ELSE v * 2

\* write_signed_exp_golomb
Folded(v) == IF v <= 0 THEN -v * 2 ELSE v * 2 - 1

\* read_signed_exp_golomb
Unfolded(v) == IF v % 2 = 0 THEN -(v \div 2) ELSE v \div 2 + 1

Copies(v, count) == [i \in 1 .. count |-> v]

Single(bits) == [i \in DOMAIN bits |-> <<bits[i]>>]

\* write_bits refuses a number that is too large
Fits(s) == s.op = "bits" => s.value < 2 ^ s.count

\* bytes go out whole when the writer is aligned
Pieces(s) ==
    CASE s.op = "bits"  -> Single(BitsOf(s.value, s.count))
      [] s.op = "ue"    -> Single(ExpGolomb(s.value))
      [] s.op = "se"    -> Single(ExpGolomb(Folded(s.value)))
      [] s.op = "bytes" -> IF wpos = 0
                           THEN Copies(BitsOf(s.value, ByteBits), s.count)
                           ELSE [i \in 1 .. s.count * ByteBits |->
                                    <<BitsOf(s.value, ByteBits)[((i - 1) % ByteBits) + 1]>>]
      [] s.op = "align" -> IF wpos = 0 THEN <<>> ELSE Single(Zeros(ByteBits - wpos))

\* / and % of the code, which round towards zero
Quotient(n)  == IF n >= 0 THEN n \div ByteBits ELSE -((-n) \div ByteBits)
Remainder(n) == n - ByteBits * Quotient(n)

\* what a symbol stands for: a number, or some bytes
Meaning(s) ==
    CASE s.op = "bytes" -> Copies(s.value, s.count)
      [] s.op = "align" -> 0
      [] OTHER          -> s.value
-----------------------------------------------------------------------------
(* writing *)

WriteSymbol(s) ==
    /\ phase = "write" /\ todo = <<>> /\ Len(script) < MaxSymbols /\ Fits(s)
    /\ todo' = Pieces(s)
    /\ script' = Append(script, s)
    /\ UNCHANGED <<epvars, phase, wpos, wbyte, reader, flat, said, position, shown, stale>>

\* current_byte with its next bit
Completed(bit) == wbyte + bit * 2 ^ (ByteBits - 1 - wpos)

\* write_bit
WriteBit ==
    /\ todo # <<>> /\ Len(Head(todo)) = 1
    /\ LET bit == Head(todo)[1] IN
        /\ IF wpos + 1 = ByteBits
           THEN Put(Completed(bit)) /\ wpos' = 0 /\ wbyte' = 0
           ELSE wpos' = wpos + 1 /\ wbyte' = Completed(bit) /\ UNCHANGED epvars
        /\ flat' = Append(flat, bit)
    /\ todo' = Tail(todo)
    /\ UNCHANGED <<phase, reader, script, said, position, shown, stale>>

\* write of an aligned writer
WriteByte ==
    /\ todo # <<>> /\ Len(Head(todo)) # 1
    /\ Put(script[Len(script)].value)
    /\ flat' = flat \o Head(todo) /\ todo' = Tail(todo)
    /\ UNCHANGED <<phase, wpos, wbyte, reader, script, said, position, shown, stale>>

\* finish, after its align; the script of a plain stream is needed no more
Finish ==
    /\ phase = "write" /\ todo = <<>> /\ wpos = 0
    /\ phase' = "read"
    /\ script' = IF nal THEN script ELSE <<>>
    /\ UNCHANGED <<epvars, writer, reader, flat, said, position, shown, stale>>
-----------------------------------------------------------------------------
(* reading *)

\* a bit of a byte
BitAt(byte, pos) == (byte \div 2 ^ (ByteBits - 1 - pos)) % 2

\* read_bit, after an update_byte when the reader is aligned; what a stale
\* byte gives is not shown
ReadBit(bit) ==
    /\ IF rpos = 0
       THEN Take /\ rbyte' = stream[Here]
       ELSE UNCHANGED <<epvars, rbyte>>
    /\ bit = BitAt(rbyte', rpos)
    /\ rpos' = (rpos + 1) % ByteBits
    /\ position' = position + 1
    /\ shown' = IF stale THEN <<>> ELSE <<bit>>
    /\ stale' = (stale /\ rpos' # 0)
    /\ UNCHANGED <<phase, writer, flat, script>>

\* the next symbol, in a stream of symbols
BeginSymbol ==
    /\ phase = "read" /\ nal /\ reading = NoSymbol /\ Len(said) < Len(script)
    /\ LET s == script[Len(said) + 1] IN
        reading' = [op |-> s.op, counting |-> s.op \in {"ue", "se"},
                    left |-> CASE s.op = "bits" -> s.count
                               [] s.op = "bytes" -> s.count * ByteBits
                               [] OTHER -> 0,
                    value |-> IF s.op \in {"ue", "se"} THEN 1 ELSE 0,
                    bytes |-> <<>>]
    /\ UNCHANGED <<epvars, phase, writer, rpos, rbyte, records>>

\* read_bits and read_exp_golomb, bit by bit, and read of an unaligned reader
ReadSymbolBit(bit) ==
    /\ reading # NoSymbol /\ (reading.counting \/ reading.left > 0)
    /\ reading.op = "bytes" => rpos # 0 \/ reading.left % ByteBits # 0
    /\ ReadBit(bit)
    /\ reading' =
        CASE reading.counting ->
                IF bit = 0 THEN [reading EXCEPT !.left = @ + 1] ELSE [reading EXCEPT !.counting = FALSE]
          [] reading.op = "bytes" /\ (reading.left - 1) % ByteBits = 0 ->
                [reading EXCEPT !.left = @ - 1, !.value = 0, !.bytes = Append(@, 2 * reading.value + bit)]
          [] OTHER -> [reading EXCEPT !.left = @ - 1, !.value = 2 * @ + bit]
    /\ UNCHANGED said

\* read of an aligned reader
ReadSymbolByte ==
    /\ reading # NoSymbol /\ reading.op = "bytes" /\ reading.left > 0
    /\ rpos = 0 /\ reading.left % ByteBits = 0
    /\ Take
    /\ reading' = [reading EXCEPT !.left = @ - ByteBits, !.bytes = Append(@, stream[Here])]
    /\ position' = position + ByteBits /\ shown' = BitsOf(stream[Here], ByteBits)
    /\ UNCHANGED <<phase, writer, rpos, rbyte, flat, script, said, stale>>

\* the ends of read_bits, read_exp_golomb, read_signed_exp_golomb and align
EndSymbol ==
    /\ reading # NoSymbol /\ ~reading.counting /\ reading.left = 0
    /\ said' = Append(said, CASE reading.op = "ue"    -> reading.value - 1
                              [] reading.op = "se"    -> Unfolded(reading.value - 1)
                              [] reading.op = "bytes" -> reading.bytes
                              [] OTHER                -> reading.value)
    /\ reading' = NoSymbol
    /\ IF reading.op = "align" /\ rpos # 0
       THEN rpos' = 0 /\ position' = position + ByteBits - rpos
       ELSE UNCHANGED <<rpos, position>>
    /\ shown' = <<>>
    /\ UNCHANGED <<epvars, phase, writer, rbyte, flat, script, stale>>
-----------------------------------------------------------------------------
(* moving about in a plain stream, a Cursor *)

Free == phase = "read" /\ ~nal

ReadFreeBit(bit) == Free /\ ReadBit(bit) /\ UNCHANGED <<reading, said>>

\* read_bit past the end: read_exact of a Cursor fails and leaves it at the end
ReadNoBit ==
    /\ Free /\ rpos = 0 /\ rat > Len(stream)
    /\ rat' = Len(stream)
    /\ position' = rat' * ByteBits /\ shown' = <<>>
    /\ UNCHANGED <<nal, stream, wzeros, rzeros, ephistory,
                   phase, writer, rpos, rbyte, reading, flat, script, said, stale>>

\* bit_stream_position
StreamPosition == rat * ByteBits + (IF rpos = 0 THEN 0 ELSE rpos - ByteBits)

\* read of one byte, bit by bit when the reader is not aligned; at the end of
\* the stream the bits left of the last byte are lost
ReadFreeByte ==
    /\ Free
    /\ \/ /\ rpos = 0 /\ Take
          /\ shown' = BitsOf(stream[Here], ByteBits) /\ position' = position + ByteBits
          /\ UNCHANGED <<rpos, rbyte, stale>>
       \/ /\ rpos # 0 /\ Take
          /\ shown' = IF stale THEN <<>>
                      ELSE SubSeq(BitsOf(rbyte, ByteBits), rpos + 1, ByteBits)
                           \o SubSeq(BitsOf(stream[Here], ByteBits), 1, rpos)
          /\ rbyte' = stream[Here] /\ stale' = FALSE /\ position' = position + ByteBits
          /\ UNCHANGED rpos
       \/ /\ rpos # 0 /\ AtEnd
          /\ rpos' = 0 /\ stale' = FALSE /\ shown' = <<>>
          /\ position' = rat * ByteBits
          /\ UNCHANGED <<epvars, rbyte>>
    /\ UNCHANGED <<phase, writer, reading, flat, script, said>>

\* slip: a move to the left is rounded the way a division of naturals is
Landing_Down(count) ==
    rat + Quotient(rpos + count) - (IF rpos # 0 THEN 1 ELSE 0)

\* the byte that seek_bits moves the Cursor to
Landing(count) ==
    rat + Quotient(rpos + count) - (IF rpos # 0 THEN 1 ELSE 0)
        - (IF Remainder(rpos + count) < 0 THEN 1 ELSE 0)

\* seek_bits, when the byte it moves to is not before the first one; past the
\* last one update_byte fails, after bit_pos is set
SeekBits(count) ==
    /\ Free /\ count # 0 /\ Landing(count) \in 0 .. Len(stream) + MaxPast
    /\ rpos' = (ByteBits + Remainder(rpos + count)) % ByteBits
    /\ \/ /\ rpos' = 0
          /\ rat' = Landing(count)
          /\ position' = position + count /\ stale' = FALSE
          /\ UNCHANGED rbyte
       \/ /\ rpos' # 0 /\ Landing(count) < Len(stream)
          /\ rat' = Landing(count) + 1 /\ rbyte' = stream[Landing(count) + 1]
          /\ position' = position + count /\ stale' = FALSE
       \/ /\ rpos' # 0 /\ Landing(count) >= Len(stream)
          /\ rat' = Len(stream)
          /\ position' = (rat' - 1) * ByteBits + rpos' /\ stale' = TRUE
          /\ UNCHANGED rbyte
    /\ shown' = <<>>
    /\ UNCHANGED <<nal, stream, wzeros, rzeros, ephistory,
                   phase, writer, reading, flat, script, said>>

\* seek to the byte at place, or nowhere when that is before the first one;
\* the reader is aligned either way
SeekTo(place) ==
    /\ Free /\ place <= Len(stream) + MaxPast
    /\ rpos' = 0 /\ stale' = FALSE /\ shown' = <<>>
    /\ rat' = IF place >= 0 THEN place ELSE rat
    /\ position' = rat' * ByteBits
    /\ UNCHANGED <<nal, stream, wzeros, rzeros, ephistory,
                   phase, writer, rbyte, reading, flat, script, said>>

\* seek, from the beginning, from the end, and from where the reader is
Seek(offset) ==
    \/ offset >= 0 /\ SeekTo(offset)
    \/ SeekTo(Len(stream) + offset)
    \/ rpos = 0 /\ SeekTo(rat + offset)
    \/ rpos # 0 /\ SeekBits(offset * ByteBits)
-----------------------------------------------------------------------------
BitNext ==
    \/ \E s \in Symbols : WriteSymbol(s)
    \/ WriteBit \/ WriteByte \/ Finish
    \/ BeginSymbol \/ ReadSymbolByte \/ EndSymbol
    \/ \E bit \in {0, 1} : ReadSymbolBit(bit) \/ ReadFreeBit(bit)
    \/ ReadNoBit \/ ReadFreeByte
    \/ \E count \in Moves : SeekBits(count) \/ Seek(count)

BitSpec == BitInit /\ [][BitNext]_bitVars
-----------------------------------------------------------------------------
(* What is read of a stream of symbols are the symbols that were written, in *)
(* their order: numbers, Exp-Golomb codes of either sign, bytes across byte  *)
(* boundaries; and a code is as long as size_of_exp_golomb says.             *)
SymbolsReturn ==
    /\ \A i \in DOMAIN said : said[i] = Meaning(script[i])
    /\ \A i \in DOMAIN script : /\ script[i].op = "ue" => Len(Pieces(script[i])) = SizeOf(script[i].value)
                               /\ script[i].op = "se" => Len(Pieces(script[i])) = SizeOf(Folded(script[i].value))

(* Wherever seeks of bits and bytes, forward and backward, have moved it, a  *)
(* reader knows where it is and returns the bits that were written there;    *)
(* only after a seek_bits that failed, past the end, does it return others.  *)
ReaderIsThere ==
    phase = "read" /\ ~stale =>
        /\ ~nal => position = StreamPosition
        /\ shown = SubSeq(flat, position - Len(shown) + 1, position)
=============================================================================
