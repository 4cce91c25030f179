----------------------------- MODULE RtmpProofs -----------------------------
(***************************************************************************)
(* Theorems about RtmpSession, for any clients, sizes and limits.          *)
(***************************************************************************)
EXTENDS RtmpSession, FiniteSetTheorems, SequenceTheorems, TLAPS
-----------------------------------------------------------------------------
(* Rests *)

IsRest(b, w, r) == 0 <= r /\ r < w /\ \E q \in Int : b = w * q + r

\* The rest of a division is one number only.
LEMMA RestIs ==
    ASSUME NEW a \in Int, NEW w \in Int, w > 0 PROVE IsRest(a, w, a % w)
<1>1. a = w * (a \div w) + (a % w) /\ a \div w \in Int
  OBVIOUS
<1>2. 0 <= a % w /\ a % w < w
  OBVIOUS
<1>. QED
  BY <1>1, <1>2 DEF IsRest

LEMMA IsRestIs ==
    ASSUME NEW b \in Int, NEW w \in Int, NEW r \in Int, IsRest(b, w, r) PROVE b % w = r
<1>1. PICK q \in Int : b = w * q + r
  BY DEF IsRest
<1>2. 0 <= r /\ r < w
  BY DEF IsRest
<1>. QED
  BY <1>1, <1>2

LEMMA ShiftRest ==
    ASSUME NEW b \in Int, NEW w \in Int, NEW r \in Int, NEW n \in Nat,
           IsRest(b, w, r), r + n < w
    PROVE  IsRest(b + n, w, r + n)
<1>1. PICK q \in Int : b = w * q + r
  BY DEF IsRest
<1>2. b + n = w * q + (r + n)
  BY <1>1
<1>3. 0 <= r + n
  BY DEF IsRest
<1>. QED
  BY <1>1, <1>2, <1>3 DEF IsRest

\* What is added within a window is added to the rest.
LEMMA AddWithin ==
    ASSUME NEW a \in Nat, NEW w \in Nat \ {0}, NEW n \in Nat, (a % w) + n < w
    PROVE  (a + n) % w = (a % w) + n
<1>. DEFINE r == a % w
<1>1. a \in Int /\ w \in Int /\ w > 0 /\ r \in Int /\ r + n < w
  OBVIOUS
<1>2. IsRest(a, w, r)
  BY <1>1, RestIs
<1>. HIDE DEF r
<1>. DEFINE b == a + n  s == r + n
<1>3. IsRest(a + n, w, r + n)
  BY <1>1, <1>2, ShiftRest
<1>4. b \in Int /\ s \in Int /\ IsRest(b, w, s)
  BY <1>1, <1>3
<1>. HIDE DEF b, s
<1>5. b % w = s
  BY <1>1, <1>4, IsRestIs
<1>. QED
  BY <1>5 DEF r, b, s

\* The rest is a number below the divisor.
LEMMA RestBounds ==
    ASSUME NEW a \in Nat, NEW w \in Nat \ {0}
    PROVE  a % w \in 0 .. w - 1 /\ (a < w => a % w = a)
OBVIOUS

\* sequence_number after a read: it wraps once at most.
LEMMA SeqAfter ==
    ASSUME NEW l \in Nat \ {0}, NEW a \in 0 .. l - 1, NEW n \in Nat, n <= l
    PROVE  (a + n) % l = IF a + n < l THEN a + n ELSE a + n - l
<1>1. a + n \in Nat /\ a + n < 2 * l
  OBVIOUS
<1>. DEFINE b == a + n
<1>. HIDE DEF b
<1>2. ASSUME NEW c \in Nat, c < 2 * l PROVE c % l = IF c < l THEN c ELSE c - l
  BY <1>2
<1>3. b \in Nat /\ b < 2 * l
  BY <1>1 DEF b
<1>. QED
  BY <1>2, <1>3 DEF b

\* u units, of s read in all, when the last acknowledgement was owed for a window
\* of w: they are at most what is over whole windows; once the count of all has
\* wrapped, that is a window short.
Behind(u, s, w) == u <= s % w \/ (s < w /\ u < w + s)

LEMMA NoneBehind == ASSUME NEW s \in Nat, NEW w \in Nat \ {0} PROVE Behind(0, s, w)
BY RestBounds DEF Behind

LEMMA BehindTwoWindows ==
    ASSUME NEW u \in Nat, NEW s \in Nat, NEW w \in Nat \ {0}, Behind(u, s, w)
    PROVE  u < 2 * w
<1>1. s % w \in 0 .. w - 1
  BY RestBounds
<1>. QED
  BY <1>1 DEF Behind

\* A read of n that owes no acknowledgement, of counts below l.
Silent(s, n, w, l) == ((s % w) + n) % l < w

LEMMA SilentStays ==
    ASSUME NEW l \in Nat \ {0}, NEW w \in Nat \ {0}, NEW m \in Nat, w + m <= l,
           NEW s \in Nat, NEW n \in 0 .. m, Silent(s, n, w, l)
    PROVE  (s % w) + n < w
<1>. DEFINE r == s % w
<1>1. r \in 0 .. w - 1
  BY RestBounds
<1>2. (r + n) % l < w
  BY DEF Silent
<1>. HIDE DEF r
<1>3. r + n \in Nat /\ r + n < l
  BY <1>1
<1>4. (r + n) % l = r + n
  BY <1>3, RestBounds
<1>. QED
  BY <1>2, <1>4 DEF r

\* It stays within the window, and what is behind stays so.
LEMMA BehindAfter ==
    ASSUME NEW l \in Nat \ {0}, NEW w \in Nat \ {0}, NEW m \in Nat, w + m <= l,
           NEW s \in 0 .. l - 1, NEW u \in Nat, Behind(u, s, w),
           NEW n \in 0 .. m, Silent(s, n, w, l)
    PROVE  Behind(u + n, (s + n) % l, w)
<1>. DEFINE r == s % w  t == (s + n) % l
<1>1. r \in 0 .. w - 1 /\ (s < w => r = s)
  BY RestBounds
<1>2. u <= r \/ (s < w /\ u < w + s)
  BY DEF Behind
<1>3. r + n < w
  BY SilentStays
<1>4. (s + n) % w = r + n
  BY <1>3, AddWithin
<1>5. t = IF s + n < l THEN s + n ELSE s + n - l
  BY SeqAfter
<1>6. u + n <= t % w \/ (t < w /\ u + n < w + t) => Behind(u + n, t, w)
  BY DEF Behind
<1>. HIDE DEF r, t
<1>7. CASE s + n < l
  <2>1. t = s + n
    BY <1>5, <1>7
  <2>2. t % w = r + n
    BY <1>4, <2>1
  <2>3. u + n <= r + n \/ (t < w /\ u + n < w + t)
    BY <1>1, <1>2, <1>3, <2>1
  <2>. QED
    BY <1>6, <2>2, <2>3 DEF t
<1>8. CASE s + n >= l
  <2>1. t = s + n - l
    BY <1>5, <1>8
  <2>2. t < w /\ u + n < w + t
    BY <1>1, <1>2, <1>3, <1>8, <2>1
  <2>. QED
    BY <1>6, <2>2 DEF t
<1>. QED
  BY <1>7, <1>8
-----------------------------------------------------------------------------
(* What is on its way *)
(*                                                                         *)
(* The chunks of a polite client that the reader has not taken yet lead    *)
(* from what the reader knows to what the client knows: between any two of *)
(* them stands what the client knew when it had sent the former.           *)

\* what a writer knows: the last message of each chunk stream, what it is sending,
\* the size of its chunks, and what it has sent
Messages == [cs : Nat, head : MsgHeader, payload : Seq(Unit)]
Now == [last |-> last, sending |-> sending, size |-> writeSize, finished |-> finished]

HeadOf(m) == [ts |-> m.ts, len |-> m.len, type |-> m.type, ms |-> m.ms]
Piece(id, i) == [id |-> id, i |-> i]
Pieces(id, n) == [i \in 1 .. n |-> Piece(id, i)]

\* the messages ss of a polite client keep the limits of the session
Polite(m) == m.len <= MaxPartialSize /\ (m.type[1] = "SetChunkSize" => Allowed(m.type[2]))
AllPolite(ss) == \A id \in DOMAIN ss : ss[id] \in MsgOnStream /\ Polite(ss[id])

\* fin starts with s
Starts(s, fin) == Len(s) <= Len(fin) /\ \A i \in 1 .. Len(s) : s[i] = fin[i]

\* knowledge s is of messages ss, of which fin were finished
Sane(s, ss, fin) ==
    /\ DOMAIN s.sending \subseteq DOMAIN s.last /\ IsFiniteSet(DOMAIN s.sending)
    /\ IsFiniteSet(DOMAIN s.last) /\ Cardinality(DOMAIN s.last) <= MaxHeaders
    /\ \A cs \in DOMAIN s.last : s.last[cs] \in MsgOnStream /\ s.last[cs].cs = cs
    /\ \A cs \in DOMAIN s.sending :
        /\ s.sending[cs].id \in DOMAIN ss /\ ss[s.sending[cs].id] = s.last[cs]
        /\ s.sending[cs].sent \in 1 .. s.last[cs].len - 1
    /\ s.size \in InitSize .. MaxSize
    /\ s.finished \in Seq(DOMAIN ss) /\ Starts(s.finished, fin)

\* after the messages of known, header h reads as that of message m
Decodes(known, h, m) ==
    /\ h \in Header /\ h.cs = m.cs /\ h.len = m.len
    /\ h.fmt \in {0, 1} => h.type = m.type
    /\ h.fmt = 0 => h.ts = m.ts /\ h.ms = m.ms
    /\ h.fmt # 0 => m.cs \in DOMAIN known /\ known[m.cs].ms = m.ms
    /\ h.fmt \in {1, 2} => known[m.cs].ts + h.ts = m.ts /\ m.ts < TsLimit
    /\ h.fmt \in {2, 3} => known[m.cs].len = m.len /\ known[m.cs].type = m.type
    /\ h.fmt = 3 => known[m.cs].ts = m.ts

Amount(s, c, m) == Least(m.len - c.sent, s.size)
Finishing(s, c, m) == m.len - c.sent <= s.size

\* chunk c, of message m, is a chunk to send after s; t is what is known then
Sends(s, c, m, t) ==
    /\ Decodes(s.last, c.h, m)
    /\ c.sent \in 0 .. m.len
    /\ m.cs \in DOMAIN s.sending =>
        s.sending[m.cs].id = c.id /\ s.sending[m.cs].sent = c.sent /\ s.last[m.cs] = m
    /\ m.cs \notin DOMAIN s.sending =>
        /\ c.sent = 0
        /\ m.len > s.size => Cardinality(DOMAIN s.sending) < MaxPartial
        /\ Cardinality(DOMAIN s.last \union {m.cs}) <= MaxHeaders
    /\ t.last = Put(s.last, m.cs, m)
    /\ Finishing(s, c, m) =>
        /\ t.finished = Append(s.finished, c.id)
        /\ t.sending = Drop(s.sending, m.cs)
        /\ t.size = IF m.type[1] = "SetChunkSize" THEN m.type[2] ELSE s.size
    /\ ~Finishing(s, c, m) =>
        /\ t.finished = s.finished /\ t.size = s.size
        /\ t.sending = Put(s.sending, m.cs, [id |-> c.id, sent |-> c.sent + s.size])

\* chunk c and n pieces are on wire w after k units
Lies(c, n, w, k) ==
    /\ w[k + 1] = [id |-> c.id, h |-> c.h]
    /\ \A i \in 1 .. n : w[k + 1 + i] = Piece(c.id, c.sent + i)

\* C[q], for q from a to b - 1, are the chunks on wire w, with messages of ss; they
\* lead from S[a] to S[b]; the first o units of the stream were split off,
\* and chunk C[q] is after P[q] units
Link(q, S, C, P, o, ss, w) ==
    LET m == ss[C[q].id] IN
    /\ C[q].id \in DOMAIN ss /\ Sends(S[q], C[q], m, S[q + 1])
    /\ P[q + 1] = P[q] + 1 + Amount(S[q], C[q], m)
    /\ Lies(C[q], Amount(S[q], C[q], m), w, P[q] - o)

Chain(a, b, S, C, P, o, ss, fin, w) ==
    /\ a \in Nat /\ b \in Nat /\ a <= b /\ o \in Int
    /\ \A q \in a .. b : Sane(S[q], ss, fin) /\ P[q] \in Int
    /\ \A q, r \in a .. b : q <= r => P[q] <= P[r]
    /\ o <= P[a] /\ Len(w) = P[b] - o
    /\ \A q \in a .. b - 1 : Link(q, S, C, P, o, ss, w)

\* the reader, with what it has got, knows s
Mirrors(s, size, heads, held, given, ss) ==
    /\ size = s.size
    /\ DOMAIN heads = DOMAIN s.last /\ \A cs \in DOMAIN s.last : heads[cs] = HeadOf(s.last[cs])
    /\ \A k \in DOMAIN held : \E cs \in DOMAIN s.sending : k = <<cs, s.last[cs].ms>>
    /\ \A cs \in DOMAIN s.sending :
        /\ <<cs, s.last[cs].ms>> \in DOMAIN held
        /\ held[<<cs, s.last[cs].ms>>] = Pieces(s.sending[cs].id, s.sending[cs].sent)
    /\ Len(given) = Len(s.finished)
    /\ \A n \in 1 .. Len(given) :
        LET m == ss[s.finished[n]] IN
        given[n] = [cs |-> m.cs, head |-> HeadOf(m), payload |-> Pieces(s.finished[n], m.len)]

\* Of what was said, it matters what was finished.
LEMMA MirrorsKept ==
    ASSUME NEW s, NEW size, NEW heads, NEW held, NEW given, NEW ss, NEW ss2,
           Mirrors(s, size, heads, held, given, ss),
           \A n \in 1 .. Len(s.finished) : ss2[s.finished[n]] = ss[s.finished[n]]
    PROVE  Mirrors(s, size, heads, held, given, ss2)
<1>1. \A n \in 1 .. Len(given) : ss2[s.finished[n]] = ss[s.finished[n]]
  BY DEF Mirrors
<1>. QED
  BY <1>1 DEF Mirrors

\* Of the pieces that are left, a chunk has as many as the size allows.
LEMMA AmountIs ==
    ASSUME NEW s, NEW c, NEW m \in MsgOnStream, c.sent \in 0 .. m.len, s.size \in Nat \ {0}
    PROVE  /\ Amount(s, c, m) \in 0 .. m.len - c.sent /\ Amount(s, c, m) <= s.size
           /\ Finishing(s, c, m) <=> c.sent + Amount(s, c, m) = m.len
           /\ ~Finishing(s, c, m) => Amount(s, c, m) = s.size
BY DEF Amount, Finishing, Least, MsgOnStream

LEMMA SizesAre == ASSUME NEW s, NEW ss, NEW fin, Sane(s, ss, fin) PROVE s.size \in Nat \ {0}
BY RtmpChunksAssumption DEF Sane

\* What starts a sequence is in it.
LEMMA StartsIs ==
    ASSUME NEW S, NEW s \in Seq(S), NEW t \in Seq(S), Starts(s, t)
    PROVE  \A i \in DOMAIN s : i \in DOMAIN t /\ t[i] = s[i]
BY DEF Starts

\* A writer may begin and finish more messages.
LEMMA SaneKept ==
    ASSUME NEW s, NEW ss \in Seq(MsgOnStream), NEW fin, Sane(s, ss, fin),
           NEW ss2 \in Seq(MsgOnStream), NEW fin2, Starts(ss, ss2), Starts(fin, fin2),
           Len(fin) \in Nat, Len(fin2) \in Nat
    PROVE  Sane(s, ss2, fin2)
<1>1. DOMAIN ss \subseteq DOMAIN ss2 /\ \A id \in DOMAIN ss : ss[id] = ss2[id]
  BY StartsIs
<1>2. s.finished \in Seq(DOMAIN ss2)
  BY <1>1 DEF Sane
<1>3. Starts(s.finished, fin2)
  <2>1. Len(s.finished) \in Nat /\ Len(s.finished) <= Len(fin)
    BY DEF Sane, Starts
  <2>. QED
    BY <2>1 DEF Sane, Starts
<1>. QED
  BY <1>1, <1>2, <1>3 DEF Sane

\* Sends knows nothing of where the chunk lies, so that it goes on to hold.
LEMMA LinkKept ==
    ASSUME NEW q, NEW S, NEW C, NEW P, NEW o, NEW o2, NEW ss, NEW ss2, NEW w, NEW w2,
           Link(q, S, C, P, o, ss, w), DOMAIN ss \subseteq DOMAIN ss2,
           \A id \in DOMAIN ss : ss[id] = ss2[id],
           LET n == Amount(S[q], C[q], ss[C[q].id]) IN
                Lies(C[q], n, w, P[q] - o) => Lies(C[q], n, w2, P[q] - o2)
    PROVE  Link(q, S, C, P, o2, ss2, w2)
BY DEF Link

\* How many pieces a chunk of a chain has, and where the next one lies.
LEMMA ChainAmount ==
    ASSUME NEW a, NEW b, NEW S, NEW C, NEW P, NEW o, NEW ss \in Seq(MsgOnStream), NEW fin, NEW w,
           Chain(a, b, S, C, P, o, ss, fin, w), NEW q \in a .. b - 1
    PROVE  LET n == Amount(S[q], C[q], ss[C[q].id]) IN
           /\ n \in Nat /\ P[q] \in Int /\ P[q] >= P[a] /\ P[q] + 1 + n <= P[b]
           /\ P[q] + 1 + n = P[q + 1] /\ P[a] \in Int /\ P[b] \in Int
<1>1. q \in a .. b /\ a \in a .. b /\ b \in a .. b /\ q + 1 \in a .. b /\ a <= q /\ q + 1 <= b
  BY DEF Chain
<1>2. /\ Sane(S[q], ss, fin) /\ P[q] \in Int /\ P[a] \in Int /\ P[b] \in Int
      /\ P[a] <= P[q] /\ P[q + 1] <= P[b]
  BY <1>1 DEF Chain
<1>3. Link(q, S, C, P, o, ss, w)
  BY DEF Chain
<1>4. C[q].id \in DOMAIN ss /\ C[q].sent \in 0 .. ss[C[q].id].len
  BY <1>3 DEF Link, Sends
<1>5. ss[C[q].id] \in MsgOnStream
  BY <1>4
<1>6. Amount(S[q], C[q], ss[C[q].id]) \in 0 .. ss[C[q].id].len - C[q].sent
  BY <1>2, <1>4, <1>5, SizesAre, AmountIs
<1>7. Amount(S[q], C[q], ss[C[q].id]) \in Nat
  BY <1>4, <1>5, <1>6 DEF MsgOnStream
<1>8. P[q + 1] = P[q] + 1 + Amount(S[q], C[q], ss[C[q].id])
  BY <1>3 DEF Link
<1>. QED
  BY <1>2, <1>7, <1>8

\* Split off: a chunk moves to the front.
LEMMA LiesAfter ==
    ASSUME NEW c, NEW n \in Nat, NEW w \in Seq(Unit), NEW p \in Nat, NEW k \in Nat, k <= p,
           p + 1 + n <= Len(w), Lies(c, n, w, p)
    PROVE  Lies(c, n, SubSeq(w, k + 1, Len(w)), p - k)
<1>. DEFINE w2 == SubSeq(w, k + 1, Len(w))
<1>1. \A i \in 1 .. Len(w) - k : w2[i] = w[i + k]
  OBVIOUS
<1>. HIDE DEF w2
<1>2. w2[p - k + 1] = w[p + 1]
  BY <1>1
<1>3. ASSUME NEW i \in 1 .. n PROVE w2[p - k + 1 + i] = w[p + 1 + i]
  BY <1>1
<1>. QED
  BY <1>2, <1>3 DEF Lies, w2

\* Where a chunk lies that is at x of a stream that is read to y; o are split off.
LEMMA PlaceIs ==
    ASSUME NEW x \in Int, NEW y \in Int, NEW z \in Int, NEW o \in Int, NEW k \in Nat,
           NEW n \in Nat, NEW len, len = y - o, o + k <= z, z <= x, x + 1 + n <= y
    PROVE  x - o \in Nat /\ k <= x - o /\ x - o + 1 + n <= len /\ x - (o + k) = x - o - k
OBVIOUS

\* What is before chunk C[a2] goes.
LEMMA ChainCut ==
    ASSUME NEW a, NEW b, NEW S, NEW C, NEW P, NEW o, NEW ss \in Seq(MsgOnStream), NEW fin,
           NEW w \in Seq(Unit), Chain(a, b, S, C, P, o, ss, fin, w),
           NEW a2 \in a .. b, NEW k \in Nat, o + k <= P[a2]
    PROVE  Chain(a2, b, S, C, P, o + k, ss, fin, SubSeq(w, k + 1, Len(w)))
<1>. DEFINE w2 == SubSeq(w, k + 1, Len(w))
<1>1. /\ a \in Nat /\ b \in Nat /\ o \in Int /\ a2 \in Nat /\ a <= a2 /\ a2 <= b
      /\ Len(w) = P[b] - o /\ P[a2] \in Int /\ P[b] \in Int /\ P[a2] <= P[b]
  BY DEF Chain
<1>2. Len(w) \in Nat /\ k <= Len(w)
  BY <1>1
<1>3. Len(w2) = Len(w) - k
  BY <1>2
<1>. HIDE DEF w2
<1>4. ASSUME NEW q \in a2 .. b - 1 PROVE Link(q, S, C, P, o + k, ss, w2)
  <2>1. q \in a .. b - 1 /\ q \in a2 .. b /\ a2 <= q
    BY <1>1
  <2>2. Link(q, S, C, P, o, ss, w) /\ P[a2] <= P[q]
    BY <1>1, <2>1 DEF Chain
  <2>. DEFINE n == Amount(S[q], C[q], ss[C[q].id])
  <2>3. n \in Nat /\ P[q] \in Int /\ P[q] + 1 + n <= P[b]
    BY <2>1, ChainAmount
  <2>. HIDE DEF n
  <2>. DEFINE p == P[q] - o
  <2>4. /\ p \in Nat /\ k <= p /\ p + 1 + n <= Len(w)
        /\ P[q] - (o + k) = p - k
    <3>. DEFINE x == P[q]
                y == P[b]
                z == P[a2]
    <3>1. /\ x \in Int /\ y \in Int /\ z \in Int /\ o \in Int
          /\ Len(w) = y - o /\ o + k <= z /\ z <= x /\ x + 1 + n <= y
      BY <1>1, <2>2, <2>3
    <3>. HIDE DEF x, y, z
    <3>2. x - o \in Nat /\ k <= x - o /\ x - o + 1 + n <= Len(w) /\ x - (o + k) = x - o - k
      BY ONLY <2>3, <3>1, PlaceIs, k \in Nat
    <3>. QED
      BY <3>2 DEF x
  <2>5. P[q] - o = p
    OBVIOUS
  <2>. HIDE DEF p
  <2>6. Lies(C[q], n, w, p) => Lies(C[q], n, w2, p - k)
    BY <2>3, <2>4, LiesAfter DEF w2
  <2>. QED
    BY <2>2, <2>4, <2>5, <2>6, LinkKept DEF n
<1>5. Len(w2) = P[b] - (o + k)
  BY <1>1, <1>2, <1>3
<1>6. /\ \A q \in a2 .. b : Sane(S[q], ss, fin) /\ P[q] \in Int
      /\ \A q, r \in a2 .. b : q <= r => P[q] <= P[r]
  BY <1>1 DEF Chain
<1>. QED
  BY <1>1, <1>4, <1>5, <1>6 DEF Chain, w2

\* What is written moves nothing, and is read after it.
LEMMA LiesBefore ==
    ASSUME NEW c, NEW n \in Nat, NEW w \in Seq(Unit), NEW u \in Seq(Unit), NEW p \in Nat,
           p + 1 + n <= Len(w), Lies(c, n, w, p)
    PROVE  Lies(c, n, w \o u, p)
<1>1. \A i \in 1 .. Len(w) : (w \o u)[i] = w[i]
  OBVIOUS
<1>2. (w \o u)[p + 1] = w[p + 1]
  BY <1>1
<1>3. ASSUME NEW i \in 1 .. n PROVE (w \o u)[p + 1 + i] = w[p + 1 + i]
  BY <1>1
<1>. QED
  BY <1>2, <1>3 DEF Lies

LEMMA LiesLast ==
    ASSUME NEW c, c.id \in Nat, c.h \in Header, c.sent \in 0 .. c.h.len, NEW size \in Nat,
           NEW n, n = Least(c.h.len - c.sent, size), NEW w \in Seq(Unit)
    PROVE  LET u == ChunkUnits(c.id, c.h, c.sent, size) IN
           /\ u \in Seq(Unit) /\ Lies(c, n, w \o u, Len(w)) /\ Len(w \o u) = Len(w) + 1 + n
<1>1. n \in Nat
  BY DEF Least, Header
<1>. DEFINE head == <<[id |-> c.id, h |-> c.h]>>
            body == [i \in 1 .. n |-> [id |-> c.id, i |-> c.sent + i]]
            u == ChunkUnits(c.id, c.h, c.sent, size)
<1>2. head \in Seq(Unit) /\ Len(head) = 1 /\ head[1] = [id |-> c.id, h |-> c.h]
  BY DEF Unit
<1>3. /\ body \in Seq(Unit) /\ Len(body) = n
      /\ \A i \in 1 .. n : body[i] = Piece(c.id, c.sent + i)
  <2>1. \A i \in 1 .. n : [id |-> c.id, i |-> c.sent + i] \in Unit
    BY <1>1 DEF Unit, Header
  <2>. QED
    BY <1>1, <2>1 DEF Piece
<1>4. u = head \o body
  BY DEF ChunkUnits
<1>. HIDE DEF u, head, body
<1>5. /\ u \in Seq(Unit) /\ Len(u) = 1 + n /\ u[1] = head[1]
      /\ \A i \in 1 .. n : u[1 + i] = body[i]
  <2>1. /\ u \in Seq(Unit) /\ Len(u) = Len(head) + Len(body)
        /\ \A i \in 1 .. Len(head) + Len(body) :
                u[i] = IF i <= Len(head) THEN head[i] ELSE body[i - Len(head)]
    BY <1>2, <1>3, <1>4, ConcatProperties
  <2>2. u[1] = head[1] /\ Len(u) = 1 + n
    BY <1>1, <1>2, <1>3, <2>1
  <2>3. ASSUME NEW i \in 1 .. n PROVE u[1 + i] = body[i]
    <3>1. 1 + i \in 1 .. Len(head) + Len(body) /\ ~(1 + i <= Len(head)) /\ 1 + i - Len(head) = i
      BY <1>1, <1>2, <1>3
    <3>. QED
      BY <2>1, <3>1
  <2>. QED
    BY <2>1, <2>2, <2>3
<1>6. Len(w \o u) = Len(w) + 1 + n /\ \A i \in 1 .. 1 + n : (w \o u)[Len(w) + i] = u[i]
  BY <1>1, <1>5
<1>7. (w \o u)[Len(w) + 1] = u[1]
  BY <1>1, <1>6
<1>8. ASSUME NEW i \in 1 .. n PROVE (w \o u)[Len(w) + 1 + i] = u[1 + i]
  <2>1. Len(w) + 1 + i = Len(w) + (1 + i) /\ 1 + i \in 1 .. 1 + n
    BY <1>1
  <2>. QED
    BY <1>6, <2>1
<1>. QED
  BY <1>2, <1>3, <1>5, <1>6, <1>7, <1>8 DEF Lies, u

Grown(f, n, x) == [q \in Nat |-> IF q = n THEN x ELSE f[q]]

\* A chain is as long as the chunks it has.
LEMMA ChainKept ==
    ASSUME NEW a, NEW b, NEW S, NEW C, NEW P, NEW o, NEW ss \in Seq(MsgOnStream), NEW fin,
           NEW w \in Seq(Unit), Chain(a, b, S, C, P, o, ss, fin, w),
           NEW ss2 \in Seq(MsgOnStream), NEW fin2, Starts(ss, ss2), Starts(fin, fin2),
           Len(fin) \in Nat, Len(fin2) \in Nat, NEW u \in Seq(Unit)
    PROVE  /\ \A q \in a .. b : Sane(S[q], ss2, fin2)
           /\ \A q \in a .. b - 1 : Link(q, S, C, P, o, ss2, w \o u)
<1>1. DOMAIN ss \subseteq DOMAIN ss2 /\ \A id \in DOMAIN ss : ss[id] = ss2[id]
  BY StartsIs
<1>2. ASSUME NEW q \in a .. b PROVE Sane(S[q], ss2, fin2)
  <2>1. Sane(S[q], ss, fin)
    BY DEF Chain
  <2>. QED
    BY <2>1, SaneKept
<1>3. ASSUME NEW q \in a .. b - 1 PROVE Link(q, S, C, P, o, ss2, w \o u)
  <2>1. Link(q, S, C, P, o, ss, w)
    BY DEF Chain
  <2>. DEFINE n == Amount(S[q], C[q], ss[C[q].id])
              x == P[q]
              y == P[b]
              z == P[a]
  <2>2. /\ n \in Nat /\ x \in Int /\ y \in Int /\ z \in Int /\ z <= x /\ x + 1 + n <= y
        /\ o \in Int /\ o <= z /\ Len(w) = y - o
    <3>1. n \in Nat /\ x \in Int /\ y \in Int /\ z \in Int /\ z <= x /\ x + 1 + n <= y
      BY ChainAmount
    <3>2. o \in Int /\ o <= z /\ Len(w) = y - o
      BY DEF Chain
    <3>. QED
      BY <3>1, <3>2
  <2>. HIDE DEF n, x, y, z
  <2>3. x - o \in Nat /\ x - o + 1 + n <= Len(w)
    BY ONLY <2>2
  <2>4. Lies(C[q], n, w, x - o) => Lies(C[q], n, w \o u, x - o)
    BY <2>2, <2>3, LiesBefore
  <2>. QED
    BY <1>1, <2>1, <2>4, LinkKept DEF n, x
<1>. QED
  BY <1>2, <1>3

\* A chain from S[a] to S[b] has become one to t.
Grows(a, b, S, C, P, o, ss, fin, w, t) ==
    \E S2, C2, P2 :
        /\ Chain(a, b + 1, S2, C2, P2, o, ss, fin, w)
        /\ \A q \in a .. b : S2[q] = S[q] /\ P2[q] = P[q]
        /\ \A q \in a .. b - 1 : C2[q] = C[q]
        /\ S2[b + 1] = t

\* A chunk that is sent makes it longer.
LEMMA ChainGrows ==
    ASSUME NEW a, NEW b, NEW S, NEW C, NEW P, NEW o, NEW ss \in Seq(MsgOnStream), NEW fin,
           NEW w \in Seq(Unit), Chain(a, b, S, C, P, o, ss, fin, w),
           NEW ss2 \in Seq(MsgOnStream), NEW fin2, Starts(ss, ss2), Starts(fin, fin2),
           Len(fin) \in Nat, Len(fin2) \in Nat,
           NEW c, NEW t, c.id \in DOMAIN ss2, Sends(S[b], c, ss2[c.id], t), Sane(t, ss2, fin2)
    PROVE  Grows(a, b, S, C, P, o, ss2, fin2, w \o ChunkUnits(c.id, c.h, c.sent, S[b].size), t)
<1>. DEFINE s == S[b]
            m == ss2[c.id]
            n == Amount(s, c, m)
            y == P[b]
            u == ChunkUnits(c.id, c.h, c.sent, s.size)
            S2 == Grown(S, b + 1, t)
            C2 == Grown(C, b, c)
            P2 == Grown(P, b + 1, y + 1 + n)
<1>1. /\ a \in Nat /\ b \in Nat /\ a <= b /\ b \in a .. b /\ o \in Int /\ o <= P[a]
      /\ P[a] \in Int /\ y \in Int /\ Len(w) = y - o /\ P[a] <= y
  BY DEF Chain
<1>2. m \in MsgOnStream /\ m.len \in Nat /\ c.id \in Nat
  <2>1. m \in MsgOnStream /\ c.id \in Nat
    OBVIOUS
  <2>. QED
    BY <2>1 DEF MsgOnStream
<1>3. Sane(s, ss, fin) /\ s.size \in Nat \ {0}
  BY <1>1, SizesAre DEF Chain
<1>4. c.h \in Header /\ c.h.len = m.len /\ c.sent \in 0 .. m.len
  BY DEF Sends, Decodes
<1>5. n = Least(c.h.len - c.sent, s.size) /\ n \in Nat
  <2>. HIDE DEF m
  <2>1. n = Least(c.h.len - c.sent, s.size)
    BY <1>4 DEF Amount
  <2>. QED
    BY <1>2, <1>3, <1>4, <2>1 DEF Least
<1>6. u \in Seq(Unit) /\ Lies(c, n, w \o u, Len(w)) /\ Len(w \o u) = Len(w) + 1 + n
  <2>. DEFINE size == s.size
  <2>1. size \in Nat /\ c.id \in Nat /\ c.h \in Header /\ c.sent \in 0 .. c.h.len
    BY <1>2, <1>3, <1>4
  <2>2. n = Least(c.h.len - c.sent, size)
    BY <1>5
  <2>. HIDE DEF size, n
  <2>3. LET v == ChunkUnits(c.id, c.h, c.sent, size) IN
        v \in Seq(Unit) /\ Lies(c, n, w \o v, Len(w)) /\ Len(w \o v) = Len(w) + 1 + n
    BY <2>1, <2>2, LiesLast
  <2>. QED
    BY <2>3 DEF size
<1>7. /\ \A q \in a .. b : Sane(S[q], ss2, fin2)
      /\ \A q \in a .. b - 1 : Link(q, S, C, P, o, ss2, w \o u)
  BY <1>6, ChainKept
<1>. HIDE DEF u, n
<1>8. /\ \A q \in a .. b : S2[q] = S[q] /\ P2[q] = P[q]
      /\ \A q \in a .. b - 1 : C2[q] = C[q]
      /\ S2[b + 1] = t /\ P2[b + 1] = y + 1 + n /\ C2[b] = c
  <2>1. b \in Nat /\ b + 1 \in Nat
    BY <1>1
  <2>2. \A q \in a .. b : q \in Nat /\ q # b + 1
    BY <1>1
  <2>3. \A q \in a .. b - 1 : q \in Nat /\ q # b
    BY <1>1
  <2>4. S2[b + 1] = t /\ \A q \in Nat : q # b + 1 => S2[q] = S[q]
    BY ONLY <2>1 DEF Grown
  <2>5. P2[b + 1] = y + 1 + n /\ \A q \in Nat : q # b + 1 => P2[q] = P[q]
    BY ONLY <2>1 DEF Grown
  <2>6. C2[b] = c /\ \A q \in Nat : q # b => C2[q] = C[q]
    BY ONLY <2>1 DEF Grown
  <2>. HIDE DEF S2, P2, C2, y
  <2>7. \A q \in a .. b : S2[q] = S[q]
    BY ONLY <2>2, <2>4
  <2>8. \A q \in a .. b : P2[q] = P[q]
    BY ONLY <2>2, <2>5
  <2>9. \A q \in a .. b - 1 : C2[q] = C[q]
    BY ONLY <2>3, <2>6
  <2>. QED
    BY ONLY <2>4, <2>5, <2>6, <2>7, <2>8, <2>9
<1>. HIDE DEF S2, C2, P2
<1>9. \A q \in a .. b + 1 : Sane(S2[q], ss2, fin2) /\ P2[q] \in Int
  <2>1. \A q \in a .. b : Sane(S2[q], ss2, fin2) /\ P2[q] \in Int
    BY <1>7, <1>8 DEF Chain
  <2>. HIDE DEF y
  <2>2. S2[b + 1] = t /\ P2[b + 1] = y + 1 + n
    BY <1>8
  <2>3. y + 1 + n \in Int
    BY <1>1, <1>5
  <2>4. Sane(S2[b + 1], ss2, fin2) /\ P2[b + 1] \in Int
    BY <2>2, <2>3
  <2>5. \A q \in a .. b + 1 : q \in a .. b \/ q = b + 1
    BY <1>1
  <2>. QED
    BY <2>1, <2>4, <2>5
<1>10. \A q, r \in a .. b + 1 : q <= r => P2[q] <= P2[r]
  <2>. SUFFICES ASSUME NEW q \in a .. b + 1, NEW r \in a .. b + 1, q <= r PROVE P2[q] <= P2[r]
    OBVIOUS
  <2>1. CASE r = b + 1 /\ q # b + 1
    <3>1. q \in a .. b /\ q <= b
      BY <1>1, <2>1
    <3>2. P[q] <= y /\ P[q] \in Int
      BY <1>1, <3>1 DEF Chain
    <3>3. P2[q] = P[q] /\ P2[r] = y + 1 + n
      BY <1>8, <2>1, <3>1
    <3>. DEFINE x == P[q]
    <3>4. x <= y /\ x \in Int /\ y \in Int
      BY <1>1, <3>2
    <3>. HIDE DEF x, y
    <3>5. x <= y + 1 + n
      BY <1>5, <3>4
    <3>. QED
      BY <3>3, <3>5 DEF x
  <2>2. CASE r = b + 1 /\ q = b + 1
    BY <1>9, <2>2
  <2>3. CASE r # b + 1
    <3>1. q \in a .. b /\ r \in a .. b
      BY <1>1, <2>3
    <3>. QED
      BY <1>8, <3>1 DEF Chain
  <2>. QED
    BY <2>1, <2>2, <2>3
<1>11. Link(b, S2, C2, P2, o, ss2, w \o u)
  <2>1. S2[b] = S[b] /\ P2[b] = P[b]
    BY <1>1, <1>8
  <2>2. P2[b] - o = Len(w)
    BY <1>1, <2>1
  <2>. QED
    BY <1>6, <1>8, <2>1, <2>2 DEF Link, n
<1>12. ASSUME NEW q \in a .. b - 1 PROVE Link(q, S2, C2, P2, o, ss2, w \o u)
  <2>1. q \in a .. b /\ q + 1 \in a .. b
    BY <1>1
  <2>2. /\ S2[q] = S[q] /\ S2[q + 1] = S[q + 1] /\ C2[q] = C[q]
        /\ P2[q] = P[q] /\ P2[q + 1] = P[q + 1]
    BY <1>8, <2>1
  <2>. QED
    BY <1>7, <2>2 DEF Link
<1>13. Len(w \o u) = P2[b + 1] - o /\ o <= P2[a]
  <2>. HIDE DEF y
  <2>1. Len(w) + 1 + n = y + 1 + n - o
    BY <1>1, <1>5
  <2>2. P2[a] = P[a]
    BY <1>1, <1>8
  <2>3. Len(w \o u) = y + 1 + n - o
    BY <1>6, <2>1
  <2>4. P2[b + 1] = y + 1 + n
    BY <1>8
  <2>. DEFINE x == P2[b + 1]
  <2>5. x = y + 1 + n
    BY <2>4
  <2>. HIDE DEF x
  <2>6. Len(w \o u) = x - o
    BY <1>1, <1>5, <2>3, <2>5
  <2>7. o <= P2[a]
    BY <1>1, <2>2
  <2>. QED
    BY <2>6, <2>7 DEF x
<1>14. Chain(a, b + 1, S2, C2, P2, o, ss2, fin2, w \o u)
  <2>1. \A q \in a .. b + 1 - 1 : Link(q, S2, C2, P2, o, ss2, w \o u)
    BY <1>1, <1>11, <1>12
  <2>2. a \in Nat /\ b + 1 \in Nat /\ a <= b + 1 /\ o \in Int
    BY <1>1
  <2>. QED
    BY <1>9, <1>10, <1>13, <2>1, <2>2 DEF Chain
<1>. QED
  BY <1>8, <1>14 DEF Grows, u

\* Units that are no chunk come and go before the first one.
LEMMA ChainWaits ==
    ASSUME NEW a, NEW S, NEW C, NEW P, NEW o, NEW ss, NEW fin, NEW w,
           Chain(a, a, S, C, P, o, ss, fin, w), NEW n \in Nat, NEW w2, Len(w2) = Len(w) + n
    PROVE  Chain(a, a, S, C, P, o - n, ss, fin, w2)
<1>. DEFINE x == P[a]
<1>1. a \in Nat /\ a \in a .. a /\ o \in Int /\ x \in Int /\ o <= x /\ Len(w) = x - o
  BY DEF Chain
<1>2. o - n \in Int /\ o - n <= x /\ Len(w2) = x - (o - n)
  <2>. HIDE DEF x
  <2>. QED
    BY <1>1
<1>3. \A q \in a .. a - 1 : FALSE
  BY <1>1
<1>. QED
  BY <1>1, <1>2, <1>3 DEF Chain
-----------------------------------------------------------------------------
(* What writer and reader know *)

\* A chunk that may be sent leaves a writer that keeps the limits.
LEMMA SaneAfter ==
    ASSUME NEW s, NEW ss \in Seq(MsgOnStream), NEW fin, Sane(s, ss, fin),
           NEW c, c.id \in DOMAIN ss, NEW m \in MsgOnStream, m = ss[c.id], Polite(m),
           NEW t, Sends(s, c, m, t)
    PROVE  Sane(t, ss, t.finished)
<1>1. m.cs \in Nat /\ m.len \in Nat /\ c.sent \in 0 .. m.len /\ s.size \in Nat \ {0}
  BY SizesAre DEF MsgOnStream, Sends
<1>2. /\ DOMAIN t.last = DOMAIN s.last \union {m.cs} /\ t.last[m.cs] = m
      /\ \A cs \in DOMAIN s.last : cs # m.cs => t.last[cs] = s.last[cs]
  <2>1. t.last = Put(s.last, m.cs, m)
    BY DEF Sends
  <2>. QED
    BY ONLY <2>1 DEF Put
<1>3. \A cs \in DOMAIN t.last : t.last[cs] \in MsgOnStream /\ t.last[cs].cs = cs
  BY <1>2 DEF Sane
<1>4. Cardinality(DOMAIN t.last) <= MaxHeaders /\ IsFiniteSet(DOMAIN t.last)
  <2>1. IsFiniteSet(DOMAIN s.last)
    BY DEF Sane
  <2>2. IsFiniteSet(DOMAIN s.last \union {m.cs})
    BY ONLY <2>1, FS_AddElement
  <2>3. CASE m.cs \in DOMAIN s.sending
    <3>1. DOMAIN t.last = DOMAIN s.last
      BY <1>2, <2>3 DEF Sane
    <3>. QED
      BY <2>1, <3>1 DEF Sane
  <2>4. CASE m.cs \notin DOMAIN s.sending
    BY <1>2, <2>2, <2>4 DEF Sends
  <2>. QED
    BY <2>3, <2>4
<1>5. CASE Finishing(s, c, m)
  <2>1. /\ t.finished = Append(s.finished, c.id) /\ t.sending = Drop(s.sending, m.cs)
        /\ t.size = IF m.type[1] = "SetChunkSize" THEN m.type[2] ELSE s.size
    BY <1>5 DEF Sends
  <2>2. /\ DOMAIN t.sending = DOMAIN s.sending \ {m.cs}
        /\ \A cs \in DOMAIN t.sending : t.sending[cs] = s.sending[cs]
    <3>1. /\ DOMAIN t.sending = DOMAIN s.sending \ {m.cs}
          /\ \A cs \in DOMAIN s.sending : cs # m.cs => t.sending[cs] = s.sending[cs]
      BY ONLY <2>1 DEF Drop
    <3>. QED
      BY <3>1
  <2>3. DOMAIN t.sending \subseteq DOMAIN t.last /\ IsFiniteSet(DOMAIN t.sending)
    <3>1. IsFiniteSet(DOMAIN s.sending) /\ DOMAIN s.sending \subseteq DOMAIN s.last
      BY DEF Sane
    <3>2. IsFiniteSet(DOMAIN s.sending \ {m.cs})
      BY ONLY <3>1, FS_RemoveElement
    <3>. QED
      BY <1>2, <2>2, <3>1, <3>2
  <2>4. \A cs \in DOMAIN t.sending :
            /\ t.sending[cs].id \in DOMAIN ss /\ ss[t.sending[cs].id] = t.last[cs]
            /\ t.sending[cs].sent \in 1 .. t.last[cs].len - 1
    BY <1>2, <2>2 DEF Sane
  <2>5. t.size \in InitSize .. MaxSize
    BY <2>1 DEF Polite, Allowed, Sane
  <2>6. t.finished \in Seq(DOMAIN ss)
    BY <2>1 DEF Sane
  <2>7. Starts(t.finished, t.finished)
    BY <2>6 DEF Starts
  <2>. QED
    BY <1>3, <1>4, <2>3, <2>4, <2>5, <2>6, <2>7 DEF Sane
<1>6. CASE ~Finishing(s, c, m)
  <2>. DEFINE x == [id |-> c.id, sent |-> c.sent + s.size]
  <2>1. /\ t.finished = s.finished /\ t.size = s.size
        /\ t.sending = Put(s.sending, m.cs, x)
    BY <1>6 DEF Sends
  <2>2. x.id = c.id /\ x.sent \in 1 .. m.len - 1
    BY <1>1, <1>6 DEF Finishing
  <2>. HIDE DEF x
  <2>3. /\ DOMAIN t.sending = DOMAIN s.sending \union {m.cs} /\ t.sending[m.cs] = x
        /\ \A cs \in DOMAIN s.sending : cs # m.cs => t.sending[cs] = s.sending[cs]
    BY ONLY <2>1 DEF Put
  <2>4. DOMAIN t.sending \subseteq DOMAIN t.last /\ IsFiniteSet(DOMAIN t.sending)
    <3>1. IsFiniteSet(DOMAIN s.sending) /\ DOMAIN s.sending \subseteq DOMAIN s.last
      BY DEF Sane
    <3>2. IsFiniteSet(DOMAIN s.sending \union {m.cs})
      BY ONLY <3>1, FS_AddElement
    <3>. QED
      BY <1>2, <2>3, <3>1, <3>2
  <2>5. ASSUME NEW cs \in DOMAIN t.sending
        PROVE  /\ t.sending[cs].id \in DOMAIN ss /\ ss[t.sending[cs].id] = t.last[cs]
               /\ t.sending[cs].sent \in 1 .. t.last[cs].len - 1
    <3>1. CASE cs = m.cs
      BY <1>2, <2>2, <2>3, <3>1
    <3>2. CASE cs # m.cs
      <4>1. cs \in DOMAIN s.sending /\ t.sending[cs] = s.sending[cs] /\ t.last[cs] = s.last[cs]
        BY <1>2, <2>3, <3>2 DEF Sane
      <4>. QED
        BY <4>1 DEF Sane
    <3>. QED
      BY <3>1, <3>2
  <2>6. t.size \in InitSize .. MaxSize /\ t.finished \in Seq(DOMAIN ss)
    BY <2>1 DEF Sane
  <2>7. Starts(t.finished, t.finished)
    BY <2>6 DEF Starts
  <2>. QED
    BY <1>3, <1>4, <2>4, <2>5, <2>6, <2>7 DEF Sane
<1>. QED
  BY <1>5, <1>6

\* The reader holds no more messages than the writer sends.
LEMMA HoldsNoMore ==
    ASSUME NEW s, NEW ss, NEW fin, Sane(s, ss, fin),
           Mirrors(s, maxChunk, prev, partial, got, ss)
    PROVE  /\ Cardinality(DOMAIN partial) <= Cardinality(DOMAIN s.sending)
           /\ Cardinality(DOMAIN partial) \in Nat /\ Cardinality(DOMAIN s.sending) \in Nat
<1>. DEFINE f == [k \in DOMAIN partial |-> k[1]]
<1>1. \A k \in DOMAIN partial : \E cs \in DOMAIN s.sending : k = <<cs, s.last[cs].ms>>
  BY DEF Mirrors
<1>2. \A k \in DOMAIN partial : k[1] \in DOMAIN s.sending /\ k = <<k[1], s.last[k[1]].ms>>
  BY <1>1
<1>3. f \in [DOMAIN partial -> DOMAIN s.sending]
  BY <1>2
<1>4. \A k, l \in DOMAIN partial : f[k] = f[l] => k = l
  BY <1>2
<1>5. f \in Injection(DOMAIN partial, DOMAIN s.sending)
  BY <1>3, <1>4 DEF Injection, IsInjective
<1>6. IsFiniteSet(DOMAIN s.sending)
  BY DEF Sane
<1>. QED
  BY <1>5, <1>6, FS_Injection, FS_CardinalityType

\* The header of the next chunk reads as that of its message, and what is held of
\* the message is what was sent of it.
LEMMA HeaderReads ==
    ASSUME NEW s, NEW ss, NEW fin, Sane(s, ss, fin),
           Mirrors(s, maxChunk, prev, partial, got, ss),
           NEW c, NEW m \in MsgOnStream, Polite(m), NEW t, Sends(s, c, m, t)
    PROVE  /\ c.h \in Header /\ c.h.cs = m.cs /\ ~Refused(c.h) /\ MessageHeader(c.h) = HeadOf(m)
           /\ Key(c.h) = <<m.cs, m.ms>> /\ MsgLength(c.h) = m.len
           /\ c.h.fmt = 2 => prev[c.h.cs].ts + c.h.ts < TsLimit
           /\ Key(c.h) \in DOMAIN partial <=> m.cs \in DOMAIN s.sending
           /\ Held(c.h) = Pieces(c.id, c.sent)
<1>. DEFINE h == c.h
<1>1. h \in Header /\ h.cs = m.cs /\ h.len = m.len /\ Decodes(s.last, h, m) /\ h.fmt \in 0 .. 3
  BY DEF Sends, Decodes, Header
<1>2. m.len <= MaxPartialSize /\ m.len \in Nat /\ m.ts \in Nat
  BY DEF Polite, MsgOnStream
<1>. HIDE DEF h
<1>3. ASSUME h.fmt # 0
      PROVE  /\ m.cs \in DOMAIN prev /\ prev[m.cs] = HeadOf(s.last[m.cs])
             /\ s.last[m.cs].ms = m.ms /\ s.last[m.cs] \in MsgOnStream
  BY <1>1, <1>3 DEF Mirrors, Decodes, Sane
<1>4. ~Refused(h)
  BY <1>1, <1>2, <1>3, RtmpChunksAssumption DEF Refused
<1>5. MessageHeader(h) = HeadOf(m) /\ (h.fmt = 2 => prev[h.cs].ts + h.ts < TsLimit)
  <2>1. CASE h.fmt = 0
    BY <1>1, <2>1 DEF MessageHeader, HeadOf, Decodes
  <2>2. CASE h.fmt = 1
    <3>1. /\ prev[m.cs].ts = s.last[m.cs].ts /\ prev[m.cs].ms = m.ms
          /\ s.last[m.cs].ts + h.ts = m.ts /\ m.ts < TsLimit /\ h.type = m.type
      BY <1>1, <1>3, <2>2 DEF HeadOf, Decodes
    <3>. QED
      BY <1>1, <2>2, <3>1 DEF MessageHeader, HeadOf
  <2>3. CASE h.fmt = 2
    <3>1. /\ prev[m.cs] = [ts |-> s.last[m.cs].ts, len |-> m.len, type |-> m.type, ms |-> m.ms]
          /\ s.last[m.cs].ts + h.ts = m.ts /\ m.ts < TsLimit
      BY <1>1, <1>3, <2>3 DEF HeadOf, Decodes
    <3>2. m.ts % TsLimit = m.ts
      BY <1>2, <3>1, RtmpChunksAssumption
    <3>3. MessageHeader(h) = [prev[m.cs] EXCEPT !.ts = (@ + h.ts) % TsLimit]
      BY <1>1, <2>3 DEF MessageHeader
    <3>4. prev[m.cs].ts = s.last[m.cs].ts
      BY <3>1
    <3>5. MessageHeader(h) = [prev[m.cs] EXCEPT !.ts = m.ts]
      BY <3>1, <3>2, <3>3, <3>4
    <3>6. MessageHeader(h) = HeadOf(m)
      BY <3>1, <3>5 DEF HeadOf
    <3>. QED
      BY <1>1, <3>1, <3>4, <3>6
  <2>4. CASE h.fmt = 3
    <3>1. prev[m.cs] = HeadOf(m)
      BY <1>1, <1>3, <2>4 DEF HeadOf, Decodes
    <3>. QED
      BY <1>1, <2>4, <3>1 DEF MessageHeader
  <2>. QED
    BY <1>1, <2>1, <2>2, <2>3, <2>4
<1>6. Key(h) = <<m.cs, m.ms>> /\ MsgLength(h) = m.len
  BY <1>1, <1>5 DEF Key, MsgLength, HeadOf
<1>7. /\ Key(h) \in DOMAIN partial <=> m.cs \in DOMAIN s.sending
      /\ Held(h) = Pieces(c.id, c.sent)
  <2>1. CASE m.cs \in DOMAIN s.sending
    <3>1. /\ s.sending[m.cs].id = c.id /\ s.sending[m.cs].sent = c.sent
          /\ s.last[m.cs].ms = m.ms
      BY <2>1 DEF Sends
    <3>2. /\ <<m.cs, s.last[m.cs].ms>> \in DOMAIN partial
          /\ partial[<<m.cs, s.last[m.cs].ms>>] = Pieces(s.sending[m.cs].id, s.sending[m.cs].sent)
      BY <2>1 DEF Mirrors
    <3>. QED
      BY <1>6, <2>1, <3>1, <3>2 DEF Held
  <2>2. CASE m.cs \notin DOMAIN s.sending
    <3>1. c.sent = 0
      BY <2>2 DEF Sends
    <3>2. <<m.cs, m.ms>> \notin DOMAIN partial
      BY <2>2 DEF Mirrors
    <3>3. Pieces(c.id, 0) = <<>>
      BY DEF Pieces
    <3>. QED
      BY <1>6, <2>2, <3>1, <3>2, <3>3 DEF Held
  <2>. QED
    BY <2>1, <2>2
<1>. QED
  BY <1>1, <1>4, <1>5, <1>6, <1>7 DEF h

\* The reader reads the pieces that the chunk has, and nothing overflows.
LEMMA AmountReads ==
    ASSUME NEW s, NEW ss, NEW fin, Sane(s, ss, fin),
           Mirrors(s, maxChunk, prev, partial, got, ss),
           NEW c, NEW m \in MsgOnStream, Polite(m), NEW t, Sends(s, c, m, t)
    PROVE  NeedRead(c.h) = Amount(s, c, m) /\ ~Overflows(c.h)
<1>1. /\ Held(c.h) = Pieces(c.id, c.sent) /\ MsgLength(c.h) = m.len
      /\ c.h.fmt = 2 => prev[c.h.cs].ts + c.h.ts < TsLimit
  BY HeaderReads
<1>2. c.sent \in 0 .. m.len /\ m.len \in Nat
  BY DEF Sends, MsgOnStream
<1>3. Len(Held(c.h)) = c.sent
  BY <1>1, <1>2 DEF Pieces
<1>4. maxChunk = s.size
  BY DEF Mirrors
<1>5. NeedRead(c.h) = Amount(s, c, m)
  BY <1>1, <1>2, <1>3, <1>4 DEF NeedRead, Amount
<1>6. prev[c.h.cs].ts + c.h.ts < TsLimit => ~(prev[c.h.cs].ts + c.h.ts >= TsLimit) \/ c.h.fmt # 2
  <2>1. c.h.fmt = 2 => /\ c.h.ts \in Nat /\ prev[c.h.cs].ts \in Nat
    <3>1. c.h \in Header /\ c.h.cs = m.cs
      BY DEF Sends, Decodes
    <3>2. c.h.fmt = 2 => m.cs \in DOMAIN s.last
      BY DEF Sends, Decodes
    <3>3. c.h.fmt = 2 => prev[m.cs] = HeadOf(s.last[m.cs]) /\ s.last[m.cs] \in MsgOnStream
      BY <3>2 DEF Mirrors, Sane
    <3>. QED
      BY <3>1, <3>3 DEF Header, HeadOf, MsgOnStream
  <2>. QED
    BY <2>1, RtmpChunksAssumption
<1>. QED
  BY <1>1, <1>2, <1>3, <1>5, <1>6 DEF Overflows

\* A chunk that is there whole is read, and brings its message on by its pieces.
LEMMA ChunkReads ==
    ASSUME wire \in Seq(Unit), NEW s, NEW ss, NEW fin, Sane(s, ss, fin),
           Mirrors(s, maxChunk, prev, partial, got, ss),
           NEW c, NEW m \in MsgOnStream, Polite(m), NEW t, Sends(s, c, m, t),
           NEW n, n = Amount(s, c, m), Lies(c, n, wire, 0), n < Len(wire)
    PROVE  /\ Assembled(c.h) = Pieces(c.id, c.sent + n)
           /\ Complete(c.h) <=> Finishing(s, c, m)
           /\ Direct(c.h) => c.sent = 0 /\ Finishing(s, c, m)
           /\ ~ReadFails(c.h)
<1>. DEFINE h == c.h
<1>1. /\ Held(h) = Pieces(c.id, c.sent) /\ MsgLength(h) = m.len /\ NeedRead(h) = n
      /\ Key(h) \in DOMAIN partial <=> m.cs \in DOMAIN s.sending
      /\ h.cs = m.cs /\ ~Refused(h)
  BY HeaderReads, AmountReads
<1>2. /\ c.sent \in 0 .. m.len /\ m.len \in Nat /\ n \in 0 .. m.len - c.sent /\ n <= s.size
      /\ Finishing(s, c, m) <=> c.sent + n = m.len
      /\ n \in Nat /\ c.sent \in Nat
  <2>1. c.sent \in 0 .. m.len /\ m.len \in Nat
    BY DEF Sends, MsgOnStream
  <2>. QED
    BY <2>1, SizesAre, AmountIs
<1>. HIDE DEF h
<1>3. Payload(h) = [i \in 1 .. n |-> Piece(c.id, c.sent + i)]
  <2>1. \A i \in 1 .. n : wire[1 + i] = Piece(c.id, c.sent + i)
    BY DEF Lies
  <2>2. Payload(h) = SubSeq(wire, 2, 1 + n)
    BY <1>1 DEF Payload
  <2>3. Len(wire) \in Nat /\ 1 + n <= Len(wire)
    BY <1>2
  <2>4. /\ Payload(h) \in Seq(Unit) /\ Len(Payload(h)) = n
        /\ \A i \in 1 .. n : Payload(h)[i] = wire[1 + i]
    BY <1>2, <2>2, <2>3
  <2>. QED
    BY <1>2, <2>1, <2>4
<1>4. Direct(h) <=> n = m.len
  BY <1>1 DEF Direct
<1>5. Direct(h) => c.sent = 0 /\ Finishing(s, c, m)
  BY <1>2, <1>4
<1>6. Assembled(h) = Pieces(c.id, c.sent + n)
  <2>1. CASE Direct(h)
    <3>1. \A i \in 1 .. n : Piece(c.id, c.sent + i) = Piece(c.id, i)
      BY <1>2, <1>5, <2>1
    <3>. QED
      BY <1>2, <1>3, <1>5, <2>1, <3>1 DEF Assembled, Pieces
  <2>2. CASE ~Direct(h)
    <3>. DEFINE body == [i \in 1 .. n |-> Piece(c.id, c.sent + i)]
                head == Pieces(c.id, c.sent)
                S == {Piece(c.id, i) : i \in Nat}
    <3>1. head \in Seq(S) /\ Len(head) = c.sent /\ \A i \in 1 .. c.sent : head[i] = Piece(c.id, i)
      <4>1. \A i \in 1 .. c.sent : Piece(c.id, i) \in S
        BY <1>2
      <4>. HIDE DEF S
      <4>. QED
        BY <1>2, <4>1 DEF Pieces
    <3>2. body \in Seq(S) /\ Len(body) = n /\ \A i \in 1 .. n : body[i] = Piece(c.id, c.sent + i)
      <4>1. \A i \in 1 .. n : Piece(c.id, c.sent + i) \in S
        BY <1>2
      <4>. HIDE DEF S
      <4>. QED
        BY <1>2, <4>1
    <3>3. Assembled(h) = head \o body
      BY <1>1, <1>3, <2>2 DEF Assembled
    <3>. HIDE DEF head, body, S
    <3>4. /\ head \o body \in Seq(S) /\ Len(head \o body) = c.sent + n
          /\ \A i \in 1 .. c.sent + n :
                (head \o body)[i] = IF i <= c.sent THEN head[i] ELSE body[i - c.sent]
      <4>1. /\ head \o body \in Seq(S) /\ Len(head \o body) = Len(head) + Len(body)
            /\ \A i \in 1 .. Len(head) + Len(body) :
                    (head \o body)[i] = IF i <= Len(head) THEN head[i] ELSE body[i - Len(head)]
        BY <3>1, <3>2, ConcatProperties
      <4>. QED
        BY <3>1, <3>2, <4>1
    <3>5. ASSUME NEW i \in 1 .. c.sent + n PROVE (head \o body)[i] = Piece(c.id, i)
      <4>1. CASE i <= c.sent
        BY <1>2, <3>1, <3>4, <4>1
      <4>2. CASE ~(i <= c.sent)
        <5>1. i - c.sent \in 1 .. n /\ c.sent + (i - c.sent) = i
          BY <1>2, <4>2
        <5>2. body[i - c.sent] = Piece(c.id, c.sent + (i - c.sent))
          BY <3>2, <5>1
        <5>. QED
          BY <3>4, <4>2, <5>1, <5>2
      <4>. QED
        BY <4>1, <4>2
    <3>. DEFINE x == head \o body
    <3>6. x \in Seq(S) /\ Len(x) = c.sent + n /\ \A i \in 1 .. c.sent + n : x[i] = Piece(c.id, i)
      BY <3>4, <3>5
    <3>. HIDE DEF x
    <3>7. x = [i \in 1 .. c.sent + n |-> Piece(c.id, i)]
      BY <1>2, <3>6
    <3>. QED
      BY <3>3, <3>7 DEF Pieces, x
  <2>. QED
    BY <2>1, <2>2
<1>7. Len(Assembled(h)) = c.sent + n
  BY <1>2, <1>6 DEF Pieces
<1>8. Complete(h) <=> Finishing(s, c, m)
  BY <1>1, <1>2, <1>7 DEF Complete
<1>9. ~TooManyHeaders(h)
  <2>1. DOMAIN prev = DOMAIN s.last
    BY DEF Mirrors
  <2>. DEFINE x == Cardinality(DOMAIN s.last \union {m.cs})
  <2>2. x \in Nat
    <3>1. IsFiniteSet(DOMAIN s.last)
      BY DEF Sane
    <3>2. IsFiniteSet(DOMAIN s.last \union {m.cs})
      BY ONLY <3>1, FS_AddElement
    <3>. QED
      BY ONLY <3>2, FS_CardinalityType
  <2>3. x <= MaxHeaders
    <3>1. CASE m.cs \in DOMAIN s.sending
      <4>1. DOMAIN s.last \union {m.cs} = DOMAIN s.last
        BY <3>1 DEF Sane
      <4>. QED
        BY <4>1 DEF Sane
    <3>2. CASE m.cs \notin DOMAIN s.sending
      BY <3>2 DEF Sends
    <3>. QED
      BY <3>1, <3>2
  <2>4. TooManyHeaders(h) <=> x > MaxHeaders
    BY <1>1, <2>1 DEF TooManyHeaders
  <2>. HIDE DEF x
  <2>. QED
    BY <2>2, <2>3, <2>4, RtmpChunksAssumption
<1>10. ~Direct(h) => ~TooManyPartials(h)
  <2>. SUFFICES ASSUME ~Direct(h), Key(h) \notin DOMAIN partial
                PROVE  ~(Cardinality(DOMAIN partial) >= MaxPartial)
    BY DEF TooManyPartials
  <2>1. m.cs \notin DOMAIN s.sending /\ c.sent = 0
    BY <1>1 DEF Sends
  <2>2. ~(m.len <= s.size)
    <3>1. n # m.len
      BY <1>4
    <3>. QED
      BY <1>2, <2>1, <3>1 DEF Amount, Least
  <2>3. m.len > s.size
    BY <1>2, <2>2, SizesAre
  <2>4. Cardinality(DOMAIN s.sending) < MaxPartial
    BY <2>1, <2>3 DEF Sends
  <2>. QED
    BY <2>4, HoldsNoMore, RtmpChunksAssumption
<1>11. ~TooLarge(h)
  BY <1>2, <1>7, RtmpChunksAssumption DEF TooLarge, Polite
<1>. QED
  BY <1>1, <1>5, <1>6, <1>8, <1>9, <1>10, <1>11 DEF ReadFails, h

\* What the reader then knows is what the writer knew when it had sent the chunk.
LEMMA MirrorsAfter ==
    ASSUME ReaderTypeOK, NEW s, NEW ss \in Seq(MsgOnStream), NEW fin, Sane(s, ss, fin),
           Mirrors(s, maxChunk, prev, partial, got, ss),
           NEW c, c.id \in DOMAIN ss, NEW m \in MsgOnStream, m = ss[c.id], Polite(m),
           NEW t, Sends(s, c, m, t),
           NEW n, n = Amount(s, c, m), Lies(c, n, wire, 0), n < Len(wire),
           TakeChunk(c.h),
           maxChunk' = t.size,
           ~Complete(c.h) => got' = got,
           Complete(c.h) => got \in Seq(Messages) /\
               got' = Append(got, [cs |-> c.h.cs, head |-> MessageHeader(c.h), payload |-> Assembled(c.h)])
    PROVE  Mirrors(t, maxChunk', prev', partial', got', ss)
<1>. DEFINE h == c.h
            key == <<m.cs, m.ms>>
<1>1. /\ h.cs = m.cs /\ MessageHeader(h) = HeadOf(m) /\ Key(h) = key
      /\ Key(h) \in DOMAIN partial <=> m.cs \in DOMAIN s.sending
  BY HeaderReads
<1>2. /\ Assembled(h) = Pieces(c.id, c.sent + n)
      /\ Complete(h) <=> Finishing(s, c, m)
      /\ Direct(h) => c.sent = 0 /\ Finishing(s, c, m)
  BY ChunkReads DEF ReaderTypeOK
<1>3. /\ c.sent \in 0 .. m.len /\ m.len \in Nat /\ n \in Nat
      /\ Finishing(s, c, m) <=> c.sent + n = m.len
      /\ ~Finishing(s, c, m) => n = s.size
  <2>1. c.sent \in 0 .. m.len /\ m.len \in Nat
    BY DEF Sends, MsgOnStream
  <2>. QED
    BY <2>1, SizesAre, AmountIs
<1>4. prev' = Put(prev, m.cs, HeadOf(m)) /\ Keep(h)
  BY <1>1 DEF TakeChunk, Remember
<1>. HIDE DEF h
<1>5. t.last = Put(s.last, m.cs, m)
  BY DEF Sends
<1>6. /\ DOMAIN t.last = DOMAIN s.last \union {m.cs} /\ t.last[m.cs] = m
      /\ \A cs \in DOMAIN s.last : cs # m.cs => t.last[cs] = s.last[cs]
  BY ONLY <1>5 DEF Put
<1>7. DOMAIN prev' = DOMAIN t.last /\ \A cs \in DOMAIN t.last : prev'[cs] = HeadOf(t.last[cs])
  <2>1. DOMAIN prev = DOMAIN s.last /\ \A cs \in DOMAIN s.last : prev[cs] = HeadOf(s.last[cs])
    BY DEF Mirrors
  <2>. QED
    BY <1>4, <1>6, <2>1 DEF Put
<1>8. /\ \A k \in DOMAIN partial : \E cs \in DOMAIN s.sending : k = <<cs, s.last[cs].ms>>
      /\ \A cs \in DOMAIN s.sending :
            /\ <<cs, s.last[cs].ms>> \in DOMAIN partial
            /\ partial[<<cs, s.last[cs].ms>>] = Pieces(s.sending[cs].id, s.sending[cs].sent)
      /\ DOMAIN s.sending \subseteq DOMAIN s.last
      /\ m.cs \in DOMAIN s.sending => s.last[m.cs] = m
  BY DEF Mirrors, Sane, Sends
<1>9. /\ \A k \in DOMAIN partial' : \E cs \in DOMAIN t.sending : k = <<cs, t.last[cs].ms>>
      /\ \A cs \in DOMAIN t.sending :
            /\ <<cs, t.last[cs].ms>> \in DOMAIN partial'
            /\ partial'[<<cs, t.last[cs].ms>>] = Pieces(t.sending[cs].id, t.sending[cs].sent)
  <2>1. CASE Finishing(s, c, m)
    <3>1. t.sending = Drop(s.sending, m.cs)
      BY <2>1 DEF Sends
    <3>2. /\ DOMAIN t.sending = DOMAIN s.sending \ {m.cs}
          /\ \A cs \in DOMAIN s.sending : cs # m.cs => t.sending[cs] = s.sending[cs]
      BY ONLY <3>1 DEF Drop
    <3>3. /\ DOMAIN partial' = DOMAIN partial \ {key}
          /\ \A k \in DOMAIN partial' : partial'[k] = partial[k]
      <4>1. CASE Direct(h)
        <5>1. m.cs \notin DOMAIN s.sending
          BY <1>2, <4>1 DEF Sends, Sane
        <5>. QED
          BY <1>1, <1>4, <4>1, <5>1 DEF Keep
      <4>2. CASE ~Direct(h)
        BY <1>1, <1>2, <1>4, <2>1, <4>2 DEF Keep, Drop
      <4>. QED
        BY <4>1, <4>2
    <3>4. ASSUME NEW k \in DOMAIN partial' PROVE \E cs \in DOMAIN t.sending : k = <<cs, t.last[cs].ms>>
      <4>1. k \in DOMAIN partial /\ k # key
        BY <3>3
      <4>2. PICK cs \in DOMAIN s.sending : k = <<cs, s.last[cs].ms>>
        BY <1>8, <4>1
      <4>3. cs # m.cs
        BY <1>8, <4>1, <4>2
      <4>. QED
        BY <1>6, <1>8, <3>2, <4>2, <4>3
    <3>5. ASSUME NEW cs \in DOMAIN t.sending
          PROVE  /\ <<cs, t.last[cs].ms>> \in DOMAIN partial'
                 /\ partial'[<<cs, t.last[cs].ms>>] = Pieces(t.sending[cs].id, t.sending[cs].sent)
      <4>1. cs \in DOMAIN s.sending /\ cs # m.cs
        BY <3>2
      <4>2. t.last[cs] = s.last[cs] /\ t.sending[cs] = s.sending[cs]
        BY <1>6, <1>8, <3>2, <4>1
      <4>3. <<cs, t.last[cs].ms>> # key
        BY <4>1
      <4>. QED
        BY <1>8, <3>3, <4>1, <4>2, <4>3
    <3>. QED
      BY <3>4, <3>5
  <2>2. CASE ~Finishing(s, c, m)
    <3>. DEFINE x == [id |-> c.id, sent |-> c.sent + s.size]
    <3>1. t.sending = Put(s.sending, m.cs, x)
      BY <2>2 DEF Sends
    <3>2. x.id = c.id /\ x.sent = c.sent + n
      BY <1>3, <2>2
    <3>. HIDE DEF x
    <3>3. /\ DOMAIN t.sending = DOMAIN s.sending \union {m.cs} /\ t.sending[m.cs] = x
          /\ \A cs \in DOMAIN s.sending : cs # m.cs => t.sending[cs] = s.sending[cs]
      BY ONLY <3>1 DEF Put
    <3>4. /\ DOMAIN partial' = DOMAIN partial \union {key}
          /\ partial'[key] = Pieces(c.id, c.sent + n)
          /\ \A k \in DOMAIN partial : k # key => partial'[k] = partial[k]
      BY <1>1, <1>2, <1>4, <2>2 DEF Keep, Put
    <3>5. ASSUME NEW k \in DOMAIN partial' PROVE \E cs \in DOMAIN t.sending : k = <<cs, t.last[cs].ms>>
      <4>1. CASE k = key
        BY <1>6, <3>3, <4>1
      <4>2. CASE k # key
        <5>1. PICK cs \in DOMAIN s.sending : k = <<cs, s.last[cs].ms>>
          BY <1>8, <3>4, <4>2
        <5>2. cs # m.cs
          BY <1>8, <4>2, <5>1
        <5>. QED
          BY <1>6, <1>8, <3>3, <5>1, <5>2
      <4>. QED
        BY <4>1, <4>2
    <3>6. ASSUME NEW cs \in DOMAIN t.sending
          PROVE  /\ <<cs, t.last[cs].ms>> \in DOMAIN partial'
                 /\ partial'[<<cs, t.last[cs].ms>>] = Pieces(t.sending[cs].id, t.sending[cs].sent)
      <4>1. CASE cs = m.cs
        BY <1>6, <3>2, <3>3, <3>4, <4>1
      <4>2. CASE cs # m.cs
        <5>1. cs \in DOMAIN s.sending
          BY <3>3, <4>2
        <5>2. t.last[cs] = s.last[cs] /\ t.sending[cs] = s.sending[cs]
          BY <1>6, <1>8, <3>3, <4>2, <5>1
        <5>3. <<cs, t.last[cs].ms>> # key
          BY <4>2
        <5>. QED
          BY <1>8, <3>4, <5>1, <5>2, <5>3
      <4>. QED
        BY <4>1, <4>2
    <3>. QED
      BY <3>5, <3>6
  <2>. QED
    BY <2>1, <2>2
<1>10. /\ Len(got') = Len(t.finished)
       /\ \A i \in 1 .. Len(got') :
            LET r == ss[t.finished[i]] IN
            got'[i] = [cs |-> r.cs, head |-> HeadOf(r), payload |-> Pieces(t.finished[i], r.len)]
  <2>1. /\ Len(got) = Len(s.finished)
        /\ \A i \in 1 .. Len(got) :
            LET r == ss[s.finished[i]] IN
            got[i] = [cs |-> r.cs, head |-> HeadOf(r), payload |-> Pieces(s.finished[i], r.len)]
    BY DEF Mirrors
  <2>2. CASE Finishing(s, c, m)
    <3>. DEFINE new == [cs |-> m.cs, head |-> HeadOf(m), payload |-> Pieces(c.id, m.len)]
    <3>1. got \in Seq(Messages) /\ got' = Append(got, new)
      BY <1>1, <1>2, <1>3, <2>2 DEF h
    <3>2. t.finished = Append(s.finished, c.id) /\ s.finished \in Seq(DOMAIN ss)
      BY <2>2 DEF Sends, Sane
    <3>. HIDE DEF new
    <3>3. /\ Len(got) \in Nat /\ Len(got') = Len(got) + 1 /\ got'[Len(got) + 1] = new
          /\ \A i \in 1 .. Len(got) : got'[i] = got[i]
      BY <3>1
    <3>4. /\ Len(t.finished) = Len(s.finished) + 1 /\ t.finished[Len(s.finished) + 1] = c.id
          /\ \A i \in 1 .. Len(s.finished) : t.finished[i] = s.finished[i]
      BY <3>2
    <3>5. ASSUME NEW i \in 1 .. Len(got')
          PROVE  LET r == ss[t.finished[i]] IN
            got'[i] = [cs |-> r.cs, head |-> HeadOf(r), payload |-> Pieces(t.finished[i], r.len)]
      <4>1. CASE i = Len(got) + 1
        BY <2>1, <3>3, <3>4, <4>1 DEF new
      <4>2. CASE i # Len(got) + 1
        <5>1. i \in 1 .. Len(got)
          BY <3>3, <4>2
        <5>. QED
          BY <2>1, <3>3, <3>4, <5>1
      <4>. QED
        BY <4>1, <4>2
    <3>. QED
      BY <2>1, <3>3, <3>4, <3>5
  <2>3. CASE ~Finishing(s, c, m)
    BY <1>2, <2>1, <2>3 DEF Sends, h
  <2>. QED
    BY <2>2, <2>3
<1>. QED
  BY <1>7, <1>9, <1>10 DEF Mirrors
-----------------------------------------------------------------------------
(* The helpers *)

USE RtmpChunksAssumption, RtmpSessionAssumption

\* HashMap::insert and remove keep the type of a map's values.
LEMMA PutKeepsType ==
    ASSUME NEW S, NEW map, map \in [DOMAIN map -> S], NEW k, NEW v \in S
    PROVE  Put(map, k, v) \in [DOMAIN Put(map, k, v) -> S]
BY DEF Put

LEMMA DropKeepsType ==
    ASSUME NEW S, NEW map, map \in [DOMAIN map -> S], NEW k
    PROVE  Drop(map, k) \in [DOMAIN Drop(map, k) -> S]
BY DEF Drop

\* A unit is a header of the peer, or a piece of payload; junk is the latter.
LEMMA UnitTypes ==
    /\ Junk \in Unit
    /\ \A u \in Unit : "h" \in DOMAIN u => u.h \in Header
BY DEF Unit, Junk

\* The header that read_message_header returns has the types of the fields it
\* takes from the chunk and from the previous header.
LEMMA MessageHeaderType ==
    ASSUME ReaderTypeOK, NEW h \in Header, ~Refused(h)
    PROVE  MessageHeader(h) \in MsgHeader
<1>1. CASE h.fmt = 0
  BY <1>1 DEF MessageHeader, Header, MsgHeader
<1>. DEFINE p == prev[h.cs]
<1>2. h.fmt # 0 => p \in MsgHeader
  BY DEF Refused, ReaderTypeOK
<1>3. CASE h.fmt = 1
  BY <1>2, <1>3 DEF MessageHeader, Header, MsgHeader
<1>4. CASE h.fmt = 2
  <2>1. (p.ts + h.ts) % TsLimit \in Nat
    BY <1>2, <1>4 DEF Header, MsgHeader
  <2>. QED
    BY <1>2, <1>4, <2>1 DEF MessageHeader, Header, MsgHeader
<1>5. CASE h.fmt = 3
  BY <1>2, <1>5 DEF MessageHeader
<1>. QED
  BY <1>1, <1>3, <1>4, <1>5 DEF Header

\* What is held of a message is a sequence of units; at most maxChunk are read.
LEMMA ReadSizes ==
    ASSUME ReaderTypeOK, NEW h \in Header, ~Refused(h)
    PROVE  /\ Held(h) \in Seq(Unit) /\ Len(Held(h)) \in Nat /\ MsgLength(h) \in Nat
           /\ NeedRead(h) \in 0 .. maxChunk
<1>1. MsgLength(h) \in Nat
  BY MessageHeaderType DEF MsgLength, MsgHeader
<1>2. Held(h) \in Seq(Unit) /\ Len(Held(h)) \in Nat
  BY DEF Held, ReaderTypeOK
<1>3. maxChunk \in Nat
  BY DEF ReaderTypeOK
<1>. QED
  BY <1>1, <1>2, <1>3 DEF NeedRead, Least

\* A whole chunk's payload, and what it completes, are sequences of units.
LEMMA AssembledType ==
    ASSUME ReaderTypeOK, NEW h \in Header, ~Refused(h), Whole(h)
    PROVE  Payload(h) \in Seq(Unit) /\ Assembled(h) \in Seq(Unit)
<1>1. NeedRead(h) \in Nat /\ 1 + NeedRead(h) <= Len(wire) /\ Len(wire) \in Nat
  <2>1. NeedRead(h) \in 0 .. maxChunk /\ have >= 1 + NeedRead(h)
    BY ReadSizes DEF Whole
  <2>2. maxChunk \in Nat /\ have \in 0 .. Len(wire) /\ Len(wire) \in Nat
    BY DEF ReaderTypeOK
  <2>. QED
    BY <2>1, <2>2
<1>2. \A i \in 2 .. 1 + NeedRead(h) : wire[i] \in Unit
  BY <1>1 DEF ReaderTypeOK
<1>3. Payload(h) \in Seq(Unit)
  BY <1>1, <1>2, SubSeqProperties DEF Payload
<1>. QED
  BY <1>3, ReadSizes, ConcatProperties DEF Assembled

\* Splitting off what is in read_buf leaves a stream and a buffer.
LEMMA SplitOffType ==
    ASSUME ReaderTypeOK, NEW n \in 0 .. have, SplitOff(n)
    PROVE  wire' \in Seq(Unit) /\ have' \in 0 .. Len(wire') /\ have' = have - n
<1>1. Len(wire) \in Nat /\ have \in Nat /\ have <= Len(wire) /\ n <= Len(wire)
  BY DEF ReaderTypeOK
<1>2. \A i \in n + 1 .. Len(wire) : wire[i] \in Unit
  BY <1>1 DEF ReaderTypeOK
<1>3. /\ SubSeq(wire, n + 1, Len(wire)) \in Seq(Unit)
      /\ Len(SubSeq(wire, n + 1, Len(wire))) = Len(wire) - n
  <2>. HIDE DEF ReaderTypeOK
  <2>. QED
    BY <1>1, <1>2, SubSeqProperties
<1>. QED
  BY <1>1, <1>3 DEF SplitOff

\* The chunk that write_chunk writes is a sequence of units.
LEMMA ChunkUnitsType ==
    ASSUME NEW id \in Nat, NEW h \in Header, NEW sent \in 0 .. h.len, NEW size \in Nat
    PROVE  ChunkUnits(id, h, sent, size) \in Seq(Unit)
<1>. DEFINE n == Least(h.len - sent, size)
            body == [i \in 1 .. n |-> [id |-> id, i |-> sent + i]]
<1>1. n \in Nat
  BY DEF Least, Header
<1>2. \A i \in 1 .. n : [id |-> id, i |-> sent + i] \in Unit
  BY <1>1 DEF Unit
<1>3. body \in Seq(Unit)
  <2>. HIDE DEF n
  <2>. QED
    BY <1>1, <1>2
<1>4. <<[id |-> id, h |-> h]>> \in Seq(Unit)
  BY DEF Unit
<1>5. ChunkUnits(id, h, sent, size) = <<[id |-> id, h |-> h]>> \o body
  BY DEF ChunkUnits
<1>. QED
  BY <1>3, <1>4, <1>5, ConcatProperties

\* What process_chunks may take for a header is one.
LEMMA SeenType == ReaderTypeOK /\ setup \in Setups => Seen \subseteq Header
<1>. SUFFICES ASSUME ReaderTypeOK, setup \in Setups, NEW h \in Seen PROVE h \in Header
  OBVIOUS
<1>1. wire[1] \in Unit
  BY DEF Seen, ReaderTypeOK
<1>2. setup.reads \subseteq Header
  BY DEF RtmpSessionAssumption
<1>. QED
  BY <1>1, <1>2, UnitTypes DEF Seen, Headers

\* A turn of read_chunk's loop keeps the types of the reader.
LEMMA TakeChunkType ==
    ASSUME ReaderTypeOK, NEW h \in Header, TakeChunk(h), maxChunk' \in InitSize .. MaxSize
    PROVE  ReaderTypeOK'
<1>1. ~Refused(h) /\ Whole(h)
  BY DEF TakeChunk, ReadsWhole, ReadFails
<1>2. wire' \in Seq(Unit) /\ have' \in 0 .. Len(wire')
  <2>1. 1 + NeedRead(h) \in 0 .. have
    BY <1>1, ReadSizes, SMTT(60) DEF Whole, ReaderTypeOK
  <2>. QED
    BY <2>1, SplitOffType DEF TakeChunk
<1>3. prev' \in [DOMAIN prev' -> MsgHeader]
  <2>1. prev \in [DOMAIN prev -> MsgHeader] /\ MessageHeader(h) \in MsgHeader
    BY <1>1, MessageHeaderType DEF ReaderTypeOK
  <2>2. prev' = Put(prev, h.cs, MessageHeader(h))
    BY DEF TakeChunk, Remember
  <2>. QED
    BY <2>1, <2>2, PutKeepsType
<1>4. partial' \in [DOMAIN partial' -> Seq(Unit)]
  <2>1. partial \in [DOMAIN partial -> Seq(Unit)] /\ Assembled(h) \in Seq(Unit)
    BY <1>1, AssembledType DEF ReaderTypeOK
  <2>2. \/ partial' = partial
        \/ partial' = Drop(partial, Key(h))
        \/ partial' = Put(partial, Key(h), Assembled(h))
    BY DEF TakeChunk, Keep
  <2>3. Put(partial, Key(h), Assembled(h))
            \in [DOMAIN Put(partial, Key(h), Assembled(h)) -> Seq(Unit)]
    BY <2>1, PutKeepsType
  <2>4. Drop(partial, Key(h))
            \in [DOMAIN Drop(partial, Key(h)) -> Seq(Unit)]
    BY <2>1, DropKeepsType
  <2>. QED
    BY <2>1, <2>2, <2>3, <2>4
<1>. QED
  BY <1>2, <1>3, <1>4 DEF ReaderTypeOK
-----------------------------------------------------------------------------
(* Types: the client *)

\* What the client sends joins the units that are on their way.
LEMMA SendType ==
    ASSUME ReaderTypeOK, NEW units \in Seq(Unit), Send(units), have' = have, UNCHANGED reader
    PROVE  ReaderTypeOK'
<1>1. wire \o units \in Seq(Unit) /\ Len(wire \o units) = Len(wire) + Len(units)
  BY ConcatProperties DEF ReaderTypeOK
<1>2. Len(units) \in Nat /\ Len(wire) \in Nat
  BY DEF ReaderTypeOK
<1>. QED
  BY <1>1, <1>2 DEF Send, ReaderTypeOK, reader

\* A chunk finishes its message, or leaves less than all of it to be sent.
LEMMA ChunkTypes ==
    ASSUME ReaderTypeOK, NEW id \in Nat, NEW h \in Header, NEW sent \in 0 .. h.len,
           writeSize \in Nat, Chunk(id, h, sent), have' = have, UNCHANGED reader
    PROVE  /\ ReaderTypeOK' /\ writeSize' \in Nat
           /\ finished' \in {finished, Append(finished, id)}
           /\ \A cs \in DOMAIN sending' :
                \/ cs \in DOMAIN sending /\ sending'[cs] = sending[cs]
                \/ sending'[cs].id = id /\ sending'[cs].sent \in 0 .. h.len
<1>1. ReaderTypeOK'
  BY ChunkUnitsType, SendType DEF Chunk
<1>2. CASE h.len - sent <= writeSize
  <2>1. writeSize' \in Nat /\ finished' = Append(finished, id)
    BY <1>2 DEF Chunk, Header
  <2>2. sending' = Drop(sending, h.cs)
    BY <1>2 DEF Chunk
  <2>. QED
    BY <1>1, <2>1, <2>2 DEF Drop
<1>3. CASE ~(h.len - sent <= writeSize)
  <2>1. sent + writeSize \in 0 .. h.len
    BY <1>3 DEF Header
  <2>2. /\ sending' = Put(sending, h.cs, [id |-> id, sent |-> sent + writeSize])
        /\ finished' = finished /\ writeSize' = writeSize
    BY <1>3 DEF Chunk
  <2>. QED
    BY <1>1, <2>1, <2>2 DEF Put
<1>. QED
  BY <1>2, <1>3

\* A message that fits after the last one gets a timestamp.
LEMMA BeginTypes ==
    ASSUME TypeOK, NEW m \in setup.says, NEW fmt \in Formats(m)
    PROVE  /\ m \in MsgOnStream /\ fmt \in 0 .. 3 /\ HeaderOf(m, fmt) \in Header
           /\ [m EXCEPT !.ts = Timestamp(m, fmt)] \in MsgOnStream
<1>1. m \in MsgOnStream
  BY DEF TypeOK, SessionTypeOK, RtmpSessionAssumption
<1>2. fmt \in 0 .. 3 /\ (fmt # 0 => m.cs \in DOMAIN last)
  BY DEF Formats
<1>3. Timestamp(m, fmt) \in Nat
  <2>1. fmt # 0 => last[m.cs] \in MsgOnStream
    BY <1>2 DEF TypeOK, ClientTypeOK
  <2>2. m.ts \in Nat /\ (fmt # 0 => last[m.cs].ts \in Nat)
    BY <1>1, <2>1 DEF MsgOnStream
  <2>. QED
    BY <2>2 DEF Timestamp
<1>. QED
  BY <1>1, <1>2, <1>3 DEF HeaderOf, Header, MsgOnStream

\* What a client does keeps the types of all it touches: its own state and the stream.
LEMMA ClientTypes == TypeOK /\ Client => TypeOK'
<1>. SUFFICES ASSUME TypeOK, Client PROVE TypeOK'
  OBVIOUS
<1>0. ReaderTypeOK /\ SessionTypeOK /\ ClientTypeOK /\ UNCHANGED reader
  BY DEF Client, TypeOK
<1>1. SessionTypeOK'
  BY <1>0 DEF Client, SessionTypeOK, control
<1>2. CASE Greet
  <2>1. \A n \in Nat : [i \in 1 .. n |-> Junk] \in Seq(Unit)
    BY UnitTypes
  <2>2. READ_SIZE \in Nat /\ HelloSize \in Nat
    BY DEF READ_SIZE
  <2>3. PICK n \in Nat : Send([i \in 1 .. n |-> Junk])
    BY <1>2, <2>2 DEF Greet
  <2>4. ReaderTypeOK'
    <3>1. [i \in 1 .. n |-> Junk] \in Seq(Unit)
      BY <2>1
    <3>. QED
      BY <1>0, <1>2, <2>3, <3>1, SendType DEF Greet
  <2>5. ClientTypeOK'
    BY <1>0, <1>2 DEF Greet, ClientTypeOK
  <2>. QED
    BY <1>1, <2>4, <2>5 DEF TypeOK
<1>3. CASE Babble
  <2>1. <<Junk>> \in Seq(Unit)
    BY UnitTypes
  <2>2. ReaderTypeOK'
    BY <1>0, <1>3, <2>1, SendType DEF Babble
  <2>3. ClientTypeOK'
    BY <1>0, <1>3 DEF Babble, ClientTypeOK
  <2>. QED
    BY <1>1, <2>2, <2>3 DEF TypeOK
<1>4. CASE Leave
  <2>1. ReaderTypeOK'
    BY <1>0, <1>4 DEF Leave, ReaderTypeOK, reader, buffers
  <2>2. ClientTypeOK'
    BY <1>0, <1>4 DEF Leave, ClientTypeOK
  <2>. QED
    BY <1>1, <2>1, <2>2 DEF TypeOK
<1>5. ASSUME NEW m \in setup.says, NEW fmt \in Formats(m), Begin(m, fmt) PROVE TypeOK'
  <2>. DEFINE told == [m EXCEPT !.ts = Timestamp(m, fmt)]
              id == Len(said) + 1
  <2>1. /\ told \in MsgOnStream /\ HeaderOf(m, fmt) \in Header /\ m \in MsgOnStream
        /\ HeaderOf(m, fmt).len = m.len /\ told.len = m.len /\ m.len \in Nat
    BY BeginTypes DEF HeaderOf, MsgOnStream
  <2>2. /\ id \in Nat /\ said \in Seq(MsgOnStream) /\ Len(said) \in Nat
        /\ DOMAIN said = 1 .. Len(said)
    BY <1>0 DEF ClientTypeOK
  <2>3. said' = Append(said, told) /\ last' = Put(last, m.cs, told)
    BY <1>5 DEF Begin
  <2>4. Chunk(id, HeaderOf(m, fmt), 0) /\ have' = have /\ writeSize \in Nat
    BY <1>0, <1>5 DEF Begin, ClientTypeOK
  <2>. HIDE DEF told, id
  <2>5. id = Len(said) + 1
    BY DEF id
  <2>6. /\ said' \in Seq(MsgOnStream) /\ DOMAIN said' = 1 .. id
        /\ said'[id] = told /\ \A n \in DOMAIN said : said'[n] = said[n]
    BY <2>1, <2>2, <2>3, <2>5
  <2>7. last' \in [DOMAIN last' -> MsgOnStream]
    <3>1. last \in [DOMAIN last -> MsgOnStream]
      BY <1>0 DEF ClientTypeOK
    <3>. QED
      BY <2>1, <2>3, <3>1, PutKeepsType
  <2>8. /\ ReaderTypeOK' /\ writeSize' \in Nat /\ finished' \in {finished, Append(finished, id)}
        /\ \A cs \in DOMAIN sending' :
            \/ cs \in DOMAIN sending /\ sending'[cs] = sending[cs]
            \/ sending'[cs].id = id /\ sending'[cs].sent \in 0 .. m.len
    <3>1. 0 \in 0 .. HeaderOf(m, fmt).len
      BY <2>1
    <3>. QED
      BY <1>0, <2>1, <2>2, <2>4, <3>1, ChunkTypes
  <2>9. finished' \in Seq(DOMAIN said')
    <3>1. id \in DOMAIN said' /\ DOMAIN said \subseteq DOMAIN said'
      BY <2>2, <2>5, <2>6
    <3>2. finished \in Seq(DOMAIN said')
      BY <1>0, <3>1, SeqMonotonic DEF ClientTypeOK
    <3>. QED
      BY <2>8, <3>1, <3>2
  <2>10. \A cs \in DOMAIN sending' : /\ sending'[cs].id \in DOMAIN said'
                                     /\ sending'[cs].sent \in 0 .. said'[sending'[cs].id].len
    <3>. SUFFICES ASSUME NEW cs \in DOMAIN sending'
                  PROVE  /\ sending'[cs].id \in DOMAIN said'
                         /\ sending'[cs].sent \in 0 .. said'[sending'[cs].id].len
      OBVIOUS
    <3>1. CASE cs \in DOMAIN sending /\ sending'[cs] = sending[cs]
      <4>1. /\ sending[cs].id \in DOMAIN said
            /\ sending[cs].sent \in 0 .. said[sending[cs].id].len
        BY <1>0, <3>1 DEF ClientTypeOK
      <4>2. sending[cs].id \in DOMAIN said' /\ said'[sending[cs].id] = said[sending[cs].id]
        BY <2>2, <2>5, <2>6, <4>1
      <4>. QED
        BY <3>1, <4>1, <4>2
    <3>2. CASE sending'[cs].id = id /\ sending'[cs].sent \in 0 .. m.len
      BY <2>1, <2>2, <2>5, <2>6, <3>2
    <3>. QED
      BY <2>8, <3>1, <3>2
  <2>11. ClientTypeOK'
    BY <1>0, <1>5, <2>6, <2>7, <2>8, <2>9, <2>10 DEF ClientTypeOK, Begin
  <2>. QED
    BY <1>1, <2>8, <2>11 DEF TypeOK
<1>6. ASSUME NEW cs \in DOMAIN sending, Continue(cs) PROVE TypeOK'
  <2>. DEFINE s == sending[cs]  m == said[s.id]
  <2>1. s.id \in DOMAIN said /\ s.sent \in 0 .. m.len
    BY <1>0 DEF ClientTypeOK
  <2>2. m \in MsgOnStream /\ s.id \in Nat
    BY <1>0, <2>1 DEF ClientTypeOK
  <2>3. /\ Chunk(s.id, HeaderOf(m, 3), s.sent) /\ have' = have /\ writeSize \in Nat
        /\ said' = said /\ last' = last
    BY <1>0, <1>6 DEF Continue, ClientTypeOK
  <2>. HIDE DEF s, m
  <2>4. HeaderOf(m, 3) \in Header /\ HeaderOf(m, 3).len = m.len
    BY <2>2 DEF HeaderOf, Header, MsgOnStream
  <2>5. /\ ReaderTypeOK' /\ writeSize' \in Nat /\ finished' \in {finished, Append(finished, s.id)}
        /\ \A c \in DOMAIN sending' :
            \/ c \in DOMAIN sending /\ sending'[c] = sending[c]
            \/ sending'[c].id = s.id /\ sending'[c].sent \in 0 .. m.len
    BY <1>0, <2>1, <2>2, <2>3, <2>4, ChunkTypes
  <2>6. finished' \in Seq(DOMAIN said')
    <3>1. finished \in Seq(DOMAIN said)
      BY <1>0 DEF ClientTypeOK
    <3>. QED
      BY <2>1, <2>3, <2>5, <3>1
  <2>7. \A c \in DOMAIN sending' : /\ sending'[c].id \in DOMAIN said'
                                   /\ sending'[c].sent \in 0 .. said'[sending'[c].id].len
    <3>1. m = said[s.id]
      BY DEF m
    <3>. QED
      BY <1>0, <2>1, <2>3, <2>5, <3>1 DEF ClientTypeOK
  <2>8. ClientTypeOK'
    BY <1>0, <1>6, <2>3, <2>5, <2>6, <2>7 DEF ClientTypeOK, Continue
  <2>. QED
    BY <1>1, <2>5, <2>8 DEF TypeOK
<1>. QED
  BY <1>2, <1>3, <1>4, <1>5, <1>6 DEF Client
-----------------------------------------------------------------------------
(* Types: the session *)

\* A read returns some of the units on their way; sequence_number wraps.
LEMMA TakeInTypes ==
    ASSUME ReaderTypeOK, seq \in Nat, NEW n \in Arrived, TakeIn(n), wire' = wire, UNCHANGED reader
    PROVE  ReaderTypeOK' /\ seq' \in 0 .. SeqLimit - 1 /\ n \in Nat
<1>1. Len(wire) \in Nat /\ have \in Nat /\ have <= Len(wire)
  BY DEF ReaderTypeOK
<1>2. n \in Nat /\ n <= Len(wire) - have
  BY <1>1 DEF Arrived, Least
<1>3. have' \in 0 .. Len(wire')
  BY <1>1, <1>2 DEF TakeIn
<1>4. (seq + n) % SeqLimit \in 0 .. SeqLimit - 1
  BY <1>2
<1>. QED
  BY <1>2, <1>3, <1>4 DEF TakeIn, ReaderTypeOK, reader

\* What the session reads, writes and counts has its type, before and after a step
\* that leaves the messages alone.
LEMMA InputOutputTypes ==
    ASSUME ReaderTypeOK, SessionTypeOK, UNCHANGED <<setup, done, got>>,
           \/ HandshakeRead \/ Hello \/ Echo \/ Cancelled \/ HandshakeFails
           \/ Flush \/ FlushFails \/ Drive \/ Read \/ ClientGone \/ BrokenRead
    PROVE  ReaderTypeOK' /\ SessionTypeOK'
<1>. USE DEF PCs, Owable
<1>1. CASE HandshakeRead
  <2>1. PICK n \in Arrived : TakeIn(n)
    BY <1>1 DEF HandshakeRead
  <2>2. ReaderTypeOK' /\ seq' \in 0 .. SeqLimit - 1
    BY <1>1, <2>1, TakeInTypes DEF HandshakeRead, SessionTypeOK
  <2>. QED
    BY <1>1, <2>2 DEF HandshakeRead, SessionTypeOK, control
<1>2. CASE Hello
  <2>1. have \in 0 .. have
    BY DEF ReaderTypeOK
  <2>2. ReaderTypeOK'
    BY <1>2, <2>1, SplitOffType DEF Hello, ReaderTypeOK, reader
  <2>. QED
    BY <1>2, <2>2 DEF Hello, SessionTypeOK, control, Owe
<1>3. CASE Echo
  <2>1. HelloSize \in 0 .. have
    BY <1>3 DEF ReaderTypeOK, Echo, READ_SIZE
  <2>2. ReaderTypeOK'
    BY <1>3, <2>1, SplitOffType DEF Echo, ReaderTypeOK, reader
  <2>3. skipRead' \in BOOLEAN
    BY <1>3 DEF Echo, OverRead
  <2>. QED
    BY <1>3, <2>2, <2>3 DEF Echo, SessionTypeOK, control, Owe
<1>4. CASE Cancelled \/ HandshakeFails \/ FlushFails \/ BrokenRead
  <2>1. UNCHANGED <<input, control, reader, owed>> /\ pc' = "ended" /\ result' \in {"false", "err"}
    BY <1>4 DEF Cancelled, HandshakeFails, FlushFails, BrokenRead, End
  <2>2. ReaderTypeOK'
    BY <2>1 DEF ReaderTypeOK, reader, input, buffers
  <2>. QED
    BY <2>1, <2>2 DEF SessionTypeOK, control, input
<1>5. CASE Flush
  <2>1. UNCHANGED <<input, control, reader, result>> /\ owed' = {} /\ pc' \in {"echo", "drive"} /\ pc # "ended"
    BY <1>5 DEF Flush
  <2>2. ReaderTypeOK'
    BY <2>1 DEF ReaderTypeOK, reader, input, buffers
  <2>. QED
    BY <2>1, <2>2 DEF SessionTypeOK, control, input
<1>6. CASE Drive
  <2>1. ReaderTypeOK'
    BY <1>6 DEF Drive, ReaderTypeOK, reader, buffers
  <2>2. asked' \in BOOLEAN /\ owed' \subseteq Owable
    BY <1>6 DEF Drive, Reconnects, Owe, SessionTypeOK
  <2>3. pc' \in {"parse", "read"} /\ pc # "ended" /\ skipRead' = FALSE
    BY <1>6 DEF Drive
  <2>. QED
    BY <1>6, <2>1, <2>2, <2>3 DEF Drive, SessionTypeOK
<1>7. CASE Read
  <2>1. PICK n \in Arrived : /\ TakeIn(n)
                             /\ \/ owed' = owed \union {"acknowledgement"} /\ unacked' = 0
                                \/ owed' = owed /\ unacked' = unacked + n
    BY <1>7 DEF Read, Owe
  <2>2. ReaderTypeOK' /\ seq' \in 0 .. SeqLimit - 1 /\ n \in Nat
    BY <1>7, <2>1, TakeInTypes DEF Read, SessionTypeOK
  <2>3. unacked' \in Nat
    BY <2>1, <2>2 DEF SessionTypeOK
  <2>4. owed' \subseteq Owable
    BY <2>1 DEF SessionTypeOK
  <2>. QED
    BY <1>7, <2>2, <2>3, <2>4 DEF Read, SessionTypeOK, control
<1>8. CASE ClientGone
  <2>1. UNCHANGED <<input, control, reader, owed>> /\ pc' = "ended" /\ result' \in {"true", "false"}
    BY <1>8 DEF ClientGone, Finish, End
  <2>2. ReaderTypeOK'
    BY <2>1 DEF ReaderTypeOK, reader, input, buffers
  <2>. QED
    BY <2>1, <2>2 DEF SessionTypeOK, control, input
<1>. QED
  BY <1>1, <1>2, <1>3, <1>4, <1>5, <1>6, <1>7, <1>8

\* What a complete message sets has the types of what it carries.
LEMMA ParseTypes ==
    ASSUME ReaderTypeOK, SessionTypeOK, Parse, UNCHANGED <<setup, done>>
    PROVE  ReaderTypeOK' /\ SessionTypeOK'
<1>1. PICK h \in Seen :
        \/ Partly(h) \/ OnSetChunkSize(h) \/ OnWindow(h) \/ OnConnect(h)
        \/ OnCreateStream(h) \/ OnPublish(h) \/ OnDeleteStream(h) \/ OnData(h)
  BY DEF Parse
<1>2. h \in Header
  BY SeenType DEF SessionTypeOK
<1>3. TakeChunk(h)
  BY <1>1 DEF Partly, OnSetChunkSize, OnWindow, OnConnect, OnCreateStream, OnPublish,
       OnDeleteStream, OnData, Message
<1>4. ~Refused(h) /\ Whole(h)
  BY <1>3 DEF TakeChunk, ReadsWhole, ReadFails
<1>5. MessageHeader(h) \in MsgHeader /\ Assembled(h) \in Seq(Unit)
  BY <1>2, <1>4, MessageHeaderType, AssembledType
<1>6. Arg(h) \in Nat /\ MessageHeader(h).ms \in Nat /\ h.cs \in Nat
  BY <1>2, <1>5 DEF Arg, MsgHeader, Header
<1>7. got' \in Seq([cs : Nat, head : MsgHeader, payload : Seq(Unit)])
  <2>. DEFINE message == [cs |-> h.cs, head |-> MessageHeader(h), payload |-> Assembled(h)]
  <2>1. message \in Messages
    BY <1>5, <1>6 DEF Messages
  <2>2. got \in Seq(Messages)
    BY DEF SessionTypeOK, Messages
  <2>3. got' = got \/ got' = Append(got, message)
    <3>1. CASE Partly(h)
      BY <3>1 DEF Partly
    <3>2. CASE \E k : Message(h, k)
      BY <3>2 DEF Message
    <3>. QED
      BY <1>1, <3>1, <3>2 DEF OnSetChunkSize, OnWindow, OnConnect, OnCreateStream, OnPublish,
           OnDeleteStream, OnData
  <2>. HIDE DEF message
  <2>4. got' \in Seq(Messages)
    BY <2>1, <2>2, <2>3
  <2>. QED
    BY <2>4 DEF Messages
<1>8. maxChunk' \in InitSize .. MaxSize
  <2>1. maxChunk \in InitSize .. MaxSize
    BY DEF ReaderTypeOK
  <2>. QED
    BY <1>1, <2>1 DEF Partly, OnSetChunkSize, OnWindow, OnConnect, OnCreateStream, OnPublish,
         OnDeleteStream, OnData, Allowed
<1>9. ReaderTypeOK'
  BY <1>2, <1>3, <1>8, TakeChunkType
<1>10. publishing' \subseteq Nat
  BY <1>1, <1>6 DEF Partly, OnSetChunkSize, OnWindow, OnConnect, OnCreateStream, OnPublish,
       OnDeleteStream, OnData, SessionTypeOK
<1>11. window' \in Nat /\ unacked' \in Nat
  BY <1>1, <1>6 DEF Partly, OnSetChunkSize, OnWindow, OnConnect, OnCreateStream, OnPublish,
       OnDeleteStream, OnData, SessionTypeOK
<1>12. app' \in BOOLEAN /\ caps' \in BOOLEAN /\ owed' \subseteq Owable
  BY <1>1 DEF Partly, OnSetChunkSize, OnWindow, OnConnect, OnCreateStream, OnPublish,
       OnDeleteStream, OnData, SessionTypeOK, Owe, Owable
<1>13. UNCHANGED <<pc, seq, skipRead, asked, result, setup, done>>
  BY DEF Parse
<1>. QED
  BY <1>7, <1>9, <1>10, <1>11, <1>12, <1>13 DEF SessionTypeOK

LEMMA SessionTypes ==
    ASSUME TypeOK, Session PROVE TypeOK'
<1>1. ReaderTypeOK /\ SessionTypeOK /\ ClientTypeOK /\ UNCHANGED <<setup, done, client>>
  BY DEF Session, TypeOK
<1>2. ClientTypeOK'
  BY <1>1 DEF ClientTypeOK, client
<1>3. CASE NoMore
  <2>1. ReaderTypeOK'
    BY <1>1, <1>3 DEF NoMore, ReaderTypeOK, reader, input, buffers
  <2>2. SessionTypeOK'
    BY <1>1, <1>3 DEF NoMore, SessionTypeOK, input, control, PCs
  <2>. QED
    BY <1>2, <2>1, <2>2 DEF TypeOK
<1>4. CASE Parse
  BY <1>1, <1>2, <1>4, ParseTypes DEF TypeOK
<1>5. CASE ParseFails \/ Panic
  <2>1. /\ UNCHANGED <<input, control, reader, owed, got>>
        /\ pc' = "ended" /\ result' \in {"true", "false", "err", "panic"}
    BY <1>5 DEF ParseFails, Panic, Finish, End
  <2>2. ReaderTypeOK'
    BY <1>1, <2>1 DEF ReaderTypeOK, reader, input, buffers
  <2>3. SessionTypeOK'
    BY <1>1, <2>1 DEF SessionTypeOK, input, control, PCs
  <2>. QED
    BY <1>2, <2>2, <2>3 DEF TypeOK
<1>6. CASE UNCHANGED got /\ ( \/ HandshakeRead \/ Hello \/ Echo \/ Cancelled \/ HandshakeFails
                             \/ Flush \/ FlushFails \/ Drive \/ Read \/ ClientGone \/ BrokenRead)
  BY <1>1, <1>2, <1>6, InputOutputTypes DEF TypeOK
<1>. QED
  BY <1>3, <1>4, <1>5, <1>6 DEF Session

LEMMA InitTypes == Init => TypeOK
<1>. SUFFICES ASSUME Init PROVE TypeOK
  OBVIOUS
<1>1. ReaderTypeOK
  BY DEF Init, ReaderInit, ReaderTypeOK
<1>2. SessionTypeOK
  <2>1. publishing \subseteq Nat /\ owed \subseteq Owable
    BY DEF Init
  <2>2. got \in Seq([cs : Nat, head : MsgHeader, payload : Seq(Unit)])
    BY DEF Init
  <2>3. seq \in 0 .. SeqLimit - 1 /\ window \in Nat /\ unacked \in Nat
    BY DEF Init
  <2>. QED
    BY <2>1, <2>2, <2>3 DEF Init, SessionTypeOK, PCs
<1>3. ClientTypeOK
  <2>1. said = <<>> /\ last = <<>> /\ sending = <<>> /\ finished = <<>>
    BY DEF Init
  <2>2. greeted \in Nat /\ conn \in {"open", "shut", "reset"} /\ writeSize \in Nat
    BY DEF Init
  <2>3. last \in [DOMAIN last -> MsgOnStream] /\ DOMAIN sending = {}
    BY <2>1
  <2>4. said \in Seq(MsgOnStream) /\ finished \in Seq(DOMAIN said)
    BY <2>1
  <2>. QED
    BY <2>2, <2>3, <2>4 DEF ClientTypeOK
<1>. QED
  BY <1>1, <1>2, <1>3 DEF TypeOK

LEMMA NextTypes == TypeOK /\ [Next]_vars => TypeOK'
<1>. SUFFICES ASSUME TypeOK, [Next]_vars PROVE TypeOK'
  OBVIOUS
<1>1. CASE Client
  BY <1>1, ClientTypes
<1>2. CASE ContextDone
  <2>1. ReaderTypeOK'
    BY <1>2 DEF ContextDone, TypeOK, ReaderTypeOK, reader, input, buffers
  <2>2. SessionTypeOK'
    BY <1>2 DEF ContextDone, TypeOK, SessionTypeOK, input, control
  <2>3. ClientTypeOK'
    BY <1>2 DEF ContextDone, TypeOK, ClientTypeOK, client
  <2>. QED
    BY <2>1, <2>2, <2>3 DEF TypeOK
<1>3. CASE Session
  BY <1>3, SessionTypes
<1>4. CASE UNCHANGED vars
  <2>1. ReaderTypeOK'
    BY <1>4 DEF vars, TypeOK, ReaderTypeOK, reader, input, buffers
  <2>2. SessionTypeOK'
    BY <1>4 DEF vars, TypeOK, SessionTypeOK, input, control
  <2>3. ClientTypeOK'
    BY <1>4 DEF vars, TypeOK, ClientTypeOK, client
  <2>. QED
    BY <2>1, <2>2, <2>3 DEF TypeOK
<1>. QED
  BY <1>1, <1>2, <1>3, <1>4 DEF Next

\* The reader's, the session's and the client's state keep their types, for any
\* headers, sizes and limits: every length, position and index is a natural number
\* within its sequence, whatever junk read_chunk takes for a header.
THEOREM RtmpTypes == Spec => []TypeOK
<1>1. Init => TypeOK
  BY InitTypes
<1>2. TypeOK /\ [Next]_vars => TypeOK'
  BY NextTypes
<1>. QED
  BY <1>1, <1>2, PTL DEF Spec
-----------------------------------------------------------------------------
(* Limits *)

\* LimitsHold counts, so the maps are finite, and what is left in read_buf has to be
\* less than a chunk from the moment process_chunks returns to the next read.
Tables ==
    /\ IsFiniteSet(DOMAIN prev) /\ IsFiniteSet(DOMAIN partial)
    /\ \A k \in DOMAIN partial : k[1] \in DOMAIN prev
    /\ Cardinality(DOMAIN prev) <= MaxHeaders
    /\ Cardinality(DOMAIN partial) <= MaxPartial
    /\ \A k \in DOMAIN partial : Len(partial[k]) <= MaxPartialSize

Rest == pc \in {"flush", "read"} \/ (pc = "drive" /\ ~skipRead) => have <= maxChunk

Bounded == TypeOK /\ Tables /\ Rest

\* A chunk that is not refused fits into the tables of read_chunk.
LEMMA TakeChunkTables ==
    ASSUME ReaderTypeOK, Tables, NEW h \in Header, TakeChunk(h) PROVE Tables'
<1>1. ~Refused(h) /\ Whole(h)
  BY DEF TakeChunk, ReadsWhole, ReadFails
<1>2. ~TooManyHeaders(h) /\ (Direct(h) \/ (~TooManyPartials(h) /\ ~TooLarge(h)))
  BY <1>1 DEF TakeChunk, ReadsWhole, ReadFails
<1>3. DOMAIN prev' = DOMAIN prev \union {h.cs}
  BY DEF TakeChunk, Remember, Put
<1>4. IsFiniteSet(DOMAIN prev') /\ Cardinality(DOMAIN prev') <= MaxHeaders
  <2>1. IsFiniteSet(DOMAIN prev')
    BY <1>3, FS_AddElement DEF Tables
  <2>2. Cardinality(DOMAIN prev') \in Nat
    BY <2>1, FS_CardinalityType
  <2>. QED
    BY <1>2, <1>3, <2>1, <2>2 DEF TooManyHeaders
<1>5. CASE Direct(h)
  <2>1. partial' = partial
    BY <1>5 DEF TakeChunk, Keep
  <2>. QED
    BY <1>3, <1>4, <2>1 DEF Tables
<1>6. CASE ~Direct(h) /\ Complete(h)
  <2>1. partial' = Drop(partial, Key(h))
    BY <1>6 DEF TakeChunk, Keep
  <2>2. /\ DOMAIN partial' = DOMAIN partial \ {Key(h)}
        /\ \A k \in DOMAIN partial' : partial'[k] = partial[k]
    BY <2>1 DEF Drop
  <2>3. IsFiniteSet(DOMAIN partial') /\ Cardinality(DOMAIN partial') <= Cardinality(DOMAIN partial)
    BY <2>2, FS_Subset DEF Tables
  <2>4. Cardinality(DOMAIN partial) \in Nat /\ Cardinality(DOMAIN partial') \in Nat
    BY <2>3, FS_CardinalityType DEF Tables
  <2>. QED
    BY <1>3, <1>4, <2>2, <2>3, <2>4 DEF Tables
<1>7. CASE ~Direct(h) /\ ~Complete(h)
  <2>1. partial' = Put(partial, Key(h), Assembled(h))
    BY <1>7 DEF TakeChunk, Keep
  <2>2. /\ DOMAIN partial' = DOMAIN partial \union {Key(h)}
        /\ \A k \in DOMAIN partial' :
            partial'[k] = IF k = Key(h) THEN Assembled(h) ELSE partial[k]
    BY <2>1 DEF Put
  <2>3. Len(Assembled(h)) <= MaxPartialSize
    <3>1. Len(Assembled(h)) \in Nat
      BY <1>1, AssembledType
    <3>. QED
      BY <1>2, <1>7, <3>1 DEF TooLarge
  <2>4. Key(h)[1] \in DOMAIN prev'
    BY <1>3 DEF Key
  <2>5. IsFiniteSet(DOMAIN partial') /\ Cardinality(DOMAIN partial') <= MaxPartial
    <3>1. CASE Key(h) \in DOMAIN partial
      <4>1. DOMAIN partial' = DOMAIN partial
        BY <2>2, <3>1
      <4>. QED
        BY <4>1 DEF Tables
    <3>2. CASE Key(h) \notin DOMAIN partial
      <4>. DEFINE keys == DOMAIN partial
      <4>0. IsFiniteSet(keys) /\ Key(h) \notin keys
        BY <3>2 DEF Tables
      <4>. HIDE DEF keys
      <4>1. /\ IsFiniteSet(keys \union {Key(h)})
            /\ Cardinality(keys \union {Key(h)}) = Cardinality(keys) + 1
        BY <4>0, FS_AddElement
      <4>2. Cardinality(keys) \in Nat
        BY <4>0, FS_CardinalityType
      <4>. QED
        BY <1>2, <1>7, <2>2, <3>2, <4>1, <4>2 DEF TooManyPartials, keys
    <3>. QED
      BY <3>1, <3>2
  <2>. QED
    BY <1>3, <1>4, <2>2, <2>3, <2>4, <2>5 DEF Tables
<1>. QED
  BY <1>5, <1>6, <1>7

\* process_chunks stops with less than a chunk in the buffer.
LEMMA NoMoreRest == TypeOK /\ NoMore => Rest'
<1>. SUFFICES ASSUME TypeOK, NoMore PROVE have' <= maxChunk'
  BY DEF Rest
<1>1. UNCHANGED <<have, maxChunk>> /\ have \in Nat /\ maxChunk \in Nat
  BY DEF NoMore, input, buffers, reader, TypeOK, ReaderTypeOK
<1>2. CASE have = 0
  BY <1>1, <1>2
<1>3. ASSUME NEW h \in Seen, ~Refused(h), ~Whole(h) PROVE have' <= maxChunk'
  <2>1. h \in Header
    BY SeenType DEF TypeOK, SessionTypeOK
  <2>2. NeedRead(h) \in 0 .. maxChunk
    BY <1>3, <2>1, ReadSizes DEF TypeOK
  <2>. QED
    BY <1>1, <1>3, <2>2 DEF Whole
<1>. QED
  BY <1>2, <1>3 DEF NoMore

LEMMA InitBounded == Init => Bounded
<1>. SUFFICES ASSUME Init PROVE Tables /\ Rest
  BY InitTypes DEF Bounded
<1>1. DOMAIN prev = {} /\ DOMAIN partial = {} /\ pc = "hello"
  BY DEF Init, ReaderInit
<1>. QED
  BY <1>1, FS_EmptySet DEF Tables, Rest

LEMMA NextBounded == Bounded /\ [Next]_vars => Bounded'
<1>. SUFFICES ASSUME Bounded, [Next]_vars PROVE Tables' /\ Rest'
  BY NextTypes DEF Bounded
<1>1. CASE Parse
  <2>1. PICK h \in Seen : TakeChunk(h)
    BY <1>1 DEF Parse, Partly, OnSetChunkSize, OnWindow, OnConnect, OnCreateStream,
         OnPublish, OnDeleteStream, OnData, Message
  <2>2. h \in Header
    BY SeenType DEF Bounded, TypeOK, SessionTypeOK
  <2>3. Tables'
    BY <2>1, <2>2, TakeChunkTables DEF Bounded, TypeOK
  <2>4. pc' = "parse"
    BY <1>1, <2>1 DEF Parse, Seen
  <2>. QED
    BY <2>3, <2>4 DEF Rest
<1>2. ASSUME UNCHANGED reader PROVE Tables'
  BY <1>2 DEF reader, Bounded, Tables
<1>3. CASE Client \/ ContextDone \/ UNCHANGED vars
  <2>1. UNCHANGED reader /\ UNCHANGED <<pc, skipRead, have>>
    BY <1>3 DEF Client, ContextDone, vars, input, buffers, Greet, Babble, Leave, Begin, Continue
  <2>2. Rest'
    BY <2>1 DEF reader, Bounded, Rest
  <2>. QED
    BY <1>2, <2>1, <2>2
<1>4. CASE NoMore
  BY <1>2, <1>4, NoMoreRest DEF NoMore, Bounded
<1>5. CASE ParseFails \/ Panic \/ Cancelled \/ HandshakeFails \/ FlushFails \/ ClientGone \/ BrokenRead
  <2>1. UNCHANGED reader /\ pc' = "ended"
    BY <1>5 DEF ParseFails, Panic, Cancelled, HandshakeFails, FlushFails, ClientGone,
         BrokenRead, Finish, End
  <2>. QED
    BY <1>2, <2>1 DEF Rest
<1>6. CASE HandshakeRead \/ Hello \/ Echo \/ Read
  <2>1. UNCHANGED reader
    BY <1>6 DEF HandshakeRead, Hello, Echo, Read
  <2>2. pc' \in {"hello", "echo", "greet", "parse"} \/ (pc' = "drive" /\ skipRead')
    <3>1. CASE Echo
      <4>1. have >= HelloSize + 1 /\ have \in Nat
        BY <3>1 DEF Echo, READ_SIZE, Bounded, TypeOK, ReaderTypeOK
      <4>2. OverRead
        BY <4>1 DEF OverRead
      <4>. QED
        BY <3>1, <4>2 DEF Echo
    <3>. QED
      BY <1>6, <3>1 DEF HandshakeRead, Hello, Read
  <2>. QED
    BY <1>2, <2>1, <2>2 DEF Rest
<1>7. CASE Flush \/ Drive
  <2>1. UNCHANGED reader /\ have' = have
    BY <1>7 DEF Flush, Drive, input, buffers
  <2>2. pc' \in {"echo", "parse"} \/ pc = "flush" \/ (pc = "drive" /\ ~skipRead)
    BY <1>7 DEF Flush, Drive
  <2>. QED
    BY <1>2, <2>1, <2>2 DEF Rest, Bounded, reader
<1>. QED
  BY <1>1, <1>3, <1>4, <1>5, <1>6, <1>7 DEF Next, Session

\* Whatever headers a client's bytes are taken for, previous_chunk_headers and
\* partial_chunks stay within their limits, no partial message is longer than the
\* limit or without a header, and the session reads on only with less than a chunk
\* in read_buf.
THEOREM RtmpLimits == Spec => []LimitsHold
<1>1. Init => Bounded
  BY InitBounded
<1>2. Bounded /\ [Next]_vars => Bounded'
  BY NextBounded
<1>3. Bounded => LimitsHold
  BY DEF Bounded, Tables, Rest, LimitsHold
<1>. QED
  BY <1>1, <1>2, <1>3, PTL DEF Spec
-----------------------------------------------------------------------------
(* Acknowledgements *)

\* What was read since the last acknowledgement is behind it only so far.  Nothing
\* that was read before the first chunk counts, nor with a window of 0.
Counted ==
    /\ pc \in {"hello", "greet", "echo"} \/ window = 0 => unacked = 0
    /\ window # 0 /\ window + MaxRead <= SeqLimit => Behind(unacked, seq, window)

AckInv == TypeOK /\ Counted

\* After an acknowledgement, or with a new window, nothing is behind.
LEMMA NoneCounted ==
    ASSUME seq' \in Nat, window' \in Nat, unacked' = 0 PROVE Counted'
<1>1. window' # 0 => Behind(0, seq', window')
  BY NoneBehind
<1>. QED
  BY <1>1 DEF Counted

\* A read that owes no acknowledgement stays within the window.
LEMMA ReadCounted ==
    ASSUME TypeOK, Counted, Read
    PROVE  Counted'
<1>1. /\ seq \in 0 .. SeqLimit - 1 /\ window \in Nat \ {0} /\ unacked \in Nat
      /\ Len(wire) \in Nat /\ have \in Nat
  BY DEF Read, TypeOK, SessionTypeOK, ReaderTypeOK
<1>2. pc' = "parse" /\ window' = window
  BY DEF Read, control
<1>3. PICK n \in Arrived :
        /\ seq' = (seq + n) % SeqLimit
        /\ \/ unacked' = 0
           \/ ~Acknowledges(n) /\ unacked' = unacked + n
  BY DEF Read, TakeIn
<1>4. n \in 0 .. MaxRead
  BY <1>1 DEF Arrived, Least
<1>5. seq' \in Nat
  BY <1>1, <1>3, <1>4
<1>6. CASE unacked' = 0
  BY <1>1, <1>2, <1>5, <1>6, NoneCounted
<1>7. CASE ~Acknowledges(n) /\ unacked' = unacked + n
  <2>. SUFFICES ASSUME window + MaxRead <= SeqLimit
                PROVE  Behind(unacked', seq', window)
    BY <1>1, <1>2 DEF Counted
  <2>1. Behind(unacked, seq, window)
    BY <1>1 DEF Counted
  <2>2. Silent(seq, n, window, SeqLimit)
    <3>1. seq % window \in Nat
      BY <1>1, RestBounds
    <3>. DEFINE r == seq % window
    <3>. HIDE DEF r
    <3>2. r \in Nat
      BY <3>1 DEF r
    <3>3. (r + n) % SeqLimit \in Nat
      BY <1>4, <3>2
    <3>4. ~((r + n) % SeqLimit >= window)
      BY <1>7 DEF Acknowledges, r
    <3>5. (r + n) % SeqLimit < window
      BY <1>1, <3>3, <3>4
    <3>. QED
      BY <3>5 DEF r, Silent
  <2>3. SeqLimit \in Nat \ {0} /\ MaxRead \in Nat
    OBVIOUS
  <2>4. Behind(unacked + n, (seq + n) % SeqLimit, window)
    BY <1>1, <1>4, <2>1, <2>2, <2>3, BehindAfter
  <2>. QED
    BY <1>3, <1>7, <2>4
<1>. QED
  BY <1>3, <1>6, <1>7

LEMMA NextCounted == AckInv /\ [Next]_vars => AckInv'
<1>. SUFFICES ASSUME TypeOK, Counted, [Next]_vars PROVE Counted'
  BY NextTypes DEF AckInv
<1>1. CASE Client \/ ContextDone \/ UNCHANGED vars
  <2>1. UNCHANGED <<pc, window, seq, unacked>>
    BY <1>1 DEF Client, ContextDone, vars, input, control
  <2>. QED
    BY <2>1 DEF Counted
<1>2. ASSUME UNCHANGED <<window, seq, unacked>>,
             pc' \in {"hello", "greet", "echo"} => pc \in {"hello", "greet", "echo"}
      PROVE  Counted'
  BY <1>2 DEF Counted
<1>3. CASE ParseFails \/ Panic \/ NoMore \/ Cancelled \/ HandshakeFails \/ FlushFails
           \/ ClientGone \/ BrokenRead
  <2>1. UNCHANGED <<input, control>> /\ pc' \in {"ended", "flush"}
    BY <1>3 DEF ParseFails, Panic, NoMore, Cancelled, HandshakeFails, FlushFails, ClientGone,
         BrokenRead, Finish, End
  <2>. QED
    BY <1>2, <2>1 DEF input, control
<1>4. CASE Hello \/ Echo \/ Flush \/ Drive
  <2>1. UNCHANGED <<window, seq, unacked>>
    BY <1>4 DEF Hello, Echo, Flush, Drive, control, input
  <2>2. pc' \in {"hello", "greet", "echo"} => pc \in {"hello", "greet", "echo"}
    BY <1>4 DEF Hello, Echo, Flush, Drive
  <2>. QED
    BY <1>2, <2>1, <2>2
<1>5. CASE HandshakeRead
  <2>1. unacked = 0 /\ UNCHANGED <<unacked, window>> /\ window \in Nat
    BY <1>5 DEF HandshakeRead, control, Counted, TypeOK, SessionTypeOK
  <2>2. seq' \in Nat
    <3>1. PICK n \in Arrived : TakeIn(n)
      BY <1>5 DEF HandshakeRead
    <3>2. wire' = wire /\ UNCHANGED reader
      BY <1>5 DEF HandshakeRead
    <3>. QED
      BY <3>1, <3>2, TakeInTypes, RtmpSessionAssumption DEF TypeOK, SessionTypeOK
  <2>. QED
    BY <2>1, <2>2, NoneCounted
<1>6. CASE Read
  BY <1>6, ReadCounted
<1>7. CASE Parse
  <2>1. PICK h \in Seen :
          \/ Partly(h) \/ OnSetChunkSize(h) \/ OnWindow(h) \/ OnConnect(h)
          \/ OnCreateStream(h) \/ OnPublish(h) \/ OnDeleteStream(h) \/ OnData(h)
    BY <1>7 DEF Parse
  <2>2. UNCHANGED <<pc, seq>> /\ seq \in Nat
    BY <1>7 DEF Parse, TypeOK, SessionTypeOK
  <2>3. CASE OnWindow(h)
    <3>1. unacked' = 0 /\ window' = Arg(h)
      BY <2>3 DEF OnWindow
    <3>2. window' \in Nat
      BY <1>7, NextTypes DEF TypeOK, SessionTypeOK
    <3>. QED
      BY <2>2, <3>1, <3>2, NoneCounted
  <2>4. CASE ~OnWindow(h)
    <3>1. UNCHANGED <<window, unacked>>
      BY <2>1, <2>4 DEF Partly, OnSetChunkSize, OnConnect, OnCreateStream, OnPublish,
           OnDeleteStream, OnData
    <3>. QED
      BY <1>2, <2>2, <3>1
  <2>. QED
    BY <2>3, <2>4
<1>. QED
  BY <1>1, <1>3, <1>4, <1>5, <1>6, <1>7 DEF Next, Session

\* A client that waits for an acknowledgement within two windows gets it, for any
\* window that can be added to a read without an overflow of u32: also when
\* sequence_number wraps, which is no multiple of most windows, and when the
\* window changes between two reads.
THEOREM RtmpAckInTime == Spec => []AckInTime
<1>1. Init => AckInv
  <2>. SUFFICES ASSUME Init PROVE Counted
    BY InitTypes DEF AckInv
  <2>1. seq \in Nat /\ window \in Nat \ {0} /\ unacked = 0
    BY DEF Init
  <2>2. Behind(0, seq, window)
    BY <2>1, NoneBehind
  <2>. QED
    BY <2>1, <2>2 DEF Counted
<1>2. AckInv => AckInTime
  <2>. SUFFICES ASSUME AckInv, window + MaxRead <= SeqLimit
                PROVE  unacked = 0 \/ unacked < 2 * window
    BY DEF AckInTime
  <2>1. seq \in Nat /\ window \in Nat /\ unacked \in Nat
    BY DEF AckInv, TypeOK, SessionTypeOK
  <2>2. CASE window = 0
    BY <2>2 DEF AckInv, Counted
  <2>3. CASE window # 0
    <3>1. Behind(unacked, seq, window)
      BY <2>3 DEF AckInv, Counted
    <3>. QED
      BY <2>1, <2>3, <3>1, BehindTwoWindows
  <2>. QED
    BY <2>2, <2>3
<1>. QED
  BY <1>1, <1>2, NextCounted, PTL DEF Spec
-----------------------------------------------------------------------------
(* The result *)

\* A stream is published by a message that no later one deletes.
LEMMA PublishersAre ==
    ASSUME NEW id PROVE id \in Publishers <=> Published(id)
<1>1. Published(id) => id \in {got[n].head.ms : n \in DOMAIN got}
  BY DEF Published
<1>. QED
  BY <1>1 DEF Publishers

\* A message publishes the stream it comes on, or deletes the one it names.
LEMMA PublishedAfter ==
    ASSUME got \in Seq(Messages), NEW m \in Messages, got' = Append(got, m), NEW id
    PROVE  Published(id)' <=>
            \/ m.head.type[1] = "publish" /\ m.head.ms = id
            \/ Published(id) /\ m.head.type # <<"deleteStream", id>>
<1>. DEFINE l == Len(got)
<1>1. /\ l \in Nat /\ DOMAIN got = 1 .. l /\ DOMAIN got' = 1 .. l + 1 /\ Len(got') = l + 1
      /\ got'[l + 1] = m /\ \A n \in 1 .. l : got'[n] = got[n]
  BY DEF Messages
<1>2. m.head.type[1] = "publish" => m.head.type # <<"deleteStream", id>>
  OBVIOUS
<1>3. Len(got) = l
  OBVIOUS
<1>. HIDE DEF l
<1>4. ASSUME Published(id)'
      PROVE  \/ m.head.type[1] = "publish" /\ m.head.ms = id
             \/ Published(id) /\ m.head.type # <<"deleteStream", id>>
  <2>1. PICK n \in 1 .. l + 1 :
            /\ got'[n].head.type[1] = "publish" /\ got'[n].head.ms = id
            /\ \A k \in n + 1 .. l + 1 : got'[k].head.type # <<"deleteStream", id>>
    BY <1>1, <1>4 DEF Published
  <2>2. CASE n = l + 1
    BY <1>1, <2>1, <2>2
  <2>3. CASE n # l + 1
    <3>1. n \in 1 .. l /\ l + 1 \in n + 1 .. l + 1 /\ n + 1 .. l \subseteq n + 1 .. l + 1
      BY <1>1, <2>3
    <3>2. m.head.type # <<"deleteStream", id>>
      BY <1>1, <2>1, <3>1
    <3>3. got[n].head.type[1] = "publish" /\ got[n].head.ms = id
      BY <1>1, <2>1, <3>1
    <3>4. \A k \in n + 1 .. l : got[k].head.type # <<"deleteStream", id>>
      <4>. SUFFICES ASSUME NEW k \in n + 1 .. l PROVE got[k].head.type # <<"deleteStream", id>>
        OBVIOUS
      <4>1. k \in 1 .. l /\ k \in n + 1 .. l + 1
        BY <1>1, <3>1
      <4>. QED
        BY <1>1, <2>1, <4>1
    <3>. QED
      BY <1>1, <1>3, <3>1, <3>2, <3>3, <3>4 DEF Published
  <2>. QED
    BY <2>2, <2>3
<1>5. ASSUME m.head.type[1] = "publish", m.head.ms = id PROVE Published(id)'
  <2>1. l + 1 \in DOMAIN got' /\ l + 1 + 1 .. Len(got') = {}
    BY <1>1
  <2>. QED
    BY <1>1, <1>5, <2>1 DEF Published
<1>6. ASSUME Published(id), m.head.type # <<"deleteStream", id>> PROVE Published(id)'
  <2>1. PICK n \in 1 .. l :
            /\ got[n].head.type[1] = "publish" /\ got[n].head.ms = id
            /\ \A k \in n + 1 .. l : got[k].head.type # <<"deleteStream", id>>
    BY <1>1, <1>3, <1>6 DEF Published
  <2>2. \A k \in n + 1 .. l + 1 : got'[k].head.type # <<"deleteStream", id>>
    <3>. SUFFICES ASSUME NEW k \in n + 1 .. l + 1
                  PROVE  got'[k].head.type # <<"deleteStream", id>>
      OBVIOUS
    <3>1. k = l + 1 \/ (k \in 1 .. l /\ k \in n + 1 .. l)
      BY <1>1
    <3>. QED
      BY <1>1, <1>6, <2>1, <3>1
  <2>3. n \in DOMAIN got' /\ got'[n] = got[n]
    BY <1>1
  <2>. QED
    BY <1>1, <2>1, <2>2, <2>3 DEF Published
<1>. QED
  BY <1>2, <1>4, <1>5, <1>6

\* publishing_stream_ids holds what the messages say; that of junk is not known.
ResultInv == TypeOK /\ (setup.polite => publishing = Publishers)

\* A step of process_chunks changes it with the message it handles.
LEMMA ParsePublishes ==
    ASSUME TypeOK, setup.polite, publishing = Publishers, Parse, UNCHANGED setup
    PROVE  publishing' = Publishers'
<1>1. PICK h \in Seen :
        \/ Partly(h) \/ OnSetChunkSize(h) \/ OnWindow(h) \/ OnConnect(h)
        \/ OnCreateStream(h) \/ OnPublish(h) \/ OnDeleteStream(h) \/ OnData(h)
  BY DEF Parse
<1>2. CASE Partly(h)
  BY <1>2 DEF Partly, Publishers, Published
<1>3. CASE ~Partly(h)
  <2>. DEFINE m == [cs |-> h.cs, head |-> MessageHeader(h), payload |-> Assembled(h)]
  <2>1. h \in Header /\ ~Refused(h) /\ Whole(h)
    BY <1>1, <1>3, SeenType DEF TypeOK, SessionTypeOK, TakeChunk, ReadsWhole, ReadFails,
         OnSetChunkSize, OnWindow, OnConnect, OnCreateStream, OnPublish, OnDeleteStream,
         OnData, Message
  <2>2. MessageHeader(h) \in MsgHeader /\ Assembled(h) \in Seq(Unit) /\ h.cs \in Nat
    BY <2>1, MessageHeaderType, AssembledType DEF TypeOK, Header
  <2>3. m \in Messages /\ m.head = MessageHeader(h)
    BY <2>2 DEF Messages
  <2>4. got' = Append(got, m)
    BY <1>1, <1>3 DEF OnSetChunkSize, OnWindow, OnConnect, OnCreateStream, OnPublish,
         OnDeleteStream, OnData, Message
  <2>5. got \in Seq(Messages)
    BY DEF TypeOK, SessionTypeOK, Messages
  <2>. HIDE DEF m
  <2>6. m.head.type = <<Kind(h), Arg(h)>>
    BY <2>2, <2>3 DEF Kind, Arg, MsgHeader
  <2>7. ASSUME NEW id
        PROVE  id \in Publishers' <=>
                    \/ Kind(h) = "publish" /\ MessageHeader(h).ms = id
                    \/ id \in publishing /\ ~(Kind(h) = "deleteStream" /\ Arg(h) = id)
    <3>1. id \in Publishers' <=> Published(id)'
      <4>1. Published(id)' => id \in {got'[n].head.ms : n \in DOMAIN got'}
        BY DEF Published
      <4>. QED
        BY <4>1 DEF Publishers
    <3>2. id \in publishing <=> Published(id)
      BY PublishersAre
    <3>3. m.head.type[1] = Kind(h)
      BY <2>6
    <3>4. m.head.type = <<"deleteStream", id>> <=> Kind(h) = "deleteStream" /\ Arg(h) = id
      BY <2>6
    <3>. QED
      BY <2>3, <2>4, <2>5, <3>1, <3>2, <3>3, <3>4, PublishedAfter
  <2>8. ASSUME NEW id PROVE id \in publishing' <=> id \in Publishers'
    <3>1. CASE OnPublish(h)
      <4>1. publishing' = publishing \union {MessageHeader(h).ms} /\ Kind(h) = "publish"
        BY <3>1 DEF OnPublish, Message
      <4>. QED
        BY <2>7, <4>1
    <3>2. CASE OnDeleteStream(h)
      <4>1. publishing' = publishing \ {Arg(h)} /\ Kind(h) = "deleteStream"
        BY <3>2 DEF OnDeleteStream, Message, Deleted
      <4>. QED
        BY <2>7, <4>1
    <3>3. CASE ~OnPublish(h) /\ ~OnDeleteStream(h)
      <4>1. publishing' = publishing /\ Kind(h) \notin {"publish", "deleteStream"}
        BY <1>1, <1>3, <3>3 DEF OnSetChunkSize, OnWindow, OnConnect, OnCreateStream, OnData, Message
      <4>. QED
        BY <2>7, <4>1
    <3>. QED
      BY <3>1, <3>2, <3>3
  <2>. QED
    BY <2>8
<1>. QED
  BY <1>2, <1>3

LEMMA NextPublishes == ResultInv /\ [Next]_vars => ResultInv'
<1>. SUFFICES ASSUME TypeOK, setup.polite => publishing = Publishers, [Next]_vars, setup'.polite
              PROVE  publishing' = Publishers'
  BY NextTypes DEF ResultInv
<1>1. setup' = setup /\ publishing = Publishers
  BY DEF Next, Client, ContextDone, Session, vars
<1>2. CASE Parse
  BY <1>1, <1>2, ParsePublishes
<1>3. CASE ~Parse
  <2>1. UNCHANGED <<publishing, got>>
    BY <1>3 DEF Next, Client, ContextDone, Session, vars, control, HandshakeRead, Hello, Echo,
         Cancelled, HandshakeFails, Flush, FlushFails, Drive, Read, ClientGone, BrokenRead,
         NoMore, ParseFails, Panic
  <2>. QED
    BY <1>1, <2>1 DEF Publishers, Published
<1>. QED
  BY <1>2, <1>3

\* run returns true only when every stream that a polite client published was
\* deleted after it, and false, at the end of a session and not of a handshake,
\* only if one was not: whatever order it publishes and deletes them in, and again.
THEOREM RtmpResultTells == Spec => ResultTells
<1>. DEFINE Tells ==
        setup.polite /\ pc # "ended" =>
            /\ result' = "true" => Publishers = {}
            /\ result' = "false" /\ pc \in {"read", "parse"} => Publishers # {}
<1>1. Init => ResultInv
  <2>. SUFFICES ASSUME Init PROVE publishing = Publishers
    BY InitTypes DEF ResultInv
  <2>1. publishing = {} /\ DOMAIN got = {}
    BY DEF Init
  <2>. QED
    BY <2>1 DEF Publishers, Published
<1>2. ResultInv /\ [Next]_vars => [Tells]_vars
  <2>. SUFFICES ASSUME ResultInv, [Next]_vars, setup.polite, pc # "ended"
                PROVE  /\ result' = "true" => Publishers = {}
                       /\ result' = "false" /\ pc \in {"read", "parse"} => Publishers # {}
    OBVIOUS
  <2>1. publishing = Publishers /\ result = "none"
    BY DEF ResultInv, TypeOK, SessionTypeOK
  <2>2. CASE Finish
    BY <2>1, <2>2 DEF Finish, End
  <2>3. CASE ~Finish
    <3>1. \/ result' = result
          \/ result' \in {"err", "panic"}
          \/ result' = "false" /\ pc \in {"hello", "echo"}
      BY <2>3 DEF Next, Client, ContextDone, Session, vars, End, HandshakeRead, Hello, Echo,
           Cancelled, HandshakeFails, Flush, FlushFails, Drive, Read, ClientGone, BrokenRead,
           NoMore, Parse, ParseFails, Panic
    <3>. QED
      BY <2>1, <3>1
  <2>. QED
    BY <2>2, <2>3
<1>. QED
  BY <1>1, <1>2, NextPublishes, PTL DEF Spec, ResultTells
-----------------------------------------------------------------------------
(* What a polite client sends *)

\* the junk of the handshake that is before the chunks
Greeting ==
    IF pc = "hello" /\ greeted = 1 THEN READ_SIZE
    ELSE IF pc = "echo" /\ greeted = 2 THEN HelloSize ELSE 0

Handshakes ==
    /\ pc = "hello" => greeted \in {0, 1}
    /\ pc = "greet" => greeted = 1
    /\ pc = "echo" => greeted \in {1, 2}
    /\ pc \in {"drive", "read", "parse", "flush"} => greeted = 2
    /\ greeted < 2 => DOMAIN sending = {}

\* the reader has taken the chunks it has whole
Drained == pc \in {"flush", "read"} \/ (pc = "drive" /\ ~skipRead)

\* The chunks on the wire are a chain from what the reader knows to what the client
\* knows; there are none before the handshake is over.
Joins(a, b, S, C, P, o) ==
    /\ Chain(a, b, S, C, P, o, said, finished, wire)
    /\ S[b] = Now /\ P[a] - o = Greeting
    /\ Mirrors(S[a], maxChunk, prev, partial, got, said)
    /\ greeted < 2 => a = b
    /\ Drained => have = 0 \/ (a < b /\ have < 1 + Amount(S[a], C[a], said[C[a].id]))

Joined == \E a, b, S, C, P, o : Joins(a, b, S, C, P, o)

\* What moves nothing keeps the chain.
LEMMA JoinsKept ==
    ASSUME NEW a, NEW b, NEW S, NEW C, NEW P, NEW o, Joins(a, b, S, C, P, o),
           UNCHANGED <<wire, reader, got, writeSize, said, last, sending, finished>>,
           Greeting' = Greeting, greeted' = greeted, Drained' => Drained /\ have' = have
    PROVE  Joined'
<1>1. Now' = Now
  BY DEF Now
<1>2. Joins(a, b, S, C, P, o)'
  BY <1>1 DEF Joins, reader
<1>. QED
  BY <1>2 DEF Joined

\* Units of the handshake come before there are chunks.
LEMMA GreetJoins ==
    ASSUME TypeOK, Handshakes, pc \in {"hello", "echo", "read"}, Greet,
           UNCHANGED <<pc, reader, got, skipRead>>, Joined
    PROVE  Joined' /\ Handshakes'
<1>1. PICK a, b, S, C, P, o : Joins(a, b, S, C, P, o)
  BY DEF Joined
<1>0. PICK n : n = Greeting'
  OBVIOUS
<1>2. /\ n \in Nat /\ wire' = wire \o [i \in 1 .. n |-> Junk]
      /\ greeted' = greeted + 1 /\ greeted < 2 /\ pc \in {"hello", "echo"}
      /\ Greeting = 0 /\ Handshakes'
  <2>1. greeted' = greeted + 1 /\ greeted \in {0, 1} /\ pc' = pc /\ sending' = sending
    BY DEF Greet
  <2>2. CASE greeted = 0
    <3>1. pc = "hello" /\ greeted' = 1
      BY <2>1, <2>2 DEF Handshakes
    <3>2. n = READ_SIZE /\ Greeting = 0 /\ READ_SIZE \in Nat /\ Handshakes'
      BY <1>0, <2>1, <2>2, <3>1 DEF Greeting, READ_SIZE, Handshakes
    <3>3. wire' = wire \o [i \in 1 .. READ_SIZE |-> Junk]
      <4>1. Send([i \in 1 .. READ_SIZE |-> Junk])
        BY <2>2 DEF Greet
      <4>. QED
        BY <4>1, Zenon DEF Send
    <3>. QED
      BY <2>1, <2>2, <3>1, <3>2, <3>3
  <2>3. CASE greeted = 1
    <3>1. pc = "echo" /\ greeted' = 2
      BY <2>1, <2>3 DEF Handshakes, Greet
    <3>2. n = HelloSize /\ Greeting = 0 /\ HelloSize \in Nat /\ Handshakes'
      BY <1>0, <2>1, <2>3, <3>1 DEF Greeting, Handshakes
    <3>3. wire' = wire \o [i \in 1 .. HelloSize |-> Junk]
      BY <2>3 DEF Greet, Send
    <3>. QED
      BY <2>1, <2>3, <3>1, <3>2, <3>3
  <2>. QED
    BY <2>1, <2>2, <2>3
<1>3. Len(wire') = Len(wire) + n
  <2>. DEFINE u == [i \in 1 .. n |-> Junk]
  <2>1. u \in Seq(Unit) /\ Len(u) = n
    BY <1>2, UnitTypes
  <2>2. wire' = wire \o u /\ wire \in Seq(Unit)
    BY <1>2 DEF TypeOK, ReaderTypeOK
  <2>. HIDE DEF u
  <2>. QED
    BY <2>1, <2>2, ConcatProperties
<1>4. a = b /\ Chain(a, a, S, C, P, o, said, finished, wire) /\ P[a] - o = 0
  BY <1>1, <1>2 DEF Joins
<1>5. /\ said' = said /\ finished' = finished /\ last' = last /\ sending' = sending
      /\ writeSize' = writeSize /\ maxChunk' = maxChunk /\ prev' = prev /\ partial' = partial
      /\ got' = got
  BY DEF Greet, reader
<1>6. Chain(a, a, S, C, P, o - n, said', finished', wire')
  <2>1. Chain(a, a, S, C, P, o - n, said, finished, wire')
    BY <1>2, <1>3, <1>4, ChainWaits
  <2>. QED
    BY <1>5, <2>1
<1>7. PICK o2 : o2 = o - n
  OBVIOUS
<1>8. P[a] - o2 = n
  <2>. DEFINE x == P[a]
  <2>1. x \in Int /\ o \in Int /\ x - o = 0
    BY <1>4 DEF Chain
  <2>. HIDE DEF x
  <2>2. x - (o - n) = n
    BY <1>2, <2>1
  <2>. QED
    BY <1>7, <2>2 DEF x
<1>9. Joins(a, b, S, C, P, o2)'
  <2>1. Now' = Now
    BY <1>5 DEF Now
  <2>2. ~Drained'
    BY <1>2 DEF Drained
  <2>. QED
    BY <1>0, <1>1, <1>2, <1>4, <1>5, <1>6, <1>7, <1>8, <2>1, <2>2 DEF Joins
<1>. QED
  BY <1>2, <1>9 DEF Joined

\* A chunk that the client sends makes the chain longer.
LEMMA SendJoins ==
    ASSUME TypeOK, Joined, greeted = 2, UNCHANGED <<pc, greeted, have, skipRead, reader, got>>,
           said' \in Seq(MsgOnStream), AllPolite(said'), Starts(said, said'),
           Starts(finished, finished'), Len(finished') \in Nat,
           NEW c, c.id \in DOMAIN said', Sends(Now, c, said'[c.id], Now'),
           wire' = wire \o ChunkUnits(c.id, c.h, c.sent, writeSize)
    PROVE  Joined'
<1>1. PICK a, b, S, C, P, o : Joins(a, b, S, C, P, o)
  BY DEF Joined
<1>2. /\ Chain(a, b, S, C, P, o, said, finished, wire) /\ S[b] = Now
      /\ P[a] - o = Greeting /\ Mirrors(S[a], maxChunk, prev, partial, got, said)
      /\ Drained => have = 0 \/ (a < b /\ have < 1 + Amount(S[a], C[a], said[C[a].id]))
  BY <1>1 DEF Joins
<1>3. /\ wire \in Seq(Unit) /\ said \in Seq(MsgOnStream) /\ finished \in Seq(DOMAIN said)
      /\ Len(finished) \in Nat /\ a \in Nat /\ b \in Nat /\ a <= b
      /\ \A id \in DOMAIN said : id \in DOMAIN said' /\ said'[id] = said[id]
  <2>1. wire \in Seq(Unit) /\ said \in Seq(MsgOnStream) /\ finished \in Seq(DOMAIN said)
    BY DEF TypeOK, ReaderTypeOK, ClientTypeOK
  <2>2. a \in Nat /\ b \in Nat /\ a <= b
    BY <1>2 DEF Chain
  <2>3. \A id \in DOMAIN said : id \in DOMAIN said' /\ said'[id] = said[id]
    <3>1. PICK ss : ss = said'
      OBVIOUS
    <3>2. ss \in Seq(MsgOnStream) /\ Starts(said, ss)
      BY <3>1
    <3>3. \A id \in DOMAIN said : id \in DOMAIN ss /\ ss[id] = said[id]
      BY <2>1, <3>2, StartsIs
    <3>. QED
      BY <3>1, <3>3
  <2>. QED
    BY <2>1, <2>2, <2>3
<1>4. PICK t : t = Now'
  OBVIOUS
<1>16. PICK ss : ss = said'
  OBVIOUS
<1>17. PICK fin : fin = finished'
  OBVIOUS
<1>5. Sane(S[b], said, finished)
  <2>1. b \in a .. b
    BY <1>3
  <2>. QED
    BY <1>2, <2>1 DEF Chain
<1>6. c.id \in DOMAIN ss /\ ss[c.id] \in MsgOnStream /\ Polite(ss[c.id]) /\ t.finished = fin
  BY <1>4, <1>16, <1>17 DEF AllPolite, Now
<1>7. Sane(t, ss, fin)
  <2>1. Sane(S[b], ss, fin)
    BY <1>3, <1>4, <1>16, <1>17, <1>5, SaneKept
  <2>. QED
    BY <1>2, <1>4, <1>16, <1>17, <1>6, <2>1, SaneAfter
<1>8. S[b].size = writeSize
  BY <1>2 DEF Now
<1>18. PICK w : w = wire \o ChunkUnits(c.id, c.h, c.sent, S[b].size)
  OBVIOUS
<1>9. PICK S2, C2, P2 :
        /\ Chain(a, b + 1, S2, C2, P2, o, ss, fin, w)
        /\ \A q \in a .. b : S2[q] = S[q] /\ P2[q] = P[q]
        /\ \A q \in a .. b - 1 : C2[q] = C[q]
        /\ S2[b + 1] = t
  <2>1. Sends(S[b], c, ss[c.id], t) /\ ss \in Seq(MsgOnStream) /\ Starts(said, ss)
        /\ Starts(finished, fin) /\ Len(fin) \in Nat
    BY <1>2, <1>4, <1>16, <1>17
  <2>2. Len(finished) \in Nat /\ wire \in Seq(Unit) /\ said \in Seq(MsgOnStream)
    BY <1>3
  <2>3. Chain(a, b, S, C, P, o, said, finished, wire)
    BY <1>2
  <2>4. Grows(a, b, S, C, P, o, ss, fin, w, t)
    BY ONLY <1>6, <1>7, <1>18, <2>1, <2>2, <2>3, ChainGrows
  <2>. QED
    BY <2>4 DEF Grows
<1>10. Chain(a, b + 1, S2, C2, P2, o, said', finished', wire')
  BY <1>16, <1>17, <1>18, <1>8, <1>9
<1>11. S2[a] = S[a] /\ P2[a] = P[a] /\ (a < b => C2[a] = C[a])
  BY <1>3, <1>9
<1>12. Mirrors(S2[a], maxChunk, prev, partial, got, said')
  <2>1. a \in a .. b
    BY <1>3
  <2>2. Sane(S[a], said, finished)
    BY <1>2, <2>1 DEF Chain
  <2>3. \A n \in 1 .. Len(S[a].finished) : S[a].finished[n] \in DOMAIN said
    BY <2>2 DEF Sane
  <2>4. \A n \in 1 .. Len(S[a].finished) : said'[S[a].finished[n]] = said[S[a].finished[n]]
    BY <1>3, <2>3
  <2>5. Mirrors(S[a], maxChunk, prev, partial, got, said)
    BY <1>2
  <2>6. Mirrors(S[a], maxChunk, prev, partial, got, said')
    BY ONLY <2>4, <2>5, MirrorsKept
  <2>. QED
    BY <1>11, <2>6
<1>13. have = 0 \/ (a < b /\ have < 1 + Amount(S[a], C[a], said[C[a].id]))
        => have = 0 \/ (a < b + 1 /\ have < 1 + Amount(S2[a], C2[a], said'[C2[a].id]))
  <2>. SUFFICES ASSUME a < b, have < 1 + Amount(S[a], C[a], said[C[a].id])
                PROVE  a < b + 1 /\ have < 1 + Amount(S2[a], C2[a], said'[C2[a].id])
    OBVIOUS
  <2>1. a \in a .. b - 1
    BY <1>3
  <2>2. C[a].id \in DOMAIN said
    BY <1>2, <2>1 DEF Chain, Link
  <2>. QED
    BY <1>3, <1>11, <2>2
<1>14. PICK d : d = b + 1
  OBVIOUS
<1>15. Joins(a, d, S2, C2, P2, o)'
  <2>1. Greeting' = Greeting /\ (Drained' => Drained) /\ have' = have /\ greeted' = 2
        /\ maxChunk' = maxChunk /\ prev' = prev /\ partial' = partial /\ got' = got
    BY DEF Greeting, Drained, reader
  <2>2. S2[d] = Now'
    BY <1>4, <1>16, <1>17, <1>9, <1>14
  <2>3. Drained' => have' = 0 \/ (a < d /\ have' < 1 + Amount(S2[a], C2[a], said'[C2[a].id]))
    BY <1>2, <1>13, <1>14, <2>1
  <2>. QED
    BY <1>2, <1>10, <1>11, <1>12, <1>14, <2>1, <2>2, <2>3 DEF Joins
<1>. QED
  BY <1>15 DEF Joined

\* The next chunk of a message is one to send.
LEMMA ChunkSends ==
    ASSUME NEW id, NEW h, NEW sent, NEW m, Chunk(id, h, sent), h.cs = m.cs, h.len = m.len,
           h.type = m.type, Decodes(last, h, m), sent \in 0 .. m.len,
           m.cs \in DOMAIN sending =>
                sending[m.cs].id = id /\ sending[m.cs].sent = sent /\ last[m.cs] = m,
           m.cs \notin DOMAIN sending =>
                /\ sent = 0
                /\ m.len > writeSize => Cardinality(DOMAIN sending) < MaxPartial
                /\ Cardinality(DOMAIN last \union {m.cs}) <= MaxHeaders,
           last' = Put(last, m.cs, m)
    PROVE  Sends(Now, [id |-> id, h |-> h, sent |-> sent], m, Now')
<1>. DEFINE s == Now
            c == [id |-> id, h |-> h, sent |-> sent]
<1>1. s.last = last /\ s.sending = sending /\ s.size = writeSize /\ s.finished = finished
  BY DEF Now
<1>2. PICK t : t = Now'
  OBVIOUS
<1>3. t.last = last' /\ t.sending = sending' /\ t.size = writeSize' /\ t.finished = finished'
  BY <1>2 DEF Now
<1>4. c.id = id /\ c.h = h /\ c.sent = sent
  OBVIOUS
<1>. HIDE DEF s, c
<1>5. Finishing(s, c, m) <=> h.len - sent <= writeSize
  BY <1>1, <1>4 DEF Finishing
<1>6. Finishing(s, c, m) =>
        /\ t.finished = Append(s.finished, c.id) /\ t.sending = Drop(s.sending, m.cs)
        /\ t.size = IF m.type[1] = "SetChunkSize" THEN m.type[2] ELSE s.size
  BY <1>1, <1>3, <1>4, <1>5 DEF Chunk
<1>7. ~Finishing(s, c, m) =>
        /\ t.finished = s.finished /\ t.size = s.size
        /\ t.sending = Put(s.sending, m.cs, [id |-> c.id, sent |-> c.sent + s.size])
  BY <1>1, <1>3, <1>4, <1>5 DEF Chunk
<1>8. Sends(s, c, m, t)
  BY <1>1, <1>3, <1>4, <1>6, <1>7 DEF Sends
<1>. QED
  BY <1>2, <1>8 DEF s, c

\* The formats that fit a message decode to it.
LEMMA FormatsDecode ==
    ASSUME TypeOK, NEW m \in MsgOnStream, NEW fmt \in Formats(m), NEW told,
           told = [m EXCEPT !.ts = Timestamp(m, fmt)],
           \A cs \in DOMAIN last : last[cs] \in MsgOnStream
    PROVE  /\ told \in MsgOnStream /\ told.cs = m.cs /\ told.len = m.len /\ told.type = m.type
           /\ Decodes(last, HeaderOf(m, fmt), told)
<1>1. fmt \in 0 .. 3
  BY DEF Formats
<1>2. fmt # 0 => /\ m.cs \in DOMAIN last /\ m.ms = last[m.cs].ms
                 /\ ~(last[m.cs].ts + m.ts >= TsLimit)
  BY DEF Formats
<1>3. fmt \in {2, 3} => m.len = last[m.cs].len /\ m.type = last[m.cs].type
  BY DEF Formats
<1>4. fmt = 3 => m.ts = 0
  BY DEF Formats
<1>5. /\ m.ts \in Nat /\ m.cs \in Nat /\ m.len \in Nat /\ m.type \in Kinds \X Nat /\ m.ms \in Nat
      /\ fmt # 0 => last[m.cs].ts \in Nat
  BY <1>2 DEF MsgOnStream
<1>6. /\ told.ts = Timestamp(m, fmt) /\ told.cs = m.cs /\ told.len = m.len
      /\ told.type = m.type /\ told.ms = m.ms
  BY DEF MsgOnStream
<1>7. Timestamp(m, fmt) = (IF fmt = 0 THEN m.ts ELSE last[m.cs].ts + m.ts)
      /\ Timestamp(m, fmt) \in Nat
  BY <1>5 DEF Timestamp
<1>8. told \in MsgOnStream
  BY <1>7 DEF MsgOnStream
<1>9. fmt # 0 => told.ts < TsLimit
  BY <1>2, <1>5, <1>6, <1>7 DEF RtmpChunksAssumption
<1>. DEFINE h == HeaderOf(m, fmt)
<1>10. /\ h \in Header /\ h.cs = m.cs /\ h.fmt = fmt /\ h.ts = m.ts /\ h.len = m.len
       /\ h.type = m.type /\ h.ms = m.ms
  BY <1>1, <1>5 DEF HeaderOf, Header
<1>. HIDE DEF h
<1>11. Decodes(last, h, told)
  <2>1. h \in Header /\ h.cs = told.cs /\ h.len = told.len /\ h.type = told.type
    BY <1>6, <1>10
  <2>2. fmt = 0 => h.ts = told.ts /\ h.ms = told.ms
    BY <1>6, <1>7, <1>10
  <2>3. fmt # 0 => /\ told.cs \in DOMAIN last /\ last[told.cs].ms = told.ms
                   /\ last[told.cs].ts + h.ts = told.ts
    BY <1>2, <1>6, <1>7, <1>10
  <2>4. fmt \in {2, 3} => last[told.cs].len = told.len /\ last[told.cs].type = told.type
    BY <1>3, <1>6
  <2>5. fmt = 3 => last[told.cs].ts = told.ts
    BY <1>4, <1>5, <1>6, <1>7
  <2>. QED
    BY <1>9, <1>10, <2>1, <2>2, <2>3, <2>4, <2>5 DEF Decodes
<1>. QED
  BY <1>6, <1>8, <1>11 DEF h

\* What the writer knows now keeps the limits of the session.
LEMMA JoinedSane == ASSUME Joined PROVE Sane(Now, said, finished)
<1>1. PICK a, b, S, C, P, o : Joins(a, b, S, C, P, o)
  BY DEF Joined
<1>2. S[b] = Now /\ a \in Nat /\ b \in Nat /\ a <= b /\ \A q \in a .. b : Sane(S[q], said, finished)
  BY <1>1 DEF Joins, Chain
<1>. QED
  BY <1>2

\* What SendJoins asks of a chunk that is sent.
LEMMA SentJoins ==
    ASSUME TypeOK, TypeOK', Joined, greeted = 2,
           UNCHANGED <<pc, greeted, have, skipRead, reader, got>>,
           AllPolite(said'), Starts(said, said'),
           NEW id \in DOMAIN said', NEW h, NEW sent, Chunk(id, h, sent),
           h.cs = said'[id].cs, h.len = said'[id].len, h.type = said'[id].type,
           Decodes(last, h, said'[id]), sent \in 0 .. h.len,
           h.cs \in DOMAIN sending =>
                sending[h.cs].id = id /\ sending[h.cs].sent = sent /\ last[h.cs] = said'[id],
           h.cs \notin DOMAIN sending =>
                /\ sent = 0
                /\ h.len > writeSize => Cardinality(DOMAIN sending) < MaxPartial
                /\ Cardinality(DOMAIN last \union {h.cs}) <= MaxHeaders,
           last' = Put(last, h.cs, said'[id])
    PROVE  Joined'
<1>. DEFINE c == [id |-> id, h |-> h, sent |-> sent]
<1>1. PICK m : m = said'[id]
  OBVIOUS
<1>2. Sends(Now, c, m, Now')
  BY <1>1, ChunkSends
<1>3. said' \in Seq(MsgOnStream) /\ Len(finished') \in Nat /\ finished \in Seq(DOMAIN said)
  BY DEF TypeOK, ClientTypeOK
<1>4. Starts(finished, finished')
  BY <1>3 DEF Chunk, Starts
<1>5. wire' = wire \o ChunkUnits(c.id, c.h, c.sent, writeSize)
  BY DEF Chunk, Send
<1>6. c.id = id
  OBVIOUS
<1>. HIDE DEF c
<1>. QED
  BY <1>1, <1>2, <1>3, <1>4, <1>5, <1>6, SendJoins

LEMMA BeginJoins ==
    ASSUME TypeOK, TypeOK', setup.polite, AllPolite(said), Joined,
           UNCHANGED <<pc, skipRead, reader, got>>,
           NEW m \in setup.says, NEW fmt \in Formats(m), Begin(m, fmt)
    PROVE  Joined' /\ AllPolite(said')
<1>. DEFINE told == [m EXCEPT !.ts = Timestamp(m, fmt)]
            h == HeaderOf(m, fmt)
            id == Len(said) + 1
<1>1. setup \in Setups
  BY DEF TypeOK, SessionTypeOK
<1>2. m \in MsgOnStream /\ Polite(m)
  BY <1>1, PoliteAssumption DEF RtmpSessionAssumption, Polite
<1>3. Sane(Now, said, finished) /\ Now.last = last
  BY JoinedSane DEF Now
<1>4. \A cs \in DOMAIN last : last[cs] \in MsgOnStream
  BY <1>3 DEF Sane
<1>5. /\ told \in MsgOnStream /\ told.cs = m.cs /\ told.len = m.len /\ told.type = m.type
      /\ Decodes(last, h, told)
  BY <1>2, <1>4, FormatsDecode
<1>6. h.cs = m.cs /\ h.len = m.len /\ h.type = m.type
  BY DEF HeaderOf
<1>7. Polite(told)
  BY <1>2, <1>5 DEF Polite
<1>8. /\ said' = Append(said, told) /\ last' = Put(last, m.cs, told) /\ Chunk(id, h, 0)
      /\ greeted = 2 /\ greeted' = greeted /\ have' = have /\ m.cs \notin DOMAIN sending
      /\ m.len > writeSize => Cardinality(DOMAIN sending) < MaxPartial
      /\ Cardinality(DOMAIN last \union {m.cs}) <= MaxHeaders
  BY DEF Begin
<1>. HIDE DEF told, h
<1>9. said \in Seq(MsgOnStream)
  BY DEF TypeOK, ClientTypeOK
<1>10. /\ id \in DOMAIN said' /\ said'[id] = told /\ Starts(said, said')
       /\ \A i \in DOMAIN said' : i = id \/ (i \in DOMAIN said /\ said'[i] = said[i])
  BY <1>5, <1>8, <1>9 DEF Starts
<1>11. AllPolite(said')
  BY <1>5, <1>7, <1>10 DEF AllPolite
<1>12. 0 \in 0 .. h.len
  BY <1>2, <1>6 DEF MsgOnStream
<1>. QED
  BY <1>5, <1>6, <1>8, <1>10, <1>11, <1>12, SentJoins

LEMMA ContinueJoins ==
    ASSUME TypeOK, TypeOK', AllPolite(said), Joined, Handshakes, pc \in {"hello", "echo", "read"},
           UNCHANGED <<pc, skipRead, reader, got>>, NEW cs \in DOMAIN sending, Continue(cs)
    PROVE  Joined' /\ AllPolite(said')
<1>. DEFINE s == sending[cs]
            m == said[s.id]
            h == HeaderOf(m, 3)
<1>1. Sane(Now, said, finished) /\ Now.last = last /\ Now.sending = sending
  BY JoinedSane DEF Now
<1>2. /\ cs \in DOMAIN last /\ last[cs] \in MsgOnStream /\ last[cs].cs = cs
      /\ s.id \in DOMAIN said /\ m = last[cs] /\ s.sent \in 1 .. m.len - 1
  BY <1>1 DEF Sane
<1>3. /\ Chunk(s.id, h, s.sent) /\ said' = said /\ last' = last /\ greeted' = greeted
      /\ have' = have
  BY DEF Continue
<1>4. m.cs \in Nat /\ m.len \in Nat /\ m.ts \in Nat /\ m.ms \in Nat /\ m.type \in Kinds \X Nat
  BY <1>2 DEF MsgOnStream
<1>5. /\ h \in Header /\ h.cs = m.cs /\ h.fmt = 3 /\ h.len = m.len /\ h.type = m.type
  BY <1>4 DEF HeaderOf, Header
<1>. HIDE DEF h
<1>6. Decodes(last, h, m)
  BY <1>2, <1>5 DEF Decodes
<1>7. last' = Put(last, h.cs, m)
  <2>1. last \in [DOMAIN last -> MsgOnStream]
    BY DEF TypeOK, ClientTypeOK
  <2>. QED
    BY <1>2, <1>3, <1>5, <2>1 DEF Put
<1>8. Starts(said, said')
  <2>1. said \in Seq(MsgOnStream)
    BY DEF TypeOK, ClientTypeOK
  <2>. QED
    BY <1>3, <2>1 DEF Starts
<1>9. greeted = 2
  BY DEF Handshakes
<1>10. s.sent \in 0 .. h.len
  BY <1>2, <1>4, <1>5
<1>. QED
  BY <1>2, <1>3, <1>5, <1>6, <1>7, <1>8, <1>9, <1>10, SentJoins

\* What is left of the handshake is split off with it.
LEMMA CutJoins ==
    ASSUME TypeOK, NEW a, NEW b, NEW S, NEW C, NEW P, NEW o, Joins(a, b, S, C, P, o),
           NEW k \in Nat, k = Greeting, SplitOff(k), Greeting' = 0, ~Drained',
           UNCHANGED <<reader, got, client>>
    PROVE  Joined'
<1>1. /\ Chain(a, b, S, C, P, o, said, finished, wire) /\ S[b] = Now /\ P[a] - o = k
      /\ Mirrors(S[a], maxChunk, prev, partial, got, said)
      /\ greeted < 2 => a = b
  BY DEF Joins
<1>2. a \in a .. b /\ o \in Int /\ P[a] \in Int
  BY <1>1 DEF Chain
<1>3. o + k <= P[a] /\ P[a] - (o + k) = 0
  <2>. DEFINE x == P[a]
  <2>1. x - o = k /\ x \in Int
    BY <1>1, <1>2
  <2>. HIDE DEF x
  <2>2. o + k <= x /\ x - (o + k) = 0
    BY <1>2, <2>1
  <2>. QED
    BY <2>2 DEF x
<1>4. said \in Seq(MsgOnStream) /\ wire \in Seq(Unit)
  BY DEF TypeOK, ReaderTypeOK, ClientTypeOK
<1>5. PICK o2 : o2 = o + k
  OBVIOUS
<1>6. Chain(a, b, S, C, P, o2, said, finished, SubSeq(wire, k + 1, Len(wire)))
  BY <1>1, <1>2, <1>3, <1>4, <1>5, ChainCut
<1>7. /\ wire' = SubSeq(wire, k + 1, Len(wire)) /\ said' = said /\ finished' = finished
      /\ Now' = Now /\ greeted' = greeted /\ maxChunk' = maxChunk /\ prev' = prev
      /\ partial' = partial /\ got' = got
  BY DEF SplitOff, reader, client, Now
<1>8. Joins(a, b, S, C, P, o2)'
  BY <1>1, <1>3, <1>5, <1>6, <1>7 DEF Joins
<1>. QED
  BY <1>8 DEF Joined

\* The reader of a session takes the greeting of the client, and no more, from its
\* first read; from the second it takes what answers its own.
LEMMA HandshakeJoins ==
    ASSUME TypeOK, Joined, Handshakes, Hello \/ Echo, UNCHANGED <<got, client>>
    PROVE  Joined'
<1>1. PICK a, b, S, C, P, o : Joins(a, b, S, C, P, o)
  BY DEF Joined
<1>2. /\ Len(wire) = P[b] - o /\ P[a] - o = Greeting
      /\ greeted < 2 => a = b
  BY <1>1 DEF Joins, Chain
<1>3. have \in Nat /\ have <= Len(wire) /\ Len(wire) \in Nat /\ HelloSize \in Nat \ {0}
  BY DEF TypeOK, ReaderTypeOK
<1>4. CASE Hello
  <2>1. pc = "hello" /\ have >= READ_SIZE /\ greeted \in {0, 1} /\ SplitOff(have) /\ pc' = "greet"
    BY <1>4 DEF Hello, Handshakes
  <2>2. Len(wire) = Greeting
    BY <1>2, <2>1
  <2>3. have = Greeting
    BY <1>3, <2>1, <2>2 DEF Greeting, READ_SIZE
  <2>4. Greeting' = 0 /\ ~Drained' /\ UNCHANGED reader
    BY <1>4, <2>1 DEF Greeting, Drained, Hello
  <2>. QED
    BY <1>1, <1>3, <2>1, <2>3, <2>4, CutJoins
<1>5. CASE Echo
  <2>1. pc = "echo" /\ have >= READ_SIZE /\ SplitOff(HelloSize) /\ pc' = "drive"
        /\ skipRead' = OverRead /\ greeted \in {1, 2}
    BY <1>5 DEF Echo, Handshakes
  <2>2. greeted = 2
    <3>1. SUFFICES ASSUME greeted = 1 PROVE FALSE
      BY <2>1
    <3>2. Len(wire) = Greeting
      BY <1>2, <3>1
    <3>. QED
      BY <1>3, <2>1, <3>1, <3>2 DEF Greeting, READ_SIZE
  <2>3. Greeting = HelloSize
    BY <2>1, <2>2 DEF Greeting
  <2>4. Greeting' = 0 /\ UNCHANGED reader
    BY <1>5, <2>1 DEF Greeting, Echo
  <2>5. ~Drained'
    <3>1. OverRead
      BY <1>3, <2>1 DEF OverRead, READ_SIZE
    <3>. QED
      BY <2>1, <3>1 DEF Drained
  <2>. QED
    BY <1>1, <1>3, <2>1, <2>3, <2>4, <2>5, CutJoins
<1>. QED
  BY <1>4, <1>5

\* What the reader sees is the next chunk of the chain.
LEMMA SeenIs ==
    ASSUME TypeOK, AllPolite(said),
           NEW a, NEW b, NEW S, NEW C, NEW P, NEW o, Joins(a, b, S, C, P, o),
           pc = "parse", have > 0, NEW c, c = C[a], NEW m, m = said[c.id],
           NEW s, s = S[a], NEW n, n = Amount(s, c, m)
    PROVE  /\ a < b /\ a \in Nat /\ b \in Nat /\ Headers = {c.h}
           /\ "h" \in DOMAIN wire[1]
           /\ c.id \in DOMAIN said /\ m \in MsgOnStream /\ Polite(m)
           /\ Sane(s, said, finished) /\ Mirrors(s, maxChunk, prev, partial, got, said)
           /\ Sends(s, c, m, S[a + 1])
           /\ n \in Nat /\ Lies(c, n, wire, 0) /\ n < Len(wire)
           /\ o + (1 + n) = P[a + 1] /\ o \in Int
<1>1. /\ Chain(a, b, S, C, P, o, said, finished, wire) /\ P[a] - o = 0
      /\ Mirrors(s, maxChunk, prev, partial, got, said)
  BY DEF Joins, Greeting
<1>2. said \in Seq(MsgOnStream) /\ wire \in Seq(Unit) /\ have \in Nat /\ have <= Len(wire)
  BY DEF TypeOK, ReaderTypeOK, ClientTypeOK
<1>3. a \in Nat /\ b \in Nat /\ a <= b /\ o \in Int /\ Len(wire) = P[b] - o
  BY <1>1 DEF Chain
<1>4. a < b
  <2>1. a = b => Len(wire) = 0
    BY <1>1, <1>3
  <2>. QED
    BY <1>2, <1>3, <2>1
<1>5. a \in a .. b - 1 /\ a \in a .. b
  BY <1>3, <1>4
<1>6. Link(a, S, C, P, o, said, wire) /\ Sane(s, said, finished)
  BY <1>1, <1>5 DEF Chain
<1>7. c.id \in DOMAIN said /\ Sends(s, c, m, S[a + 1]) /\ Lies(c, n, wire, 0)
  BY <1>1, <1>6 DEF Link
<1>8. m \in MsgOnStream /\ Polite(m)
  BY <1>7 DEF AllPolite
<1>9. /\ n \in Nat /\ P[a] + 1 + n <= P[b] /\ P[a] + 1 + n = P[a + 1]
      /\ P[a] \in Int /\ P[b] \in Int
  <2>. DEFINE k == Amount(S[a], C[a], said[C[a].id])
  <2>1. /\ k \in Nat /\ P[a] + 1 + k <= P[b] /\ P[a] + 1 + k = P[a + 1]
        /\ P[a] \in Int /\ P[b] \in Int
    <3>1. /\ Chain(a, b, S, C, P, o, said, finished, wire) /\ a \in a .. b - 1
          /\ said \in Seq(MsgOnStream)
      BY <1>1, <1>2, <1>5
    <3>2. ASSUME NEW q \in a .. b - 1
          PROVE  LET l == Amount(S[q], C[q], said[C[q].id]) IN
                 /\ l \in Nat /\ P[q] \in Int /\ P[q] >= P[a] /\ P[q] + 1 + l <= P[b]
                 /\ P[q] + 1 + l = P[q + 1] /\ P[a] \in Int /\ P[b] \in Int
      BY <3>1, ChainAmount
    <3>. QED
      BY <3>1, <3>2
  <2>. QED
    BY <2>1
<1>10. n < Len(wire) /\ o + (1 + n) = P[a + 1]
  <2>. DEFINE x == P[a]
              y == P[b]
              z == P[a + 1]
  <2>1. /\ x - o = 0 /\ Len(wire) = y - o /\ x + 1 + n <= y /\ x + 1 + n = z
        /\ x \in Int /\ y \in Int /\ o \in Int
    BY <1>1, <1>3, <1>9
  <2>. HIDE DEF x, y, z
  <2>2. n < Len(wire) /\ o + (1 + n) = z
    BY <1>9, <2>1
  <2>. QED
    BY <2>2 DEF z
<1>11. wire[1] = [id |-> c.id, h |-> c.h]
  BY <1>7 DEF Lies
<1>12. "h" \in DOMAIN wire[1] /\ wire[1].h = c.h
  BY <1>11
<1>13. Headers = {c.h}
  BY <1>12 DEF Headers
<1>. QED
  BY <1>1, <1>3, <1>4, <1>6, <1>7, <1>8, <1>9, <1>10, <1>12, <1>13

\* A turn of read_chunk's loop takes the first chunk of the chain.
LEMMA ParseJoins ==
    ASSUME TypeOK, setup.polite, AllPolite(said), Joined, Handshakes, Parse, UNCHANGED client
    PROVE  Joined'
<1>1. PICK a, b, S, C, P, o : Joins(a, b, S, C, P, o)
  BY DEF Joined
<1>2. PICK h \in Seen :
        \/ Partly(h) \/ OnSetChunkSize(h) \/ OnWindow(h) \/ OnConnect(h)
        \/ OnCreateStream(h) \/ OnPublish(h) \/ OnDeleteStream(h) \/ OnData(h)
  BY DEF Parse
<1>3. pc = "parse" /\ have > 0 /\ h \in Headers /\ pc' = pc
  BY <1>2 DEF Seen, Parse
<1>4. PICK s, c, m, n, t : /\ s = S[a] /\ c = C[a] /\ m = said[c.id] /\ n = Amount(s, c, m)
                           /\ t = S[a + 1]
  OBVIOUS
<1>5. /\ a < b /\ a \in Nat /\ b \in Nat /\ h = c.h
      /\ c.id \in DOMAIN said /\ m \in MsgOnStream /\ Polite(m)
      /\ Sane(s, said, finished) /\ Mirrors(s, maxChunk, prev, partial, got, said)
      /\ Sends(s, c, m, t) /\ n \in Nat /\ Lies(c, n, wire, 0) /\ n < Len(wire)
      /\ o + (1 + n) = P[a + 1] /\ o \in Int
  BY <1>1, <1>3, <1>4, SeenIs
<1>6. ReaderTypeOK /\ wire \in Seq(Unit) /\ said \in Seq(MsgOnStream) /\ got \in Seq(Messages)
  BY DEF TypeOK, ReaderTypeOK, SessionTypeOK, ClientTypeOK, Messages
<1>7. NeedRead(h) = n /\ MessageHeader(h) = HeadOf(m)
  <2>1. NeedRead(c.h) = Amount(s, c, m)
    BY ONLY <1>5, AmountReads
  <2>2. MessageHeader(c.h) = HeadOf(m)
    BY ONLY <1>5, HeaderReads
  <2>. QED
    BY <1>4, <1>5, <2>1, <2>2
<1>8. Complete(h) <=> Finishing(s, c, m)
  BY <1>4, <1>5, <1>6, ChunkReads
<1>9. TakeChunk(h)
  BY <1>2 DEF Partly, OnSetChunkSize, OnWindow, OnConnect, OnCreateStream, OnPublish,
       OnDeleteStream, OnData, Message
<1>10. Kind(h) = m.type[1] /\ Arg(h) = m.type[2]
  BY <1>7 DEF Kind, Arg, HeadOf
<1>11. maxChunk' = t.size
  <2>1. maxChunk = s.size
    BY <1>5 DEF Mirrors
  <2>2. CASE Partly(h)
    BY <1>5, <1>8, <2>1, <2>2 DEF Partly, Sends
  <2>3. CASE OnSetChunkSize(h)
    BY <1>5, <1>8, <1>10, <2>3 DEF OnSetChunkSize, Message, Sends
  <2>4. CASE ~Partly(h) /\ ~OnSetChunkSize(h)
    <3>1. Complete(h) /\ Kind(h) # "SetChunkSize" /\ maxChunk' = maxChunk
      BY <1>2, <2>4 DEF OnWindow, OnConnect, OnCreateStream, OnPublish, OnDeleteStream, OnData,
           Message
    <3>. QED
      BY <1>5, <1>8, <1>10, <2>1, <3>1 DEF Sends
  <2>. QED
    BY <2>2, <2>3, <2>4
<1>12. /\ ~Complete(h) => got' = got
       /\ Complete(h) => got' = Append(got, [cs |-> h.cs, head |-> MessageHeader(h), payload |-> Assembled(h)])
  BY <1>2 DEF Partly, OnSetChunkSize, OnWindow, OnConnect, OnCreateStream, OnPublish,
       OnDeleteStream, OnData, Message
<1>13. Mirrors(t, maxChunk', prev', partial', got', said)
  BY <1>4, <1>5, <1>6, <1>9, <1>11, <1>12, MirrorsAfter
<1>14. PICK k \in Nat : k = 1 + n
  BY <1>5
<1>15. PICK a2, o2 : a2 = a + 1 /\ o2 = o + k
  OBVIOUS
<1>16. /\ Chain(a, b, S, C, P, o, said, finished, wire) /\ S[b] = Now
       /\ a2 \in a .. b /\ o + k = P[a2]
  BY <1>1, <1>5, <1>14, <1>15 DEF Joins
<1>17. o + k <= P[a2] /\ P[a2] - o2 = 0
  BY <1>5, <1>14, <1>15, <1>16
<1>18. Chain(a2, b, S, C, P, o2, said, finished, SubSeq(wire, k + 1, Len(wire)))
  BY <1>6, <1>15, <1>16, <1>17, ChainCut
<1>19. /\ wire' = SubSeq(wire, k + 1, Len(wire)) /\ said' = said /\ finished' = finished
       /\ Now' = Now /\ greeted' = greeted /\ greeted = 2
  BY <1>3, <1>7, <1>9, <1>14 DEF TakeChunk, SplitOff, client, Now, Handshakes
<1>20. Greeting' = 0 /\ ~Drained'
  BY <1>3 DEF Greeting, Drained
<1>21. Mirrors(S[a2], maxChunk', prev', partial', got', said)
  BY <1>4, <1>13, <1>15
<1>22. Joins(a2, b, S, C, P, o2)'
  BY <1>16, <1>17, <1>18, <1>19, <1>20, <1>21 DEF Joins
<1>. QED
  BY <1>22 DEF Joined

\* When it has no more, what is left is less than a chunk.
LEMMA NoMoreJoins ==
    ASSUME TypeOK, setup.polite, AllPolite(said), Joined, Handshakes, NoMore, UNCHANGED client
    PROVE  Joined'
<1>1. PICK a, b, S, C, P, o : Joins(a, b, S, C, P, o)
  BY DEF Joined
<1>2. /\ UNCHANGED <<wire, have, maxChunk, prev, partial, got, writeSize, said, last, sending,
                     finished, greeted>>
      /\ pc = "parse" /\ pc' = "flush" /\ have \in Nat
  BY DEF NoMore, input, buffers, reader, client, TypeOK, ReaderTypeOK
<1>3. have = 0 \/ (a < b /\ have < 1 + Amount(S[a], C[a], said[C[a].id]))
  <2>. SUFFICES ASSUME have # 0 PROVE a < b /\ have < 1 + Amount(S[a], C[a], said[C[a].id])
    OBVIOUS
  <2>1. have > 0
    BY <1>2
  <2>2. PICK h \in Seen : ~Refused(h) /\ ~Whole(h)
    BY <1>2, <2>1 DEF NoMore
  <2>3. PICK s, c, m, n, t : /\ s = S[a] /\ c = C[a] /\ m = said[c.id] /\ n = Amount(s, c, m)
                             /\ t = S[a + 1]
    OBVIOUS
  <2>4. /\ a < b /\ Headers = {c.h} /\ m \in MsgOnStream /\ Polite(m)
        /\ Sane(s, said, finished) /\ Mirrors(s, maxChunk, prev, partial, got, said)
        /\ Sends(s, c, m, t) /\ n \in Nat
    BY <1>1, <1>2, <2>1, <2>3, SeenIs
  <2>5. h = c.h
    BY <2>2, <2>4 DEF Seen
  <2>6. NeedRead(h) = n
    BY <2>3, <2>4, <2>5, AmountReads
  <2>7. have < 1 + n
    BY <1>2, <2>2, <2>4, <2>6 DEF Whole
  <2>. QED
    BY <2>3, <2>4, <2>7
<1>4. Now' = Now
  BY <1>2 DEF Now
<1>5. Joins(a, b, S, C, P, o)'
  <2>1. Greeting' = 0 /\ Greeting = 0
    BY <1>2 DEF Greeting
  <2>. QED
    BY <1>1, <1>2, <1>3, <1>4, <2>1 DEF Joins
<1>. QED
  BY <1>5 DEF Joined
-----------------------------------------------------------------------------
(* The messages that come out *)

\* those that were handled are the first of those that were sent
Given == Len(got) <= Len(finished) /\ \A n \in 1 .. Len(got) : got[n] = AsSent(finished[n])

\* what is owed when the session turns to read
Answered ==
    /\ pc = "drive" /\ ~skipRead => owed = {}
    /\ pc = "read" => owed \subseteq {"reconnect"}

FlowInv ==
    /\ TypeOK /\ Given /\ Answered
    /\ ~setup.polite => got = <<>>
    /\ setup.polite => AllPolite(said) /\ (pc # "ended" => Handshakes /\ Joined)

\* The reader gives out what the chain has behind it.
LEMMA JoinedGiven == Joined => Given
<1>. SUFFICES ASSUME Joined PROVE Given
  OBVIOUS
<1>1. PICK a, b, S, C, P, o : Joins(a, b, S, C, P, o)
  BY DEF Joined
<1>2. PICK s : s = S[a]
  OBVIOUS
<1>3. Sane(s, said, finished) /\ Mirrors(s, maxChunk, prev, partial, got, said)
  <2>1. a \in a .. b
    BY <1>1 DEF Joins, Chain
  <2>. QED
    BY <1>1, <1>2, <2>1 DEF Joins, Chain
<1>4. Starts(s.finished, finished) /\ Len(got) = Len(s.finished)
  BY <1>3 DEF Sane, Mirrors
<1>5. ASSUME NEW n \in 1 .. Len(got) PROVE got[n] = AsSent(finished[n])
  <2>1. s.finished[n] = finished[n]
    BY <1>4 DEF Starts
  <2>2. PICK id : id = finished[n]
    OBVIOUS
  <2>3. got[n] = [cs |-> said[id].cs, head |-> HeadOf(said[id]),
                  payload |-> Pieces(id, said[id].len)]
    BY <1>3, <2>1, <2>2 DEF Mirrors
  <2>. QED
    BY <2>2, <2>3 DEF AsSent, HeadOf, Pieces, Piece
<1>. QED
  BY <1>4, <1>5 DEF Given, Starts

\* At first there is nothing on the way.
LEMMA InitFlows == Init => FlowInv
<1>. SUFFICES ASSUME Init PROVE FlowInv
  OBVIOUS
<1>1. TypeOK
  BY InitTypes
<1>2. /\ got = <<>> /\ said = <<>> /\ finished = <<>> /\ wire = <<>> /\ pc = "hello"
      /\ greeted = 0 /\ have = 0 /\ last = <<>> /\ sending = <<>> /\ writeSize = InitSize
      /\ maxChunk = InitSize /\ prev = <<>> /\ partial = <<>>
  BY DEF Init, ReaderInit
<1>3. DOMAIN last = {} /\ DOMAIN sending = {} /\ DOMAIN prev = {} /\ DOMAIN partial = {}
  BY <1>2
<1>4. Handshakes /\ Greeting = 0 /\ ~Drained
  BY <1>2, <1>3 DEF Handshakes, Greeting, Drained
<1>5. PICK s : s = Now
  OBVIOUS
<1>6. Sane(s, said, finished)
  <2>1. IsFiniteSet(DOMAIN s.last) /\ Cardinality(DOMAIN s.last) = 0 /\ IsFiniteSet(DOMAIN s.sending)
        /\ DOMAIN s.last = {} /\ DOMAIN s.sending = {} /\ s.size = InitSize
        /\ s.finished = <<>>
    BY <1>2, <1>3, <1>5, FS_EmptySet DEF Now
  <2>2. Starts(s.finished, finished) /\ s.finished \in Seq(DOMAIN said)
    BY <1>2, <2>1 DEF Starts
  <2>. QED
    BY <2>1, <2>2 DEF Sane
<1>7. Mirrors(s, maxChunk, prev, partial, got, said)
  <2>1. s.size = maxChunk /\ DOMAIN s.last = {} /\ DOMAIN s.sending = {} /\ s.finished = <<>>
    BY <1>2, <1>3, <1>5 DEF Now
  <2>. QED
    BY <1>2, <1>3, <2>1 DEF Mirrors
<1>8. PICK S, P, C : S = [q \in Nat |-> s] /\ P = [q \in Nat |-> 0] /\ C = S
  OBVIOUS
<1>9. Joins(0, 0, S, C, P, 0)
  <2>1. S[0] = s /\ P[0] = 0 /\ \A q \in 0 .. 0 : q = 0
    BY <1>8
  <2>2. Chain(0, 0, S, C, P, 0, said, finished, wire)
    <3>1. \A q \in 0 .. 0 : Sane(S[q], said, finished) /\ P[q] \in Int
      BY <1>6, <2>1
    <3>2. \A q, r \in 0 .. 0 : q <= r => P[q] <= P[r]
      BY <2>1
    <3>3. Len(wire) = P[0] - 0 /\ 0 <= P[0]
      BY <1>2, <2>1
    <3>4. \A q \in 0 .. 0 - 1 : FALSE
      OBVIOUS
    <3>. QED
      BY <3>1, <3>2, <3>3, <3>4 DEF Chain
  <2>. QED
    BY <1>4, <1>5, <1>7, <2>1, <2>2 DEF Joins
<1>10. Joined
  BY <1>9 DEF Joined
<1>11. AllPolite(said) /\ Given /\ Answered
  BY <1>2 DEF AllPolite, Given, Answered
<1>. QED
  BY <1>1, <1>2, <1>4, <1>10, <1>11 DEF FlowInv

\* A step of a polite client's session that does not end it.
LEMMA NextJoins ==
    ASSUME TypeOK, TypeOK', Next, setup.polite, AllPolite(said), Handshakes, Joined,
           pc # "ended"
    PROVE  AllPolite(said') /\ (pc' # "ended" => Handshakes' /\ Joined')
<1>1. CASE Client
  <2>1. /\ UNCHANGED <<pc, skipRead, reader, got>> /\ pc \in {"hello", "echo", "read"}
    BY <1>1 DEF Client
  <2>2. CASE Greet
    <3>1. said' = said
      BY <2>2 DEF Greet
    <3>. QED
      BY <2>1, <2>2, <3>1, GreetJoins
  <2>3. CASE \E m \in setup.says : \E fmt \in Formats(m) \intersect setup.fmts : Begin(m, fmt)
    <3>1. PICK m \in setup.says : \E fmt \in Formats(m) \intersect setup.fmts : Begin(m, fmt)
      BY <2>3
    <3>2. PICK fmt \in Formats(m) : Begin(m, fmt)
      BY <3>1
    <3>3. Joined' /\ AllPolite(said')
      BY <2>1, <3>2, BeginJoins
    <3>4. Handshakes'
      BY <2>1, <3>2 DEF Begin, Handshakes
    <3>. QED
      BY <3>3, <3>4
  <2>4. CASE \E cs \in DOMAIN sending : Continue(cs)
    <3>1. PICK cs \in DOMAIN sending : Continue(cs)
      BY <2>4
    <3>2. Joined' /\ AllPolite(said')
      BY <2>1, <3>1, ContinueJoins
    <3>3. Handshakes'
      BY <2>1, <3>1 DEF Continue, Handshakes
    <3>. QED
      BY <3>2, <3>3
  <2>5. CASE Leave
    <3>1. UNCHANGED <<wire, have, writeSize, said, last, sending, finished, greeted>>
      BY <2>5 DEF Leave, buffers
    <3>2. Greeting' = Greeting /\ Drained' = Drained /\ Handshakes'
      BY <2>1, <3>1 DEF Greeting, Drained, Handshakes
    <3>3. PICK a, b, S, C, P, o : Joins(a, b, S, C, P, o)
      BY DEF Joined
    <3>. QED
      BY <2>1, <3>1, <3>2, <3>3, JoinsKept
  <2>6. ~Babble
    BY DEF Babble
  <2>. QED
    BY <1>1, <2>2, <2>3, <2>4, <2>5, <2>6 DEF Client
<1>2. CASE (Hello \/ Echo) /\ UNCHANGED <<got, setup, done, client>>
  <2>1. Joined'
    BY <1>2, HandshakeJoins
  <2>2. Handshakes'
    <3>1. CASE Hello
      <4>1. pc = "hello" /\ pc' = "greet" /\ have >= READ_SIZE /\ greeted' = greeted
            /\ sending' = sending
        BY <1>2, <3>1 DEF Hello, client
      <4>2. greeted = 1
        <5>1. SUFFICES ASSUME greeted = 0 PROVE FALSE
          BY <4>1 DEF Handshakes
        <5>2. Len(wire) = 0
          <6>1. PICK a, b, S, C, P, o : Joins(a, b, S, C, P, o)
            BY DEF Joined
          <6>. QED
            BY <4>1, <5>1, <6>1 DEF Joins, Chain, Greeting
        <5>. QED
          BY <4>1, <5>2 DEF TypeOK, ReaderTypeOK, READ_SIZE
      <4>. QED
        BY <4>1, <4>2 DEF Handshakes
    <3>2. CASE Echo
      <4>1. pc = "echo" /\ pc' = "drive" /\ have >= READ_SIZE /\ greeted' = greeted
            /\ sending' = sending
        BY <1>2, <3>2 DEF Echo, client
      <4>2. greeted = 2
        <5>1. SUFFICES ASSUME greeted = 1 PROVE FALSE
          BY <4>1 DEF Handshakes
        <5>2. Len(wire) = 0
          <6>1. PICK a, b, S, C, P, o : Joins(a, b, S, C, P, o)
            BY DEF Joined
          <6>. QED
            BY <4>1, <5>1, <6>1 DEF Joins, Chain, Greeting
        <5>. QED
          BY <4>1, <5>2 DEF TypeOK, ReaderTypeOK, READ_SIZE
      <4>. QED
        BY <4>1, <4>2 DEF Handshakes
    <3>. QED
      BY <1>2, <3>1, <3>2
  <2>. QED
    BY <1>2, <2>1, <2>2 DEF client
<1>3. CASE Parse /\ UNCHANGED <<setup, done, client>>
  <2>1. Joined'
    BY <1>3, ParseJoins
  <2>2. UNCHANGED <<pc, said, greeted, sending>>
    BY <1>3 DEF Parse, client
  <2>. QED
    BY <2>1, <2>2 DEF Handshakes
<1>4. CASE NoMore /\ UNCHANGED <<setup, done, client>>
  <2>1. Joined'
    BY <1>4, NoMoreJoins
  <2>2. UNCHANGED <<said, greeted, sending>> /\ pc = "parse" /\ pc' = "flush"
    BY <1>4 DEF NoMore, client
  <2>. QED
    BY <2>1, <2>2 DEF Handshakes
<1>5. CASE /\ ContextDone \/ HandshakeRead \/ Flush \/ Drive \/ Read
           /\ UNCHANGED <<got, setup, client>>
  <2>1. UNCHANGED <<wire, writeSize, said, last, sending, finished, greeted, reader>>
    BY <1>5 DEF ContextDone, HandshakeRead, Flush, Drive, Read, client, input, buffers
  <2>2. /\ Greeting' = Greeting /\ (Drained' => Drained /\ have' = have) /\ Handshakes'
    BY <1>5, <2>1 DEF ContextDone, HandshakeRead, Flush, Drive, Read, client, input, buffers,
         Greeting, Drained, Handshakes
  <2>3. PICK a, b, S, C, P, o : Joins(a, b, S, C, P, o)
    BY DEF Joined
  <2>. QED
    BY <1>5, <2>1, <2>2, <2>3, JoinsKept
<1>6. CASE /\ Cancelled \/ HandshakeFails \/ FlushFails \/ ClientGone \/ BrokenRead \/ ParseFails
              \/ Panic
           /\ UNCHANGED client
  BY <1>6 DEF Cancelled, HandshakeFails, FlushFails, ClientGone, BrokenRead, ParseFails, Panic,
       End, Finish, client
<1>. QED
  BY <1>1, <1>2, <1>3, <1>4, <1>5, <1>6 DEF Next, Session, ContextDone

\* What has come out stays what was sent, when the session ends, too.
LEMMA NextFlows == FlowInv /\ [Next]_vars => FlowInv'
<1>. SUFFICES ASSUME FlowInv, [Next]_vars PROVE FlowInv'
  OBVIOUS
<1>1. TypeOK /\ TypeOK'
  BY NextTypes DEF FlowInv
<1>2. CASE UNCHANGED vars
  <2>1. /\ UNCHANGED <<wire, have, reader, got, writeSize, said, last, sending, finished>>
        /\ UNCHANGED <<setup, pc, owed, skipRead, greeted>>
    BY <1>2 DEF vars, input, buffers, control, client
  <2>2. UNCHANGED <<Greeting, Drained, Handshakes, Given, Answered>>
    BY <2>1 DEF Greeting, Drained, Handshakes, Given, Answered, AsSent
  <2>3. Joined => Joined'
    <3>. SUFFICES ASSUME Joined PROVE Joined'
      OBVIOUS
    <3>1. PICK a, b, S, C, P, o : Joins(a, b, S, C, P, o)
      BY DEF Joined
    <3>. QED
      BY <2>1, <2>2, <3>1, JoinsKept
  <2>. QED
    BY <1>1, <2>1, <2>2, <2>3 DEF FlowInv
<1>3. CASE Next
  <2>1. setup' = setup
    BY <1>3 DEF Next, Client, ContextDone, Session
  <2>2. Answered'
    <3>1. Answered
      BY DEF FlowInv
    <3>2. CASE Client \/ ContextDone
      BY <3>1, <3>2 DEF Client, ContextDone, Answered, input
    <3>3. CASE HandshakeRead \/ Hello \/ Cancelled \/ HandshakeFails \/ FlushFails \/ Read
               \/ ClientGone \/ BrokenRead \/ NoMore \/ ParseFails \/ Panic
      BY <3>3 DEF HandshakeRead, Hello, Cancelled, HandshakeFails, FlushFails, Read,
           ClientGone, BrokenRead, NoMore, ParseFails, Panic, End, Finish, Answered
    <3>4. CASE Echo
      <4>1. have >= READ_SIZE /\ pc' = "drive" /\ skipRead' = OverRead
        BY <3>4 DEF Echo
      <4>2. have \in Nat
        BY <1>1 DEF TypeOK, ReaderTypeOK
      <4>3. HelloSize \in Nat
        BY RtmpSessionAssumption
      <4>4. OverRead
        BY ONLY <4>1, <4>2, <4>3 DEF OverRead, READ_SIZE
      <4>. QED
        BY <4>1, <4>4 DEF Answered
    <3>5. CASE Flush
      BY <3>5 DEF Flush, Answered
    <3>6. CASE Drive
      BY <3>1, <3>6 DEF Drive, Owe, Answered
    <3>7. CASE Parse
      BY <3>7 DEF Parse, Seen, Answered
    <3>. QED
      BY <1>3, <3>2, <3>3, <3>4, <3>5, <3>6, <3>7 DEF Next, Session
  <2>3. CASE setup.polite
    <3>1. AllPolite(said) /\ Given
      BY <2>3 DEF FlowInv
    <3>2. CASE pc # "ended"
      <4>1. AllPolite(said') /\ (pc' # "ended" => Handshakes' /\ Joined')
        BY <1>1, <1>3, <2>3, <3>2, NextJoins DEF FlowInv
      <4>2. CASE pc' # "ended"
        <5>1. Joined'
          BY <4>1, <4>2
        <5>2. Given'
          BY <5>1, JoinedGiven, PTL
        <5>. QED
          BY <1>1, <2>1, <2>2, <2>3, <4>1, <5>2 DEF FlowInv
      <4>3. CASE pc' = "ended"
        <5>1. UNCHANGED <<got, said, finished>>
          BY <1>3, <3>2, <4>3 DEF Next, Client, ContextDone, Session, HandshakeRead, Hello, Echo,
               Cancelled, HandshakeFails, Flush, FlushFails, Drive, Read, ClientGone, BrokenRead,
               NoMore, Parse, ParseFails, Panic, client, Seen
        <5>2. Given'
          BY <3>1, <5>1 DEF Given, AsSent
        <5>. QED
          BY <1>1, <2>1, <2>2, <2>3, <4>1, <4>3, <5>2 DEF FlowInv
      <4>. QED
        BY <4>2, <4>3
    <3>3. CASE pc = "ended"
      <4>1. UNCHANGED <<pc, got, said, finished>>
        BY <1>3, <3>3 DEF Next, Client, ContextDone, Session, HandshakeRead, Hello, Echo,
             Cancelled, HandshakeFails, Flush, FlushFails, Drive, Read, ClientGone, BrokenRead,
             NoMore, Parse, ParseFails, Panic, client, Seen
      <4>2. Given' /\ AllPolite(said')
        BY <3>1, <4>1 DEF Given, AsSent
      <4>. QED
        BY <1>1, <2>1, <2>2, <2>3, <3>3, <4>1, <4>2 DEF FlowInv
    <3>. QED
      BY <3>2, <3>3
  <2>4. CASE ~setup.polite
    <3>1. got = <<>>
      BY <2>4 DEF FlowInv
    <3>2. got' = got
      BY <1>3, <2>4 DEF Next, Client, ContextDone, Session, NoMore, Parse, ParseFails, Panic,
           Partly, OnSetChunkSize, OnWindow, OnConnect, OnCreateStream, OnPublish,
           OnDeleteStream, OnData, Message
    <3>3. Given'
      <4>1. Len(finished') \in Nat
        BY <1>1 DEF TypeOK, ClientTypeOK
      <4>. QED
        BY <3>1, <3>2, <4>1 DEF Given
    <3>. QED
      BY <1>1, <2>1, <2>2, <2>4, <3>1, <3>2, <3>3 DEF FlowInv
  <2>. QED
    BY <2>3, <2>4
<1>. QED
  BY <1>2, <1>3

\* However a polite client interleaves its chunks, whatever chunk sizes it changes to
\* and wherever reads cut the stream, process_chunks gets its messages as they were
\* sent, in the order in which they were finished, and refuses none of its chunks.
THEOREM RtmpReassembly == Spec => []Reassembly
<1>1. FlowInv => Reassembly
  <2>. SUFFICES ASSUME FlowInv PROVE Reassembly
    OBVIOUS
  <2>1. TypeOK /\ Given
    BY DEF FlowInv
  <2>2. IsPrefix(got, [n \in DOMAIN finished |-> AsSent(finished[n])])
    <3>. DEFINE t == [n \in DOMAIN finished |-> AsSent(finished[n])]
    <3>1. got \in Seq(Messages) /\ finished \in Seq(DOMAIN said)
      BY <2>1 DEF TypeOK, SessionTypeOK, ClientTypeOK, Messages
    <3>2. /\ Len(t) = Len(finished) /\ DOMAIN t = 1 .. Len(finished)
          /\ \A n \in 1 .. Len(finished) : t[n] = AsSent(finished[n])
      BY <3>1
    <3>. HIDE DEF t
    <3>3. Len(got) <= Len(t) /\ \A n \in 1 .. Len(got) : got[n] = t[n]
      BY <2>1, <3>1, <3>2 DEF Given
    <3>4. SubSeq(got, 1, Len(got)) = SubSeq(t, 1, Len(got))
      BY <3>1, <3>2, <3>3
    <3>. QED
      BY <3>3, <3>4 DEF IsPrefix, t
  <2>3. ASSUME setup.polite, Seen # {}
        PROVE  "h" \in DOMAIN wire[1] /\ \A h \in Seen : ~ReadFails(h) /\ ~Overflows(h)
    <3>1. pc = "parse" /\ have > 0
      BY <2>3 DEF Seen
    <3>2. AllPolite(said) /\ Joined
      BY <2>3, <3>1 DEF FlowInv
    <3>3. PICK a, b, S, C, P, o : Joins(a, b, S, C, P, o)
      BY <3>2 DEF Joined
    <3>4. PICK s, c, m, n, t : /\ s = S[a] /\ c = C[a] /\ m = said[c.id] /\ n = Amount(s, c, m)
                               /\ t = S[a + 1]
      OBVIOUS
    <3>5. /\ Headers = {c.h} /\ "h" \in DOMAIN wire[1] /\ m \in MsgOnStream /\ Polite(m)
          /\ Sane(s, said, finished) /\ Mirrors(s, maxChunk, prev, partial, got, said)
          /\ Sends(s, c, m, t) /\ Lies(c, n, wire, 0) /\ n < Len(wire)
      BY <2>1, <3>1, <3>2, <3>3, <3>4, SeenIs
    <3>6. ~Overflows(c.h)
      BY <3>5, AmountReads
    <3>7. ~ReadFails(c.h)
      BY <2>1, <3>4, <3>5, ChunkReads DEF TypeOK, ReaderTypeOK
    <3>. QED
      BY <3>1, <3>5, <3>6, <3>7 DEF Seen
  <2>. QED
    BY <2>2, <2>3 DEF Reassembly
<1>. QED
  BY <1>1, InitFlows, NextFlows, PTL DEF Spec

\* The session turns to read only when it has handled every message that has arrived
\* whole, and has written every answer: neither waits for the other.
THEOREM RtmpNothingLeft == Spec => []NothingLeft
<1>1. FlowInv => NothingLeft
  <2>. SUFFICES ASSUME FlowInv, pc = "read"
                PROVE  /\ owed \subseteq {"reconnect"}
                       /\ setup.polite => \A i \in 1 .. have : ~Finishes(wire[i])
    BY DEF NothingLeft
  <2>1. owed \subseteq {"reconnect"} /\ TypeOK
    BY DEF FlowInv, Answered
  <2>2. ASSUME setup.polite, NEW i \in 1 .. have PROVE ~Finishes(wire[i])
    <3>1. PICK a, b, S, C, P, o : Joins(a, b, S, C, P, o)
      BY <2>2 DEF FlowInv, Joined
    <3>2. PICK s, c, m, n : s = S[a] /\ c = C[a] /\ m = said[c.id] /\ n = Amount(s, c, m)
      OBVIOUS
    <3>3. have \in Nat /\ have # 0 /\ i \in Nat /\ i <= have /\ 1 <= i
      BY <2>1, <2>2 DEF TypeOK, ReaderTypeOK
    <3>4. a < b /\ have < 1 + n /\ P[a] - o = 0 /\ Chain(a, b, S, C, P, o, said, finished, wire)
      BY <3>1, <3>2, <3>3 DEF Joins, Drained, Greeting
    <3>5. a \in a .. b - 1 /\ a \in a .. b
      BY <3>4 DEF Chain
    <3>6. /\ c.id \in DOMAIN said /\ Sends(s, c, m, S[a + 1]) /\ Lies(c, n, wire, 0)
          /\ Sane(s, said, finished)
      BY <3>2, <3>4, <3>5 DEF Chain, Link
    <3>7. m \in MsgOnStream
      BY <2>1, <3>2, <3>6 DEF TypeOK, ClientTypeOK
    <3>8. c.sent \in 0 .. m.len /\ m.len \in Nat /\ c.h.len = m.len
      BY <3>6, <3>7 DEF Sends, Decodes, MsgOnStream
    <3>9. n \in 0 .. m.len - c.sent
      BY <3>2, <3>6, <3>7, <3>8, SizesAre, AmountIs
    <3>10. m.len # 0 /\ c.sent + n <= m.len
      BY <3>3, <3>4, <3>8, <3>9
    <3>11. CASE i = 1
      <4>1. wire[i] = [id |-> c.id, h |-> c.h]
        BY <3>6, <3>11 DEF Lies
      <4>. QED
        BY <3>8, <3>10, <4>1 DEF Finishes
    <3>12. CASE i # 1
      <4>1. i - 1 \in 1 .. n /\ 0 + 1 + (i - 1) = i /\ i - 1 < n
        BY <3>3, <3>4, <3>8, <3>9, <3>12
      <4>2. wire[i] = Piece(c.id, c.sent + (i - 1))
        BY <3>6, <4>1 DEF Lies
      <4>3. c.sent + (i - 1) # m.len
        BY <3>3, <3>8, <3>9, <3>10, <4>1
      <4>. QED
        BY <3>2, <4>2, <4>3 DEF Finishes, Piece
    <3>. QED
      BY <3>11, <3>12
  <2>. QED
    BY <2>1, <2>2
<1>. QED
  BY <1>1, InitFlows, NextFlows, PTL DEF Spec
=============================================================================
