--------------------------- MODULE ChannelProofs ---------------------------
(***************************************************************************)
(* Theorems about ChannelCompat, for any writers, readers, kinds and sizes *)
(* of channels and messages.                                               *)
(***************************************************************************)
EXTENDS ChannelCompat, SequenceTheorems, TLAPS
-----------------------------------------------------------------------------
(* The inductive invariant: types, where the bytes of a reader can be, that  *)
(* every message is in order by itself, and the invariants.                  *)

States == {"unborn", "idle", "recv", "more", "dropped", "panicked"}

TypeOK ==
    /\ kind \in Kinds /\ overrun \in BOOLEAN /\ sent \in Nat /\ senders \subseteq Writers
    /\ queue \in Seq(Seq(Nat))
    /\ pc \in [Readers -> States] /\ want \in [Readers -> Nat]
    /\ out \in [Readers -> Seq(Nat)] /\ buffer \in [Readers -> Seq(Nat)]
    /\ given \in [Readers -> Seq(Nat)]

\* a read that still has room has emptied the buffer; no other reader has an out
Placed ==
    \A r \in Readers :
        /\ pc[r] = "recv" => want[r] > 0
        /\ pc[r] # "more" => out[r] = <<>>
        /\ pc[r] \in {"recv", "more"} /\ Len(out[r]) < want[r] => buffer[r] = <<>>
        /\ pc[r] \in Over => buffer[r] = <<>>
        /\ pc[r] = "unborn" => given[r] = <<>>

BytesIn(q) == UNION {Bytes(q[i]) : i \in DOMAIN q}

\* the bytes of the messages of q are in order, within a message and from one to the next
InSequence(q) ==
    /\ \A i \in DOMAIN q : Increasing(q[i])
    /\ \A i, j \in DOMAIN q : i < j => \A x \in Bytes(q[i]), y \in Bytes(q[j]) : x < y

\* readers come before the channel, what was sent is somewhere, and only copies are twice
Sound ==
    /\ InSequence(queue)
    /\ \A r \in Readers : Increasing(Taken(r))
    /\ \A r \in Readers : \A x \in Bytes(Taken(r)), y \in BytesIn(queue) : x < y
    /\ \A x : x \in 1 .. sent <=>
          x \in lost \/ x \in BytesIn(queue) \/ \E r \in Readers : x \in Bytes(Taken(r))
    /\ \A q, r \in Readers : q # r =>
          \A x \in Bytes(Taken(q)) : x \in Bytes(Taken(r)) => x \in copied
    /\ \A x \in lost : x \notin BytesIn(queue)

\* only a broadcast is ever overrun
EndKnown == EofIsEnd /\ (overrun => kind = "broadcast")

ChannelInv == TypeOK /\ Placed /\ Sound /\ EndKnown
-----------------------------------------------------------------------------
(* Sequences of bytes, and of messages.                                      *)

\* The bytes of two sequences, one after the other, and their order.
LEMMA BytesOfConcat ==
    ASSUME NEW s \in Seq(Nat), NEW t \in Seq(Nat)
    PROVE  /\ s \o t \in Seq(Nat) /\ Len(s \o t) = Len(s) + Len(t)
           /\ Bytes(s \o t) = Bytes(s) \union Bytes(t)
           /\ Increasing(s \o t) => Increasing(s) /\ Increasing(t)
           /\ Increasing(s) /\ Increasing(t) /\ (\A x \in Bytes(s), y \in Bytes(t) : x < y)
                 => Increasing(s \o t)
<1>1. /\ s \o t \in Seq(Nat) /\ Len(s \o t) = Len(s) + Len(t)
      /\ Len(s) \in Nat /\ Len(t) \in Nat
      /\ DOMAIN s = 1 .. Len(s) /\ DOMAIN t = 1 .. Len(t)
      /\ DOMAIN (s \o t) = 1 .. Len(s) + Len(t)
      /\ \A i \in 1 .. Len(s) + Len(t) :
            (s \o t)[i] = IF i <= Len(s) THEN s[i] ELSE t[i - Len(s)]
  BY ConcatProperties, LenProperties
<1>2. /\ \A i \in DOMAIN s : i \in DOMAIN (s \o t) /\ (s \o t)[i] = s[i]
      /\ \A i \in DOMAIN t : i + Len(s) \in DOMAIN (s \o t) /\ (s \o t)[i + Len(s)] = t[i]
      /\ \A i \in DOMAIN (s \o t) : i \notin DOMAIN s =>
            i - Len(s) \in DOMAIN t /\ (s \o t)[i] = t[i - Len(s)]
  BY <1>1
<1>3. Bytes(s \o t) = Bytes(s) \union Bytes(t)
  <2>1. \A i \in DOMAIN s : s[i] \in Bytes(s \o t)
    BY <1>2 DEF Bytes
  <2>2. \A i \in DOMAIN t : t[i] \in Bytes(s \o t)
    BY <1>2 DEF Bytes
  <2>3. \A i \in DOMAIN (s \o t) : (s \o t)[i] \in Bytes(s) \union Bytes(t)
    BY <1>2 DEF Bytes
  <2>4. Bytes(s) \union Bytes(t) \subseteq Bytes(s \o t)
    BY <2>1, <2>2 DEF Bytes
  <2>5. Bytes(s \o t) \subseteq Bytes(s) \union Bytes(t)
    BY <2>3 DEF Bytes
  <2>. QED
    BY <2>4, <2>5
<1>4. Increasing(s \o t) => Increasing(s) /\ Increasing(t)
  <2>1. \A i, j \in DOMAIN t : i < j => i + Len(s) < j + Len(s)
    BY <1>1
  <2>. QED
    BY <1>2, <2>1 DEF Increasing
<1>5. ASSUME Increasing(s), Increasing(t), \A x \in Bytes(s), y \in Bytes(t) : x < y,
             NEW i \in DOMAIN (s \o t), NEW j \in DOMAIN (s \o t), i < j
      PROVE  (s \o t)[i] < (s \o t)[j]
  <2>1. CASE j \in DOMAIN s
    <3>1. i \in DOMAIN s
      BY <1>1, <1>5, <2>1
    <3>. QED
      BY <1>2, <1>5, <2>1, <3>1 DEF Increasing
  <2>2. CASE i \in DOMAIN s /\ j \notin DOMAIN s
    <3>1. s[i] \in Bytes(s) /\ t[j - Len(s)] \in Bytes(t)
      BY <1>2, <2>2 DEF Bytes
    <3>. QED
      BY <1>2, <1>5, <2>2, <3>1
  <2>3. CASE i \notin DOMAIN s /\ j \notin DOMAIN s
    <3>1. i - Len(s) \in DOMAIN t /\ j - Len(s) \in DOMAIN t /\ i - Len(s) < j - Len(s)
      BY <1>1, <1>2, <1>5, <2>3
    <3>2. t[i - Len(s)] < t[j - Len(s)]
      BY <1>5, <3>1 DEF Increasing
    <3>. QED
      BY <1>2, <2>3, <3>2
  <2>. QED
    BY <2>1, <2>2, <2>3
<1>. QED
  BY <1>1, <1>3, <1>4, <1>5 DEF Increasing

\* The empty sequence.
LEMMA NoBytes == Bytes(<<>>) = {} /\ BytesIn(<<>>) = {} /\ InSequence(<<>>) /\ Increasing(<<>>)
BY DEF Bytes, BytesIn, InSequence, Increasing

\* The two parts of a message make it up.
LEMMA Cut ==
    ASSUME NEW m \in Seq(Nat), NEW n \in 0 .. Len(m)
    PROVE  /\ Front(m, n) \in Seq(Nat) /\ Rest(m, n) \in Seq(Nat)
           /\ Len(Front(m, n)) = n /\ (n = Len(m) => Rest(m, n) = <<>>)
           /\ Front(m, n) \o Rest(m, n) = m
<1>1. Len(m) \in Nat /\ \A i \in 1 .. Len(m) : m[i] \in Nat
  BY LenProperties, ElementOfSeq
<1>2. Front(m, n) \in Seq(Nat) /\ Len(Front(m, n)) = n
  BY <1>1, SubSeqProperties DEF Front
<1>3. Rest(m, n) \in Seq(Nat)
  <2>1. \A i \in n + 1 .. Len(m) : m[i] \in Nat
    BY <1>1
  <2>. QED
    BY <1>1, <2>1, SubSeqProperties DEF Rest
<1>4. n = Len(m) => Rest(m, n) = <<>>
  BY <1>1, SubSeqEmpty DEF Rest
<1>5. SubSeq(m, 1, n) \o SubSeq(m, n + 1, Len(m)) = SubSeq(m, 1, Len(m))
  <2>1. 1 \in 1 .. Len(m) + 1 /\ n \in 1 - 1 .. Len(m) /\ Len(m) \in n .. Len(m)
    BY <1>1
  <2>. QED
    BY <2>1, ConcatAdjacentSubSeq
<1>6. SubSeq(m, 1, Len(m)) = m
  BY SubSeqFull
<1>. QED
  BY <1>2, <1>3, <1>4, <1>5, <1>6 DEF Front, Rest

\* What is left when the first message goes.
LEMMA WithoutHead ==
    ASSUME NEW q \in Seq(Seq(Nat)), q # <<>>
    PROVE  /\ Head(q) \in Seq(Nat) /\ Tail(q) \in Seq(Seq(Nat))
           /\ BytesIn(q) = Bytes(Head(q)) \union BytesIn(Tail(q))
           /\ InSequence(q) =>
                 /\ InSequence(Tail(q)) /\ Increasing(Head(q))
                 /\ \A x \in Bytes(Head(q)), y \in BytesIn(Tail(q)) : x < y
<1>1. /\ Head(q) \in Seq(Nat) /\ Tail(q) \in Seq(Seq(Nat)) /\ Len(Tail(q)) = Len(q) - 1
      /\ \A i \in 1 .. Len(Tail(q)) : Tail(q)[i] = q[i + 1]
      /\ Len(q) \in Nat \ {0} /\ DOMAIN q = 1 .. Len(q) /\ DOMAIN Tail(q) = 1 .. Len(Tail(q))
  BY HeadTailProperties, LenProperties, EmptySeq
<1>2. Head(q) = q[1] /\ 1 \in DOMAIN q
  BY <1>1
<1>3. /\ \A i \in DOMAIN Tail(q) : i + 1 \in DOMAIN q /\ Tail(q)[i] = q[i + 1] /\ 1 < i + 1
      /\ \A i \in DOMAIN q : i # 1 => i - 1 \in DOMAIN Tail(q) /\ Tail(q)[i - 1] = q[i]
      /\ \A i, j \in DOMAIN Tail(q) : i < j => i + 1 < j + 1
  BY <1>1
<1>4. BytesIn(q) = Bytes(Head(q)) \union BytesIn(Tail(q))
  <2>1. BytesIn(Tail(q)) \subseteq BytesIn(q) /\ Bytes(Head(q)) \subseteq BytesIn(q)
    BY <1>2, <1>3 DEF BytesIn
  <2>2. ASSUME NEW i \in DOMAIN q PROVE Bytes(q[i]) \subseteq Bytes(Head(q)) \union BytesIn(Tail(q))
    <3>1. CASE i = 1
      BY <1>2, <3>1
    <3>2. CASE i # 1
      BY <1>3, <3>2 DEF BytesIn
    <3>. QED
      BY <3>1, <3>2
  <2>3. BytesIn(q) \subseteq Bytes(Head(q)) \union BytesIn(Tail(q))
    BY <2>2 DEF BytesIn
  <2>. QED
    BY <2>1, <2>3
<1>5. ASSUME InSequence(q)
      PROVE  /\ InSequence(Tail(q)) /\ Increasing(Head(q))
             /\ \A x \in Bytes(Head(q)), y \in BytesIn(Tail(q)) : x < y
  <2>1. InSequence(Tail(q))
    BY <1>3, <1>5 DEF InSequence
  <2>2. \A x \in Bytes(Head(q)), y \in BytesIn(Tail(q)) : x < y
    BY <1>2, <1>3, <1>5 DEF InSequence, BytesIn
  <2>. QED
    BY <1>2, <1>5, <2>1, <2>2 DEF InSequence
<1>. QED
  BY <1>1, <1>4, <1>5

\* What is there when a message comes.
LEMMA WithMessage ==
    ASSUME NEW q \in Seq(Seq(Nat)), NEW m \in Seq(Nat)
    PROVE  /\ Append(q, m) \in Seq(Seq(Nat))
           /\ BytesIn(Append(q, m)) = BytesIn(q) \union Bytes(m)
           /\ InSequence(q) /\ Increasing(m) /\ (\A x \in BytesIn(q), y \in Bytes(m) : x < y)
                 => InSequence(Append(q, m))
<1>. DEFINE a == Append(q, m)
            n == Len(q) + 1
<1>1. /\ a \in Seq(Seq(Nat)) /\ Len(q) \in Nat /\ DOMAIN q = 1 .. Len(q) /\ DOMAIN a = 1 .. n
      /\ (\A i \in 1 .. Len(q) : a[i] = q[i]) /\ a[n] = m
  BY AppendProperties, LenProperties
<1>2. /\ \A i \in DOMAIN q : i \in DOMAIN a /\ a[i] = q[i]
      /\ n \in DOMAIN a /\ a[n] = m
      /\ \A i \in DOMAIN a : i \notin DOMAIN q => i = n
      /\ \A i, j \in DOMAIN a : i < j => i \in DOMAIN q
  BY <1>1
<1>. HIDE DEF a, n
<1>3. BytesIn(a) = BytesIn(q) \union Bytes(m)
  BY <1>2 DEF BytesIn
<1>4. ASSUME InSequence(q), Increasing(m), \A x \in BytesIn(q), y \in Bytes(m) : x < y
      PROVE  InSequence(a)
  <2>1. ASSUME NEW i \in DOMAIN a PROVE Increasing(a[i])
    BY <1>2, <1>4 DEF InSequence
  <2>2. ASSUME NEW i \in DOMAIN a, NEW j \in DOMAIN a, i < j,
               NEW x \in Bytes(a[i]), NEW y \in Bytes(a[j])
        PROVE  x < y
    <3>1. i \in DOMAIN q /\ x \in BytesIn(q) /\ x \in Bytes(q[i])
      BY <1>2, <2>2 DEF BytesIn
    <3>2. CASE j \in DOMAIN q
      BY <1>2, <1>4, <2>2, <3>1, <3>2 DEF InSequence
    <3>3. CASE j \notin DOMAIN q
      BY <1>2, <1>4, <3>1, <3>3
    <3>. QED
      BY <3>2, <3>3
  <2>. QED
    BY <2>1, <2>2 DEF InSequence
<1>. QED
  BY <1>1, <1>3, <1>4 DEF a

\* The bytes of a message come after all that was sent.
LEMMA NewMessage ==
    ASSUME sent \in Nat, NEW n \in Nat
    PROVE  Message(n) \in Seq(Nat) /\ Increasing(Message(n)) /\ Bytes(Message(n)) = sent + 1 .. sent + n
<1>1. Message(n) \in [1 .. n -> Nat]
  BY DEF Message
<1>2. Message(n) \in Seq(Nat)
  BY <1>1
<1>3. DOMAIN Message(n) = 1 .. n /\ \A i \in 1 .. n : Message(n)[i] = sent + i
  BY DEF Message
<1>4. \A x \in sent + 1 .. sent + n : x - sent \in 1 .. n /\ sent + (x - sent) = x
  OBVIOUS
<1>5. \A i \in 1 .. n : sent + i \in sent + 1 .. sent + n
  OBVIOUS
<1>6. Bytes(Message(n)) = sent + 1 .. sent + n
  <2>1. \A x \in sent + 1 .. sent + n : x \in Bytes(Message(n))
    BY <1>3, <1>4 DEF Bytes
  <2>. QED
    BY <1>3, <1>5, <2>1 DEF Bytes
<1>. QED
  BY <1>2, <1>3, <1>6 DEF Increasing
-----------------------------------------------------------------------------
(* What a step does to the bytes: where it takes them from, and where it     *)
(* puts them.                                                                *)

Kept == UNCHANGED <<queue, sent, lost, copied>> /\ \A q \in Readers : Taken(q)' = Taken(q)

\* a message of n bytes more, perhaps in place of the oldest
Written(n) ==
    /\ sent' = sent + n /\ UNCHANGED copied /\ \A q \in Readers : Taken(q)' = Taken(q)
    /\ \/ queue' = Append(queue, Message(n)) /\ UNCHANGED lost
       \/ /\ queue # <<>> /\ queue' = Append(Tail(queue), Message(n))
          /\ lost' = lost \union Bytes(Head(queue))

\* a message goes to reader r
Moved(r) ==
    /\ queue # <<>> /\ queue' = Tail(queue) /\ UNCHANGED <<sent, lost, copied>>
    /\ Taken(r)' = Taken(r) \o Head(queue)
    /\ \A q \in Readers \ {r} : Taken(q)' = Taken(q)

\* reader r loses the bytes of s, and the channel those that leave it
Thrown(r, s) ==
    /\ UNCHANGED <<sent, copied>>
    /\ Taken(r)' \in Seq(Nat) /\ Taken(r) = Taken(r)' \o s
    /\ \A q \in Readers \ {r} : Taken(q)' = Taken(q)
    /\ \/ UNCHANGED queue /\ lost' = lost \union Bytes(s)
       \/ queue # <<>> /\ queue' = Tail(queue) /\ lost' = (lost \union Bytes(s)) \union Bytes(Head(queue))
       \/ queue' = <<>> /\ lost' = (lost \union Bytes(s)) \union BytesIn(queue)

\* reader copy begins with the last bytes of reader r, those of s
Copied(r, copy, s, t) ==
    /\ r # copy /\ UNCHANGED <<queue, sent, lost>>
    /\ Taken(r) = t \o s /\ Taken(copy) = <<>> /\ Taken(copy)' = s
    /\ \A q \in Readers \ {copy} : Taken(q)' = Taken(q)
    /\ copied' = copied \union Bytes(s)

\* A reader's bytes are a sequence.
LEMMA TakenTyped == ASSUME TypeOK, NEW r \in Readers PROVE Taken(r) \in Seq(Nat)
<1>1. given[r] \in Seq(Nat) /\ out[r] \in Seq(Nat) /\ buffer[r] \in Seq(Nat)
  BY DEF TypeOK
<1>. QED
  BY <1>1, ConcatProperties DEF Taken

Associate(s, t, u) == (s \o t) \o u = s \o (t \o u)

\* Three sequences, grouped in two ways.
LEMMA Associates ==
    ASSUME NEW s \in Seq(Nat), NEW t \in Seq(Nat), NEW u \in Seq(Nat)
    PROVE  Associate(s, t, u)
BY ConcatAssociative, SMTT(20) DEF Associate

Regroups(g, o, m, n) == (g \o (o \o Front(m, n))) \o Rest(m, n) = (g \o o) \o m

\* What a read has, with a part of a message and then the other part.
LEMMA Regrouped ==
    ASSUME NEW g \in Seq(Nat), NEW o \in Seq(Nat), NEW m \in Seq(Nat), NEW n \in 0 .. Len(m)
    PROVE  Regroups(g, o, m, n)
<1>. DEFINE f == Front(m, n)
            t == Rest(m, n)
<1>1. f \o t = m
  BY Cut
<1>2. f \in Seq(Nat)
  BY Cut
<1>3. t \in Seq(Nat)
  BY Cut
<1>. HIDE DEF f, t
<1>4. g \o o \in Seq(Nat)
  BY BytesOfConcat
<1>5. Associate(g \o o, f, t) /\ Associate(g, o, f)
  BY <1>2, <1>3, <1>4, Associates
<1>6. (g \o o) \o f = g \o (o \o f) /\ ((g \o o) \o f) \o t = (g \o o) \o (f \o t)
  BY <1>5 DEF Associate
<1>7. (g \o (o \o f)) \o t = (g \o o) \o m
  BY <1>1, <1>6
<1>. QED
  BY <1>7 DEF f, t, Regroups

Returns(g, o, b) == ((g \o o) \o <<>>) \o b = (g \o o) \o b
Takes(g, b)      == (g \o <<>>) \o b = (g \o b) \o <<>>
Begins(g)        == (<<>> \o <<>>) \o g = g
Halves(g, m, n)  == (g \o <<>>) \o m = ((g \o Front(m, n)) \o <<>>) \o Rest(m, n)

\* Bytes that stay in their order are the same, wherever a read has them.
LEMMA Rearranged ==
    ASSUME NEW g \in Seq(Nat), NEW o \in Seq(Nat), NEW b \in Seq(Nat)
    PROVE  Returns(g, o, b) /\ Takes(g, b) /\ Begins(g) /\ \A n \in 0 .. Len(b) : Halves(g, b, n)
<1>1. \A s \in Seq(Nat) : s \o <<>> = s /\ <<>> \o s = s
  BY ConcatEmptySeq
<1>2. g \o o \in Seq(Nat) /\ g \o b \in Seq(Nat) /\ <<>> \in Seq(Nat)
  BY BytesOfConcat, EmptySeq
<1>3. Returns(g, o, b) /\ Takes(g, b) /\ Begins(g)
  BY <1>1, <1>2 DEF Returns, Takes, Begins
<1>4. ASSUME NEW n \in 0 .. Len(b) PROVE Halves(g, b, n)
  <2>. DEFINE f == Front(b, n)
              t == Rest(b, n)
  <2>1. f \o t = b
    BY Cut
  <2>2. f \in Seq(Nat)
    BY Cut
  <2>3. t \in Seq(Nat)
    BY Cut
  <2>. HIDE DEF f, t
  <2>4. Associate(g, f, t)
    BY <2>2, <2>3, Associates
  <2>5. g \o <<>> = g
    BY <1>1
  <2>6. g \o f \in Seq(Nat)
    BY <2>2, BytesOfConcat
  <2>7. (g \o f) \o <<>> = g \o f
    BY <1>1, <2>6
  <2>8. ((g \o f) \o <<>>) \o t = (g \o f) \o t
    BY <2>7
  <2>9. (g \o <<>>) \o b = g \o (f \o t)
    BY <2>1, <2>5
  <2>10. (g \o <<>>) \o b = ((g \o f) \o <<>>) \o t
    BY <2>4, <2>8, <2>9 DEF Associate
  <2>. QED
    BY <2>10 DEF Halves, f, t
<1>. QED
  BY <1>3, <1>4

\* The smaller of two numbers.
LEMMA Least ==
    ASSUME NEW a \in Nat, NEW b \in Nat
    PROVE  Smaller(a, b) \in 0 .. a /\ (Smaller(a, b) # a => Smaller(a, b) = b)
BY DEF Smaller

\* A message that a read takes is divided between out and the buffer of its
\* reader; a read that still has room has nothing in the buffer.
LEMMA FillEffect ==
    ASSUME TypeOK, Placed, NEW r \in Readers, pc[r] \in {"recv", "more"},
           Len(out[r]) < want[r], queue # <<>>, Fill(r), given' = given
    PROVE  /\ queue' = Tail(queue) /\ queue' \in Seq(Seq(Nat))
           /\ out' \in [Readers -> Seq(Nat)] /\ buffer' \in [Readers -> Seq(Nat)]
           /\ \A q \in Readers \ {r} : out'[q] = out[q] /\ buffer'[q] = buffer[q]
           /\ Len(out'[r]) < want[r] => buffer'[r] = <<>>
           /\ Taken(r)' = Taken(r) \o Head(queue)
           /\ \A q \in Readers \ {r} : Taken(q)' = Taken(q)
<1>. DEFINE m == Head(queue)
            n == Smaller(Len(m), want[r] - Len(out[r]))
<1>1. /\ queue \in Seq(Seq(Nat)) /\ given[r] \in Seq(Nat) /\ out[r] \in Seq(Nat)
      /\ want[r] \in Nat /\ out \in [Readers -> Seq(Nat)] /\ buffer \in [Readers -> Seq(Nat)]
  BY DEF TypeOK
<1>2. m \in Seq(Nat) /\ Tail(queue) \in Seq(Seq(Nat))
  BY <1>1, WithoutHead
<1>3. n \in 0 .. Len(m) /\ (n # Len(m) => Len(out[r]) + n = want[r])
  <2>1. Len(m) \in Nat /\ Len(out[r]) \in Nat
    BY <1>1, <1>2, LenProperties
  <2>2. want[r] - Len(out[r]) \in Nat
    BY <1>1, <2>1
  <2>3. n \in 0 .. Len(m) /\ (n # Len(m) => n = want[r] - Len(out[r]))
    BY <2>1, <2>2, Least
  <2>. QED
    BY <1>1, <2>1, <2>3
<1>4. /\ out' = [out EXCEPT ![r] = out[r] \o Front(m, n)]
      /\ buffer' = [buffer EXCEPT ![r] = buffer[r] \o Rest(m, n)]
      /\ queue' = Tail(queue)
  BY DEF Fill, KeepRest
<1>. HIDE DEF m, n
<1>5. buffer[r] = <<>>
  BY DEF Placed
<1>6. /\ Front(m, n) \in Seq(Nat) /\ Rest(m, n) \in Seq(Nat)
      /\ Len(Front(m, n)) = n /\ (n = Len(m) => Rest(m, n) = <<>>) /\ Front(m, n) \o Rest(m, n) = m
  BY <1>2, <1>3, Cut
<1>7. <<>> \o Rest(m, n) = Rest(m, n)
  BY <1>6, ConcatEmptySeq
<1>8. /\ out'[r] = out[r] \o Front(m, n) /\ out[r] \o Front(m, n) \in Seq(Nat)
      /\ Len(out'[r]) = Len(out[r]) + n /\ buffer'[r] = Rest(m, n)
  <2>1. out[r] \o Front(m, n) \in Seq(Nat) /\ Len(out[r] \o Front(m, n)) = Len(out[r]) + n
    <3>1. Len(out[r] \o Front(m, n)) = Len(out[r]) + Len(Front(m, n))
      BY <1>1, <1>6, BytesOfConcat, Zenon
    <3>2. out[r] \o Front(m, n) \in Seq(Nat)
      BY <1>1, <1>6, BytesOfConcat, Zenon
    <3>. QED
      BY <1>6, <3>1, <3>2
  <2>2. buffer'[r] = Rest(m, n)
    BY <1>1, <1>4, <1>5, <1>7
  <2>3. out'[r] = out[r] \o Front(m, n)
    <3>. DEFINE o == out[r] \o Front(m, n)
    <3>1. out' = [out EXCEPT ![r] = o]
      BY <1>4
    <3>. HIDE DEF o
    <3>2. out'[r] = o
      BY <1>1, <3>1
    <3>. QED
      BY <3>2 DEF o
  <2>. QED
    BY <2>1, <2>2, <2>3
<1>9. out' \in [Readers -> Seq(Nat)] /\ buffer' \in [Readers -> Seq(Nat)]
      /\ \A q \in Readers \ {r} : out'[q] = out[q] /\ buffer'[q] = buffer[q]
  BY <1>1, <1>4, <1>5, <1>6, <1>7, <1>8
<1>10. Len(out'[r]) < want[r] => buffer'[r] = <<>>
  <2>1. Len(out[r]) \in Nat
    BY <1>1, LenProperties
  <2>. QED
    BY <1>1, <1>3, <1>6, <1>8, <2>1
<1>11. Taken(r)' = Taken(r) \o m
  <2>1. Taken(r)' = (given[r] \o (out[r] \o Front(m, n))) \o Rest(m, n)
    BY <1>8 DEF Taken
  <2>2. Taken(r) = given[r] \o out[r] /\ given[r] \o out[r] \in Seq(Nat)
    BY <1>1, <1>5, ConcatEmptySeq, ConcatProperties DEF Taken
  <2>3. n \in 0 .. Len(m)
    BY <1>3
  <2>4. given[r] \in Seq(Nat) /\ out[r] \in Seq(Nat) /\ m \in Seq(Nat)
    BY <1>1, <1>2
  <2>5. Regroups(given[r], out[r], m, n)
    BY <2>3, <2>4, Regrouped
  <2>. QED
    BY <2>1, <2>2, <2>5 DEF Regroups
<1>12. \A q \in Readers \ {r} : Taken(q)' = Taken(q)
  BY <1>9 DEF Taken
<1>. QED
  BY <1>2, <1>4, <1>9, <1>10, <1>11, <1>12 DEF m

\* A reader that goes, or panics before it received, loses its buffer.
LEMMA BufferThrown ==
    ASSUME TypeOK, Placed, NEW r \in Readers, pc[r] # "more",
           buffer' = [buffer EXCEPT ![r] = <<>>], UNCHANGED <<given, out>>
    PROVE  /\ Taken(r)' \in Seq(Nat) /\ Taken(r) = Taken(r)' \o buffer[r]
           /\ \A q \in Readers \ {r} : Taken(q)' = Taken(q)
           /\ buffer' \in [Readers -> Seq(Nat)] /\ buffer'[r] = <<>>
           /\ \A q \in Readers \ {r} : buffer'[q] = buffer[q]
<1>1. /\ given[r] \in Seq(Nat) /\ buffer[r] \in Seq(Nat) /\ out[r] = <<>>
      /\ buffer \in [Readers -> Seq(Nat)]
  BY DEF TypeOK, Placed
<1>2. /\ buffer' \in [Readers -> Seq(Nat)] /\ buffer'[r] = <<>>
      /\ \A q \in Readers \ {r} : buffer'[q] = buffer[q]
  BY <1>1, EmptySeq
<1>3. Taken(r)' = given[r] /\ Taken(r) = given[r] \o buffer[r]
  BY <1>1, <1>2, ConcatEmptySeq DEF Taken
<1>4. \A q \in Readers \ {r} : Taken(q)' = Taken(q)
  BY <1>2 DEF Taken
<1>. QED
  BY <1>1, <1>2, <1>3, <1>4

\* Every step does one of these.
BytesStep ==
    \/ Kept
    \/ \E n \in Nat : Written(n)
    \/ \E r \in Readers : Moved(r)
    \/ \E r \in Readers : \E s \in Seq(Nat) : Thrown(r, s)
    \/ \E r, copy \in Readers : \E s, t \in Seq(Nat) : Copied(r, copy, s, t)

\* What a reader has depends on nothing else.
LEMMA TakenSame ==
    ASSUME NEW r \in Readers, given'[r] = given[r], out'[r] = out[r], buffer'[r] = buffer[r]
    PROVE  Taken(r)' = Taken(r)
BY DEF Taken

\* The sending side takes no bytes from readers.
LEMMA SendingSteps ==
    ASSUME TypeOK, Placed, NEW w \in Writers,
           DropWriter(w) \/ \E n \in Sizes : Write(w, n)
    PROVE  TypeOK' /\ Placed' /\ BytesStep
<1>1. UNCHANGED <<pc, want, out, buffer, given>> /\ Placed'
      /\ \A q \in Readers : Taken(q)' = Taken(q)
  <2>1. UNCHANGED <<pc, want, out, buffer, given>>
    BY DEF DropWriter, Write, readers, history
  <2>. QED
    BY <2>1, TakenSame DEF Placed
<1>2. CASE DropWriter(w)
  <2>1. senders' \subseteq Writers /\ UNCHANGED <<kind, queue, overrun, sent, lost, copied>>
    BY <1>2 DEF DropWriter, history, TypeOK
  <2>2. Kept
    BY <1>1, <2>1 DEF Kept
  <2>. QED
    BY <1>1, <2>1, <2>2 DEF TypeOK, BytesStep
<1>3. ASSUME NEW n \in Sizes, Write(w, n)
      PROVE  TypeOK' /\ Placed' /\ BytesStep
  <2>1. n \in Nat /\ sent \in Nat /\ queue \in Seq(Seq(Nat))
    BY ChannelAssumption DEF TypeOK
  <2>2. Message(n) \in Seq(Nat)
    BY <2>1, NewMessage
  <2>3. UNCHANGED <<kind, senders, copied>> /\ sent' = sent + n /\ sent' \in Nat
    BY <1>3, <2>1 DEF Write
  <2>4. CASE kind = "broadcast" /\ Len(queue) = Capacity
    <3>1. queue # <<>>
      BY <2>4, ChannelAssumption, EmptySeq
    <3>2. queue' = Append(Tail(queue), Message(n)) /\ overrun' = TRUE
          /\ lost' = lost \union Bytes(Head(queue))
      BY <1>3, <2>4 DEF Write
    <3>3. queue' \in Seq(Seq(Nat))
      BY <2>1, <2>2, <3>1, <3>2, WithoutHead, WithMessage
    <3>4. Written(n)
      BY <1>1, <2>3, <3>1, <3>2 DEF Written
    <3>. QED
      BY <1>1, <2>1, <2>3, <3>2, <3>3, <3>4 DEF TypeOK, BytesStep
  <2>5. CASE ~(kind = "broadcast" /\ Len(queue) = Capacity)
    <3>1. queue' = Append(queue, Message(n)) /\ UNCHANGED <<overrun, lost>>
      BY <1>3, <2>5 DEF Write
    <3>2. queue' \in Seq(Seq(Nat))
      BY <2>1, <2>2, <3>1, WithMessage
    <3>3. Written(n)
      BY <1>1, <2>3, <3>1 DEF Written
    <3>. QED
      BY <1>1, <2>1, <2>3, <3>1, <3>2, <3>3 DEF TypeOK, BytesStep
  <2>. QED
    BY <2>4, <2>5
<1>. QED
  BY <1>2, <1>3

\* A reader takes the message at the head of the channel, or none.
LEMMA ReceivingSteps ==
    ASSUME TypeOK, Placed, NEW r \in Readers,
           Receive(r) \/ TryReceive(r) \/ ReceiveNone(r)
    PROVE  TypeOK' /\ Placed' /\ BytesStep
<1>1. CASE ReceiveNone(r)
  <2>1. /\ UNCHANGED <<kind, queue, sent, senders, want, out, buffer, given, lost, copied>>
        /\ pc[r] = "recv" /\ pc' = [pc EXCEPT ![r] = "idle"] /\ overrun' = FALSE
    BY <1>1 DEF ReceiveNone
  <2>2. Kept
    BY <2>1, TakenSame DEF Kept
  <2>3. pc' \in [Readers -> States] /\ pc'[r] = "idle" /\ \A q \in Readers \ {r} : pc'[q] = pc[q]
    BY <2>1 DEF TypeOK, States
  <2>. QED
    BY <2>1, <2>2, <2>3 DEF TypeOK, Placed, BytesStep, Over
<1>2. ASSUME Receive(r) \/ TryReceive(r)
      PROVE  /\ UNCHANGED <<kind, overrun, sent, senders, want, given, lost, copied>>
             /\ pc[r] \in {"recv", "more"} /\ Len(out[r]) < want[r] /\ queue # <<>> /\ Fill(r)
             /\ pc' \in [Readers -> States] /\ pc'[r] = "more"
             /\ \A q \in Readers \ {r} : pc'[q] = pc[q]
  <2>1. CASE TryReceive(r)
    BY <2>1 DEF TryReceive, history, TypeOK
  <2>2. CASE Receive(r)
    <3>1. /\ UNCHANGED <<kind, overrun, sent, senders, want, given, lost, copied>>
          /\ pc[r] = "recv" /\ queue # <<>> /\ Fill(r) /\ pc' = [pc EXCEPT ![r] = "more"]
      BY <2>2 DEF Receive, history
    <3>2. Len(out[r]) < want[r]
      BY <3>1, EmptySeq DEF Placed, TypeOK
    <3>. QED
      BY <3>1, <3>2 DEF TypeOK, States
  <2>. QED
    BY <1>2, <2>1, <2>2
<1>3. CASE Receive(r) \/ TryReceive(r)
  <2>1. /\ queue' = Tail(queue) /\ queue' \in Seq(Seq(Nat))
        /\ out' \in [Readers -> Seq(Nat)] /\ buffer' \in [Readers -> Seq(Nat)]
        /\ \A q \in Readers \ {r} : out'[q] = out[q] /\ buffer'[q] = buffer[q]
        /\ Len(out'[r]) < want[r] => buffer'[r] = <<>>
        /\ Taken(r)' = Taken(r) \o Head(queue)
        /\ \A q \in Readers \ {r} : Taken(q)' = Taken(q)
    BY <1>2, <1>3, FillEffect
  <2>2. Moved(r)
    BY <1>2, <1>3, <2>1 DEF Moved
  <2>3. TypeOK'
    BY <1>2, <1>3, <2>1 DEF TypeOK
  <2>4. Placed'
    BY <1>2, <1>3, <2>1 DEF Placed, Over
  <2>. QED
    BY <2>2, <2>3, <2>4 DEF BytesStep
<1>. QED
  BY <1>1, <1>3

\* A reader that goes, or panics, loses bytes.
LEMMA LosingSteps ==
    ASSUME TypeOK, Placed, NEW r \in Readers,
           DropReader(r) \/ ReceivePanics(r) \/ \E n \in Wants : LockFails(r, n)
    PROVE  TypeOK' /\ Placed' /\ BytesStep
<1>1. buffer[r] \in Seq(Nat) /\ queue \in Seq(Seq(Nat)) /\ <<>> \in Seq(Seq(Nat))
  BY EmptySeq DEF TypeOK
<1>2. CASE ReceivePanics(r)
  <2>1. /\ UNCHANGED <<kind, overrun, sent, senders, want, out, buffer, given, copied>>
        /\ pc[r] = "recv" /\ queue # <<>> /\ queue' = Tail(queue)
        /\ pc' = [pc EXCEPT ![r] = "panicked"] /\ lost' = lost \union Bytes(Head(queue))
    BY <1>2 DEF ReceivePanics
  <2>2. /\ pc' \in [Readers -> States] /\ pc'[r] = "panicked" /\ \A q \in Readers \ {r} : pc'[q] = pc[q]
        /\ queue' \in Seq(Seq(Nat))
    BY <1>1, <2>1, WithoutHead DEF TypeOK, States
  <2>3. out[r] = <<>> /\ buffer[r] = <<>>
    BY <2>1, EmptySeq DEF Placed, TypeOK
  <2>4. Taken(r) \in Seq(Nat) /\ Taken(r) \o <<>> = Taken(r) /\ <<>> \in Seq(Nat)
    BY TakenTyped, ConcatEmptySeq, EmptySeq
  <2>5. \A q \in Readers : Taken(q)' = Taken(q)
    BY <2>1, TakenSame
  <2>6. Thrown(r, <<>>)
    <3>1. lost' = (lost \union Bytes(<<>>)) \union Bytes(Head(queue))
      BY <2>1, NoBytes
    <3>. QED
      BY <2>1, <2>4, <2>5, <3>1 DEF Thrown
  <2>. QED
    BY <2>1, <2>2, <2>3, <2>4, <2>6 DEF TypeOK, Placed, BytesStep, Over
<1>3. ASSUME NEW n \in Wants, LockFails(r, n)
      PROVE  TypeOK' /\ Placed' /\ BytesStep
  <2>1. /\ UNCHANGED <<kind, queue, overrun, sent, senders, want, out, given, copied>>
        /\ pc[r] = "idle" /\ pc' = [pc EXCEPT ![r] = "panicked"]
        /\ buffer' = [buffer EXCEPT ![r] = <<>>] /\ lost' = lost \union Bytes(buffer[r])
    BY <1>3 DEF LockFails, channel
  <2>2. /\ Taken(r)' \in Seq(Nat) /\ Taken(r) = Taken(r)' \o buffer[r]
        /\ \A q \in Readers \ {r} : Taken(q)' = Taken(q)
        /\ buffer' \in [Readers -> Seq(Nat)] /\ buffer'[r] = <<>>
        /\ \A q \in Readers \ {r} : buffer'[q] = buffer[q]
    BY <2>1, BufferThrown
  <2>3. pc' \in [Readers -> States] /\ pc'[r] = "panicked" /\ \A q \in Readers \ {r} : pc'[q] = pc[q]
    BY <2>1 DEF TypeOK, States
  <2>4. Thrown(r, buffer[r])
    BY <2>1, <2>2 DEF Thrown
  <2>5. TypeOK'
    BY <2>1, <2>2, <2>3 DEF TypeOK
  <2>6. Placed'
    BY <2>1, <2>2, <2>3 DEF Placed, Over
  <2>. QED
    BY <1>1, <2>4, <2>5, <2>6 DEF BytesStep
<1>4. CASE DropReader(r)
  <2>. DEFINE last == \A q \in Readers \ {r} : pc[q] \in Over
  <2>1. /\ UNCHANGED <<kind, overrun, sent, senders, want, out, given, copied>>
        /\ pc[r] = "idle" /\ pc' = [pc EXCEPT ![r] = "dropped"]
        /\ buffer' = [buffer EXCEPT ![r] = <<>>]
        /\ lost' = (lost \union Bytes(buffer[r])) \union (IF last THEN Queued ELSE {})
        /\ queue' = IF last THEN <<>> ELSE queue
    BY <1>4 DEF DropReader
  <2>. HIDE DEF last
  <2>2. /\ Taken(r)' \in Seq(Nat) /\ Taken(r) = Taken(r)' \o buffer[r]
        /\ \A q \in Readers \ {r} : Taken(q)' = Taken(q)
        /\ buffer' \in [Readers -> Seq(Nat)] /\ buffer'[r] = <<>>
        /\ \A q \in Readers \ {r} : buffer'[q] = buffer[q]
    BY <2>1, BufferThrown
  <2>3. pc' \in [Readers -> States] /\ pc'[r] = "dropped" /\ \A q \in Readers \ {r} : pc'[q] = pc[q]
    BY <2>1 DEF TypeOK, States
  <2>4. Thrown(r, buffer[r])
    <3>1. Queued = BytesIn(queue)
      BY DEF Queued, BytesIn
    <3>2. \/ UNCHANGED queue /\ lost' = lost \union Bytes(buffer[r])
          \/ queue' = <<>> /\ lost' = (lost \union Bytes(buffer[r])) \union BytesIn(queue)
      BY <2>1, <3>1
    <3>. QED
      BY <2>1, <2>2, <3>2 DEF Thrown
  <2>5. TypeOK'
    BY <1>1, <2>1, <2>2, <2>3 DEF TypeOK
  <2>6. Placed'
    BY <2>1, <2>2, <2>3 DEF Placed, Over
  <2>. QED
    BY <1>1, <2>4, <2>5, <2>6 DEF BytesStep
<1>. QED
  BY <1>2, <1>3, <1>4

\* A reader moves bytes between its buffer, what it has put out and what it
\* returned, and keeps their order.
LEMMA KeepingSteps ==
    ASSUME TypeOK, Placed, NEW r \in Readers,
           Return(r) \/ \E n \in Wants : ReadBuffered(r, n) \/ Lock(r, n)
    PROVE  TypeOK' /\ Placed' /\ BytesStep
<1>1. /\ given[r] \in Seq(Nat) /\ out[r] \in Seq(Nat) /\ buffer[r] \in Seq(Nat) /\ <<>> \in Seq(Nat)
      /\ given \in [Readers -> Seq(Nat)] /\ out \in [Readers -> Seq(Nat)]
      /\ buffer \in [Readers -> Seq(Nat)]
  BY EmptySeq DEF TypeOK
<1>2. ASSUME NEW n \in Wants, ReadBuffered(r, n)
      PROVE  TypeOK' /\ Placed' /\ BytesStep
  <2>. DEFINE g == given[r] \o Front(buffer[r], n)
              b == Rest(buffer[r], n)
  <2>1. /\ UNCHANGED <<kind, queue, overrun, sent, senders, pc, want, out, lost, copied>>
        /\ pc[r] = "idle" /\ Len(buffer[r]) >= n
        /\ given' = [given EXCEPT ![r] = g] /\ buffer' = [buffer EXCEPT ![r] = b]
    BY <1>2 DEF ReadBuffered, channel
  <2>2. n \in 0 .. Len(buffer[r])
    <3>1. n \in Nat /\ Len(buffer[r]) \in Nat
      BY <1>1, ChannelAssumption, LenProperties
    <3>. QED
      BY <2>1, <3>1
  <2>3. Front(buffer[r], n) \in Seq(Nat) /\ b \in Seq(Nat)
    BY <1>1, <2>2, Cut
  <2>4. g \in Seq(Nat)
    BY <1>1, <2>3, BytesOfConcat
  <2>5. (given[r] \o <<>>) \o buffer[r] = (g \o <<>>) \o b
    <3>1. Halves(given[r], buffer[r], n)
      BY <1>1, <2>2, Rearranged
    <3>. QED
      BY <3>1 DEF Halves
  <2>. HIDE DEF g, b
  <2>6. /\ given' \in [Readers -> Seq(Nat)] /\ buffer' \in [Readers -> Seq(Nat)]
        /\ given'[r] = g /\ buffer'[r] = b
        /\ \A q \in Readers \ {r} : given'[q] = given[q] /\ buffer'[q] = buffer[q]
    BY <1>1, <2>1, <2>3, <2>4
  <2>7. out[r] = <<>>
    BY <2>1 DEF Placed
  <2>8. Taken(r)' = Taken(r)
    BY <2>1, <2>5, <2>6, <2>7 DEF Taken
  <2>9. Kept
    BY <2>1, <2>6, <2>8, TakenSame DEF Kept
  <2>10. TypeOK'
    BY <2>1, <2>6 DEF TypeOK
  <2>11. Placed'
    BY <2>1, <2>6 DEF Placed, Over
  <2>. QED
    BY <2>9, <2>10, <2>11 DEF BytesStep
<1>3. ASSUME NEW n \in Wants, Lock(r, n)
      PROVE  TypeOK' /\ Placed' /\ BytesStep
  <2>1. /\ UNCHANGED <<kind, queue, overrun, sent, senders, given, lost, copied>>
        /\ pc[r] = "idle" /\ Len(buffer[r]) < n
        /\ pc' = [pc EXCEPT ![r] = IF buffer[r] = <<>> THEN "recv" ELSE "more"]
        /\ want' = [want EXCEPT ![r] = n]
        /\ out' = [out EXCEPT ![r] = buffer[r]] /\ buffer' = [buffer EXCEPT ![r] = <<>>]
    BY <1>3 DEF Lock, TakeBuffer, channel, history
  <2>2. n \in Nat /\ n > 0
    BY ChannelAssumption
  <2>3. /\ pc' \in [Readers -> States] /\ pc'[r] = IF buffer[r] = <<>> THEN "recv" ELSE "more"
        /\ want' \in [Readers -> Nat] /\ want'[r] = n
        /\ \A q \in Readers \ {r} : pc'[q] = pc[q] /\ want'[q] = want[q]
    BY <2>1, <2>2 DEF TypeOK, States
  <2>4. /\ out' \in [Readers -> Seq(Nat)] /\ buffer' \in [Readers -> Seq(Nat)]
        /\ out'[r] = buffer[r] /\ buffer'[r] = <<>>
        /\ \A q \in Readers \ {r} : out'[q] = out[q] /\ buffer'[q] = buffer[q]
    BY <1>1, <2>1
  <2>5. (given[r] \o <<>>) \o buffer[r] = (given[r] \o buffer[r]) \o <<>>
    <3>1. Takes(given[r], buffer[r])
      BY <1>1, Rearranged
    <3>. QED
      BY <3>1 DEF Takes
  <2>6. out[r] = <<>>
    BY <2>1 DEF Placed
  <2>7. Taken(r)' = Taken(r)
    BY <2>1, <2>4, <2>5, <2>6 DEF Taken
  <2>8. Kept
    BY <2>1, <2>4, <2>7, TakenSame DEF Kept
  <2>9. TypeOK'
    BY <2>1, <2>3, <2>4 DEF TypeOK
  <2>10. Placed'
    BY <2>1, <2>2, <2>3, <2>4 DEF Placed, Over
  <2>. QED
    BY <2>8, <2>9, <2>10 DEF BytesStep
<1>4. CASE Return(r)
  <2>. DEFINE g == given[r] \o out[r]
  <2>1. /\ UNCHANGED <<kind, queue, sent, senders, want, buffer, lost, copied>>
        /\ pc[r] = "more" /\ overrun' \in BOOLEAN
        /\ pc' = [pc EXCEPT ![r] = "idle"]
        /\ given' = [given EXCEPT ![r] = g] /\ out' = [out EXCEPT ![r] = <<>>]
    BY <1>4 DEF Return, TypeOK
  <2>2. g \in Seq(Nat)
    BY <1>1, BytesOfConcat
  <2>3. (g \o <<>>) \o buffer[r] = g \o buffer[r]
    <3>1. Returns(given[r], out[r], buffer[r])
      BY <1>1, Rearranged
    <3>. QED
      BY <3>1 DEF Returns
  <2>4. Taken(r) = g \o buffer[r]
    BY DEF Taken
  <2>. HIDE DEF g
  <2>5. /\ given' \in [Readers -> Seq(Nat)] /\ out' \in [Readers -> Seq(Nat)]
        /\ given'[r] = g /\ out'[r] = <<>>
        /\ \A q \in Readers \ {r} : given'[q] = given[q] /\ out'[q] = out[q]
    BY <1>1, <2>1, <2>2
  <2>6. pc' \in [Readers -> States] /\ pc'[r] = "idle" /\ \A q \in Readers \ {r} : pc'[q] = pc[q]
    BY <2>1 DEF TypeOK, States
  <2>7. Taken(r)' = Taken(r)
    BY <2>1, <2>3, <2>4, <2>5 DEF Taken
  <2>8. Kept
    BY <2>1, <2>5, <2>7, TakenSame DEF Kept
  <2>9. TypeOK'
    BY <2>1, <2>5, <2>6 DEF TypeOK
  <2>10. Placed'
    BY <2>1, <2>5, <2>6 DEF Placed, Over
  <2>. QED
    BY <2>8, <2>9, <2>10 DEF BytesStep
<1>. QED
  BY <1>2, <1>3, <1>4

\* A clone has a copy of the buffer.
LEMMA CloningSteps ==
    ASSUME TypeOK, Placed, NEW r \in Readers, NEW copy \in Readers, Clone(r, copy)
    PROVE  TypeOK' /\ Placed' /\ BytesStep
<1>1. /\ UNCHANGED <<kind, queue, overrun, sent, senders, want, out, given, lost>>
      /\ pc[r] = "idle" /\ pc[copy] = "unborn" /\ pc' = [pc EXCEPT ![copy] = "idle"]
      /\ buffer' = [buffer EXCEPT ![copy] = buffer[r]]
      /\ copied' = copied \union Bytes(buffer[r])
  BY DEF Clone, channel
<1>2. /\ given[r] \in Seq(Nat) /\ buffer[r] \in Seq(Nat) /\ buffer \in [Readers -> Seq(Nat)]
      /\ out[r] = <<>> /\ out[copy] = <<>> /\ given[copy] = <<>> /\ buffer[copy] = <<>>
  BY <1>1 DEF TypeOK, Placed, Over
<1>3. /\ pc' \in [Readers -> States] /\ pc'[copy] = "idle"
      /\ \A q \in Readers \ {copy} : pc'[q] = pc[q]
  BY <1>1 DEF TypeOK, States
<1>4. /\ buffer' \in [Readers -> Seq(Nat)] /\ buffer'[copy] = buffer[r]
      /\ \A q \in Readers \ {copy} : buffer'[q] = buffer[q]
  BY <1>1, <1>2
<1>5. Taken(copy)' = buffer[r] /\ Taken(copy) = <<>>
  <2>1. Begins(buffer[r]) /\ Begins(<<>>)
    BY <1>2, Rearranged, EmptySeq
  <2>. QED
    BY <1>1, <1>2, <1>4, <2>1 DEF Taken, Begins
<1>6. Taken(r) = given[r] \o buffer[r]
  BY <1>2, ConcatEmptySeq DEF Taken
<1>7. \A q \in Readers \ {copy} : Taken(q)' = Taken(q)
  BY <1>1, <1>4, TakenSame
<1>8. Copied(r, copy, buffer[r], given[r])
  BY <1>1, <1>5, <1>6, <1>7 DEF Copied
<1>9. TypeOK'
  BY <1>1, <1>3, <1>4 DEF TypeOK
<1>10. Placed'
  BY <1>1, <1>2, <1>3, <1>4 DEF Placed, Over
<1>. QED
  BY <1>2, <1>8, <1>9, <1>10 DEF BytesStep

\* Every step keeps the types and does one of these to the bytes.
LEMMA StepBytes == TypeOK /\ Placed /\ [Next]_vars => TypeOK' /\ Placed' /\ BytesStep
<1>. SUFFICES ASSUME TypeOK, Placed, [Next]_vars PROVE TypeOK' /\ Placed' /\ BytesStep
  OBVIOUS
<1>1. CASE UNCHANGED vars
  <2>1. UNCHANGED <<kind, queue, overrun, sent, senders, pc, want, out, buffer, given, lost, copied>>
    BY <1>1 DEF vars, channel, readers, history
  <2>2. Kept
    BY <2>1, TakenSame DEF Kept
  <2>. QED
    BY <2>1, <2>2 DEF TypeOK, Placed, BytesStep
<1>. QED
  BY <1>1, SendingSteps, ReceivingSteps, LosingSteps, KeepingSteps, CloningSteps DEF Next
-----------------------------------------------------------------------------
(* What each of these does to the order of the bytes.                        *)

\* A message that is written comes after all bytes there are.
LEMMA WrittenSound ==
    ASSUME TypeOK, TypeOK', Sound, NEW n \in Nat, Written(n)
    PROVE  Sound'
<1>1. /\ sent \in Nat /\ queue \in Seq(Seq(Nat)) /\ sent' = sent + n /\ copied' = copied
      /\ \A q \in Readers : Taken(q)' = Taken(q)
  BY DEF TypeOK, Written
<1>2. Message(n) \in Seq(Nat) /\ Increasing(Message(n)) /\ Bytes(Message(n)) = sent + 1 .. sent + n
  BY <1>1, NewMessage
<1>3. \A x \in 1 .. sent, y \in sent + 1 .. sent + n : x < y
  BY <1>1
<1>4. \A x : x \in 1 .. sent' <=> x \in 1 .. sent \/ x \in Bytes(Message(n))
  BY <1>1, <1>2
<1>5. /\ \A x \in BytesIn(queue) : x \in 1 .. sent
      /\ \A x \in lost : x \in 1 .. sent
      /\ \A r \in Readers : \A x \in Bytes(Taken(r)) : x \in 1 .. sent
  BY DEF Sound
<1>6. ASSUME NEW q \in Seq(Seq(Nat)), InSequence(q), BytesIn(q) \subseteq BytesIn(queue),
             queue' = Append(q, Message(n)),
             \A x : x \in lost' <=> x \in lost \/ (x \in BytesIn(queue) /\ x \notin BytesIn(q))
      PROVE  Sound'
  <2>1. /\ BytesIn(queue') = BytesIn(q) \union Bytes(Message(n))
        /\ InSequence(queue')
    BY <1>2, <1>3, <1>5, <1>6, WithMessage
  <2>2. \A r \in Readers : Increasing(Taken(r)')
    BY <1>1 DEF Sound
  <2>3. \A r \in Readers : \A x \in Bytes(Taken(r)'), y \in BytesIn(queue') : x < y
    BY <1>1, <1>2, <1>3, <1>5, <1>6, <2>1 DEF Sound
  <2>4. \A x : x \in 1 .. sent' <=>
            x \in lost' \/ x \in BytesIn(queue') \/ \E r \in Readers : x \in Bytes(Taken(r)')
    BY <1>1, <1>4, <1>6, <2>1 DEF Sound
  <2>5. \A q1, r \in Readers : q1 # r =>
            \A x \in Bytes(Taken(q1)') : x \in Bytes(Taken(r)') => x \in copied'
    BY <1>1 DEF Sound
  <2>6. \A x \in lost' : x \notin BytesIn(queue')
    <3>1. \A x \in 1 .. sent : x \notin Bytes(Message(n))
      BY <1>1, <1>2
    <3>. QED
      BY <1>5, <1>6, <2>1, <3>1 DEF Sound
  <2>. QED
    BY <2>1, <2>2, <2>3, <2>4, <2>5, <2>6 DEF Sound
<1>7. CASE queue' = Append(queue, Message(n)) /\ lost' = lost
  BY <1>1, <1>6, <1>7 DEF Sound
<1>8. CASE /\ queue # <<>> /\ queue' = Append(Tail(queue), Message(n))
           /\ lost' = lost \union Bytes(Head(queue))
  <2>1. /\ Tail(queue) \in Seq(Seq(Nat))
        /\ BytesIn(queue) = Bytes(Head(queue)) \union BytesIn(Tail(queue))
        /\ InSequence(Tail(queue))
        /\ \A x \in Bytes(Head(queue)), y \in BytesIn(Tail(queue)) : x < y
    BY <1>1, <1>8, WithoutHead DEF Sound
  <2>2. \A x \in Bytes(Head(queue)) : x \notin BytesIn(Tail(queue))
    <3>1. \A x \in BytesIn(queue) : x \in Int
      BY <1>5
    <3>. QED
      BY <2>1, <3>1
  <2>. QED
    BY <1>6, <1>8, <2>1, <2>2
<1>. QED
  BY <1>7, <1>8 DEF Written

\* The message at the head of the channel follows what a reader has.
LEMMA MovedSound ==
    ASSUME TypeOK, TypeOK', Sound, NEW r \in Readers, Moved(r)
    PROVE  Sound'
<1>1. /\ queue \in Seq(Seq(Nat)) /\ Taken(r) \in Seq(Nat) /\ queue # <<>> /\ queue' = Tail(queue)
      /\ Taken(r)' = Taken(r) \o Head(queue) /\ \A q \in Readers \ {r} : Taken(q)' = Taken(q)
      /\ sent' = sent /\ lost' = lost /\ copied' = copied
  BY TakenTyped DEF TypeOK, Moved
<1>2. /\ Head(queue) \in Seq(Nat)
      /\ BytesIn(queue) = Bytes(Head(queue)) \union BytesIn(queue')
      /\ InSequence(queue') /\ Increasing(Head(queue))
      /\ \A x \in Bytes(Head(queue)), y \in BytesIn(queue') : x < y
  BY <1>1, WithoutHead DEF Sound
<1>3. /\ Increasing(Taken(r)) /\ \A x \in Bytes(Taken(r)), y \in Bytes(Head(queue)) : x < y
      /\ \A q \in Readers : \A x \in Bytes(Taken(q)), y \in BytesIn(queue) : x < y
  BY <1>2 DEF Sound
<1>4. Bytes(Taken(r)') = Bytes(Taken(r)) \union Bytes(Head(queue)) /\ Increasing(Taken(r)')
  BY <1>1, <1>2, <1>3, BytesOfConcat
<1>5. \A q \in Readers : Increasing(Taken(q)')
  BY <1>1, <1>4 DEF Sound
<1>6. \A q \in Readers : \A x \in Bytes(Taken(q)'), y \in BytesIn(queue') : x < y
  BY <1>1, <1>2, <1>3, <1>4
<1>7. \A x : x \in 1 .. sent' <=>
          x \in lost' \/ x \in BytesIn(queue') \/ \E q \in Readers : x \in Bytes(Taken(q)')
  BY <1>1, <1>2, <1>4 DEF Sound
<1>8. \A q \in Readers : \A x \in Bytes(Taken(q)) : x \notin Bytes(Head(queue))
  <2>1. \A x \in BytesIn(queue) : x \in Int
    BY DEF Sound
  <2>. QED
    BY <1>2, <1>3, <2>1
<1>9. \A p, q \in Readers : p # q =>
          \A x \in Bytes(Taken(p)') : x \in Bytes(Taken(q)') => x \in copied'
  BY <1>1, <1>4, <1>8 DEF Sound
<1>10. \A x \in lost' : x \notin BytesIn(queue')
  BY <1>1, <1>2 DEF Sound
<1>. QED
  BY <1>2, <1>5, <1>6, <1>7, <1>9, <1>10 DEF Sound

\* What is lost is before what remains in the channel.
LEMMA ThrownSound ==
    ASSUME TypeOK, TypeOK', Sound, NEW r \in Readers, NEW s \in Seq(Nat), Thrown(r, s)
    PROVE  Sound'
<1>1. /\ queue \in Seq(Seq(Nat)) /\ sent' = sent /\ copied' = copied
      /\ Taken(r)' \in Seq(Nat) /\ Taken(r) = Taken(r)' \o s
      /\ \A q \in Readers \ {r} : Taken(q)' = Taken(q)
  BY DEF TypeOK, Thrown
<1>2. /\ Bytes(Taken(r)) = Bytes(Taken(r)') \union Bytes(s)
      /\ Increasing(Taken(r)) => Increasing(Taken(r)')
  BY <1>1, BytesOfConcat
<1>3. \A q \in Readers : Increasing(Taken(q)')
  BY <1>1, <1>2 DEF Sound
<1>4. \A q \in Readers : Bytes(Taken(q)') \subseteq Bytes(Taken(q))
  BY <1>1, <1>2
<1>5. /\ InSequence(queue') /\ BytesIn(queue') \subseteq BytesIn(queue)
      /\ \A x : x \in lost' <=>
            x \in lost \/ x \in Bytes(s) \/ (x \in BytesIn(queue) /\ x \notin BytesIn(queue'))
  <2>1. CASE queue' = queue /\ lost' = lost \union Bytes(s)
    BY <2>1 DEF Sound
  <2>2. CASE queue # <<>> /\ queue' = Tail(queue) /\ lost' = (lost \union Bytes(s)) \union Bytes(Head(queue))
    <3>1. /\ BytesIn(queue) = Bytes(Head(queue)) \union BytesIn(queue') /\ InSequence(queue')
          /\ \A x \in Bytes(Head(queue)), y \in BytesIn(queue') : x < y
      BY <1>1, <2>2, WithoutHead DEF Sound
    <3>2. \A x \in BytesIn(queue) : x \in Int
      BY DEF Sound
    <3>3. \A x \in Bytes(Head(queue)) : x \notin BytesIn(queue')
      BY <3>1, <3>2
    <3>. QED
      BY <2>2, <3>1, <3>3
  <2>3. CASE queue' = <<>> /\ lost' = (lost \union Bytes(s)) \union BytesIn(queue)
    BY <2>3, NoBytes
  <2>. QED
    BY <2>1, <2>2, <2>3 DEF Thrown
<1>6. \A q \in Readers : \A x \in Bytes(Taken(q)'), y \in BytesIn(queue') : x < y
  BY <1>4, <1>5 DEF Sound
<1>7. \A x : x \in 1 .. sent' <=>
          x \in lost' \/ x \in BytesIn(queue') \/ \E q \in Readers : x \in Bytes(Taken(q)')
  BY <1>1, <1>2, <1>5 DEF Sound
<1>8. \A p, q \in Readers : p # q =>
          \A x \in Bytes(Taken(p)') : x \in Bytes(Taken(q)') => x \in copied'
  BY <1>1, <1>4 DEF Sound
<1>9. \A x \in lost' : x \notin BytesIn(queue')
  <2>1. \A x \in BytesIn(queue) : x \in Int
    BY DEF Sound
  <2>2. \A x \in Bytes(s) : x \notin BytesIn(queue)
    BY <1>2, <2>1 DEF Sound
  <2>. QED
    BY <1>5, <2>2 DEF Sound
<1>. QED
  BY <1>3, <1>5, <1>6, <1>7, <1>8, <1>9 DEF Sound

\* The bytes that a clone copies are known to be copied.
LEMMA CopiedSound ==
    ASSUME TypeOK, TypeOK', Sound, NEW r \in Readers, NEW copy \in Readers,
           NEW s \in Seq(Nat), NEW t \in Seq(Nat), Copied(r, copy, s, t)
    PROVE  Sound'
<1>1. /\ r # copy /\ queue' = queue /\ sent' = sent /\ lost' = lost
      /\ Taken(r) = t \o s /\ Taken(copy) = <<>> /\ Taken(copy)' = s
      /\ \A q \in Readers \ {copy} : Taken(q)' = Taken(q)
      /\ copied' = copied \union Bytes(s)
  BY DEF Copied
<1>2. /\ Bytes(Taken(r)) = Bytes(t) \union Bytes(s)
      /\ Increasing(Taken(r)) => Increasing(s)
      /\ Bytes(Taken(copy)) = {}
  BY <1>1, BytesOfConcat, NoBytes
<1>3. \A q \in Readers : Increasing(Taken(q)')
  BY <1>1, <1>2 DEF Sound
<1>4. \A q \in Readers : \A x \in Bytes(Taken(q)'), y \in BytesIn(queue') : x < y
  BY <1>1, <1>2 DEF Sound
<1>5. \A x : x \in 1 .. sent' <=>
          x \in lost' \/ x \in BytesIn(queue') \/ \E q \in Readers : x \in Bytes(Taken(q)')
  <2>1. \A x : (\E q \in Readers : x \in Bytes(Taken(q)')) <=> \E q \in Readers : x \in Bytes(Taken(q))
    BY <1>1, <1>2
  <2>. QED
    BY <1>1, <2>1 DEF Sound
<1>6. \A p, q \in Readers : p # q =>
          \A x \in Bytes(Taken(p)') : x \in Bytes(Taken(q)') => x \in copied'
  BY <1>1 DEF Sound
<1>. QED
  BY <1>1, <1>3, <1>4, <1>5, <1>6 DEF Sound

\* Every step keeps the bytes sound.
LEMMA StepSound == TypeOK /\ Placed /\ Sound /\ [Next]_vars => Sound'
<1>. SUFFICES ASSUME TypeOK, Placed, Sound, [Next]_vars PROVE Sound'
  OBVIOUS
<1>1. TypeOK' /\ BytesStep
  BY StepBytes
<1>2. CASE Kept
  BY <1>2 DEF Kept, Sound
<1>. QED
  BY <1>1, <1>2, WrittenSound, MovedSound, ThrownSound, CopiedSound DEF BytesStep

\* Nobody writes once the writers are gone, and only a broadcast is overrun.
LEMMA StepEnd == TypeOK /\ EndKnown /\ [Next]_vars => EndKnown'
<1>. SUFFICES ASSUME TypeOK, EndKnown, [Next]_vars PROVE EndKnown'
  OBVIOUS
<1>. USE DEF EndKnown, EofIsEnd, Exhausted
<1>1. ASSUME NEW w \in Writers, NEW n \in Sizes, Write(w, n) PROVE EndKnown'
  BY <1>1 DEF Write, history
<1>2. ASSUME NEW w \in Writers, DropWriter(w) PROVE EndKnown'
  BY <1>2 DEF DropWriter, history
<1>3. ASSUME NEW r \in Readers,
             Receive(r) \/ TryReceive(r) \/ ReceivePanics(r) \/ Return(r) \/ DropReader(r)
      PROVE  EndKnown'
  <2>1. ended' = ended /\ kind' = kind /\ senders' = senders /\ (overrun' = overrun \/ overrun' = FALSE)
    BY <1>3 DEF Receive, TryReceive, ReceivePanics, Return, DropReader, history
  <2>2. queue = <<>> => queue' = <<>>
    BY <1>3 DEF Receive, TryReceive, ReceivePanics, Return, DropReader
  <2>. QED
    BY <2>1, <2>2
<1>4. ASSUME NEW r \in Readers, ReceiveNone(r) PROVE EndKnown'
  BY <1>4 DEF ReceiveNone
<1>5. ASSUME NEW r \in Readers, NEW n \in Wants, ReadBuffered(r, n) \/ Lock(r, n) \/ LockFails(r, n)
      PROVE  EndKnown'
  <2>1. UNCHANGED <<kind, queue, overrun, senders, ended>>
    BY <1>5 DEF ReadBuffered, Lock, LockFails, channel, history
  <2>. QED
    BY <2>1
<1>6. ASSUME NEW r \in Readers, NEW copy \in Readers, Clone(r, copy) PROVE EndKnown'
  BY <1>6 DEF Clone, channel
<1>7. CASE UNCHANGED vars
  BY <1>7 DEF vars, channel, history
<1>. QED
  BY <1>1, <1>2, <1>3, <1>4, <1>5, <1>6, <1>7 DEF Next
-----------------------------------------------------------------------------
\* Nothing has been sent at first, and one reader is there.
LEMMA InitInv == Init => ChannelInv
<1>. SUFFICES ASSUME Init PROVE ChannelInv
  OBVIOUS
<1>1. <<>> \in Seq(Nat) /\ <<>> \in Seq(Seq(Nat))
  BY EmptySeq
<1>2. TypeOK
  BY <1>1, ChannelAssumption DEF Init, TypeOK, States
<1>3. Placed
  BY DEF Init, Placed
<1>4. \A r \in Readers : Taken(r) = <<>>
  <2>1. Begins(<<>>)
    BY <1>1, Rearranged
  <2>2. \A r \in Readers : given[r] = <<>> /\ out[r] = <<>> /\ buffer[r] = <<>>
    BY DEF Init
  <2>. QED
    BY <2>1, <2>2 DEF Taken, Begins
<1>5. Sound
  <2>1. 1 .. sent = {} /\ lost = {} /\ queue = <<>>
    BY DEF Init
  <2>. QED
    BY <1>4, <2>1, NoBytes DEF Sound
<1>6. EndKnown
  <2>1. ended = {} /\ overrun = FALSE
    BY DEF Init
  <2>. QED
    BY <2>1 DEF EndKnown, EofIsEnd
<1>. QED
  BY <1>2, <1>3, <1>5, <1>6 DEF ChannelInv

\* Every reachable state satisfies the invariant.
LEMMA Reachable == Spec => []ChannelInv
<1>1. ChannelInv /\ [Next]_vars => ChannelInv'
  BY StepBytes, StepSound, StepEnd DEF ChannelInv
<1>. QED
  BY <1>1, InitInv, PTL DEF Spec

(* Channel, readers and bytes keep their types, for any kinds and sizes.     *)
THEOREM ChannelTypes == Spec => []TypeOK
<1>1. ChannelInv => TypeOK
  BY DEF ChannelInv
<1>. QED
  BY <1>1, Reachable, PTL

(* What a reader gets is in the order of the writes, for any number of       *)
(* readers, and whatever the sizes of messages and reads.                    *)
THEOREM ChannelInOrder == Spec => []InOrder
<1>1. ChannelInv => InOrder
  <2>1. Queued = BytesIn(queue)
    BY DEF Queued, BytesIn
  <2>. QED
    BY <2>1 DEF ChannelInv, Sound, InOrder, InSequence
<1>. QED
  BY <1>1, Reachable, PTL

(* No byte is lost but the ones overrun, dropped or in a panic, and only     *)
(* the bytes that a clone copied are with two readers.                       *)
THEOREM ChannelNothingLost == Spec => []NothingLost
<1>1. ChannelInv => NothingLost
  <2>. SUFFICES ASSUME Sound PROVE NothingLost
    BY DEF ChannelInv
  <2>1. Queued = BytesIn(queue)
    BY DEF Queued, BytesIn
  <2>2. 1 .. sent = lost \union Queued \union UNION {Bytes(Taken(r)) : r \in Readers}
    <3>1. \A x : x \in UNION {Bytes(Taken(r)) : r \in Readers} <=> \E r \in Readers : x \in Bytes(Taken(r))
      OBVIOUS
    <3>. QED
      BY <2>1, <3>1 DEF Sound
  <2>3. \A q, r \in Readers : q # r => Bytes(Taken(q)) \intersect Bytes(Taken(r)) \subseteq copied
    BY DEF Sound
  <2>4. lost \intersect Queued = {}
    BY <2>1 DEF Sound
  <2>. QED
    BY <2>2, <2>3, <2>4 DEF NothingLost
<1>. QED
  BY <1>1, Reachable, PTL

(* A read of 0 of a channel that is not a broadcast means that all writers   *)
(* are gone and nothing they wrote is left.                                  *)
THEOREM ChannelEofIsEnd == Spec => []EofIsEnd
<1>1. ChannelInv => EofIsEnd
  BY DEF ChannelInv, EndKnown
<1>. QED
  BY <1>1, Reachable, PTL
=============================================================================
