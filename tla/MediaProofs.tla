---------------------------- MODULE MediaProofs ----------------------------
(***************************************************************************)
(* Theorems about the media formats: what Traf::optimize keeps, for any    *)
(* samples, and from it what a fragment of the transmuxer says, for any    *)
(* streams; what is read through an EmulationPreventionIo, whatever was    *)
(* written; where a BitReader is, wherever it was moved, that what it      *)
(* returns are the bits a BitWriter wrote there, and that the symbols it   *)
(* reads are those that were written.                                      *)
(***************************************************************************)
EXTENDS Transmuxer, BitStream, FiniteSetTheorems, SequenceTheorems,
        WellFoundedInduction, TLAPS

\* fragments with fields of any values V
Samples(V) == Seq([duration : V, size : V, flags : V, cto : V])
TfhdFields == DefaultFields \union {"desc"}
TrunFields == SampleFields \union {"offset", "first"}
Tfhds(V)   == [has : SUBSET TfhdFields, desc : V, duration : V, size : V, flags : V]
Truns(V)   == [has : SUBSET TrunFields, version : {0, 1}, offset : V, first : V,
               samples : Samples(V)]
Trafs(V)   == [tfhd : Tfhds(V), trun : Truns(V), tfdt : Nat]

\* a field is in all samples or in none
Even(s) == \A i, j \in DOMAIN s, f \in SampleFields : s[i][f] # None <=> s[j][f] # None

\* what a fragment says of sample i by its fields, whatever its flags are
Says(traf, i, f) ==
    IF traf.trun.samples[i][f] # None
    THEN traf.trun.samples[i][f]
    ELSE IF f = "cto"
    THEN 0
    ELSE IF f = "flags" /\ i = 1 /\ traf.trun.first # None
    THEN traf.trun.first
    ELSE traf.tfhd[f]

\* u is t, for who reads its fields
SaysTheSame(t, u) ==
    /\ Len(u.trun.samples) = Len(t.trun.samples)
    /\ \A i \in DOMAIN t.trun.samples, f \in SampleFields : Says(u, i, f) = Says(t, i, f)
    /\ u.tfhd.desc = t.tfhd.desc /\ u.trun.offset = t.trun.offset
    /\ u.trun.version = t.trun.version /\ u.tfdt = t.tfdt

\* The fields of samples have their values.
LEMMA SampleTyped ==
    ASSUME NEW V, NEW s \in Samples(V), NEW i \in DOMAIN s
    PROVE  s[i] \in [duration : V, size : V, flags : V, cto : V]
<1> DEFINE R == [duration : V, size : V, flags : V, cto : V]
<1>1. s \in Seq(R)
    BY DEF Samples
<1> HIDE DEF R
<1>2. s[i] \in R
    BY <1>1
<1> QED BY <1>2 DEF R

\* A field may be dropped from all samples.
LEMMA WithoutType ==
    ASSUME NEW V, None \in V, NEW s \in Samples(V), NEW f \in SampleFields
    PROVE  /\ Without(s, f) \in Samples(V)
           /\ Len(Without(s, f)) = Len(s) /\ DOMAIN Without(s, f) = DOMAIN s
           /\ \A i \in DOMAIN s, g \in SampleFields :
                Without(s, f)[i][g] = IF g = f THEN None ELSE s[i][g]
           /\ Even(s) => Even(Without(s, f))
<1> DEFINE R == [duration : V, size : V, flags : V, cto : V]
<1>1. s \in Seq(R) /\ DOMAIN s = 1 .. Len(s) /\ Len(s) \in Nat
    BY DEF Samples
<1> HIDE DEF R
<1>2. \A i \in DOMAIN s : s[i] \in R
    BY <1>1
<1>3. \A r \in R : [r EXCEPT ![f] = None] \in R
  <2>1. f = "duration" \/ f = "size" \/ f = "flags" \/ f = "cto" BY DEF SampleFields
  <2> QED BY <2>1 DEF R
<1>4. \A r \in R, g \in SampleFields : [r EXCEPT ![f] = None][g] = IF g = f THEN None ELSE r[g]
    BY DEF R, SampleFields
<1>5. Without(s, f) = [i \in 1 .. Len(s) |-> [s[i] EXCEPT ![f] = None]]
    BY <1>1 DEF Without
<1>6. Without(s, f) \in Seq(R) /\ Len(Without(s, f)) = Len(s)
    BY <1>1, <1>2, <1>3, <1>5
<1>7. \A i \in DOMAIN s, g \in SampleFields :
        Without(s, f)[i][g] = IF g = f THEN None ELSE s[i][g]
    BY <1>1, <1>2, <1>4, <1>5
<1>8. DOMAIN Without(s, f) = DOMAIN s
    BY <1>1, <1>5
<1>9. Even(s) => Even(Without(s, f))
    BY <1>7, <1>8 DEF Even
<1> QED BY <1>6, <1>7, <1>8, <1>9 DEF R, Samples

\* The first step of optimize, on a trun without first_sample_flags.
LEMMA FlagsKept ==
    ASSUME NEW V, None \in V, NEW t \in Trafs(V), Even(t.trun.samples), t.trun.first = None
    PROVE  /\ OptimizeFlags(t) \in Trafs(V)
           /\ Even(OptimizeFlags(t).trun.samples)
           /\ SaysTheSame(t, OptimizeFlags(t))
<1> DEFINE s == t.trun.samples
           u == OptimizeFlags(t)
<1>1. CASE ~(t.tfhd.flags = None /\ Len(s) > 1 /\ Alike(s, "flags", 2))
    BY <1>1 DEF OptimizeFlags, SaysTheSame
<1>2. CASE t.tfhd.flags = None /\ Len(s) > 1 /\ Alike(s, "flags", 2)
  <2>1. s \in Samples(V) /\ DOMAIN s = 1 .. Len(s) /\ Len(s) \in Nat
    <3>1. t.trun \in Truns(V) BY DEF Trafs
    <3>2. s \in Samples(V) BY <3>1 DEF Truns
    <3> QED BY <3>2 DEF Samples
  <2>2. s[1].flags \in V /\ s[2].flags \in V
    <3>1. 1 \in DOMAIN s /\ 2 \in DOMAIN s BY <2>1, <1>2
    <3> QED BY <2>1, <3>1, SampleTyped
  <2>3. /\ Without(s, "flags") \in Samples(V)
        /\ Len(Without(s, "flags")) = Len(s) /\ DOMAIN Without(s, "flags") = DOMAIN s
        /\ \A i \in DOMAIN s, g \in SampleFields :
             Without(s, "flags")[i][g] = IF g = "flags" THEN None ELSE s[i][g]
        /\ Even(Without(s, "flags"))
    <3>1. "flags" \in SampleFields BY DEF SampleFields
    <3> QED BY <2>1, <3>1, WithoutType
  <2>4. FirstFlags(t.trun) \in V
    BY <2>2 DEF FirstFlags, Trafs, Truns
  <2>5. u = [t EXCEPT !.tfhd.flags = s[2].flags, !.trun.first = FirstFlags(t.trun),
                      !.trun.samples = Without(s, "flags")]
    BY <1>2 DEF OptimizeFlags
  <2>6. /\ u.trun = [t.trun EXCEPT !.first = FirstFlags(t.trun), !.samples = Without(s, "flags")]
        /\ u.tfhd = [t.tfhd EXCEPT !.flags = s[2].flags]
        /\ u.tfdt = t.tfdt
    BY <2>5 DEF Trafs, Truns, Tfhds
  <2>7. u \in Trafs(V)
    <3>1. u.trun \in Truns(V) BY <2>6, <2>3, <2>4 DEF Trafs, Truns
    <3>2. u.tfhd \in Tfhds(V) BY <2>6, <2>2 DEF Trafs, Tfhds
    <3> QED BY <2>5, <3>1, <3>2 DEF Trafs
  <2>8. /\ u.trun.samples = Without(s, "flags") /\ u.trun.first = FirstFlags(t.trun)
        /\ u.trun.version = t.trun.version /\ u.trun.offset = t.trun.offset
        /\ u.tfhd.flags = s[2].flags /\ u.tfhd.desc = t.tfhd.desc
        /\ u.tfhd.duration = t.tfhd.duration /\ u.tfhd.size = t.tfhd.size
    BY <2>6 DEF Trafs, Truns, Tfhds
  <2>9. ASSUME NEW i \in DOMAIN s, NEW f \in SampleFields
        PROVE  Says(u, i, f) = Says(t, i, f)
    <3>1. CASE f # "flags"
      <4>1. u.trun.samples[i][f] = s[i][f] BY <2>3, <2>8, <3>1
      <4> QED BY <4>1, <2>8, <3>1 DEF Says, SampleFields
    <3>2. CASE f = "flags"
      <4>1. u.trun.samples[i].flags = None BY <2>3, <2>8 DEF SampleFields
      <4>2. i > 1 => s[i].flags = s[2].flags BY <1>2, <2>1 DEF Alike
      <4>3. s[1].flags # None <=> s[i].flags # None BY <1>2, <2>1 DEF Even, SampleFields
      <4>4. s[1].flags # None <=> s[2].flags # None BY <1>2, <2>1 DEF Even, SampleFields
      <4>5. Says(u, i, f) = IF i = 1 /\ FirstFlags(t.trun) # None THEN FirstFlags(t.trun) ELSE s[2].flags
        BY <4>1, <2>8, <3>2 DEF Says
      <4>6. Says(t, i, f) = s[i].flags
        BY <1>2, <3>2 DEF Says
      <4>7. CASE i = 1 BY <4>4, <4>5, <4>6, <4>7 DEF FirstFlags
      <4>8. CASE i # 1 BY <4>2, <4>5, <4>6, <4>8, <2>1
      <4> QED BY <4>7, <4>8
    <3> QED BY <3>1, <3>2
  <2> QED BY <2>3, <2>6, <2>7, <2>8, <2>9 DEF SaysTheSame
<1> QED BY <1>1, <1>2

\* The second step.
LEMMA CtoKept ==
    ASSUME NEW V, None \in V, NEW t \in Trafs(V), Even(t.trun.samples)
    PROVE  /\ OptimizeCto(t) \in Trafs(V)
           /\ Even(OptimizeCto(t).trun.samples)
           /\ SaysTheSame(t, OptimizeCto(t))
<1> DEFINE s == t.trun.samples
           u == OptimizeCto(t)
<1>1. CASE ~(\A i \in DOMAIN s : s[i].cto = 0)
    BY <1>1 DEF OptimizeCto, SaysTheSame
<1>2. CASE \A i \in DOMAIN s : s[i].cto = 0
  <2>1. s \in Samples(V)
    <3>1. t.trun \in Truns(V) BY DEF Trafs
    <3> QED BY <3>1 DEF Truns
  <2>2. /\ Without(s, "cto") \in Samples(V)
        /\ Len(Without(s, "cto")) = Len(s) /\ DOMAIN Without(s, "cto") = DOMAIN s
        /\ \A i \in DOMAIN s, g \in SampleFields :
             Without(s, "cto")[i][g] = IF g = "cto" THEN None ELSE s[i][g]
        /\ Even(Without(s, "cto"))
    <3>1. "cto" \in SampleFields BY DEF SampleFields
    <3> QED BY <2>1, <3>1, WithoutType
  <2>3. u = [t EXCEPT !.trun.samples = Without(s, "cto")]
    BY <1>2 DEF OptimizeCto
  <2>4. /\ u.trun = [t.trun EXCEPT !.samples = Without(s, "cto")]
        /\ u.tfhd = t.tfhd /\ u.tfdt = t.tfdt
    BY <2>3 DEF Trafs
  <2>5. u \in Trafs(V)
    <3>1. u.trun \in Truns(V) BY <2>4, <2>2 DEF Trafs, Truns
    <3> QED BY <2>3, <3>1 DEF Trafs
  <2>6. /\ u.trun.samples = Without(s, "cto") /\ u.trun.first = t.trun.first
        /\ u.trun.version = t.trun.version /\ u.trun.offset = t.trun.offset
    BY <2>4 DEF Trafs, Truns
  <2>7. ASSUME NEW i \in DOMAIN s, NEW f \in SampleFields
        PROVE  Says(u, i, f) = Says(t, i, f)
    <3>1. CASE f # "cto"
      <4>1. u.trun.samples[i][f] = s[i][f] BY <2>2, <2>6, <3>1
      <4> QED BY <4>1, <2>4, <2>6, <3>1 DEF Says
    <3>2. CASE f = "cto"
      <4>1. u.trun.samples[i][f] = None BY <2>2, <2>6, <3>2
      <4>2. s[i][f] = 0 BY <1>2, <3>2
      <4> QED BY <4>1, <4>2, <3>2 DEF Says
    <3> QED BY <3>1, <3>2
  <2> QED BY <2>2, <2>4, <2>5, <2>6, <2>7 DEF SaysTheSame
<1> QED BY <1>1, <1>2

\* The last two steps.
LEMMA FieldKept ==
    ASSUME NEW V, None \in V, NEW t \in Trafs(V), t.trun.samples # <<>>, Even(t.trun.samples),
           NEW f \in {"duration", "size"}
    PROVE  /\ OptimizeField(t, f) \in Trafs(V)
           /\ Even(OptimizeField(t, f).trun.samples)
           /\ SaysTheSame(t, OptimizeField(t, f))
<1> DEFINE s == t.trun.samples
           u == OptimizeField(t, f)
<1>1. CASE ~(t.tfhd[f] = None /\ Alike(s, f, 1))
    BY <1>1 DEF OptimizeField, SaysTheSame
<1>2. CASE t.tfhd[f] = None /\ Alike(s, f, 1)
  <2>1. s \in Samples(V)
    <3>1. t.trun \in Truns(V) BY DEF Trafs
    <3> QED BY <3>1 DEF Truns
  <2>2. DOMAIN s = 1 .. Len(s) /\ Len(s) \in Nat /\ 1 \in DOMAIN s
    BY <2>1 DEF Samples
  <2>3. /\ Without(s, f) \in Samples(V)
        /\ Len(Without(s, f)) = Len(s) /\ DOMAIN Without(s, f) = DOMAIN s
        /\ \A i \in DOMAIN s, g \in SampleFields :
             Without(s, f)[i][g] = IF g = f THEN None ELSE s[i][g]
        /\ Even(Without(s, f))
    <3>1. f \in SampleFields BY DEF SampleFields
    <3> QED BY <2>1, <3>1, WithoutType
  <2>4. s[1][f] \in V
    <3>1. s[1] \in [duration : V, size : V, flags : V, cto : V] BY <2>1, <2>2, SampleTyped
    <3> QED BY <3>1
  <2>5. u = [t EXCEPT !.tfhd = [t.tfhd EXCEPT ![f] = s[1][f]], !.trun.samples = Without(s, f)]
    BY <1>2 DEF OptimizeField
  <2>6. /\ u.trun = [t.trun EXCEPT !.samples = Without(s, f)]
        /\ u.tfhd = [t.tfhd EXCEPT ![f] = s[1][f]]
        /\ u.tfdt = t.tfdt
    BY <2>5 DEF Trafs
  <2>7. u \in Trafs(V)
    <3>1. u.trun \in Truns(V) BY <2>6, <2>3 DEF Trafs, Truns
    <3>2. u.tfhd \in Tfhds(V) BY <2>6, <2>4 DEF Trafs, Tfhds
    <3> QED BY <2>5, <3>1, <3>2 DEF Trafs
  <2>8. /\ u.trun.samples = Without(s, f) /\ u.trun.first = t.trun.first
        /\ u.trun.version = t.trun.version /\ u.trun.offset = t.trun.offset
        /\ u.tfhd.desc = t.tfhd.desc /\ u.tfhd[f] = s[1][f]
        /\ \A g \in DefaultFields : g # f => u.tfhd[g] = t.tfhd[g]
    BY <2>6 DEF Trafs, Truns, Tfhds, DefaultFields
  <2>9. ASSUME NEW i \in DOMAIN s, NEW g \in SampleFields
        PROVE  Says(u, i, g) = Says(t, i, g)
    <3>1. CASE g # f
      <4>1. u.trun.samples[i][g] = s[i][g] BY <2>3, <2>8, <3>1
      <4>2. g # "cto" => u.tfhd[g] = t.tfhd[g] BY <2>8, <3>1 DEF SampleFields, DefaultFields
      <4> QED BY <4>1, <4>2, <2>8 DEF Says
    <3>2. CASE g = f
      <4>1. u.trun.samples[i][g] = None BY <2>3, <2>8, <3>2
      <4>2. s[i][f] = s[1][f] BY <1>2, <2>2 DEF Alike
      <4> QED BY <1>2, <4>1, <4>2, <2>8, <3>2 DEF Says
    <3> QED BY <3>1, <3>2
  <2> QED BY <2>3, <2>6, <2>7, <2>8, <2>9 DEF SaysTheSame
<1> QED BY <1>1, <1>2

\* A run of version 1 has an offset of composition times that is not 0.
VersionFits(t) ==
    t.trun.version = 1 => \E i \in DOMAIN t.trun.samples : Says(t, i, "cto") # 0

\* With the flags counted anew, what the fields say is what a player reads.
LEMMA Recounted ==
    ASSUME NEW V, None \in V, NEW t \in Trafs(V), t.trun.samples # <<>>, Even(t.trun.samples),
           VersionFits(t), t.tfhd.desc = None
    PROVE  /\ Recount(t) \in Trafs(V)
           /\ Valid(Recount(t))
           /\ \A i \in DOMAIN t.trun.samples, f \in SampleFields :
                Effective(Recount(t), i, f) = Says(t, i, f)
<1> DEFINE s == t.trun.samples
           u == Recount(t)
<1>1. t.trun \in Truns(V) /\ t.tfhd \in Tfhds(V)
    BY DEF Trafs
<1>2. s \in Samples(V) /\ DOMAIN s = 1 .. Len(s) /\ Len(s) \in Nat /\ 1 \in DOMAIN s
    BY <1>1 DEF Truns, Samples
<1>3. /\ u.trun = [t.trun EXCEPT !.has = TrunFlags(t.trun)]
      /\ u.tfhd = [t.tfhd EXCEPT !.has = TfhdFlags(t.tfhd)]
      /\ u = [t EXCEPT !.trun = u.trun, !.tfhd = u.tfhd]
    BY DEF Recount, Trafs
<1>4. TrunFlags(t.trun) \subseteq TrunFields /\ TfhdFlags(t.tfhd) \subseteq TfhdFields
    BY DEF TrunFlags, TfhdFlags, Present, TrunFields, TfhdFields
<1>5. /\ u.trun \in Truns(V) /\ u.tfhd \in Tfhds(V)
      /\ u.trun.has = TrunFlags(t.trun) /\ u.tfhd.has = TfhdFlags(t.tfhd)
      /\ u.trun.samples = s /\ u.trun.first = t.trun.first /\ u.trun.offset = t.trun.offset
      /\ u.trun.version = t.trun.version
      /\ \A f \in DefaultFields \union {"desc"} : u.tfhd[f] = t.tfhd[f]
    BY <1>1, <1>3, <1>4 DEF Truns, Tfhds, DefaultFields
<1>6. u \in Trafs(V)
    BY <1>3, <1>5 DEF Trafs
<1>7. ASSUME NEW f \in SampleFields, NEW i \in DOMAIN s
      PROVE  f \in u.trun.has <=> s[i][f] # None
  <2>1. f \in u.trun.has <=> s[1][f] # None
    BY <1>5 DEF TrunFlags, Present, SampleFields
  <2> QED BY <1>2, <2>1 DEF Even
<1>8. \A f \in {"offset", "first"} : f \in u.trun.has <=> u.trun[f] # None
    BY <1>5 DEF TrunFlags, Present, SampleFields
<1>9. ASSUME "cto" \notin u.trun.has
      PROVE  u.trun.version = 0
  <2>1. "cto" \in SampleFields
    BY DEF SampleFields
  <2>2. \A i \in DOMAIN s : Says(t, i, "cto") = 0
    BY <1>7, <1>9, <2>1 DEF Says
  <2>3. t.trun.version # 1
    BY <2>2 DEF VersionFits
  <2> QED BY <2>3, <1>1, <1>5 DEF Truns
<1>10. ValidTrun(u.trun)
    BY <1>5, <1>7, <1>8, <1>9 DEF ValidTrun
<1>11. ValidTfhd(u.tfhd)
    BY <1>5 DEF ValidTfhd, TfhdFlags, Present, DefaultFields
<1>12. ASSUME NEW i \in DOMAIN s, NEW f \in SampleFields
       PROVE  Effective(u, i, f) = Says(t, i, f)
  <2>1. f \in u.trun.has <=> s[i][f] # None
    BY <1>7
  <2>2. "first" \in u.trun.has <=> t.trun.first # None
    BY <1>5, <1>8
  <2>3. f # "cto" => u.tfhd[f] = t.tfhd[f]
    BY <1>5 DEF SampleFields, DefaultFields
  <2> QED BY <2>1, <2>2, <2>3, <1>5 DEF Effective, Says
<1> QED BY <1>6, <1>10, <1>11, <1>12 DEF Valid

\* Boxes as new makes them.
LEMMA NewTraf ==
    ASSUME None \notin Int, NEW V, None \in V, 0 \in V,
           NEW s \in Samples(V), s # <<>>, Even(s),
           \A i \in DOMAIN s : s[i].cto # None => s[i].cto \in Int,
           NEW duration \in V, NEW size \in V, NEW flags \in V, NEW time \in Nat
    PROVE  LET t == Traf(Tfhd(None, duration, size, flags), Trun(s, None), time) IN
           /\ t \in Trafs(V) /\ Valid(t) /\ VersionFits(t)
           /\ t.trun.samples = s /\ t.trun.first = None /\ t.tfhd.desc = None
           /\ \A i \in DOMAIN s, f \in SampleFields : Effective(t, i, f) = Says(t, i, f)
<1> DEFINE h == Tfhd(None, duration, size, flags)
           r == Trun(s, None)
           t == Traf(h, r, time)
<1>1. DOMAIN s = 1 .. Len(s) /\ Len(s) \in Nat /\ 1 \in DOMAIN s
    BY DEF Samples
<1>2. /\ h \in Tfhds(V) /\ h.desc = None
      /\ \A f \in DefaultFields \union {"desc"} : f \in h.has <=> h[f] # None
    BY DEF Tfhd, Tfhds, Present, TfhdFields, DefaultFields
<1>3. /\ r.samples = s /\ r.first = None /\ r.offset = 0
      /\ r.has = {"offset"} \union Present(s[1], SampleFields)
      /\ r.version = IF \E i \in DOMAIN s : s[i].cto # None /\ s[i].cto < 0 THEN 1 ELSE 0
    BY DEF Trun
<1>4. r \in Truns(V)
    BY <1>3 DEF Trun, Truns, TrunFields, Present
<1>5. t.tfhd = h /\ t.trun = r /\ t.tfdt = time /\ t \in Trafs(V)
    BY <1>2, <1>4 DEF Traf, Trafs
<1>6. ASSUME NEW f \in SampleFields, NEW i \in DOMAIN s
      PROVE  f \in r.has <=> s[i][f] # None
  <2>1. f \in r.has <=> s[1][f] # None
    BY <1>3 DEF Present, SampleFields
  <2> QED BY <1>1, <2>1 DEF Even
<1>7. \A f \in {"offset", "first"} : f \in r.has <=> r[f] # None
    BY <1>3 DEF Present, SampleFields
<1>8. ASSUME r.version = 1
      PROVE  /\ "cto" \in r.has
             /\ \E i \in DOMAIN s : Says(t, i, "cto") # 0
  <2>1. PICK i \in DOMAIN s : s[i].cto # None /\ s[i].cto < 0
    BY <1>3, <1>8
  <2>2. s[i].cto \in Int /\ s[i].cto # 0
    BY <2>1
  <2>3. "cto" \in SampleFields
    BY DEF SampleFields
  <2>4. "cto" \in r.has
    BY <1>6, <2>1, <2>3
  <2>5. Says(t, i, "cto") # 0
    BY <2>1, <2>2, <1>3, <1>5 DEF Says
  <2> QED BY <2>4, <2>5
<1>9. "cto" \notin r.has => r.version = 0
    BY <1>3, <1>8
<1>10. ValidTrun(r)
    BY <1>3, <1>6, <1>7, <1>9 DEF ValidTrun
<1>11. Valid(t)
    BY <1>2, <1>5, <1>10 DEF Valid, ValidTfhd
<1>12. VersionFits(t)
    BY <1>3, <1>5, <1>8 DEF VersionFits
<1>13. ASSUME NEW i \in DOMAIN s, NEW f \in SampleFields
       PROVE  Effective(t, i, f) = Says(t, i, f)
  <2>1. f \in r.has <=> s[i][f] # None
    BY <1>6
  <2>2. "first" \notin r.has
    BY <1>3, <1>7
  <2> QED BY <2>1, <2>2, <1>3, <1>5 DEF Effective, Says
<1> HIDE DEF t, h, r
<1>14. t = Traf(Tfhd(None, duration, size, flags), Trun(s, None), time)
    BY DEF t, h, r
<1> QED BY <1>2, <1>3, <1>5, <1>11, <1>12, <1>13, <1>14

\* All steps of optimize.
LEMMA Optimized ==
    ASSUME NEW V, None \in V, NEW t \in Trafs(V), t.trun.samples # <<>>, Even(t.trun.samples),
           t.trun.first = None, t.tfhd.desc = None, VersionFits(t)
    PROVE  /\ Optimize(t) \in Trafs(V) /\ Valid(Optimize(t))
           /\ Len(Optimize(t).trun.samples) = Len(t.trun.samples)
           /\ Optimize(t).tfdt = t.tfdt /\ Optimize(t).trun.offset = t.trun.offset
           /\ \A i \in DOMAIN t.trun.samples, f \in SampleFields :
                Effective(Optimize(t), i, f) = Says(t, i, f)
<1> DEFINE t1 == OptimizeFlags(t)
           t2 == OptimizeCto(t1)
           t3 == OptimizeField(t2, "duration")
           t4 == OptimizeField(t3, "size")
           Good(u) == u \in Trafs(V) /\ Even(u.trun.samples) /\ SaysTheSame(t, u)
<1>1. \A u \in Trafs(V) : /\ u.trun.samples \in Samples(V)
                           /\ DOMAIN u.trun.samples = 1 .. Len(u.trun.samples)
                           /\ Len(u.trun.samples) \in Nat
                           /\ u.trun.samples = <<>> <=> Len(u.trun.samples) = 0
  <2> TAKE u \in Trafs(V)
  <2>1. u.trun \in Truns(V) BY DEF Trafs
  <2>2. u.trun.samples \in Samples(V) BY <2>1 DEF Truns
  <2> QED BY <2>2 DEF Samples
<1>2. ASSUME NEW u, Good(u), NEW w, w \in Trafs(V), Even(w.trun.samples), SaysTheSame(u, w)
      PROVE  Good(w)
  <2>1. SaysTheSame(t, u) /\ u \in Trafs(V)
    BY <1>2
  <2>2. Len(u.trun.samples) = Len(t.trun.samples)
    BY <2>1 DEF SaysTheSame
  <2>3. DOMAIN u.trun.samples = DOMAIN t.trun.samples
    BY <1>1, <2>1, <2>2
  <2>4. \A i \in DOMAIN t.trun.samples, f \in SampleFields : Says(w, i, f) = Says(t, i, f)
    <3>1. \A i \in DOMAIN t.trun.samples, f \in SampleFields : Says(u, i, f) = Says(t, i, f)
      BY <2>1 DEF SaysTheSame
    <3>2. \A i \in DOMAIN u.trun.samples, f \in SampleFields : Says(w, i, f) = Says(u, i, f)
      BY <1>2 DEF SaysTheSame
    <3> QED BY <2>3, <3>1, <3>2
  <2>5. SaysTheSame(t, w)
    BY <1>2, <2>1, <2>4 DEF SaysTheSame
  <2> QED BY <1>2, <2>5
<1>3. \A u : Good(u) => u.trun.samples # <<>>
    BY <1>1 DEF SaysTheSame
<1> HIDE DEF t1, t2, t3, t4
<1>4. Good(t1)
    BY FlagsKept DEF t1
<1>5. Good(t2)
  <2>1. t2 \in Trafs(V) /\ Even(t2.trun.samples) /\ SaysTheSame(t1, t2)
    BY <1>4, CtoKept DEF t2
  <2> QED BY <1>2, <1>4, <2>1
<1>6. Good(t3)
  <2>1. t3 \in Trafs(V) /\ Even(t3.trun.samples) /\ SaysTheSame(t2, t3)
    BY <1>3, <1>5, FieldKept DEF t3
  <2> QED BY <1>2, <1>5, <2>1
<1>7. Good(t4)
  <2>1. t4 \in Trafs(V) /\ Even(t4.trun.samples) /\ SaysTheSame(t3, t4)
    BY <1>3, <1>6, FieldKept DEF t4
  <2> QED BY <1>2, <1>6, <2>1
<1>8. Optimize(t) = Recount(t4)
    BY DEF Optimize, t1, t2, t3, t4
<1>9. t4.tfhd.desc = None /\ t4.trun.samples # <<>> /\ VersionFits(t4)
      /\ DOMAIN t4.trun.samples = DOMAIN t.trun.samples
  <2>1. t4.tfhd.desc = None /\ t4.trun.samples # <<>>
    BY <1>3, <1>7 DEF SaysTheSame
  <2>2. DOMAIN t4.trun.samples = DOMAIN t.trun.samples
    BY <1>1, <1>7 DEF SaysTheSame
  <2>3. \A i \in DOMAIN t.trun.samples : Says(t4, i, "cto") = Says(t, i, "cto")
    BY <1>7 DEF SaysTheSame, SampleFields
  <2>4. t4.trun.version = t.trun.version
    BY <1>7 DEF SaysTheSame
  <2> QED BY <2>1, <2>2, <2>3, <2>4 DEF VersionFits
<1>10. /\ Recount(t4) \in Trafs(V) /\ Valid(Recount(t4))
       /\ \A i \in DOMAIN t4.trun.samples, f \in SampleFields :
            Effective(Recount(t4), i, f) = Says(t4, i, f)
    BY <1>7, <1>9, Recounted
<1>11. /\ Recount(t4).trun.samples = t4.trun.samples /\ Recount(t4).tfdt = t4.tfdt
       /\ Recount(t4).trun.offset = t4.trun.offset
    BY <1>7 DEF Recount, Trafs, Truns
<1> QED BY <1>7, <1>8, <1>9, <1>10, <1>11 DEF SaysTheSame

(* Whatever samples a run is made of, as long as each field is given for all *)
(* of them or for none, Traf::optimize leaves a fragment that can be written *)
(* and says the same of every sample.                                        *)
THEOREM OptimizeKeepsSamples ==
    ASSUME None \notin Int, NEW V, None \in V, 0 \in V,
           NEW s \in Samples(V), s # <<>>, Even(s),
           \A i \in DOMAIN s : s[i].cto # None => s[i].cto \in Int,
           NEW duration \in V, NEW size \in V, NEW flags \in V, NEW time \in Nat
    PROVE  LET t == Traf(Tfhd(None, duration, size, flags), Trun(s, None), time) IN
           /\ Valid(Optimize(t))
           /\ Len(Optimize(t).trun.samples) = Len(s)
           /\ \A i \in DOMAIN s, f \in SampleFields :
                Effective(Optimize(t), i, f) = Effective(t, i, f)
<1> DEFINE t == Traf(Tfhd(None, duration, size, flags), Trun(s, None), time)
<1> HIDE DEF t
<1>1. /\ t \in Trafs(V) /\ Valid(t) /\ VersionFits(t)
      /\ t.trun.samples = s /\ t.trun.first = None /\ t.tfhd.desc = None
      /\ \A i \in DOMAIN s, f \in SampleFields : Effective(t, i, f) = Says(t, i, f)
    BY NewTraf, SMTT(60) DEF t
<1>2. /\ Valid(Optimize(t)) /\ Len(Optimize(t).trun.samples) = Len(t.trun.samples)
      /\ \A i \in DOMAIN t.trun.samples, f \in SampleFields :
            Effective(Optimize(t), i, f) = Says(t, i, f)
    BY <1>1, Optimized
<1> QED BY <1>1, <1>2 DEF t

\* The fields there are in all.
LEMMA FieldsFinite ==
    ASSUME NEW A, A \subseteq TrunFields \union TfhdFields
    PROVE  IsFiniteSet(A) /\ Cardinality(A) \in Nat
<1> DEFINE B1 == {} \union {"offset"}
           B2 == B1 \union {"first"}
           B3 == B2 \union {"duration"}
           B4 == B3 \union {"size"}
           B5 == B4 \union {"flags"}
           B6 == B5 \union {"cto"}
           B7 == B6 \union {"desc"}
<1>1. IsFiniteSet({}) BY FS_EmptySet
<1>2. A \subseteq B7
    BY DEF TrunFields, TfhdFields, SampleFields, DefaultFields
<1>3. IsFiniteSet(B1) BY <1>1, FS_AddElement
<1> HIDE DEF B1
<1>4. IsFiniteSet(B2) BY <1>3, FS_AddElement
<1> HIDE DEF B2
<1>5. IsFiniteSet(B3) BY <1>4, FS_AddElement
<1> HIDE DEF B3
<1>6. IsFiniteSet(B4) BY <1>5, FS_AddElement
<1> HIDE DEF B4
<1>7. IsFiniteSet(B5) BY <1>6, FS_AddElement
<1> HIDE DEF B5
<1>8. IsFiniteSet(B6) BY <1>7, FS_AddElement
<1> HIDE DEF B6
<1>9. IsFiniteSet(B7) BY <1>8, FS_AddElement
<1> HIDE DEF B7
<1>10. IsFiniteSet(A) BY <1>2, <1>9, FS_Subset
<1> QED BY <1>10, FS_CardinalityType

\* What the size of a run counts is what is written of it.
LEMMA SizeIsWritten ==
    ASSUME NEW V, NEW t \in Trafs(V), ValidTrun(t.trun)
    PROVE  TrunSize(t.trun) = TrunWritten(t.trun)
<1> DEFINE r == t.trun
           s == t.trun.samples
           fields == r.has \intersect SampleFields
<1>1. r \in Truns(V)
    BY DEF Trafs
<1>2. DOMAIN s = 1 .. Len(s) /\ Len(s) \in Nat
  <2>1. s \in Samples(V) BY <1>1 DEF Truns
  <2> QED BY <2>1 DEF Samples
<1>3. {c \in (DOMAIN s) \X SampleFields : s[c[1]][c[2]] # None} = (1 .. Len(s)) \X fields
    BY <1>2 DEF ValidTrun
<1>4. IsFiniteSet(1 .. Len(s)) /\ Cardinality(1 .. Len(s)) = Len(s)
    BY <1>2, FS_Interval
<1>5. IsFiniteSet(fields)
  <2>1. fields \subseteq TrunFields \union TfhdFields
    BY DEF TrunFields
  <2> QED BY <2>1, FieldsFinite
<1>6. Cardinality((1 .. Len(s)) \X fields) = Len(s) * Cardinality(fields)
    BY <1>4, <1>5, FS_Product
<1>7. Present(r, {"offset", "first"}) = r.has \intersect {"offset", "first"}
    BY DEF ValidTrun, Present
<1> QED BY <1>3, <1>6, <1>7 DEF TrunSize, TrunWritten

\* the values of the fields of the transmuxer's fragments
Values == Int \union {None, "sync", "depends"}

\* what a fragment says of the one sample made from a tag
Keeps(traf, sample, time) ==
    /\ traf \in Trafs(Values) /\ Valid(traf)
    /\ traf.trun.offset = 2 + MoofSize(traf, traf.tfdt > Narrow)
    /\ TrunSize(traf.trun) = TrunWritten(traf.trun)
    /\ traf.tfdt = time
    /\ \A f \in SampleFields : Effective(traf, 1, f) = IF sample[f] = None THEN 0 ELSE sample[f]

\* The state that a frame is muxed in.
LEMMA FragmentKeeps ==
    ASSUME TransmuxerAssumption, NEW tag,
           Sample(tag) \in [duration : Nat, size : Nat, flags : {"sync", "depends"},
                            cto : Int \union {None}],
           end[Track(tag)] \in Nat
    PROVE  Keeps(Fragment(tag), Sample(tag), end[Track(tag)])
<1> DEFINE V == Values
           s == <<Sample(tag)>>
           time == end[Track(tag)]
           t == Traf(Tfhd(None, None, None, None), Trun(s, None), time)
           u == Optimize(t)
           w == Fragment(tag)
<1>0. time \in Nat
    OBVIOUS
<1>1. None \notin Int /\ None \in V /\ 0 \in V
    BY DEF TransmuxerAssumption, Values
<1>2. Sample(tag) \in [duration : V, size : V, flags : V, cto : V]
    BY DEF Values
<1>3. s \in Samples(V) /\ s # <<>> /\ Len(s) = 1 /\ DOMAIN s = {1} /\ s[1] = Sample(tag)
    BY <1>2 DEF Samples
<1>4. Even(s)
    BY <1>3 DEF Even
<1>5. \A i \in DOMAIN s : s[i].cto # None => s[i].cto \in Int
    BY <1>3
<1> HIDE DEF t, s, u, V, time
<1>6. /\ t \in Trafs(V) /\ Valid(t) /\ VersionFits(t)
      /\ t.trun.samples = s /\ t.trun.first = None /\ t.tfhd.desc = None
  <2> DEFINE plain(now) == Traf(Tfhd(None, None, None, None), Trun(s, None), now)
  <2>1. \A now \in Nat : plain(now) \in Trafs(V) /\ Valid(plain(now)) /\ VersionFits(plain(now))
    BY <1>1, <1>3, <1>4, <1>5, NewTraf
  <2>2. \A now \in Nat :
        /\ plain(now).trun.samples = s
        /\ plain(now).trun.first = None /\ plain(now).tfhd.desc = None
    BY <1>1, <1>3, <1>4, <1>5, NewTraf
  <2>3. t = plain(time)
    BY DEF t
  <2> HIDE DEF plain
  <2> QED BY <1>0, <2>1, <2>2, <2>3
<1>7. /\ u \in Trafs(V) /\ Valid(u) /\ u.tfdt = t.tfdt /\ u.trun.offset = t.trun.offset
      /\ Len(u.trun.samples) = 1
      /\ \A f \in SampleFields : Effective(u, 1, f) = Says(t, 1, f)
    BY <1>1, <1>3, <1>4, <1>6, Optimized DEF u
<1>8. t.tfdt = time /\ t.trun.offset = 0
    BY DEF t, Traf, Trun
<1> DEFINE size == MoofSize(u, u.tfdt > Narrow)
<1>9. w = [u EXCEPT !.trun.offset = size + 2]
    BY DEF Fragment, t, u, s, time
<1>10. size \in Int
  <2>1. Len(u.trun.samples) \in Nat
    BY <1>7
  <2>3. /\ u.trun.has \intersect {"offset", "first"} \subseteq TrunFields \union TfhdFields
        /\ u.trun.has \intersect SampleFields \subseteq TrunFields \union TfhdFields
        /\ Present(u.tfhd, DefaultFields \union {"desc"}) \subseteq TrunFields \union TfhdFields
    BY DEF Present, TrunFields, TfhdFields
  <2>4. /\ Cardinality(u.trun.has \intersect {"offset", "first"}) \in Nat
        /\ Cardinality(u.trun.has \intersect SampleFields) \in Nat
        /\ Cardinality(Present(u.tfhd, DefaultFields \union {"desc"})) \in Nat
    BY <2>3, FieldsFinite
  <2>5. TrunSize(u.trun) \in Int
    BY <1>7, <2>4 DEF TrunSize
  <2>6. TfhdSize(u.tfhd) \in Int
    BY <2>4 DEF TfhdSize
  <2> QED BY <2>5, <2>6 DEF MoofSize
<1> HIDE DEF size
<1>11. /\ w.trun = [u.trun EXCEPT !.offset = size + 2] /\ w.tfhd = u.tfhd /\ w.tfdt = u.tfdt
       /\ w = [u EXCEPT !.trun = w.trun]
    BY <1>7, <1>9 DEF Trafs
<1>12. u.trun \in Truns(V)
    BY <1>7 DEF Trafs
<1>13. /\ w.trun \in Truns(V)
       /\ w.trun.has = u.trun.has /\ w.trun.version = u.trun.version
       /\ w.trun.first = u.trun.first /\ w.trun.samples = u.trun.samples
       /\ w.trun.offset = size + 2
  <2>1. size + 2 \in V
    BY <1>10 DEF V, Values
  <2> QED BY <2>1, <1>11, <1>12 DEF Truns
<1>14. w \in Trafs(V)
    BY <1>7, <1>11, <1>13 DEF Trafs
<1>15. Valid(w)
  <2>1. u.trun.offset # None /\ w.trun.offset # None
    BY <1>1, <1>7, <1>8, <1>10, <1>13
  <2>2. ValidTrun(u.trun)
    BY <1>7 DEF Valid
  <2>3. ValidTrun(w.trun)
    BY <1>13, <2>1, <2>2 DEF ValidTrun
  <2> QED BY <1>7, <1>11, <2>3 DEF Valid
<1>16. MoofSize(w, w.tfdt > Narrow) = size
    BY <1>11, <1>13 DEF MoofSize, TrunSize, size
<1>17. TrunSize(w.trun) = TrunWritten(w.trun)
    BY <1>14, <1>15, SizeIsWritten DEF Valid
<1>18. \A f \in SampleFields : Effective(w, 1, f) = Effective(u, 1, f)
    BY <1>11, <1>13 DEF Effective
<1>19. \A f \in SampleFields :
        Says(t, 1, f) = IF Sample(tag)[f] = None THEN 0 ELSE Sample(tag)[f]
  <2> TAKE f \in SampleFields
  <2>1. f # "cto" => Sample(tag)[f] # None
    <3>1. f \in {"duration", "size", "flags", "cto"}
      BY DEF SampleFields
    <3>2. None \notin Int /\ None # "sync" /\ None # "depends"
      BY DEF TransmuxerAssumption
    <3> QED BY <3>1, <3>2
  <2> QED BY <2>1, <1>3, <1>6 DEF Says
<1>20. size + 2 = 2 + MoofSize(w, w.tfdt > Narrow)
    BY <1>10, <1>16
<1> HIDE DEF w
<1> QED BY <1>7, <1>8, <1>11, <1>13, <1>14, <1>15, <1>17, <1>18, <1>19, <1>20
        DEF Keeps, V, w, time

\* A set of positions has a last one.
LEMMA GreatestIsThere ==
    ASSUME NEW n \in Nat, NEW S, S \subseteq 1 .. n, S # {}
    PROVE  Greatest(S) \in S /\ \A j \in S : j <= Greatest(S)
<1> DEFINE R == {p \in Nat \X Nat : p[1] < p[2]}
           T == {k \in 0 .. n : n - k \in S}
<1>1. IsWellFoundedOn(R, Nat)
    BY NatLessThanWellFounded DEF OpToRel
<1>2. T \subseteq Nat /\ T # {}
  <2>1. PICK i \in S : TRUE
    OBVIOUS
  <2>2. n - i \in 0 .. n /\ n - (n - i) = i
    BY <2>1
  <2>3. n - i \in T
    BY <2>1, <2>2
  <2>4. T # {}
    BY <2>3
  <2>5. T \subseteq Nat
    OBVIOUS
  <2> QED BY <2>4, <2>5
<1> DEFINE Less(m, k) == <<m, k>> \in R
<1>less. \A m, k \in Nat : m < k => Less(m, k)
    OBVIOUS
<1> HIDE DEF Less
<1> HIDE DEF R
<1>3. PICK k \in T : \A m \in T : ~ Less(m, k)
    BY <1>1, <1>2, WFMin DEF Less
<1>4. \A m \in T : k <= m
    BY <1>2, <1>3, <1>less
<1>5. n - k \in S /\ \A j \in S : j <= n - k
  <2>1. ASSUME NEW j \in S
        PROVE  j <= n - k
    <3>1. j \in 1 .. n /\ k \in 0 .. n
      BY <1>3
    <3>2. n - j \in 0 .. n /\ n - (n - j) = j
      BY <3>1
    <3>3. n - j \in T
      BY <2>1, <3>2
    <3>4. k <= n - j
      BY <1>4, <3>3
    <3> QED BY <3>1, <3>4
  <2> QED BY <1>3, <2>1
<1>6. \E i \in S : \A j \in S : j <= i
    BY <1>5
<1> QED BY <1>6 DEF Greatest
-----------------------------------------------------------------------------
(* the transmuxer *)

Tracks == {"audio", "video"}
Settings == [video : Tags, audio : Tags, fps : Nat \ {0}]
Records ==
    [type : {"init"}, settings : Settings] \union
    [type : {"media"}, seq : Nat, traf : Trafs(Values), track : Tracks, time : Nat,
     keyframe : BOOLEAN, data : Nat]

\* what is queued is what was fed and not taken
Queue ==
    /\ setup \in Setups
    /\ tags \in Seq(Tags) /\ fed \in Seq(Tags) /\ gone \in Nat
    /\ Len(fed) = gone + Len(tags)
    /\ \A i \in 1 .. Len(tags) : tags[i] = fed[gone + i]

\* nothing is taken and nothing goes out before there are settings, which stay
Settled ==
    /\ last \in Nat /\ end \in [Tracks -> Nat] /\ seq \in Nat
    /\ segments \in Seq(Records)
    /\ \/ settings = None /\ segments = <<>> /\ gone = 0 /\ seq = 1
          /\ \A track \in Tracks : end[track] = 0
       \/ settings \in Settings /\ Len(segments) = seq /\ seq >= 1
    /\ \A i \in DOMAIN segments : segments[i].type = "init" <=> i = 1

\* what a player finds in a segment, and what the tag said
Told(seg, tag, fps) ==
    LET cto == Effective(seg.traf, 1, "cto") IN
    /\ Valid(seg.traf)
    /\ seg.traf.trun.offset = 2 + MoofSize(seg.traf, seg.traf.tfdt > Narrow)
    /\ TrunSize(seg.traf.trun) = TrunWritten(seg.traf.trun)
    /\ Effective(seg.traf, 1, "size") = tag.size
    /\ Effective(seg.traf, 1, "flags") =
        IF seg.track = "audio" \/ seg.keyframe THEN "sync" ELSE "depends"
    /\ IF tag.type \in {"audio", "av1"} THEN cto = 0
       ELSE LET due == CastOffset(tag, tag.cto * fps) IN cto <= due /\ due < cto + Second

Good(i) ==
    /\ segments[i].data \in 1 .. gone /\ TagOf(i).type \in Frames
    /\ segments[i].track \in Tracks
    /\ segments[i].seq = i - 1
    /\ Told(segments[i], TagOf(i), settings.fps)

Covered ==
    /\ {segments[i].data : i \in Media} = {i \in 1 .. gone : fed[i].type \in Frames}
    /\ \A i, j \in Media : i < j => segments[i].data < segments[j].data

\* where a segment ends for who plays it
Over(i) == segments[i].traf.tfdt + Effective(segments[i].traf, 1, "duration")

StartFits(i, track) ==
    LET before == {j \in OnTrack(track) : j < i}
    IN  segments[i].traf.tfdt = IF before = {} THEN 0 ELSE Over(Greatest(before))

\* the clock of a track is where its last segment ends, and a segment starts where the
\* one before it ends
Chained ==
    /\ \A track \in Tracks :
        end[track] = IF OnTrack(track) = {} THEN 0 ELSE Over(Greatest(OnTrack(track)))
    /\ \A i \in Media, track \in Tracks : segments[i].track = track => StartFits(i, track)

TransmuxerInv == Queue /\ Settled /\ (\A i \in Media : Good(i)) /\ Covered /\ Chained

\* What the invariant is for.
LEMMA InvSuffices ==
    ASSUME TransmuxerAssumption, TransmuxerInv
    PROVE  SegmentsFollowTags /\ SamplesKept
<1>1. fed = SubSeq(fed, 1, gone) \o tags
  <2>1. /\ tags \in Seq(Tags) /\ fed \in Seq(Tags) /\ gone \in Nat /\ Len(fed) = gone + Len(tags)
        /\ \A i \in 1 .. Len(tags) : tags[i] = fed[gone + i]
    BY DEF TransmuxerInv, Queue
  <2>2. Len(tags) \in Nat /\ \A i \in 1 .. gone : fed[i] \in Tags
    <3>1. Len(tags) \in Nat /\ \A i \in 1 .. Len(fed) : fed[i] \in Tags
      BY <2>1, LenProperties, ElementOfSeq
    <3> QED BY <2>1, <3>1
  <2>3. PICK front \in Seq(Tags) :
            /\ front = SubSeq(fed, 1, gone) /\ Len(front) = gone
            /\ \A i \in 1 .. gone : front[i] = fed[i]
    <3>1. /\ SubSeq(fed, 1, gone) \in Seq(Tags) /\ Len(SubSeq(fed, 1, gone)) = gone
          /\ \A i \in 1 .. gone : SubSeq(fed, 1, gone)[i] = fed[i]
      <4>1. gone \in Int /\ gone - 1 + 1 = gone /\ Len(fed) >= gone
        BY <2>1, <2>2
      <4>2. /\ SubSeq(fed, 1, gone) \in Seq(Tags)
            /\ Len(SubSeq(fed, 1, gone)) = IF 1 <= gone THEN gone - 1 + 1 ELSE 0
            /\ \A i \in 1 .. gone - 1 + 1 : SubSeq(fed, 1, gone)[i] = fed[1 + i - 1]
        BY <2>2, <4>1, SubSeqProperties
      <4> QED BY <2>1, <4>1, <4>2
    <3> QED BY <3>1
  <2>4. /\ front \o tags \in Seq(Tags) /\ Len(front \o tags) = Len(fed)
        /\ \A i \in 1 .. Len(fed) : (front \o tags)[i] = IF i <= gone THEN front[i] ELSE tags[i - gone]
    BY <2>1, <2>3, ConcatProperties
  <2>5. ASSUME NEW i \in 1 .. Len(fed)
        PROVE  fed[i] = (front \o tags)[i]
    <3>1. CASE i <= gone
      <4>1. i \in 1 .. gone
        BY <2>1, <3>1
      <4> QED BY <2>3, <2>4, <3>1, <4>1
    <3>2. CASE i > gone
      <4>1. PICK k \in 1 .. Len(tags) : k = i - gone /\ gone + k = i /\ ~(i <= gone)
        BY <2>1, <2>2, <3>2
      <4>2. tags[k] = fed[i]
        BY <2>1, <4>1
      <4>3. (front \o tags)[i] = tags[k]
        BY <2>4, <4>1
      <4> QED BY <4>2, <4>3
    <3>3. i <= gone \/ i > gone
      <4>1. gone \in Int /\ i \in Int
        BY <2>1
      <4> QED BY <4>1
    <3> QED BY <3>1, <3>2, <3>3
  <2> QED BY <2>1, <2>3, <2>4, <2>5, SeqEqual
<1>2. \A i \in DOMAIN segments : segments[i].type = "init" <=> i = 1
    BY DEF TransmuxerInv, Settled
<1>3. \A i \in Media : StartFits(i, segments[i].track) /\ segments[i].seq = i - 1
    BY DEF TransmuxerInv, Chained, Good
<1>4. SegmentsFollowTags
    BY <1>1, <1>2, <1>3 DEF TransmuxerInv, Covered, StartFits, Over, SegmentsFollowTags
<1>5. SamplesKept
    BY DEF TransmuxerInv, Good, Told, SamplesKept
<1> QED BY <1>4, <1>5

\* The tags that a frame may be.
LEMMA SampleFits ==
    ASSUME TransmuxerAssumption, NEW tag \in Tags, tag.type \in Frames,
           settings \in Settings, last \in Nat
    PROVE  /\ Sample(tag) \in [duration : Nat, size : Nat, flags : {"sync", "depends"},
                               cto : Int \union {None}]
           /\ Sample(tag).size = tag.size
           /\ Sample(tag).flags = IF tag.type = "audio" \/ tag.key THEN "sync" ELSE "depends"
           /\ IF tag.type \in {"audio", "av1"} THEN Sample(tag).cto = None
              ELSE /\ Sample(tag).cto \in Int
                   /\ Sample(tag).cto <= CastOffset(tag, tag.cto * settings.fps)
                   /\ CastOffset(tag, tag.cto * settings.fps) < Sample(tag).cto + Second
<1>1. TagTyped(tag) /\ Second \in Nat \ {0} /\ AudioFrame \in Nat /\ settings.fps \in Nat \ {0}
    BY DEF TransmuxerAssumption, Settings
<1>2. tag.size \in Nat
    BY <1>1 DEF TagTyped
<1>3. tag.type # "audio" => Duration(tag) \in Nat
  <2> SUFFICES ASSUME tag.type # "audio" PROVE Duration(tag) \in Nat
    OBVIOUS
  <2>1. tag.ts \in Nat
    BY <1>1 DEF TagTyped
  <2>2. \A d, f \in Nat : d * f \in Nat
    OBVIOUS
  <2>3. \A d \in Nat : Ticks(d, settings.fps) \in Nat
    BY <1>1, <2>2 DEF Ticks, Cast, TransmuxerAssumption
  <2>4. ~(tag.ts < last) => tag.ts - last \in Nat
    BY <2>1
  <2> QED BY <1>1, <2>1, <2>3, <2>4 DEF Duration
<1>4. tag.type \notin {"audio", "av1"} =>
        /\ Composition(tag) \in Int
        /\ Composition(tag) <= CastOffset(tag, tag.cto * settings.fps)
        /\ CastOffset(tag, tag.cto * settings.fps) < Composition(tag) + Second
  <2> SUFFICES ASSUME tag.type \notin {"audio", "av1"}
               PROVE  /\ Composition(tag) \in Int
                      /\ Composition(tag) <= CastOffset(tag, tag.cto * settings.fps)
                      /\ CastOffset(tag, tag.cto * settings.fps) < Composition(tag) + Second
    OBVIOUS
  <2>1. tag.cto \in Int
    <3>1. tag.type = "avc" \/ tag.type = "hevc"
      BY DEF Frames
    <3>2. /\ tag.type = "hevc" => tag.cto \in Int
          /\ tag.type = "avc" => tag.cto \in Nat
      BY <1>1 DEF TagTyped
    <3> QED BY <3>1, <3>2
  <2> DEFINE x == tag.cto * settings.fps
  <2>2. x \in Int
    BY <1>1, <2>1
  <2> HIDE DEF x
  <2>3. \A y \in Int, d \in Nat \ {0} :
            /\ (y \div d) * d \in Int
            /\ (y \div d) * d <= y /\ y < (y \div d) * d + d
    OBVIOUS
  <2>4. (x \div Second) * Second \in Int /\ (x \div Second) * Second <= x
        /\ x < (x \div Second) * Second + Second
    BY <1>1, <2>2, <2>3
  <2>5. PICK w \in Int : w = (x \div Second) * Second /\ w <= x /\ x < w + Second
    BY <2>4
  <2>6. CastOffset(tag, w) \in Int /\ CastOffset(tag, w) <= CastOffset(tag, x)
        /\ CastOffset(tag, x) < CastOffset(tag, w) + Second
    <3>1. PICK h \in Int : h = Narrow \div 2
      BY DEF TransmuxerAssumption
    <3>2. \A low \in Int, high \in Int :
            low <= high =>
                /\ Cast(w, low, high) \in Int /\ Cast(w, low, high) <= Cast(x, low, high)
                /\ Cast(x, low, high) < Cast(w, low, high) + Second
      BY <1>1, <2>2, <2>5 DEF Cast
    <3>3. h >= 0 /\ Narrow \in Nat /\ 0 <= Narrow
      BY <3>1 DEF TransmuxerAssumption
    <3>4. -h - 1 \in Int /\ -h - 1 <= h
      BY <3>3
    <3>5. CASE tag.type = "avc"
      <4>1. \A y : CastOffset(tag, y) = Cast(y, 0, Narrow)
        BY <3>5 DEF CastOffset
      <4>2. PICK high \in Int : high = Narrow /\ 0 <= high
        BY <3>3
      <4>3. 0 \in Int
        OBVIOUS
      <4>4. /\ Cast(w, 0, high) \in Int /\ Cast(w, 0, high) <= Cast(x, 0, high)
            /\ Cast(x, 0, high) < Cast(w, 0, high) + Second
        BY <3>2, <4>2, <4>3
      <4> QED BY <4>1, <4>2, <4>4
    <3>6. CASE tag.type # "avc"
      <4>1. \A y : CastOffset(tag, y) = Cast(y, -h - 1, h)
        BY <3>1, <3>6 DEF CastOffset
      <4>2. PICK l \in Int : l = -h - 1 /\ l <= h
        BY <3>4
      <4> QED BY <3>2, <3>1, <4>1, <4>2
    <3> QED BY <3>5, <3>6
  <2> QED BY <2>5, <2>6 DEF Composition, x
<1>5. tag.type # "audio" => tag.key \in BOOLEAN
    BY <1>1 DEF TagTyped
<1> QED BY <1>1, <1>2, <1>3, <1>4, <1>5 DEF Sample

\* A header or metadata that find_tags finds is one.
LEMMA FoundIsTag ==
    ASSUME Queue, NEW types, Found(types) # None
    PROVE  Found(types) \in Tags /\ Found(types).type \in types
<1> DEFINE there == {i \in Of(types) : i <= Scanned}
<1>1. there # {} /\ Found(types) = tags[Greatest(there)]
    BY DEF Found
<1>2. there \subseteq 1 .. Len(tags) /\ Len(tags) \in Nat /\ tags \in Seq(Tags)
    BY DEF Queue, Of
<1> HIDE DEF there
<1>3. Greatest(there) \in there
    BY <1>1, <1>2, GreatestIsThere
<1>4. tags[Greatest(there)].type \in types
    BY <1>3 DEF there, Of
<1>5. tags[Greatest(there)] \in Tags
  <2>1. Greatest(there) \in 1 .. Len(tags)
    BY <1>2, <1>3
  <2> QED BY <1>2, <2>1
<1> QED BY <1>1, <1>4, <1>5

\* Init establishes the invariant.
LEMMA InvInit ==
    ASSUME TransmuxerAssumption, Init
    PROVE  TransmuxerInv
<1>1. setup \in [first : Seq(Tags), more : SUBSET Tags]
    BY DEF TransmuxerAssumption, Init
<1>2. Queue
    BY <1>1 DEF Init, Queue
<1>3. segments = <<>> /\ DOMAIN segments = {} /\ Media = {}
    BY DEF Init, Media
<1>4. Settled
    BY <1>3 DEF Init, Settled, Tracks
<1>5. \A track : OnTrack(track) = {}
    BY <1>3 DEF OnTrack
<1>6. Chained
    BY <1>3, <1>5 DEF Init, Chained, Tracks
<1>7. Covered
    BY <1>3 DEF Init, Covered
<1> QED BY <1>2, <1>3, <1>4, <1>6, <1>7 DEF TransmuxerInv

\* What is said of the segments stays true while there are no more of them.
LEMMA SegmentsStay ==
    ASSUME TransmuxerInv, segments' = segments, settings' = settings, end' = end,
           gone' \in Nat, gone <= gone', \A i \in 1 .. gone : fed'[i] = fed[i]
    PROVE  (\A i \in Media' : Good(i)') /\ Chained' /\ Media' = Media
<1>1. Media' = Media /\ \A track : OnTrack(track)' = OnTrack(track)
    BY DEF Media, OnTrack
<1>2. \A i : Over(i)' = Over(i)
    BY DEF Over
<1>3. Chained'
    BY <1>1, <1>2 DEF TransmuxerInv, Chained, StartFits
<1>4. ASSUME NEW i \in Media
      PROVE  Good(i)'
  <2>1. Good(i)
    BY DEF TransmuxerInv
  <2>2. segments[i].data \in 1 .. gone /\ gone \in Nat
    BY <2>1 DEF Good, TransmuxerInv, Queue
  <2>3. TagOf(i)' = TagOf(i) /\ segments[i].data \in 1 .. gone'
    BY <2>2 DEF TagOf
  <2> QED BY <2>1, <2>3 DEF Good
<1> QED BY <1>1, <1>3, <1>4

LEMMA AddTagKeeps ==
    ASSUME TransmuxerInv, NEW tag \in Tags, AddTag(tag)
    PROVE  TransmuxerInv'
<1>1. Queue
    BY DEF TransmuxerInv
<1>2. /\ tags' = Append(tags, tag) /\ fed' = Append(fed, tag)
      /\ UNCHANGED <<setup, settings, seq, end, last, gone, segments>>
    BY DEF AddTag
<1>3. /\ tags' \in Seq(Tags) /\ fed' \in Seq(Tags)
      /\ Len(tags') = Len(tags) + 1 /\ Len(fed') = Len(fed) + 1
      /\ \A i \in 1 .. Len(fed) : fed'[i] = fed[i]
      /\ \A i \in 1 .. Len(tags) : tags'[i] = tags[i]
      /\ tags'[Len(tags) + 1] = tag /\ fed'[Len(fed) + 1] = tag
  <2>1. tags \in Seq(Tags) /\ fed \in Seq(Tags)
    BY <1>1 DEF Queue
  <2>2. /\ Append(tags, tag) \in Seq(Tags) /\ Len(Append(tags, tag)) = Len(tags) + 1
        /\ \A i \in 1 .. Len(tags) : Append(tags, tag)[i] = tags[i]
        /\ Append(tags, tag)[Len(tags) + 1] = tag
    BY <2>1, AppendProperties
  <2>3. /\ Append(fed, tag) \in Seq(Tags) /\ Len(Append(fed, tag)) = Len(fed) + 1
        /\ \A i \in 1 .. Len(fed) : Append(fed, tag)[i] = fed[i]
        /\ Append(fed, tag)[Len(fed) + 1] = tag
    BY <2>1, AppendProperties
  <2> QED BY <1>2, <2>2, <2>3
<1>4. Len(tags) \in Nat /\ Len(fed) \in Nat /\ gone \in Nat /\ Len(fed) = gone + Len(tags)
    BY <1>1 DEF Queue
<1>5. ASSUME NEW i \in 1 .. Len(tags')
      PROVE  tags'[i] = fed'[gone' + i]
  <2>1. CASE i \in 1 .. Len(tags)
    <3>1. gone + i \in 1 .. Len(fed) BY <1>4, <2>1
    <3> QED BY <1>1, <1>2, <1>3, <2>1, <3>1 DEF Queue
  <2>2. CASE i = Len(tags) + 1
    <3>1. gone' + i = Len(fed) + 1 BY <1>2, <1>4, <2>2
    <3> QED BY <1>3, <2>2, <3>1
  <2> QED BY <1>3, <1>4, <2>1, <2>2
<1>6. Queue'
    BY <1>1, <1>2, <1>3, <1>4, <1>5 DEF Queue
<1>7. Settled'
    BY <1>2 DEF TransmuxerInv, Settled
<1>8. \A i \in 1 .. gone : fed'[i] = fed[i]
    BY <1>3, <1>4
<1>9. (\A i \in Media' : Good(i)') /\ Chained' /\ Media' = Media
    BY <1>2, <1>4, <1>8, SegmentsStay
<1>10. Covered'
    BY <1>2, <1>8, <1>9, ZenonT(60) DEF TransmuxerInv, Covered
<1> QED BY <1>6, <1>7, <1>9, <1>10 DEF TransmuxerInv

\* mux without settings changes no more than that there are some.
LEMMA MuxHeadersKeeps ==
    ASSUME TransmuxerAssumption, TransmuxerInv, MuxWaits \/ MuxInitFails \/ MuxInit
    PROVE  TransmuxerInv'
<1>1. CASE MuxWaits \/ MuxInitFails
  <2>1. UNCHANGED <<setup, tags, settings, seq, end, last, fed, gone, segments>>
    BY <1>1 DEF MuxWaits, Waiting, MuxInitFails
  <2>2. (\A i \in Media' : Good(i)') /\ Chained' /\ Media' = Media
    BY <2>1, SegmentsStay DEF TransmuxerInv, Queue
  <2> QED BY <2>1, <2>2 DEF TransmuxerInv, Queue, Settled, Covered
<1>2. CASE MuxInit
  <2>1. Queue /\ Settled
    BY DEF TransmuxerInv
  <2>2. Video \in Tags /\ Video.type \in VideoHeaders
    BY <1>2, <2>1, FoundIsTag DEF MuxInit, Video
  <2>3. Audio \in Tags
    BY <1>2, <2>1, FoundIsTag DEF MuxInit, Audio
  <2>4. FrameRate \in Nat \ {0}
    <3>1. Video.fps \in Nat
      BY <2>2 DEF TransmuxerAssumption, TagTyped
    <3>2. ASSUME Meta # None PROVE Meta.fps \in Nat
      <4>1. Meta \in Tags /\ Meta.type \in {"meta"}
        BY <2>1, <3>2, FoundIsTag DEF Meta
      <4> QED BY <4>1 DEF TransmuxerAssumption, TagTyped
    <3>3. FrameRate # 0
      BY <1>2 DEF MuxInit, Sound
    <3> QED BY <3>1, <3>2, <3>3 DEF FrameRate
  <2>5. settings' \in Settings
    BY <1>2, <2>2, <2>3, <2>4 DEF MuxInit, Settings
  <2>6. None \notin Settings
    BY DEF TransmuxerAssumption, Settings
  <2>7. segments = <<>> /\ gone = 0 /\ seq = 1 /\ \A track \in Tracks : end[track] = 0
    BY <1>2, <2>1, <2>6 DEF MuxInit, Settled
  <2> DEFINE new == [type |-> "init", settings |-> settings']
  <2>8. new \in Records
    BY <2>5 DEF Records
  <2>9. segments' = <<new>>
    BY <1>2, <2>7 DEF MuxInit
  <2> HIDE DEF new
  <2>10. segments' \in Seq(Records) /\ Len(segments') = 1 /\ DOMAIN segments' = {1}
         /\ segments'[1] = new
    BY <2>8, <2>9
  <2>11. segments'[1].type = "init"
    BY <2>10 DEF new
  <2>12. UNCHANGED <<setup, tags, seq, end, last, fed, gone>>
    BY <1>2 DEF MuxInit
  <2>13. Queue'
    BY <2>1, <2>12 DEF Queue
  <2>14. Settled'
    BY <2>1, <2>5, <2>7, <2>10, <2>11, <2>12 DEF Settled
  <2>15. Media' = {} /\ \A track : OnTrack(track)' = {}
    BY <2>10, <2>11 DEF Media, OnTrack
  <2>16. Chained'
    BY <2>7, <2>12, <2>15 DEF Chained
  <2>17. Covered'
    BY <2>7, <2>12, <2>15 DEF Covered
  <2> QED BY <2>13, <2>14, <2>15, <2>16, <2>17 DEF TransmuxerInv
<1> QED BY <1>1, <1>2

LEMMA MuxNothingKeeps ==
    ASSUME TransmuxerInv, MuxNothing
    PROVE  TransmuxerInv'
<1>1. Queue /\ Settled /\ Covered
    BY DEF TransmuxerInv
<1>2. /\ Of(Frames) = {} /\ tags' = <<>> /\ gone' = gone + Len(tags) /\ settings # None
      /\ UNCHANGED <<setup, settings, seq, end, last, fed, segments>>
    BY DEF MuxNothing
<1>3. Len(tags) \in Nat /\ gone \in Nat /\ Len(fed) = gone + Len(tags)
      /\ DOMAIN tags = 1 .. Len(tags) /\ gone' \in Nat /\ gone <= gone'
    BY <1>1, <1>2 DEF Queue
<1>4. Queue'
    BY <1>1, <1>2, <1>3 DEF Queue
<1>5. Settled'
    BY <1>1, <1>2 DEF Settled
<1>6. (\A i \in Media' : Good(i)') /\ Chained' /\ Media' = Media
    BY <1>2, <1>3, SegmentsStay
<1>7. ASSUME NEW i \in 1 .. gone', fed[i].type \in Frames
      PROVE  i \in 1 .. gone
  <2>1. CASE i > gone
    <3>1. i - gone \in 1 .. Len(tags) /\ gone + (i - gone) = i
      BY <1>2, <1>3, <2>1
    <3>2. tags[i - gone] = fed[i]
      BY <1>1, <3>1 DEF Queue
    <3>3. i - gone \in Of(Frames)
      BY <1>3, <1>7, <3>1, <3>2 DEF Of
    <3> QED BY <1>2, <3>3
  <2> QED BY <1>3, <2>1
<1>8. {i \in 1 .. gone' : fed'[i].type \in Frames} = {i \in 1 .. gone : fed[i].type \in Frames}
    BY <1>2, <1>3, <1>7
<1>9. Covered'
    BY <1>1, <1>2, <1>6, <1>8 DEF Covered
<1> QED BY <1>4, <1>5, <1>6, <1>9 DEF TransmuxerInv

\* What is left after position i.
LEMMA AfterPosition ==
    ASSUME NEW S, NEW s \in Seq(S), NEW i \in 1 .. Len(s)
    PROVE  /\ SubSeq(s, i + 1, Len(s)) \in Seq(S)
           /\ Len(SubSeq(s, i + 1, Len(s))) = Len(s) - i
           /\ \A j \in 1 .. Len(s) - i : SubSeq(s, i + 1, Len(s))[j] = s[i + j]
<1>1. Len(s) \in Nat /\ \A j \in 1 .. Len(s) : s[j] \in S
    OBVIOUS
<1>2. SubSeq(s, i + 1, Len(s)) = [j \in 1 .. Len(s) - i |-> s[i + j]]
    BY <1>1
<1>3. \A j \in 1 .. Len(s) - i : i + j \in 1 .. Len(s)
    BY <1>1
<1> QED BY <1>1, <1>2, <1>3

\* The one that takes a frame.
LEMMA MuxMediaKeeps ==
    ASSUME TransmuxerAssumption, TransmuxerInv, MuxMedia
    PROVE  TransmuxerInv'
<1> USE DEF Tracks
<1>1. Queue /\ Settled /\ Covered /\ Chained /\ \A j \in Media : Good(j)
    BY DEF TransmuxerInv
<1>2. settings \in Settings /\ Len(segments) = seq /\ seq >= 1 /\ seq \in Nat
    BY <1>1 DEF MuxMedia, Settled
<1>3. PICK i \in NextFrame :
        /\ segments' = Append(segments,
            [type |-> "media", seq |-> seq, traf |-> Fragment(tags[i]), track |-> Track(tags[i]),
             time |-> end[Track(tags[i])],
             keyframe |-> Track(tags[i]) = "video" /\ tags[i].key,
             data |-> gone + i])
        /\ tags' = SubSeq(tags, i + 1, Len(tags)) /\ gone' = gone + i
        /\ seq' = seq + 1
        /\ end' = Advance(tags[i])
        /\ last' = Clock(tags[i])
    BY DEF MuxMedia
<1> DEFINE tag   == tags[i]
           track == Track(tag)
           keyframe == track = "video" /\ tag.key
           traf  == Fragment(tag)
           new   == [type |-> "media", seq |-> seq, traf |-> traf, track |-> track,
                     time |-> end[track], keyframe |-> keyframe, data |-> gone + i]
<1>0. PICK n \in Nat : n = seq + 1
    BY <1>2
<1>4. /\ tags \in Seq(Tags) /\ Len(tags) \in Nat /\ DOMAIN tags = 1 .. Len(tags)
      /\ fed \in Seq(Tags) /\ gone \in Nat /\ Len(fed) = gone + Len(tags)
      /\ \A j \in 1 .. Len(tags) : tags[j] = fed[gone + j]
      /\ segments \in Seq(Records) /\ last \in Nat /\ end \in [Tracks -> Nat]
  <2>1. /\ tags \in Seq(Tags) /\ fed \in Seq(Tags) /\ gone \in Nat /\ Len(fed) = gone + Len(tags)
        /\ \A j \in 1 .. Len(tags) : tags[j] = fed[gone + j]
    BY <1>1 DEF Queue
  <2>2. segments \in Seq(Records) /\ last \in Nat /\ end \in [Tracks -> Nat]
    BY <1>1 DEF Settled
  <2>3. Len(tags) \in Nat /\ DOMAIN tags = 1 .. Len(tags)
    BY <2>1, LenProperties
  <2> QED BY <2>1, <2>2, <2>3
<1>5. /\ i \in 1 .. Len(tags) /\ tag \in Tags /\ tag.type \in Frames /\ tag = fed[gone + i]
      /\ \A j \in 1 .. i - 1 : tags[j].type \notin Frames
  <2>1. /\ i \in DOMAIN tags /\ tags[i].type \in Frames
        /\ \A j \in 1 .. i - 1 : tags[j].type \notin Frames
    BY DEF NextFrame
  <2>2. i \in 1 .. Len(tags)
    BY <1>4, <2>1
  <2>3. tags[i] \in Tags
    BY <1>4, <2>2, ElementOfSeq
  <2> QED BY <1>4, <2>1, <2>2, <2>3
<1>6. UNCHANGED <<setup, settings, fed>>
    BY DEF MuxMedia
<1>7. track \in Tracks /\ end[track] \in Nat
    BY <1>4 DEF Track
<1>8. TagTyped(tag)
    BY <1>5 DEF TransmuxerAssumption
<1>9. keyframe \in BOOLEAN
    OBVIOUS
<1>10. /\ Sample(tag) \in [duration : Nat, size : Nat, flags : {"sync", "depends"},
                           cto : Int \union {None}]
       /\ Sample(tag).size = tag.size
       /\ Sample(tag).flags = IF tag.type = "audio" \/ tag.key THEN "sync" ELSE "depends"
       /\ IF tag.type \in {"audio", "av1"} THEN Sample(tag).cto = None
          ELSE /\ Sample(tag).cto \in Int
               /\ Sample(tag).cto <= CastOffset(tag, tag.cto * settings.fps)
               /\ CastOffset(tag, tag.cto * settings.fps) < Sample(tag).cto + Second
    BY <1>2, <1>4, <1>5, SampleFits
<1>11. Keeps(traf, Sample(tag), end[track])
    BY <1>7, <1>10, FragmentKeeps
<1>12. /\ end' = [end EXCEPT ![track] = @ + Sample(tag).duration]
       /\ last' = IF track = "video" THEN tag.ts ELSE last
    BY <1>3 DEF Advance, Clock
<1>13. last' \in Nat
    BY <1>4, <1>5, <1>8, <1>12 DEF Track, TagTyped
<1> HIDE DEF tag, track, keyframe, traf
<1>14. /\ Effective(traf, 1, "duration") = Sample(tag).duration
       /\ Effective(traf, 1, "size") = Sample(tag).size
       /\ Effective(traf, 1, "flags") = Sample(tag).flags
       /\ Effective(traf, 1, "cto") = IF Sample(tag).cto = None THEN 0 ELSE Sample(tag).cto
  <2>1. \A f \in SampleFields :
            Effective(traf, 1, f) = IF Sample(tag)[f] = None THEN 0 ELSE Sample(tag)[f]
    BY <1>11 DEF Keeps
  <2>2. /\ Sample(tag).duration \in Nat /\ Sample(tag).size \in Nat
        /\ Sample(tag).flags \in {"sync", "depends"}
    BY <1>10
  <2>3. None \notin Nat /\ None \notin {"sync", "depends"}
    BY DEF TransmuxerAssumption
  <2> QED BY <2>1, <2>2, <2>3 DEF SampleFields
<1>15. traf \in Trafs(Values) /\ traf.tfdt = end[track]
    BY <1>11 DEF Keeps
<1>16. new \in Records
    BY <1>2, <1>4, <1>5, <1>7, <1>9, <1>15 DEF Records, keyframe
<1>17. segments' = Append(segments, new)
    BY <1>3 DEF tag, track, keyframe, traf
<1>18. /\ new.type = "media" /\ new.seq = seq /\ new.traf = traf /\ new.track = track
       /\ new.keyframe = keyframe /\ new.data = gone + i
    OBVIOUS
<1> HIDE DEF new
<1>19. /\ segments' \in Seq(Records) /\ Len(segments') = n /\ DOMAIN segments' = 1 .. n
       /\ DOMAIN segments = 1 .. seq
       /\ segments'[n] = new /\ \A j \in 1 .. seq : segments'[j] = segments[j]
    BY <1>0, <1>2, <1>4, <1>16, <1>17
<1>20. Queue'
  <2>1. /\ tags' = SubSeq(tags, i + 1, Len(tags)) /\ gone' = gone + i
    BY <1>3
  <2>2. /\ tags' \in Seq(Tags) /\ Len(tags') = Len(tags) - i
        /\ \A j \in 1 .. Len(tags') : tags'[j] = tags[i + j]
    <3>1. tags \in Seq(Tags) /\ i \in 1 .. Len(tags)
      BY <1>4, <1>5
    <3>2. /\ SubSeq(tags, i + 1, Len(tags)) \in Seq(Tags)
          /\ Len(SubSeq(tags, i + 1, Len(tags))) = Len(tags) - i
          /\ \A j \in 1 .. Len(tags) - i : SubSeq(tags, i + 1, Len(tags))[j] = tags[i + j]
      BY ONLY <3>1, AfterPosition
    <3> QED BY <2>1, <3>2
  <2>3. ASSUME NEW j \in 1 .. Len(tags')
        PROVE  tags'[j] = fed'[gone' + j]
    <3>1. /\ i \in Nat /\ gone \in Nat /\ Len(tags) \in Nat /\ j \in Nat
          /\ i >= 1 /\ j >= 1 /\ j <= Len(tags) - i
      BY ONLY <1>4, <1>5, <2>2, <2>3
    <3>2. i + j \in 1 .. Len(tags) /\ gone + (i + j) = (gone + i) + j
      BY ONLY <3>1
    <3> QED BY <1>4, <1>6, <2>1, <2>2, <2>3, <3>2
  <2>4. gone' \in Nat /\ Len(fed') = gone' + Len(tags')
    <3>1. /\ i \in Nat /\ gone \in Nat /\ Len(tags) \in Nat /\ i <= Len(tags)
          /\ Len(fed) = gone + Len(tags)
      BY ONLY <1>4, <1>5
    <3>2. gone + i \in Nat /\ gone + Len(tags) = (gone + i) + (Len(tags) - i)
      BY ONLY <3>1
    <3> QED BY <1>6, <2>1, <2>2, <3>1, <3>2
  <2>5. setup' \in Setups /\ fed' \in Seq(Tags)
    BY <1>1, <1>4, <1>6 DEF Queue
  <2> QED BY <2>2, <2>3, <2>4, <2>5 DEF Queue
<1>21. end' \in [Tracks -> Nat]
    BY <1>4, <1>7, <1>10, <1>12
<1>22. Settled'
  <2>1. \A j \in DOMAIN segments' : segments'[j].type = "init" <=> j = 1
    BY <1>0, <1>1, <1>2, <1>18, <1>19 DEF Settled
  <2>2. seq' = seq + 1
    BY <1>3
  <2> QED BY <1>0, <1>2, <1>6, <1>13, <1>19, <1>21, <2>1, <2>2 DEF Settled
<1>23. /\ Media' = Media \union {n} /\ Media \subseteq 1 .. seq /\ n \notin Media
       /\ \A j \in Media : segments'[j] = segments[j]
  <2>1. Media \subseteq 1 .. seq
    BY <1>19 DEF Media
  <2>2. Media' = {j \in 1 .. n : segments'[j].type = "media"}
    BY <1>19 DEF Media
  <2>3. Media = {j \in 1 .. seq : segments[j].type = "media"}
    BY <1>19 DEF Media
  <2> QED BY <1>0, <1>2, <1>18, <1>19, <2>1, <2>2, <2>3
<1>24. \A j \in Media' : Good(j)'
  <2>1. ASSUME NEW j \in Media
        PROVE  Good(j)'
    <3>1. Good(j)
      BY <1>1
    <3>2. segments'[j] = segments[j] /\ settings' = settings /\ fed' = fed
      BY <1>6, <1>23
    <3>3. segments[j].data \in 1 .. gone'
      BY <1>3, <1>4, <1>5, <3>1, SMTT(60) DEF Good
    <3>4. TagOf(j)' = TagOf(j)
      BY <3>2 DEF TagOf
    <3> QED BY <3>1, <3>2, <3>3, <3>4 DEF Good
  <2>2. Good(n)'
    <3>1. TagOf(n)' = tag
      BY <1>5, <1>6, <1>18, <1>19 DEF TagOf
    <3>2. gone + i \in 1 .. gone'
      BY <1>3, <1>4, <1>5
    <3>3. (track = "audio" \/ keyframe) <=> (tag.type = "audio" \/ tag.key)
      BY <1>5, <1>8 DEF track, keyframe, Track, TagTyped
    <3>4. Told(new, tag, settings.fps)
      <4>1. Valid(traf) /\ traf.trun.offset = 2 + MoofSize(traf, traf.tfdt > Narrow)
            /\ TrunSize(traf.trun) = TrunWritten(traf.trun)
        BY <1>11 DEF Keeps
      <4>2. Effective(traf, 1, "size") = tag.size
        BY <1>10, <1>14 DEF tag
      <4>3. Effective(traf, 1, "flags") = IF track = "audio" \/ keyframe THEN "sync" ELSE "depends"
        BY <1>10, <1>14, <3>3
      <4>4. None \notin Int
        BY DEF TransmuxerAssumption
      <4>5. IF tag.type \in {"audio", "av1"} THEN Effective(traf, 1, "cto") = 0
            ELSE /\ Effective(traf, 1, "cto") <= CastOffset(tag, tag.cto * settings.fps)
                 /\ CastOffset(tag, tag.cto * settings.fps) < Effective(traf, 1, "cto") + Second
        BY <1>10, <1>14, <4>4
      <4> QED BY <1>18, <4>1, <4>2, <4>3, <4>5 DEF Told
    <3>5. new.seq = n - 1
      BY <1>0, <1>2, <1>18
    <3> QED BY <1>5, <1>6, <1>7, <1>18, <1>19, <3>1, <3>2, <3>4, <3>5 DEF Good
  <2> QED BY <1>23, <2>1, <2>2
<1>25. Covered'
  <2>1. {j \in 1 .. gone' : fed'[j].type \in Frames}
            = {j \in 1 .. gone : fed[j].type \in Frames} \union {gone + i}
    <3>0. gone \in Nat /\ i \in Nat /\ i >= 1 /\ gone' = gone + i
      BY <1>3, <1>4, <1>5
    <3>1. ASSUME NEW j \in 1 .. gone', fed[j].type \in Frames, ~(j <= gone)
          PROVE  j = gone + i
      <4>1. j - gone \in 1 .. i /\ gone + (j - gone) = j
        BY <3>0, <3>1
      <4>2. tags[j - gone] = fed[j]
        BY <1>4, <1>5, <4>1
      <4>3. j - gone \notin 1 .. i - 1
        BY <1>5, <3>1, <4>2
      <4> QED BY <1>4, <1>5, <4>1, <4>3
    <3>2. gone + i \in 1 .. gone' /\ fed[gone + i].type \in Frames
      BY <1>5, <3>0
    <3>3. \A j \in 1 .. gone : j \in 1 .. gone'
      BY <3>0
    <3>4. \A j \in 1 .. gone' : j <= gone => j \in 1 .. gone
      BY <3>0
    <3> QED BY <1>6, <3>1, <3>2, <3>3, <3>4
  <2>2. {segments'[j].data : j \in Media'} = {segments[j].data : j \in Media} \union {gone + i}
    BY <1>18, <1>19, <1>23
  <2>3. \A j \in Media : segments[j].data \in 1 .. gone
    BY <1>1 DEF Good
  <2>4. \A j, k \in Media' : j < k => segments'[j].data < segments'[k].data
    <3> SUFFICES ASSUME NEW j \in Media', NEW k \in Media', j < k
                 PROVE  segments'[j].data < segments'[k].data
      OBVIOUS
    <3>1. j \in Media
      <4>1. (j \in Media \/ j = n) /\ (k \in 1 .. seq \/ k = n)
        BY <1>23
      <4>2. \A l \in 1 .. seq : ~(n < l)
        BY ONLY <1>0, <1>2
      <4>3. ~(n < n)
        BY ONLY <1>0
      <4> QED BY <4>1, <4>2, <4>3
    <3>2. CASE k = n
      <4>1. segments'[j].data = segments[j].data /\ segments'[k].data = gone + i
        BY <1>18, <1>19, <1>23, <3>1, <3>2
      <4>2. segments[j].data \in 1 .. gone /\ i \in Nat /\ i >= 1 /\ gone \in Nat
        BY <1>4, <1>5, <2>3, <3>1
      <4>3. segments[j].data < gone + i
        BY ONLY <4>2
      <4> QED BY ONLY <4>1, <4>3
    <3>3. CASE k \in Media
      BY <1>1, <1>23, <3>1, <3>3 DEF Covered
    <3> QED BY <1>23, <3>2, <3>3
  <2> QED BY <1>1, <2>1, <2>2, <2>4 DEF Covered
<1> DEFINE OverNext(j) == segments'[j].traf.tfdt + Effective(segments'[j].traf, 1, "duration")
<1>26. \A j \in Media : OverNext(j) = Over(j)
    BY <1>23 DEF Over
<1>27. \A t \in Tracks : OnTrack(t)' = OnTrack(t) \union (IF t = track THEN {n} ELSE {})
    BY <1>18, <1>19, <1>23 DEF OnTrack
<1>28. \A t \in Tracks : OnTrack(t) \subseteq Media
    BY DEF OnTrack
<1>29. \A A : A \subseteq Media /\ A # {} => Greatest(A) \in A
    BY <1>2, <1>23, GreatestIsThere
<1>30. \A t \in Tracks :
        end'[t] = IF OnTrack(t)' = {} THEN 0 ELSE OverNext(Greatest(OnTrack(t)'))
  <2> SUFFICES ASSUME NEW t \in Tracks
               PROVE  end'[t] = IF OnTrack(t)' = {} THEN 0 ELSE OverNext(Greatest(OnTrack(t)'))
    OBVIOUS
  <2>1. CASE t # track
    <3>1. OnTrack(t)' = OnTrack(t) /\ end'[t] = end[t]
      BY <1>4, <1>7, <1>12, <1>27, <2>1
    <3>2. OnTrack(t) # {} => OverNext(Greatest(OnTrack(t))) = Over(Greatest(OnTrack(t)))
      BY <1>26, <1>28, <1>29
    <3>3. end[t] = IF OnTrack(t) = {} THEN 0 ELSE Over(Greatest(OnTrack(t)))
      BY <1>1 DEF Chained
    <3> QED BY <3>1, <3>2, <3>3
  <2>2. CASE t = track
    <3>1. OnTrack(t)' = OnTrack(t) \union {n} /\ OnTrack(t) \subseteq 1 .. seq
      BY <1>23, <1>27, <1>28, <2>2
    <3>2. Greatest(OnTrack(t)') = n
      <4> DEFINE on == OnTrack(t) \union {n}
      <4>1. on \subseteq 1 .. n /\ on # {} /\ n \in on /\ n \in Nat
        <5>1. \A j \in 1 .. seq : j \in 1 .. n
          BY ONLY <1>0, <1>2
        <5>2. n \in 1 .. n
          BY ONLY <1>0, <1>2
        <5> QED BY ONLY <3>1, <5>1, <5>2
      <4> HIDE DEF on
      <4>2. Greatest(on) \in on /\ \A j \in on : j <= Greatest(on)
        BY ONLY <4>1, GreatestIsThere
      <4>3. Greatest(on) \in 1 .. n /\ n <= Greatest(on)
        BY ONLY <4>1, <4>2
      <4>4. Greatest(on) = n
        BY ONLY <4>1, <4>3
      <4> QED BY <3>1, <4>4 DEF on
    <3>3. OverNext(n) = end[track] + Sample(tag).duration
      BY <1>14, <1>15, <1>18, <1>19
    <3>4. end'[t] = end[track] + Sample(tag).duration
      BY <1>4, <1>7, <1>12, <2>2 DEF tag
    <3> QED BY <3>1, <3>2, <3>3, <3>4
  <2> QED BY <2>1, <2>2
<1>31. ASSUME NEW j \in Media', NEW t \in Tracks, segments'[j].track = t
       PROVE  StartFits(j, t)'
  <2> DEFINE after == {k \in OnTrack(t)' : k < j}
  <2> SUFFICES segments'[j].traf.tfdt = IF after = {} THEN 0 ELSE OverNext(Greatest(after))
    BY DEF StartFits, Over
  <2>1. CASE j = n
    <3>1. t = track /\ segments'[j].traf = traf
      BY <1>18, <1>19, <1>31, <2>1
    <3>2. after = OnTrack(t)
      <4>1. OnTrack(t)' = OnTrack(t) \union {n} /\ OnTrack(t) \subseteq 1 .. seq
        BY <1>23, <1>27, <1>28, <3>1
      <4>2. ~(n < n) /\ \A k \in 1 .. seq : k < n
        BY ONLY <1>0, <1>2
      <4> QED BY <2>1, <4>1, <4>2
    <3>3. OnTrack(t) # {} => OverNext(Greatest(OnTrack(t))) = Over(Greatest(OnTrack(t)))
      BY <1>26, <1>28, <1>29
    <3>4. end[t] = IF OnTrack(t) = {} THEN 0 ELSE Over(Greatest(OnTrack(t)))
      BY <1>1 DEF Chained
    <3> QED BY <1>15, <3>1, <3>2, <3>3, <3>4
  <2>2. CASE j \in Media
    <3>1. segments'[j] = segments[j]
      BY <1>23, <2>2
    <3> DEFINE before == {k \in OnTrack(t) : k < j}
    <3>2. after = before
      BY <1>0, <1>2, <1>23, <1>27, <1>28, <2>2
    <3>3. segments[j].traf.tfdt = IF before = {} THEN 0 ELSE Over(Greatest(before))
      BY <1>1, <1>31, <2>2, <3>1 DEF Chained, StartFits
    <3>4. before # {} => OverNext(Greatest(before)) = Over(Greatest(before))
      <4>1. before \subseteq Media
        BY <1>28
      <4> QED BY <1>26, <1>29, <4>1
    <3> QED BY <3>1, <3>2, <3>3, <3>4
  <2> QED BY <1>23, <2>1, <2>2
<1>32. Chained'
    BY <1>30, <1>31 DEF Chained, Over
<1> QED BY <1>20, <1>22, <1>24, <1>25, <1>32 DEF TransmuxerInv

\* The invariant holds of the transmuxer.
LEMMA Invariant == ASSUME TransmuxerAssumption PROVE Spec => []TransmuxerInv
<1>1. Init => TransmuxerInv
    BY InvInit
<1>2. TransmuxerInv /\ [Next]_vars => TransmuxerInv'
  <2> SUFFICES ASSUME TransmuxerInv, [Next]_vars PROVE TransmuxerInv'
    OBVIOUS
  <2>1. CASE MuxWaits \/ MuxInitFails \/ MuxInit
    BY <2>1, MuxHeadersKeeps
  <2>2. CASE MuxMedia
    BY <2>2, MuxMediaKeeps
  <2>3. CASE MuxNothing
    BY <2>3, MuxNothingKeeps
  <2>4. ASSUME NEW tag \in setup.more, AddTag(tag)
        PROVE  TransmuxerInv'
    <3>1. setup \in [first : Seq(Tags), more : SUBSET Tags]
      BY DEF TransmuxerAssumption, TransmuxerInv, Queue
    <3>2. tag \in Tags
      BY <3>1
    <3> QED BY <2>4, <3>2, AddTagKeeps
  <2>5. CASE UNCHANGED vars
    <3>1. UNCHANGED <<setup, tags, settings, seq, end, last, fed, gone, segments>>
      BY <2>5 DEF vars, history
    <3>2. (\A i \in Media' : Good(i)') /\ Chained' /\ Media' = Media
      BY <3>1, SegmentsStay DEF TransmuxerInv, Queue
    <3> QED BY <3>1, <3>2 DEF TransmuxerInv, Queue, Settled, Covered
  <2> QED BY <2>1, <2>2, <2>3, <2>4, <2>5 DEF Next, Mux
<1> QED BY <1>1, <1>2, PTL DEF Spec

(* For any stream, however its tags and the calls of mux interleave: each    *)
(* frame goes out once and in order, after one initial segment, numbered and *)
(* placed without gaps.                                                      *)
THEOREM TransmuxerFollowsTags == ASSUME TransmuxerAssumption PROVE Spec => []SegmentsFollowTags
<1>1. TransmuxerInv => SegmentsFollowTags
    BY InvSuffices
<1> QED BY <1>1, Invariant, PTL

(* For any stream: what optimize leaves of a fragment can be written, its    *)
(* payload is where its offset says, and a player finds in it what the tag   *)
(* said.                                                                     *)
THEOREM TransmuxerKeepsSamples == ASSUME TransmuxerAssumption PROVE Spec => []SamplesKept
<1>1. TransmuxerInv => SamplesKept
    BY InvSuffices
<1> QED BY <1>1, Invariant, PTL
-----------------------------------------------------------------------------
(* The pace of the video. *)

\* And a first one.
LEMMA LeastIsThere ==
    ASSUME NEW n \in Nat, NEW S, S \subseteq 1 .. n, S # {}
    PROVE  Least(S) \in S /\ \A j \in S : Least(S) <= j
<1> DEFINE T == {k \in 1 .. n : n + 1 - k \in S}
           g == Greatest(T)
<1>1. \A j \in S : n + 1 - j \in T
  <2> SUFFICES ASSUME NEW j \in S PROVE n + 1 - j \in T
    OBVIOUS
  <2>1. j \in 1 .. n
    OBVIOUS
  <2>2. n + 1 - j \in 1 .. n /\ n + 1 - (n + 1 - j) = j
    BY <2>1
  <2> QED BY <2>2
<1>2. T \subseteq 1 .. n /\ T # {}
    BY <1>1
<1>3. \A k \in T : n + 1 - k \in S
    OBVIOUS
<1> HIDE DEF T
<1>4. g \in T /\ \A k \in T : k <= g
    BY <1>2, GreatestIsThere
<1>5. n + 1 - g \in S
    BY <1>3, <1>4
<1>6. ASSUME NEW j \in S PROVE n + 1 - g <= j
  <2>1. n + 1 - j <= g /\ g \in 1 .. n /\ j \in 1 .. n
    BY <1>1, <1>2, <1>4
  <2> QED BY <2>1
<1> QED BY <1>5, <1>6 DEF Least

\* A later position is not the first one.
LEMMA LeastStays ==
    ASSUME NEW n \in Nat, NEW S, S \subseteq 1 .. n, S # {}
    PROVE  Least(S \union {n + 1}) = Least(S)
<1> DEFINE T == S \union {n + 1}
<1>1. Least(S) \in S /\ \A j \in S : Least(S) <= j
    BY LeastIsThere
<1>2. T \subseteq 1 .. n + 1 /\ T # {} /\ n + 1 \in Nat
    OBVIOUS
<1>3. Least(T) \in T /\ \A j \in T : Least(T) <= j
    BY <1>2, LeastIsThere
<1>4. Least(S) \in 1 .. n /\ Least(S) \in T
    BY <1>1
<1>5. Least(T) <= Least(S) /\ Least(T) \in 1 .. n + 1
    BY <1>2, <1>3, <1>4
<1>6. Least(T) # n + 1
    BY <1>4, <1>5
<1>7. Least(S) <= Least(T)
    BY <1>1, <1>3, <1>6
<1> QED BY <1>4, <1>5, <1>7

\* What a frame takes is not more than what the clock says but for a millisecond's ticks,
\* nor less if a duration can hold it.
LEMMA TicksClose ==
    ASSUME TransmuxerAssumption, NEW delta \in Nat, NEW fps \in Nat
    PROVE  /\ Ticks(delta, fps) \in Nat /\ Ticks(delta, fps) <= delta * fps + fps
           /\ delta * fps <= Narrow => delta * fps <= Ticks(delta, fps) + fps
<1> DEFINE x == delta * fps
<1>1. x \in Nat /\ Second \in Nat /\ Narrow \in Nat
    BY DEF TransmuxerAssumption
<1>2. Ticks(delta, fps) = IF Distance(x, Second) <= fps THEN Second ELSE Cast(x, 0, Narrow)
    BY DEF Ticks
<1> HIDE DEF x
<1>3. Distance(x, Second) <= fps => Second <= x + fps /\ x <= Second + fps
    BY <1>1 DEF Distance
<1>4. /\ Cast(x, 0, Narrow) \in Nat /\ Cast(x, 0, Narrow) <= x
      /\ x <= Narrow => Cast(x, 0, Narrow) = x
    BY <1>1 DEF Cast
<1>5. /\ Ticks(delta, fps) \in Nat /\ Ticks(delta, fps) <= x + fps
      /\ x <= Narrow => x <= Ticks(delta, fps) + fps
    BY <1>1, <1>2, <1>3, <1>4
<1> QED BY <1>5 DEF x

\* The time of two frames adds up.
LEMMA TimesAdd ==
    ASSUME NEW r \in Int, NEW s \in Int, NEW t \in Int, NEW fps \in Int, NEW c \in Int
    PROVE  /\ (s - r) * fps + (t - s) * fps = (t - r) * fps
           /\ fps * c + fps = fps * (c + 1)
<1>1. \A x \in Int, y \in Int : (x + y) * fps = x * fps + y * fps
    OBVIOUS
<1>2. s - r \in Int /\ t - s \in Int /\ (s - r) + (t - s) = t - r
    OBVIOUS
<1>3. fps * c + fps = fps * (c + 1)
    OBVIOUS
<1> QED BY <1>1, <1>2, <1>3

\* the video's segments, and the assumption of InSync about their timestamps
Shown == OnTrack("video")
Rising == \A i, j \in Shown : 0 < TagOf(i).ts /\ (i < j => TagOf(i).ts <= TagOf(j).ts)

\* at most so far ahead, and so far behind
Paces(over, due, slack, unbroken) == over <= due + slack /\ (unbroken => due <= over + slack)

PacedAt(i) ==
    Paces(Over(i), Second + (TagOf(i).ts - TagOf(Least(Shown)).ts) * settings.fps,
          settings.fps * Cardinality({j \in Shown : j < i}), Unbroken)

\* last_video_timestamp is that of the last video segment, whatever audio came since
Clocked ==
    /\ \A i \in Shown : TagOf(i).ts \in Nat
    /\ last = IF Shown = {} THEN 0 ELSE TagOf(Greatest(Shown)).ts

SyncInv == TransmuxerInv /\ Clocked /\ (Rising => \A i \in Shown : PacedAt(i))

\* What mux adds with a frame.
LEMMA FrameMuxed ==
    ASSUME TransmuxerAssumption, TransmuxerInv, MuxMedia
    PROVE  /\ settings' = settings /\ settings \in Settings
           /\ Len(segments) \in Nat /\ Media \subseteq 1 .. Len(segments)
           /\ \A i \in Media : segments'[i] = segments[i] /\ TagOf(i)' = TagOf(i)
           /\ \E tag \in Tags, n \in Nat :
                /\ n = Len(segments) + 1
                /\ tag.type \in Frames
                /\ Media' = Media \union {n}
                /\ segments'[n].track = Track(tag)
                /\ TagOf(n)' = tag
                /\ Over(n)' = end[Track(tag)] + Sample(tag).duration
                /\ last' = Clock(tag)
<1>1. Queue /\ Settled /\ settings \in Settings /\ \A j \in Media : Good(j)
    BY DEF TransmuxerInv, MuxMedia, Settled
<1>2. UNCHANGED <<settings, fed>>
    BY DEF MuxMedia
<1>3. PICK i \in NextFrame :
        /\ segments' = Append(segments,
            [type |-> "media", seq |-> seq, traf |-> Fragment(tags[i]), track |-> Track(tags[i]),
             time |-> end[Track(tags[i])],
             keyframe |-> Track(tags[i]) = "video" /\ tags[i].key,
             data |-> gone + i])
        /\ last' = Clock(tags[i])
    BY DEF MuxMedia
<1> DEFINE tag == tags[i]
           new == [type |-> "media", seq |-> seq, traf |-> Fragment(tag), track |-> Track(tag),
                   time |-> end[Track(tag)], keyframe |-> Track(tag) = "video" /\ tag.key,
                   data |-> gone + i]
<1>4. /\ i \in 1 .. Len(tags) /\ tag.type \in Frames /\ tag \in Tags /\ tag = fed[gone + i]
    BY <1>1 DEF NextFrame, Queue
<1>5. last \in Nat /\ end \in [Tracks -> Nat] /\ segments \in Seq(Records)
    BY <1>1 DEF Settled
<1>6. /\ Sample(tag) \in [duration : Nat, size : Nat, flags : {"sync", "depends"},
                          cto : Int \union {None}]
    BY <1>1, <1>4, <1>5, SampleFits
<1>7. Track(tag) \in Tracks
    BY DEF Track, Tracks
<1>8. end[Track(tag)] \in Nat
    BY <1>5, <1>7
<1>9. Keeps(Fragment(tag), Sample(tag), end[Track(tag)])
    BY <1>6, <1>8, FragmentKeeps
<1>10. /\ Fragment(tag).tfdt = end[Track(tag)]
       /\ Effective(Fragment(tag), 1, "duration") = Sample(tag).duration
  <2>1. Sample(tag).duration \in Nat /\ None \notin Nat
    BY <1>6 DEF TransmuxerAssumption
  <2>2. Effective(Fragment(tag), 1, "duration")
            = IF Sample(tag)["duration"] = None THEN 0 ELSE Sample(tag)["duration"]
    BY <1>9 DEF Keeps, SampleFields
  <2> QED BY <1>9, <2>1, <2>2 DEF Keeps
<1>11. new.type = "media" /\ new.track = Track(tag) /\ new.data = gone + i
       /\ new.traf = Fragment(tag)
    OBVIOUS
<1>12. segments' = Append(segments, new)
    BY <1>3
<1> HIDE DEF new
<1>0. PICK n \in Nat : n = Len(segments) + 1
    BY <1>5
<1>13. /\ Len(segments) \in Nat /\ DOMAIN segments = 1 .. Len(segments)
       /\ DOMAIN segments' = 1 .. n /\ segments'[n] = new
       /\ \A j \in 1 .. Len(segments) : segments'[j] = segments[j]
    BY <1>0, <1>5, <1>12
<1>14. Media' = Media \union {n} /\ Media \subseteq 1 .. Len(segments)
  <2>1. Media = {j \in 1 .. Len(segments) : segments[j].type = "media"}
    BY <1>13 DEF Media
  <2>2. Media' = {j \in 1 .. n : segments'[j].type = "media"}
    BY <1>13 DEF Media
  <2>3. \A j : j \in 1 .. n <=> j \in 1 .. Len(segments) \/ j = n
    BY <1>0, <1>13
  <2> QED BY <1>0, <1>11, <1>13, <2>1, <2>2, <2>3
<1>15. \A j \in Media : segments'[j] = segments[j] /\ TagOf(j)' = TagOf(j)
    BY <1>2, <1>13, <1>14 DEF TagOf
<1>16. TagOf(n)' = tag
    BY <1>2, <1>4, <1>11, <1>13 DEF TagOf
<1>17. Over(n)' = end[Track(tag)] + Sample(tag).duration
    BY <1>10, <1>11, <1>13 DEF Over
<1> QED BY <1>0, <1>1, <1>2, <1>3, <1>4, <1>11, <1>13, <1>14, <1>15, <1>16, <1>17
\* What is said of the video's segments stays true while there are no more of them.
LEMMA PaceStays ==
    ASSUME Shown' = Shown, Clocked, last' = last,
           Shown # {} => settings' = settings,
           \A i \in Shown : TagOf(i)' = TagOf(i) /\ Over(i)' = Over(i),
           Shown # {} => Least(Shown) \in Shown /\ Greatest(Shown) \in Shown,
           Rising => \A i \in Shown : PacedAt(i)
    PROVE  Clocked' /\ (Rising' => \A i \in Shown' : PacedAt(i)')
<1>1. Clocked'
    BY DEF Clocked
<1>2. Rising' => Rising
    BY DEF Rising
<1>3. Shown # {} => (Unbroken' <=> Unbroken)
    BY DEF Unbroken, Shown
<1>4. \A i \in Shown : PacedAt(i) => PacedAt(i)'
    BY <1>3 DEF PacedAt, Paces
<1> QED BY <1>1, <1>2, <1>4

\* A step that is not one of a frame leaves them.
LEMMA OthersPace ==
    ASSUME TransmuxerAssumption, SyncInv, TransmuxerInv',
           \/ MuxWaits \/ MuxInitFails \/ MuxInit \/ MuxNothing \/ UNCHANGED vars
           \/ \E tag \in setup.more : AddTag(tag)
    PROVE  SyncInv'
<1>1. Queue /\ Settled /\ (\A i \in Media : Good(i))
    BY DEF SyncInv, TransmuxerInv
<1>2. last' = last
    BY DEF MuxWaits, MuxInitFails, MuxInit, MuxNothing, AddTag, vars
<1>3. \A i \in 1 .. gone : fed'[i] = fed[i]
  <2>1. CASE \E tag \in setup.more : AddTag(tag)
    <3>1. PICK tag \in setup.more : fed' = Append(fed, tag)
      BY <2>1 DEF AddTag
    <3>2. \A i \in 1 .. Len(fed) : Append(fed, tag)[i] = fed[i]
      BY <1>1 DEF Queue
    <3>3. gone \in Nat /\ Len(tags) \in Nat /\ Len(fed) = gone + Len(tags)
      BY <1>1 DEF Queue
    <3> QED BY <3>1, <3>2, <3>3
  <2>2. CASE fed' = fed
    BY <2>2
  <2> QED BY <2>1, <2>2 DEF MuxWaits, MuxInitFails, MuxInit, MuxNothing, vars, history
<1>4. CASE segments' = segments /\ settings' = settings
  <2>1. Shown' = Shown /\ Media' = Media /\ Shown \subseteq Media
    BY <1>4 DEF Shown, OnTrack, Media
  <2>2. \A i \in Shown : TagOf(i)' = TagOf(i) /\ Over(i)' = Over(i)
    <3> SUFFICES ASSUME NEW i \in Shown PROVE TagOf(i)' = TagOf(i) /\ Over(i)' = Over(i)
      OBVIOUS
    <3>1. segments[i].data \in 1 .. gone
      BY <1>1, <2>1 DEF Good
    <3> QED BY <1>3, <1>4, <3>1 DEF TagOf, Over
  <2>3. Shown # {} => Least(Shown) \in Shown /\ Greatest(Shown) \in Shown
    <3>1. Shown \subseteq 1 .. Len(segments) /\ Len(segments) \in Nat
      BY <1>1 DEF Shown, OnTrack, Media, Settled
    <3> QED BY <3>1, LeastIsThere, GreatestIsThere
  <2> QED BY <1>2, <1>4, <2>1, <2>2, <2>3, PaceStays DEF SyncInv
<1>5. CASE MuxInit
  <2>1. segments = <<>>
    BY <1>1, <1>5 DEF MuxInit, Settled, Settings, TransmuxerAssumption
  <2>2. Shown = {}
    BY <2>1 DEF Shown, OnTrack, Media
  <2>3. Shown' = {}
    <3>1. \A i \in DOMAIN segments' : segments'[i].type = "init"
      BY <1>5, <2>1 DEF MuxInit
    <3> QED BY <3>1 DEF Shown, OnTrack, Media
  <2> QED BY <1>2, <2>2, <2>3 DEF SyncInv, Clocked
<1> QED BY <1>4, <1>5 DEF MuxWaits, MuxInitFails, MuxInit, MuxNothing, AddTag, vars, history

\* What a frame of the video takes: that of the initial frame, or what the clock says.
LEMMA DurationPaces ==
    ASSUME TransmuxerAssumption, settings \in Settings, NEW tag \in Tags,
           tag.type \in Frames, Track(tag) = "video"
    PROVE  /\ tag.ts \in Nat
           /\ last = 0 => Sample(tag).duration = Second
           /\ last \in Nat /\ 0 < last /\ last <= tag.ts =>
                /\ Sample(tag).duration \in Nat
                /\ Sample(tag).duration <= (tag.ts - last) * settings.fps + settings.fps
                /\ (tag.ts - last) * settings.fps <= Narrow =>
                        (tag.ts - last) * settings.fps <= Sample(tag).duration + settings.fps
<1>1. tag.type # "audio"
    BY DEF Track
<1>2. tag.ts \in Nat
    BY <1>1 DEF TransmuxerAssumption, TagTyped
<1>3. Sample(tag).duration = Duration(tag)
    BY <1>1 DEF Sample
<1>4. ASSUME last \in Nat, 0 < last, last <= tag.ts
      PROVE  /\ Duration(tag) \in Nat
             /\ Duration(tag) <= (tag.ts - last) * settings.fps + settings.fps
             /\ (tag.ts - last) * settings.fps <= Narrow =>
                     (tag.ts - last) * settings.fps <= Duration(tag) + settings.fps
  <2>1. tag.ts - last \in Nat /\ settings.fps \in Nat
    BY <1>2, <1>4 DEF Settings
  <2>2. Duration(tag) = Ticks(tag.ts - last, settings.fps)
    BY <1>2, <1>4 DEF Duration
  <2> QED BY <2>1, <2>2, TicksClose
<1> QED BY <1>2, <1>3, <1>4 DEF Duration

\* A frame that follows one keeps the pace that one had.
LEMMA FollowsPace ==
    ASSUME NEW over \in Int, NEW duration \in Int, NEW start \in Int, NEW before \in Int,
           NEW now \in Int, NEW fps \in Int, NEW count \in Int, NEW second \in Int
    PROVE  /\ /\ over <= second + (before - start) * fps + fps * count
              /\ duration <= (now - before) * fps + fps
              => over + duration <= second + (now - start) * fps + fps * (count + 1)
           /\ /\ second + (before - start) * fps <= over + fps * count
              /\ (now - before) * fps <= duration + fps
              => second + (now - start) * fps <= over + duration + fps * (count + 1)
<1> DEFINE x == (before - start) * fps
           y == (now - before) * fps
           z == (now - start) * fps
           m == fps * count
           k == fps * (count + 1)
<1>1. x \in Int /\ y \in Int /\ z \in Int /\ m \in Int /\ k \in Int
    OBVIOUS
<1>2. x + y = z /\ m + fps = k
    BY TimesAdd
<1> HIDE DEF x, y, z, m, k
<1>3. /\ over <= second + x + m /\ duration <= y + fps => over + duration <= second + z + k
      /\ second + x <= over + m /\ y <= duration + fps => second + z <= over + duration + k
    BY <1>1, <1>2
<1> QED BY <1>3 DEF x, y, z, m, k

\* The positions before one.
Before(S, i) == {j \in S : j < i}

LEMMA CountBefore ==
    ASSUME NEW n \in Nat, NEW S, S \subseteq 1 .. n, NEW i \in S, \A j \in S : j <= i
    PROVE  /\ Cardinality(Before(S, i)) \in Nat
           /\ Cardinality(Before(S, n + 1)) = Cardinality(Before(S, i)) + 1
<1> DEFINE before == {j \in S : j < i}
<1>1. before \subseteq 1 .. n /\ i \notin before
  <2>1. i \in Nat /\ ~(i < i)
    OBVIOUS
  <2> QED BY <2>1
<1>2. IsFiniteSet(1 .. n)
    BY FS_Interval
<1>3. IsFiniteSet(before)
    BY <1>1, <1>2, FS_Subset
<1>4. {j \in S : j < n + 1} = before \union {i}
  <2>1. \A j \in S : j < n + 1 /\ (j < i \/ j = i)
    OBVIOUS
  <2> QED BY <2>1
<1> HIDE DEF before
<1>5. Cardinality(before \union {i}) = Cardinality(before) + 1
    BY <1>1, <1>3, FS_AddElement
<1>6. Cardinality(before) \in Nat
    BY <1>3, FS_CardinalityType
<1> QED BY <1>4, <1>5, <1>6 DEF before, Before

\* The step of a frame.
LEMMA FramePaces ==
    ASSUME TransmuxerAssumption, SyncInv, TransmuxerInv', MuxMedia
    PROVE  SyncInv'
<1>1. TransmuxerInv /\ Clocked /\ (Rising => \A i \in Shown : PacedAt(i))
    BY DEF SyncInv
<1>2. /\ settings' = settings /\ settings \in Settings
      /\ Len(segments) \in Nat /\ Media \subseteq 1 .. Len(segments)
      /\ \A i \in Media : segments'[i] = segments[i] /\ TagOf(i)' = TagOf(i)
    BY <1>1, FrameMuxed
<1>3. PICK tag \in Tags, n \in Nat :
        /\ n = Len(segments) + 1
        /\ tag.type \in Frames
        /\ Media' = Media \union {n}
        /\ segments'[n].track = Track(tag)
        /\ TagOf(n)' = tag
        /\ Over(n)' = end[Track(tag)] + Sample(tag).duration
        /\ last' = Clock(tag)
    BY <1>1, FrameMuxed
<1>4. /\ Shown \subseteq Media
      /\ Shown' = Shown \union (IF Track(tag) = "video" THEN {n} ELSE {})
  <2>1. n \notin Media
    BY <1>2, <1>3
  <2>2. Shown = {i \in Media : segments[i].track = "video"}
    BY DEF Shown, OnTrack
  <2>3. Shown' = {i \in Media' : segments'[i].track = "video"}
    BY DEF Shown, OnTrack
  <2> QED BY <1>2, <1>3, <2>1, <2>2, <2>3
<1>5. \A i \in Shown : TagOf(i)' = TagOf(i) /\ Over(i)' = Over(i)
    BY <1>2, <1>4 DEF Over
<1>6. Shown # {} => /\ Least(Shown) \in Shown
                    /\ Greatest(Shown) \in Shown /\ \A j \in Shown : j <= Greatest(Shown)
    BY <1>2, <1>4, LeastIsThere, GreatestIsThere
<1>7. CASE Track(tag) # "video"
  <2>1. Shown' = Shown /\ last' = last
    BY <1>3, <1>4, <1>7 DEF Clock
  <2>2. Clocked' /\ (Rising' => \A i \in Shown' : PacedAt(i)')
    BY <1>1, <1>2, <1>5, <1>6, <2>1, PaceStays
  <2> QED BY <2>2 DEF SyncInv
<1>8. CASE Track(tag) = "video"
  <2>1. Shown' = Shown \union {n} /\ last' = tag.ts /\ tag.ts \in Nat
    BY <1>2, <1>3, <1>4, <1>8, DurationPaces DEF Clock
  <2>2. Shown \subseteq 1 .. Len(segments) /\ \A i \in Shown : i < n
    BY <1>2, <1>3, <1>4
  <2>3. Clocked'
    <3>1. \A i \in Shown' : (TagOf(i)').ts \in Nat
      <4>1. \A i \in Shown : TagOf(i).ts \in Nat
        BY <1>1 DEF Clocked
      <4> QED BY <1>3, <1>5, <2>1, <4>1
    <3>2. n = Greatest(Shown')
      <4> DEFINE on == Shown \union {n}
      <4>1. on \subseteq 1 .. n /\ on # {} /\ n \in on
        <5>1. (\A j \in 1 .. Len(segments) : j \in 1 .. n) /\ n \in 1 .. n
          BY <1>2, <1>3
        <5> QED BY <2>2, <5>1
      <4> HIDE DEF on
      <4>2. Greatest(on) \in on /\ \A j \in on : j <= Greatest(on)
        BY <4>1, GreatestIsThere
      <4>3. Greatest(on) \in 1 .. n /\ n <= Greatest(on)
        BY <4>1, <4>2
      <4>4. Greatest(on) = n
        BY <4>3
      <4> QED BY <2>1, <4>4 DEF on
    <3>3. n \in Shown' /\ (TagOf(n)').ts = last'
      BY <1>3, <2>1
    <3> QED BY <3>1, <3>2, <3>3 DEF Clocked, TagOf
  <2>4. ASSUME Rising' PROVE \A i \in Shown' : PacedAt(i)'
    <3>1. Rising
      BY <1>5, <2>1, <2>4 DEF Rising
    <3>0. Unbroken' => Unbroken
      <4> SUFFICES ASSUME Unbroken', NEW i \in Shown, NEW j \in Shown,
                          i < j, \A k \in Shown : k <= i \/ j <= k
                   PROVE  (TagOf(j).ts - TagOf(i).ts) * settings.fps <= Narrow
        BY DEF Unbroken, Shown
      <4>1. j <= n /\ i \in Shown' /\ j \in Shown' /\ \A k \in Shown' : k <= i \/ j <= k
        BY <1>2, <1>3, <2>1, <2>2
      <4>2. ((TagOf(j)').ts - (TagOf(i)').ts) * settings'.fps <= Narrow
        BY <4>1 DEF Unbroken, Shown, TagOf
      <4> QED BY <1>2, <1>5, <4>2
    <3>2. CASE Shown = {}
      <4>1. Shown' = {n} /\ Least({n}) = n /\ last = 0
        BY <1>1, <2>1, <3>2 DEF Least, Clocked
      <4>2. end["video"] = 0 /\ Sample(tag).duration = Second
        <5>1. end["video"] = 0
          BY <1>1, <3>2 DEF TransmuxerInv, Chained, Tracks, Shown
        <5>2. Sample(tag).duration = Second
          BY <1>2, <1>3, <1>8, <4>1, DurationPaces
        <5> QED BY <5>1, <5>2
      <4>3. Over(n)' = Second /\ Second \in Nat /\ settings.fps \in Nat
        BY <1>2, <1>3, <1>8, <4>2 DEF TransmuxerAssumption, Settings
      <4>4. {j \in {n} : j < n} = {}
        OBVIOUS
      <4>5. Paces(Second, Second + (tag.ts - tag.ts) * settings.fps,
                  settings.fps * Cardinality({j \in {n} : j < n}), Unbroken')
        <5> DEFINE x == (tag.ts - tag.ts) * settings.fps
                   m == settings.fps * Cardinality({j \in {n} : j < n})
        <5>1. x = 0
          BY <2>1, <4>3
        <5>2. m = 0
          <6>1. Cardinality({j \in {n} : j < n}) = 0
            BY <4>4, FS_EmptySet
          <6> QED BY <4>3, <6>1
        <5> HIDE DEF x, m
        <5>3. Paces(Second, Second + x, m, Unbroken')
          BY <4>3, <5>1, <5>2 DEF Paces
        <5> QED BY <5>3 DEF x, m
      <4>6. PacedAt(n)'
        BY <1>2, <1>3, <4>1, <4>3, <4>5 DEF PacedAt
      <4> QED BY <4>1, <4>6
    <3>3. CASE Shown # {}
      <4>1. PICK l \in Shown : l = Least(Shown) /\ l = Least(Shown')
        BY <1>2, <1>3, <1>6, <2>1, <2>2, <3>3, LeastStays
      <4>2. PICK start \in Nat : start = TagOf(l).ts /\ start = (TagOf(l)').ts
        BY <1>1, <1>5, <4>1 DEF Clocked
      <4>3. ASSUME NEW i \in Shown
            PROVE  PacedAt(i) <=> Paces(Over(i), Second + (TagOf(i).ts - start) * settings.fps,
                                        settings.fps * Cardinality({j \in Shown : j < i}), Unbroken)
        BY <4>1, <4>2 DEF PacedAt
      <4>4. ASSUME NEW i \in Shown'
            PROVE  PacedAt(i)' <=> Paces(Over(i)', Second + ((TagOf(i)').ts - start) * settings.fps,
                                         settings.fps * Cardinality({j \in Shown' : j < i}), Unbroken')
        BY <1>2, <4>1, <4>2 DEF PacedAt, TagOf
      <4>5. \A i \in Shown \union {n} : {j \in Shown' : j < i} = {j \in Shown : j < i}
        <5>1. \A i \in Shown \union {n} : ~(n < i)
          BY <1>2, <1>3, <2>2
        <5> QED BY <2>1, <5>1
      <4>6. ASSUME NEW i \in Shown PROVE PacedAt(i)'
        <5>1. PacedAt(i)
          BY <1>1, <3>1, <4>6
        <5>2. i \in Shown' /\ {j \in Shown' : j < i} = {j \in Shown : j < i}
          BY <2>1, <4>5
        <5> DEFINE due == Second + (TagOf(i).ts - start) * settings.fps
                   slack == settings.fps * Cardinality({j \in Shown : j < i})
        <5>3. Paces(Over(i), due, slack, Unbroken)
          BY <4>3, <5>1
        <5>4. Paces(Over(i), due, slack, Unbroken')
          BY <3>0, <5>3 DEF Paces
        <5> QED BY <1>5, <4>4, <5>2, <5>4
      <4>7. PacedAt(n)'
        <5>1. PICK p \in Shown : p = Greatest(Shown) /\ \A j \in Shown : j <= p
          BY <1>6, <3>3
        <5>2. PICK before \in Nat : before = TagOf(p).ts /\ before = last
          BY <1>1, <3>3, <5>1 DEF Clocked
        <5>3. 0 < before /\ before <= tag.ts
          <6>1. p \in Shown' /\ n \in Shown' /\ p < n
            BY <2>1, <2>2, <5>1
          <6>2. 0 < (TagOf(p)').ts /\ (TagOf(p)').ts <= (TagOf(n)').ts
            BY <2>4, <6>1 DEF Rising, TagOf
          <6> QED BY <1>3, <1>5, <5>1, <5>2, <6>2
        <5>4. /\ Sample(tag).duration \in Nat
              /\ Sample(tag).duration <= (tag.ts - before) * settings.fps + settings.fps
              /\ (tag.ts - before) * settings.fps <= Narrow =>
                    (tag.ts - before) * settings.fps <= Sample(tag).duration + settings.fps
          BY <1>2, <1>3, <1>8, <5>2, <5>3, DurationPaces
        <5>5. end["video"] = Over(p) /\ end["video"] \in Nat
          BY <1>1, <3>3, <5>1 DEF TransmuxerInv, Chained, Settled, Tracks, Shown
        <5>6. PICK count \in Nat : /\ count = Cardinality({j \in Shown : j < p})
                                   /\ count + 1 = Cardinality({j \in Shown : j < n})
          <6>1. /\ Cardinality({j \in Shown : j < p}) \in Nat
                /\ Cardinality({j \in Shown : j < Len(segments) + 1})
                        = Cardinality({j \in Shown : j < p}) + 1
            <7>1. Len(segments) \in Nat /\ Shown \subseteq 1 .. Len(segments)
              BY <1>2, <2>2
            <7>2. p \in Shown /\ \A j \in Shown : j <= p
              BY <5>1
            <7>3. /\ Cardinality(Before(Shown, p)) \in Nat
                  /\ Cardinality(Before(Shown, Len(segments) + 1))
                        = Cardinality(Before(Shown, p)) + 1
              BY ONLY <7>1, <7>2, CountBefore
            <7> QED BY <7>3 DEF Before
          <6> QED BY <1>3, <6>1
        <5>7. Paces(Over(p), Second + (before - start) * settings.fps, settings.fps * count, Unbroken)
          BY <1>1, <3>1, <4>3, <5>1, <5>2, <5>6
        <5>8. settings.fps \in Nat /\ Second \in Nat
          BY <1>2 DEF Settings, TransmuxerAssumption
        <5>9. Over(n)' = Over(p) + Sample(tag).duration
          BY <1>3, <1>8, <5>5
        <5>12. Unbroken' => (tag.ts - before) * settings.fps <= Narrow
          <6>1. p \in Shown' /\ n \in Shown' /\ p < n /\ \A k \in Shown' : k <= p \/ n <= k
            BY <2>1, <2>2, <5>1
          <6>2. Unbroken' => ((TagOf(n)').ts - (TagOf(p)').ts) * settings'.fps <= Narrow
            BY <6>1 DEF Unbroken, Shown, TagOf
          <6> QED BY <1>2, <1>3, <1>5, <5>1, <5>2, <6>2
        <5>10. Paces(Over(p) + Sample(tag).duration, Second + (tag.ts - start) * settings.fps,
                     settings.fps * (count + 1), Unbroken')
          <6>1. Over(p) \in Int /\ Sample(tag).duration \in Int /\ start \in Int /\ before \in Int
                /\ tag.ts \in Int /\ settings.fps \in Int /\ count \in Int /\ Second \in Int
            BY <2>1, <4>2, <5>2, <5>4, <5>5, <5>6, <5>8
          <6>2. /\ Over(p) <= Second + (before - start) * settings.fps + settings.fps * count
                /\ Unbroken' =>
                    Second + (before - start) * settings.fps <= Over(p) + settings.fps * count
            BY <3>0, <5>7 DEF Paces
          <6>3. /\ Over(p) + Sample(tag).duration
                        <= Second + (tag.ts - start) * settings.fps + settings.fps * (count + 1)
                /\ Unbroken' => Second + (tag.ts - start) * settings.fps
                        <= Over(p) + Sample(tag).duration + settings.fps * (count + 1)
            BY ONLY <5>4, <5>12, <6>1, <6>2, FollowsPace
          <6> QED BY <6>3 DEF Paces
        <5>11. n \in Shown' /\ {j \in Shown' : j < n} = {j \in Shown : j < n}
          BY <2>1, <4>5
        <5> QED BY <1>3, <4>4, <5>6, <5>9, <5>10, <5>11
      <4> QED BY <2>1, <4>6, <4>7
    <3> QED BY <3>2, <3>3
  <2> QED BY <2>3, <2>4 DEF SyncInv
<1> QED BY <1>7, <1>8

(* However frames of audio come between, and whenever mux is called: as long *)
(* as the video's timestamps start after 0 and do not go back, what a player *)
(* has played of it is ahead of what they say by at most a millisecond's     *)
(* ticks for each frame, and behind by no more as long as no gap is longer   *)
(* than a duration can say.                                                  *)
THEOREM TransmuxerInSync == ASSUME TransmuxerAssumption PROVE Spec => []InSync
<1>1. Init => SyncInv
  <2> SUFFICES ASSUME Init PROVE SyncInv
    OBVIOUS
  <2>1. Shown = {} /\ last = 0
    BY DEF Init, Shown, OnTrack, Media
  <2> QED BY <2>1, InvInit DEF SyncInv, Clocked
<1>2. SyncInv /\ TransmuxerInv' /\ [Next]_vars => SyncInv'
    BY OthersPace, FramePaces DEF Next, Mux
<1>3. SyncInv => InSync
    BY DEF SyncInv, InSync, Rising, Shown, PacedAt, Paces, Over
<1> QED BY <1>1, <1>2, <1>3, Invariant, PTL DEF Spec
-----------------------------------------------------------------------------
(* EmulationPrevention: however reads and writes are mixed, the stream never *)
(* begins another NAL unit, and a reader gets what was written.              *)

\* the writer's count is the number of zeros at the end, as far as 2
Counts ==
    /\ stream \in Seq(Nat) /\ wzeros \in Nat /\ nal \in BOOLEAN
    /\ nal => /\ wzeros >= 1 <=> Len(stream) >= 1 /\ stream[Len(stream)] = 0
              /\ wzeros >= 2 => Len(stream) >= 2
              /\ Len(stream) >= 2 /\ stream[Len(stream)] = 0 /\ stream[Len(stream) - 1] = 0
                    => wzeros >= 2

Clean == Counts /\ NoStartCode

(* A byte written through an EmulationPreventionIo leaves no start code      *)
(* behind, in the bytes before it or with them: its escape byte comes first. *)
LEMMA PutKeepsClean ==
    ASSUME Clean, NEW byte \in Bytes, Put(byte)
    PROVE  Clean'
<1> USE BytesAssumption DEF Escape
<1>1. byte \in Nat /\ stream \in Seq(Nat) /\ wzeros \in Nat /\ nal \in BOOLEAN
      BY DEF Clean, Counts
<1>2. nal' = nal
      BY DEF Put
<1>3. CASE ~nal
      <2>1. stream' = Append(stream, byte) /\ wzeros' = wzeros
            BY <1>3 DEF Put
      <2> QED BY <2>1, <1>1, <1>2, <1>3 DEF Clean, Counts, NoStartCode
<1>4. CASE nal /\ Emulates(byte)
      <2>1. stream' = stream \o <<3, byte>> /\ wzeros' = After(0, byte)
            BY <1>4 DEF Put
      <2>2. /\ stream' \in Seq(Nat) /\ Len(stream') = Len(stream) + 2
            /\ \A i \in 1 .. Len(stream) : stream'[i] = stream[i]
            /\ stream'[Len(stream) + 1] = 3 /\ stream'[Len(stream) + 2] = byte
            BY <2>1, <1>1
      <2>3. wzeros' = (IF byte = 0 THEN 1 ELSE 0)
            BY <2>1 DEF After
      <2>4. Counts'
            BY <2>2, <2>3, <1>1, <1>2 DEF Counts
      <2>5. NoStartCode'
            <3> SUFFICES ASSUME NEW i \in 1 .. Len(stream') - 2,
                                stream'[i] = 0, stream'[i + 1] = 0
                         PROVE  stream'[i + 2] >= 3
                BY DEF NoStartCode
            <3>1. CASE i <= Len(stream) - 2
                  <4>1. /\ i \in 1 .. Len(stream) - 2 /\ i \in 1 .. Len(stream)
                        /\ i + 1 \in 1 .. Len(stream) /\ i + 2 \in 1 .. Len(stream)
                        BY <3>1, <1>1
                  <4>2. stream'[i] = stream[i] /\ stream'[i + 1] = stream[i + 1]
                        /\ stream'[i + 2] = stream[i + 2]
                        BY <4>1, <2>2
                  <4> QED BY <4>1, <4>2, <1>4 DEF Clean, NoStartCode
            <3>2. CASE i = Len(stream) - 1
                  BY <3>2, <2>2, <1>1
            <3>3. CASE i = Len(stream)
                  BY <3>3, <2>2, <1>1
            <3> QED BY <3>1, <3>2, <3>3, <2>2, <1>1
      <2> QED BY <2>4, <2>5 DEF Clean
<1>5. CASE nal /\ ~Emulates(byte)
      <2>1. stream' = Append(stream, byte) /\ wzeros' = After(wzeros, byte)
            BY <1>5 DEF Put
      <2>2. /\ stream' \in Seq(Nat) /\ Len(stream') = Len(stream) + 1
            /\ \A i \in 1 .. Len(stream) : stream'[i] = stream[i]
            /\ stream'[Len(stream) + 1] = byte
            BY <2>1, <1>1
      <2>3. wzeros' = (IF byte = 0 THEN wzeros + 1 ELSE 0)
            BY <2>1 DEF After
      <2>4. Counts'
            BY <2>2, <2>3, <1>1, <1>2, <1>5 DEF Clean, Counts
      <2>5. NoStartCode'
            <3> SUFFICES ASSUME NEW i \in 1 .. Len(stream') - 2,
                                stream'[i] = 0, stream'[i + 1] = 0
                         PROVE  stream'[i + 2] >= 3
                BY DEF NoStartCode
            <3>1. CASE i <= Len(stream) - 2
                  <4>1. /\ i \in 1 .. Len(stream) - 2 /\ i \in 1 .. Len(stream)
                        /\ i + 1 \in 1 .. Len(stream) /\ i + 2 \in 1 .. Len(stream)
                        BY <3>1, <1>1
                  <4>2. stream'[i] = stream[i] /\ stream'[i + 1] = stream[i + 1]
                        /\ stream'[i + 2] = stream[i + 2]
                        BY <4>1, <2>2
                  <4> QED BY <4>1, <4>2, <1>5 DEF Clean, NoStartCode
            <3>2. CASE i = Len(stream) - 1
                  <4>1. wzeros >= 2
                        <5>1. Len(stream) \in Nat /\ Len(stream) >= 2
                              BY <3>2, <2>2, <1>1
                        <5>2. i \in 1 .. Len(stream) /\ i + 1 \in 1 .. Len(stream) /\ i + 1 = Len(stream)
                              BY <5>1, <3>2
                        <5>3. stream[Len(stream) - 1] = 0 /\ stream[Len(stream)] = 0
                              BY <5>2, <3>2, <2>2
                        <5> QED BY <5>1, <5>3, <1>5 DEF Clean, Counts
                  <4> QED BY <4>1, <3>2, <2>2, <1>1, <1>5 DEF Emulates
            <3> QED BY <3>1, <3>2, <2>2, <1>1
      <2> QED BY <2>4, <2>5 DEF Clean
<1> QED BY <1>1, <1>3, <1>4, <1>5

(* "Automatically inserts NAL emulation prevention bytes": no write of any   *)
(* bytes ever leaves a start code in the stream.                             *)
THEOREM WritesNoStartCode == EpSpec => []NoStartCode
<1>1. EpInit => Clean
      BY DEF EpInit, Clean, Counts, NoStartCode
<1>2. Clean /\ [EpNext]_epvars => Clean'
      <2> SUFFICES ASSUME Clean, [EpNext]_epvars PROVE Clean'
          OBVIOUS
      <2>1. CASE Take
            BY <2>1 DEF Take, Clean, Counts, NoStartCode
      <2>2. CASE \E byte \in Bytes : Put(byte)
            BY <2>2, PutKeepsClean
      <2>3. CASE UNCHANGED epvars
            BY <2>3 DEF epvars, Clean, Counts, NoStartCode
      <2> QED BY <2>1, <2>2, <2>3 DEF EpNext
<1>3. Clean => NoStartCode
      BY DEF Clean
<1> QED BY <1>1, <1>2, <1>3, PTL DEF EpSpec
-----------------------------------------------------------------------------
(* For the reader: where in the stream each byte of the payload is, and the  *)
(* count of zeros after it, which writer and reader have in common.          *)

Types ==
    /\ stream \in Seq(Nat) /\ payload \in Seq(Nat) /\ got \in Seq(Nat)
    /\ wzeros \in Nat /\ rat \in Nat /\ rzeros \in Nat /\ nal \in BOOLEAN

\* the byte k of the payload follows the one before it, or an escape byte does
Follows(place, zeros, k) ==
    /\ place[k] \in 1 .. Len(stream) /\ stream[place[k]] = payload[k]
    /\ \/ /\ place[k] = place[k - 1] + 1
          /\ ~(zeros[k - 1] >= 2 /\ payload[k] <= 3)
          /\ zeros[k] = After(zeros[k - 1], payload[k])
       \/ /\ place[k] = place[k - 1] + 2
          /\ zeros[k - 1] >= 2 /\ stream[place[k - 1] + 1] = 3
          /\ zeros[k] = After(0, payload[k])

Placed(place, zeros) ==
    /\ place[0] = 0 /\ zeros[0] = 0
    /\ place[Len(payload)] = Len(stream) /\ zeros[Len(payload)] = wzeros
    /\ place[Len(got)] = rat /\ zeros[Len(got)] = rzeros
    /\ \A k \in 1 .. Len(payload) : Follows(place, zeros, k)

Places == [0 .. Len(payload) -> Nat]

Follow ==
    /\ Types
    /\ nal => /\ GetsPayload
              /\ \E place \in Places, zeros \in Places : Placed(place, zeros)

(* The position before an escaped byte is one of the stream's too.           *)
LEMMA JustBefore ==
    ASSUME NEW len \in Nat, NEW before \in Nat, NEW at \in 1 .. len
    PROVE  at = before + 2 => before + 1 \in 1 .. len
OBVIOUS

(* A reader drops exactly the bytes the writer inserted, because both count  *)
(* the same zeros at the same byte.                                          *)
LEMMA TakeFollows ==
    ASSUME Follow, Take
    PROVE  Follow'
<1> USE DEF Escape
<1>1. /\ Types /\ nal' = nal /\ stream' = stream /\ wzeros' = wzeros /\ payload' = payload
      /\ Here \in 1 .. Len(stream) /\ stream[Here] \in Nat
      BY DEF Follow, Types, Take, AtEnd, Here
<1>2. Types'
      BY <1>1 DEF Types, Take, After
<1>3. CASE ~nal
      BY <1>1, <1>2, <1>3 DEF Follow
<1>4. CASE nal
      <2>1. PICK place \in Places, zeros \in Places : Placed(place, zeros)
            BY <1>4 DEF Follow
      <2> DEFINE k == Len(got) + 1
      <2>2. Len(got) \in 0 .. Len(payload) /\ got = SubSeq(payload, 1, Len(got)) /\ Len(payload) \in Nat
            BY <1>1, <1>4 DEF Follow, GetsPayload, Types
      <2>3. place[Len(got)] = rat /\ zeros[Len(got)] = rzeros /\ place[Len(payload)] = Len(stream)
            BY <2>1 DEF Placed
      <2>4. k \in 1 .. Len(payload) /\ k - 1 = Len(got)
            <3>1. Here > rat
                  BY <1>1 DEF Here, Types
            <3>2. Len(got) # Len(payload)
                  BY <3>1, <2>3, <1>1 DEF Types
            <3> QED BY <3>2, <2>2
      <2>5. Follows(place, zeros, k)
            BY <2>1, <2>4 DEF Placed
      <2> HIDE DEF k
      <2>6. /\ Here = place[k] /\ stream[Here] = payload[k]
            /\ After(IF Escaped THEN 0 ELSE rzeros, stream[Here]) = zeros[k]
            <3>1. CASE /\ place[k] = rat + 1 /\ ~(rzeros >= 2 /\ payload[k] <= 3)
                       /\ zeros[k] = After(rzeros, payload[k])
                  <4>1. ~Escaped
                        BY <3>1, <2>5, <1>1 DEF Follows, Escaped, Types
                  <4> QED BY <4>1, <3>1, <2>5 DEF Follows, Here
            <3>2. CASE /\ place[k] = rat + 2 /\ rzeros >= 2 /\ stream[rat + 1] = 3
                       /\ zeros[k] = After(0, payload[k])
                  <4>1. Escaped
                        BY <3>2, <2>5, <1>1, <1>4 DEF Follows, Escaped, Types
                  <4> QED BY <4>1, <3>2, <2>5 DEF Follows, Here
            <3> QED BY <3>1, <3>2, <2>3, <2>4, <2>5 DEF Follows
      <2>7. got' = Append(got, payload[k]) /\ Len(got') = k
            BY <2>6, <2>4, <1>1, <1>4 DEF Take, Types
      <2>8. GetsPayload'
            <3>1. SubSeq(payload, 1, k) = Append(SubSeq(payload, 1, Len(got)), payload[k])
                  BY <2>4, <2>2, <1>1, SMTT(60) DEF Types
            <3> QED BY <3>1, <2>7, <2>2, <2>4, <1>1 DEF GetsPayload
      <2>9. rat' = place[k] /\ rzeros' = zeros[k]
            BY <2>6, <1>4 DEF Take
      <2>10. Placed(place, zeros)'
             BY <2>1, <2>7, <2>9, <1>1 DEF Placed, Follows
      <2>11. place \in Places' /\ zeros \in Places'
             BY <1>1 DEF Places
      <2> QED BY <2>8, <2>10, <2>11, <1>2 DEF Follow
<1> QED BY <1>3, <1>4, <1>1 DEF Types

(* What the writer adds changes nothing of what the reader has, or comes to. *)
LEMMA PutFollows ==
    ASSUME Follow, NEW byte \in Bytes, Put(byte)
    PROVE  Follow'
<1> USE BytesAssumption DEF Escape
<1>1. /\ byte \in Nat /\ Types /\ nal' = nal /\ rat' = rat /\ rzeros' = rzeros /\ got' = got
      /\ payload' = Append(payload, byte)
      BY DEF Put, Follow
<1>2. Types'
      <2>1. stream' \in Seq(Nat)
            <3>1. stream' = stream \o <<3, byte>> \/ stream' = Append(stream, byte)
                  BY DEF Put
            <3>2. stream \in Seq(Nat) /\ <<3, byte>> \in Seq(Nat)
                  BY <1>1 DEF Types
            <3>3. stream \o <<3, byte>> \in Seq(Nat) /\ Append(stream, byte) \in Seq(Nat)
                  BY <3>2, <1>1, ConcatProperties, AppendProperties
            <3> QED BY <3>1, <3>3
      <2>2. wzeros' \in Nat
            BY <1>1 DEF Types, Put, After
      <2>3. payload' \in Seq(Nat)
            BY <1>1 DEF Types
      <2> QED BY <2>1, <2>2, <2>3, <1>1 DEF Types
<1>3. CASE ~nal
      BY <1>1, <1>2, <1>3 DEF Follow
<1>4. CASE nal
      <2>1. PICK place \in Places, zeros \in Places : Placed(place, zeros)
            BY <1>4 DEF Follow
      <2> DEFINE n == Len(payload) + 1
      <2> DEFINE there == IF Emulates(byte) THEN Len(stream) + 2 ELSE Len(stream) + 1
      <2> DEFINE after == IF Emulates(byte) THEN After(0, byte) ELSE After(wzeros, byte)
      <2>13. PICK place2 : place2 = [k \in 0 .. n |-> IF k = n THEN there ELSE place[k]]
            OBVIOUS
      <2>14. PICK zeros2 : zeros2 = [k \in 0 .. n |-> IF k = n THEN after ELSE zeros[k]]
            OBVIOUS
      <2>2. /\ Len(payload) \in Nat /\ Len(payload') = n /\ payload'[n] = byte
            /\ \A k \in 1 .. Len(payload) : payload'[k] = payload[k]
            BY <1>1 DEF Types
      <2>3. /\ Len(stream) \in Nat /\ Len(stream') = there /\ stream'[there] = byte
            /\ \A i \in 1 .. Len(stream) : stream'[i] = stream[i]
            /\ Emulates(byte) => stream'[Len(stream) + 1] = 3
            <3>1. stream \in Seq(Nat) /\ byte \in Nat
                  BY <1>1 DEF Types
            <3>2. CASE Emulates(byte)
                  <4>1. stream' = stream \o <<3, byte>>
                        BY <3>2, <1>4 DEF Put
                  <4> QED BY <4>1, <3>1, <3>2
            <3>3. CASE ~Emulates(byte)
                  <4>1. stream' = Append(stream, byte)
                        BY <3>3, <1>4 DEF Put
                  <4> QED BY <4>1, <3>1, <3>3
            <3> QED BY <3>2, <3>3
      <2>4. wzeros' = after /\ after \in Nat /\ there \in Nat
            BY <1>1, <1>4 DEF Types, Put, After
      <2>5. place2 \in Places' /\ zeros2 \in Places'
            BY <2>13, <2>14, <2>2, <2>4 DEF Places
      <2>6. Len(got) \in 0 .. Len(payload) /\ got = SubSeq(payload, 1, Len(got))
            BY <1>1, <1>4 DEF Follow, GetsPayload, Types
      <2>7. GetsPayload'
            <3>1. SubSeq(payload', 1, Len(got)) = SubSeq(payload, 1, Len(got))
                  BY <2>2, <2>6, <1>1 DEF Types
            <3> QED BY <3>1, <2>2, <2>6, <1>1 DEF GetsPayload
      <2>8. /\ place[0] = 0 /\ zeros[0] = 0
            /\ place[Len(payload)] = Len(stream) /\ zeros[Len(payload)] = wzeros
            /\ place[Len(got)] = rat /\ zeros[Len(got)] = rzeros
            /\ \A k \in 1 .. Len(payload) : Follows(place, zeros, k)
            BY <2>1 DEF Placed
      <2>9. \A k \in 0 .. Len(payload) : k \in 0 .. n /\ place2[k] = place[k] /\ zeros2[k] = zeros[k]
            BY <2>13, <2>14, <2>2
      <2>10. n \in 0 .. n /\ place2[n] = there /\ zeros2[n] = after
             BY <2>13, <2>14, <2>2
      <2>11. ASSUME NEW k \in 1 .. n PROVE Follows(place2, zeros2, k)'
             <3>1. CASE k \in 1 .. Len(payload)
                   <4>1. k \in 0 .. Len(payload) /\ k - 1 \in 0 .. Len(payload)
                         BY <3>1, <2>2
                   <4>2. /\ place2[k] = place[k] /\ zeros2[k] = zeros[k]
                         /\ place2[k - 1] = place[k - 1] /\ zeros2[k - 1] = zeros[k - 1]
                         BY <4>1, <2>9
                   <4>3. Follows(place, zeros, k) /\ payload'[k] = payload[k]
                         BY <3>1, <2>2, <2>8
                   <4>4. place[k] \in 1 .. Len(stream) /\ place[k - 1] \in Nat
                         BY <4>1, <4>3 DEF Follows, Places
                   <4>5. place[k] \in 1 .. Len(stream') /\ stream'[place[k]] = stream[place[k]]
                         BY <4>4, <2>3
                   <4>6. place[k] = place[k - 1] + 2 => stream'[place[k - 1] + 1] = stream[place[k - 1] + 1]
                         <5>1. Len(stream) \in Nat
                               BY <2>3
                         <5>2. place[k] = place[k - 1] + 2 => place[k - 1] + 1 \in 1 .. Len(stream)
                               BY <4>4, <5>1, JustBefore
                         <5> QED BY <5>2, <2>3
                   <4>7. place2[k] \in 1 .. Len(stream') /\ stream'[place2[k]] = payload'[k]
                         BY <4>2, <4>3, <4>5 DEF Follows
                   <4>8. CASE /\ place[k] = place[k - 1] + 1
                              /\ ~(zeros[k - 1] >= 2 /\ payload[k] <= 3)
                              /\ zeros[k] = After(zeros[k - 1], payload[k])
                         BY <4>2, <4>3, <4>7, <4>8 DEF Follows
                   <4>9. CASE /\ place[k] = place[k - 1] + 2
                              /\ zeros[k - 1] >= 2 /\ stream[place[k - 1] + 1] = 3
                              /\ zeros[k] = After(0, payload[k])
                         <5>1. stream'[place2[k - 1] + 1] = 3
                               BY <4>2, <4>6, <4>9
                         <5> QED BY <5>1, <4>2, <4>3, <4>7, <4>9 DEF Follows
                   <4> QED BY <4>3, <4>8, <4>9 DEF Follows
             <3>2. CASE k = n
                   <4>1. /\ k - 1 = Len(payload) /\ place2[k - 1] = Len(stream) /\ zeros2[k - 1] = wzeros
                         /\ place2[k] = there /\ zeros2[k] = after
                         BY <3>2, <2>2, <2>8, <2>9, <2>10
                   <4>2. there \in 1 .. there
                         BY <2>3
                   <4>3. CASE Emulates(byte)
                         BY <4>1, <4>2, <4>3, <3>2, <2>2, <2>3 DEF Follows, Emulates
                   <4>4. CASE ~Emulates(byte)
                         BY <4>1, <4>2, <4>4, <3>2, <2>2, <2>3 DEF Follows, Emulates
                   <4> QED BY <4>3, <4>4
             <3> QED BY <3>1, <3>2, <2>2
      <2>12. Placed(place2, zeros2)'
             <3>1. Len(got) \in 0 .. Len(payload) /\ 0 \in 0 .. Len(payload)
                   BY <2>6, <2>2
             <3> QED BY <3>1, <2>2, <2>3, <2>4, <2>8, <2>9, <2>10, <2>11, <1>1 DEF Placed
      <2> QED BY <2>5, <2>7, <2>12, <1>2 DEF Follow
<1> QED BY <1>3, <1>4, <1>1 DEF Types

(* "... or removes" them: whatever was written, and whenever it is read, the *)
(* reader has got the first bytes of it.                                     *)
THEOREM ReadsThePayload == EpSpec => []GetsPayload
<1>1. EpInit => Follow
      <2> SUFFICES ASSUME EpInit PROVE Follow
          OBVIOUS
      <2> DEFINE none == [k \in 0 .. 0 |-> 0]
      <2>1. none \in Places /\ Placed(none, none)
            BY DEF EpInit, Places, Placed, Follows
      <2> QED BY <2>1 DEF EpInit, Follow, Types, GetsPayload
<1>2. Follow /\ [EpNext]_epvars => Follow'
      <2> SUFFICES ASSUME Follow, [EpNext]_epvars PROVE Follow'
          OBVIOUS
      <2>1. CASE Take
            BY <2>1, TakeFollows
      <2>2. CASE \E byte \in Bytes : Put(byte)
            BY <2>2, PutFollows
      <2>3. CASE UNCHANGED epvars
            BY <2>3, ZenonT(60) DEF epvars, ephistory, Follow, Types, GetsPayload, Places, Placed, Follows
      <2> QED BY <2>1, <2>2, <2>3 DEF EpNext
<1>3. Follow => GetsPayload
      BY DEF Follow, GetsPayload
<1> QED BY <1>1, <1>2, <1>3, PTL DEF EpSpec
-----------------------------------------------------------------------------
(* BitStream: a reader knows where it is, for bytes of any number of bits    *)
(* and moves by any number.                                                  *)

\* the bits left of the byte that was taken last
Unread == IF rpos = 0 THEN 0 ELSE ByteBits - rpos

\* bytes of a stream come whole to a reader, who has all but the unread bits
ReaderKnows ==
    position = (IF nal THEN Len(got) ELSE rat) * ByteBits - Unread

\* there are bytes, of whatever values, in the stream
HasBytes(s) == \E S : s \in Seq(S)

ReaderInv ==
    /\ rat \in Nat /\ rpos \in 0 .. ByteBits - 1
    /\ HasBytes(stream) /\ HasBytes(got)
    /\ ReaderKnows

(* A sequence of bytes has a length, and one byte more when one is appended. *)
LEMMA BytesAre ==
    ASSUME NEW s, HasBytes(s)
    PROVE  Len(s) \in Nat /\ \A b : HasBytes(Append(s, b)) /\ Len(Append(s, b)) = Len(s) + 1
<1>1. PICK S : s \in Seq(S)
      BY DEF HasBytes
<1>2. Len(s) \in Nat
      BY <1>1, LenProperties
<1>3. ASSUME NEW b
      PROVE  HasBytes(Append(s, b)) /\ Len(Append(s, b)) = Len(s) + 1
      <2>1. s \in Seq(S \union {b})
            BY <1>1
      <2>2. Append(s, b) \in Seq(S \union {b}) /\ Len(Append(s, b)) = Len(s) + 1
            BY <2>1, AppendProperties
      <2> QED BY <2>2 DEF HasBytes
<1> QED BY <1>2, <1>3

(* The divisions of seek_bits, which round towards zero.                     *)
LEMMA RemainderIs ==
    ASSUME NEW n \in Int
    PROVE  /\ Quotient(n) \in Int /\ ByteBits * Quotient(n) \in Int
           /\ Remainder(n) \in Int /\ n = ByteBits * Quotient(n) + Remainder(n)
           /\ -ByteBits < Remainder(n) /\ Remainder(n) < ByteBits
<1>1. ByteBits \in Nat /\ ByteBits > 0
      BY BitAssumption
<1>2. \A k \in Nat : k \div ByteBits \in Int /\ k - ByteBits * (k \div ByteBits) \in 0 .. ByteBits - 1
      BY <1>1
<1>3. CASE n >= 0
      BY <1>1, <1>2, <1>3 DEF Quotient, Remainder
<1>4. CASE n < 0
      <2>1. PICK q \in Int : q = (-n) \div ByteBits
            BY <1>2, <1>4
      <2>2. Quotient(n) = -q
            BY <1>4, <2>1 DEF Quotient
      <2>3. ByteBits * q \in Int /\ ByteBits * (-q) = -(ByteBits * q)
            BY <1>1
      <2>4. -n - ByteBits * q \in 0 .. ByteBits - 1
            BY <1>2, <1>4, <2>1
      <2>5. Remainder(n) = n + ByteBits * q
            BY <1>1, <2>1, <2>2, <2>3 DEF Remainder
      <2> QED BY <1>1, <2>1, <2>2, <2>3, <2>4, <2>5
<1> QED BY <1>3, <1>4

(* What a write does to the stream of a reader that has not begun.           *)
LEMMA PutLeavesReader ==
    ASSUME ReaderInv, NEW byte, Put(byte)
    PROVE  HasBytes(stream)' /\ UNCHANGED <<nal, rat, got>>
<1>1. HasBytes(Append(stream, byte)) /\ HasBytes(Append(Append(stream, Escape), byte))
      BY BytesAre DEF ReaderInv
<1>2. PICK S : stream \in Seq(S)
      BY DEF ReaderInv, HasBytes
<1>3. HasBytes(stream \o <<Escape, byte>>)
      <2>1. stream \in Seq(S \union {Escape, byte}) /\ <<Escape, byte>> \in Seq(S \union {Escape, byte})
            BY <1>2
      <2>2. stream \o <<Escape, byte>> \in Seq(S \union {Escape, byte})
            BY <2>1, ConcatProperties
      <2> QED BY <2>2 DEF HasBytes
<1> QED BY <1>1, <1>3 DEF Put

(* A byte is taken: the reader is one byte further.                          *)
LEMMA TakeMoves ==
    ASSUME ReaderInv, Take
    PROVE  /\ rat' \in Nat /\ HasBytes(got)' /\ UNCHANGED <<nal, stream>>
           /\ IF nal THEN Len(got)' = Len(got) + 1 ELSE rat' = rat + 1
<1>1. rat \in Nat /\ HasBytes(got)
      BY DEF ReaderInv
<1>2. rat' \in Nat
      BY <1>1 DEF Take, Here
<1>3. UNCHANGED <<nal, stream>> /\ got' = IF nal THEN Append(got, stream[Here]) ELSE got
      BY DEF Take
<1>4. ~nal => rat' = rat + 1
      BY DEF Take, Here, Escaped
<1> QED BY <1>1, <1>2, <1>3, <1>4, BytesAre

(* A reader that has taken a byte knows where it is, and so does one that    *)
(* reads on in the byte it has.                                              *)
LEMMA KnowsAfter ==
    ASSUME ReaderInv, NEW whole \in Nat, NEW moved \in Int,
           rat' \in Nat, rpos' \in 0 .. ByteBits - 1, HasBytes(stream)', HasBytes(got)', nal' = nal,
           IF nal THEN Len(got)' = Len(got) + whole ELSE rat' = rat + whole,
           moved = whole * ByteBits - Unread' + Unread,
           position' = position + moved
    PROVE  ReaderInv'
<1>1. ByteBits \in Nat /\ ByteBits > 0
      BY BitAssumption
<1>2. Unread \in Int /\ Unread' \in Int
      BY <1>1 DEF Unread, ReaderInv
<1>. DEFINE bytes == IF nal THEN Len(got) ELSE rat
<1>3. bytes \in Nat
      BY BytesAre DEF ReaderInv
<1>4. PICK b \in Nat : b = bytes
      BY <1>3
<1>5. position = b * ByteBits - Unread
      BY <1>4 DEF ReaderInv, ReaderKnows
<1>6. (IF nal THEN Len(got) ELSE rat)' = b + whole
      BY <1>4
<1>7. (b + whole) * ByteBits = b * ByteBits + whole * ByteBits
      BY <1>1
<1>8. PICK old \in Int, more \in Int : old = b * ByteBits /\ more = whole * ByteBits
      BY <1>1
<1>9. position' = (b + whole) * ByteBits - Unread'
      <2>1. position = old - Unread /\ moved = more - Unread' + Unread /\ (b + whole) * ByteBits = old + more
            BY <1>5, <1>7, <1>8
      <2>2. PICK before \in Int, after \in Int : before = Unread /\ after = Unread'
            BY <1>2
      <2>3. position = old - before /\ moved = more - after + before
            BY <2>1, <2>2, Zenon
      <2>4. position' = (old + more) - after
            BY <2>3
      <2> QED BY <2>1, <2>2, <2>4, Zenon
<1> QED BY <1>6, <1>9 DEF ReaderInv, ReaderKnows

(* A bit is read, of the byte that the reader has or of the next one.        *)
LEMMA ReadBitKnows ==
    ASSUME ReaderInv, NEW bit, ReadBit(bit)
    PROVE  ReaderInv'
<1>1. ByteBits \in Nat /\ ByteBits > 0 /\ rpos \in 0 .. ByteBits - 1 /\ position' = position + 1
      BY BitAssumption DEF ReaderInv, ReadBit
<1>2. rpos' = IF rpos + 1 = ByteBits THEN 0 ELSE rpos + 1
      <2>1. rpos' = (rpos + 1) % ByteBits
            BY DEF ReadBit
      <2>2. CASE rpos + 1 = ByteBits
            BY <1>1, <2>1, <2>2
      <2>3. CASE rpos + 1 # ByteBits
            BY <1>1, <2>1, <2>3
      <2> QED BY <2>2, <2>3
<1>3. rpos' \in 0 .. ByteBits - 1
      BY <1>1, <1>2
<1>4. CASE rpos = 0
      <2>1. Take
            BY <1>4 DEF ReadBit
      <2>2. 1 = 1 * ByteBits - Unread' + Unread
            BY <1>1, <1>2, <1>4 DEF Unread
      <2>3. HasBytes(stream)'
            BY <2>1, TakeMoves DEF ReaderInv, HasBytes
      <2> QED BY <1>1, <1>3, <2>1, <2>2, <2>3, TakeMoves, KnowsAfter
<1>5. CASE rpos # 0
      <2>1. UNCHANGED epvars
            BY <1>5 DEF ReadBit
      <2>2. UNCHANGED <<nal, stream, rat, got>>
            BY <2>1 DEF epvars, ephistory
      <2>3. 1 = 0 * ByteBits - Unread' + Unread
            BY <1>1, <1>2, <1>5 DEF Unread
      <2>4. /\ rat' \in Nat /\ HasBytes(stream)' /\ HasBytes(got)'
            /\ IF nal THEN Len(got)' = Len(got) + 0 ELSE rat' = rat + 0
            BY <2>2, BytesAre DEF ReaderInv, HasBytes
      <2> QED BY <1>1, <1>3, <2>2, <2>3, <2>4, KnowsAfter
<1> QED BY <1>4, <1>5

(* seek_bits puts the reader as many bits further as it was told, forward or *)
(* backward, from any bit of a byte.                                         *)
LEMMA SeekBitsKnows ==
    ASSUME ReaderInv, NEW count \in Int, SeekBits(count)
    PROVE  ReaderInv'
<1>1. ByteBits \in Nat /\ ByteBits > 0 /\ rpos \in 0 .. ByteBits - 1 /\ rat \in Nat
      BY BitAssumption DEF ReaderInv
<1>2. /\ ~nal /\ UNCHANGED <<nal, stream, got>> /\ Landing(count) \in Nat
      /\ rpos' = (ByteBits + Remainder(rpos + count)) % ByteBits
      <2>1. ~nal /\ UNCHANGED <<nal, stream, ephistory>>
            BY DEF SeekBits, Free
      <2>2. UNCHANGED got
            BY <2>1 DEF ephistory
      <2>3. MaxPast \in Nat /\ Len(stream) \in Nat
            BY BitAssumption, BytesAre DEF ReaderInv
      <2>4. Landing(count) \in 0 .. Len(stream) + MaxPast
            BY DEF SeekBits
      <2>5. Landing(count) \in Nat
            BY <2>3, <2>4
      <2>6. rpos' = (ByteBits + Remainder(rpos + count)) % ByteBits
            BY DEF SeekBits
      <2> QED BY <2>1, <2>2, <2>5, <2>6, Zenon
<1>3. PICK q \in Int, r \in Int : q = Quotient(rpos + count) /\ r = Remainder(rpos + count)
      <2>1. rpos + count \in Int
            BY <1>1
      <2>2. Quotient(rpos + count) \in Int /\ Remainder(rpos + count) \in Int
            BY <2>1, RemainderIs
      <2> QED BY <2>2
<1>4. ByteBits * q \in Int /\ rpos + count = ByteBits * q + r /\ -ByteBits < r /\ r < ByteBits
      BY <1>1, <1>3, RemainderIs
<1>5. rpos' = IF r < 0 THEN ByteBits + r ELSE r
      <2>1. rpos' = (ByteBits + r) % ByteBits
            BY <1>2, <1>3
      <2>2. CASE r < 0
            BY <1>1, <1>4, <2>1, <2>2
      <2>3. CASE r >= 0
            BY <1>1, <1>4, <2>1, <2>3
      <2> QED BY <2>2, <2>3
<1>6. rpos' \in 0 .. ByteBits - 1
      BY <1>1, <1>4, <1>5
<1>7. /\ HasBytes(stream)' /\ HasBytes(got)' /\ Len(stream) \in Nat
      BY <1>2, BytesAre DEF ReaderInv, HasBytes
<1>8. position = rat * ByteBits - Unread
      BY <1>2 DEF ReaderInv, ReaderKnows
<1>9. CASE ~stale' /\ position' = position + count /\ rat' = Landing(count) + IF rpos' = 0 THEN 0 ELSE 1
      <2>1. rat' \in Nat
            BY <1>2, <1>9
      <2>2. PICK m \in -2 .. 1 : rat' = rat + q + m /\ m = (IF rpos' = 0 THEN 0 ELSE 1)
                                   - (IF rpos # 0 THEN 1 ELSE 0) - (IF r < 0 THEN 1 ELSE 0)
            <3>1. Landing(count) = rat + q - (IF rpos # 0 THEN 1 ELSE 0) - (IF r < 0 THEN 1 ELSE 0)
                  BY <1>3 DEF Landing
            <3> QED BY <1>1, <1>9, <3>1
      <2>3. rat' * ByteBits = rat * ByteBits + ByteBits * q + m * ByteBits
            BY <1>1, <2>2
      <2>4. m * ByteBits = (IF rpos' = 0 THEN 0 ELSE ByteBits)
                             - (IF rpos # 0 THEN ByteBits ELSE 0) - (IF r < 0 THEN ByteBits ELSE 0)
            BY <1>1, <2>2
      <2>5. PICK old \in Int, new \in Int, move \in Int, more \in Int :
                old = rat * ByteBits /\ new = rat' * ByteBits /\ move = ByteBits * q /\ more = m * ByteBits
            BY <1>1, <1>4, <2>1, <2>2
      <2>6. position' = new - (IF rpos' = 0 THEN 0 ELSE ByteBits - rpos')
            <3>1. /\ position = old - (IF rpos = 0 THEN 0 ELSE ByteBits - rpos)
                  /\ new = old + move + more /\ rpos + count = move + r
                  /\ more = (IF rpos' = 0 THEN 0 ELSE ByteBits)
                             - (IF rpos # 0 THEN ByteBits ELSE 0) - (IF r < 0 THEN ByteBits ELSE 0)
                  BY <1>4, <1>8, <2>3, <2>4, <2>5 DEF Unread
            <3> QED BY <1>1, <1>4, <1>5, <1>9, <3>1
      <2>7. ReaderKnows'
            BY <1>2, <2>5, <2>6 DEF ReaderKnows, Unread
      <2> QED BY <1>6, <1>7, <2>1, <2>7 DEF ReaderInv
<1>10. CASE /\ rpos' # 0 /\ rat' = Len(stream) /\ position' = (rat' - 1) * ByteBits + rpos'
      <2>1. rat' \in Nat
            BY <1>7, <1>10
      <2>2. (rat' - 1) * ByteBits = rat' * ByteBits - ByteBits /\ rat' * ByteBits \in Int
            BY <1>1, <2>1
      <2>3. PICK new \in Int, less \in Int : new = rat' * ByteBits /\ less = (rat' - 1) * ByteBits
            BY <1>1, <2>2
      <2>4. position' = new - (ByteBits - rpos')
            <3>1. less = new - ByteBits /\ position' = less + rpos'
                  BY <1>10, <2>2, <2>3
            <3> QED BY <1>1, <1>6, <3>1
      <2>5. ReaderKnows'
            BY <1>2, <1>10, <2>3, <2>4 DEF ReaderKnows, Unread
      <2> QED BY <1>6, <1>7, <2>1, <2>5 DEF ReaderInv
<1> QED BY <1>9, <1>10 DEF SeekBits

(* An aligned reader is at the beginning of a byte.                          *)
LEMMA AlignedKnows ==
    ASSUME ReaderInv, ~nal, UNCHANGED <<nal, stream, got>>, rpos' = 0, rat' \in Nat,
           position' = rat' * ByteBits
    PROVE  ReaderInv'
<1>1. ByteBits \in Nat /\ ByteBits > 0
      BY BitAssumption
<1>2. HasBytes(stream)' /\ HasBytes(got)'
      BY DEF ReaderInv, HasBytes
<1>3. Unread' = 0
      BY DEF Unread
<1>4. ReaderKnows'
      <2>1. rat' * ByteBits \in Int
            BY <1>1
      <2>2. rat' * ByteBits - 0 = rat' * ByteBits
            BY <2>1
      <2> QED BY <1>3, <2>2 DEF ReaderKnows
<1> QED BY <1>1, <1>2, <1>4 DEF ReaderInv

(* Seeks of bytes, from the beginning, the end, or where the reader is.      *)
LEMMA SeekKnows ==
    ASSUME ReaderInv, NEW offset \in Int, Seek(offset)
    PROVE  ReaderInv'
<1>1. ByteBits \in Nat /\ rat \in Nat /\ Len(stream) \in Nat
      BY BitAssumption, BytesAre DEF ReaderInv
<1>2. ASSUME NEW place \in Int, SeekTo(place) PROVE ReaderInv'
      <2>1. rat' \in Nat
            BY <1>1, <1>2 DEF SeekTo
      <2>2. /\ ~nal /\ UNCHANGED <<nal, stream, got>> /\ rpos' = 0 /\ position' = rat' * ByteBits
            BY <1>2 DEF SeekTo, Free, ephistory
      <2> QED BY <2>1, <2>2, AlignedKnows
<1>3. CASE SeekTo(offset) \/ SeekTo(Len(stream) + offset) \/ SeekTo(rat + offset)
      BY <1>1, <1>2, <1>3
<1>4. CASE SeekBits(offset * ByteBits)
      BY <1>1, <1>4, SeekBitsKnows
<1> QED BY <1>3, <1>4 DEF Seek

(* Steps of a reader that take a byte and stay where they are in it.         *)
LEMMA TakenWhole ==
    ASSUME ReaderInv, Take, rpos' = rpos, position' = position + ByteBits
    PROVE  ReaderInv'
<1>1. ByteBits \in Nat /\ rpos' \in 0 .. ByteBits - 1 /\ HasBytes(stream)'
      BY BitAssumption, TakeMoves DEF ReaderInv, HasBytes
<1>2. Unread \in Int /\ Unread' = Unread
      BY <1>1 DEF Unread, ReaderInv
<1>3. ByteBits = 1 * ByteBits - Unread' + Unread
      BY <1>1, <1>2
<1> QED BY <1>1, <1>3, TakeMoves, KnowsAfter

(* Steps that leave the reader and what it reads alone.                      *)
LEMMA NothingMoves ==
    ASSUME ReaderInv, UNCHANGED <<nal, stream, rat, got, rpos, position>>
    PROVE  ReaderInv'
  BY DEF ReaderInv, ReaderKnows, Unread, HasBytes

LEMMA ReaderInvariant == BitSpec => []ReaderInv
<1>1. BitInit => ReaderInv
      <2> SUFFICES ASSUME BitInit PROVE ReaderInv
          OBVIOUS
      <2>1. /\ rat = 0 /\ rpos = 0 /\ position = 0 /\ stream = <<>> /\ got = <<>>
            BY DEF BitInit, EpInit
      <2>2. ByteBits \in Nat /\ ByteBits > 0 /\ <<>> \in Seq({}) /\ Len(<<>>) = 0
            BY BitAssumption, EmptySeq
      <2>3. HasBytes(stream) /\ HasBytes(got)
            BY <2>1, <2>2 DEF HasBytes
      <2>4. ReaderKnows
            BY <2>1, <2>2 DEF ReaderKnows, Unread
      <2> QED BY <2>1, <2>2, <2>3, <2>4 DEF ReaderInv
<1>2. ReaderInv /\ [BitNext]_bitVars => ReaderInv'
      <2> SUFFICES ASSUME ReaderInv, [BitNext]_bitVars PROVE ReaderInv'
          OBVIOUS
      <2>1. CASE \E s \in Symbols : WriteSymbol(s)
            BY <2>1, NothingMoves DEF WriteSymbol, epvars, ephistory, reader
      <2>2. CASE WriteBit
            <3>1. CASE Put(Completed(Head(todo)[1])) /\ UNCHANGED <<rpos, position>>
                  <4>1. HasBytes(stream)' /\ UNCHANGED <<nal, rat, got>>
                        BY <3>1, PutLeavesReader
                  <4> QED BY <3>1, <4>1 DEF ReaderInv, ReaderKnows, Unread, HasBytes
            <3>2. CASE UNCHANGED epvars /\ UNCHANGED <<rpos, position>>
                  BY <3>2, NothingMoves DEF epvars, ephistory
            <3> QED BY <2>2, <3>1, <3>2 DEF WriteBit, reader
      <2>3. CASE WriteByte
            <3>1. Put(script[Len(script)].value) /\ UNCHANGED <<rpos, position>>
                  BY <2>3 DEF WriteByte, reader
            <3>2. HasBytes(stream)' /\ UNCHANGED <<nal, rat, got>>
                  BY <3>1, PutLeavesReader
            <3> QED BY <3>1, <3>2 DEF ReaderInv, ReaderKnows, Unread, HasBytes
      <2>4. CASE Finish
            BY <2>4, NothingMoves DEF Finish, epvars, ephistory, reader
      <2>5. CASE BeginSymbol
            BY <2>5, NothingMoves DEF BeginSymbol, epvars, ephistory, records
      <2>6. CASE ReadSymbolByte
            BY <2>6, TakenWhole DEF ReadSymbolByte
      <2>7. CASE EndSymbol
            <3>1. UNCHANGED <<nal, stream, rat, got>>
                  BY <2>7 DEF EndSymbol, epvars, ephistory
            <3>2. CASE UNCHANGED <<rpos, position>>
                  BY <3>1, <3>2, NothingMoves
            <3>3. CASE rpos # 0 /\ rpos' = 0 /\ position' = position + ByteBits - rpos
                  <4>1. ByteBits \in Nat /\ rpos \in 0 .. ByteBits - 1 /\ rpos' \in 0 .. ByteBits - 1
                        BY <3>3, BitAssumption DEF ReaderInv
                  <4>2. /\ rat' \in Nat /\ HasBytes(stream)' /\ HasBytes(got)'
                        /\ IF nal THEN Len(got)' = Len(got) + 0 ELSE rat' = rat + 0
                        BY <3>1, BytesAre DEF ReaderInv, HasBytes
                  <4>3. ByteBits - rpos = 0 * ByteBits - Unread' + Unread
                        BY <3>3, <4>1 DEF Unread
                  <4>4. position' = position + (ByteBits - rpos)
                        <5>1. position \in Int
                              <6>1. Unread \in Int
                                    BY <4>1 DEF Unread
                              <6>2. PICK bytes \in Nat : bytes = IF nal THEN Len(got) ELSE rat
                                    BY BytesAre DEF ReaderInv
                              <6>3. position = bytes * ByteBits - Unread
                                    BY <6>2 DEF ReaderInv, ReaderKnows
                              <6>4. bytes * ByteBits \in Int
                                    BY <4>1
                              <6>5. PICK whole \in Int, less \in Int : whole = bytes * ByteBits /\ less = Unread
                                    BY <6>1, <6>4
                              <6>6. position = whole - less
                                    BY <6>3, <6>5, Zenon
                              <6> QED BY <6>6
                        <5> QED BY <3>3, <4>1, <5>1
                  <4>5. PICK moved \in Int : moved = ByteBits - rpos
                        BY <4>1
                  <4>6. moved = 0 * ByteBits - Unread' + Unread /\ position' = position + moved /\ nal' = nal
                        BY <3>1, <4>3, <4>4, <4>5
                  <4> QED BY <4>1, <4>2, <4>6, KnowsAfter
            <3> QED BY <2>7, <3>2, <3>3 DEF EndSymbol
      <2>8. CASE \E bit \in {0, 1} : ReadSymbolBit(bit) \/ ReadFreeBit(bit)
            BY <2>8, ReadBitKnows DEF ReadSymbolBit, ReadFreeBit
      <2>9. CASE ReadNoBit
            <3>1. rat' \in Nat
                  BY <2>9, BytesAre DEF ReadNoBit, ReaderInv
            <3>2. /\ ~nal /\ UNCHANGED <<nal, stream, got>> /\ rpos' = 0 /\ position' = rat' * ByteBits
                  BY <2>9 DEF ReadNoBit, Free, ephistory
            <3> QED BY <3>1, <3>2, AlignedKnows
      <2>10. CASE ReadFreeByte
            <3>1. CASE Take /\ rpos' = rpos /\ position' = position + ByteBits
                  BY <3>1, TakenWhole
            <3>2. CASE ~nal /\ rpos' = 0 /\ position' = rat * ByteBits /\ UNCHANGED epvars
                  <4>1. rat' \in Nat /\ position' = rat' * ByteBits /\ UNCHANGED <<nal, stream, got>>
                        BY <3>2 DEF ReaderInv, epvars, ephistory
                  <4> QED BY <3>2, <4>1, AlignedKnows
            <3> QED BY <2>10, <3>1, <3>2 DEF ReadFreeByte, Free
      <2>11. CASE \E count \in Moves : SeekBits(count) \/ Seek(count)
            BY <2>11, SeekBitsKnows, SeekKnows, BitAssumption
      <2>12. CASE UNCHANGED bitVars
            BY <2>12, NothingMoves DEF bitVars, epvars, ephistory, reader, records
      <2> QED BY <2>1, <2>2, <2>3, <2>4, <2>5, <2>6, <2>7, <2>8, <2>9, <2>10, <2>11, <2>12 DEF BitNext
<1> QED BY <1>1, <1>2, PTL DEF BitSpec

(* bit_stream_position and the bits a reader has come by agree, whatever was *)
(* read and wherever seeks have moved it, also when one failed; a reader of  *)
(* a stream with escape bytes has come by the bits of the payload.           *)
THEOREM ReaderKnowsItsPlace == BitSpec => [](ReaderKnows /\ (~nal => position = StreamPosition))
<1>1. ReaderInv => ReaderKnows /\ (~nal => position = StreamPosition)
      <2> SUFFICES ASSUME ReaderInv, ~nal PROVE position = StreamPosition
          BY DEF ReaderInv
      <2>1. ByteBits \in Nat /\ rpos \in 0 .. ByteBits - 1 /\ rat \in Nat
            BY BitAssumption DEF ReaderInv
      <2>2. PICK here \in Int : here = rat * ByteBits
            BY <2>1
      <2>3. position = here - (IF rpos = 0 THEN 0 ELSE ByteBits - rpos)
            BY <2>2 DEF ReaderInv, ReaderKnows, Unread
      <2>4. StreamPosition = here + (IF rpos = 0 THEN 0 ELSE rpos - ByteBits)
            BY <2>2 DEF StreamPosition
      <2> QED BY <2>1, <2>3, <2>4
<1> QED BY <1>1, ReaderInvariant, PTL
-----------------------------------------------------------------------------
(* The bits of a number. *)

(* The powers of 2 that occur are positive.                                  *)
LEMMA PowersPositive == \A n \in 0 .. NumberBits : 2 ^ n \in Nat /\ 2 ^ n > 0
<1> DEFINE S == {n \in 1 .. NumberBits : ~(2 ^ n \in Nat /\ 2 ^ n > 0)}
<1>1. NumberBits \in Nat
      BY BitAssumption
<1>2. S = {}
      <2> SUFFICES ASSUME S # {} PROVE FALSE
          OBVIOUS
      <2>1. S \subseteq 1 .. NumberBits
            OBVIOUS
      <2>2. PICK n \in S : \A j \in S : n <= j
            BY <1>1, <2>1, LeastIsThere
      <2>3. PICK m \in 0 .. NumberBits - 1 : n = m + 1
            BY <1>1, <2>1, <2>2
      <2>4. 2 ^ m \in Nat /\ 2 ^ m > 0
            <3>1. CASE m = 0
                  BY <3>1, PowersAssumption
            <3>2. CASE m # 0
                  <4>1. m \in 1 .. NumberBits /\ ~(m \in S)
                        BY <1>1, <2>2, <2>3, <3>2
                  <4> QED BY <4>1
            <3> QED BY <3>1, <3>2
      <2>5. 2 ^ n = 2 * 2 ^ m
            BY <2>3, PowersAssumption
      <2> QED BY <2>2, <2>4, <2>5
<1>3. ASSUME NEW n \in 0 .. NumberBits PROVE 2 ^ n \in Nat /\ 2 ^ n > 0
      <2>1. CASE n = 0
            BY <2>1, PowersAssumption
      <2>2. CASE n # 0
            BY <1>1, <1>2, <2>2
      <2> QED BY <2>1, <2>2
<1> QED BY <1>3

(* The sizes of a byte and of its parts.                                     *)
LEMMA Weights ==
    /\ ByteBits \in Nat /\ ByteBits > 0 /\ NumberBits \in Nat
    /\ \A n \in 0 .. ByteBits : n \in 0 .. NumberBits /\ 2 ^ n \in Nat /\ 2 ^ n > 0
    /\ \A n \in 0 .. ByteBits - 1 : 2 ^ (n + 1) = 2 * 2 ^ n
    /\ 2 ^ 0 = 1
<1>1. /\ ByteBits \in Nat /\ ByteBits > 0 /\ NumberBits \in Nat /\ ByteBits <= NumberBits
      BY BitAssumption
<1>2. \A n \in 0 .. ByteBits : n \in 0 .. NumberBits
      BY <1>1
<1>3. \A n \in 0 .. ByteBits - 1 : n \in 0 .. NumberBits - 1
      BY <1>1
<1> QED BY <1>1, <1>2, <1>3, PowersPositive, PowersAssumption

(* Division, from a quotient and a remainder.                                *)
LEMMA QuotientIs ==
    ASSUME NEW w \in Nat, w > 0, NEW q \in Nat, NEW r \in 0 .. w - 1, NEW x \in Nat, x = q * w + r
    PROVE  x \div w = q
<1>1. PICK p \in Int : p = x \div w
      OBVIOUS
<1>2. x - p * w \in 0 .. w - 1
      BY <1>1
<1>3. (q - p) * w = q * w - p * w /\ q * w \in Int /\ p * w \in Int
      OBVIOUS
<1>4. -w < (q - p) * w /\ (q - p) * w < w
      <2>1. PICK a \in Int, b \in Int : a = q * w /\ b = p * w
            BY <1>3
      <2>2. x = a + r /\ x - b \in 0 .. w - 1
            BY <1>2, <2>1
      <2> QED BY <1>3, <2>1, <2>2
<1>5. q - p >= 1 => (q - p) * w >= w
      OBVIOUS
<1>6. q - p <= -1 => (q - p) * w <= -w
      OBVIOUS
<1>7. q = p
      BY <1>4, <1>5, <1>6
<1> QED BY <1>1, <1>7


\* sequences of bits
Binary == Seq({0, 1})

LEMMA BitsAre ==
    ASSUME NEW v \in Nat, NEW count \in 0 .. NumberBits
    PROVE  /\ BitsOf(v, count) \in Binary /\ Len(BitsOf(v, count)) = count
           /\ \A i \in 1 .. count : BitsOf(v, count)[i] = (v \div 2 ^ (count - i)) % 2
<1>1. \A i \in 1 .. count : (v \div 2 ^ (count - i)) % 2 \in {0, 1}
      <2> SUFFICES ASSUME NEW i \in 1 .. count PROVE (v \div 2 ^ (count - i)) % 2 \in {0, 1}
          OBVIOUS
      <2>1. count - i \in 0 .. NumberBits
            BY BitAssumption
      <2>2. PICK w \in Nat : w = 2 ^ (count - i) /\ w > 0
            BY <2>1, PowersPositive
      <2>3. PICK q \in Int : q = v \div w
            BY <2>2
      <2>4. q % 2 \in {0, 1}
            BY <2>3
      <2> QED BY <2>2, <2>3, <2>4
<1>2. count \in Nat
      BY BitAssumption
<1>3. /\ BitsOf(v, count) \in Seq({0, 1}) /\ Len(BitsOf(v, count)) = count
      BY <1>1, <1>2 DEF BitsOf
<1> QED BY <1>3 DEF Binary, BitsOf

LEMMA ZerosAre ==
    ASSUME NEW count \in Nat
    PROVE  /\ Zeros(count) \in Binary /\ Len(Zeros(count)) = count
           /\ \A i \in 1 .. count : Zeros(count)[i] = 0
  BY DEF Zeros, Binary

(* A number has as many leading zeros as its code needs.                     *)
LEMMA LeadingZerosAre ==
    ASSUME NEW v \in 0 .. 2 ^ NumberBits - 2
    PROVE  /\ LeadingZeros(v) \in 0 .. NumberBits - 1
           /\ 2 ^ LeadingZeros(v) <= v + 1 /\ v + 1 < 2 ^ (LeadingZeros(v) + 1)
<1> DEFINE S == {n \in 1 .. NumberBits : v + 1 < 2 ^ n}
<1>1. NumberBits \in Nat /\ NumberBits > 0 /\ v \in Nat /\ v + 1 < 2 ^ NumberBits
      <2>1. NumberBits \in Nat /\ NumberBits > 0
            BY BitAssumption
      <2>2. PICK top \in Nat : top = 2 ^ NumberBits
            BY <2>1, PowersPositive
      <2> QED BY <2>1, <2>2
<1>2. NumberBits \in S
      BY <1>1
<1>3. PICK n \in S : \A j \in S : n <= j
      BY <1>1, <1>2, LeastIsThere
<1>4. PICK z \in 0 .. NumberBits - 1 : n = z + 1
      BY <1>1, <1>3
<1>5. 2 ^ z <= v + 1
      <2>1. CASE z = 0
            BY <1>1, <2>1, PowersAssumption
      <2>2. CASE z # 0
            <3>1. z \in 1 .. NumberBits /\ ~(z \in S)
                  BY <1>1, <1>3, <1>4, <2>2
            <3>2. ~(v + 1 < 2 ^ z) /\ 2 ^ z \in Nat
                  BY <3>1, PowersPositive
            <3> QED BY <1>1, <3>2
      <2> QED BY <2>1, <2>2
<1>6. v + 1 < 2 ^ (z + 1)
      BY <1>4
<1> HIDE DEF S
<1>7. \E y \in 0 .. NumberBits - 1 : 2 ^ y <= v + 1 /\ v + 1 < 2 ^ (y + 1)
      BY <1>5, <1>6
<1> QED BY <1>7, Zenon DEF LeadingZeros

\* bit i of an Exp-Golomb code of z leading zeros
CodeBit(v, z, i) == IF i <= z THEN 0 ELSE ((v + 1) \div 2 ^ (2 * z + 1 - i)) % 2

LEMMA ExpGolombIs ==
    ASSUME NEW v \in 0 .. 2 ^ NumberBits - 2
    PROVE  /\ LeadingZeros(v) \in 0 .. NumberBits - 1
           /\ ExpGolomb(v) \in Binary /\ Len(ExpGolomb(v)) = 2 * LeadingZeros(v) + 1
           /\ \A i \in 1 .. 2 * LeadingZeros(v) + 1 : ExpGolomb(v)[i] = CodeBit(v, LeadingZeros(v), i)
<1>1. PICK z \in 0 .. NumberBits - 1 : z = LeadingZeros(v)
      BY LeadingZerosAre
<1>2. NumberBits \in Nat /\ v + 1 \in Nat /\ z \in Nat /\ z + 1 \in 0 .. NumberBits
      BY <1>1, BitAssumption
<1>3. PICK head : head = Zeros(z)
      OBVIOUS
<1>4. /\ head \in Binary /\ Len(head) = z /\ \A i \in 1 .. z : head[i] = 0
      BY <1>2, <1>3, ZerosAre
<1>5. PICK tail : tail = BitsOf(v + 1, z + 1)
      OBVIOUS
<1>6. /\ tail \in Binary /\ Len(tail) = z + 1
      /\ \A i \in 1 .. z + 1 : tail[i] = ((v + 1) \div 2 ^ (z + 1 - i)) % 2
      BY <1>2, <1>5, BitsAre
<1>7. /\ head \o tail \in Binary /\ Len(head \o tail) = 2 * z + 1
      /\ \A i \in 1 .. z : (head \o tail)[i] = head[i]
      /\ \A i \in z + 1 .. 2 * z + 1 : (head \o tail)[i] = tail[i - z]
      <2>1. head \in Seq({0, 1}) /\ tail \in Seq({0, 1})
            BY <1>4, <1>6 DEF Binary
      <2>2. head \o tail \in Seq({0, 1})
            BY <2>1, ConcatProperties
      <2>3. Len(head \o tail) = z + (z + 1)
            BY <2>1, <1>4, <1>6
      <2> QED BY <2>1, <2>2, <2>3, <1>2, <1>4, <1>6 DEF Binary
<1>8. ASSUME NEW i \in 1 .. 2 * z + 1
      PROVE  (head \o tail)[i] = CodeBit(v, z, i)
      <2>1. CASE i <= z
            BY <1>2, <1>4, <1>7, <2>1 DEF CodeBit
      <2>2. CASE ~(i <= z)
            <3>1. (head \o tail)[i] = tail[i - z] /\ i - z \in 1 .. z + 1
                  BY <1>2, <1>7, <2>2
            <3>2. z + 1 - (i - z) = 2 * z + 1 - i
                  BY <1>2
            <3>3. tail[i - z] = ((v + 1) \div 2 ^ (z + 1 - (i - z))) % 2
                  BY <1>6, <3>1
            <3> QED BY <2>2, <3>1, <3>2, <3>3 DEF CodeBit
      <2> QED BY <2>1, <2>2
<1>9. ExpGolomb(v) = head \o tail
      BY <1>1, <1>3, <1>5 DEF ExpGolomb
<1>10. /\ ExpGolomb(v) \in Binary /\ Len(ExpGolomb(v)) = 2 * z + 1
      /\ \A i \in 1 .. 2 * z + 1 : ExpGolomb(v)[i] = CodeBit(v, z, i)
      BY <1>7, <1>8, <1>9, Zenon
<1> QED BY <1>1, <1>10, Zenon

\* the bits of a symbol, of which an align has as many as there is room in the byte
Code(s, room) ==
    CASE s.op = "bits"  -> BitsOf(s.value, s.count)
      [] s.op = "ue"    -> ExpGolomb(s.value)
      [] s.op = "se"    -> ExpGolomb(Folded(s.value))
      [] s.op = "bytes" -> [i \in 1 .. s.count * ByteBits |->
                                BitsOf(s.value, ByteBits)[((i - 1) % ByteBits) + 1]]
      [] s.op = "align" -> Zeros(room)

Room == IF wpos = 0 THEN 0 ELSE ByteBits - wpos

LEMMA FoldedIs ==
    ASSUME NEW s \in Symbols, s.op = "se"
    PROVE  Folded(s.value) \in 0 .. 2 ^ NumberBits - 2
<1>1. PICK top \in Nat : top = 2 ^ NumberBits
      BY PowersPositive, BitAssumption
<1>2. s.value \in Int /\ 2 * s.value \in 2 - top .. top - 1
      BY <1>1, SymbolsAssumption
<1>3. Folded(s.value) \in 0 .. top - 2
      BY <1>2 DEF Folded
<1> QED BY <1>1, <1>3

LEMMA WholeBytesAre ==
    ASSUME NEW v \in Bytes, NEW count \in Nat, NEW bits, bits = BitsOf(v, ByteBits)
    PROVE  [i \in 1 .. count * ByteBits |-> bits[((i - 1) % ByteBits) + 1]] \in Binary
<1>1. v \in Nat /\ ByteBits \in 0 .. NumberBits
      BY BytesAssumption, BitAssumption
<1>2. bits \in Seq({0, 1}) /\ Len(bits) = ByteBits
      BY <1>1, BitsAre DEF Binary
<1>3. PICK n \in Nat : n = count * ByteBits
      BY Weights
<1>4. ASSUME NEW i \in 1 .. n PROVE bits[((i - 1) % ByteBits) + 1] \in {0, 1}
      <2>1. i - 1 \in Nat
            BY <1>3
      <2>2. (i - 1) % ByteBits \in 0 .. ByteBits - 1
            BY <2>1, Weights
      <2>3. PICK j \in 1 .. ByteBits : j = ((i - 1) % ByteBits) + 1
            BY <2>2, Weights
      <2> QED BY <1>2, <2>3
<1>5. [i \in 1 .. n |-> bits[((i - 1) % ByteBits) + 1]] \in Seq({0, 1})
      BY <1>4
<1> QED BY <1>3, <1>5 DEF Binary

(* What is written of a symbol are bits.                                     *)
LEMMA CodesAre ==
    ASSUME NEW s \in Symbols, NEW room \in Nat
    PROVE  Code(s, room) \in Binary
<1>1. CASE s.op = "bits"
      <2>1. s.value \in Nat /\ s.count \in 0 .. NumberBits
            <3>1. PICK top \in Nat : top = 2 ^ NumberBits
                  BY PowersPositive, BitAssumption
            <3> QED BY <1>1, <3>1, SymbolsAssumption
      <2> QED BY <1>1, <2>1, BitsAre DEF Code
<1>2. CASE s.op = "ue"
      <2>1. s.value \in 0 .. 2 ^ NumberBits - 2
            BY <1>2, SymbolsAssumption
      <2> QED BY <1>2, <2>1, ExpGolombIs DEF Code
<1>3. CASE s.op = "se"
      <2>1. Folded(s.value) \in 0 .. 2 ^ NumberBits - 2
            BY <1>3, FoldedIs
      <2> QED BY <1>3, <2>1, ExpGolombIs DEF Code
<1>4. CASE s.op = "bytes"
      <2>1. s.value \in Bytes /\ s.count \in Nat
            BY <1>4, SymbolsAssumption
      <2>2. [i \in 1 .. s.count * ByteBits |-> BitsOf(s.value, ByteBits)[((i - 1) % ByteBits) + 1]] \in Binary
            BY <2>1, WholeBytesAre
      <2> QED BY <1>4, <2>2, Zenon DEF Code
<1>5. CASE s.op = "align"
      BY <1>5, ZerosAre DEF Code
<1> QED BY <1>1, <1>2, <1>3, <1>4, <1>5, SymbolsAssumption DEF Operations

(* The pieces of a symbol are its bits, one by one, or whole bytes.          *)
LEMMA PiecesAre ==
    ASSUME NEW s \in Symbols, wpos \in 0 .. ByteBits - 1
    PROVE  \/ Pieces(s) = Single(Code(s, Room))
           \/ /\ s.op = "bytes" /\ wpos = 0
              /\ Pieces(s) = Copies(BitsOf(s.value, ByteBits), s.count)
<1>1. CASE s.op \in {"bits", "ue", "se"}
      BY <1>1 DEF Pieces, Code
<1>2. CASE s.op = "bytes" /\ wpos = 0
      BY <1>2 DEF Pieces
<1>3. CASE s.op = "bytes" /\ wpos # 0
      <2> DEFINE code == [i \in 1 .. s.count * ByteBits |->
                                BitsOf(s.value, ByteBits)[((i - 1) % ByteBits) + 1]]
      <2>1. Single(code) = [i \in 1 .. s.count * ByteBits |->
                                <<BitsOf(s.value, ByteBits)[((i - 1) % ByteBits) + 1]>>]
            BY DEF Single
      <2>2. Code(s, Room) = code
            BY <1>3, Zenon DEF Code
      <2>3. Pieces(s) = [i \in 1 .. s.count * ByteBits |->
                                <<BitsOf(s.value, ByteBits)[((i - 1) % ByteBits) + 1]>>]
            BY <1>3, Zenon DEF Pieces
      <2> QED BY <2>1, <2>2, <2>3, Zenon
<1>4. CASE s.op = "align" /\ wpos # 0
      <2>1. Code(s, Room) = Zeros(ByteBits - wpos)
            BY <1>4 DEF Code, Room
      <2>2. Pieces(s) = Single(Zeros(ByteBits - wpos))
            BY <1>4 DEF Pieces
      <2> QED BY <2>1, <2>2
<1>5. CASE s.op = "align" /\ wpos = 0
      <2>1. Code(s, Room) = Zeros(0) /\ Pieces(s) = <<>>
            BY <1>5 DEF Code, Room, Pieces
      <2>2. Single(Zeros(0)) \in Seq({}) /\ Len(Single(Zeros(0))) = 0
            BY DEF Single, Zeros
      <2>3. Single(Zeros(0)) = <<>>
            BY <2>2, EmptySeq
      <2> QED BY <2>1, <2>3
<1> QED BY <1>1, <1>2, <1>3, <1>4, <1>5, SymbolsAssumption DEF Operations

LEMMA SinglesAre ==
    ASSUME NEW code \in Binary
    PROVE  /\ Single(code) \in Seq(Binary) /\ Len(Single(code)) = Len(code)
           /\ \A j \in 1 .. Len(code) : Single(code)[j] = <<code[j]>> /\ Len(Single(code)[j]) = 1
<1>1. code \in Seq({0, 1}) /\ DOMAIN code = 1 .. Len(code) /\ Len(code) \in Nat
      BY DEF Binary
<1>2. \A j \in 1 .. Len(code) : code[j] \in {0, 1} /\ <<code[j]>> \in Seq({0, 1})
      BY <1>1
<1>3. Single(code) = [j \in 1 .. Len(code) |-> <<code[j]>>]
      BY <1>1 DEF Single
<1>4. Single(code) \in Seq(Binary) /\ Len(Single(code)) = Len(code)
      BY <1>1, <1>2, <1>3 DEF Binary
<1> QED BY <1>3, <1>4

LEMMA CopiesAre ==
    ASSUME NEW v \in Bytes, NEW count \in Nat, NEW whole, whole = Copies(BitsOf(v, ByteBits), count)
    PROVE  /\ whole \in Seq(Binary) /\ Len(whole) = count
           /\ \A j \in 1 .. count : whole[j] = BitsOf(v, ByteBits)
<1>1. v \in Nat /\ ByteBits \in 0 .. NumberBits
      BY BytesAssumption, BitAssumption
<1>2. PICK bits \in Binary : bits = BitsOf(v, ByteBits)
      BY <1>1, BitsAre
<1>3. whole \in Seq(Binary) /\ Len(whole) = count /\ \A j \in 1 .. count : whole[j] = bits
      BY <1>2 DEF Copies
<1> QED BY <1>2, <1>3
-----------------------------------------------------------------------------
(* The writer: the bits written are those of the bytes of the payload and of *)
(* current_byte, which has room for more.                                    *)

\* bit i of a byte, the first one first
BitOf(byte, i) == (byte \div 2 ^ (ByteBits - i)) % 2

\* b is the digit of weight w of x, below which there is room for more
Draws(x, w, b, more) ==
    \E h \in Nat, l \in Nat : x = 2 * (h * w) + w * b + l /\ l + more <= w

FlatIs ==
    /\ flat \in Binary /\ payload \in Seq(Bytes) /\ wpos \in 0 .. ByteBits - 1
    /\ Len(flat) = Len(payload) * ByteBits + wpos
    /\ \A k \in 1 .. Len(payload), i \in 1 .. ByteBits :
            flat[(k - 1) * ByteBits + i] = BitOf(payload[k], i)

ByteIs ==
    /\ wbyte \in Nat
    /\ \E m \in Nat : wbyte = m * 2 ^ (ByteBits - wpos)
    /\ wbyte + 2 ^ (ByteBits - wpos) <= 2 ^ ByteBits
    /\ \A i \in 1 .. wpos :
            Draws(wbyte, 2 ^ (ByteBits - i), flat[Len(payload) * ByteBits + i], 2 ^ (ByteBits - wpos))

Written == FlatIs /\ ByteIs

(* The bits of the bytes before are among the bits written.                  *)
LEMMA PlaceOfBit ==
    ASSUME NEW n \in Nat, NEW k \in 1 .. n, NEW i \in 1 .. ByteBits
    PROVE  (k - 1) * ByteBits + i \in 1 .. n * ByteBits
<1>1. ByteBits \in Nat /\ ByteBits > 0
      BY Weights
<1>2. n * ByteBits = (k - 1) * ByteBits + ByteBits + (n - k) * ByteBits
      BY <1>1
<1>3. PICK a \in Nat, b \in Nat, c \in Nat : a = (k - 1) * ByteBits /\ b = (n - k) * ByteBits /\ c = n * ByteBits
      BY <1>1
<1>4. c = a + ByteBits + b
      BY <1>2, <1>3
<1> QED BY <1>1, <1>3, <1>4

LEMMA LessRoom ==
    ASSUME NEW x \in Nat, NEW w \in Nat, NEW b \in {0, 1}, NEW bit \in {0, 1}, NEW more \in Nat,
           Draws(x, w, b, 2 * more)
    PROVE  Draws(x + bit * more, w, b, more)
<1>1. PICK h \in Nat, l \in Nat : x = 2 * (h * w) + w * b + l /\ l + 2 * more <= w
      BY DEF Draws
<1>2. bit * more \in Nat /\ bit * more <= more
      OBVIOUS
<1>3. PICK add \in Nat : add = bit * more /\ add <= more
      BY <1>2
<1>4. PICK high \in Nat, mid \in Nat : high = h * w /\ mid = w * b
      OBVIOUS
<1>5. x + add = 2 * high + mid + (l + add) /\ (l + add) + more <= w
      BY <1>1, <1>3, <1>4
<1>6. l + add \in Nat
      BY <1>3
<1>7. x + add = 2 * (h * w) + w * b + (l + add)
      BY <1>4, <1>5
<1> QED BY <1>3, <1>5, <1>6, <1>7 DEF Draws

(* write_bit puts a bit into current_byte, and leaves those that are there.  *)
LEMMA BitAdded ==
    ASSUME Written, NEW bit \in {0, 1}, NEW more, more = 2 ^ (ByteBits - (wpos + 1)),
           NEW x, x = Completed(bit)
    PROVE  /\ x \in Nat /\ more \in Nat
           /\ \E m \in Nat : x = m * more
           /\ x + more <= 2 ^ ByteBits
           /\ \A i \in 1 .. wpos :
                  Draws(x, 2 ^ (ByteBits - i), flat[Len(payload) * ByteBits + i], more)
           /\ Draws(x, more, bit, more)
<1>1. ByteBits \in Nat /\ ByteBits > 0 /\ wpos \in 0 .. ByteBits - 1 /\ wbyte \in Nat
      BY Weights DEF Written, FlatIs, ByteIs
<1>2. PICK n \in 0 .. ByteBits - 1 : n = ByteBits - (wpos + 1) /\ n = ByteBits - 1 - wpos /\ n + 1 = ByteBits - wpos
      BY <1>1
<1>3. more \in Nat /\ more > 0 /\ 2 ^ (ByteBits - wpos) = 2 * more /\ x = wbyte + bit * more
      <2>1. n \in 0 .. ByteBits /\ more = 2 ^ n
            BY <1>1, <1>2
      <2>2. 2 ^ (n + 1) = 2 * 2 ^ n
            BY <1>2, Weights
      <2>3. 2 ^ (ByteBits - 1 - wpos) = more /\ 2 ^ (n + 1) = 2 ^ (ByteBits - wpos)
            BY <1>2, <2>1
      <2>4. more \in Nat /\ more > 0
            BY <2>1, Weights
      <2> QED BY <2>1, <2>2, <2>3, <2>4 DEF Completed
<1>4. PICK m \in Nat : wbyte = m * (2 * more)
      BY <1>3 DEF Written, ByteIs
<1>5. x \in Nat /\ x = (2 * m + bit) * more
      BY <1>1, <1>3, <1>4
<1>6. x + more <= 2 ^ ByteBits
      <2>1. PICK top \in Nat : top = 2 ^ ByteBits
            BY <1>1, Weights
      <2>2. wbyte + 2 * more <= top
            BY <1>3, <2>1 DEF Written, ByteIs
      <2>3. bit * more <= more /\ bit * more \in Nat
            BY <1>3
      <2> QED BY <1>1, <1>3, <2>1, <2>2, <2>3
<1>7. ASSUME NEW i \in 1 .. wpos
      PROVE  Draws(x, 2 ^ (ByteBits - i), flat[Len(payload) * ByteBits + i], more)
      <2>1. ByteBits - i \in 0 .. ByteBits
            BY <1>1
      <2>2. PICK w \in Nat : w = 2 ^ (ByteBits - i)
            BY <2>1, Weights
      <2>3. PICK len \in Nat : len = Len(payload) * ByteBits
            BY <1>1 DEF Written, FlatIs
      <2>4. len + i \in 1 .. Len(flat) /\ flat \in Seq({0, 1})
            <3>1. Len(flat) = len + wpos
                  BY <2>3 DEF Written, FlatIs
            <3> QED BY <1>1, <2>3, <3>1 DEF Written, FlatIs, Binary
      <2>5. PICK b \in {0, 1} : b = flat[len + i]
            BY <2>4
      <2>6. Draws(wbyte, w, b, 2 * more)
            BY <1>3, <2>2, <2>3, <2>5 DEF Written, ByteIs
      <2>7. Draws(wbyte + bit * more, w, b, more)
            BY <1>1, <1>3, <2>6, LessRoom
      <2> QED BY <1>3, <2>2, <2>3, <2>5, <2>7
<1>8. Draws(x, more, bit, more)
      <2>1. m * (2 * more) = 2 * (m * more) /\ bit * more = more * bit
            BY <1>3
      <2>2. x = 2 * (m * more) + more * bit + 0 /\ 0 + more <= more
            BY <1>1, <1>3, <1>4, <2>1
      <2> QED BY <2>2 DEF Draws
<1>9. \E j \in Nat : x = j * more
      <2>1. 2 * m + bit \in Nat
            OBVIOUS
      <2> QED BY <1>5, <2>1
<1>10. \A i \in 1 .. wpos :
            Draws(x, 2 ^ (ByteBits - i), flat[Len(payload) * ByteBits + i], more)
      BY <1>7
<1> QED BY <1>3, <1>5, <1>6, <1>8, <1>9, <1>10, Zenon

LEMMA DrawnBit ==
    ASSUME NEW x \in Nat, NEW w \in Nat, w > 0, NEW b \in {0, 1}, Draws(x, w, b, 1)
    PROVE  (x \div w) % 2 = b
<1>1. PICK h \in Nat, l \in Nat : x = 2 * (h * w) + w * b + l /\ l + 1 <= w
      BY DEF Draws
<1>2. l \in 0 .. w - 1
      BY <1>1
<1>3. PICK hw \in Nat, wb \in Nat : hw = h * w /\ wb = w * b
      OBVIOUS
<1>4. x = 2 * hw + wb + l
      BY <1>1, <1>3
<1>5. (2 * h + b) * w = 2 * hw + wb /\ 2 * h + b \in Nat
      BY <1>3
<1>6. x = (2 * h + b) * w + l
      BY <1>4, <1>5
<1>7. x \div w = 2 * h + b
      BY <1>2, <1>5, <1>6, QuotientIs
<1>8. (2 * h + b) % 2 = b
      OBVIOUS
<1> QED BY <1>7, <1>8

LEMMA ByteEmpty ==
    ASSUME wpos' = 0, wbyte' = 0
    PROVE  ByteIs'
<1>1. ByteBits \in Nat /\ ByteBits - 0 = ByteBits /\ ByteBits \in 0 .. ByteBits
      BY Weights
<1>2. 2 ^ ByteBits \in Nat
      BY <1>1, Weights
<1>3. PICK w \in Nat : w = 2 ^ ByteBits
      BY <1>2
<1>4. 2 ^ (ByteBits - wpos') = w
      BY <1>1, <1>3
<1>5. wbyte' \in Nat /\ wbyte' = 0 * w /\ wbyte' + w <= w /\ 1 .. wpos' = {}
      BY <1>3
<1> QED BY <1>3, <1>4, <1>5 DEF ByteIs

\* what was written before stays, and its bits are those of the bytes before
LEMMA BytesStay ==
    ASSUME FlatIs, NEW more \in Binary, flat' = flat \o more, NEW k \in 1 .. Len(payload), NEW i \in 1 .. ByteBits
    PROVE  flat'[(k - 1) * ByteBits + i] = BitOf(payload[k], i)
<1>1. flat \in Seq({0, 1}) /\ more \in Seq({0, 1}) /\ payload \in Seq(Bytes)
      BY DEF FlatIs, Binary
<1>2. PICK n \in Nat : n = Len(payload)
      BY <1>1
<1>3. PICK all \in Nat : all = n * ByteBits
      BY Weights
<1>4. PICK at \in 1 .. all : at = (k - 1) * ByteBits + i
      BY <1>2, <1>3, PlaceOfBit
<1>5. at \in 1 .. Len(flat)
      <2>1. Len(flat) = all + wpos /\ wpos \in Nat
            BY <1>2, <1>3, Weights DEF FlatIs
      <2> QED BY <1>3, <1>4, <2>1
<1>6. flat'[at] = flat[at]
      BY <1>1, <1>5
<1>7. flat[(k - 1) * ByteBits + i] = BitOf(payload[k], i)
      BY DEF FlatIs
<1> QED BY <1>4, <1>6, <1>7

LEMMA JoinedAre ==
    ASSUME NEW a \in Binary, NEW b \in Binary
    PROVE  /\ a \o b \in Binary /\ Len(a \o b) = Len(a) + Len(b)
           /\ \A i \in 1 .. Len(a) : (a \o b)[i] = a[i]
           /\ \A i \in 1 .. Len(b) : (a \o b)[Len(a) + i] = b[i]
  BY DEF Binary

LEMMA BitIsMore ==
    ASSUME NEW s \in Binary, NEW bit \in {0, 1}
    PROVE  <<bit>> \in Binary /\ Len(<<bit>>) = 1 /\ Append(s, bit) = s \o <<bit>>
  BY DEF Binary

(* A bit is written into a byte that is not full then.                       *)
LEMMA BitWritten ==
    ASSUME Written, NEW bit \in {0, 1}, wpos + 1 # ByteBits, flat' = Append(flat, bit),
           wpos' = wpos + 1, wbyte' = Completed(bit), payload' = payload
    PROVE  Written'
<1>1. ByteBits \in Nat /\ ByteBits > 0 /\ wpos \in 0 .. ByteBits - 1 /\ wpos' \in 0 .. ByteBits - 1
      BY Weights DEF Written, FlatIs
<1>2. flat \in Seq({0, 1}) /\ payload \in Seq(Bytes) /\ FlatIs
      BY DEF Written, FlatIs, Binary
<1>3. PICK n \in Nat, all \in Nat : n = Len(payload) /\ all = n * ByteBits
      BY <1>1, <1>2
<1>4. Len(flat) = all + wpos
      BY <1>3 DEF Written, FlatIs
<1>5. /\ flat' \in Binary /\ Len(flat') = all + wpos' /\ flat'[all + wpos'] = bit
      /\ \A i \in 1 .. Len(flat) : flat'[i] = flat[i]
      BY <1>1, <1>2, <1>4 DEF Binary
<1>6. FlatIs'
      <2>1. <<bit>> \in Binary /\ flat' = flat \o <<bit>>
            BY <1>2, BitIsMore DEF Binary
      <2>2. \A k \in 1 .. Len(payload), i \in 1 .. ByteBits :
                flat'[(k - 1) * ByteBits + i] = BitOf(payload[k], i)
            BY <1>2, <2>1, BytesStay
      <2>3. \A k \in 1 .. Len(payload'), i \in 1 .. ByteBits :
                flat'[(k - 1) * ByteBits + i] = BitOf(payload'[k], i)
            BY <2>2, Zenon
      <2>4. Len(flat') = Len(payload') * ByteBits + wpos'
            BY <1>3, <1>5
      <2> QED BY <1>1, <1>2, <1>5, <2>3, <2>4 DEF FlatIs, BitOf
<1>7. PICK more, x : more = 2 ^ (ByteBits - (wpos + 1)) /\ x = Completed(bit)
      OBVIOUS
<1>8. /\ x \in Nat /\ more \in Nat
      /\ \E m \in Nat : x = m * more
      /\ x + more <= 2 ^ ByteBits
      /\ \A i \in 1 .. wpos :
             Draws(x, 2 ^ (ByteBits - i), flat[Len(payload) * ByteBits + i], more)
      /\ Draws(x, more, bit, more)
      BY <1>7, BitAdded
<1>9. wbyte' = x /\ 2 ^ (ByteBits - wpos') = more
      BY <1>7
<1>10. ASSUME NEW i \in 1 .. wpos'
       PROVE  Draws(x, 2 ^ (ByteBits - i), flat'[Len(payload) * ByteBits + i], more)
      <2>1. CASE i = wpos'
            <3>1. flat'[Len(payload) * ByteBits + i] = bit
                  BY <1>3, <1>5, <2>1
            <3>2. 2 ^ (ByteBits - i) = more
                  BY <1>9, <2>1
            <3> QED BY <1>8, <3>1, <3>2
      <2>2. CASE i # wpos'
            <3>1. i \in 1 .. wpos /\ all + i \in 1 .. Len(flat)
                  BY <1>1, <1>3, <1>4, <2>2
            <3>2. flat'[all + i] = flat[all + i]
                  BY <1>5, <3>1
            <3>3. Draws(x, 2 ^ (ByteBits - i), flat[Len(payload) * ByteBits + i], more)
                  BY <1>8, <3>1
            <3> QED BY <1>3, <3>2, <3>3
      <2> QED BY <2>1, <2>2
<1>11. ByteIs'
      <2>1. \A i \in 1 .. wpos' :
                Draws(wbyte', 2 ^ (ByteBits - i), flat'[Len(payload') * ByteBits + i], 2 ^ (ByteBits - wpos'))
            BY <1>9, <1>10
      <2>2. /\ wbyte' \in Nat
            /\ \E m \in Nat : wbyte' = m * 2 ^ (ByteBits - wpos')
            /\ wbyte' + 2 ^ (ByteBits - wpos') <= 2 ^ ByteBits
            BY <1>8, <1>9
      <2> QED BY <2>1, <2>2, Zenon DEF ByteIs, Draws
<1> QED BY <1>6, <1>11 DEF Written

(* A bit that completes a byte is written, and the byte with it.             *)
LEMMA LastBitWritten ==
    ASSUME Written, NEW bit \in {0, 1}, wpos + 1 = ByteBits, flat' = Append(flat, bit),
           wpos' = 0, wbyte' = 0, payload' = Append(payload, Completed(bit))
    PROVE  Completed(bit) \in Bytes /\ Written'
<1>1. ByteBits \in Nat /\ ByteBits > 0 /\ wpos \in 0 .. ByteBits - 1 /\ wpos' \in 0 .. ByteBits - 1
      BY Weights DEF Written, FlatIs
<1>2. flat \in Seq({0, 1}) /\ payload \in Seq(Bytes) /\ FlatIs
      BY DEF Written, FlatIs, Binary
<1>3. PICK n \in Nat, all \in Nat : n = Len(payload) /\ all = n * ByteBits
      BY <1>1, <1>2
<1>4. Len(flat) = all + wpos
      BY <1>3 DEF Written, FlatIs
<1>5. PICK x : x = Completed(bit)
      OBVIOUS
<1>6. /\ x \in Nat /\ x + 1 <= 2 ^ ByteBits
      /\ \A i \in 1 .. wpos :
             Draws(x, 2 ^ (ByteBits - i), flat[Len(payload) * ByteBits + i], 1)
      /\ Draws(x, 1, bit, 1)
      <2>1. 1 = 2 ^ (ByteBits - (wpos + 1))
            <3>1. ByteBits - (wpos + 1) = 0
                  BY <1>1
            <3> QED BY <3>1, Weights
      <2> QED BY <2>1, <1>5, BitAdded
<1>7. x \in Bytes
      <2>1. PICK top \in Nat : top = 2 ^ ByteBits
            BY <1>1, Weights
      <2>2. Bytes = 0 .. top - 1
            BY <2>1, BitAssumption
      <2> QED BY <1>6, <2>1, <2>2
<1>8. /\ flat' \in Binary /\ Len(flat') = all + ByteBits /\ flat'[all + ByteBits] = bit
      /\ \A i \in 1 .. Len(flat) : flat'[i] = flat[i]
      BY <1>1, <1>2, <1>4 DEF Binary
<1>9. /\ payload' \in Seq(Bytes) /\ Len(payload') = n + 1 /\ payload'[n + 1] = x
      /\ \A k \in 1 .. n : payload'[k] = payload[k]
      BY <1>2, <1>3, <1>5, <1>7
<1>10. ASSUME NEW i \in 1 .. ByteBits
       PROVE  flat'[all + i] = BitOf(x, i)
      <2>1. CASE i = ByteBits
            <3>1. ByteBits - i = 0
                  BY <1>1, <2>1
            <3>2. (x \div 1) % 2 = bit
                  BY <1>6, DrawnBit
            <3> QED BY <1>8, <2>1, <3>1, <3>2, Weights DEF BitOf
      <2>2. CASE i # ByteBits
            <3>1. i \in 1 .. wpos /\ all + i \in 1 .. Len(flat) /\ ByteBits - i \in 0 .. ByteBits
                  BY <1>1, <1>3, <1>4, <2>2
            <3>2. PICK b \in {0, 1} : b = flat[all + i]
                  BY <1>2, <3>1
            <3>3. PICK w \in Nat : w = 2 ^ (ByteBits - i) /\ w > 0
                  BY <3>1, Weights
            <3>4. Draws(x, w, b, 1)
                  BY <1>3, <1>6, <3>1, <3>2, <3>3
            <3>5. (x \div w) % 2 = b
                  BY <1>6, <3>3, <3>4, DrawnBit
            <3>6. flat'[all + i] = b
                  BY <1>8, <3>1, <3>2
            <3> QED BY <3>3, <3>5, <3>6 DEF BitOf
      <2> QED BY <2>1, <2>2
<1>11. FlatIs'
      <2>1. <<bit>> \in Binary /\ flat' = flat \o <<bit>>
            BY <1>2, BitIsMore DEF Binary
      <2>2. ASSUME NEW k \in 1 .. n + 1, NEW i \in 1 .. ByteBits
            PROVE  flat'[(k - 1) * ByteBits + i] = BitOf(payload'[k], i)
            <3>1. CASE k \in 1 .. n
                  <4>1. flat'[(k - 1) * ByteBits + i] = BitOf(payload[k], i)
                        BY <1>2, <1>3, <2>1, <3>1, BytesStay
                  <4> QED BY <1>9, <3>1, <4>1
            <3>2. CASE k = n + 1
                  <4>1. (k - 1) * ByteBits = all
                        BY <1>3, <3>2
                  <4> QED BY <1>9, <1>10, <3>2, <4>1
            <3>3. k \in 1 .. n \/ k = n + 1
                  OBVIOUS
            <3> QED BY <3>1, <3>2, <3>3, Zenon
      <2>3. Len(flat') = Len(payload') * ByteBits + wpos'
            <3>1. (n + 1) * ByteBits = all + ByteBits
                  BY <1>1, <1>3
            <3> QED BY <1>1, <1>3, <1>8, <1>9, <3>1
      <2>4. \A k \in 1 .. Len(payload'), i \in 1 .. ByteBits :
                flat'[(k - 1) * ByteBits + i] = BitOf(payload'[k], i)
            BY <1>9, <2>2
      <2> QED BY <1>1, <1>8, <1>9, <2>3, <2>4 DEF FlatIs, BitOf
<1> QED BY <1>5, <1>7, <1>11, ByteEmpty DEF Written

(* A byte is written whole.                                                  *)
LEMMA ByteWritten ==
    ASSUME Written, NEW v \in Bytes, wpos = 0, flat' = flat \o BitsOf(v, ByteBits),
           payload' = Append(payload, v), wpos' = wpos, wbyte' = wbyte
    PROVE  Written'
<1>1. ByteBits \in Nat /\ ByteBits > 0 /\ wpos' \in 0 .. ByteBits - 1
      BY Weights DEF Written, FlatIs
<1>2. flat \in Seq({0, 1}) /\ payload \in Seq(Bytes) /\ FlatIs
      BY DEF Written, FlatIs, Binary
<1>3. PICK n \in Nat, all \in Nat : n = Len(payload) /\ all = n * ByteBits /\ Len(flat) = all
      BY <1>1, <1>2 DEF FlatIs
<1>4. PICK bits : bits = BitsOf(v, ByteBits)
      OBVIOUS
<1>5. /\ bits \in Binary /\ bits \in Seq({0, 1}) /\ Len(bits) = ByteBits
      /\ \A i \in 1 .. ByteBits : bits[i] = BitOf(v, i)
      <2>1. v \in Nat /\ ByteBits \in 0 .. NumberBits
            BY BytesAssumption, BitAssumption
      <2> QED BY <1>4, <2>1, BitsAre DEF Binary, BitOf
<1>6. /\ flat' \in Binary /\ Len(flat') = all + ByteBits
      /\ \A i \in 1 .. ByteBits : flat'[all + i] = BitOf(v, i)
      <2>1. flat' = flat \o bits
            BY <1>4
      <2>2. flat \in Binary /\ bits \in Binary /\ Len(flat) = all /\ Len(bits) = ByteBits
            BY <1>2, <1>3, <1>5 DEF Binary
      <2>3. /\ flat \o bits \in Binary /\ Len(flat \o bits) = Len(flat) + Len(bits)
            /\ \A i \in 1 .. Len(bits) : (flat \o bits)[Len(flat) + i] = bits[i]
            BY <2>2, JoinedAre
      <2>4. /\ flat' \in Binary /\ Len(flat') = all + ByteBits
            /\ \A i \in 1 .. ByteBits : flat'[all + i] = bits[i]
            BY <2>1, <2>2, <2>3
      <2> QED BY <1>5, <2>4
<1>7. /\ payload' \in Seq(Bytes) /\ Len(payload') = n + 1 /\ payload'[n + 1] = v
      /\ \A k \in 1 .. n : payload'[k] = payload[k]
      BY <1>2, <1>3
<1>8. FlatIs'
      <2>1. ASSUME NEW k \in 1 .. n + 1, NEW i \in 1 .. ByteBits
            PROVE  flat'[(k - 1) * ByteBits + i] = BitOf(payload'[k], i)
            <3>1. CASE k \in 1 .. n
                  <4>1. flat'[(k - 1) * ByteBits + i] = BitOf(payload[k], i)
                        BY <1>2, <1>3, <1>4, <1>5, <3>1, BytesStay
                  <4> QED BY <1>7, <3>1, <4>1
            <3>2. CASE k = n + 1
                  <4>1. (k - 1) * ByteBits = all
                        BY <1>3, <3>2
                  <4> QED BY <1>6, <1>7, <3>2, <4>1
            <3>3. k \in 1 .. n \/ k = n + 1
                  OBVIOUS
            <3> QED BY <3>1, <3>2, <3>3, Zenon
      <2>2. Len(flat') = Len(payload') * ByteBits + wpos'
            <3>1. (n + 1) * ByteBits = all + ByteBits
                  BY <1>1, <1>3
            <3> QED BY <1>1, <1>3, <1>6, <1>7, <3>1
      <2>3. \A k \in 1 .. Len(payload'), i \in 1 .. ByteBits :
                flat'[(k - 1) * ByteBits + i] = BitOf(payload'[k], i)
            BY <1>7, <2>1
      <2> QED BY <1>1, <1>6, <1>7, <2>2, <2>3 DEF FlatIs, BitOf
<1>9. ByteIs'
      <2>1. 1 .. wpos = {}
            OBVIOUS
      <2> QED BY <2>1 DEF Written, ByteIs
<1> QED BY <1>8, <1>9 DEF Written

\* the pieces left are single bits, or the same byte as often as it is left to write
Pending ==
    /\ todo \in Seq(Binary) /\ script \in Seq(Symbols)
    /\ \/ \A j \in 1 .. Len(todo) : Len(todo[j]) = 1
       \/ /\ wpos = 0 /\ Len(script) > 0 /\ script[Len(script)].value \in Bytes
          /\ \A j \in 1 .. Len(todo) : todo[j] = BitsOf(script[Len(script)].value, ByteBits)

\* the reader begins when the writer has finished
Stages ==
    /\ phase \in {"write", "read"} /\ stale \in BOOLEAN
    /\ phase = "read" => todo = <<>> /\ wpos = 0
    /\ phase = "write" => /\ rat = 0 /\ rpos = 0 /\ position = 0 /\ got = <<>> /\ reading = NoSymbol
                          /\ said = <<>> /\ shown = <<>> /\ stale = FALSE
    /\ ~nal => stream = payload
    /\ reading # NoSymbol => nal

WriterInv == Written /\ Pending /\ Stages /\ Follow /\ Clean

LEMMA StreamStays ==
    ASSUME Follow, Clean, UNCHANGED epvars
    PROVE  Follow' /\ Clean'
<1>1. Follow'
      BY ZenonT(60) DEF epvars, ephistory, Follow, Types, GetsPayload, Places, Placed, Follows
<1>2. Clean'
      BY DEF epvars, Clean, Counts, NoStartCode
<1> QED BY <1>1, <1>2

LEMMA WrittenStays ==
    ASSUME Written, UNCHANGED <<payload, wpos, wbyte, flat>>
    PROVE  Written'
  BY DEF Written, FlatIs, ByteIs, BitOf, Draws

LEMMA WriteSymbolKeeps ==
    ASSUME WriterInv, NEW s \in Symbols, WriteSymbol(s)
    PROVE  WriterInv'
<1>1. /\ UNCHANGED <<epvars, phase, wpos, wbyte, reader, flat, said, position, shown, stale>>
      /\ phase = "write" /\ todo' = Pieces(s) /\ script' = Append(script, s)
      BY DEF WriteSymbol
<1>2. Written' /\ Follow' /\ Clean'
      BY <1>1, StreamStays, WrittenStays DEF WriterInv, epvars, ephistory
<1>3. Stages'
      BY <1>1 DEF WriterInv, Stages, epvars, ephistory, reader
<1>4. /\ script' \in Seq(Symbols) /\ Len(script') > 0 /\ script'[Len(script')] = s
      BY <1>1 DEF WriterInv, Pending
<1>5. wpos \in 0 .. ByteBits - 1 /\ wpos' = wpos
      BY <1>1 DEF WriterInv, Written, FlatIs
<1>6. Room \in Nat
      BY <1>5, Weights DEF Room
<1>7. ASSUME Pieces(s) = Single(Code(s, Room)) PROVE Pending'
      <2>1. PICK code \in Binary : code = Code(s, Room)
            BY <1>6, CodesAre
      <2>2. todo' \in Seq(Binary) /\ \A j \in 1 .. Len(todo') : Len(todo'[j]) = 1
            BY <1>1, <1>7, <2>1, SinglesAre
      <2> QED BY <1>4, <2>2 DEF Pending
<1>8. ASSUME s.op = "bytes", wpos = 0, Pieces(s) = Copies(BitsOf(s.value, ByteBits), s.count)
      PROVE  Pending'
      <2>1. s.value \in Bytes /\ s.count \in Nat
            BY <1>8, SymbolsAssumption
      <2>2. todo' \in Seq(Binary) /\ \A j \in 1 .. Len(todo') : todo'[j] = BitsOf(s.value, ByteBits)
            <3>1. PICK v \in Bytes, count \in Nat : v = s.value /\ count = s.count
                  BY <2>1
            <3>2. PICK whole : whole = Copies(BitsOf(v, ByteBits), count)
                  OBVIOUS
            <3>3. /\ whole \in Seq(Binary) /\ Len(whole) = count
                  /\ \A j \in 1 .. count : whole[j] = BitsOf(v, ByteBits)
                  BY <3>2, CopiesAre
            <3>4. todo' = whole
                  BY <1>1, <1>8, <3>1, <3>2
            <3> QED BY <3>1, <3>3, <3>4
      <2>3. \A j \in 1 .. Len(todo') : todo'[j] = BitsOf(script'[Len(script')].value, ByteBits)
            BY <1>4, <2>2
      <2> QED BY <1>4, <1>5, <1>8, <2>1, <2>2, <2>3 DEF Pending, BitsOf
<1>9. Pending'
      BY <1>5, <1>7, <1>8, PiecesAre
<1> QED BY <1>2, <1>3, <1>9 DEF WriterInv

(* Writing a byte, of a writer whose reader has not begun.                   *)
LEMMA PutKeeps ==
    ASSUME WriterInv, NEW byte \in Bytes, Put(byte)
    PROVE  /\ Follow' /\ Clean' /\ payload' = Append(payload, byte)
           /\ UNCHANGED <<nal, rat, rzeros, got>> /\ (~nal => stream' = payload')
<1>1. Follow' /\ Clean'
      BY PutFollows, PutKeepsClean DEF WriterInv
<1> QED BY <1>1 DEF Put, WriterInv, Stages

LEMMA TailIs ==
    ASSUME NEW S, NEW s \in Seq(S), s # <<>>
    PROVE  /\ Head(s) = s[1] /\ 1 \in 1 .. Len(s) /\ s[1] \in S /\ Tail(s) \in Seq(S) /\ Len(Tail(s)) = Len(s) - 1
           /\ \A j \in 1 .. Len(Tail(s)) : j + 1 \in 1 .. Len(s) /\ Tail(s)[j] = s[j + 1]
OBVIOUS

LEMMA WriteBitKeeps ==
    ASSUME WriterInv, WriteBit
    PROVE  WriterInv'
<1>1. /\ todo # <<>> /\ Len(Head(todo)) = 1 /\ todo' = Tail(todo)
      /\ UNCHANGED <<phase, reader, script, said, position, shown, stale>>
      BY DEF WriteBit
<1>2. /\ todo \in Seq(Binary) /\ Head(todo) = todo[1] /\ todo[1] \in Binary /\ 1 \in 1 .. Len(todo)
      /\ todo' \in Seq(Binary)
      /\ \A j \in 1 .. Len(todo') : j + 1 \in 1 .. Len(todo) /\ todo'[j] = todo[j + 1]
      <2>1. todo \in Seq(Binary)
            BY DEF WriterInv, Pending
      <2> QED BY <1>1, <2>1, TailIs
<1>3. PICK bit \in {0, 1} : bit = Head(todo)[1]
      BY <1>1, <1>2 DEF Binary
<1>4. \A j \in 1 .. Len(todo) : Len(todo[j]) = 1
      BY <1>1, <1>2 DEF WriterInv, Pending
<1>5. Pending'
      BY <1>1, <1>2, <1>4 DEF WriterInv, Pending
<1>6. flat' = Append(flat, bit) /\ Written /\ phase = "write" /\ wpos \in Nat
      BY <1>1, <1>3, Weights DEF WriteBit, WriterInv, Stages, Written, FlatIs
<1>7. CASE wpos + 1 = ByteBits
      <2>1. Put(Completed(bit)) /\ wpos' = 0 /\ wbyte' = 0
            BY <1>3, <1>7 DEF WriteBit
      <2>2. payload' = Append(payload, Completed(bit))
            BY <2>1 DEF Put
      <2>3. Completed(bit) \in Bytes /\ Written'
            BY <1>6, <1>7, <2>1, <2>2, LastBitWritten
      <2>4. /\ Follow' /\ Clean' /\ UNCHANGED <<nal, rat, got>> /\ (~nal => stream' = payload')
            BY <2>1, <2>3, PutKeeps
      <2>5. Stages'
            BY <1>1, <1>6, <2>4 DEF WriterInv, Stages, reader
      <2> QED BY <1>5, <2>3, <2>4, <2>5 DEF WriterInv
<1>8. CASE wpos + 1 # ByteBits
      <2>1. UNCHANGED epvars /\ wpos' = wpos + 1 /\ wbyte' = Completed(bit)
            BY <1>3, <1>8 DEF WriteBit
      <2>2. UNCHANGED <<nal, rat, got, stream, payload>>
            BY <2>1 DEF epvars, ephistory
      <2>3. Written'
            BY <1>6, <1>8, <2>1, <2>2, BitWritten
      <2>4. Follow' /\ Clean'
            BY <2>1, StreamStays DEF WriterInv
      <2>5. Stages'
            BY <1>1, <1>6, <2>2 DEF WriterInv, Stages, reader
      <2> QED BY <1>5, <2>3, <2>4, <2>5 DEF WriterInv
<1> QED BY <1>7, <1>8

LEMMA WriteByteKeeps ==
    ASSUME WriterInv, WriteByte
    PROVE  WriterInv'
<1>1. /\ todo # <<>> /\ Len(Head(todo)) # 1 /\ todo' = Tail(todo)
      /\ Put(script[Len(script)].value) /\ flat' = flat \o Head(todo)
      /\ UNCHANGED <<phase, wpos, wbyte, reader, script, said, position, shown, stale>>
      BY DEF WriteByte
<1>2. /\ todo \in Seq(Binary) /\ Head(todo) = todo[1] /\ todo[1] \in Binary /\ 1 \in 1 .. Len(todo)
      /\ todo' \in Seq(Binary)
      /\ \A j \in 1 .. Len(todo') : j + 1 \in 1 .. Len(todo) /\ todo'[j] = todo[j + 1]
      <2>1. todo \in Seq(Binary)
            BY DEF WriterInv, Pending
      <2> QED BY <1>1, <2>1, TailIs
<1>3. /\ wpos = 0 /\ Len(script) > 0 /\ script[Len(script)].value \in Bytes
      /\ \A j \in 1 .. Len(todo) : todo[j] = BitsOf(script[Len(script)].value, ByteBits)
      BY <1>1, <1>2 DEF WriterInv, Pending
<1>4. PICK v \in Bytes : v = script[Len(script)].value
      BY <1>3
<1>5. Pending'
      <2>1. \A j \in 1 .. Len(todo') : todo'[j] = BitsOf(v, ByteBits)
            BY <1>2, <1>3, <1>4
      <2> QED BY <1>1, <1>2, <1>3, <1>4, <2>1 DEF WriterInv, Pending, BitsOf
<1>6. /\ Follow' /\ Clean' /\ payload' = Append(payload, v)
      /\ UNCHANGED <<nal, rat, got>> /\ (~nal => stream' = payload')
      BY <1>1, <1>4, PutKeeps
<1>7. flat' = flat \o BitsOf(v, ByteBits)
      BY <1>1, <1>2, <1>3, <1>4
<1>8. Written'
      BY <1>1, <1>3, <1>6, <1>7, ByteWritten DEF WriterInv
<1>9. Stages'
      BY <1>1, <1>6 DEF WriterInv, Stages, reader
<1> QED BY <1>5, <1>6, <1>8, <1>9 DEF WriterInv

(* Reading changes nothing of what was written.                              *)
LEMMA ReadingStays ==
    ASSUME WriterInv, phase = "read", Follow', Clean', script' \in Seq(Symbols),
           UNCHANGED <<nal, stream, payload, phase, wpos, wbyte, todo, flat>>,
           stale' \in BOOLEAN, reading' # NoSymbol => nal
    PROVE  WriterInv'
<1>1. Written'
      BY WrittenStays DEF WriterInv
<1>2. todo' = <<>> /\ Len(todo') = 0
      BY DEF WriterInv, Stages
<1>3. Pending'
      BY <1>2 DEF WriterInv, Pending
<1>4. Stages'
      BY DEF WriterInv, Stages
<1> QED BY <1>1, <1>3, <1>4 DEF WriterInv

LEMMA TakeKeeps ==
    ASSUME Follow, Clean, Take
    PROVE  Follow' /\ Clean' /\ UNCHANGED <<nal, stream, payload>>
<1>1. Follow'
      BY TakeFollows
<1>2. UNCHANGED <<nal, stream, payload, wzeros>>
      BY DEF Take
<1> QED BY <1>1, <1>2 DEF Clean, Counts, NoStartCode

LEMMA PlainKeeps ==
    ASSUME Follow, Clean, ~nal, UNCHANGED <<nal, stream, wzeros, rzeros, ephistory>>, rat' \in Nat
    PROVE  Follow' /\ Clean' /\ UNCHANGED <<nal, stream, payload>>
<1>1. UNCHANGED <<payload, got>>
      BY DEF ephistory
<1> QED BY <1>1 DEF Clean, Counts, NoStartCode, Follow, Types

LEMMA NoneOrOne ==
    ASSUME Follow, Clean, Take \/ UNCHANGED epvars
    PROVE  Follow' /\ Clean' /\ UNCHANGED <<nal, stream, payload>>
<1>1. CASE Take
      BY <1>1, TakeKeeps
<1>2. CASE UNCHANGED epvars
      BY <1>2, StreamStays DEF epvars, ephistory
<1> QED BY <1>1, <1>2

LEMMA WriterInvInit == BitInit => WriterInv
<1> SUFFICES ASSUME BitInit PROVE WriterInv
    OBVIOUS
<1>1. EpInit /\ stream = <<>> /\ payload = <<>> /\ got = <<>> /\ flat = <<>> /\ wpos = 0 /\ wbyte = 0
      BY DEF BitInit, EpInit
<1>2. Written
      <2>1. ByteBits \in Nat /\ ByteBits - 0 = ByteBits /\ ByteBits \in 0 .. ByteBits
            BY Weights
      <2>2. PICK w \in Nat : w = 2 ^ ByteBits
            BY <2>1, Weights
      <2>3. 2 ^ (ByteBits - wpos) = w
            BY <1>1, <2>1, <2>2
      <2>4. wbyte \in Nat /\ wbyte = 0 * w /\ wbyte + w <= w /\ 1 .. wpos = {}
            BY <1>1, <2>2
      <2>5. ByteIs
            BY <2>2, <2>3, <2>4 DEF ByteIs
      <2>6. FlatIs
            <3>1. <<>> \in Binary /\ <<>> \in Seq(Bytes) /\ Len(<<>>) = 0 /\ 0 * ByteBits + 0 = 0
                  BY <2>1 DEF Binary
            <3>2. 0 \in 0 .. ByteBits - 1
                  BY Weights
            <3> QED BY <1>1, <3>1, <3>2 DEF FlatIs
      <2> QED BY <2>5, <2>6 DEF Written
<1>3. Pending /\ Stages
      <2>1. /\ phase = "write" /\ todo = <<>> /\ script = <<>> /\ rat = 0 /\ rpos = 0 /\ position = 0
            /\ reading = NoSymbol /\ said = <<>> /\ shown = <<>> /\ stale = FALSE
            BY DEF BitInit, EpInit
      <2>2. Stages
            BY <1>1, <2>1 DEF Stages
      <2>3. <<>> \in Seq(Binary) /\ <<>> \in Seq(Symbols) /\ Len(<<>>) = 0
            OBVIOUS
      <2>4. Pending
            BY <2>1, <2>3 DEF Pending
      <2> QED BY <2>2, <2>4
<1>4. Clean
      BY <1>1 DEF EpInit, Clean, Counts, NoStartCode
<1>5. Follow
      <2> DEFINE none == [k \in 0 .. 0 |-> 0]
      <2>1. none \in Places /\ Placed(none, none)
            BY <1>1 DEF EpInit, Places, Placed, Follows
      <2> QED BY <1>1, <2>1 DEF EpInit, Follow, Types, GetsPayload
<1> QED BY <1>2, <1>3, <1>4, <1>5 DEF WriterInv

LEMMA ReadingKeeps ==
    ASSUME WriterInv, rat' \in Nat,
           \/ BeginSymbol \/ ReadSymbolByte \/ EndSymbol
           \/ \E bit \in {0, 1} : ReadSymbolBit(bit) \/ ReadFreeBit(bit)
           \/ ReadNoBit \/ ReadFreeByte
           \/ \E count \in Moves : SeekBits(count) \/ Seek(count)
    PROVE  WriterInv'
<1>1. /\ Follow /\ Clean /\ script \in Seq(Symbols) /\ stale \in BOOLEAN
      /\ phase \in {"write", "read"} /\ (reading # NoSymbol => nal)
      /\ (reading # NoSymbol => phase = "read")
      BY DEF WriterInv, Stages, Pending
<1>2. CASE BeginSymbol
      <2>1. /\ phase = "read" /\ nal /\ UNCHANGED <<epvars, phase, writer, rpos, rbyte, records>>
            BY <1>2 DEF BeginSymbol
      <2> QED BY <1>1, <2>1, StreamStays, ReadingStays DEF epvars, ephistory, writer, records
<1>3. CASE ReadSymbolByte
      <2>1. /\ reading # NoSymbol /\ Take /\ UNCHANGED <<phase, writer, rpos, rbyte, flat, script, said, stale>>
            BY <1>3 DEF ReadSymbolByte
      <2> QED BY <1>1, <2>1, TakeKeeps, ReadingStays DEF writer
<1>4. CASE EndSymbol
      <2>1. /\ reading # NoSymbol /\ reading' = NoSymbol
            /\ UNCHANGED <<epvars, phase, writer, rbyte, flat, script, stale>>
            BY <1>4 DEF EndSymbol
      <2> QED BY <1>1, <2>1, StreamStays, ReadingStays DEF epvars, ephistory, writer
<1>5. ASSUME NEW bit, ReadBit(bit), phase = "read", reading' # NoSymbol => nal
      PROVE  WriterInv'
      <2>1. /\ Take \/ UNCHANGED epvars
            /\ stale' \in BOOLEAN /\ UNCHANGED <<phase, writer, flat, script>>
            BY <1>5 DEF ReadBit
      <2>2. Follow' /\ Clean' /\ UNCHANGED <<nal, stream, payload>>
            BY <1>1, <2>1, NoneOrOne
      <2> QED BY <1>1, <1>5, <2>1, <2>2, ReadingStays DEF writer
<1>6. CASE \E bit \in {0, 1} : ReadSymbolBit(bit) \/ ReadFreeBit(bit)
      BY <1>1, <1>5, <1>6 DEF ReadSymbolBit, ReadFreeBit, Free
<1>7. CASE ReadNoBit
      <2>1. /\ phase = "read" /\ ~nal /\ UNCHANGED <<nal, stream, wzeros, rzeros, ephistory>>
            /\ UNCHANGED <<phase, writer, reading, flat, script, stale>>
            BY <1>7 DEF ReadNoBit, Free
      <2> QED BY <1>1, <2>1, PlainKeeps, ReadingStays DEF writer
<1>8. CASE ReadFreeByte
      <2>1. /\ phase = "read" /\ ~nal /\ UNCHANGED <<phase, writer, reading, flat, script>>
            /\ stale' \in BOOLEAN
            /\ Take \/ UNCHANGED epvars
            BY <1>1, <1>8 DEF ReadFreeByte, Free
      <2>2. Follow' /\ Clean' /\ UNCHANGED <<nal, stream, payload>>
            BY <1>1, <2>1, NoneOrOne
      <2> QED BY <1>1, <2>1, <2>2, ReadingStays DEF writer
<1>9. ASSUME NEW count, SeekBits(count)
      PROVE  WriterInv'
      <2>1. /\ phase = "read" /\ ~nal /\ UNCHANGED <<nal, stream, wzeros, rzeros, ephistory>>
            /\ UNCHANGED <<phase, writer, reading, flat, script>> /\ stale' \in BOOLEAN
            BY <1>9 DEF SeekBits, Free
      <2> QED BY <1>1, <2>1, PlainKeeps, ReadingStays DEF writer
<1>10. ASSUME NEW place, SeekTo(place)
      PROVE  WriterInv'
      <2>1. /\ phase = "read" /\ ~nal /\ UNCHANGED <<nal, stream, wzeros, rzeros, ephistory>>
            /\ UNCHANGED <<phase, writer, reading, flat, script>> /\ stale' \in BOOLEAN
            BY <1>10 DEF SeekTo, Free
      <2> QED BY <1>1, <2>1, PlainKeeps, ReadingStays DEF writer
<1>11. CASE \E count \in Moves : SeekBits(count) \/ Seek(count)
      BY <1>9, <1>10, <1>11 DEF Seek
<1> QED BY <1>2, <1>3, <1>4, <1>6, <1>7, <1>8, <1>11

LEMMA WriterInvariant == BitSpec => []WriterInv
<1>1. WriterInv /\ ReaderInv' /\ [BitNext]_bitVars => WriterInv'
      <2> SUFFICES ASSUME WriterInv, ReaderInv', [BitNext]_bitVars PROVE WriterInv'
          OBVIOUS
      <2>1. rat' \in Nat
            BY DEF ReaderInv
      <2>2. CASE \E s \in Symbols : WriteSymbol(s)
            BY <2>2, WriteSymbolKeeps
      <2>3. CASE WriteBit \/ WriteByte
            BY <2>3, WriteBitKeeps, WriteByteKeeps
      <2>4. CASE Finish
            <3>1. /\ phase = "write" /\ phase' = "read" /\ todo = <<>> /\ wpos = 0
                  /\ script' = (IF nal THEN script ELSE <<>>)
                  /\ UNCHANGED <<epvars, writer, reader, flat, said, position, shown, stale>>
                  BY <2>4 DEF Finish
            <3>2. Written' /\ Follow' /\ Clean'
                  BY <3>1, StreamStays, WrittenStays DEF WriterInv, epvars, ephistory, writer
            <3>3. Stages'
                  BY <3>1 DEF WriterInv, Stages, epvars, ephistory, writer, reader
            <3>4. todo' = <<>> /\ Len(todo') = 0 /\ script' \in Seq(Symbols)
                  BY <3>1 DEF WriterInv, Pending, writer
            <3>5. Pending'
                  BY <3>4 DEF WriterInv, Pending
            <3> QED BY <3>2, <3>3, <3>5 DEF WriterInv
      <2>5. CASE UNCHANGED bitVars
            <3>1. UNCHANGED <<epvars, phase, writer, reader, records>>
                  BY <2>5 DEF bitVars
            <3>2. Written' /\ Follow' /\ Clean'
                  BY <3>1, StreamStays, WrittenStays DEF WriterInv, epvars, ephistory, writer, records
            <3>3. Stages' /\ Pending'
                  BY <3>1 DEF WriterInv, Stages, Pending, epvars, ephistory, writer, reader, records, BitsOf
            <3> QED BY <3>2, <3>3 DEF WriterInv
      <2> QED BY <2>1, <2>2, <2>3, <2>4, <2>5, ReadingKeeps DEF BitNext
<1> QED BY <1>1, WriterInvInit, ReaderInvariant, PTL DEF BitSpec

(* However symbols are mixed, and at any bit of a byte: what a BitWriter     *)
(* writes through an EmulationPreventionIo has no start code.                *)
THEOREM BitsHaveNoStartCode == BitSpec => [](NoStartCode /\ GetsPayload)
<1>1. WriterInv => NoStartCode /\ GetsPayload
      BY DEF WriterInv, Clean, Follow, GetsPayload
<1> QED BY <1>1, WriterInvariant, PTL
-----------------------------------------------------------------------------
(* The reader: its current_byte is the byte that it is in. *)

\* how many bytes of the payload a reader has taken
Taken == IF nal THEN Len(got) ELSE rat

Holds == ~stale /\ rpos # 0 => Taken \in 1 .. Len(payload) /\ rbyte = payload[Taken]

Shows == phase = "read" /\ ~stale => shown = SubSeq(flat, position - Len(shown) + 1, position)

HeldInv == Holds /\ Shows

(* Where a reader is, from the bytes it has taken.                           *)
LEMMA PlaceIs ==
    ASSUME ReaderInv
    PROVE  /\ Taken \in Nat /\ position \in Int /\ rpos \in 0 .. ByteBits - 1
           /\ rpos = 0 => position = Taken * ByteBits
           /\ rpos # 0 => position = (Taken - 1) * ByteBits + rpos
<1>1. ByteBits \in Nat /\ ByteBits > 0 /\ rpos \in 0 .. ByteBits - 1
      BY Weights DEF ReaderInv
<1>2. PICK k \in Nat : k = Taken
      BY BytesAre DEF ReaderInv, Taken
<1>3. PICK all \in Int, less \in Int : all = k * ByteBits /\ less = (k - 1) * ByteBits /\ less = all - ByteBits
      BY <1>1
<1>4. position = all - (IF rpos = 0 THEN 0 ELSE ByteBits - rpos)
      BY <1>2, <1>3 DEF ReaderInv, ReaderKnows, Unread, Taken
<1>5. CASE rpos = 0
      BY <1>1, <1>2, <1>3, <1>4, <1>5
<1>6. CASE rpos # 0
      <2>1. position = less + rpos
            BY <1>1, <1>3, <1>4, <1>6
      <2> QED BY <1>1, <1>2, <1>3, <1>6, <2>1
<1> QED BY <1>5, <1>6

(* A byte that is taken is the next one of the payload.                      *)
LEMMA TakesNext ==
    ASSUME WriterInv, ReaderInv, Take
    PROVE  /\ Taken' = Taken + 1 /\ Taken + 1 \in 1 .. Len(payload)
           /\ stream[Here] = payload[Taken + 1] /\ payload' = payload
<1>1. /\ Taken' = Taken + 1 /\ nal' = nal
      BY TakeMoves DEF Taken
<1>2. Taken \in Nat /\ payload' = payload /\ payload \in Seq(Nat) /\ stream \in Seq(Nat) /\ got \in Seq(Nat)
      BY PlaceIs DEF Take, WriterInv, Follow, Types
<1>3. CASE nal
      <2>1. Follow'
            BY TakeFollows DEF WriterInv
      <2>2. Len(got') <= Len(payload) /\ got' = SubSeq(payload, 1, Len(got'))
            BY <1>1, <1>2, <1>3, <2>1 DEF Follow, GetsPayload
      <2>3. got' = Append(got, stream[Here])
            BY <1>3 DEF Take
      <2>4. PICK n \in Nat : n = Len(got) /\ n = Taken
            BY <1>2, <1>3 DEF Taken
      <2>5. PICK b : b = stream[Here]
            OBVIOUS
      <2>6. Len(got') = n + 1 /\ got'[n + 1] = b
            <3>1. got \in Seq(Nat)
                  BY <1>2
            <3>2. got \in Seq(Nat \union {b}) /\ b \in Nat \union {b}
                  BY <3>1
            <3>3. Len(Append(got, b)) = Len(got) + 1 /\ Append(got, b)[Len(got) + 1] = b
                  BY <3>2, AppendProperties
            <3> QED BY <3>3, <2>3, <2>4, <2>5
      <2>7. SubSeq(payload, 1, n + 1)[n + 1] = payload[n + 1] /\ n + 1 \in 1 .. Len(payload)
            BY <1>2, <2>2, <2>4, <2>6
      <2> QED BY <1>1, <1>2, <2>2, <2>4, <2>5, <2>6, <2>7
<1>4. CASE ~nal
      <2>1. Here = rat + 1 /\ Taken = rat /\ stream = payload
            BY <1>4 DEF Here, Escaped, Taken, WriterInv, Stages
      <2>2. Here <= Len(stream)
            BY <1>2, <2>1 DEF Take, AtEnd
      <2> QED BY <1>1, <1>2, <2>1, <2>2
<1> QED BY <1>3, <1>4

LEMMA NothingShown ==
    ASSUME NEW f \in Binary, NEW p \in Int
    PROVE  <<>> = SubSeq(f, p - Len(<<>>) + 1, p)
<1>1. f \in Seq({0, 1}) /\ Len(<<>>) = 0 /\ p - 0 + 1 = p + 1
      BY DEF Binary
<1>2. SubSeq(f, p + 1, p) = <<>>
      BY <1>1
<1> QED BY <1>1, <1>2

LEMMA OneShown ==
    ASSUME NEW f \in Binary, NEW p \in 1 .. Len(f)
    PROVE  <<f[p]>> = SubSeq(f, p - Len(<<f[p]>>) + 1, p)
<1>1. f \in Seq({0, 1}) /\ p \in Int /\ Len(<<f[p]>>) = 1 /\ p - 1 + 1 = p
      BY DEF Binary
<1>2. PICK t : t = SubSeq(f, p, p)
      OBVIOUS
<1>3. t \in Seq({0, 1}) /\ Len(t) = 1 /\ t[1] = f[p]
      BY <1>1, <1>2
<1>4. t = <<f[p]>>
      BY <1>3
<1> QED BY <1>1, <1>2, <1>4

LEMMA ManyShown ==
    ASSUME NEW f \in Binary, NEW n \in Nat, NEW p \in n .. Len(f), NEW s \in Binary, Len(s) = n,
           \A i \in 1 .. n : s[i] = f[p - n + i]
    PROVE  s = SubSeq(f, p - Len(s) + 1, p)
<1>1. f \in Seq({0, 1}) /\ s \in Seq({0, 1}) /\ p \in Int
      BY DEF Binary
<1>2. PICK t : t = SubSeq(f, p - n + 1, p)
      OBVIOUS
<1>3. t \in Seq({0, 1}) /\ Len(t) = n /\ \A i \in 1 .. n : t[i] = f[p - n + i]
      <2>1. \A i \in 1 .. n : t[i] = f[p - n + 1 + i - 1] /\ p - n + 1 + i - 1 = p - n + i
            BY <1>1, <1>2
      <2> QED BY <1>1, <1>2, <2>1
<1>4. s = t
      BY <1>1, <1>3
<1> QED BY <1>2, <1>4

\* a byte of the payload, by its bits
LEMMA BitsThere ==
    ASSUME Written, NEW k \in 1 .. Len(payload), NEW i \in 1 .. ByteBits
    PROVE  /\ (k - 1) * ByteBits + i \in 1 .. Len(flat)
           /\ flat[(k - 1) * ByteBits + i] = BitOf(payload[k], i)
           /\ payload[k] \in Nat
<1>1. PICK n \in Nat : n = Len(payload)
      BY DEF Written, FlatIs
<1>2. PICK all \in Nat : all = n * ByteBits
      BY Weights
<1>3. PICK at \in 1 .. all : at = (k - 1) * ByteBits + i
      BY <1>1, <1>2, PlaceOfBit
<1>4. Len(flat) = all + wpos /\ wpos \in Nat
      BY <1>1, <1>2, Weights DEF Written, FlatIs
<1>5. payload[k] \in Nat
      <2>1. payload \in Seq(Bytes)
            BY DEF Written, FlatIs
      <2>2. payload[k] \in Bytes
            BY <2>1, ElementOfSeq
      <2> QED BY <2>2, BytesAssumption
<1> QED BY <1>2, <1>3, <1>4, <1>5 DEF Written, FlatIs

(* A bit that is read, of the byte the reader has or of the next one, is the *)
(* next bit that was written.                                                *)
LEMMA NextBit ==
    ASSUME WriterInv, ReaderInv, Holds, ~stale, NEW bit, ReadBit(bit)
    PROVE  /\ position + 1 \in 1 .. Len(flat) /\ bit = flat[position + 1]
           /\ Taken' \in 1 .. Len(payload) /\ rbyte' = payload[Taken'] /\ payload' = payload
<1>1. /\ Taken \in Nat /\ position \in Int /\ rpos \in 0 .. ByteBits - 1
      /\ rpos = 0 => position = Taken * ByteBits
      /\ rpos # 0 => position = (Taken - 1) * ByteBits + rpos
      BY PlaceIs
<1>2. ByteBits \in Nat /\ Written
      BY Weights DEF WriterInv
<1>3. ASSUME NEW k \in 1 .. Len(payload), k = Taken', rbyte' = payload[k], position = (k - 1) * ByteBits + rpos
      PROVE  position + 1 \in 1 .. Len(flat) /\ bit = flat[position + 1]
      <2>1. rpos + 1 \in 1 .. ByteBits
            BY <1>1, <1>2
      <2>2. PICK less \in Int : less = (k - 1) * ByteBits
            BY <1>2
      <2>3. position + 1 = less + (rpos + 1)
            BY <1>1, <1>3, <2>2
      <2>4. bit = BitOf(payload[k], rpos + 1)
            <3>1. ByteBits - 1 - rpos = ByteBits - (rpos + 1)
                  BY <1>1, <1>2
            <3> QED BY <1>3, <3>1 DEF ReadBit, BitAt, BitOf
      <2> QED BY <1>2, <2>1, <2>2, <2>3, <2>4, BitsThere
<1>4. CASE rpos = 0
      <2>1. Take /\ rbyte' = stream[Here]
            BY <1>4 DEF ReadBit
      <2>2. /\ Taken' = Taken + 1 /\ Taken + 1 \in 1 .. Len(payload)
            /\ stream[Here] = payload[Taken + 1] /\ payload' = payload
            BY <2>1, TakesNext
      <2>3. PICK k \in 1 .. Len(payload) : k = Taken + 1 /\ k = Taken' /\ k - 1 = Taken
            BY <1>1, <2>2
      <2>4. rbyte' = payload[k]
            BY <2>1, <2>2, <2>3
      <2>5. position = (k - 1) * ByteBits + rpos
            <3>1. PICK all \in Int : all = Taken * ByteBits
                  BY <1>1, <1>2
            <3>2. position = all + 0 /\ all = (k - 1) * ByteBits
                  BY <1>1, <1>4, <2>3, <3>1
            <3> QED BY <1>4, <3>2
      <2>6. position + 1 \in 1 .. Len(flat) /\ bit = flat[position + 1]
            BY <1>3, <2>3, <2>4, <2>5
      <2> QED BY <2>2, <2>3, <2>4, <2>6
<1>5. CASE rpos # 0
      <2>1. UNCHANGED <<epvars, rbyte>>
            BY <1>5 DEF ReadBit
      <2>2. Taken' = Taken /\ payload' = payload /\ rbyte' = rbyte
            BY <2>1 DEF epvars, ephistory, Taken
      <2>3. Taken \in 1 .. Len(payload) /\ rbyte = payload[Taken]
            BY <1>5 DEF Holds
      <2> QED BY <1>1, <1>3, <1>5, <2>2, <2>3
<1> QED BY <1>4, <1>5

LEMMA EmptyShown ==
    ASSUME WriterInv, shown' = <<>>, flat' = flat, position' \in Int
    PROVE  Shows'
<1>1. flat \in Binary
      BY DEF WriterInv, Written, FlatIs
<1>2. PICK p \in Int : p = position'
      OBVIOUS
<1>3. <<>> = SubSeq(flat, p - Len(<<>>) + 1, p)
      BY <1>1, NothingShown
<1> QED BY <1>2, <1>3 DEF Shows

LEMMA BytesBits ==
    ASSUME NEW v \in Nat, NEW bits, bits = BitsOf(v, ByteBits)
    PROVE  /\ bits \in Binary /\ Len(bits) = ByteBits
           /\ \A i \in 1 .. ByteBits : bits[i] = BitOf(v, i)
<1>1. ByteBits \in 0 .. NumberBits
      BY BitAssumption
<1> QED BY <1>1, BitsAre DEF BitOf

(* A byte that an aligned reader reads.                                      *)
LEMMA ByteThere ==
    ASSUME WriterInv, ReaderInv, Take, rpos = 0, flat' = flat,
           shown' = BitsOf(stream[Here], ByteBits), position' = position + ByteBits
    PROVE  Shows'
<1>1. ByteBits \in Nat /\ ByteBits > 0 /\ Written /\ flat \in Binary
      BY Weights DEF WriterInv, Written, FlatIs
<1>2. Taken \in Nat /\ position = Taken * ByteBits
      BY PlaceIs
<1>3. PICK k \in 1 .. Len(payload) : k = Taken + 1 /\ k - 1 = Taken /\ stream[Here] = payload[k]
      BY <1>2, TakesNext
<1>4. PICK base \in Nat : base = (k - 1) * ByteBits /\ position = base
      BY <1>1, <1>2, <1>3
<1>5. payload[k] \in Nat /\ base + ByteBits \in 1 .. Len(flat)
      <2>1. ByteBits \in 1 .. ByteBits
            BY <1>1
      <2>2. (k - 1) * ByteBits + ByteBits \in 1 .. Len(flat) /\ payload[k] \in Nat
            BY <1>1, <2>1, BitsThere
      <2> QED BY <1>4, <2>2
<1>6. PICK bits : bits = BitsOf(payload[k], ByteBits)
      OBVIOUS
<1>7. /\ bits \in Binary /\ Len(bits) = ByteBits
      /\ \A i \in 1 .. ByteBits : bits[i] = BitOf(payload[k], i)
      BY <1>5, <1>6, BytesBits
<1>8. PICK p \in Int : p = base + ByteBits /\ p = position'
      BY <1>1, <1>4
<1>9. \A i \in 1 .. ByteBits : bits[i] = flat[p - ByteBits + i]
      <2> SUFFICES ASSUME NEW i \in 1 .. ByteBits PROVE bits[i] = flat[p - ByteBits + i]
          OBVIOUS
      <2>1. flat[(k - 1) * ByteBits + i] = BitOf(payload[k], i)
            BY <1>1, BitsThere
      <2>2. p - ByteBits + i = base + i
            BY <1>1, <1>8
      <2> QED BY <1>4, <1>7, <2>1, <2>2
<1>10. p \in ByteBits .. Len(flat)
      BY <1>1, <1>4, <1>5, <1>8
<1>11. bits = SubSeq(flat, p - Len(bits) + 1, p)
      BY <1>1, <1>7, <1>9, <1>10, ManyShown
<1>12. shown' = bits
      BY <1>3, <1>6
<1> QED BY <1>8, <1>11, <1>12 DEF Shows

\* both are the bits of a after at, and those of b up to it
Joins(both, a, b, n, at) ==
    /\ both \in Binary /\ Len(both) = n
    /\ \A i \in 1 .. n - at : both[i] = a[at + i]
    /\ \A i \in n - at + 1 .. n : both[i] = b[i - (n - at)]

LEMMA PartsAre ==
    ASSUME NEW n \in Nat, NEW at \in Nat, 1 <= at, at < n,
           NEW a \in Binary, NEW b \in Binary, Len(a) = n, Len(b) = n
    PROVE  Joins(SubSeq(a, at + 1, n) \o SubSeq(b, 1, at), a, b, n, at)
<1>1. a \in Seq({0, 1}) /\ b \in Seq({0, 1})
      BY DEF Binary
<1>2. PICK c : c = SubSeq(a, at + 1, n)
      OBVIOUS
<1>3. PICK d : d = SubSeq(b, 1, at)
      OBVIOUS
<1>4. c \in Seq({0, 1}) /\ Len(c) = n - at /\ \A i \in 1 .. n - at : c[i] = a[at + i]
      <2>1. c \in Seq({0, 1}) /\ Len(c) = n - at
            BY <1>1, <1>2
      <2>2. \A i \in 1 .. n - at : c[i] = a[at + 1 + i - 1] /\ at + 1 + i - 1 = at + i
            BY <1>1, <1>2
      <2> QED BY <2>1, <2>2
<1>5. d \in Seq({0, 1}) /\ Len(d) = at /\ \A i \in 1 .. at : d[i] = b[i]
      <2>1. d \in Seq({0, 1}) /\ Len(d) = at
            BY <1>1, <1>3
      <2>2. \A i \in 1 .. at : d[i] = b[1 + i - 1] /\ 1 + i - 1 = i
            BY <1>1, <1>3
      <2> QED BY <2>1, <2>2
<1>6. /\ c \o d \in Seq({0, 1}) /\ Len(c \o d) = n
      /\ \A i \in 1 .. n - at : (c \o d)[i] = a[at + i]
      /\ \A i \in n - at + 1 .. n : (c \o d)[i] = b[i - (n - at)]
      <2>1. c \o d \in Seq({0, 1}) /\ Len(c \o d) = (n - at) + at
            <3>1. c \in Binary /\ d \in Binary
                  BY <1>4, <1>5 DEF Binary
            <3>2. c \o d \in Binary /\ Len(c \o d) = Len(c) + Len(d)
                  BY <3>1, JoinedAre
            <3> QED BY <1>4, <1>5, <3>2 DEF Binary
      <2>2. \A i \in 1 .. n - at : (c \o d)[i] = c[i]
            <3> SUFFICES ASSUME NEW i \in 1 .. n - at PROVE (c \o d)[i] = c[i]
                OBVIOUS
            <3>1. i \in 1 .. Len(c) + Len(d) /\ i <= Len(c)
                  BY <1>4, <1>5
            <3> QED BY <1>4, <1>5, <3>1, ConcatProperties
      <2>3. \A i \in n - at + 1 .. n : i - (n - at) \in 1 .. at /\ (c \o d)[i] = d[i - (n - at)]
            <3> SUFFICES ASSUME NEW i \in n - at + 1 .. n
                         PROVE  i - (n - at) \in 1 .. at /\ (c \o d)[i] = d[i - (n - at)]
                OBVIOUS
            <3>1. i \in 1 .. Len(c) + Len(d) /\ ~(i <= Len(c))
                  BY <1>4, <1>5
            <3>2. (c \o d)[i] = d[i - Len(c)]
                  BY <1>4, <1>5, <3>1, ConcatProperties
            <3> QED BY <1>4, <3>2
      <2> QED BY <1>4, <1>5, <2>1, <2>2, <2>3
<1>7. Joins(c \o d, a, b, n, at)
      BY <1>6 DEF Joins, Binary
<1> QED BY <1>2, <1>3, <1>7

(* A byte that is read across two bytes of the stream.                       *)
LEMMA SplitByteThere ==
    ASSUME WriterInv, ReaderInv, Holds, ~stale, Take, rpos # 0, flat' = flat,
           shown' = SubSeq(BitsOf(rbyte, ByteBits), rpos + 1, ByteBits)
                        \o SubSeq(BitsOf(stream[Here], ByteBits), 1, rpos),
           position' = position + ByteBits
    PROVE  Shows'
<1>1. ByteBits \in Nat /\ ByteBits > 0 /\ Written /\ flat \in Binary
      BY Weights DEF WriterInv, Written, FlatIs
<1>2. PICK k \in 1 .. Len(payload) : k = Taken /\ rbyte = payload[k]
      BY DEF Holds
<1>3. rpos \in 1 .. ByteBits - 1 /\ position = (k - 1) * ByteBits + rpos
      BY <1>1, <1>2, PlaceIs
<1>4. PICK j \in 1 .. Len(payload) : j = k + 1 /\ j - 1 = k /\ stream[Here] = payload[j]
      BY <1>2, TakesNext
<1>5. PICK base \in Nat : base = (k - 1) * ByteBits /\ (j - 1) * ByteBits = base + ByteBits
      BY <1>1, <1>4
<1>6. ASSUME NEW i \in 1 .. ByteBits
      PROVE  /\ flat[base + i] = BitOf(payload[k], i) /\ payload[k] \in Nat
             /\ flat[base + ByteBits + i] = BitOf(payload[j], i) /\ payload[j] \in Nat
             /\ base + ByteBits + i \in 1 .. Len(flat)
      <2>1. flat[(k - 1) * ByteBits + i] = BitOf(payload[k], i) /\ payload[k] \in Nat
            BY <1>1, BitsThere
      <2>2. /\ flat[(j - 1) * ByteBits + i] = BitOf(payload[j], i) /\ payload[j] \in Nat
            /\ (j - 1) * ByteBits + i \in 1 .. Len(flat)
            BY <1>1, BitsThere
      <2> QED BY <1>5, <2>1, <2>2
<1>7. payload[k] \in Nat /\ payload[j] \in Nat
      <2>1. 1 \in 1 .. ByteBits
            BY <1>1
      <2> QED BY <1>6, <2>1
<1>8. PICK a, b : a = BitsOf(payload[k], ByteBits) /\ b = BitsOf(payload[j], ByteBits)
      OBVIOUS
<1>9. /\ a \in Binary /\ Len(a) = ByteBits /\ \A i \in 1 .. ByteBits : a[i] = BitOf(payload[k], i)
      /\ b \in Binary /\ Len(b) = ByteBits /\ \A i \in 1 .. ByteBits : b[i] = BitOf(payload[j], i)
      BY <1>7, <1>8, BytesBits
<1>10. PICK s : s = SubSeq(a, rpos + 1, ByteBits) \o SubSeq(b, 1, rpos)
      OBVIOUS
<1>11. shown' = s
      BY <1>2, <1>4, <1>8, <1>10
<1>12. /\ s \in Binary /\ Len(s) = ByteBits
       /\ \A i \in 1 .. ByteBits - rpos : s[i] = a[rpos + i]
       /\ \A i \in ByteBits - rpos + 1 .. ByteBits : s[i] = b[i - (ByteBits - rpos)]
      <2>1. ByteBits \in Nat /\ rpos \in Nat /\ 1 <= rpos /\ rpos < ByteBits
            BY <1>1, <1>3
      <2>2. Joins(s, a, b, ByteBits, rpos)
            BY <1>9, <1>10, <2>1, PartsAre
      <2> QED BY <2>2 DEF Joins
<1>13. PICK p \in Int : p = base + ByteBits + rpos /\ p = position'
      BY <1>1, <1>3, <1>5
<1>14. ASSUME NEW i \in 1 .. ByteBits PROVE s[i] = flat[p - ByteBits + i]
      <2>1. CASE i \in 1 .. ByteBits - rpos
            <3>1. rpos + i \in 1 .. ByteBits /\ p - ByteBits + i = base + (rpos + i)
                  BY <1>1, <1>3, <1>13, <2>1
            <3>2. flat[base + (rpos + i)] = BitOf(payload[k], rpos + i)
                  BY <1>6, <3>1
            <3> QED BY <1>9, <1>12, <2>1, <3>1, <3>2
      <2>2. CASE i \in ByteBits - rpos + 1 .. ByteBits
            <3>1. PICK m \in 1 .. ByteBits : m = i - (ByteBits - rpos) /\ p - ByteBits + i = base + ByteBits + m
                  BY <1>1, <1>3, <1>13, <2>2
            <3>2. flat[base + ByteBits + m] = BitOf(payload[j], m)
                  BY <1>6
            <3> QED BY <1>9, <1>12, <2>2, <3>1, <3>2
      <2> QED BY <1>1, <1>3, <2>1, <2>2
<1>15. p \in ByteBits .. Len(flat)
      <2>1. rpos \in 1 .. ByteBits
            BY <1>1, <1>3
      <2>2. base + ByteBits + rpos \in 1 .. Len(flat)
            BY <1>6, <2>1
      <2> QED BY <1>1, <1>13, <2>1, <2>2
<1>16. s = SubSeq(flat, p - Len(s) + 1, p)
      BY <1>1, <1>12, <1>14, <1>15, ManyShown
<1> QED BY <1>11, <1>13, <1>16 DEF Shows

LEMMA PositionTyped == BitSpec => [](position \in Int)
<1>1. ReaderInv => position \in Int
      BY PlaceIs
<1> QED BY <1>1, ReaderInvariant, PTL

LEMMA ReadBitHolds ==
    ASSUME WriterInv, ReaderInv, HeldInv, phase = "read", NEW bit, ReadBit(bit), position' \in Int
    PROVE  HeldInv'
<1>1. /\ UNCHANGED <<phase, flat>> /\ position' = position + 1
      /\ shown' = (IF stale THEN <<>> ELSE <<bit>>) /\ stale' = (stale /\ rpos' # 0)
      BY DEF ReadBit
<1>2. CASE stale
      <2>1. shown' = <<>> /\ (~stale' => rpos' = 0)
            BY <1>1, <1>2
      <2> QED BY <1>1, <2>1, EmptyShown DEF HeldInv, Holds
<1>3. CASE ~stale
      <2>1. /\ position + 1 \in 1 .. Len(flat) /\ bit = flat[position + 1]
            /\ Taken' \in 1 .. Len(payload) /\ rbyte' = payload[Taken'] /\ payload' = payload
            BY <1>3, NextBit DEF HeldInv
      <2>2. Holds'
            BY <2>1 DEF Holds
      <2>3. flat \in Binary
            BY DEF WriterInv, Written, FlatIs
      <2>4. PICK p \in 1 .. Len(flat) : p = position'
            BY <1>1, <2>1
      <2>5. <<flat[p]>> = SubSeq(flat, p - Len(<<flat[p]>>) + 1, p)
            BY <2>3, OneShown
      <2>6. shown' = <<flat[p]>>
            BY <1>1, <1>3, <2>1, <2>4
      <2>7. Shows'
            BY <1>1, <2>4, <2>5, <2>6 DEF Shows
      <2> QED BY <2>2, <2>7 DEF HeldInv
<1> QED BY <1>2, <1>3

LEMMA AlignedHolds ==
    ASSUME WriterInv, rpos' = 0, shown' = <<>>, flat' = flat, position' \in Int
    PROVE  HeldInv'
  BY EmptyShown DEF HeldInv, Holds

LEMMA SeekBitsHolds ==
    ASSUME WriterInv, ReaderInv, NEW count, SeekBits(count), position' \in Int
    PROVE  HeldInv'
<1>1. /\ ~nal /\ nal' = nal /\ UNCHANGED <<stream, flat>> /\ payload' = payload /\ shown' = <<>>
      BY DEF SeekBits, Free, ephistory
<1>2. stream = payload /\ Len(payload) \in Nat
      BY <1>1 DEF WriterInv, Stages, Follow, Types
<1>3. Shows'
      BY <1>1, EmptyShown
<1>4. CASE rpos' = 0
      BY <1>1, <1>4, AlignedHolds
<1>5. CASE stale'
      BY <1>3, <1>5 DEF HeldInv, Holds
<1>6. CASE /\ Landing(count) < Len(stream)
           /\ rat' = Landing(count) + 1 /\ rbyte' = stream[Landing(count) + 1]
      <2>1. Landing(count) \in 0 .. Len(stream) + MaxPast
            BY DEF SeekBits
      <2>2. rat' \in 1 .. Len(payload) /\ rbyte' = payload[rat']
            BY <1>2, <1>6, <2>1, BitAssumption
      <2>3. Holds'
            BY <1>1, <2>2 DEF Holds, Taken
      <2> QED BY <1>3, <2>3 DEF HeldInv
<1> QED BY <1>4, <1>5, <1>6 DEF SeekBits

LEMMA ReadFreeByteHolds ==
    ASSUME WriterInv, ReaderInv, HeldInv, ReadFreeByte, position' \in Int
    PROVE  HeldInv'
<1>1. ~nal /\ UNCHANGED <<phase, flat>>
      BY DEF ReadFreeByte, Free
<1>2. CASE /\ rpos = 0 /\ Take
           /\ shown' = BitsOf(stream[Here], ByteBits) /\ position' = position + ByteBits
           /\ UNCHANGED <<rpos, rbyte, stale>>
      <2>1. Shows'
            BY <1>1, <1>2, ByteThere
      <2>2. Holds'
            BY <1>2 DEF Holds
      <2> QED BY <2>1, <2>2 DEF HeldInv
<1>3. CASE /\ rpos # 0 /\ Take
           /\ shown' = IF stale THEN <<>>
                       ELSE SubSeq(BitsOf(rbyte, ByteBits), rpos + 1, ByteBits)
                            \o SubSeq(BitsOf(stream[Here], ByteBits), 1, rpos)
           /\ rbyte' = stream[Here] /\ stale' = FALSE /\ position' = position + ByteBits
           /\ UNCHANGED rpos
      <2>1. /\ Taken' = Taken + 1 /\ Taken + 1 \in 1 .. Len(payload)
            /\ stream[Here] = payload[Taken + 1] /\ payload' = payload
            BY <1>3, TakesNext
      <2>2. Holds'
            BY <1>3, <2>1 DEF Holds
      <2>3. CASE stale
            <3>1. shown' = <<>>
                  BY <1>3, <2>3
            <3> QED BY <1>1, <2>2, <3>1, EmptyShown DEF HeldInv
      <2>4. CASE ~stale
            <3>1. shown' = SubSeq(BitsOf(rbyte, ByteBits), rpos + 1, ByteBits)
                               \o SubSeq(BitsOf(stream[Here], ByteBits), 1, rpos)
                  BY <1>3, <2>4
            <3>2. Shows'
                  BY <1>1, <1>3, <2>4, <3>1, SplitByteThere DEF HeldInv
            <3> QED BY <2>2, <3>2 DEF HeldInv
      <2> QED BY <2>3, <2>4
<1>4. CASE rpos' = 0 /\ shown' = <<>>
      BY <1>1, <1>4, AlignedHolds
<1> QED BY <1>2, <1>3, <1>4 DEF ReadFreeByte

LEMMA HeldKeeps ==
    ASSUME WriterInv, ReaderInv, HeldInv, [BitNext]_bitVars, position' \in Int
    PROVE  HeldInv'
<1>1. flat \in Binary /\ (reading # NoSymbol => phase = "read")
      BY DEF WriterInv, Written, FlatIs, Stages
<1>2. ASSUME phase' = "write", rpos' = rpos, phase = "write" PROVE HeldInv'
      BY <1>2 DEF HeldInv, Holds, Shows, WriterInv, Stages
<1>3. CASE \E s \in Symbols : WriteSymbol(s)
      BY <1>2, <1>3 DEF WriteSymbol, reader
<1>4. CASE WriteBit \/ WriteByte
      <2>1. phase = "write"
            BY <1>4 DEF WriteBit, WriteByte, WriterInv, Stages
      <2> QED BY <1>2, <1>4, <2>1 DEF WriteBit, WriteByte, reader
<1>5. CASE Finish
      <2>1. rpos' = 0 /\ shown' = <<>> /\ flat' = flat
            BY <1>5 DEF Finish, WriterInv, Stages, reader
      <2> QED BY <2>1, AlignedHolds
<1>6. ASSUME UNCHANGED <<nal, rat, payload, got, phase, rpos, rbyte, flat, position, shown, stale>>
      PROVE  HeldInv'
      BY <1>6 DEF HeldInv, Holds, Shows, Taken
<1>7. CASE BeginSymbol
      BY <1>6, <1>7 DEF BeginSymbol, epvars, ephistory, records
<1>8. CASE ReadSymbolByte
      <2>1. /\ rpos = 0 /\ Take /\ position' = position + ByteBits /\ shown' = BitsOf(stream[Here], ByteBits)
            /\ UNCHANGED <<rpos, flat>>
            BY <1>8 DEF ReadSymbolByte
      <2>2. Shows'
            BY <2>1, ByteThere
      <2>3. Holds'
            BY <2>1 DEF Holds
      <2> QED BY <2>2, <2>3 DEF HeldInv
<1>9. CASE EndSymbol
      <2>1. /\ shown' = <<>> /\ UNCHANGED <<epvars, phase, rbyte, flat, stale>>
            /\ rpos' = 0 \/ rpos' = rpos
            BY <1>9 DEF EndSymbol
      <2>2. Holds'
            BY <2>1 DEF epvars, ephistory, HeldInv, Holds, Taken
      <2> QED BY <2>1, <2>2, EmptyShown DEF HeldInv
<1>10. CASE \E bit \in {0, 1} : ReadSymbolBit(bit) \/ ReadFreeBit(bit)
      BY <1>1, <1>10, ReadBitHolds DEF ReadSymbolBit, ReadFreeBit, Free
<1>11. CASE ReadNoBit
      BY <1>11, AlignedHolds DEF ReadNoBit
<1>12. CASE ReadFreeByte
      BY <1>12, ReadFreeByteHolds
<1>13. ASSUME NEW place, SeekTo(place) PROVE HeldInv'
      BY <1>13, AlignedHolds DEF SeekTo
<1>14. CASE \E count \in Moves : SeekBits(count) \/ Seek(count)
      BY <1>13, <1>14, SeekBitsHolds DEF Seek
<1>15. CASE UNCHANGED bitVars
      BY <1>6, <1>15 DEF bitVars, epvars, ephistory, reader, records
<1> QED BY <1>3, <1>4, <1>5, <1>7, <1>8, <1>9, <1>10, <1>11, <1>12, <1>14, <1>15 DEF BitNext

LEMMA HeldInvariant == BitSpec => []HeldInv
<1>1. BitInit => HeldInv
      <2> SUFFICES ASSUME BitInit PROVE HeldInv
          OBVIOUS
      <2>1. rpos = 0 /\ phase = "write"
            BY DEF BitInit
      <2> QED BY <2>1 DEF HeldInv, Holds, Shows
<1>2. WriterInv /\ ReaderInv /\ HeldInv /\ (position \in Int)' /\ [BitNext]_bitVars => HeldInv'
      BY HeldKeeps
<1> QED BY <1>1, <1>2, WriterInvariant, ReaderInvariant, PositionTyped, PTL DEF BitSpec

(* Whatever symbols were written and wherever seeks have moved it: a reader  *)
(* that has not failed returns the bits that were written where it says it   *)
(* is.                                                                       *)
THEOREM ReaderReturnsWhatIsThere == BitSpec => []ReaderIsThere
<1>1. HeldInv /\ (~nal => position = StreamPosition) => ReaderIsThere
      BY DEF HeldInv, Shows, ReaderIsThere
<1> QED BY <1>1, HeldInvariant, ReaderKnowsItsPlace, PTL
-----------------------------------------------------------------------------
(* Symbols: their bits are written one after the other, and a reader of a    *)
(* stream of symbols makes of them what they were.                           *)

LEMMA RestIs ==
    ASSUME NEW m \in Nat, NEW r \in 0 .. ByteBits - 1
    PROVE  (m * ByteBits + r) % ByteBits = r
<1>1. PICK w \in Nat : w = ByteBits /\ w > 0
      BY Weights
<1>2. PICK all \in Nat : all = m * w
      BY <1>1
<1>3. PICK x \in Nat : x = all + r
      BY <1>1, <1>2
<1>4. x = m * w + r /\ r \in 0 .. w - 1
      BY <1>1, <1>2, <1>3
<1>5. x \div w = m
      BY <1>1, <1>4, QuotientIs
<1>6. x % w = x - w * (x \div w)
      BY <1>1
<1>7. w * m = all
      BY <1>1, <1>2
<1>8. x % w = r
      BY <1>3, <1>5, <1>6, <1>7
<1> QED BY <1>1, <1>2, <1>3, <1>8

(* A number and its half.                                                    *)
LEMMA HalfIs ==
    ASSUME NEW v \in Nat, NEW w \in Nat, w > 0
    PROVE  /\ v \div w = 2 * (v \div (2 * w)) + ((v \div w) % 2)
           /\ v \div (2 * w) \in Nat /\ v \div w \in Nat
<1>1. PICK t \in Nat : t = 2 * w /\ t > 0
      OBVIOUS
<1>2. PICK q \in Nat : q = v \div t
      BY <1>1
<1>3. PICK r \in 0 .. t - 1 : v = q * t + r
      <2>1. v - q * t \in 0 .. t - 1
            BY <1>1, <1>2
      <2>2. PICK p \in Nat : p = q * t
            BY <1>1
      <2>3. v = q * t + (v - q * t)
            BY <2>2
      <2> QED BY <2>1, <2>3
<1>4. PICK b \in {0, 1}, l \in 0 .. w - 1 : r = b * w + l
      <2>1. CASE r < w
            <3>1. r = 0 * w + r /\ r \in 0 .. w - 1
                  BY <2>1
            <3> QED BY <3>1
      <2>2. CASE r >= w
            <3>1. r = 1 * w + (r - w) /\ r - w \in 0 .. w - 1
                  BY <1>1, <2>2
            <3> QED BY <3>1
      <2> QED BY <1>1, <2>1, <2>2
<1>5. v = (2 * q + b) * w + l /\ 2 * q + b \in Nat
      <2>1. PICK qw \in Nat, bw \in Nat : qw = q * w /\ bw = b * w
            OBVIOUS
      <2>2. q * t = 2 * qw /\ (2 * q + b) * w = 2 * qw + bw
            BY <1>1, <2>1
      <2> QED BY <1>3, <1>4, <2>1, <2>2
<1>6. v \div w = 2 * q + b
      BY <1>5, QuotientIs
<1>7. (2 * q + b) % 2 = b
      OBVIOUS
<1>8. v \div (2 * w) = q
      BY <1>1, <1>2
<1>9. PICK h \in Nat : h = v \div w /\ h = 2 * q + b /\ h % 2 = b
      BY <1>5, <1>6, <1>7
<1>10. h = 2 * q + (h % 2)
      BY <1>9
<1> QED BY <1>5, <1>6, <1>8, <1>9, <1>10

(* The beginning of a number, by one more bit.                               *)
LEMMA OneBitMore ==
    ASSUME NEW v \in Nat, NEW n \in 1 .. NumberBits
    PROVE  /\ v \div 2 ^ (n - 1) = 2 * (v \div 2 ^ n) + ((v \div 2 ^ (n - 1)) % 2)
           /\ v \div 2 ^ n \in Nat /\ v \div 2 ^ (n - 1) \in Nat
<1>1. PICK m \in 0 .. NumberBits - 1 : m = n - 1 /\ n = m + 1 /\ m \in 0 .. NumberBits
      BY BitAssumption
<1>2. PICK w \in Nat : w = 2 ^ m /\ w > 0
      BY <1>1, PowersPositive
<1>3. 2 ^ n = 2 * w
      BY <1>1, <1>2, PowersAssumption
<1>4. /\ v \div w = 2 * (v \div (2 * w)) + ((v \div w) % 2)
      /\ v \div (2 * w) \in Nat /\ v \div w \in Nat
      BY <1>2, HalfIs
<1> QED BY <1>1, <1>2, <1>3, <1>4

LEMMA NothingAbove ==
    ASSUME NEW w \in Nat, NEW v \in 0 .. w - 1
    PROVE  v \div w = 0
<1>1. v = 0 * w + v /\ w > 0 /\ v \in Nat
      OBVIOUS
<1> QED BY <1>1, QuotientIs

LEMMA AllOfIt ==
    ASSUME NEW v \in Nat
    PROVE  v \div 2 ^ 0 = v
<1>1. 2 ^ 0 = 1
      BY PowersAssumption
<1>2. v \div 1 = v
      OBVIOUS
<1> QED BY <1>1, <1>2

\* bytes with the same bits
LEMMA SameBits ==
    ASSUME NEW x \in Bytes, NEW y \in Bytes, \A i \in 1 .. ByteBits : BitOf(x, i) = BitOf(y, i)
    PROVE  x = y
<1> DEFINE S == {i \in 1 .. ByteBits : x \div 2 ^ (ByteBits - i) # y \div 2 ^ (ByteBits - i)}
<1>1. PICK top \in Nat : top = 2 ^ ByteBits /\ Bytes = 0 .. top - 1
      <2>1. ByteBits \in 0 .. ByteBits
            BY Weights
      <2> QED BY <2>1, Weights, BitAssumption
<1>2. x \in Nat /\ y \in Nat /\ ByteBits \in Nat /\ ByteBits > 0
      BY <1>1, Weights
<1>3. S = {}
      <2> SUFFICES ASSUME S # {} PROVE FALSE
          OBVIOUS
      <2>1. S \subseteq 1 .. ByteBits
            OBVIOUS
      <2>2. PICK i \in S : \A j \in S : i <= j
            BY <1>2, <2>1, LeastIsThere
      <2>3. PICK n \in 1 .. NumberBits : n = ByteBits - i + 1 /\ n - 1 = ByteBits - i
            BY <1>2, <2>1, <2>2, BitAssumption
      <2>4. x \div 2 ^ n = y \div 2 ^ n
            <3>1. CASE i = 1
                  <4>1. n = ByteBits
                        BY <1>2, <2>3, <3>1
                  <4>2. x \div top = 0 /\ y \div top = 0
                        BY <1>1, NothingAbove
                  <4> QED BY <1>1, <4>1, <4>2
            <3>2. CASE i # 1
                  <4>1. i \in 1 .. ByteBits
                        BY <2>1, <2>2
                  <4>2. PICK j \in 1 .. ByteBits : j = i - 1 /\ j < i /\ n = ByteBits - j
                        BY <1>2, <2>3, <3>2, <4>1
                  <4>3. j \notin S
                        BY <2>2, <4>1, <4>2
                  <4> QED BY <4>2, <4>3
            <3> QED BY <3>1, <3>2
      <2>5. i \in 1 .. ByteBits /\ x \div 2 ^ (ByteBits - i) # y \div 2 ^ (ByteBits - i)
            BY <2>2
      <2>6. (x \div 2 ^ (n - 1)) % 2 = (y \div 2 ^ (n - 1)) % 2
            BY <2>3, <2>5 DEF BitOf
      <2>7. x \div 2 ^ (n - 1) = 2 * (x \div 2 ^ n) + ((x \div 2 ^ (n - 1)) % 2)
            BY <1>2, OneBitMore
      <2>8. y \div 2 ^ (n - 1) = 2 * (y \div 2 ^ n) + ((y \div 2 ^ (n - 1)) % 2)
            BY <1>2, OneBitMore
      <2>9. x \div 2 ^ (n - 1) = y \div 2 ^ (n - 1)
            <3>1. PICK a, b : a = x \div 2 ^ (n - 1) /\ b = y \div 2 ^ (n - 1)
                  OBVIOUS
            <3>2. PICK p, q : p = x \div 2 ^ n /\ q = y \div 2 ^ n
                  OBVIOUS
            <3>3. a % 2 = b % 2 /\ p = q
                  BY <2>4, <2>6, <3>1, <3>2
            <3>4. a = 2 * p + (a % 2) /\ b = 2 * q + (b % 2)
                  BY <2>7, <2>8, <3>1, <3>2
            <3>5. a = b
                  BY <3>3, <3>4
            <3> QED BY <3>1, <3>5
      <2> QED BY <2>3, <2>5, <2>9
<1>4. ByteBits \in 1 .. ByteBits /\ ByteBits - ByteBits = 0
      BY <1>2
<1>5. x \div 2 ^ 0 = y \div 2 ^ 0
      BY <1>3, <1>4
<1> QED BY <1>2, <1>5, AllOfIt

\* the room in the byte at place p of the bits written
RoomAt(p) == IF p % ByteBits = 0 THEN 0 ELSE ByteBits - (p % ByteBits)

\* the bits of symbol j, when symbols begin at starts
CodeAt(starts, j) == Code(script[j], RoomAt(starts[j]))

\* code is in flat from there on, as far as it is written
Lies(code, from) ==
    from <= Len(flat) /\ \A i \in 1 .. Len(code) : from + i <= Len(flat) => flat[from + i] = code[i]

\* more bits are those of code after at
Continues(more, code, at) ==
    \A i \in 1 .. Len(more) : at + i <= Len(code) => more[i] = code[at + i]

\* one symbol is behind the other
Laid(starts) ==
    /\ starts \in Seq(Nat) /\ Len(starts) = Len(script) + 1 /\ starts[1] = 0
    /\ \A j \in 1 .. Len(script) :
        /\ Fits(script[j]) /\ Lies(CodeAt(starts, j), starts[j])
        /\ starts[j + 1] = starts[j] + Len(CodeAt(starts, j))

\* single bits of the last symbol are left to write
BitsLeft(code, at) ==
    /\ at + Len(todo) = Len(code)
    /\ \A k \in 1 .. Len(todo) : todo[k] = <<code[at + k]>>

\* or whole bytes of it
BytesLeft(s, at) ==
    /\ s.op = "bytes"
    /\ \A k \in 1 .. Len(todo) : todo[k] = BitsOf(s.value, ByteBits)
    /\ \E m \in Nat : at = m * ByteBits /\ m + Len(todo) = s.count

Left(starts) ==
    LET n == Len(script) IN
    \/ todo = <<>> /\ Len(flat) = starts[n + 1]
    \/ n > 0 /\ BitsLeft(CodeAt(starts, n), Len(flat) - starts[n])
    \/ n > 0 /\ BytesLeft(script[n], Len(flat) - starts[n])

LEMMA RoomIs ==
    ASSUME NEW m \in Nat, NEW r \in 0 .. ByteBits - 1, NEW p, p = m * ByteBits + r
    PROVE  RoomAt(p) = IF r = 0 THEN 0 ELSE ByteBits - r
<1>1. p % ByteBits = r
      BY RestIs
<1> QED BY <1>1 DEF RoomAt

LEMMA RoomThere ==
    ASSUME NEW p \in Nat
    PROVE  RoomAt(p) \in Nat
<1>1. p % ByteBits \in 0 .. ByteBits - 1
      BY Weights
<1> QED BY <1>1, Weights DEF RoomAt

(* What is laid down are symbols, each with its bits.                        *)
LEMMA CodeThere ==
    ASSUME NEW starts, Laid(starts), script \in Seq(Symbols), NEW j \in 1 .. Len(script)
    PROVE  /\ script[j] \in Symbols /\ starts[j] \in Nat /\ starts[j + 1] \in Nat
           /\ CodeAt(starts, j) \in Binary /\ Len(CodeAt(starts, j)) \in Nat
           /\ starts[j + 1] = starts[j] + Len(CodeAt(starts, j))
           /\ Fits(script[j]) /\ Lies(CodeAt(starts, j), starts[j])
<1>1. Len(script) \in Nat /\ script[j] \in Symbols
      BY ElementOfSeq
<1>2. /\ starts \in Seq(Nat) /\ Len(starts) = Len(script) + 1
      /\ starts[j + 1] = starts[j] + Len(CodeAt(starts, j))
      /\ Fits(script[j]) /\ Lies(CodeAt(starts, j), starts[j])
      BY DEF Laid
<1>3. j \in 1 .. Len(starts) /\ j + 1 \in 1 .. Len(starts)
      BY <1>1, <1>2
<1>4. starts[j] \in Nat /\ starts[j + 1] \in Nat
      BY <1>2, <1>3, ElementOfSeq
<1>5. RoomAt(starts[j]) \in Nat
      BY <1>4, RoomThere
<1>6. CodeAt(starts, j) \in Binary
      BY <1>1, <1>5, CodesAre DEF CodeAt
<1>7. Len(CodeAt(starts, j)) \in Nat
      BY <1>6 DEF Binary
<1> QED BY <1>1, <1>2, <1>4, <1>6, <1>7

(* More bits are written: of the symbol, or of one behind it.                *)
LEMMA LiesStill ==
    ASSUME NEW code \in Binary, NEW from \in Nat, Lies(code, from), flat \in Binary,
           NEW more \in Binary, flat' = flat \o more,
           NEW at \in Int, at = Len(flat) - from, Continues(more, code, at)
    PROVE  Lies(code, from)'
<1>1. PICK n \in Nat, k \in Nat : n = Len(flat) /\ k = Len(more)
      <2>1. Len(flat) \in Nat /\ Len(more) \in Nat
            BY LenProperties DEF Binary
      <2> QED BY <2>1
<1>2. /\ flat' \in Binary /\ Len(flat') = n + k
      /\ \A i \in 1 .. n : flat'[i] = flat[i]
      /\ \A i \in 1 .. k : flat'[n + i] = more[i]
      <2>1. /\ flat \o more \in Binary /\ Len(flat \o more) = Len(flat) + Len(more)
            /\ \A i \in 1 .. Len(flat) : (flat \o more)[i] = flat[i]
            /\ \A i \in 1 .. Len(more) : (flat \o more)[Len(flat) + i] = more[i]
            BY JoinedAre
      <2> QED BY <1>1, <2>1
<1>3. from <= n /\ at = n - from /\ at \in Nat
      BY <1>1 DEF Lies
<1>4. ASSUME NEW i \in 1 .. Len(code), from + i <= n + k PROVE flat'[from + i] = code[i]
      <2>1. i \in Nat /\ i >= 1 /\ i <= Len(code)
            BY DEF Binary
      <2>2. CASE from + i <= n
            <3>1. flat[from + i] = code[i] /\ from + i \in 1 .. n
                  BY <1>1, <2>1, <2>2 DEF Lies
            <3> QED BY <1>2, <3>1
      <2>3. CASE from + i > n
            <3>1. PICK l \in 1 .. k : l = from + i - n /\ n + l = from + i /\ at + l = i
                  <4>0. from + i - n \in Int
                        BY <1>1, <2>1
                  <4>1. PICK l \in Int : l = from + i - n
                        BY <4>0, Zenon
                  <4>2. l \in 1 .. k /\ n + l = from + i /\ at + l = i
                        BY <1>1, <1>3, <1>4, <2>1, <2>3, <4>1
                  <4> QED BY <4>1, <4>2
            <3>2. more[l] = code[at + l]
                  BY <1>1, <2>1, <3>1 DEF Continues
            <3> QED BY <1>2, <3>1, <3>2
      <2>4. from + i <= n \/ from + i > n
            BY <1>1, <2>1
      <2> QED BY <2>2, <2>3, <2>4
<1> QED BY <1>1, <1>2, <1>3, <1>4 DEF Lies

(* A symbol that has been written is laid before the last one.               *)
LEMMA WholeBefore ==
    ASSUME NEW starts, Laid(starts), script \in Seq(Symbols), NEW j \in 1 .. Len(script) - 1
    PROVE  starts[j] + Len(CodeAt(starts, j)) <= Len(flat)
<1>1. Len(script) \in Nat /\ j \in 1 .. Len(script) /\ j + 1 \in 1 .. Len(script)
      BY ElementOfSeq
<1>2. Lies(CodeAt(starts, j + 1), starts[j + 1]) /\ starts[j + 1] = starts[j] + Len(CodeAt(starts, j))
      BY <1>1 DEF Laid
<1> QED BY <1>2 DEF Lies

LEMMA LaidStays ==
    ASSUME NEW starts, Laid(starts), UNCHANGED <<script, flat>>
    PROVE  Laid(starts)'
BY DEF Laid, CodeAt, Lies, Fits, Code

(* A piece of the last symbol is written.                                    *)
LEMMA LaidGrows ==
    ASSUME NEW starts, Laid(starts), script \in Seq(Symbols), Len(script) > 0, flat \in Binary,
           NEW more \in Binary, flat' = flat \o more, script' = script,
           NEW at \in Int, at = Len(flat) - starts[Len(script)],
           NEW code, code = CodeAt(starts, Len(script)), Continues(more, code, at)
    PROVE  Laid(starts)'
<1>1. PICK n \in Nat : n = Len(script) /\ n > 0 /\ n \in 1 .. n
      BY ElementOfSeq
<1>2. ASSUME NEW j \in 1 .. n PROVE Lies(CodeAt(starts, j), starts[j])'
      <2>1. PICK c \in Binary, from \in Nat : c = CodeAt(starts, j) /\ from = starts[j]
            BY <1>1, CodeThere
      <2>2. Lies(c, from) /\ Len(c) \in Nat
            BY <1>1, <2>1, CodeThere
      <2>3. PICK here \in Int : here = Len(flat) - from
            <3>1. Len(flat) \in Nat
                  BY LenProperties DEF Binary
            <3> QED BY <2>1, <3>1
      <2>4. ASSUME NEW i \in 1 .. Len(more), here + i <= Len(c) PROVE more[i] = c[here + i]
            <3>1. CASE j = n
                  <4>1. c = code /\ here = at
                        BY <1>1, <2>1, <2>3, <3>1
                  <4> QED BY <2>4, <4>1 DEF Continues
            <3>2. CASE j # n
                  <4>1. j \in 1 .. Len(script) - 1
                        BY <1>1, <3>2
                  <4>2. from + Len(c) <= Len(flat)
                        BY <2>1, <4>1, WholeBefore
                  <4>3. i \in Nat /\ i >= 1 /\ Len(flat) \in Nat
                        BY DEF Binary
                  <4> QED BY <2>2, <2>3, <2>4, <4>2, <4>3
            <3> QED BY <3>1, <3>2
      <2>5. Continues(more, c, here)
            BY <2>4 DEF Continues
      <2>6. Lies(c, from)'
            BY <2>1, <2>2, <2>3, <2>5, LiesStill
      <2>7. CodeAt(starts, j)' = c
            BY <2>1 DEF CodeAt, Code
      <2> QED BY <2>1, <2>6, <2>7
<1>3. \A j \in 1 .. n : CodeAt(starts, j)' = CodeAt(starts, j) /\ Fits(script[j])' = Fits(script[j])
      BY DEF CodeAt, Code, Fits
<1> QED BY <1>1, <1>2, <1>3 DEF Laid

\* The bits of bytes are those of each of them.
LEMMA BytesCode ==
    ASSUME NEW s \in Symbols, s.op = "bytes", NEW room, NEW code, code = Code(s, room)
    PROVE  /\ s.value \in Bytes /\ s.count \in Nat /\ Len(code) = s.count * ByteBits
           /\ \A m \in Nat, i \in 1 .. ByteBits :
                m * ByteBits + i <= s.count * ByteBits => code[m * ByteBits + i] = BitsOf(s.value, ByteBits)[i]
<1>1. s.value \in Bytes /\ s.count \in Nat
      BY SymbolsAssumption
<1>2. PICK all \in Nat : all = s.count * ByteBits
      BY <1>1, Weights
<1>3. PICK bits : bits = BitsOf(s.value, ByteBits)
      OBVIOUS
<1>4. code = [i \in 1 .. all |-> bits[((i - 1) % ByteBits) + 1]]
      BY <1>2, <1>3, Zenon DEF Code
<1>5. Len(code) = all
      BY <1>4
<1>6. ASSUME NEW m \in Nat, NEW i \in 1 .. ByteBits, m * ByteBits + i <= all
      PROVE  code[m * ByteBits + i] = bits[i]
      <2>1. PICK n \in Nat : n = m * ByteBits
            BY Weights
      <2>2. i \in Nat /\ i >= 1 /\ i - 1 \in 0 .. ByteBits - 1
            BY Weights
      <2>3. (n + (i - 1)) % ByteBits = i - 1
            BY <2>1, <2>2, RestIs
      <2>4. PICK j \in 1 .. all : j = n + i /\ j - 1 = n + (i - 1)
            <3>1. n + i \in 1 .. all
                  BY <1>2, <1>6, <2>1, <2>2
            <3> QED BY <2>1, <2>2, <3>1
      <2>5. code[j] = bits[((j - 1) % ByteBits) + 1]
            BY <1>4
      <2>6. ((j - 1) % ByteBits) + 1 = i
            BY <2>2, <2>3, <2>4
      <2> QED BY <2>1, <2>4, <2>5, <2>6
<1> QED BY <1>1, <1>2, <1>3, <1>5, <1>6

\* Where the symbols end that are laid down.
LEMMA EndsAre ==
    ASSUME NEW starts, Laid(starts), script \in Seq(Symbols)
    PROVE  starts[Len(script) + 1] \in Nat /\ starts \in Seq(Nat) /\ Len(script) \in Nat
<1>1. Len(script) \in Nat /\ starts \in Seq(Nat) /\ Len(starts) = Len(script) + 1
      BY LenProperties DEF Laid
<1>2. Len(script) + 1 \in 1 .. Len(starts)
      BY <1>1
<1> QED BY <1>1, <1>2, ElementOfSeq

(* When nothing is left of the last symbol, all that is written ends with it.*)
LEMMA AllWritten ==
    ASSUME NEW starts, Laid(starts), Left(starts), todo = <<>>, script \in Seq(Symbols), flat \in Binary
    PROVE  Len(flat) = starts[Len(script) + 1]
<1>1. PICK n \in Nat, l \in Nat : n = Len(script) /\ l = Len(flat)
      <2>1. Len(script) \in Nat /\ Len(flat) \in Nat
            BY LenProperties DEF Binary
      <2> QED BY <2>1
<1>2. Len(todo) = 0
      OBVIOUS
<1>3. ASSUME n > 0, BitsLeft(CodeAt(starts, n), l - starts[n]) PROVE l = starts[n + 1]
      <2>1. PICK c \in Binary, from \in Nat, k \in Nat : c = CodeAt(starts, n) /\ from = starts[n] /\ k = Len(c) /\ starts[n + 1] = from + k
            <3>1. n \in 1 .. Len(script)
                  BY <1>1, <1>3
            <3>2. /\ starts[n] \in Nat /\ CodeAt(starts, n) \in Binary /\ Len(CodeAt(starts, n)) \in Nat
                  /\ starts[n + 1] = starts[n] + Len(CodeAt(starts, n))
                  BY <3>1, CodeThere
            <3> QED BY <3>2
      <2>2. l - from + 0 = k
            BY <1>2, <1>3, <2>1 DEF BitsLeft
      <2> QED BY <2>1, <2>2
<1>4. ASSUME n > 0, BytesLeft(script[n], l - starts[n]) PROVE l = starts[n + 1]
      <2>1. PICK c \in Binary, from \in Nat, k \in Nat : c = CodeAt(starts, n) /\ from = starts[n] /\ k = Len(c) /\ starts[n + 1] = from + k
            <3>1. n \in 1 .. Len(script)
                  BY <1>1, <1>4
            <3>2. /\ starts[n] \in Nat /\ CodeAt(starts, n) \in Binary /\ Len(CodeAt(starts, n)) \in Nat
                  /\ starts[n + 1] = starts[n] + Len(CodeAt(starts, n))
                  BY <3>1, CodeThere
            <3> QED BY <3>2
      <2>2. PICK s \in Symbols : s = script[n]
            BY <1>1, <1>4, CodeThere
      <2>3. s.op = "bytes" /\ c = Code(s, RoomAt(starts[n]))
            BY <1>4, <2>1, <2>2 DEF BytesLeft, CodeAt
      <2>4. PICK m \in Nat : l - from = m * ByteBits /\ m + 0 = s.count
            BY <1>2, <1>4, <2>1, <2>2 DEF BytesLeft
      <2>5. k = s.count * ByteBits
            BY <2>1, <2>3, BytesCode
      <2>6. l - from = k
            BY <2>4, <2>5
      <2> QED BY <1>1, <2>1, <2>6
<1> QED BY <1>1, <1>3, <1>4 DEF Left

(* A piece of the last symbol is written: one bit or one byte of it.         *)
LEMMA PieceLaid ==
    ASSUME NEW starts, Laid(starts), Left(starts), script \in Seq(Symbols), flat \in Binary,
           todo \in Seq(Binary), todo # <<>>,
           flat' = flat \o Head(todo), todo' = Tail(todo), script' = script
    PROVE  Laid(starts)' /\ Left(starts)'
<1>1. PICK n \in Nat, l \in Nat : n = Len(script) /\ l = Len(flat)
      <2>1. Len(script) \in Nat /\ Len(flat) \in Nat
            BY LenProperties DEF Binary
      <2> QED BY <2>1
<1>2. PICK more \in Binary : more = Head(todo) /\ more = todo[1] /\ flat' = flat \o more
      BY TailIs
<1>3. /\ 1 \in 1 .. Len(todo) /\ Len(todo) \in Nat /\ Len(todo') = Len(todo) - 1
      /\ \A j \in 1 .. Len(todo') : j + 1 \in 1 .. Len(todo) /\ todo'[j] = todo[j + 1]
      BY TailIs, LenProperties
<1>4. Len(flat') = l + Len(more) /\ Len(more) \in Nat
      <2>1. Len(flat \o more) = Len(flat) + Len(more) /\ Len(more) \in Nat
            BY JoinedAre, LenProperties DEF Binary
      <2> QED BY <1>1, <1>2, <2>1
<1>5. n > 0
      BY <1>1 DEF Left
<1>6. PICK c \in Binary, from \in Nat : c = CodeAt(starts, n) /\ from = starts[n]
      BY <1>1, <1>5, CodeThere
<1>7. PICK at \in Int : at = l - from
      OBVIOUS
<1>8. /\ Len(script) > 0 /\ c = CodeAt(starts, Len(script)) /\ at = Len(flat) - starts[Len(script)]
      /\ flat' = flat \o more /\ script' = script
      BY <1>1, <1>2, <1>5, <1>6, <1>7
<1>9. CASE BitsLeft(c, at)
      <2>1. at + Len(todo) = Len(c) /\ \A k \in 1 .. Len(todo) : todo[k] = <<c[at + k]>>
            BY <1>9 DEF BitsLeft
      <2>2. more = <<c[at + 1]>> /\ Len(more) = 1
            <3>1. todo[1] = <<c[at + 1]>>
                  BY <1>3, <2>1
            <3>2. Len(<<c[at + 1]>>) = 1
                  OBVIOUS
            <3> QED BY <1>2, <3>1, <3>2
      <2>3. Continues(more, c, at)
            BY <2>2 DEF Continues
      <2>4. Laid(starts)'
            BY <1>2, <1>7, <1>8, <2>3, LaidGrows
      <2>5. at + 1 + Len(todo') = Len(c)
            BY <1>3, <2>1
      <2>6. \A k \in 1 .. Len(todo') : todo'[k] = <<c[at + 1 + k]>>
            BY <1>3, <2>1
      <2>7. BitsLeft(c, at + 1)'
            BY <2>5, <2>6 DEF BitsLeft
      <2>8. CodeAt(starts, n)' = c /\ Len(script)' = n /\ Len(flat)' - from = at + 1
            BY <1>1, <1>4, <1>6, <1>7, <2>2 DEF CodeAt, Code
      <2>9. Left(starts)'
            BY <1>5, <1>6, <2>7, <2>8 DEF Left
      <2> QED BY <2>4, <2>9
<1>10. CASE BytesLeft(script[n], at)
      <2>1. PICK s \in Symbols : s = script[n]
            BY <1>1, <1>5, CodeThere
      <2>2. PICK v, bits : v = s.value /\ bits = BitsOf(v, ByteBits)
            OBVIOUS
      <2>3. s.op = "bytes" /\ \A k \in 1 .. Len(todo) : todo[k] = bits
            BY <1>10, <2>1, <2>2 DEF BytesLeft
      <2>4. PICK m \in Nat : at = m * ByteBits /\ m + Len(todo) = s.count
            BY <1>10, <2>1 DEF BytesLeft
      <2>5. /\ v \in Bytes /\ s.count \in Nat /\ Len(c) = s.count * ByteBits
            /\ \A i \in 1 .. ByteBits : m * ByteBits + i <= s.count * ByteBits => c[m * ByteBits + i] = bits[i]
            BY <1>6, <2>1, <2>2, <2>3, BytesCode DEF CodeAt
      <2>6. more = bits /\ Len(more) = ByteBits
            <3>1. v \in Nat /\ ByteBits \in 0 .. NumberBits
                  BY <2>5, BytesAssumption, BitAssumption
            <3>2. Len(bits) = ByteBits
                  BY <2>2, <3>1, BitsAre
            <3> QED BY <1>2, <1>3, <2>3, <3>2
      <2>7. Continues(more, c, at)
            BY <2>4, <2>5, <2>6 DEF Continues
      <2>8. Laid(starts)'
            BY <1>2, <1>7, <1>8, <2>7, LaidGrows
      <2>9. \A k \in 1 .. Len(todo') : todo'[k] = bits
            BY <1>3, <2>3
      <2>10. PICK next \in Nat : next = m + 1 /\ at + ByteBits = next * ByteBits /\ next + Len(todo') = s.count
            <3>1. at + ByteBits = (m + 1) * ByteBits /\ (m + 1) + Len(todo') = s.count
                  BY <1>3, <2>4, Weights
            <3> QED BY <3>1
      <2>11. BytesLeft(s, at + ByteBits)'
            BY <2>2, <2>3, <2>9, <2>10 DEF BytesLeft, BitsOf
      <2>12. script'[n] = s /\ Len(script)' = n /\ Len(flat)' - from = at + ByteBits
            BY <1>1, <1>4, <1>7, <2>1, <2>6, Weights
      <2>13. Left(starts)'
            BY <1>5, <1>6, <2>11, <2>12 DEF Left
      <2> QED BY <2>8, <2>13
<1> QED BY <1>1, <1>5, <1>6, <1>7, <1>9, <1>10 DEF Left

(* The next symbol begins where the last one ends, and all of it is to be    *)
(* written: an align as many bits as there is room in the byte.              *)
LEMMA SymbolLaid ==
    ASSUME WriterInv, NEW starts, Laid(starts), Left(starts), NEW s \in Symbols, WriteSymbol(s)
    PROVE  \E next \in Seq(Nat) : Laid(next)' /\ Left(next)'
<1>1. /\ todo = <<>> /\ todo' = Pieces(s) /\ script' = Append(script, s) /\ flat' = flat /\ Fits(s)
      /\ script \in Seq(Symbols) /\ flat \in Binary
      BY DEF WriteSymbol, WriterInv, Pending, Written, FlatIs
<1>2. PICK n \in Nat, l \in Nat : n = Len(script) /\ l = Len(flat) /\ l = starts[n + 1]
      <2>1. Len(script) \in Nat /\ Len(flat) \in Nat
            BY <1>1, LenProperties DEF Binary
      <2>2. Len(flat) = starts[Len(script) + 1]
            BY <1>1, AllWritten
      <2> QED BY <2>1, <2>2
<1>3. /\ Len(script') = n + 1 /\ script'[n + 1] = s
      /\ \A j \in 1 .. n : script'[j] = script[j]
      BY <1>1, <1>2, AppendProperties
<1>4. wpos \in 0 .. ByteBits - 1 /\ RoomAt(l) = Room /\ Room \in Nat
      <2>1. /\ wpos \in 0 .. ByteBits - 1 /\ Len(flat) = Len(payload) * ByteBits + wpos
            /\ payload \in Seq(Bytes)
            BY DEF WriterInv, Written, FlatIs
      <2>2. Len(payload) \in Nat
            BY <2>1, LenProperties
      <2>3. l = Len(payload) * ByteBits + wpos
            BY <1>2, <2>1
      <2>4. RoomAt(l) = IF wpos = 0 THEN 0 ELSE ByteBits - wpos
            BY <2>1, <2>2, <2>3, RoomIs
      <2> QED BY <1>2, <2>1, <2>4, RoomThere DEF Room
<1>5. PICK c \in Binary : c = Code(s, RoomAt(l)) /\ c = Code(s, Room)
      BY <1>4, CodesAre
<1>6. PICK k \in Nat : k = Len(c) /\ l + k \in Nat
      <2>1. Len(c) \in Nat
            BY LenProperties DEF Binary
      <2> QED BY <1>2, <2>1
<1>7. PICK next \in Seq(Nat) : next = Append(starts, l + k)
      <2>1. starts \in Seq(Nat)
            BY DEF Laid
      <2>2. Append(starts, l + k) \in Seq(Nat)
            BY <1>6, <2>1, AppendProperties
      <2> QED BY <2>2
<1>8. /\ Len(next) = n + 2 /\ next[n + 2] = l + k /\ next[n + 1] = l
      /\ \A j \in 1 .. n + 1 : next[j] = starts[j]
      <2>1. starts \in Seq(Nat) /\ Len(starts) = n + 1
            BY <1>2 DEF Laid
      <2>2. /\ Len(next) = Len(starts) + 1 /\ next[Len(starts) + 1] = l + k
            /\ \A j \in 1 .. Len(starts) : next[j] = starts[j]
            BY <1>6, <1>7, <2>1, AppendProperties
      <2>3. n + 1 + 1 = n + 2 /\ n + 1 \in 1 .. n + 1
            BY <1>2
      <2> QED BY <1>2, <2>1, <2>2, <2>3
<1>9. CodeAt(next, n + 1)' = c
      BY <1>3, <1>5, <1>8 DEF CodeAt, Code
<1>10. Laid(next)'
      <2>1. next[1] = 0
            <3>1. starts[1] = 0 /\ 1 \in 1 .. n + 1
                  BY <1>2 DEF Laid
            <3> QED BY <1>8, <3>1
      <2>2. ASSUME NEW j \in 1 .. n
            PROVE  /\ Fits(script[j])' /\ Lies(CodeAt(next, j), next[j])'
                   /\ next[j + 1] = next[j] + Len(CodeAt(next, j)')
            <3>1. j \in 1 .. n + 1 /\ j + 1 \in 1 .. n + 1 /\ script'[j] = script[j]
                  BY <1>2, <1>3
            <3>2. PICK d : d = CodeAt(starts, j)
                  OBVIOUS
            <3>3. Fits(script[j]) /\ Lies(d, starts[j]) /\ starts[j + 1] = starts[j] + Len(d)
                  BY <1>2, <3>2 DEF Laid
            <3>4. next[j] = starts[j] /\ next[j + 1] = starts[j + 1]
                  BY <1>8, <3>1
            <3>5. CodeAt(next, j)' = d
                  BY <3>1, <3>2, <3>4 DEF CodeAt, Code
            <3>6. Lies(d, next[j])'
                  BY <1>1, <3>3, <3>4 DEF Lies
            <3>7. Fits(script[j])'
                  BY <3>1, <3>3 DEF Fits
            <3> QED BY <3>3, <3>4, <3>5, <3>6, <3>7
      <2>3. Lies(c, l)'
            <3>1. \A i \in 1 .. k : l + i > l
                  BY <1>2, <1>6
            <3> QED BY <1>1, <1>2, <1>6, <3>1 DEF Lies
      <2>4. Fits(script[n + 1])'
            BY <1>1, <1>3 DEF Fits
      <2>5. next[n + 1 + 1] = next[n + 1] + Len(c)
            <3>1. n + 1 + 1 = n + 2
                  BY <1>2
            <3> QED BY <1>6, <1>8, <3>1
      <2>6. ASSUME NEW j \in 1 .. n + 1
            PROVE  /\ Fits(script[j])' /\ Lies(CodeAt(next, j), next[j])'
                   /\ next[j + 1] = next[j] + Len(CodeAt(next, j)')
            <3>1. CASE j = n + 1
                  BY <1>8, <1>9, <2>3, <2>4, <2>5, <3>1
            <3>2. CASE j # n + 1
                  <4>1. j \in 1 .. n
                        BY <1>2, <3>2
                  <4> QED BY <2>2, <4>1
            <3> QED BY <3>1, <3>2
      <2>7. Len(next) = Len(script') + 1
            BY <1>2, <1>3, <1>8
      <2> QED BY <1>3, <2>1, <2>6, <2>7 DEF Laid
<1>11. Len(flat)' - next[n + 1] = 0
      BY <1>1, <1>2, <1>8
<1>12. ASSUME Pieces(s) = Single(c) PROVE BitsLeft(c, 0)'
      <2>1. Len(todo') = k /\ \A j \in 1 .. k : todo'[j] = <<c[j]>>
            BY <1>1, <1>6, <1>12, SinglesAre
      <2>2. \A j \in 1 .. k : 0 + j = j
            BY <1>6
      <2> QED BY <1>6, <2>1, <2>2 DEF BitsLeft
<1>13. ASSUME s.op = "bytes", Pieces(s) = Copies(BitsOf(s.value, ByteBits), s.count)
      PROVE  BytesLeft(s, 0)'
      <2>1. PICK v \in Bytes, count \in Nat : v = s.value /\ count = s.count
            BY <1>13, SymbolsAssumption
      <2>2. PICK whole : whole = Copies(BitsOf(v, ByteBits), count)
            OBVIOUS
      <2>3. Len(whole) = count /\ \A j \in 1 .. count : whole[j] = BitsOf(v, ByteBits)
            BY <2>2, CopiesAre
      <2>4. todo' = whole
            BY <1>1, <1>13, <2>1, <2>2
      <2>5. 0 = 0 * ByteBits /\ 0 + count = count /\ 0 \in Nat
            BY Weights
      <2>6. \E m \in Nat : 0 = m * ByteBits /\ m + Len(todo') = s.count
            BY <2>1, <2>3, <2>4, <2>5
      <2>7. \A j \in 1 .. Len(todo') : todo'[j] = BitsOf(s.value, ByteBits)
            BY <2>1, <2>3, <2>4
      <2> QED BY <1>13, <2>6, <2>7 DEF BytesLeft, BitsOf
<1>14. n + 1 > 0
      BY <1>2
<1>15. Left(next)'
      <2>1. CASE Pieces(s) = Single(Code(s, Room))
            <3>1. BitsLeft(c, 0)'
                  BY <1>5, <1>12, <2>1
            <3> QED BY <1>3, <1>9, <1>11, <1>14, <3>1 DEF Left
      <2>2. CASE s.op = "bytes" /\ Pieces(s) = Copies(BitsOf(s.value, ByteBits), s.count)
            <3>1. BytesLeft(s, 0)'
                  BY <1>13, <2>2
            <3> QED BY <1>3, <1>11, <1>14, <3>1 DEF Left
      <2> QED BY <1>4, <2>1, <2>2, PiecesAre
<1> QED BY <1>10, <1>15
-----------------------------------------------------------------------------
(* Reading them. *)

\* A number of count bits is read as far as p of them.
NumberRead(v, count, p) ==
    ~reading.counting /\ p + reading.left = count /\ reading.value = v \div 2 ^ reading.left

\* p bits of an Exp-Golomb code are read, of its zeros or of the number after them.
CodeRead(v, p) ==
    IF reading.counting
    THEN reading.left = p /\ p <= LeadingZeros(v) /\ reading.value = 1
    ELSE reading.left <= LeadingZeros(v) /\ NumberRead(v + 1, 2 * LeadingZeros(v) + 1, p)

\* m bytes of a symbol are read, and r bits of the next one.
BytesRead(s, p, m, r) ==
    /\ ~reading.counting /\ p = m * ByteBits + r /\ p + reading.left = s.count * ByteBits
    /\ Len(reading.bytes) = m /\ \A i \in 1 .. m : reading.bytes[i] = s.value
    /\ reading.value = s.value \div 2 ^ (ByteBits - r)

\* p bits of s are read.
HalfRead(s, p) ==
    /\ reading \in Readings /\ reading.op = s.op /\ p \in Nat
    /\ s.op = "bits" => NumberRead(s.value, s.count, p)
    /\ s.op = "ue" => CodeRead(s.value, p)
    /\ s.op = "se" => CodeRead(Folded(s.value), p)
    /\ s.op = "bytes" => \E m \in Nat, r \in 0 .. ByteBits - 1 : BytesRead(s, p, m, r)
    /\ s.op = "align" => ~reading.counting /\ p = 0 /\ reading.left = 0 /\ reading.value = 0

\* what is returned of a symbol
Returns == Int \cup Seq(Bytes)

\* The reader returned the symbols so far, and is in the next one.
Reads(starts) ==
    /\ said \in Seq(Returns) /\ Len(said) <= Len(script)
    /\ \A i \in 1 .. Len(said) : said[i] = Meaning(script[i])
    /\ reading = NoSymbol => position = starts[Len(said) + 1]
    /\ reading # NoSymbol => /\ Len(said) < Len(script)
                             /\ HalfRead(script[Len(said) + 1], position - starts[Len(said) + 1])

\* bit is the one of code after p of them
NextOf(code, p, bit) == bit = code[p + 1]

\* value, of all of v but left bits, has one bit more
Grown(value, bit, v, left) ==
    bit \in {0, 1} /\ 2 * value + bit \in Nat /\ 2 * value + bit = v \div 2 ^ (left - 1)

(* A bit more of a number.                                                   *)
LEMMA MoreOfNumber ==
    ASSUME NEW v \in Nat, NEW count \in 0 .. NumberBits, NEW left \in 1 .. count, NEW p, p + left = count, p \in Nat,
           NEW bit, NextOf(BitsOf(v, count), p, bit), NEW value, value = v \div 2 ^ left
    PROVE  Grown(value, bit, v, left)
<1>1. NumberBits \in Nat /\ count \in Nat /\ left \in Nat /\ left >= 1 /\ left <= count /\ count <= NumberBits
      BY Weights
<1>2. p + 1 \in 1 .. count /\ count - (p + 1) = left - 1 /\ left \in 1 .. NumberBits
      BY <1>1
<1>3. bit = (v \div 2 ^ (left - 1)) % 2
      <2>1. BitsOf(v, count)[p + 1] = (v \div 2 ^ (count - (p + 1))) % 2
            BY <1>2, BitsAre
      <2> QED BY <1>2, <2>1 DEF NextOf
<1>4. PICK h \in Nat : h = v \div 2 ^ (left - 1)
      BY <1>2, OneBitMore
<1>5. PICK w \in Nat : w = v \div 2 ^ left
      BY <1>2, OneBitMore
<1>6. h = 2 * w + (h % 2)
      BY <1>2, <1>4, <1>5, OneBitMore
<1>7. bit = h % 2 /\ value = w /\ h % 2 \in {0, 1}
      <2>1. h % 2 \in {0, 1}
            BY <1>4
      <2>2. bit = h % 2
            BY <1>3, <1>4, Zenon
      <2> QED BY <1>5, <2>1, <2>2, Zenon
<1>8. 2 * value + bit = h
      BY <1>6, <1>7
<1> QED BY <1>4, <1>7, <1>8 DEF Grown

(* A bit of the zeros of a code, and the one behind them.                    *)
LEMMA MoreZeros ==
    ASSUME NEW v \in 0 .. 2 ^ NumberBits - 2, NEW z, z = LeadingZeros(v), NEW p \in 0 .. z,
           NEW bit, NextOf(ExpGolomb(v), p, bit)
    PROVE  IF p < z THEN bit = 0 ELSE bit = 1 /\ p = z /\ 1 = (v + 1) \div 2 ^ z
<1>1. z \in 0 .. NumberBits - 1 /\ NumberBits \in Nat
      BY LeadingZerosAre, Weights
<1>2. p + 1 \in 1 .. 2 * z + 1 /\ p \in Nat /\ z \in Nat
      BY <1>1
<1>3. bit = CodeBit(v, z, p + 1)
      BY <1>2, ExpGolombIs DEF NextOf
<1>4. CASE p < z
      <2>1. p + 1 <= z
            BY <1>2, <1>4
      <2> QED BY <1>3, <1>4, <2>1 DEF CodeBit
<1>5. CASE ~(p < z)
      <2>1. p = z /\ ~(p + 1 <= z) /\ 2 * z + 1 - (p + 1) = z
            BY <1>2, <1>5
      <2>2. bit = ((v + 1) \div 2 ^ z) % 2
            BY <1>3, <2>1 DEF CodeBit
      <2>3. PICK w \in Nat : w = 2 ^ z /\ w > 0 /\ 2 ^ (z + 1) = 2 * w
            BY <1>1, PowersPositive, PowersAssumption
      <2>4. PICK x \in Nat : x = v + 1
            BY PowersPositive, <1>1
      <2>5. w <= x /\ x < 2 * w
            BY <2>3, <2>4, LeadingZerosAre
      <2>6. PICK r \in 0 .. w - 1 : x = 1 * w + r
            <3>1. x - w \in 0 .. w - 1 /\ x = 1 * w + (x - w)
                  BY <2>3, <2>4, <2>5
            <3> QED BY <3>1
      <2>7. x \div w = 1
            BY <2>3, <2>4, <2>6, QuotientIs
      <2>8. (v + 1) \div 2 ^ z = 1
            BY <2>3, <2>4, <2>7, Zenon
      <2>9. bit = 1
            <3>1. bit = 1 % 2
                  BY <2>2, <2>8, Zenon
            <3>2. 1 % 2 = 1
                  OBVIOUS
            <3> QED BY <3>1, <3>2, Zenon
      <2> QED BY <1>5, <2>1, <2>8, <2>9
<1> QED BY <1>4, <1>5

(* A bit more of the number that follows them.                               *)
LEMMA MoreOfCode ==
    ASSUME NEW v \in 0 .. 2 ^ NumberBits - 2, NEW z, z = LeadingZeros(v), NEW left \in 1 .. z,
           NEW p \in Nat, p + left = 2 * z + 1,
           NEW bit, NextOf(ExpGolomb(v), p, bit), NEW value, value = (v + 1) \div 2 ^ left
    PROVE  Grown(value, bit, v + 1, left)
<1>1. z \in 0 .. NumberBits - 1 /\ NumberBits \in Nat
      BY LeadingZerosAre, Weights
<1>2. left \in Nat /\ left >= 1 /\ left <= z /\ z \in Nat
      BY <1>1
<1>3. PICK i \in 1 .. 2 * z + 1 : i = p + 1 /\ i > z /\ 2 * z + 1 - i = left - 1
      <2>1. 2 * z + 2 - left \in 1 .. 2 * z + 1 /\ 2 * z + 2 - left > z
            BY <1>2
      <2>2. 2 * z + 2 - left = p + 1 /\ 2 * z + 1 - (2 * z + 2 - left) = left - 1
            BY <1>2
      <2> QED BY <2>1, <2>2
<1>4. bit = ((v + 1) \div 2 ^ (left - 1)) % 2
      <2>1. bit = CodeBit(v, z, i)
            BY <1>3, ExpGolombIs DEF NextOf
      <2>2. ~(i <= z)
            BY <1>2, <1>3
      <2> QED BY <1>3, <2>1, <2>2 DEF CodeBit
<1>5. PICK x \in Nat : x = v + 1
      BY PowersPositive, <1>1
<1>6. left \in 1 .. NumberBits
      BY <1>1, <1>2
<1>7. PICK h \in Nat : h = x \div 2 ^ (left - 1)
      BY <1>6, OneBitMore
<1>8. PICK w \in Nat : w = x \div 2 ^ left
      BY <1>6, OneBitMore
<1>9. h = 2 * w + (h % 2)
      BY <1>6, <1>7, <1>8, OneBitMore
<1>10. bit = h % 2 /\ value = w /\ h % 2 \in {0, 1}
      <2>1. h % 2 \in {0, 1}
            BY <1>7
      <2>2. bit = h % 2
            BY <1>4, <1>5, <1>7, Zenon
      <2> QED BY <1>5, <1>8, <2>1, <2>2, Zenon
<1>11. 2 * value + bit = h
      BY <1>9, <1>10
<1> QED BY <1>5, <1>7, <1>10, <1>11 DEF Grown

(* A bit more of a byte.                                                     *)
LEMMA MoreOfByte ==
    ASSUME NEW v \in Bytes, NEW r \in 0 .. ByteBits - 1, NEW value, value = v \div 2 ^ (ByteBits - r),
           NEW bit, NextOf(BitsOf(v, ByteBits), r, bit)
    PROVE  /\ Grown(value, bit, v, ByteBits - r)
           /\ r + 1 = ByteBits => 2 * value + bit = v
<1>1. v \in Nat /\ ByteBits \in 0 .. NumberBits /\ ByteBits \in Nat /\ ByteBits > 0
      BY BytesAssumption, BitAssumption
<1>2. PICK left \in 1 .. ByteBits : left = ByteBits - r /\ r + left = ByteBits /\ left - 1 = ByteBits - (r + 1)
      BY <1>1
<1>3. Grown(value, bit, v, left)
      <2>1. PICK count \in 0 .. NumberBits : count = ByteBits
            BY <1>1
      <2>2. left \in 1 .. count /\ r \in Nat /\ r + left = count
            BY <1>1, <1>2, <2>1
      <2>3. value = v \div 2 ^ left /\ NextOf(BitsOf(v, count), r, bit)
            BY <1>2, <2>1
      <2> QED BY <1>1, <2>1, <2>2, <2>3, MoreOfNumber
<1>4. ASSUME r + 1 = ByteBits PROVE 2 * value + bit = v
      <2>1. left - 1 = 0
            BY <1>1, <1>2, <1>4
      <2> QED BY <1>1, <1>3, <2>1, AllOfIt DEF Grown
<1> QED BY <1>2, <1>3, <1>4

(* Codes are as long as what is read of them.                                *)
LEMMA MoreToRead ==
    ASSUME NEW s \in Symbols, NEW p, HalfRead(s, p), NEW room, NEW code, code = Code(s, room),
           reading.counting \/ reading.left > 0
    PROVE  p \in Nat /\ p + 1 \in 1 .. Len(code)
<1>1. p \in Nat /\ reading.left \in Nat /\ reading.counting \in BOOLEAN
      BY DEF HalfRead, Readings
<1>2. CASE s.op = "bits"
      <2>1. s.value \in Nat /\ s.count \in 0 .. NumberBits
            BY <1>2, SymbolsAssumption, PowersPositive, BitAssumption
      <2>2. Len(code) = s.count
            BY <1>2, <2>1, BitsAre DEF Code
      <2>3. ~reading.counting /\ p + reading.left = s.count
            BY <1>2 DEF HalfRead, NumberRead
      <2>4. s.count \in Nat
            BY <2>1, Weights
      <2> QED BY <1>1, <2>2, <2>3, <2>4
<1>3. ASSUME NEW v \in 0 .. 2 ^ NumberBits - 2, code = ExpGolomb(v), CodeRead(v, p)
      PROVE  p + 1 \in 1 .. Len(code)
      <2>1. PICK z \in Nat : z = LeadingZeros(v) /\ Len(code) = 2 * z + 1
            BY <1>3, ExpGolombIs
      <2>2. CASE reading.counting
            BY <1>1, <1>3, <2>1, <2>2 DEF CodeRead
      <2>3. CASE ~reading.counting
            BY <1>1, <1>3, <2>1, <2>3 DEF CodeRead, NumberRead
      <2> QED BY <2>2, <2>3
<1>4. CASE s.op = "ue"
      <2>1. s.value \in 0 .. 2 ^ NumberBits - 2
            BY <1>4, SymbolsAssumption
      <2>2. code = ExpGolomb(s.value) /\ CodeRead(s.value, p)
            BY <1>4 DEF Code, HalfRead
      <2> QED BY <1>1, <1>3, <2>1, <2>2
<1>5. CASE s.op = "se"
      <2>1. Folded(s.value) \in 0 .. 2 ^ NumberBits - 2
            BY <1>5, FoldedIs
      <2>2. code = ExpGolomb(Folded(s.value)) /\ CodeRead(Folded(s.value), p)
            BY <1>5 DEF Code, HalfRead
      <2> QED BY <1>1, <1>3, <2>1, <2>2
<1>6. CASE s.op = "bytes"
      <2>1. PICK k \in Nat : k = Len(code) /\ k = s.count * ByteBits
            <3>1. s.count \in Nat /\ Len(code) = s.count * ByteBits
                  BY <1>6, BytesCode
            <3>2. s.count * ByteBits \in Nat
                  BY <3>1, Weights
            <3> QED BY <3>1, <3>2
      <2>2. ~reading.counting /\ p + reading.left = k
            BY <1>6, <2>1 DEF HalfRead, BytesRead
      <2> QED BY <1>1, <2>1, <2>2
<1>7. CASE s.op = "align"
      BY <1>7 DEF HalfRead
<1> QED BY <1>1, <1>2, <1>4, <1>5, <1>6, <1>7, SymbolsAssumption DEF Operations

\* what is read next of a number that is not counted
LEMMA NumberGrows ==
    ASSUME reading \in Readings, ~reading.counting, NEW left \in Nat, left = reading.left, left > 0,
           NEW v, NEW bit, Grown(reading.value, bit, v, left),
           reading' = [reading EXCEPT !.left = @ - 1, !.value = 2 * @ + bit]
    PROVE  /\ reading' \in Readings /\ reading'.op = reading.op /\ ~reading'.counting
           /\ reading'.left = left - 1 /\ reading'.value = v \div 2 ^ (left - 1)
           /\ reading'.bytes = reading.bytes
<1>1. PICK value : value = 2 * reading.value + bit /\ value \in Nat /\ value = v \div 2 ^ (left - 1)
      BY DEF Grown
<1>2. left - 1 \in Nat
      OBVIOUS
<1>3. /\ reading'.op = reading.op /\ reading'.counting = reading.counting /\ reading'.bytes = reading.bytes
      /\ reading'.left = left - 1 /\ reading'.value = value
      BY <1>1 DEF Readings
<1>4. reading' \in Readings
      BY <1>1, <1>2 DEF Readings
<1> QED BY <1>1, <1>3, <1>4

LEMMA CodeBitRead ==
    ASSUME reading \in Readings, NEW v \in 0 .. 2 ^ NumberBits - 2, NEW p \in Nat, CodeRead(v, p),
           NEW bit, NextOf(ExpGolomb(v), p, bit), reading.counting \/ reading.left > 0,
           reading' = IF reading.counting
                      THEN IF bit = 0 THEN [reading EXCEPT !.left = @ + 1] ELSE [reading EXCEPT !.counting = FALSE]
                      ELSE [reading EXCEPT !.left = @ - 1, !.value = 2 * @ + bit]
    PROVE  reading' \in Readings /\ reading'.op = reading.op /\ CodeRead(v, p + 1)'
<1>1. PICK z \in Nat : z = LeadingZeros(v)
      BY LeadingZerosAre
<1>2. PICK left \in Nat : left = reading.left
      BY DEF Readings
<1>3. CASE reading.counting
      <2>1. left = p /\ p <= z /\ reading.value = 1 /\ p \in 0 .. z
            BY <1>1, <1>2, <1>3 DEF CodeRead
      <2>2. IF p < z THEN bit = 0 ELSE bit = 1 /\ p = z /\ 1 = (v + 1) \div 2 ^ z
            BY <1>1, <2>1, MoreZeros
      <2>3. CASE bit = 0
            <3>1. reading' = [reading EXCEPT !.left = @ + 1]
                  BY <1>3, <2>3
            <3>2. /\ reading' \in Readings /\ reading'.op = reading.op /\ reading'.counting
                  /\ reading'.left = p + 1 /\ reading'.value = 1
                  BY <1>2, <1>3, <2>1, <3>1 DEF Readings
            <3>3. p + 1 <= z
                  BY <2>1, <2>2, <2>3
            <3>4. CodeRead(v, p + 1)'
                  BY <1>1, <3>2, <3>3 DEF CodeRead, LeadingZeros
            <3> QED BY <3>2, <3>4
      <2>4. CASE bit # 0
            <3>1. reading' = [reading EXCEPT !.counting = FALSE]
                  BY <1>3, <2>4
            <3>2. /\ reading' \in Readings /\ reading'.op = reading.op /\ ~reading'.counting
                  /\ reading'.left = p /\ reading'.value = 1
                  BY <1>2, <1>3, <2>1, <3>1 DEF Readings
            <3>3. p = z /\ 1 = (v + 1) \div 2 ^ z /\ p + 1 + p = 2 * z + 1
                  BY <2>1, <2>2, <2>4
            <3>4. reading'.value = (v + 1) \div 2 ^ reading'.left
                  BY <3>2, <3>3
            <3>5. NumberRead(v + 1, 2 * z + 1, p + 1)'
                  BY <3>2, <3>3, <3>4 DEF NumberRead
            <3>6. reading'.left <= z
                  BY <2>1, <3>2
            <3>7. CodeRead(v, p + 1)'
                  BY <1>1, <3>2, <3>5, <3>6 DEF CodeRead, LeadingZeros
            <3> QED BY <3>2, <3>7
      <2> QED BY <2>3, <2>4
<1>4. CASE ~reading.counting
      <2>1. left > 0 /\ left <= z /\ p + left = 2 * z + 1 /\ reading.value = (v + 1) \div 2 ^ left
            BY <1>1, <1>2, <1>4 DEF CodeRead, NumberRead
      <2>2. left \in 1 .. z
            BY <1>1, <1>2, <2>1
      <2>3. Grown(reading.value, bit, v + 1, left)
            BY <1>1, <2>1, <2>2, MoreOfCode
      <2>4. reading' = [reading EXCEPT !.left = @ - 1, !.value = 2 * @ + bit]
            BY <1>4
      <2>5. /\ reading' \in Readings /\ reading'.op = reading.op /\ ~reading'.counting
            /\ reading'.left = left - 1 /\ reading'.value = (v + 1) \div 2 ^ (left - 1)
            BY <1>2, <1>4, <2>1, <2>3, <2>4, NumberGrows
      <2>6. (p + 1) + (left - 1) = 2 * z + 1 /\ left - 1 <= z
            BY <1>1, <1>2, <2>1
      <2>7. NumberRead(v + 1, 2 * z + 1, p + 1)'
            BY <2>5, <2>6 DEF NumberRead
      <2>8. CodeRead(v, p + 1)'
            BY <1>1, <2>5, <2>6, <2>7 DEF CodeRead, LeadingZeros
      <2> QED BY <2>5, <2>8
<1> QED BY <1>3, <1>4

\* places in some bytes
LEMMA PlacesInBytes ==
    ASSUME NEW count \in Nat, NEW m \in Nat, NEW r \in 0 .. ByteBits - 1, NEW left \in Nat, left > 0,
           NEW p, p = m * ByteBits + r, p + left = count * ByteBits
    PROVE  /\ m < count /\ r + left >= ByteBits
           /\ (left - 1) % ByteBits = 0 <=> r + 1 = ByteBits
           /\ left % ByteBits = 0 <=> r = 0
<1>1. PICK w \in Nat : w = ByteBits /\ w > 0
      BY Weights
<1>2. PICK before \in Nat, all \in Nat : before = m * w /\ all = count * w
      BY <1>1
<1>3. before + r + left = all /\ r \in 0 .. w - 1 /\ before < all
      BY <1>1, <1>2
<1>4. m < count
      <2>1. CASE m >= count
            <3>1. PICK d \in Nat : d = m - count /\ m = count + d
                  <4>1. m - count \in Nat /\ m = count + (m - count)
                        BY <2>1
                  <4> QED BY <4>1
            <3>2. PICK e \in Nat : e = d * w
                  BY <1>1, <3>1
            <3>3. m * w = count * w + d * w
                  BY <1>1, <3>1
            <3>4. before = all + e
                  BY <1>2, <3>2, <3>3
            <3> QED BY <1>2, <1>3, <3>2, <3>4
      <2> QED BY <2>1
<1>5. PICK d \in Nat : d = count - m - 1 /\ count = m + 1 + d
      <2>1. count - m - 1 \in Nat /\ count = m + 1 + (count - m - 1)
            BY <1>4
      <2> QED BY <2>1
<1>6. PICK e \in Nat : e = d * w
      BY <1>1, <1>5
<1>7. all = before + w + e
      <2>1. count * w = m * w + w + d * w
            BY <1>1, <1>5
      <2> QED BY <1>2, <1>6, <2>1
<1>8. left = e + (w - r) /\ left - 1 = e + (w - r - 1)
      BY <1>1, <1>2, <1>3, <1>6, <1>7
<1>9. (left - 1) % w = w - r - 1
      <2>1. PICK t \in 0 .. ByteBits - 1 : t = w - r - 1
            BY <1>1, <1>3
      <2>2. (d * ByteBits + t) % ByteBits = t
            BY <1>5, RestIs
      <2>3. left - 1 = d * ByteBits + t
            BY <1>1, <1>6, <1>8, <2>1
      <2> QED BY <1>1, <2>1, <2>2, <2>3
<1>10. CASE r = 0
      <2>1. PICK next \in Nat : next = d + 1 /\ next * ByteBits + 0 = left
            <3>1. (d + 1) * w = e + w
                  BY <1>1, <1>5, <1>6
            <3>2. d + 1 \in Nat /\ (d + 1) * ByteBits + 0 = left
                  BY <1>1, <1>5, <1>6, <1>8, <1>10, <3>1
            <3> QED BY <3>2
      <2>2. 0 \in 0 .. ByteBits - 1
            BY <1>1
      <2>3. (next * ByteBits + 0) % ByteBits = 0
            BY <2>1, <2>2, RestIs
      <2>4. left % ByteBits = 0
            BY <2>1, <2>3
      <2> QED BY <1>1, <1>3, <1>4, <1>6, <1>8, <1>9, <1>10, <2>4
<1>11. CASE r # 0
      <2>1. PICK t \in 0 .. ByteBits - 1 : t = w - r /\ t # 0
            BY <1>1, <1>3, <1>11
      <2>2. (d * ByteBits + t) % ByteBits = t
            BY <1>5, RestIs
      <2>3. left = d * ByteBits + t
            BY <1>1, <1>6, <1>8, <2>1
      <2>4. left % ByteBits # 0
            BY <2>1, <2>2, <2>3
      <2> QED BY <1>1, <1>3, <1>4, <1>6, <1>8, <1>9, <1>11, <2>4
<1> QED BY <1>10, <1>11

\* a byte more of a symbol is read, and left bits are left
ByteDone(byte, left) == reading' = [reading EXCEPT !.left = left, !.value = 0, !.bytes = Append(@, byte)]

\* m bytes of it were read before
BytesDone(byte, m) == Len(reading.bytes) = m /\ \A i \in 1 .. m : reading.bytes[i] = byte

LEMMA ByteComplete ==
    ASSUME NEW s \in Symbols, s.op = "bytes", reading \in Readings, ~reading.counting,
           NEW m \in Nat, BytesDone(s.value, m), NEW left \in Nat, ByteDone(s.value, left),
           NEW p, p = (m + 1) * ByteBits, p + left = s.count * ByteBits
    PROVE  /\ reading' \in Readings /\ reading'.op = reading.op
           /\ m + 1 \in Nat /\ 0 \in 0 .. ByteBits - 1 /\ BytesRead(s, p, m + 1, 0)'
<1>1. PICK v \in Bytes : v = s.value /\ s.value \in Bytes
      BY SymbolsAssumption
<1>2. PICK bytes \in Seq(Bytes) : bytes = reading.bytes
      BY DEF Readings
<1>3. PICK more \in Seq(Bytes) : more = Append(bytes, v)
      <2>1. Append(bytes, v) \in Seq(Bytes)
            BY <1>1, <1>2, AppendProperties
      <2> QED BY <2>1
<1>4. /\ Len(more) = m + 1 /\ more[m + 1] = v
      /\ \A i \in 1 .. m : more[i] = bytes[i]
      <2>1. /\ Len(more) = Len(bytes) + 1 /\ more[Len(bytes) + 1] = v
            /\ \A i \in 1 .. Len(bytes) : more[i] = bytes[i]
            BY <1>1, <1>2, <1>3, AppendProperties
      <2>2. Len(bytes) = m
            BY <1>2 DEF BytesDone
      <2> QED BY <2>1, <2>2
<1>5. \A i \in 1 .. m + 1 : more[i] = v
      <2>1. ASSUME NEW i \in 1 .. m + 1 PROVE more[i] = v
            <3>1. CASE i = m + 1
                  BY <1>4, <3>1
            <3>2. CASE i # m + 1
                  <4>1. i \in 1 .. m
                        BY <3>2
                  <4>2. bytes[i] = s.value
                        BY <1>2, <4>1 DEF BytesDone
                  <4> QED BY <1>1, <1>4, <4>1, <4>2
            <3> QED BY <3>1, <3>2
      <2> QED BY <2>1
<1>6. /\ reading' \in Readings /\ reading'.op = reading.op /\ ~reading'.counting
      /\ reading'.left = left /\ reading'.value = 0 /\ reading'.bytes = more
      BY <1>1, <1>2, <1>3 DEF Readings, ByteDone
<1>7. 0 \in 0 .. ByteBits - 1 /\ ByteBits - 0 = ByteBits /\ m + 1 \in Nat
      BY Weights
<1>8. v \div 2 ^ ByteBits = 0
      <2>1. PICK top \in Nat : top = 2 ^ ByteBits
            BY PowersPositive, BitAssumption, Weights
      <2>2. v \in 0 .. top - 1
            BY <1>1, <2>1, BitAssumption
      <2> QED BY <2>1, <2>2, NothingAbove
<1>9. PICK n \in Nat : n = m + 1
      BY <1>7
<1>10. p = n * ByteBits + 0
      <2>1. n * ByteBits \in Nat /\ p = n * ByteBits
            BY <1>9, Weights
      <2> QED BY <2>1
<1>11. BytesRead(s, p, n, 0)'
      <2>1. Len(reading'.bytes) = n /\ \A i \in 1 .. n : reading'.bytes[i] = s.value
            BY <1>1, <1>4, <1>5, <1>6, <1>9
      <2>2. reading'.value = s.value \div 2 ^ (ByteBits - 0)
            BY <1>1, <1>6, <1>7, <1>8
      <2> QED BY <1>6, <1>10, <2>1, <2>2 DEF BytesRead
<1> QED BY <1>6, <1>7, <1>9, <1>11

LEMMA BytesBitRead ==
    ASSUME NEW s \in Symbols, s.op = "bytes", reading \in Readings, reading.op = s.op, NEW m \in Nat, NEW r \in 0 .. ByteBits - 1,
           NEW p \in Nat, BytesRead(s, p, m, r), reading.left > 0,
           NEW room, NEW bit, NextOf(Code(s, room), p, bit),
           reading' = IF (reading.left - 1) % ByteBits = 0
                      THEN [reading EXCEPT !.left = @ - 1, !.value = 0, !.bytes = Append(@, 2 * reading.value + bit)]
                      ELSE [reading EXCEPT !.left = @ - 1, !.value = 2 * @ + bit]
    PROVE  /\ reading' \in Readings /\ reading'.op = reading.op
           /\ \E n \in Nat, q \in 0 .. ByteBits - 1 : BytesRead(s, p + 1, n, q)'
<1>1. PICK left \in Nat : left = reading.left /\ left > 0
      BY DEF Readings
<1>2. PICK v \in Bytes, count \in Nat : v = s.value /\ count = s.count
      BY SymbolsAssumption
<1>3. /\ ~reading.counting /\ p = m * ByteBits + r /\ p + left = count * ByteBits
      /\ Len(reading.bytes) = m /\ \A i \in 1 .. m : reading.bytes[i] = s.value
      /\ reading.value = v \div 2 ^ (ByteBits - r)
      BY <1>1, <1>2 DEF BytesRead
<1>4. (left - 1) % ByteBits = 0 <=> r + 1 = ByteBits
      BY <1>1, <1>2, <1>3, PlacesInBytes
<1>5. /\ ByteBits \in Nat /\ ByteBits > 0 /\ r \in Nat /\ r < ByteBits
      /\ m * ByteBits \in Nat /\ count * ByteBits \in Nat /\ (m + 1) * ByteBits = m * ByteBits + ByteBits
      BY <1>2, Weights
<1>6. PICK before \in Nat, all \in Nat : before = m * ByteBits /\ all = count * ByteBits /\ p = before + r /\ p + left = all
      BY <1>3, <1>5
<1>7. NextOf(BitsOf(v, ByteBits), r, bit)
      <2>1. PICK code : code = Code(s, room)
            OBVIOUS
      <2>2. PICK i \in 1 .. ByteBits : i = r + 1
            BY <1>5
      <2>3. m * ByteBits + i = p + 1 /\ m * ByteBits + i <= count * ByteBits
            <3>1. before + i = p + 1 /\ before + i <= all
                  BY <1>1, <1>6, <1>5, <2>2
            <3> QED BY <1>6, <3>1
      <2>4. m * ByteBits + i <= s.count * ByteBits => code[m * ByteBits + i] = BitsOf(s.value, ByteBits)[i]
            BY <2>1, <2>2, BytesCode
      <2>5. code[p + 1] = BitsOf(v, ByteBits)[i]
            BY <1>2, <2>3, <2>4
      <2> QED BY <2>1, <2>2, <2>5 DEF NextOf
<1>8. Grown(reading.value, bit, v, ByteBits - r) /\ (r + 1 = ByteBits => 2 * reading.value + bit = v)
      BY <1>2, <1>3, <1>7, MoreOfByte
<1>9. CASE r + 1 = ByteBits
      <2>2. left - 1 \in Nat /\ p + 1 = (m + 1) * ByteBits /\ p + 1 + (left - 1) = s.count * ByteBits
            <3>1. left - 1 \in Nat /\ p + 1 = before + ByteBits /\ p + 1 + (left - 1) = all
                  BY <1>1, <1>6, <1>5, <1>9
            <3> QED BY <1>6, <1>2, <1>5, <3>1
      <2>3. ByteDone(s.value, left - 1)
            BY <1>1, <1>2, <1>4, <1>8, <1>9 DEF ByteDone
      <2>4. PICK l \in Nat, q \in Nat : l = left - 1 /\ q = p + 1
            BY <2>2
      <2>5. /\ reading' \in Readings /\ reading'.op = reading.op
            /\ m + 1 \in Nat /\ 0 \in 0 .. ByteBits - 1 /\ BytesRead(s, q, m + 1, 0)'
            <3>1. q = (m + 1) * ByteBits /\ q + l = s.count * ByteBits
                  BY <2>2, <2>4
            <3>2. ByteDone(s.value, l)
                  BY <2>3, <2>4
            <3>3. ~reading.counting /\ BytesDone(s.value, m)
                  BY <1>3 DEF BytesDone
            <3> QED BY <2>4, <3>1, <3>2, <3>3, ByteComplete
      <2> QED BY <2>4, <2>5
<1>10. CASE r + 1 # ByteBits
      <2>1. reading' = [reading EXCEPT !.left = @ - 1, !.value = 2 * @ + bit]
            BY <1>1, <1>4, <1>10
      <2>2. PICK value : value = 2 * reading.value + bit /\ value \in Nat /\ value = v \div 2 ^ (ByteBits - r - 1)
            BY <1>8 DEF Grown
      <2>3. /\ reading' \in Readings /\ reading'.op = reading.op /\ ~reading'.counting
            /\ reading'.left = left - 1 /\ reading'.value = value /\ reading'.bytes = reading.bytes
            <3>1. left - 1 \in Nat /\ ~reading.counting
                  BY <1>1, <1>3
            <3>2. reading' = [reading EXCEPT !.left = left - 1, !.value = value]
                  BY <1>1, <2>1, <2>2
            <3> QED BY <2>2, <3>1, <3>2 DEF Readings
      <2>4. PICK q \in 0 .. ByteBits - 1 : q = r + 1 /\ ByteBits - r - 1 = ByteBits - q
            BY <1>5, <1>10
      <2>5. p + 1 = m * ByteBits + q /\ p + 1 + (left - 1) = s.count * ByteBits
            <3>1. p + 1 = before + q /\ p + 1 + (left - 1) = all
                  BY <1>1, <1>6, <1>5, <2>4
            <3> QED BY <1>6, <1>2, <3>1
      <2>6. BytesRead(s, p + 1, m, q)'
            BY <1>2, <1>3, <2>2, <2>3, <2>4, <2>5 DEF BytesRead
      <2> QED BY <2>3, <2>4, <2>6
<1> QED BY <1>9, <1>10

\* the shorter ways of ReadSymbolBit
LEMMA ReadSymbolBitIs ==
    ASSUME NEW bit, ReadSymbolBit(bit), reading.counting \in BOOLEAN
    PROVE  /\ reading.op # "bytes" =>
                reading' = IF reading.counting
                           THEN IF bit = 0 THEN [reading EXCEPT !.left = @ + 1] ELSE [reading EXCEPT !.counting = FALSE]
                           ELSE [reading EXCEPT !.left = @ - 1, !.value = 2 * @ + bit]
           /\ reading.op = "bytes" /\ ~reading.counting =>
                reading' = IF (reading.left - 1) % ByteBits = 0
                           THEN [reading EXCEPT !.left = @ - 1, !.value = 0, !.bytes = Append(@, 2 * reading.value + bit)]
                           ELSE [reading EXCEPT !.left = @ - 1, !.value = 2 * @ + bit]
<1>1. reading' =
        CASE reading.counting ->
                IF bit = 0 THEN [reading EXCEPT !.left = @ + 1] ELSE [reading EXCEPT !.counting = FALSE]
          [] reading.op = "bytes" /\ (reading.left - 1) % ByteBits = 0 ->
                [reading EXCEPT !.left = @ - 1, !.value = 0, !.bytes = Append(@, 2 * reading.value + bit)]
          [] OTHER -> [reading EXCEPT !.left = @ - 1, !.value = 2 * @ + bit]
      BY Zenon DEF ReadSymbolBit
<1>2. CASE reading.counting /\ reading.op # "bytes"
      <2>1. reading' = IF bit = 0 THEN [reading EXCEPT !.left = @ + 1] ELSE [reading EXCEPT !.counting = FALSE]
            BY <1>1, <1>2
      <2> QED BY <1>2, <2>1
<1>3. CASE ~reading.counting /\ reading.op = "bytes" /\ (reading.left - 1) % ByteBits = 0
      <2>1. reading' = [reading EXCEPT !.left = @ - 1, !.value = 0, !.bytes = Append(@, 2 * reading.value + bit)]
            BY <1>1, <1>3
      <2> QED BY <1>3, <2>1
<1>4. CASE ~reading.counting /\ ~(reading.op = "bytes" /\ (reading.left - 1) % ByteBits = 0)
      <2>1. reading' = [reading EXCEPT !.left = @ - 1, !.value = 2 * @ + bit]
            BY <1>1, <1>4
      <2> QED BY <1>4, <2>1
<1>5. CASE reading.counting /\ reading.op = "bytes"
      BY <1>5
<1> QED BY <1>2, <1>3, <1>4, <1>5

(* Whatever the symbol, one bit more of it is read.                          *)
LEMMA SymbolBitRead ==
    ASSUME NEW s \in Symbols, NEW p, HalfRead(s, p), NEW room, NEW bit, ReadSymbolBit(bit), NextOf(Code(s, room), p, bit)
    PROVE  HalfRead(s, p + 1)'
<1>1. /\ reading \in Readings /\ reading.op = s.op /\ p \in Nat /\ p + 1 \in Nat
      /\ reading.counting \in BOOLEAN /\ reading.left \in Nat
      /\ reading.counting \/ reading.left > 0
      BY DEF HalfRead, Readings, ReadSymbolBit
<1>2. CASE s.op = "bits"
      <2>1. s.value \in Nat /\ s.count \in 0 .. NumberBits
            BY <1>2, SymbolsAssumption, PowersPositive, BitAssumption
      <2>2. PICK v \in Nat, count \in 0 .. NumberBits, left \in Nat : v = s.value /\ count = s.count /\ left = reading.left
            BY <1>1, <2>1
      <2>3. ~reading.counting /\ p + left = count /\ reading.value = v \div 2 ^ left /\ left > 0
            BY <1>1, <1>2, <2>2 DEF HalfRead, NumberRead
      <2>4. NextOf(BitsOf(v, count), p, bit)
            BY <1>2, <2>2 DEF Code
      <2>5. left \in 1 .. count
            <3>1. count \in Nat
                  BY <2>2, Weights
            <3>2. left <= count /\ left >= 1
                  BY <1>1, <2>2, <2>3, <3>1
            <3> QED BY <2>2, <3>1, <3>2
      <2>6. Grown(reading.value, bit, v, left)
            BY <1>1, <2>2, <2>3, <2>4, <2>5, MoreOfNumber
      <2>7. reading' = [reading EXCEPT !.left = @ - 1, !.value = 2 * @ + bit]
            BY <1>1, <1>2, <2>3, ReadSymbolBitIs
      <2>8. /\ reading' \in Readings /\ reading'.op = reading.op /\ ~reading'.counting
            /\ reading'.left = left - 1 /\ reading'.value = v \div 2 ^ (left - 1)
            BY <1>1, <2>2, <2>3, <2>6, <2>7, NumberGrows
      <2>9. (p + 1) + (left - 1) = count
            <3>1. count \in Nat
                  BY <2>2, Weights
            <3> QED BY <1>1, <2>2, <2>3, <3>1
      <2>10. NumberRead(s.value, s.count, p + 1)'
            BY <2>2, <2>8, <2>9 DEF NumberRead
      <2> QED BY <1>1, <1>2, <2>8, <2>10 DEF HalfRead
<1>3. CASE s.op = "ue"
      <2>1. s.value \in 0 .. 2 ^ NumberBits - 2
            BY <1>3, SymbolsAssumption
      <2>2. CodeRead(s.value, p) /\ NextOf(ExpGolomb(s.value), p, bit)
            BY <1>3 DEF HalfRead, Code
      <2>3. reading' = IF reading.counting
                       THEN IF bit = 0 THEN [reading EXCEPT !.left = @ + 1] ELSE [reading EXCEPT !.counting = FALSE]
                       ELSE [reading EXCEPT !.left = @ - 1, !.value = 2 * @ + bit]
            BY <1>1, <1>3, ReadSymbolBitIs
      <2>4. reading' \in Readings /\ reading'.op = reading.op /\ CodeRead(s.value, p + 1)'
            BY <1>1, <2>1, <2>2, <2>3, CodeBitRead
      <2> QED BY <1>1, <1>3, <2>4 DEF HalfRead
<1>4. CASE s.op = "se"
      <2>1. Folded(s.value) \in 0 .. 2 ^ NumberBits - 2
            BY <1>4, FoldedIs
      <2>2. CodeRead(Folded(s.value), p) /\ NextOf(ExpGolomb(Folded(s.value)), p, bit)
            BY <1>4 DEF HalfRead, Code
      <2>3. reading' = IF reading.counting
                       THEN IF bit = 0 THEN [reading EXCEPT !.left = @ + 1] ELSE [reading EXCEPT !.counting = FALSE]
                       ELSE [reading EXCEPT !.left = @ - 1, !.value = 2 * @ + bit]
            BY <1>1, <1>4, ReadSymbolBitIs
      <2>4. reading' \in Readings /\ reading'.op = reading.op /\ CodeRead(Folded(s.value), p + 1)'
            BY <1>1, <2>1, <2>2, <2>3, CodeBitRead
      <2> QED BY <1>1, <1>4, <2>4 DEF HalfRead
<1>5. CASE s.op = "bytes"
      <2>1. PICK m \in Nat, r \in 0 .. ByteBits - 1 : BytesRead(s, p, m, r)
            BY <1>5 DEF HalfRead
      <2>2. ~reading.counting /\ reading.left > 0
            BY <1>1, <2>1 DEF BytesRead
      <2>3. reading' = IF (reading.left - 1) % ByteBits = 0
                       THEN [reading EXCEPT !.left = @ - 1, !.value = 0, !.bytes = Append(@, 2 * reading.value + bit)]
                       ELSE [reading EXCEPT !.left = @ - 1, !.value = 2 * @ + bit]
            BY <1>1, <1>5, <2>2, ReadSymbolBitIs
      <2>4. /\ reading' \in Readings /\ reading'.op = reading.op
            /\ \E n \in Nat, q \in 0 .. ByteBits - 1 : BytesRead(s, p + 1, n, q)'
            BY <1>1, <1>5, <2>1, <2>2, <2>3, BytesBitRead
      <2> QED BY <1>1, <1>5, <2>4 DEF HalfRead
<1>6. CASE s.op = "align"
      BY <1>1, <1>6 DEF HalfRead
<1> QED BY <1>2, <1>3, <1>4, <1>5, <1>6, SymbolsAssumption DEF Operations

(* The bit that the reader reads is the next one of the symbol it is in.     *)
LEMMA NextIs ==
    ASSUME WriterInv, ReaderInv, Holds, ~stale, NEW starts, Laid(starts), NEW j \in 1 .. Len(script),
           NEW bit, ReadBit(bit), NEW p \in Nat, p = position - starts[j],
           NEW code, code = CodeAt(starts, j), p + 1 \in 1 .. Len(code)
    PROVE  NextOf(code, p, bit)
<1>1. position \in Int
      BY PlaceIs
<1>2. script \in Seq(Symbols)
      BY DEF WriterInv, Pending
<1>3. PICK from \in Nat : from = starts[j] /\ Lies(code, from)
      BY <1>2, CodeThere
<1>4. position + 1 \in 1 .. Len(flat) /\ bit = flat[position + 1]
      BY NextBit
<1>5. PICK i \in 1 .. Len(code) : i = p + 1 /\ from + i = position + 1
      BY <1>1, <1>3
<1>6. from + i <= Len(flat)
      <2>1. Len(flat) \in Nat
            BY LenProperties DEF WriterInv, Written, FlatIs, Binary
      <2> QED BY <1>1, <1>4, <1>5, <2>1
<1>7. flat[from + i] = code[i]
      BY <1>3, <1>5, <1>6 DEF Lies
<1> QED BY <1>4, <1>5, <1>7 DEF NextOf

(* The reader goes on in the symbol it is in.                                *)
LEMMA ReadsOn ==
    ASSUME NEW starts, Reads(starts), reading # NoSymbol \/ Len(said) < Len(script),
           UNCHANGED <<script, said>>, reading' \in Readings,
           NEW s, s = script[Len(said) + 1], NEW p, p = position' - starts[Len(said) + 1], HalfRead(s, p)'
    PROVE  Reads(starts)'
<1>1. reading' # NoSymbol
      BY BitAssumption
<1>2. PICK n : n = Len(said)
      OBVIOUS
<1>3. /\ said' \in Seq(Returns) /\ Len(said') = n /\ n < Len(script') /\ Len(said') <= Len(script')
      /\ \A i \in 1 .. n : said'[i] = Meaning(script'[i])
      BY <1>2 DEF Reads
<1>4. script'[n + 1] = s /\ position' - starts[n + 1] = p
      BY <1>2
<1> QED BY <1>1, <1>3, <1>4 DEF Reads, Meaning

LEMMA ReadSymbolBitReads ==
    ASSUME WriterInv, ReaderInv, Holds, ~stale, NEW starts, Laid(starts), Reads(starts),
           NEW bit, ReadSymbolBit(bit)
    PROVE  Reads(starts)'
<1>1. /\ reading # NoSymbol /\ (reading.counting \/ reading.left > 0) /\ ReadBit(bit)
      /\ said' = said /\ script' = script /\ position' = position + 1
      BY DEF ReadSymbolBit, ReadBit
<1>2. /\ script \in Seq(Symbols) /\ Len(said) \in Nat /\ Len(script) \in Nat
      BY LenProperties DEF Reads, WriterInv, Pending
<1>3. PICK j \in 1 .. Len(script) : j = Len(said) + 1
      BY <1>1, <1>2 DEF Reads
<1>4. PICK s \in Symbols, code \in Binary, from \in Nat : s = script[j] /\ code = CodeAt(starts, j) /\ from = starts[j]
      BY <1>2, CodeThere
<1>5. PICK p : p = position - from /\ HalfRead(s, p)
      BY <1>1, <1>3, <1>4 DEF Reads
<1>6. p \in Nat /\ p + 1 \in 1 .. Len(code)
      BY <1>1, <1>4, <1>5, MoreToRead DEF CodeAt
<1>7. NextOf(code, p, bit)
      BY <1>1, <1>3, <1>4, <1>5, <1>6, NextIs
<1>8. HalfRead(s, p + 1)'
      BY <1>4, <1>5, <1>7, SymbolBitRead DEF CodeAt
<1>9. position' - from = p + 1
      <2>1. position \in Int
            BY PlaceIs
      <2> QED BY <1>1, <1>4, <1>5, <2>1
<1>10. reading' \in Readings
      BY <1>8 DEF HalfRead
<1>11. PICK q : q = p + 1
      OBVIOUS
<1>12. s = script[Len(said) + 1] /\ q = position' - starts[Len(said) + 1] /\ HalfRead(s, q)'
      BY <1>3, <1>4, <1>8, <1>9, <1>11
<1> QED BY <1>1, <1>10, <1>12, ReadsOn

(* A byte that is read whole is one of the symbol's.                         *)
LEMMA ReadSymbolByteReads ==
    ASSUME WriterInv, ReaderInv, NEW starts, Laid(starts), Reads(starts), ReadSymbolByte
    PROVE  Reads(starts)'
<1>1. /\ reading # NoSymbol /\ reading.op = "bytes" /\ reading.left > 0 /\ rpos = 0 /\ reading.left % ByteBits = 0
      /\ Take /\ said' = said /\ script' = script /\ position' = position + ByteBits
      /\ reading' = [reading EXCEPT !.left = @ - ByteBits, !.bytes = Append(@, stream[Here])]
      BY DEF ReadSymbolByte
<1>2. /\ script \in Seq(Symbols) /\ Len(said) \in Nat /\ Len(script) \in Nat
      BY LenProperties DEF Reads, WriterInv, Pending
<1>3. PICK j \in 1 .. Len(script) : j = Len(said) + 1
      BY <1>1, <1>2 DEF Reads
<1>4. PICK s \in Symbols, code \in Binary, from \in Nat :
            s = script[j] /\ code = CodeAt(starts, j) /\ from = starts[j] /\ Lies(code, from)
      BY <1>2, CodeThere
<1>5. PICK p : p = position - from /\ HalfRead(s, p)
      BY <1>1, <1>3, <1>4 DEF Reads
<1>6. s.op = "bytes" /\ reading \in Readings /\ p \in Nat /\ reading.op = s.op
      BY <1>1, <1>5 DEF HalfRead
<1>7. PICK m \in Nat, r \in 0 .. ByteBits - 1 : BytesRead(s, p, m, r)
      BY <1>5, <1>6 DEF HalfRead
<1>8. PICK v \in Bytes, count \in Nat, left \in Nat, w \in Nat :
            v = s.value /\ count = s.count /\ left = reading.left /\ w = ByteBits /\ w > 0
      BY <1>6, SymbolsAssumption, Weights DEF Readings
<1>9. /\ ~reading.counting /\ p = m * ByteBits + r /\ p + left = count * ByteBits
      /\ BytesDone(v, m) /\ reading.value = v \div 2 ^ (ByteBits - r)
      BY <1>7, <1>8 DEF BytesRead, BytesDone
<1>10. m < count /\ r + left >= ByteBits /\ (left % ByteBits = 0 <=> r = 0)
      BY <1>1, <1>8, <1>9, PlacesInBytes
<1>11. r = 0 /\ p = m * ByteBits /\ left >= w
      <2>1. r = 0
            BY <1>1, <1>8, <1>10
      <2>2. m * ByteBits \in Nat
            BY Weights
      <2> QED BY <1>8, <1>9, <1>10, <2>1, <2>2
<1>12. PICK k \in 1 .. Len(payload) : k = Taken + 1 /\ stream[Here] = payload[k]
      BY <1>1, TakesNext
<1>13. position = (k - 1) * ByteBits /\ position \in Int
      <2>1. Taken \in Nat /\ k - 1 = Taken
            BY <1>12, PlaceIs
      <2> QED BY <1>1, <2>1, PlaceIs
<1>14. payload[k] \in Bytes
      BY <1>12, ElementOfSeq DEF WriterInv, Written, FlatIs
<1>15. ASSUME NEW i \in 1 .. ByteBits PROVE BitOf(payload[k], i) = BitOf(v, i)
      <2>1. /\ (k - 1) * ByteBits + i \in 1 .. Len(flat)
            /\ flat[(k - 1) * ByteBits + i] = BitOf(payload[k], i)
            BY <1>12, BitsThere DEF WriterInv
      <2>2. PICK at \in 1 .. Len(flat) : at = position + i /\ flat[at] = BitOf(payload[k], i)
            BY <1>13, <2>1
      <2>3. PICK before \in Nat, all \in Nat : before = m * ByteBits /\ all = count * ByteBits
            <3>1. m * ByteBits \in Nat
                  BY Weights
            <3>2. count * ByteBits \in Nat
                  BY <1>8, Weights
            <3> QED BY <3>1, <3>2
      <2>4. PICK q \in 1 .. Len(code) : q = before + i /\ from + q = at
            <3>1. Len(code) = all
                  BY <1>4, <1>6, <1>8, <2>3, BytesCode DEF CodeAt
            <3>2. i \in Nat /\ i >= 1 /\ i <= w /\ w \in Nat
                  BY <1>8
            <3>3. /\ before \in Nat /\ all \in Nat /\ left \in Nat /\ left >= w /\ from \in Nat
                  /\ before + left = all /\ position = from + before
                  <4>1. p = before /\ before + left = all
                        BY <1>8, <1>9, <1>11, <2>3
                  <4>2. position = from + p
                        <5>1. position \in Int
                              BY PlaceIs
                        <5> QED BY <1>4, <1>5, <5>1
                  <4>3. position = from + before
                        BY <4>1, <4>2
                  <4> QED BY <1>4, <1>8, <1>11, <2>3, <4>1, <4>3
            <3>4. before + i \in 1 .. all /\ from + (before + i) = at
                  <4>1. before + i >= 1 /\ before + i <= all /\ before + i \in Int
                        BY <3>2, <3>3
                  <4>2. from + (before + i) = position + i
                        BY <3>2, <3>3
                  <4> QED BY <2>2, <2>3, <4>1, <4>2
            <3> QED BY <3>1, <3>4
      <2>5. flat[at] = code[q]
            <3>1. at <= Len(flat)
                  BY <2>2, LenProperties DEF WriterInv, Written, FlatIs, Binary
            <3>2. from + q <= Len(flat)
                  BY <2>4, <3>1
            <3> QED BY <1>4, <2>4, <3>2 DEF Lies
      <2>6. code[q] = BitsOf(v, ByteBits)[i]
            <3>1. before + i <= all
                  <4>1. Len(code) = all
                        BY <1>4, <1>6, <1>8, <2>3, BytesCode DEF CodeAt
                  <4> QED BY <2>3, <2>4, <4>1
            <3>2. m * ByteBits + i <= s.count * ByteBits
                  BY <1>8, <2>3, <3>1
            <3>3. code[m * ByteBits + i] = BitsOf(s.value, ByteBits)[i]
                  BY <1>4, <1>6, <3>2, BytesCode DEF CodeAt
            <3> QED BY <1>8, <2>3, <2>4, <3>3
      <2>7. BitsOf(v, ByteBits)[i] = BitOf(v, i)
            <3>1. v \in Nat
                  BY <1>8, BytesAssumption
            <3> QED BY <3>1, BytesBits
      <2> QED BY <2>2, <2>5, <2>6, <2>7
<1>16. stream[Here] = v
      BY <1>8, <1>12, <1>14, <1>15, SameBits
<1>17. PICK l \in Nat, q \in Nat : l = left - ByteBits /\ q = p + ByteBits
      BY <1>6, <1>8, <1>11
<1>18. ByteDone(s.value, l)
      <2>1. 2 ^ ByteBits \in Nat /\ ByteBits - 0 = ByteBits
            BY PowersPositive, BitAssumption, Weights
      <2>2. reading.value = 0
            <3>1. PICK top \in Nat : top = 2 ^ ByteBits
                  BY <2>1
            <3>2. v \in 0 .. top - 1
                  BY <1>8, <3>1, BitAssumption
            <3>3. v \div top = 0
                  BY <3>1, <3>2, NothingAbove
            <3>4. reading.value = v \div 2 ^ (ByteBits - 0)
                  BY <1>9, <1>11
            <3> QED BY <2>1, <3>1, <3>3, <3>4
      <2>3. reading' = [reading EXCEPT !.left = l, !.bytes = Append(@, s.value)]
            BY <1>1, <1>8, <1>16, <1>17
      <2>4. reading' = [reading EXCEPT !.left = l, !.value = 0, !.bytes = Append(@, s.value)]
            BY <1>6, <2>2, <2>3 DEF Readings
      <2> QED BY <2>4 DEF ByteDone
<1>19. q = (m + 1) * ByteBits /\ q + l = s.count * ByteBits
      <2>1. (m + 1) * ByteBits = m * ByteBits + ByteBits
            BY Weights
      <2>2. PICK all \in Nat : all = count * ByteBits /\ p + left = all
            BY <1>8, <1>9, Weights
      <2>3. q + l = all
            BY <1>6, <1>8, <1>17, <2>2
      <2> QED BY <1>8, <1>11, <1>17, <2>1, <2>2, <2>3
<1>20. /\ reading' \in Readings /\ reading'.op = reading.op
       /\ m + 1 \in Nat /\ 0 \in 0 .. ByteBits - 1 /\ BytesRead(s, q, m + 1, 0)'
      <2>1. BytesDone(s.value, m)
            BY <1>8, <1>9
      <2> QED BY <1>6, <1>9, <1>17, <1>18, <1>19, <2>1, ByteComplete
<1>21. HalfRead(s, q)'
      BY <1>6, <1>17, <1>20 DEF HalfRead
<1>22. s = script[Len(said) + 1] /\ q = position' - starts[Len(said) + 1]
      <2>1. q = position' - from
            BY <1>1, <1>4, <1>5, <1>8, <1>13, <1>17
      <2> QED BY <1>3, <1>4, <2>1
<1> QED BY <1>1, <1>20, <1>21, <1>22, ReadsOn

(* A symbol is begun: nothing of it is read.                                 *)
LEMMA BeginSymbolReads ==
    ASSUME WriterInv, ReaderInv, NEW starts, Laid(starts), Reads(starts), BeginSymbol
    PROVE  Reads(starts)'
<1>1. /\ reading = NoSymbol /\ Len(said) < Len(script) /\ said' = said /\ script' = script /\ position' = position
      BY DEF BeginSymbol, records
<1>2. /\ script \in Seq(Symbols) /\ Len(said) \in Nat /\ Len(script) \in Nat
      BY LenProperties DEF Reads, WriterInv, Pending
<1>3. PICK j \in 1 .. Len(script) : j = Len(said) + 1
      BY <1>1, <1>2
<1>4. PICK s \in Symbols, from \in Nat : s = script[j] /\ from = starts[j] /\ Fits(s)
      BY <1>2, CodeThere
<1>5. position' - from = 0
      BY <1>1, <1>3, <1>4 DEF Reads
<1>6. reading' = [op |-> s.op, counting |-> s.op \in {"ue", "se"},
                  left |-> CASE s.op = "bits" -> s.count
                             [] s.op = "bytes" -> s.count * ByteBits
                             [] OTHER -> 0,
                  value |-> IF s.op \in {"ue", "se"} THEN 1 ELSE 0,
                  bytes |-> <<>>]
      BY <1>3, <1>4 DEF BeginSymbol
<1>7. s.op \in Operations /\ s.count \in Nat /\ s.count * ByteBits \in Nat
      <2>1. s.op \in Operations /\ s.count \in Nat
            BY SymbolsAssumption
      <2> QED BY <2>1, Weights
<1>8. /\ reading'.op = s.op /\ reading'.bytes = <<>>
      /\ s.op \in {"ue", "se"} => reading'.counting /\ reading'.value = 1
      /\ s.op \in {"bits", "bytes", "align"} => ~reading'.counting /\ reading'.value = 0
      BY <1>6
<1>9. /\ s.op = "bits" => reading'.left = s.count
      /\ s.op = "bytes" => reading'.left = s.count * ByteBits
      /\ s.op \in {"ue", "se", "align"} => reading'.left = 0
      BY <1>6
<1>10. reading' \in Readings
      <2>1. reading'.left \in Nat
            BY <1>7, <1>9 DEF Operations
      <2>2. PICK left \in Nat : left = reading'.left
            BY <2>1
      <2>3. reading' = [op |-> s.op, counting |-> s.op \in {"ue", "se"}, left |-> left,
                        value |-> IF s.op \in {"ue", "se"} THEN 1 ELSE 0, bytes |-> <<>>]
            BY <1>6, <2>2
      <2>4. <<>> \in Seq(Bytes)
            OBVIOUS
      <2> QED BY <1>7, <2>3, <2>4 DEF Readings
<1>11. ASSUME s.op = "bits" PROVE NumberRead(s.value, s.count, 0)'
      <2>1. s.count \in Nat /\ s.value \in Nat /\ s.count \in 0 .. NumberBits
            BY <1>11, SymbolsAssumption, PowersPositive, BitAssumption
      <2>2. PICK w \in Nat : w = 2 ^ s.count
            BY <2>1, PowersPositive
      <2>3. s.value \in 0 .. w - 1
            BY <1>4, <1>11, <2>1, <2>2 DEF Fits
      <2>4. s.value \div 2 ^ s.count = 0
            BY <2>2, <2>3, NothingAbove
      <2>5. ~reading'.counting /\ reading'.left = s.count /\ reading'.value = 0 /\ 0 + s.count = s.count
            BY <1>8, <1>9, <1>11, <2>1
      <2>6. reading'.value = s.value \div 2 ^ reading'.left
            BY <2>4, <2>5
      <2> QED BY <2>5, <2>6 DEF NumberRead
<1>12. ASSUME NEW v \in 0 .. 2 ^ NumberBits - 2, s.op \in {"ue", "se"} PROVE CodeRead(v, 0)'
      <2>1. LeadingZeros(v) \in Nat
            BY LeadingZerosAre
      <2>2. reading'.counting /\ reading'.left = 0 /\ reading'.value = 1 /\ 0 <= LeadingZeros(v)
            BY <1>8, <1>9, <1>12, <2>1
      <2> QED BY <2>2 DEF CodeRead, LeadingZeros
<1>13. ASSUME s.op = "ue" PROVE CodeRead(s.value, 0)'
      BY <1>12, <1>13, SymbolsAssumption
<1>14. ASSUME s.op = "se" PROVE CodeRead(Folded(s.value), 0)'
      BY <1>12, <1>14, FoldedIs
<1>15. ASSUME s.op = "bytes" PROVE 0 \in 0 .. ByteBits - 1 /\ BytesRead(s, 0, 0, 0)'
      <2>1. s.value \in Bytes /\ ByteBits \in Nat /\ ByteBits > 0 /\ ByteBits - 0 = ByteBits
            BY <1>15, SymbolsAssumption, Weights
      <2>2. PICK top \in Nat : top = 2 ^ ByteBits
            BY PowersPositive, BitAssumption, Weights
      <2>3. s.value \div 2 ^ (ByteBits - 0) = 0
            <3>1. s.value \in 0 .. top - 1
                  BY <2>1, <2>2, BitAssumption
            <3> QED BY <2>1, <2>2, <3>1, NothingAbove
      <2>4. 0 = 0 * ByteBits + 0 /\ 0 + s.count * ByteBits = s.count * ByteBits
            BY <1>7, <2>1
      <2>5. /\ ~reading'.counting /\ reading'.left = s.count * ByteBits /\ reading'.value = 0
            /\ Len(reading'.bytes) = 0
            BY <1>8, <1>9, <1>15
      <2> QED BY <2>1, <2>3, <2>4, <2>5 DEF BytesRead
<1>16. HalfRead(s, 0)'
      <2>1. s.op = "bytes" => \E m \in Nat, r \in 0 .. ByteBits - 1 : BytesRead(s, 0, m, r)'
            BY <1>15
      <2>2. s.op = "align" => ~reading'.counting /\ reading'.left = 0 /\ reading'.value = 0
            BY <1>8, <1>9
      <2> QED BY <1>8, <1>10, <1>11, <1>13, <1>14, <2>1, <2>2 DEF HalfRead
<1>17. PICK p : p = 0
      OBVIOUS
<1>18. s = script[Len(said) + 1] /\ p = position' - starts[Len(said) + 1] /\ HalfRead(s, p)'
      BY <1>3, <1>4, <1>5, <1>16, <1>17
<1> QED BY <1>1, <1>10, <1>18, ReadsOn

LEMMA UnfoldedIs ==
    ASSUME NEW v \in Int
    PROVE  Unfolded(Folded(v)) = v
<1>1. CASE v <= 0
      <2>1. PICK n \in Nat : n = -v
            BY <1>1
      <2>2. Folded(v) = n * 2
            BY <1>1, <2>1 DEF Folded
      <2>3. (n * 2) % 2 = 0 /\ (n * 2) \div 2 = n
            BY <2>1
      <2> QED BY <2>1, <2>2, <2>3 DEF Unfolded
<1>2. CASE v > 0
      <2>1. PICK n \in Nat : n = v - 1
            BY <1>2
      <2>2. Folded(v) = n * 2 + 1
            BY <1>2, <2>1 DEF Folded
      <2>3. (n * 2 + 1) % 2 = 1 /\ (n * 2 + 1) \div 2 = n
            BY <2>1
      <2> QED BY <2>1, <2>2, <2>3 DEF Unfolded
<1> QED BY <1>1, <1>2

\* an align ends where there is no room left in the byte
LEMMA AlignEnds ==
    ASSUME ReaderInv, NEW from \in Nat, position = from
    PROVE  RoomAt(from) = IF rpos = 0 THEN 0 ELSE ByteBits - rpos
<1>1. /\ Taken \in Nat /\ rpos \in 0 .. ByteBits - 1 /\ ByteBits \in Nat /\ ByteBits > 0
      /\ rpos = 0 => position = Taken * ByteBits
      /\ rpos # 0 => position = (Taken - 1) * ByteBits + rpos
      BY PlaceIs, Weights
<1>2. CASE rpos = 0
      <2>1. PICK all \in Nat : all = Taken * ByteBits
            BY <1>1
      <2>2. from = all + 0
            BY <1>1, <1>2, <2>1
      <2>3. from = Taken * ByteBits + 0 /\ 0 \in 0 .. ByteBits - 1
            BY <1>1, <2>1, <2>2
      <2> QED BY <1>1, <1>2, <2>3, RoomIs
<1>3. CASE rpos # 0
      <2>1. Taken # 0
            <3> SUFFICES ASSUME Taken = 0 PROVE FALSE
                OBVIOUS
            <3>1. (0 - 1) * ByteBits = -ByteBits
                  BY <1>1
            <3>2. from = -ByteBits + rpos
                  BY <1>1, <1>3, <3>1
            <3> QED BY <1>1, <3>2
      <2>2. PICK m \in Nat : m = Taken - 1
            BY <1>1, <2>1
      <2>3. from = m * ByteBits + rpos
            BY <1>1, <1>3, <2>2
      <2> QED BY <1>1, <1>3, <2>2, <2>3, RoomIs
<1> QED BY <1>2, <1>3

\* what a symbol that is read to its end returns
Result ==
    CASE reading.op = "ue"    -> reading.value - 1
      [] reading.op = "se"    -> Unfolded(reading.value - 1)
      [] reading.op = "bytes" -> reading.bytes
      [] OTHER                -> reading.value

\* Nothing of an Exp-Golomb code is left.
LEMMA CodeEnds ==
    ASSUME NEW v \in 0 .. 2 ^ NumberBits - 2, NEW p \in Nat, CodeRead(v, p), ~reading.counting, reading.left = 0
    PROVE  v \in Nat /\ reading.value - 1 = v /\ p = Len(ExpGolomb(v))
<1>1. v \in Nat /\ LeadingZeros(v) \in Nat /\ Len(ExpGolomb(v)) = 2 * LeadingZeros(v) + 1
      BY ExpGolombIs, PowersPositive, BitAssumption
<1>2. p + reading.left = 2 * LeadingZeros(v) + 1 /\ reading.value = (v + 1) \div 2 ^ reading.left
      BY DEF CodeRead, NumberRead
<1>3. p = 2 * LeadingZeros(v) + 1
      BY <1>1, <1>2
<1>4. v + 1 \in Nat
      BY <1>1
<1>5. reading.value = v + 1
      <2>1. reading.value = (v + 1) \div 2 ^ 0
            BY <1>2
      <2> QED BY <1>4, <2>1, AllOfIt
<1> QED BY <1>1, <1>3, <1>5

(* A symbol that is read to its end returns what it stands for, and the      *)
(* next one begins there.                                                    *)
LEMMA SymbolEnds ==
    ASSUME NEW s \in Symbols, NEW p, HalfRead(s, p), ~reading.counting, reading.left = 0,
           NEW room, NEW code, code = Code(s, room)
    PROVE  /\ Result = Meaning(s) /\ Result \in Returns
           /\ IF s.op = "align" THEN p = 0 ELSE p = Len(code)
<1>1. reading \in Readings /\ reading.op = s.op /\ p \in Nat
      BY DEF HalfRead
<1>2. CASE s.op = "bits"
      <2>1. s.value \in Nat /\ s.count \in 0 .. NumberBits /\ s.count \in Nat
            BY <1>2, SymbolsAssumption, PowersPositive, BitAssumption
      <2>2. p + reading.left = s.count /\ reading.value = s.value \div 2 ^ reading.left
            BY <1>2 DEF HalfRead, NumberRead
      <2>3. p = s.count /\ reading.value = s.value \div 2 ^ 0
            BY <1>1, <2>1, <2>2
      <2>4. reading.value = s.value
            BY <2>1, <2>3, AllOfIt
      <2>5. Len(code) = s.count
            BY <1>2, <2>1, BitsAre DEF Code
      <2>6. Result = reading.value /\ Meaning(s) = s.value
            BY <1>1, <1>2 DEF Result, Meaning
      <2> QED BY <1>2, <2>1, <2>3, <2>4, <2>5, <2>6 DEF Returns
<1>3. CASE s.op = "ue"
      <2>1. s.value \in 0 .. 2 ^ NumberBits - 2
            BY <1>3, SymbolsAssumption
      <2>2. s.value \in Nat /\ reading.value - 1 = s.value /\ p = Len(ExpGolomb(s.value))
            BY <1>1, <1>3, <2>1, CodeEnds DEF HalfRead
      <2>3. Result = reading.value - 1 /\ Meaning(s) = s.value /\ code = ExpGolomb(s.value)
            BY <1>1, <1>3 DEF Result, Meaning, Code
      <2> QED BY <1>3, <2>2, <2>3 DEF Returns
<1>4. CASE s.op = "se"
      <2>1. Folded(s.value) \in 0 .. 2 ^ NumberBits - 2 /\ s.value \in Int
            BY <1>4, FoldedIs, SymbolsAssumption
      <2>2. reading.value - 1 = Folded(s.value) /\ p = Len(ExpGolomb(Folded(s.value)))
            BY <1>1, <1>4, <2>1, CodeEnds DEF HalfRead
      <2>3. Result = Unfolded(reading.value - 1) /\ Meaning(s) = s.value /\ code = ExpGolomb(Folded(s.value))
            BY <1>1, <1>4 DEF Result, Meaning, Code
      <2>4. Result = s.value
            BY <2>1, <2>2, <2>3, UnfoldedIs
      <2> QED BY <1>4, <2>1, <2>2, <2>3, <2>4 DEF Returns
<1>5. CASE s.op = "bytes"
      <2>1. PICK m \in Nat, r \in 0 .. ByteBits - 1 : BytesRead(s, p, m, r)
            BY <1>5 DEF HalfRead
      <2>2. PICK count \in Nat, v \in Bytes : count = s.count /\ v = s.value
            BY <1>5, SymbolsAssumption
      <2>3. /\ p = m * ByteBits + r /\ p + reading.left = count * ByteBits
            /\ Len(reading.bytes) = m /\ \A i \in 1 .. m : reading.bytes[i] = v
            BY <2>1, <2>2 DEF BytesRead
      <2>4. PICK all \in Nat : all = count * ByteBits
            BY <2>2, Weights
      <2>5. p = all
            BY <1>1, <2>3, <2>4
      <2>6. r = 0
            <3>1. p % ByteBits = r
                  BY <2>3, RestIs
            <3>2. 0 \in 0 .. ByteBits - 1 /\ all = count * ByteBits + 0
                  BY <2>4, Weights
            <3>3. (count * ByteBits + 0) % ByteBits = 0
                  BY <3>2, RestIs
            <3> QED BY <2>5, <3>1, <3>2, <3>3
      <2>7. m = count
            <3>1. ByteBits \in Nat /\ ByteBits > 0 /\ 0 \in 0 .. ByteBits - 1
                  BY Weights
            <3>2. all = m * ByteBits + 0 /\ all = count * ByteBits + 0
                  BY <2>3, <2>4, <2>5, <2>6
            <3>3. all \div ByteBits = m
                  BY <2>4, <3>1, <3>2, QuotientIs
            <3>4. all \div ByteBits = count
                  BY <2>4, <3>1, <3>2, QuotientIs
            <3> QED BY <3>3, <3>4
      <2>8. PICK bytes \in Seq(Bytes) : bytes = reading.bytes
            BY <1>1 DEF Readings
      <2>9. bytes = [i \in 1 .. count |-> v]
            BY <2>3, <2>7, <2>8
      <2>10. Result = bytes /\ Meaning(s) = Copies(v, count)
            BY <1>1, <1>5, <2>2, <2>8 DEF Result, Meaning
      <2>11. Len(code) = all
            BY <1>5, <2>2, <2>4, BytesCode
      <2> QED BY <1>5, <2>5, <2>8, <2>9, <2>10, <2>11 DEF Returns, Copies
<1>6. CASE s.op = "align"
      <2>1. p = 0 /\ reading.value = 0
            BY <1>6 DEF HalfRead
      <2>2. Result = reading.value /\ Meaning(s) = 0
            BY <1>1, <1>6 DEF Result, Meaning
      <2> QED BY <1>6, <2>1, <2>2 DEF Returns
<1> QED BY <1>2, <1>3, <1>4, <1>5, <1>6, SymbolsAssumption DEF Operations

LEMMA EndSymbolReads ==
    ASSUME WriterInv, ReaderInv, NEW starts, Laid(starts), Reads(starts), EndSymbol
    PROVE  Reads(starts)'
<1>1. /\ reading # NoSymbol /\ ~reading.counting /\ reading.left = 0
      /\ said' = Append(said, Result) /\ reading' = NoSymbol /\ script' = script
      /\ reading.op = "align" /\ rpos # 0 => position' = position + ByteBits - rpos
      /\ ~(reading.op = "align" /\ rpos # 0) => position' = position
      BY DEF EndSymbol, Result
<1>2. /\ script \in Seq(Symbols) /\ said \in Seq(Returns) /\ Len(said) \in Nat /\ Len(script) \in Nat
      BY LenProperties DEF Reads, WriterInv, Pending
<1>3. PICK j \in 1 .. Len(script) : j = Len(said) + 1 /\ j \in Nat
      BY <1>1, <1>2 DEF Reads
<1>4. PICK s \in Symbols, code \in Binary, from \in Nat, k \in Nat :
            /\ s = script[j] /\ code = CodeAt(starts, j) /\ from = starts[j]
            /\ k = Len(code) /\ starts[j + 1] = from + k
      BY <1>2, CodeThere
<1>5. PICK p : p = position - from /\ HalfRead(s, p)
      BY <1>1, <1>3, <1>4 DEF Reads
<1>6. /\ Result = Meaning(s) /\ Result \in Returns
      /\ IF s.op = "align" THEN p = 0 ELSE p = k
      BY <1>1, <1>4, <1>5, SymbolEnds DEF CodeAt
<1>7. position \in Int /\ reading.op = s.op
      BY <1>5, PlaceIs DEF HalfRead
<1>8. position' = starts[j + 1]
      <2>1. CASE s.op # "align"
            BY <1>1, <1>4, <1>5, <1>6, <1>7, <2>1
      <2>2. CASE s.op = "align"
            <3>1. position = from
                  BY <1>4, <1>5, <1>6, <1>7, <2>2
            <3>2. RoomAt(from) = IF rpos = 0 THEN 0 ELSE ByteBits - rpos
                  BY <1>4, <3>1, AlignEnds
            <3>3. code = Zeros(RoomAt(from)) /\ RoomAt(from) \in Nat
                  BY <1>4, <2>2, RoomThere DEF CodeAt, Code
            <3>4. k = RoomAt(from)
                  BY <1>4, <3>3, ZerosAre
            <3>5. rpos \in Nat /\ ByteBits \in Nat
                  BY PlaceIs, Weights
            <3> QED BY <1>1, <1>4, <1>7, <2>2, <3>1, <3>2, <3>4, <3>5
      <2> QED BY <2>1, <2>2
<1>9. /\ said' \in Seq(Returns) /\ Len(said') = j /\ said'[j] = Result
      /\ \A i \in 1 .. Len(said) : said'[i] = said[i]
      BY <1>1, <1>2, <1>3, <1>6, AppendProperties
<1>10. \A i \in 1 .. j : said'[i] = Meaning(script'[i])
      <2>1. ASSUME NEW i \in 1 .. j PROVE said'[i] = Meaning(script[i])
            <3>1. CASE i = j
                  BY <1>4, <1>6, <1>9, <3>1
            <3>2. CASE i # j
                  <4>1. i \in 1 .. Len(said)
                        BY <1>2, <1>3, <3>2
                  <4> QED BY <1>9, <4>1 DEF Reads
            <3> QED BY <3>1, <3>2
      <2> QED BY <1>1, <2>1
<1>11. Len(said') <= Len(script')
      BY <1>1, <1>2, <1>3, <1>9
<1>12. position' = starts[Len(said') + 1]
      BY <1>8, <1>9
<1> QED BY <1>1, <1>9, <1>10, <1>11, <1>12 DEF Reads, Meaning
-----------------------------------------------------------------------------
(* From one symbol to the next.                                              *)

\* what is known of the symbols that begin at starts
Scripted(starts) == Laid(starts) /\ Left(starts) /\ (phase = "read" => Reads(starts))

SymbolsInv ==
    /\ ~nal => said = <<>>
    /\ nal => ~stale /\ \E starts \in Seq(Nat) : Scripted(starts)

LEMMA LeftStays ==
    ASSUME NEW starts, Left(starts), UNCHANGED <<script, flat, todo>>
    PROVE  Left(starts)'
  BY DEF Left, BitsLeft, BytesLeft, CodeAt, Code

LEMMA SymbolsInvInit ==
    ASSUME BitInit
    PROVE  SymbolsInv
<1>1. /\ script = <<>> /\ flat = <<>> /\ todo = <<>> /\ said = <<>> /\ stale = FALSE /\ phase = "write"
      BY DEF BitInit
<1>2. PICK starts : starts = <<0>>
      OBVIOUS
<1>3. starts \in Seq(Nat) /\ Len(starts) = 1 /\ starts[1] = 0 /\ Len(script) = 0 /\ Len(flat) = 0
      BY <1>1, <1>2
<1>4. Laid(starts)
      BY <1>3 DEF Laid
<1>5. Left(starts)
      BY <1>1, <1>3 DEF Left
<1> QED BY <1>1, <1>3, <1>4, <1>5 DEF SymbolsInv, Scripted

(* A piece more is in the stream.                                            *)
LEMMA PieceScripted ==
    ASSUME WriterInv, SymbolsInv, WriteBit \/ WriteByte
    PROVE  SymbolsInv'
<1>1. /\ todo # <<>> /\ todo' = Tail(todo) /\ flat' = flat \o Head(todo)
      /\ UNCHANGED <<nal, phase, script, said, stale>>
      <2>1. CASE WriteBit
            <3>1. /\ todo # <<>> /\ todo' = Tail(todo) /\ flat' = Append(flat, Head(todo)[1])
                  /\ Len(Head(todo)) = 1 /\ UNCHANGED <<nal, phase, script, said, stale>>
                  BY <2>1 DEF WriteBit, Put, epvars
            <3>2. Head(todo) \in Seq({0, 1}) /\ flat \in Seq({0, 1})
                  BY <3>1 DEF WriterInv, Pending, Written, FlatIs, Binary
            <3>3. PICK piece \in Seq({0, 1}) : piece = Head(todo)
                  BY <3>2
            <3>4. piece = <<piece[1]>>
                  BY <3>1, <3>3
            <3>5. flat \o <<piece[1]>> = Append(flat, piece[1])
                  BY <3>1, <3>2, <3>3
            <3>6. flat \o Head(todo) = Append(flat, Head(todo)[1])
                  BY <3>3, <3>4, <3>5
            <3> QED BY <3>1, <3>6
      <2>2. CASE WriteByte
            BY <2>2 DEF WriteByte, Put
      <2> QED BY <2>1, <2>2
<1>2. phase = "write" /\ script \in Seq(Symbols) /\ flat \in Binary /\ todo \in Seq(Binary)
      BY <1>1 DEF WriterInv, Stages, Pending, Written, FlatIs
<1>3. CASE ~nal
      BY <1>1, <1>3 DEF SymbolsInv
<1>4. CASE nal
      <2>1. PICK starts \in Seq(Nat) : Scripted(starts)
            BY <1>4 DEF SymbolsInv
      <2>2. Laid(starts)' /\ Left(starts)'
            BY <1>1, <1>2, <2>1, PieceLaid DEF Scripted
      <2>3. Scripted(starts)'
            BY <1>1, <1>2, <2>2 DEF Scripted
      <2> QED BY <1>1, <1>4, <2>3 DEF SymbolsInv
<1> QED BY <1>3, <1>4

LEMMA FinishScripted ==
    ASSUME WriterInv, SymbolsInv, Finish
    PROVE  SymbolsInv'
<1>1. /\ phase = "write" /\ phase' = "read" /\ UNCHANGED <<nal, todo, flat, said, stale, reading, position>>
      /\ script' = IF nal THEN script ELSE <<>>
      BY DEF Finish, epvars, writer, reader
<1>2. CASE ~nal
      BY <1>1, <1>2 DEF SymbolsInv
<1>3. CASE nal
      <2>1. PICK starts \in Seq(Nat) : Scripted(starts)
            BY <1>3 DEF SymbolsInv
      <2>2. Laid(starts)' /\ Left(starts)'
            BY <1>1, <1>3, <2>1, LaidStays, LeftStays DEF Scripted
      <2>3. said = <<>> /\ reading = NoSymbol /\ position = 0 /\ script \in Seq(Symbols)
            BY <1>1 DEF WriterInv, Stages, Pending
      <2>4. starts[1] = 0
            BY <2>1 DEF Scripted, Laid
      <2>5. said' = <<>> /\ reading' = NoSymbol /\ position' = 0 /\ script' = script
            BY <1>1, <1>3, <2>3
      <2>6. said' \in Seq(Returns) /\ Len(said') = 0 /\ Len(script') \in Nat
            BY <2>3, <2>5
      <2>7. Reads(starts)'
            BY <2>4, <2>5, <2>6 DEF Reads
      <2> QED BY <1>1, <1>3, <2>2, <2>7 DEF SymbolsInv, Scripted
<1> QED BY <1>2, <1>3

(* A step of the reader in a stream of symbols.                              *)
LEMMA ReaderScripted ==
    ASSUME WriterInv, ReaderInv, HeldInv, SymbolsInv,
           \/ BeginSymbol \/ ReadSymbolByte \/ EndSymbol
           \/ \E bit \in {0, 1} : ReadSymbolBit(bit)
    PROVE  SymbolsInv'
<1>1. /\ nal /\ phase = "read" /\ UNCHANGED <<nal, phase, todo, flat, script>>
      /\ stale' => stale
      <2>1. CASE BeginSymbol
            BY <2>1 DEF BeginSymbol, epvars, writer, records
      <2>2. CASE ReadSymbolByte
            BY <2>2 DEF ReadSymbolByte, Take, writer, WriterInv, Stages
      <2>3. CASE EndSymbol
            BY <2>3 DEF EndSymbol, epvars, writer, WriterInv, Stages
      <2>4. CASE \E bit \in {0, 1} : ReadSymbolBit(bit)
            BY <2>4 DEF ReadSymbolBit, ReadBit, Take, epvars, writer, WriterInv, Stages
      <2> QED BY <2>1, <2>2, <2>3, <2>4
<1>2. PICK starts \in Seq(Nat) : Scripted(starts) /\ ~stale
      BY <1>1 DEF SymbolsInv
<1>3. Laid(starts) /\ Left(starts) /\ Reads(starts) /\ Holds
      BY <1>1, <1>2 DEF Scripted, HeldInv
<1>4. Laid(starts)' /\ Left(starts)'
      BY <1>1, <1>3, LaidStays, LeftStays
<1>5. Reads(starts)'
      BY <1>2, <1>3, BeginSymbolReads, ReadSymbolByteReads, EndSymbolReads, ReadSymbolBitReads
<1> QED BY <1>1, <1>2, <1>4, <1>5 DEF SymbolsInv, Scripted

LEMMA SymbolsKeep ==
    ASSUME WriterInv, ReaderInv, HeldInv, SymbolsInv, [BitNext]_bitVars
    PROVE  SymbolsInv'
<1>1. ASSUME NEW s \in Symbols, WriteSymbol(s) PROVE SymbolsInv'
      <2>1. phase = "write" /\ UNCHANGED <<nal, phase, said, stale>>
            BY <1>1 DEF WriteSymbol, epvars
      <2>2. CASE ~nal
            BY <2>1, <2>2 DEF SymbolsInv
      <2>3. CASE nal
            <3>1. PICK starts \in Seq(Nat) : Laid(starts) /\ Left(starts) /\ ~stale
                  BY <2>3 DEF SymbolsInv, Scripted
            <3>2. PICK next \in Seq(Nat) : Laid(next)' /\ Left(next)'
                  BY <1>1, <3>1, SymbolLaid
            <3>3. Scripted(next)'
                  BY <2>1, <3>2 DEF Scripted
            <3> QED BY <2>1, <3>1, <3>2, <3>3 DEF SymbolsInv
      <2> QED BY <2>2, <2>3
<1>2. ASSUME ~nal, UNCHANGED <<nal, said>> PROVE SymbolsInv'
      BY <1>2 DEF SymbolsInv
<1>3. CASE \E bit \in {0, 1} : ReadFreeBit(bit)
      BY <1>2, <1>3 DEF ReadFreeBit, Free, ReadBit, Take, epvars
<1>4. CASE ReadNoBit
      BY <1>2, <1>4 DEF ReadNoBit, Free
<1>5. CASE ReadFreeByte
      BY <1>2, <1>5 DEF ReadFreeByte, Free, Take, epvars
<1>6. CASE \E count \in Moves : SeekBits(count) \/ Seek(count)
      BY <1>2, <1>6 DEF SeekBits, Seek, SeekTo, Free
<1>7. CASE UNCHANGED bitVars
      <2>1. UNCHANGED <<nal, phase, todo, flat, script, said, position, reading, stale>>
            BY <1>7 DEF bitVars, epvars, writer, reader, records
      <2>2. CASE ~nal
            BY <1>2, <2>1, <2>2
      <2>3. CASE nal
            <3>1. PICK starts \in Seq(Nat) : Scripted(starts) /\ ~stale
                  BY <2>3 DEF SymbolsInv
            <3>2. Laid(starts)' /\ Left(starts)'
                  BY <2>1, <3>1, LaidStays, LeftStays DEF Scripted
            <3>3. phase = "read" => Reads(starts)'
                  BY <2>1, <3>1 DEF Scripted, Reads, Meaning, HalfRead, CodeRead, NumberRead, BytesRead
            <3> QED BY <2>1, <2>3, <3>1, <3>2, <3>3 DEF SymbolsInv, Scripted
      <2> QED BY <2>2, <2>3
<1> QED BY <1>1, <1>3, <1>4, <1>5, <1>6, <1>7, PieceScripted, FinishScripted, ReaderScripted DEF BitNext

(* A code is as long as size_of_exp_golomb says.                             *)
LEMMA SizesAre ==
    ASSUME NEW s \in Symbols
    PROVE  /\ s.op = "ue" => Len(Pieces(s)) = SizeOf(s.value)
           /\ s.op = "se" => Len(Pieces(s)) = SizeOf(Folded(s.value))
<1>1. ASSUME NEW v \in 0 .. 2 ^ NumberBits - 2 PROVE Len(Single(ExpGolomb(v))) = SizeOf(v)
      BY ExpGolombIs, SinglesAre DEF SizeOf
<1>2. CASE s.op = "ue"
      BY <1>1, <1>2, SymbolsAssumption DEF Pieces
<1>3. CASE s.op = "se"
      BY <1>1, <1>3, FoldedIs DEF Pieces
<1> QED BY <1>2, <1>3

(* What a reader returns of a stream of symbols, one call after the other,   *)
(* are the symbols the writer was given: numbers, Exp-Golomb codes of either *)
(* sign, bytes across byte boundaries, whatever was aligned between them.    *)
THEOREM ReaderReturnsTheSymbols == BitSpec => []SymbolsReturn
<1>1. BitInit => SymbolsInv
      BY SymbolsInvInit
<1>2. WriterInv /\ ReaderInv /\ HeldInv /\ SymbolsInv /\ [BitNext]_bitVars => SymbolsInv'
      BY SymbolsKeep
<1>3. WriterInv /\ SymbolsInv => SymbolsReturn
      <2> SUFFICES ASSUME WriterInv, SymbolsInv PROVE SymbolsReturn
          OBVIOUS
      <2>1. \A i \in DOMAIN script : script[i] \in Symbols
            <3>1. script \in Seq(Symbols)
                  BY DEF WriterInv, Pending
            <3> QED BY <3>1, ElementOfSeq
      <2>2. \A i \in DOMAIN said : said[i] = Meaning(script[i])
            <3>1. CASE said = <<>>
                  BY <3>1
            <3>2. CASE said # <<>>
                  <4>1. nal /\ phase = "read"
                        BY <3>2 DEF SymbolsInv, WriterInv, Stages
                  <4>2. PICK starts \in Seq(Nat) : Scripted(starts)
                        BY <4>1 DEF SymbolsInv
                  <4>3. Reads(starts)
                        BY <4>1, <4>2 DEF Scripted
                  <4>4. said \in Seq(Returns)
                        BY <4>3 DEF Reads
                  <4>5. DOMAIN said = 1 .. Len(said)
                        BY <4>4, LenProperties
                  <4> QED BY <4>3, <4>5 DEF Reads
            <3> QED BY <3>1, <3>2
      <2> QED BY <2>1, <2>2, SizesAre DEF SymbolsReturn
<1> QED BY <1>1, <1>2, <1>3, WriterInvariant, ReaderInvariant, HeldInvariant, PTL DEF BitSpec
=============================================================================
