-------------------------------- MODULE Traf --------------------------------
(***************************************************************************)
(* crates/mp4, the boxes of a movie fragment, boxes/types/{tfhd, tfdt,     *)
(* trun, traf, mfhd}.rs: what a track fragment says of its samples, and    *)
(* Traf::optimize, which says the same with fewer words.                   *)
(*                                                                         *)
(* A box is a record of its fields, None where one is absent, with the set *)
(* "has" of the fields that the flags of its header announce: what is      *)
(* written goes by the fields, what is read and the size of a trun by the  *)
(* flags.                                                                  *)
(***************************************************************************)
EXTENDS Integers, Sequences, FiniteSets

CONSTANT None

SampleFields == {"duration", "size", "flags", "cto"}
DefaultFields == {"duration", "size", "flags"}

\* the fields of r among fields that are there
Present(r, fields) == {f \in fields : r[f] # None}

\* Tfhd::new
Tfhd(desc, duration, size, flags) ==
    LET r == [desc |-> desc, duration |-> duration, size |-> size, flags |-> flags]
    IN  [has |-> Present(r, DefaultFields \union {"desc"}), desc |-> desc,
         duration |-> duration, size |-> size, flags |-> flags]

\* Trun::new; there is always room for the offset
Trun(samples, first) ==
    [has |-> {"offset"} \union (IF samples = <<>> THEN {} ELSE Present(samples[1], SampleFields)),
     version |-> IF \E i \in DOMAIN samples : samples[i].cto # None /\ samples[i].cto < 0
                 THEN 1 ELSE 0,
     offset |-> 0, first |-> first, samples |-> samples]

\* Traf::new, with a trun and a tfdt
Traf(tfhd, trun, time) == [tfhd |-> tfhd, trun |-> trun, tfdt |-> time]
-----------------------------------------------------------------------------
(* optimize *)

\* have the samples after sample i the same f as that?
Alike(s, f, i) == \A j \in DOMAIN s : j > i => s[j][f] = s[i][f]

Without(s, f) == [i \in DOMAIN s |-> [s[i] EXCEPT ![f] = None]]

\* the flags of a first sample that is not like the others
FirstFlags(trun) ==
    IF trun.samples[1].flags # trun.samples[2].flags THEN trun.samples[1].flags ELSE trun.first

OptimizeFlags(traf) ==
    LET s == traf.trun.samples
    IN  IF traf.tfhd.flags = None /\ Len(s) > 1 /\ Alike(s, "flags", 2)
        THEN [traf EXCEPT !.tfhd.flags = s[2].flags,
                          !.trun.first = FirstFlags(traf.trun),
                          !.trun.samples = Without(s, "flags")]
        ELSE traf

OptimizeCto(traf) ==
    LET s == traf.trun.samples
    IN  IF \A i \in DOMAIN s : s[i].cto = 0
        THEN [traf EXCEPT !.trun.samples = Without(s, "cto")]
        ELSE traf

\* for the duration and the size
OptimizeField(traf, f) ==
    LET s == traf.trun.samples
    IN  IF traf.tfhd[f] = None /\ Alike(s, f, 1)
        THEN [traf EXCEPT !.tfhd = [@ EXCEPT ![f] = s[1][f]],
                          !.trun.samples = Without(s, f)]
        ELSE traf

TrunFlags(trun) ==
    Present(trun, {"offset", "first"}) \union Present(trun.samples[1], SampleFields)

\* the sample description index is not among them
TfhdFlags(tfhd) == Present(tfhd, DefaultFields)

Recount(traf) == [traf EXCEPT !.trun.has = TrunFlags(traf.trun), !.tfhd.has = TfhdFlags(traf.tfhd)]

Optimize(traf) ==
    IF traf.trun.samples = <<>>
    THEN traf
    ELSE Recount(OptimizeField(OptimizeField(OptimizeCto(OptimizeFlags(traf)), "duration"), "size"))
-----------------------------------------------------------------------------
(* writing and reading *)

\* what the two mux refuse to write
ValidTrun(trun) ==
    /\ "cto" \notin trun.has => trun.version = 0
    /\ \A f \in {"offset", "first"} : f \in trun.has <=> trun[f] # None
    /\ \A f \in SampleFields, i \in DOMAIN trun.samples :
        f \in trun.has <=> trun.samples[i][f] # None

ValidTfhd(tfhd) ==
    \A f \in DefaultFields \union {"desc"} : f \in tfhd.has <=> tfhd[f] # None

Valid(traf) == ValidTfhd(traf.tfhd) /\ ValidTrun(traf.trun)

\* sizes count words: a header has two, with version and flags three
TrunSize(trun) ==
    4 + Cardinality(trun.has \intersect {"offset", "first"})
      + Len(trun.samples) * Cardinality(trun.has \intersect SampleFields)
TfhdSize(tfhd) == 4 + Cardinality(Present(tfhd, DefaultFields \union {"desc"}))

\* what is written of a trun goes by its fields
TrunWritten(trun) ==
    4 + Cardinality(Present(trun, {"offset", "first"}))
      + Cardinality({c \in (DOMAIN trun.samples) \X SampleFields : trun.samples[c[1]][c[2]] # None})

\* of a moof with one traf, with its mfhd and a tfdt of either version
MoofSize(traf, wide) ==
    2 + 4 + 2 + TfhdSize(traf.tfhd) + TrunSize(traf.trun) + (IF wide THEN 5 ELSE 4)

\* what a player takes of sample i (ISO/IEC 14496-12, 8.8.7 and 8.8.8)
Effective(traf, i, f) ==
    IF f \in traf.trun.has
    THEN traf.trun.samples[i][f]
    ELSE IF f = "cto"
    THEN 0
    ELSE IF f = "flags" /\ i = 1 /\ "first" \in traf.trun.has
    THEN traf.trun.first
    ELSE traf.tfhd[f]
=============================================================================
