---------------------------- MODULE TrackedDecode ----------------------------
(***************************************************************************)
(* crates/tinc: a JSON document is decoded into a message.  Trackers       *)
(* remember which parts were given, so that a part given twice or not at   *)
(* all is noticed.  What is wrong with the document is collected, with its *)
(* path, and decoding goes on, unless the state says fail_fast or the      *)
(* document cannot be read further.  validate_http accepts the message     *)
(* when nothing was collected and nothing required is missing.             *)
(*                                                                         *)
(* The document is any: its next token is chosen when it is read.  Tokens  *)
(* are "{", "}", "[", "]", names of members, "good" and "bad" scalars, an  *)
(* "other" array or object as a whole, and "junk", which is no JSON.       *)
(* Left out are null, the enums that serde reads as a tag only, flattened  *)
(* messages, well-known types and the expressions of validate.             *)
(***************************************************************************)
EXTENDS Naturals, FiniteSets, SequencesExt

CONSTANTS
    Schemas,   \* types of messages: each a function from names of types
    MapKeys,   \* keys of maps
    Stranger,  \* a name that no message has, and no variant
    Contents,  \* values that come before their tag: a scalar or an object of them
    MaxTokens  \* bound on the tokens read before documents end

Scalars == {"good", "bad"}

\* names and scalars in turn, and the end of the object
Fits(left, token) == IF left = 0 THEN token = "}"
                     ELSE IF left % 2 = 1 THEN token \in Scalars ELSE token \notin Scalars \union {"}"}

IsMembers(tokens) == \A k \in DOMAIN tokens : Fits(Len(tokens) - k, tokens[k])

\* a message has fields, a tagged oneof variants, which are no collections
IsSchema(types) ==
    /\ "root" \in DOMAIN types
    /\ \A t \in DOMAIN types :
          LET kind == types[t].kind IN
          /\ kind \in {"value", "message", "map", "list", "tagged"}
          /\ kind \in {"map", "list"} => types[t].of \in DOMAIN types
          /\ kind \in {"message", "tagged"} =>
                /\ {Stranger, "}"} \cap DOMAIN types[t].fields = {}
                /\ \A f \in DOMAIN types[t].fields : types[t].fields[f] \in DOMAIN types
          /\ kind = "tagged" =>
                \A f \in DOMAIN types[t].fields : types[types[t].fields[f]].kind \in {"value", "message"}

ASSUME DecodeAssumption ==
    /\ \A types \in Schemas : IsSchema(types)
    /\ Stranger # "}"
    /\ Contents \subseteq Seq(UNION {Range(content) : content \in Contents})
    /\ \A content \in Contents :
          \/ \E scalar \in Scalars : content = <<scalar>>
          \/ /\ content # <<>> /\ Head(content) = "{" /\ Len(content) % 2 = 0
             /\ IsMembers(Tail(content))

VARIABLES
    schema, fail_fast,
    pc, want, where,  \* what is decoded next, of which type, into which place
    frames,        \* the visitors that are active
    path,          \* SERDE_PATH_BUFFER
    seen,          \* the trackers: a type for each place given so far
    target,        \* the scalars of the message
    oneofs,        \* tag_buffer, TAG_INVALID and content_buffer of tagged oneofs
    errors, irrecoverable, unwinding,
    \* the parser
    feed,   \* a buffered value that is being read instead of the document
    broken, \* can the document not be read further?
    \* history
    read,   \* number of tokens
    open,   \* where in the document the last token was
    keys,   \* members that came
    given,  \* scalars that came
    wrong   \* number of things unlike what is wanted, or given twice

state  == <<errors, irrecoverable, unwinding>>
parser == <<feed, broken, read, open, keys, given, wrong>>
decodeVars == <<schema, fail_fast, pc, want, where, frames, path, seen, target, oneofs,
            state, parser>>

Put(map, key, value) == [k \in DOMAIN map \union {key} |-> IF k = key THEN value ELSE map[k]]

Top     == Last(frames)
Kind(t) == schema[t].kind
Place   == Top.place
Within(key) == Append(Top.place, key)

Untagged == [tag |-> Stranger, invalid |-> FALSE, contents |-> <<>>]
OneOf == IF Place \in DOMAIN oneofs THEN oneofs[Place] ELSE Untagged

DecodeInit ==
    /\ schema \in Schemas /\ fail_fast \in BOOLEAN
    /\ pc = "value" /\ want = "root" /\ where = <<>>
    /\ frames = <<>> /\ path = <<>>
    /\ seen = [place \in {<<>>} |-> "root"] /\ target = <<>> /\ oneofs = <<>>
    /\ errors = <<>> /\ irrecoverable = FALSE /\ unwinding = FALSE
    /\ feed = <<>> /\ broken = FALSE
    /\ read = 0 /\ open = <<>> /\ keys = {} /\ given = {} /\ wrong = 0
-----------------------------------------------------------------------------
(* the parser *)

\* what the next token is called when it is a scalar
Id == IF feed # <<>> THEN Head(feed).id ELSE <<read + 1, 0>>

\* the next token is read.  A buffered value is dropped when it is an object
\* and a scalar is wanted
Read(token) ==
    IF feed = <<>> THEN read' = read + 1 /\ UNCHANGED feed
    ELSE /\ token = Head(feed).token
         /\ feed' = IF pc = "value" /\ token = "{" /\ Kind(want) = "value" THEN <<>> ELSE Tail(feed)
         /\ UNCHANGED read

At(key) == [open EXCEPT ![Len(open)] = key]
-----------------------------------------------------------------------------
(* reporting *)

Refuses == irrecoverable \/ unwinding

\* do report_de_error and report_tracked_error return an error?
Fatal(fatal) == Refuses \/ (fail_fast /\ fatal)

\* slip: an error is collected again by everybody it passes
Report_Again(fatal, at) ==
    /\ errors' = Append(errors, [path |-> at, pos |-> open', fatal |-> fatal])
    /\ unwinding' = Fatal(fatal)

Report(fatal, at) ==
    /\ errors' = IF Refuses THEN errors
                 ELSE Append(errors, [path |-> at, pos |-> open', fatal |-> fatal])
    /\ unwinding' = Fatal(fatal)

\* a visitor ends; its wrapper reads what is left of its map or list
Leave(result) ==
    /\ frames' = Front(frames) /\ open' = Front(open)
    /\ pc' = result

\* the token of the member is dropped
Pop == path' = Front(path)

\* set_irrecoverable, and the visitor ends
GiveUp ==
    /\ irrecoverable' = TRUE
    /\ Leave("err")
    /\ UNCHANGED <<errors, unwinding>>
-----------------------------------------------------------------------------
(* values *)

Container(token, kind) ==
    \/ token = "{" /\ kind \in {"message", "map", "tagged"}
    \/ token = "[" /\ kind = "list"

\* the deserializers of values, structs, maps and lists begin.  The parser
\* reads past a scalar of the wrong type, and a struct's visitor past an
\* array; in front of any other array or object, it stays
DecodeValue(token) ==
    /\ pc = "value"
    /\ Read(token)
    /\ \/ /\ Container(token, Kind(want))
          /\ frames' = Append(frames, [type |-> want, place |-> where, index |-> 0,
                                       replays |-> FALSE])
          /\ open' = Append(open, Stranger)
          /\ pc' = "next"
          /\ UNCHANGED <<target, broken, given, wrong>>
       \/ /\ token \in Scalars
          /\ IF token = "good" /\ Kind(want) = "value"
             THEN target' = Put(target, where, Id) /\ pc' = "ok" /\ UNCHANGED wrong
             ELSE pc' = "err" /\ wrong' = wrong + 1 /\ UNCHANGED target
          /\ given' = IF token = "good" THEN given \union {<<open, Id>>} ELSE given
          /\ UNCHANGED <<broken, frames, open>>
       \/ /\ token = "other" \/ (feed # <<>> /\ ~Container(token, Kind(want)) /\ token \notin Scalars)
          /\ pc' = "err" /\ wrong' = wrong + 1
          /\ broken' \in IF feed # <<>> THEN {FALSE}
                         ELSE IF Kind(want) \in {"message", "tagged"} THEN BOOLEAN ELSE {TRUE}
          /\ UNCHANGED <<target, frames, open, given>>
       \/ /\ token = "junk"
          /\ pc' = "err" /\ broken' = TRUE /\ wrong' = wrong + 1
          /\ UNCHANGED <<target, frames, open, given>>
    /\ UNCHANGED <<schema, fail_fast, want, where, path, seen, oneofs, state, keys>>

\* a value is read as IgnoredAny
Skip ==
    /\ pc = "skip"
    /\ IF feed = <<>> THEN read' = read + 1 /\ UNCHANGED feed ELSE feed' = Tail(feed) /\ UNCHANGED read
    /\ Pop
    /\ \/ pc' = "next" /\ UNCHANGED <<frames, open, state, broken, wrong>>
       \/ feed = <<>> /\ GiveUp /\ broken' = TRUE /\ wrong' = wrong + 1
    /\ UNCHANGED <<schema, fail_fast, want, where, seen, target, oneofs, keys, given>>
-----------------------------------------------------------------------------
(* members *)

\* allow_duplicates of the tracker at a place, if it is there
AllowDuplicates(place) ==
    LET allows(p) == p \in DOMAIN seen => Kind(seen[p]) \in {"message", "map"}
        content   == Append(place, "content")
    IN IF place \in DOMAIN seen /\ Kind(seen[place]) = "tagged"
       THEN allows(content)
       ELSE allows(place)

\* tracker.get_or_insert_default, and the value is decoded
Decode(type, place) ==
    /\ seen' = Put(seen, place, type)
    /\ want' = type /\ where' = place
    /\ pc' = "value"
    /\ UNCHANGED <<frames, errors, unwinding, wrong>>

\* report_tracked_error; if it does not end the visitor, the value is skipped
Refuse(fatal) ==
    /\ Report(fatal, path')
    /\ wrong' = wrong + 1
    /\ pc' = IF Fatal(fatal) THEN "leave" ELSE "skip"
    /\ UNCHANGED <<seen, want, where, frames>>

Names(type) == IF Kind(type) = "map" THEN MapKeys
               ELSE (IF Kind(type) = "tagged" THEN {"tag", "content"} ELSE DOMAIN schema[type].fields)
                        \union {Stranger}

TypeOf(key) == IF Kind(Top.type) = "map" THEN schema[Top.type].of ELSE schema[Top.type].fields[key]

\* a member of a message or a map, in visit_map and in the generated deserialize
Member(key) ==
    /\ Kind(Top.type) \in {"message", "map"}
    /\ \/ key = Stranger /\ Refuse(FALSE)
       \/ /\ key # Stranger /\ AllowDuplicates(Within(key))
          /\ Decode(TypeOf(key), Within(key))
       \/ /\ key # Stranger /\ ~AllowDuplicates(Within(key))
          /\ Refuse(TRUE)
    /\ UNCHANGED target

\* the oneof's generated deserialize: the variant is chosen, and decoded
Variant(tag) ==
    /\ AllowDuplicates(Place)
    /\ Decode(schema[Top.type].fields[tag], Within("content"))
    /\ target' = Put(target, Within("tag"), tag)

\* a member of a tagged oneof
TaggedMember(key) ==
    /\ Kind(Top.type) = "tagged"
    /\ \/ key = Stranger /\ Refuse(FALSE) /\ UNCHANGED target
       \/ /\ key # Stranger
          /\ \/ key = "tag" /\ pc' = "tag"
             \/ key = "content" /\ OneOf.invalid /\ pc' = "skip"
             \/ key = "content" /\ ~OneOf.invalid /\ OneOf.tag = Stranger /\ pc' = "hold"
          /\ UNCHANGED <<seen, want, where, frames, target, errors, unwinding, wrong>>
       \/ /\ key = "content" /\ ~OneOf.invalid /\ OneOf.tag # Stranger
          /\ \/ Variant(OneOf.tag)
             \/ ~AllowDuplicates(Place) /\ Refuse(TRUE) /\ UNCHANGED target

\* next_key_seed
NextKey(key) ==
    /\ pc = "next" /\ Kind(Top.type) # "list" /\ ~broken
    /\ Read(key)
    /\ feed # <<>> \/ read < MaxTokens
    /\ key \in Names(Top.type)
    /\ path' = Append(path, key) /\ open' = At(key)
    /\ keys' = keys \union {At(key)}
    /\ Member(key) \/ TaggedMember(key)
    /\ UNCHANGED <<schema, fail_fast, oneofs, irrecoverable, broken, given>>

\* an error of a member ends the visitor
LeaveMember ==
    /\ pc = "leave"
    /\ Leave("err") /\ Pop
    /\ UNCHANGED <<schema, fail_fast, want, where, seen, target, oneofs, state,
                   feed, broken, read, keys, given, wrong>>

\* no more keys, or none that can be read
EndKeys ==
    /\ pc = "next" /\ Kind(Top.type) # "list"
    /\ \/ /\ ~broken /\ Read("}")
          /\ Leave("ok")
          /\ UNCHANGED <<state, broken, wrong>>
       \/ /\ feed = <<>>
          /\ GiveUp
          /\ broken' = TRUE /\ wrong' = wrong + 1
          /\ UNCHANGED <<read, feed>>
    /\ UNCHANGED <<schema, fail_fast, want, where, path, seen, target, oneofs, keys, given>>

\* next_element_seed of a list: an element, none, or none that can be read
NextElement ==
    /\ pc = "next" /\ Kind(Top.type) = "list"
    /\ \/ /\ ~broken /\ read < MaxTokens
          /\ path' = Append(path, Top.index) /\ open' = At(Top.index)
          /\ Decode(schema[Top.type].of, Within(Top.index))
          /\ UNCHANGED <<broken, read>>
       \/ /\ ~broken /\ read' = read + 1
          /\ Leave("ok")
          /\ UNCHANGED <<path, seen, want, where, errors, unwinding, broken, wrong>>
       \/ /\ path' = Append(path, Top.index) /\ open' = At(Top.index)
          /\ pc' = "err" /\ broken' = TRUE /\ wrong' = wrong + 1
          /\ UNCHANGED <<frames, seen, want, where, errors, unwinding, read>>
    /\ UNCHANGED <<schema, fail_fast, target, oneofs, irrecoverable, feed, keys, given>>
-----------------------------------------------------------------------------
(* tags and contents, in whatever order *)

SetOneOf(o) == oneofs' = Put(oneofs, Place, o)

\* the tag is read; the one that was first counts
Tag(tag) ==
    /\ pc = "tag"
    /\ read' = read + 1 /\ UNCHANGED <<feed, open>>
    /\ \/ /\ tag \in DOMAIN schema[Top.type].fields /\ ~OneOf.invalid
          /\ IF OneOf.tag \in {Stranger, tag}
             THEN pc' = "replay" /\ UNCHANGED <<errors, unwinding, wrong>>
             ELSE /\ Report(TRUE, path)
                  /\ pc' = IF Fatal(TRUE) THEN "leave" ELSE "replay"
                  /\ wrong' = wrong + 1
          /\ SetOneOf([OneOf EXCEPT !.tag = IF @ = Stranger THEN tag ELSE @])
          /\ given' = given \union {<<open, tag>>}
          /\ UNCHANGED broken
       \/ /\ tag \in DOMAIN schema[Top.type].fields /\ OneOf.invalid
          /\ pc' = "replayed"
          /\ UNCHANGED <<errors, unwinding, wrong, oneofs, given, broken>>
       \/ /\ tag = Stranger
          /\ SetOneOf([OneOf EXCEPT !.invalid = TRUE])
          /\ Report(TRUE, path)
          /\ pc' = IF Fatal(TRUE) THEN "leave" ELSE "replayed"
          /\ wrong' = wrong + 1
          /\ UNCHANGED <<given, broken>>
       \/ /\ tag \in {"bad", "other", "junk"}
          /\ pc' = "leave" /\ wrong' = wrong + 1
          /\ broken' \in IF tag = "bad" THEN BOOLEAN ELSE {TRUE}
          /\ UNCHANGED <<errors, unwinding, oneofs, given>>
    /\ UNCHANGED <<schema, fail_fast, want, where, frames, path, seen, target, irrecoverable,
                   keys>>

\* a content before its tag is buffered
Hold ==
    /\ pc = "hold"
    /\ read' = read + 1
    /\ Pop
    /\ \/ \E content \in Contents :
              LET tokens == [k \in DOMAIN content |-> [token |-> content[k], id |-> <<read', k>>]] IN
              /\ SetOneOf([OneOf EXCEPT !.contents = Append(@, tokens)])
              /\ given' = given \union
                     {<<IF k = 1 THEN open ELSE Append(open, content[k - 1]), tokens[k].id>> :
                          k \in {k \in DOMAIN content : content[k] = "good"}}
              /\ pc' = "next"
              /\ UNCHANGED <<frames, open, state, broken, wrong>>
       \/ /\ GiveUp
          /\ broken' = TRUE /\ wrong' = wrong + 1
          /\ UNCHANGED <<oneofs, given>>
    /\ UNCHANGED <<schema, fail_fast, want, where, seen, target, feed, keys>>

\* slip: of what was buffered the last is decoded
Buffered_Last(contents) == IF contents = <<>> THEN <<>> ELSE <<Last(contents)>>

\* what content_buffer has
Buffered(contents) == contents

\* the loop over content_buffer, under the name of the content
Replay ==
    /\ pc = "replay" /\ UNCHANGED read
    /\ path' = [path EXCEPT ![Len(path)] = "content"]
    /\ LET contents == Buffered(OneOf.contents) IN
        \/ /\ contents = <<>>
           /\ pc' = "replayed"
           /\ UNCHANGED <<frames, oneofs, feed, open, wrong, seen, want, where, target, errors, unwinding>>
        \/ /\ contents # <<>>
           /\ SetOneOf([OneOf EXCEPT !.contents = Tail(contents)])
           /\ open' = At("content")
           /\ \/ /\ AllowDuplicates(Place)
                 /\ seen' = Put(seen, Within("content"), schema[Top.type].fields[OneOf.tag])
                 /\ want' = schema[Top.type].fields[OneOf.tag] /\ where' = Within("content")
                 /\ target' = Put(target, Within("tag"), OneOf.tag)
                 /\ frames' = [frames EXCEPT ![Len(frames)].replays = TRUE]
                 /\ feed' = Head(contents) /\ pc' = "value"
                 /\ UNCHANGED <<errors, unwinding, wrong>>
              \/ /\ ~AllowDuplicates(Place)
                 /\ feed' = feed /\ wrong' = wrong + 1
                 /\ Report(TRUE, path')
                 /\ pc' = IF Fatal(TRUE) THEN "leave" ELSE "replay"
                 /\ UNCHANGED <<frames, seen, want, where, target>>
    /\ UNCHANGED <<schema, fail_fast, irrecoverable, broken, keys, given>>

Replayed ==
    /\ pc = "replayed"
    /\ Pop
    /\ pc' = "next"
    /\ UNCHANGED <<schema, fail_fast, want, where, frames, seen, target, oneofs, state, parser>>
-----------------------------------------------------------------------------
(* results *)

\* a member was decoded, or its error was collected
Continue ==
    IF Kind(Top.type) = "tagged" /\ Top.replays
    THEN /\ pc' = "replay"
         /\ frames' = [frames EXCEPT ![Len(frames)].replays = FALSE]
         /\ UNCHANGED <<path, open>>
    ELSE /\ pc' = "next" /\ Pop
         /\ frames' = [frames EXCEPT ![Len(frames)].index = @ + 1]
         /\ UNCHANGED open

Decoded ==
    /\ pc = "ok"
    /\ IF frames = <<>>
       THEN pc' = "validate" /\ UNCHANGED <<frames, path, open>>
       ELSE Continue
    /\ UNCHANGED <<schema, fail_fast, want, where, seen, target, oneofs, state,
                   feed, broken, read, keys, given, wrong>>

\* an error of a value comes to the visitor of what it is in.  A list reads
\* the rest without decoding it
Failed ==
    /\ pc = "err" /\ UNCHANGED <<feed, read>>
    /\ IF frames = <<>>
       THEN pc' = "failed" /\ UNCHANGED <<frames, path, errors, unwinding, open, broken>>
       ELSE IF Fatal(TRUE)
       THEN pc' = "leave" /\ UNCHANGED <<frames, path, open, broken>> /\ Report(TRUE, path)
       ELSE IF Kind(Top.type) = "list"
       THEN /\ frames' = Front(frames) /\ Pop /\ open' = Front(open)
            /\ broken' \in {broken, TRUE}
            /\ pc' = IF broken' THEN "err" ELSE "ok"
            /\ errors' = Append(errors, [path |-> path, pos |-> open, fatal |-> TRUE])
            /\ UNCHANGED unwinding
       ELSE Continue /\ Report(TRUE, path) /\ UNCHANGED broken
    /\ UNCHANGED <<schema, fail_fast, want, where, seen, target, oneofs, irrecoverable,
                   keys, given, wrong>>

\* validate: is a required field not there, or a oneof without a value?
Missing ==
    \E p \in DOMAIN seen :
        \/ /\ Kind(seen[p]) = "message"
           /\ \E f \in schema[seen[p]].required : Append(p, f) \notin DOMAIN seen
        \/ /\ Kind(seen[p]) = "tagged" /\ ~schema[seen[p]].nullable
           /\ Append(p, "tag") \notin DOMAIN target

\* validate_http
Validate ==
    /\ pc = "validate"
    /\ pc' = IF errors = <<>> /\ ~Missing THEN "accepted" ELSE "rejected"
    /\ UNCHANGED <<schema, fail_fast, want, where, frames, path, seen, target, oneofs, state, parser>>

Tokens == {"{", "[", "good", "bad", "other", "junk"}
Fields(kind) == UNION {DOMAIN schema[t].fields : t \in {t \in DOMAIN schema : Kind(t) = kind}}

\* the document was accepted or refused
Answered ==
    /\ pc \in {"accepted", "rejected", "failed"}
    /\ UNCHANGED decodeVars

DecodeNext ==
    \/ \E token \in Tokens : DecodeValue(token)
    \/ \E key \in MapKeys \union Fields("message") \union {"tag", "content", Stranger} : NextKey(key)
    \/ \E tag \in Fields("tagged") \union {Stranger, "bad", "other", "junk"} : Tag(tag)
    \/ Skip \/ LeaveMember \/ EndKeys \/ NextElement
    \/ Hold \/ Replay \/ Replayed \/ Decoded \/ Failed \/ Validate
    \/ Answered

DecodeSpec == DecodeInit /\ [][DecodeNext]_decodeVars
-----------------------------------------------------------------------------
\* a tag and its content say something together only
Told ==
    LET halves == {p \in DOMAIN seen : /\ Kind(seen[p]) = "tagged"
                                       /\ ~({Append(p, "tag"), Append(p, "content")} \subseteq keys)}
    IN {g \in given : \A p \in halves : ~IsPrefix(p, g[1])}

(* validate_http accepts a message only if each scalar that the document     *)
(* gave was decoded into it, at its place, and nothing else, whatever was    *)
(* skipped, drained, merged or buffered before its tag.  A document in which *)
(* nothing is wrong is not rejected, but for what is missing.                *)
AcceptsTheDocument ==
    /\ pc = "accepted" => /\ ~broken
                          /\ {<<p, target[p]>> : p \in DOMAIN target} = Told
    /\ pc = "rejected" => wrong > 0 \/ Missing
    /\ pc = "failed"   => wrong > 0

(* report_de_error and report_tracked_error collect an error with the path   *)
(* it has in the document, and once: not again for the visitors it passes on *)
(* its way out.  With fail_fast a fatal one is the last; in a document that  *)
(* is read to its end, nothing that is wrong is left out.                    *)
ErrorsOnce ==
    /\ \A i \in DOMAIN errors : errors[i].path = errors[i].pos
    /\ ~broken => Len(errors) <= wrong
    /\ pc \in {"accepted", "rejected"} /\ ~broken => Len(errors) = wrong
    /\ fail_fast => \A i \in DOMAIN errors : errors[i].fatal => i = Len(errors)
=============================================================================
