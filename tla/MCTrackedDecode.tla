--------------------------- MODULE MCTrackedDecode ---------------------------
(***************************************************************************)
(* Four messages: of a value that is required and a list of values, of a   *)
(* map of messages, of a message and a list of messages, and of a tagged   *)
(* oneof, which may be left out, of a value or a message.                  *)
(***************************************************************************)
EXTENDS TrackedDecode

Value == [kind |-> "value"]
Part  == [kind |-> "message", fields |-> [a |-> "value"], required |-> {"a"}]

Root(fields, required) == [kind |-> "message", fields |-> fields, required |-> required]

ListOf(type) == [kind |-> "list", of |-> type]

MCSchemas ==
    {[root |-> Root([a |-> "value", l |-> "list"], {"a"}),
      value |-> Value, list |-> ListOf("value")],
     [root |-> Root([m |-> "map"], {}),
      value |-> Value, part |-> Part, map |-> [kind |-> "map", of |-> "part"]],
     [root |-> Root([p |-> "part", l |-> "list"], {"p"}),
      value |-> Value, part |-> Part, list |-> ListOf("part")],
     [root |-> Root([t |-> "oneof"], {}),
      value |-> Value, part |-> Part,
      oneof |-> [kind |-> "tagged", nullable |-> TRUE, fields |-> [x |-> "value", y |-> "part"]]]}

MCContents == {<<"good">>, <<"bad">>, <<"{", "a", "good", "}">>}
=============================================================================
