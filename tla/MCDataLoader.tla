---------------------------- MODULE MCDataLoader ----------------------------
(* DataLoader on two calls that share a key. *)
EXTENDS DataLoader, TLC
CONSTANTS w1, w2, k1, k2

\* w1 fills a batch that w2 may have begun, and then needs another one
Sharing == w1 :> <<k2, k1>> @@ w2 :> <<k1>>
=============================================================================
