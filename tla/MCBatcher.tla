----------------------------- MODULE MCBatcher -----------------------------
(* Batcher on two small calls. *)
EXTENDS Batcher, TLC
CONSTANTS w1, w2

\* one call that needs more than a batch, one that fills a batch of the other
Sizes == w1 :> 3 @@ w2 :> 1
=============================================================================
