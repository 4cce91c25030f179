---------------------------- MODULE MCHttpServer ----------------------------
(* HttpServer with both backends. *)
EXTENDS HttpServer

TwoOfHyper == [b \in Backends |-> IF b = "hyper" THEN 2 ELSE 1]
=============================================================================
