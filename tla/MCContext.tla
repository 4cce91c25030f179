----------------------------- MODULE MCContext -----------------------------
(* Context on small sets of handlers, contexts and calls. *)
EXTENDS Context, TLC

\* handlers, contexts and calls are interchangeable; for safety runs only
Symmetry == Permutations(Handlers) \union Permutations(Contexts) \union Permutations(Callers)
=============================================================================
