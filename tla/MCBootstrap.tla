---------------------------- MODULE MCBootstrap ----------------------------
(* main! with SignalSvc and two other services. *)
EXTENDS Bootstrap
CONSTANTS s1, s2, int, term
SignalMiddle == <<s1, SignalService, s2>>
TwoSignals == <<term, int>>

\* default hooks, no timeout and services that follow their context; default
\* hooks, a timeout and services that do not; the same with any hooks
Gentle   == {<<FALSE, FALSE, {}>>}
Forceful == {<<TRUE, FALSE, Services>>}
Hooked   == {<<TRUE, TRUE, Services>>}
AllSetups == Gentle \union Forceful \union Hooked
=============================================================================
