------------------------------ MODULE Breakers -------------------------------
(***************************************************************************)
(* Both kinds of circuit breaker, each in front of a service of its own:   *)
(* they have no state in common.                                           *)
(***************************************************************************)
EXTENDS GatewayBreaker, MessageBreaker

\* Both kinds of breaker implement the abstract one: after the failures that
\* they count, no call goes out until the time they wait is over.
BreakersKeepPromise == GatewayImplementsBreaker /\ MessageImplementsBreaker
=============================================================================
