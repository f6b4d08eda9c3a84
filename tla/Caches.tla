------------------------------- MODULE Caches -------------------------------
(***************************************************************************)
(* What is answered from something other than the rows: a flag's cache of  *)
(* a minute, a browser's confirmed copy, and the view and the alarms that  *)
(* jobs derive.  The three have no state in common.                        *)
(***************************************************************************)
EXTENDS FeatureFlags, PublicCache, Figures

CachesSpec == FlagSpec /\ CacheSpec /\ FiguresSpec

\* What is answered from memory, from a confirmed copy or from a view that a
\* job refreshes is not older than it may be.
CachesAgree == AnswersFresh /\ CopiesConfirmed /\ FiguresRight
=============================================================================
