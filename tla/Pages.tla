------------------------------- MODULE Pages --------------------------------
(***************************************************************************)
(* What a page of the shop stands on: the pictures of its product and the  *)
(* address it is found under.  The two have no state in common.            *)
(***************************************************************************)
EXTENDS Media, Slugs

PagesSpec == MediaSpec /\ SlugsSpec

\* Staff who give articles pictures and new names at once leave no file that
\* no row names, and no link that leads elsewhere.
LinksLead == FilesAccounted /\ SlugsLead /\ SitemapAnswers
=============================================================================
