--------------------------- MODULE MCContextResume ---------------------------
(***************************************************************************)
(* Instances of ContextResume for TLC: ReplayedQuery has one long run that *)
(* is resumed once, and one kill.                                          *)
(***************************************************************************)
EXTENDS ContextResume

\* The second probe is for a second compression.
NeedsV == <<1, 2>>
=============================================================================
