---------------------------- MODULE MCTaskStream ----------------------------
(* Model-checking instances of TaskStream. *)
EXTENDS TaskStream

CONSTANTS e1, e2, e3, w1

\* A task, an entry without payload and one whose payload cannot be parsed.
MCEntries  == {e1, e2, e3}
MCGarbled  == {e3}
MCBlank    == {e2}
OneWorker  == {w1}
=============================================================================
