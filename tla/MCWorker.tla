------------------------------ MODULE MCWorker ------------------------------
(***************************************************************************)
(* The worker: the entries it takes from the stream (TaskStream), and the  *)
(* turns of a session it runs for them (SessionTurns).  What a turn is has *)
(* no part in how its entry is handled, so a behaviour follows one of them *)
(* and leaves the other alone.                                             *)
(***************************************************************************)
EXTENDS MCTaskStream, SessionTurns

CONSTANTS u1, u2, u3

VARIABLE side

sideVars == <<streamVars, turnVars, side>>

ThreeTurns == {u1, u2, u3}
OneProc    == {"worker"}

\* Another buyer uses the same session id for u2.
TwoAskers == [t \in ThreeTurns |-> IF t = u2 THEN "ben" ELSE "ann"]

Init ==
    /\ StreamInit /\ TurnsInit
    /\ side \in {"stream", "turns"}
    /\ side = "stream" => turnByTurn
    /\ side = "turns" => limit = 1

\* u1 and u3 are alike: u1 is the one that begins first.
InOrderOfName == turnAt'[u1] = "idle" => turnAt'[u3] = "idle"

\* The turns of a behaviour come to an end; the stream's never stops.
Next ==
    /\ UNCHANGED side
    /\ \/ side = "stream" /\ StreamNext /\ UNCHANGED turnVars
       \/ side = "turns" /\ TurnsNext /\ InOrderOfName /\ UNCHANGED streamVars
       \/ side = "turns" /\ UNCHANGED <<streamVars, turnVars>>

\* WorkerFairness; no turn of a session is owed anything here.
Fairness ==
    /\ \A w \in Workers :
          /\ WF_streamVars(side = "stream" /\ Loop(w))
          /\ WF_streamVars(side = "stream" /\ Start(w))
    /\ \A e \in Entries : WF_streamVars(side = "stream" /\ Handle(e))

Spec == Init /\ [][Next]_sideVars /\ Fairness
=============================================================================
