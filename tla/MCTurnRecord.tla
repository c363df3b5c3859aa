---------------------------- MODULE MCTurnRecord ----------------------------
(* Model-checking instances of TurnRecord. *)
EXTENDS TurnRecord, TLC

CONSTANTS v1, v2, v3, ann, ben

ThreeTurns == {v1, v2, v3}
TwoBuyers  == {ann, ben}
AnyBuyer   == Permutations(TwoBuyers)

\* v1 and v2 share a session; v2 asks what only makes sense in its place.
TwoSessions   == [t \in ThreeTurns |-> IF t = v3 THEN "s2" ELSE "s1"]
ThreeSessions == [t \in ThreeTurns |-> IF t = v1 THEN "s1" ELSE IF t = v2 THEN "s2" ELSE "s3"]
TwoQuestions  == [t \in ThreeTurns |-> IF t = v2 THEN "that one" ELSE "mugs"]
OneQuestion   == [t \in ThreeTurns |-> "mugs"]
=============================================================================
