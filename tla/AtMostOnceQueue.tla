-------------------------- MODULE AtMostOnceQueue --------------------------
(***************************************************************************)
(* What the intent queue is, seen from the code on either side of it: an   *)
(* entry is handed to one handler, starts the orchestrator at most once,   *)
(* and is settled only when it was finished, buried, or carried nothing.   *)
(* An entry may stay held for ever.  The docs of the queue promise another *)
(* one, which hands a held entry out again (UnackedIsRedelivered of        *)
(* TaskStream); this one is what its code implements.                      *)
(***************************************************************************)
EXTENDS Naturals

CONSTANTS Items, Junk, Empty   \* Junk cannot be parsed, Empty has no payload

VARIABLES
    life,      \* life[i]: where item i is
    runs,      \* runs[i]: how often it was started
    finished,  \* items whose handler returned
    buried     \* items in the dead-letter stream

itemVars == <<life, runs, finished, buried>>

ItemInit ==
    /\ life = [i \in Items |-> "absent"]
    /\ runs = [i \in Items |-> 0]
    /\ finished = {}
    /\ buried = {}

Submit(i) ==
    /\ life[i] = "absent"
    /\ life' = [life EXCEPT ![i] = "queued"]
    /\ UNCHANGED <<runs, finished, buried>>

Hand(S) ==
    /\ S # {} /\ \A i \in S : life[i] = "queued"
    /\ life' = [i \in Items |-> IF i \in S THEN "held" ELSE life[i]]
    /\ UNCHANGED <<runs, finished, buried>>

Run(i) ==
    /\ life[i] = "held" /\ runs[i] = 0 /\ i \notin Junk \cup Empty
    /\ runs' = [runs EXCEPT ![i] = 1]
    /\ UNCHANGED <<life, finished, buried>>

Finish(i) ==
    /\ life[i] = "held" /\ runs[i] = 1
    /\ finished' = finished \cup {i}
    /\ UNCHANGED <<life, runs, buried>>

\* A failing acknowledgement may bury what it has just settled.
Bury(i) ==
    /\ life[i] \in {"held", "settled"}
    /\ i \notin Empty
    /\ buried' = buried \cup {i}
    /\ UNCHANGED <<life, runs, finished>>

Settle(i) ==
    /\ life[i] = "held"
    /\ i \in finished \cup buried \cup Empty
    /\ life' = [life EXCEPT ![i] = "settled"]
    /\ UNCHANGED <<runs, finished, buried>>

ItemNext ==
    \/ \E i \in Items : Submit(i) \/ Run(i) \/ Finish(i) \/ Bury(i) \/ Settle(i)
    \/ \E S \in SUBSET Items : Hand(S)

ItemSpec == ItemInit /\ [][ItemNext]_itemVars
=============================================================================
