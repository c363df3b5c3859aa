----------------------------- MODULE MCSession -----------------------------
(***************************************************************************)
(* What the turns of a session leave behind.  In the session's state and   *)
(* on the buyer's page: its facts (SessionContext, OrderFacts) and events  *)
(* (EventBus).  In the database with the cache of replies (TurnRecord), or *)
(* in files (FileStores), as the composition takes the one or the other by *)
(* DATABASE_URL (app/composition.py:279).  And the exact outputs of their  *)
(* tools (ToolOutput).                                                     *)
(***************************************************************************)
EXTENDS MCSessionContext, MCTurnRecord, FileStores, ToolOutput

\* These have no state in common (reduce_l4() keeps the facts of the first two
\* apart, and the page reads neither): a behaviour follows one of them.
VARIABLE store

sessionVars == <<store, factsVars, recordVars, fileVars, outputVars>>

\* Two buyers whose names are alike once cleaned, and a third.
OwnersV == {"bu/yer", "buyer", "ann"}
NameV   == [b \in OwnersV |-> IF b = "ann" THEN "ann" ELSE "buyer"]

\* Two calls of two processes return the same, a third something else.
ToolCallsV == {"c1", "c2", "c3"}
ServedByV  == [c \in ToolCallsV |-> IF c = "c2" THEN "p2" ELSE "p1"]
Search     == [text |-> "hits", loses |-> TRUE, long |-> FALSE]
Page       == [text |-> "page", loses |-> FALSE, long |-> TRUE]
OutputsV   == {Search, Page}
OutputOfV  == [c \in ToolCallsV |-> IF c = "c3" THEN Page ELSE Search]

\* The two buyers of the database are alike: ann is the one whose session s1 is.
Init ==
    /\ store \in {"products", "orders", "page",
                  "database", "preferences", "conversations", "artifacts"}
    /\ ContextInit /\ OrderInit /\ BusInit
    /\ RecordInit /\ FilesInit /\ OutputInit
    /\ owner["s1"] = ann
    /\ store # "preferences" => \A n \in Names : legacy[n] = NoFile
    /\ store # "database" =>
          owner = [s \in Sessions |-> ann] /\ prefs = [b \in Buyers |-> <<>>]

\* It does not matter which turn is called t1, nor which product p1: t1 begins
\* first, and the products are found in their order.
NamedInOrder ==
    /\ at'[t2] # "idle" => at'[t1] # "idle"
    /\ UNION {e.hits : e \in ToSet(bus')} \in {{}, {p1}, {p1, p2}, {p1, p2, p3}}

\* Turns that overlap share the calls and the events of one search.
FewEvents == overlapped' => Len(bus') <= 1

\* Two turns meet two troubles.  With the third there is one, and none when the
\* sessions are of two buyers, whose turns meet in Redis alone.
FewTroubles ==
    \/ Cardinality({t \in TurnIds : place'[t] # "idle"}) <= 2
    \/ slips' + changes' <= IF \A s, r \in Sessions : owner[s] = owner[r] THEN 1 ELSE 0

FactsNext ==
    \/ store = "products" /\ ContextNext /\ NamedInOrder /\ FewEvents
       /\ UNCHANGED <<orderVars, busVars>>
    \/ store = "orders" /\ OrderNext /\ UNCHANGED <<contextVars, busVars>>
    \/ store = "page" /\ BusNext /\ UNCHANGED <<contextVars, orderVars>>

StoresNext ==
    \/ store = "database" /\ RecordNext /\ FewTroubles /\ UNCHANGED <<fileVars, outputVars>>
    \/ store = "preferences" /\ PreferencesNext /\ UNCHANGED <<recordVars, outputVars>>
    \/ store = "conversations" /\ ChatsNext /\ UNCHANGED <<recordVars, outputVars>>
    \/ store = "artifacts" /\ OutputNext /\ UNCHANGED <<recordVars, fileVars>>

Next ==
    /\ UNCHANGED store
    /\ \/ FactsNext /\ UNCHANGED <<recordVars, fileVars, outputVars>>
       \/ StoresNext /\ UNCHANGED factsVars

Spec == Init /\ [][Next]_sessionVars

TypeOK ==
    /\ ContextTypeOK /\ OrderTypeOK /\ BusTypeOK
    /\ RecordTypeOK /\ FilesTypeOK /\ OutputTypeOK
=============================================================================
