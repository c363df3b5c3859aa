----------------------------- MODULE MCCatalogue -----------------------------
(***************************************************************************)
(* From the catalogue's files to the evidence about a turn's searches: the *)
(* indexes are built and audited (ProductIndex), the server starts on      *)
(* them, and the main agent and two dispatched SearchAgents search         *)
(* (SearchEvidence).  The builder rests while the server runs.             *)
(*                                                                         *)
(* Two partitions of amazon, which share an index, and one of seed; four   *)
(* states of the staging area: in the second a product is replaced and     *)
(* another has changed, in the third a partition names a product twice and *)
(* in the last one that is another's.                                      *)
(***************************************************************************)
EXTENDS SearchEvidence, ProductIndex

CONSTANTS NoneV, NoCapV, m, a1, a2, s1

VARIABLE served

catalogueVars == <<evidenceVars, indexVars, served>>

P(id, rev) == [id |-> id, rev |-> rev]

Staging(us, jp) == [us |-> us, jp |-> jp, seed |-> {P("s", 1), P("t", 1)}]
StagingsV == {Staging({P("a", 1), P("b", 1)}, {P("c", 1)}),
              Staging({P("a", 2), P("d", 1)}, {P("c", 1)}),
              Staging({P("a", 1), P("a", 2)}, {P("c", 1)}),
              Staging({P("a", 1)}, {P("d", 1)})}

PartitionsV == <<"us", "jp", "seed">>
IndexOfV == [us |-> "amazon", jp |-> "amazon", seed |-> "seed"]
PartOfV == [a |-> "us", b |-> "us", d |-> "us", c |-> "jp", s |-> "seed", t |-> "seed"]

Sku(price, stock) == [price |-> price, stock |-> stock]
OffersV ==
    [p \in {P("a", 1), P("a", 2), P("b", 1), P("c", 1), P("d", 1), P("s", 1), P("t", 1)} |->
        CASE p = P("a", 1) -> {Sku(1, 1), Sku(3, 1)}
          [] p = P("a", 2) -> {Sku(1, 0), Sku(3, 1)}
          [] p = P("b", 1) -> {Sku(2, 1)}
          [] p = P("c", 1) -> {Sku(1, 0)}
          [] p = P("d", 1) -> {Sku(2, 1), Sku(1, 0)}
          [] p = P("s", 1) -> {Sku(3, 1), Sku(NoCapV, 1)}
          [] p = P("t", 1) -> {Sku(NoCapV, 1)}]
SkusV == Priced
ShipsV == DOMAIN OffersV \ {P("b", 1)}

\* A scope of the mapping and the partitions it searches; one platform is
\* not assembled.
Covers == ("amazon" :> {"us", "jp"}) @@ ("amazon:jp" :> {"jp"}) @@ ("seed" :> {"seed"})
PlatformV == ("amazon" :> "amazon") @@ ("amazon:jp" :> "amazon") @@ ("seed" :> "seed")
             @@ ("shop" :> "shop")
ScopesV == DOMAIN Covers

Wish(scope, cap, ship) == [scope |-> scope, cap |-> cap, ship |-> ship]
Plain == Wish("seed", 2, FALSE)
RequestsV == {Plain, Wish("amazon", 2, TRUE), Wish("amazon:jp", NoCapV, FALSE),
              Wish("shop", NoCapV, FALSE)}

CallsV == {m, a1, a2, s1}
LanesV == {"A", "S"}
LaneOfV == (m :> "main") @@ (a1 :> "A") @@ (a2 :> "A") @@ (s1 :> "S")
Symmetry == Permutations({a1, a2})
FixedV == [A |-> "amazon:jp", S |-> "seed"]

----------------------------------------------------------------------------
Rows(p) == ToSet(output[p])

CatalogueInit == EvidenceInit /\ IndexInit /\ served = FALSE

Indexed(s) == {d \in UNION {Visible(IndexOf[p]) : p \in Covers[s]} : PartOf[d.id] \in Covers[s]}

\* The server starts, on the files of now and on indexes that an audit has
\* passed (without them it starts as well, and their searches fail).
Serve ==
    /\ ~served /\ builder.phase = "none" /\ writer.phase = "none"
    /\ output # NoFile /\ audited # NoFile
    /\ served' = TRUE
    /\ ServerStarts(UNION {Rows(p) : p \in Parts}, [s \in Scopes |-> Indexed(s)])
    /\ UNCHANGED indexVars

\* Steps of a search before its result are seen by nobody else: taking them
\* right before the result loses no order of events.
Midway == {c \in Calls : call[c].phase \in {"searching", "ranking"}}

\* What a search leaves on the bus does not depend on what it found: agents
\* are dispatched over one version only, next to plain searches of the main
\* agent, and a lasting fault takes the place of a third search.  Alone the
\* main agent searches for everything over all.
Crowded == audited = output /\ P("a", 1) \in Rows("us")

Modest ==
    /\ call'[m].ask \in {Idle.ask, Plain}
    /\ faults' <= 1 /\ faults' + Searches' <= 3
    /\ \A c \in Calls : "transient" \notin call'[c].hurt

\* A third build of the files follows no builder of the indexes.
Calm == builds' > 2 => runs' = 0

CatalogueNext ==
    \/ ~served /\ IndexNext /\ Calm /\ UNCHANGED <<evidenceVars, served>>
    \/ Serve
    \/ /\ served /\ UNCHANGED <<indexVars, served>>
       /\ IF Midway # {} THEN \E c \in Midway : Proceed(c) ELSE EvidenceNext
       /\ IF Crowded THEN Modest ELSE lane' = lane

\* Of the builder and the indexes, which rest once the server runs, no
\* property then asks more than whether the audit held for the files.
Seen == IF served THEN <<evidenceVars, output, audited = output>> ELSE <<indexVars>>

CatalogueTypeOK == IndexTypeOK /\ EvidenceTypeOK /\ served \in BOOLEAN

----------------------------------------------------------------------------
Sound == served /\ audited = output

\* Once the audit has passed, a search finds nothing only when there is
\* nothing: it never fails for want of a product the index lists, and an
\* answer without a hit and without a product turned away means the files
\* have nothing in stock for that scope, whatever run of the builder died.
EmptyIsEmpty ==
    Sound => \A c \in Calls :
        /\ ~DataConsistencyFailure(call[c])
        /\ TrueEmpty(call[c]) =>
              \A p \in Covers[call[c].ask.scope] : \A d \in Rows(p) : InStock(d) = {}

\* What a search answers is of the files, its cards and its having none, and
\* says which failure it met.
AnswersAreTrue == CardsAreTrue /\ EmptyIsEmpty /\ FaultContracts
=============================================================================
