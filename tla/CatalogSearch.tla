--------------------------- MODULE CatalogSearch ---------------------------
(***************************************************************************)
(* Calls of product_search_tool in their H4 assembly (no keyword fallback): *)
(* embedding, hybrid recall in one platform's index, restoring the         *)
(* products, hard constraints, reranking and the cards                     *)
(* (app/application/usecases/catalog_search.py,                            *)
(* app/application/tools/product_search_tool.py and the adapters they      *)
(* call).  A step ends where the code awaits a service.                    *)
(*                                                                         *)
(* A scope is a use case: a platform, or a platform and a site.  Prices    *)
(* are in the currency asked for; the landed price of a card is left out.  *)
(***************************************************************************)
EXTENDS Integers, Sequences, FiniteSets, SequencesExt

CONSTANTS
    Calls,        \* callers of the tool
    Requests,     \* what may be asked: [scope, cap, ship]
    Scopes,       \* the use cases that are assembled
    Skus,         \* Skus[p]: the SKUs of product p = [id, rev], sets of
                  \* [price, stock]
    Ships,        \* the products that ship to the buyer's country
    TopN,         \* _RECALL_TOP_N
    TopK,         \* top_k
    FilteredLimit,\* _FILTERED_OUT_LIMIT
    NoCap,        \* no price_max_major
    MaxFaults     \* bound: failed requests of services

Products == DOMAIN Skus

ASSUME SearchAssumption ==
    /\ TopN \in Nat \ {0} /\ TopK \in Nat \ {0} /\ FilteredLimit \in Nat \ {0}
    /\ MaxFaults \in Nat
    /\ Ships \subseteq Products

VARIABLES
    stored,     \* the products of JsonlProductRepository
    documents,  \* documents[s]: what a search of scope s may find
    call,       \* call[c]: the run of the tool that c makes, or made last
    faults      \* how many requests have failed

searchVars == <<stored, documents, call, faults>>

Phases == {"idle", "embedding", "searching", "ranking", "answered", "refused", "failed"}

NoResult == [hits |-> <<>>, filtered |-> <<>>, total |-> 0, reranked |-> FALSE]

Idle == [phase |-> "idle", ask |-> <<>>, tries |-> 0, recalled |-> <<>>,
         eligible |-> <<>>, rejected |-> <<>>, result |-> NoResult, hurt |-> {}]

Ids == {p.id : p \in Products}

SearchTypeOK ==
    /\ stored \subseteq Products
    /\ documents \in [Scopes -> SUBSET Products]
    /\ faults \in 0..MaxFaults
    /\ \A c \in Calls :
        /\ call[c].phase \in Phases
        /\ call[c].ask \in Requests \/ call[c].ask = <<>>
        /\ call[c].tries \in 0..2
        /\ ToSet(call[c].recalled) \subseteq Ids
        /\ ToSet(call[c].eligible) \subseteq stored
        /\ call[c].hurt \subseteq {"transient", "permanent", "reranker", "timeout"}

SearchInit ==
    /\ stored = {} /\ documents = [s \in Scopes |-> {}]
    /\ call = [c \in Calls |-> Idle]
    /\ faults = 0

----------------------------------------------------------------------------
(* Hard constraints and cards. *)

InStock(p) == {u \in Skus[p] : u.stock > 0}

\* _eligible_skus(): what a card of p may offer.
Eligible(p, ask) == {u \in InStock(p) : ask.cap = NoCap \/ u.price <= ask.cap}

\* _reject_reason(), for a product with something in stock.
Reason(p, ask) ==
    IF ask.ship /\ p \notin Ships THEN "ship_to_unavailable"
    ELSE IF Eligible(p, ask) = {} THEN "over_price_cap"
    ELSE "none"

Passing(recalled, ask) ==
    SelectSeq(recalled, LAMBDA p : InStock(p) # {} /\ Reason(p, ask) = "none")

\* _apply_constraints(): only the first few that are rejected are told.
Rejected(recalled, ask) ==
    LET out == SelectSeq(recalled, LAMBDA p : InStock(p) # {} /\ Reason(p, ask) # "none") IN
    [i \in 1..(IF Len(out) < FilteredLimit THEN Len(out) ELSE FilteredLimit) |->
        [product |-> out[i], reason |-> Reason(out[i], ask)]]

Cheapest(skus) == CHOOSE u \in skus : \A v \in skus : u.price <= v.price

\* _to_card(): the SKUs offered and the cheapest of them as the price.
Card(p, ask) ==
    [product |-> p, skus |-> Eligible(p, ask), price |-> Cheapest(Eligible(p, ask)).price]

FirstOf(s, n) == SubSeq(s, 1, IF Len(s) < n THEN Len(s) ELSE n)

\* What execute() returns for a ranking of the eligible products.
Result(order, r, reranked) ==
    LET top == FirstOf(order, TopK) IN
    [hits |-> [i \in 1..Len(top) |-> Card(top[i], r.ask)],
     filtered |-> r.rejected, total |-> Len(r.eligible), reranked |-> reranked]

----------------------------------------------------------------------------
(* The services. *)

\* The ids of the documents of a scope that have a SKU in stock, ranked: the
\* k nearest neighbours under the filter and the text matches, fused.
Recalls(ask) ==
    LET live == {p.id : p \in {q \in documents[ask.scope] : InStock(q) # {}}}
        size == IF Cardinality(live) < TopN THEN Cardinality(live) ELSE TopN
    IN {s \in [1..size -> live] : IsInjective(s)}

\* find_by_ids(): the products of those ids that are loaded, in their order.
Restored(found) ==
    LET here == SelectSeq(found, LAMBDA i : \E p \in stored : p.id = i)
    IN [n \in 1..Len(here) |-> CHOOSE p \in stored : p.id = here[n]]

Rankings(s) == {t \in [1..Len(s) -> ToSet(s)] : IsInjective(t)}

----------------------------------------------------------------------------
Put(c, r) == call' = [call EXCEPT ![c] = r]

Spend == faults < MaxFaults /\ faults' = faults + 1

\* The server starts with what is indexed and what the catalogue's files hold.
StartUp(products, indexed) ==
    /\ stored' = products /\ documents' = indexed
    /\ UNCHANGED <<call, faults>>

Running(c) == call[c].phase \in {"embedding", "searching", "ranking"}

\* The tool publishes tool.invoke and calls the use case of the scope.
Begin(c, ask) ==
    /\ ~Running(c)
    /\ ask.scope \in Scopes
    /\ Put(c, [Idle EXCEPT !.phase = "embedding", !.ask = ask, !.tries = 1])
    /\ UNCHANGED <<stored, documents, faults>>

\* A ValueError of the spec or of the selection becomes an error result.
Refuse(c, ask) ==
    /\ ~Running(c)
    /\ ask.scope \notin Scopes
    /\ Put(c, [Idle EXCEPT !.phase = "refused", !.ask = ask])
    /\ UNCHANGED <<stored, documents, faults>>

\* CachedEmbeddingClient: the vector from Redis or from the gateway; a failure
\* of Redis counts as a miss.
Embed(c) ==
    /\ call[c].phase = "embedding"
    /\ Put(c, [call[c] EXCEPT !.phase = "searching", !.tries = 1])
    /\ UNCHANGED <<stored, documents, faults>>

Answered(r, order, reranked) ==
    [r EXCEPT !.phase = "answered", !.result = Result(order, r, reranked)]

\* Recall, restoring the products and the constraints.  A document the
\* repository does not have fails the search; nothing eligible ends it.
Recall(c) ==
    /\ call[c].phase = "searching"
    /\ \E found \in Recalls(call[c].ask) :
        LET here == Restored(found)
            kept == Passing(here, call[c].ask)
            r == [call[c] EXCEPT !.recalled = found, !.eligible = kept,
                                 !.rejected = Rejected(here, call[c].ask)]
        IN Put(c, IF Len(here) < Len(found)
                  THEN [call[c] EXCEPT !.phase = "failed", !.recalled = found]
                  ELSE IF kept = <<>>
                  THEN Answered(r, <<>>, FALSE)
                  ELSE [r EXCEPT !.phase = "ranking"])
    /\ UNCHANGED <<stored, documents, faults>>

Rerank(c) ==
    /\ call[c].phase = "ranking"
    /\ \E order \in Rankings(call[c].eligible) : Put(c, Answered(call[c], order, TRUE))
    /\ UNCHANGED <<stored, documents, faults>>

\* The reranker is missing, fails or answers nonsense: vector order stays.
Degrade(c) ==
    /\ call[c].phase = "ranking"
    /\ Spend
    /\ LET r == [call[c] EXCEPT !.hurt = @ \cup {"reranker"}] IN
       Put(c, Answered(r, r.eligible, FALSE))
    /\ UNCHANGED <<stored, documents>>

\* retry_dependency_once(): a transient failure is tried once more.
Retries(r, kind) == kind = "transient" /\ r.tries = 1

\* A request to the embedding gateway or to OpenSearch fails.
DependencyFails(c, kind) ==
    /\ call[c].phase \in {"embedding", "searching"}
    /\ Spend
    /\ LET r == [call[c] EXCEPT !.hurt = @ \cup {kind}] IN
       Put(c, IF Retries(r, kind) THEN [r EXCEPT !.tries = 2]
              ELSE [r EXCEPT !.phase = "failed"])
    /\ UNCHANGED <<stored, documents>>

\* The tool's timeout ends the call wherever it waits.
TimesOut(c) ==
    /\ Running(c)
    /\ Spend
    /\ Put(c, [call[c] EXCEPT !.phase = "failed", !.hurt = @ \cup {"timeout"}])
    /\ UNCHANGED <<stored, documents>>

SearchStep(c) ==
    \/ \E ask \in Requests : Begin(c, ask) \/ Refuse(c, ask)
    \/ Embed(c) \/ Recall(c) \/ Rerank(c) \/ Degrade(c) \/ TimesOut(c)
    \/ \E kind \in {"transient", "permanent"} : DependencyFails(c, kind)

SearchNext == \E c \in Calls : SearchStep(c)
SearchSpec == SearchInit /\ [][SearchNext]_searchVars

----------------------------------------------------------------------------
(* What the smoke runs and the fault contracts of the acceptance look at,   *)
(* of a search that has ended.                                             *)

\* _assert_result_semantics() and _validate_cards(): a card against the
\* product it is of.
CardHolds(card, ask) ==
    /\ card.product \in stored
    /\ ask.ship => card.product \in Ships
    /\ card.skus # {}
    /\ card.skus = {u \in Skus[card.product] :
                       u.stock > 0 /\ (ask.cap # NoCap => u.price <= ask.cap)}
    /\ \E u \in card.skus : u.price = card.price
    /\ \A u \in card.skus : card.price <= u.price

SemanticsHold(r) ==
    LET hits == r.result.hits
        ids  == [i \in 1..Len(hits) |-> hits[i].product.id]
    IN /\ Len(hits) <= TopK /\ IsInjective(ids)
       /\ \A i \in 1..Len(hits) : CardHolds(hits[i], r.ask)
       /\ \A i \in 1..Len(r.result.filtered) :
             r.result.filtered[i].reason \in {"ship_to_unavailable", "over_price_cap"}

\* run() of the H3 smoke: one request to each service, something eligible,
\* and reranked.
RecordedRunAccepts(r) ==
    /\ r.hurt = {} /\ r.tries = 1
    /\ r.result.total > 0 /\ r.result.reranked

\* _eligible_rrf_candidates(): the constraints once more, on the recorded hits.
EligibleAgain(r) == Passing(Restored(r.recalled), r.ask)

\* run() of the smoke with the real reranker: it was asked for exactly the
\* eligible products, and its order is that of the cards.
RerankedRunAccepts(r) ==
    /\ RecordedRunAccepts(r)
    /\ Len(Restored(r.recalled)) = Len(r.recalled)
    /\ r.eligible = EligibleAgain(r)
    /\ \A i \in 1..Len(r.result.hits) : r.result.hits[i].product \in ToSet(r.eligible)
    /\ Len(r.result.hits) = Len(FirstOf(r.eligible, TopK))

\* _validate_cards() and run_real_infrastructure(): what the H4 acceptance
\* asks of the tool's result, whichever assembled use case answered.
CaseAccepted(r) ==
    /\ r.result.reranked
    /\ \A i \in 1..Len(r.result.hits) :
          LET card == r.result.hits[i] IN
          /\ card.product \in stored
          /\ card.product.id \in {d.id : d \in documents[r.ask.scope]}
          /\ r.ask.ship => card.product \in Ships
          /\ card.skus \subseteq InStock(card.product)
          /\ \A u \in card.skus : r.ask.cap # NoCap => u.price <= r.ask.cap

\* hybrid-empty-is-not-system-failure
TrueEmpty(r) == r.phase = "answered" /\ r.result.hits = <<>> /\ r.result.filtered = <<>>

\* all-filtered-is-not-system-failure and ship-to-unavailable-is-explicit:
\* the reranker is not asked.
ConstraintFiltered(r) ==
    /\ r.phase = "answered" /\ r.result.hits = <<>> /\ r.result.filtered # <<>>
    /\ ~r.result.reranked /\ "reranker" \notin r.hurt

\* reranker-error-keeps-vector-order
DegradedSuccess(r) ==
    /\ r.phase = "answered" /\ ~r.result.reranked
    /\ \A i \in 1..Len(r.result.hits) : r.result.hits[i].product = r.eligible[i]

\* approved-dependency-retry-repeats-identical-request-once
RetriedOnce(r) == "transient" \in r.hurt /\ r.tries = 2

\* embedding-error and opensearch-error: never an empty answer.
DependencyFailure(r) == r.phase = "failed" /\ ("permanent" \in r.hurt \/ RetriedOnce(r))

\* repository-cannot-hydrate-hit
DataConsistencyFailure(r) == r.phase = "failed" /\ Len(Restored(r.recalled)) < Len(r.recalled)

\* tool-timeout-is-explicit
Timeout(r) == r.phase = "failed" /\ "timeout" \in r.hurt

----------------------------------------------------------------------------
(* Properties. *)

\* Every card of an answer is what the smoke run recomputes from the product:
\* at most top_k of them, none twice, each with exactly the SKUs that are in
\* stock and within the cap and the cheapest one's price.
CardsAreTrue == \A c \in Calls : call[c].phase = "answered" => SemanticsHold(call[c])

\* The fault contracts of the acceptance, for every order of failures: a
\* search fails only for a dependency (tried again once, and only after a
\* transient error), an index that names an unknown product, or a timeout; a
\* failed reranker costs the order and nothing else; and an answer without a
\* hit says whether products were turned away.
FaultContracts ==
    \A c \in Calls : LET r == call[c] IN
        /\ r.phase = "failed" => DependencyFailure(r) \/ DataConsistencyFailure(r) \/ Timeout(r)
        /\ r.phase = "answered" => r.hurt \subseteq {"transient", "reranker"}
        /\ r.phase = "answered" /\ "reranker" \in r.hurt => DegradedSuccess(r)
        /\ r.phase = "answered" /\ r.result.hits = <<>> => TrueEmpty(r) \/ ConstraintFiltered(r)
=============================================================================
