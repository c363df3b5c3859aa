--------------------------- MODULE SearchEvidence ---------------------------
(***************************************************************************)
(* What the searches of one turn leave behind on the event bus, and what   *)
(* its readers make of it: task_dispatch, which answers with the latest    *)
(* search of its own SearchAgent (app/application/tools/                   *)
(* task_dispatch_tool.py), the rubric's evidence                           *)
(* (scripts/eval/rubric_evidence.py) and the H4 acceptance                 *)
(* (scripts/index/smoke_h4_agent.py).                                      *)
(*                                                                         *)
(* The main agent and its SearchAgents run side by side.  A search belongs *)
(* to the lane of the agent that makes it; a lane of a dispatch carries a  *)
(* correlation id, the main lane none.  An event keeps, for the properties *)
(* only, the number of the search it is about.                             *)
(***************************************************************************)
EXTENDS CatalogSearch

CONSTANTS
    Main,        \* the lane of the main agent
    Lanes,       \* dispatches of a SearchAgent
    LaneOf,      \* LaneOf[c]: the lane of caller c
    Fixed,       \* Fixed[l]: the platform (and site) of a dispatch, a scope
    Platform,    \* Platform[s]: the platform of a scope
    None,        \* a key the payload does not have
    Few,         \* hits below which a SearchAgent may search again
    MaxSearches  \* bound: searches in the turn

ASSUME EvidenceAssumption ==
    /\ Main \notin Lanes /\ None \notin Lanes \cup {Platform[s] : s \in DOMAIN Platform}
    /\ LaneOf \in [Calls -> Lanes \cup {Main}]
    /\ Scopes \subseteq DOMAIN Platform
    /\ \A l \in Lanes : Fixed[l] \in Scopes
    /\ MaxSearches \in Nat

VARIABLES
    log,      \* the session's events, in order
    lane,     \* lane[l]: "new", "open", "done", or "cut" by its timeout
    reply,    \* reply[l]: the search whose result a finished dispatch gave back, or 0
    number,   \* number[c]: the number of the search c makes, or made last
    together  \* history: the sets of dispatches that ran at one moment

evidenceVars == <<searchVars, log, lane, reply, number, together>>

EvidenceTypeOK ==
    /\ SearchTypeOK
    /\ lane \in [Lanes -> {"new", "open", "done", "cut"}]
    /\ reply \in [Lanes -> 0..MaxSearches]
    /\ number \in [Calls -> 0..MaxSearches]
    /\ together \subseteq SUBSET Lanes
    /\ \A n \in 1..Len(log) : log[n].kind \in {"dispatch", "invoke", "result", "finished"}

EvidenceInit ==
    /\ SearchInit
    /\ log = <<>>
    /\ lane = [l \in Lanes |-> "new"]
    /\ reply = [l \in Lanes |-> 0]
    /\ number = [c \in Calls |-> 0]
    /\ together = {}

----------------------------------------------------------------------------
(* Events. *)

Earliest(S) == CHOOSE i \in S : \A j \in S : i <= j
LastOf(S) == CHOOSE i \in S : \A j \in S : i >= j

Open == {l \in Lanes : lane[l] = "open"}

Searches == Cardinality({n \in 1..Len(log) : log[n].kind = "invoke"})

\* SearchDispatchContext: the correlation id of the lane.
Correlation(c) == IF LaneOf[c] = Main THEN None ELSE LaneOf[c]

Event(kind, n, corr, platform, status, hits) ==
    [kind |-> kind, n |-> n, corr |-> corr, platform |-> platform, status |-> status, hits |-> hits]

\* The tool's own events carry the platform and the correlation id; the
\* result of the resilience middleware carries neither.
InvokeOf(c, n, ask) == Event("invoke", n, Correlation(c), Platform[ask.scope], "none", 0)

ResultOf(c, n, r) ==
    IF r.phase = "failed" THEN Event("result", n, None, None, "error", 0)
    ELSE Event("result", n, Correlation(c), Platform[r.ask.scope],
               IF r.phase = "answered" THEN "ok" ELSE "error", Len(r.result.hits))

DispatchEvent(kind, l) == Event(kind, 0, l, Platform[Fixed[l]], "none", 0)

----------------------------------------------------------------------------
(* The agents' steps. *)

MaySearch(c) == LaneOf[c] \in Open \cup {Main}

\* A call of the tool; one the use case turns away has its result at once.
\* (A call whose selection is refused leaves no event.)
Search(c, ask) ==
    /\ MaySearch(c) /\ Searches < MaxSearches
    /\ LaneOf[c] # Main => ask.scope = Fixed[LaneOf[c]]
    /\ Begin(c, ask) \/ Refuse(c, ask)
    /\ number' = [number EXCEPT ![c] = Searches + 1]
    /\ LET n == Searches + 1
           end == IF call'[c].phase = "refused" THEN <<ResultOf(c, n, call'[c])>> ELSE <<>>
       IN log' = Append(log, InvokeOf(c, n, ask)) \o end
    /\ UNCHANGED <<lane, reply, together>>

\* The circuit of the platform is open, for what this or another session
\* met: the middleware answers and the tool is not reached.
ShortCircuit(c) ==
    /\ MaySearch(c) /\ ~Running(c) /\ Searches < MaxSearches
    /\ Spend
    /\ log' = Append(log, Event("result", 0, None, None, "error", 0))
    /\ UNCHANGED <<stored, documents, call, lane, reply, number, together>>

\* A search moves on; when it ends, its result is published.
Proceed(c) ==
    /\ \/ Embed(c) \/ Recall(c) \/ Rerank(c) \/ Degrade(c) \/ TimesOut(c)
       \/ \E kind \in {"transient", "permanent"} : DependencyFails(c, kind)
    /\ log' = IF call'[c].phase \in {"answered", "failed"}
              THEN Append(log, ResultOf(c, number[c], call'[c])) ELSE log
    /\ UNCHANGED <<lane, reply, number, together>>

\* task_dispatch announces the dispatch and listens to the bus from then on.
Dispatch(l) ==
    /\ lane[l] = "new"
    /\ lane' = [lane EXCEPT ![l] = "open"]
    /\ log' = Append(log, DispatchEvent("dispatch", l))
    /\ together' = together \cup {Open \cup {l}}
    /\ UNCHANGED <<searchVars, reply, number>>

Idling(l) == \A c \in Calls : LaneOf[c] = l => ~Running(c)

Since(l) == CHOOSE n \in 1..Len(log) : log[n].kind = "dispatch" /\ log[n].corr = l

\* Mutant: the platform alone tells whose result it is.
OwnByPlatform(e, l) ==
    e.kind = "result" /\ e.status = "ok" /\ e.platform = Platform[Fixed[l]]

\* _latest_search_result(): results of the tool, without error, of this
\* correlation id and platform.
Own(e, l) ==
    /\ e.kind = "result" /\ e.status = "ok"
    /\ e.corr = l /\ e.platform = Platform[Fixed[l]]

LatestSearchResult(l) ==
    LET own == {n \in Since(l)..Len(log) : Own(log[n], l)}
    IN IF own = {} THEN 0 ELSE log[LastOf(own)].n

\* The SearchAgent has replied, whatever it made of its searches.
Conclude(l) ==
    /\ lane[l] = "open" /\ Idling(l)
    /\ lane' = [lane EXCEPT ![l] = "done"]
    /\ reply' = [reply EXCEPT ![l] = LatestSearchResult(l)]
    /\ log' = Append(log, DispatchEvent("finished", l))
    /\ UNCHANGED <<searchVars, number, together>>

\* The dispatch's timeout cancels it and what it waits for: neither it nor
\* its searches publish a result any reader looks for.
Cut(l) ==
    /\ lane[l] = "open"
    /\ Spend
    /\ lane' = [lane EXCEPT ![l] = "cut"]
    /\ call' = [c \in Calls |-> IF LaneOf[c] = l /\ Running(c)
                                THEN [call[c] EXCEPT !.phase = "failed", !.hurt = @ \cup {"timeout"}]
                                ELSE call[c]]
    /\ UNCHANGED <<stored, documents, log, reply, number, together>>

EvidenceNext ==
    \/ \E c \in Calls : Proceed(c) \/ ShortCircuit(c) \/ \E ask \in Requests : Search(c, ask)
    \/ \E l \in Lanes : Dispatch(l) \/ Conclude(l) \/ Cut(l)

\* The server starts before the turn, on some catalogue.
ServerStarts(products, indexed) ==
    StartUp(products, indexed) /\ UNCHANGED <<log, lane, reply, number, together>>

EvidenceSpec ==
    EvidenceInit /\ [][\/ EvidenceNext
                       \/ \E products \in SUBSET Products, indexed \in [Scopes -> SUBSET Products] :
                             ServerStarts(products, indexed)]_evidenceVars

----------------------------------------------------------------------------
(* The readers.  A call they restore has the number of its invoke (0 when   *)
(* there is none) and the number of the result given to it.                *)

Restore(e, status, from, hits) ==
    [n |-> e.n, corr |-> e.corr, platform |-> e.platform, status |-> status, from |-> from, hits |-> hits]

Settle(calls, i, e) ==
    [calls EXCEPT ![i].status = e.status, ![i].from = e.n, ![i].hits = e.hits]

Waiting(calls) == {i \in 1..Len(calls) : calls[i].status = "open"}

\* _normalize_events(): a result ends the earliest open call of its
\* correlation id, and is a call of its own when there is none.
RubricResult(calls, e) ==
    LET open == {i \in Waiting(calls) : calls[i].corr = e.corr} IN
    IF open = {} THEN Append(calls, Restore([e EXCEPT !.n = 0], e.status, e.n, e.hits))
    ELSE Settle(calls, Earliest(open), e)

RubricCalls ==
    FoldLeft(LAMBDA calls, e :
                 IF e.kind = "invoke" THEN Append(calls, Restore(e, "open", 0, 0))
                 ELSE IF e.kind = "result" THEN RubricResult(calls, e) ELSE calls,
             <<>>, log)

\* _product_search_calls(): a result ends the earliest open call of its
\* platform; without a platform it ends the latest open call; with none it
\* is dropped.
H4Result(calls, e) ==
    LET open == {i \in Waiting(calls) : e.platform \in {None, calls[i].platform}} IN
    IF open = {} THEN calls
    ELSE Settle(calls, IF e.platform = None THEN LastOf(open) ELSE Earliest(open), e)

H4Calls ==
    FoldLeft(LAMBDA calls, e :
                 IF e.kind = "invoke" THEN Append(calls, Restore(e, "open", 0, 0))
                 ELSE IF e.kind = "result" THEN H4Result(calls, e) ELSE calls,
             <<>>, log)

OfPlatform(calls, x) == SelectSeq(calls, LAMBDA r : r.platform = x)

\* Mutant: an error is no failure of the protocol.
ProtocolForgives(calls, x) == OfPlatform(calls, x) # <<>> /\ Len(OfPlatform(calls, x)) <= 2

\* _evaluate_product_search_protocol(), for one platform.  The arguments that
\* a rewritten search must repeat and the harness's verdict are left out.
ProtocolHolds(calls, x) ==
    LET own == OfPlatform(calls, x) IN
    /\ own # <<>> /\ Len(own) <= 2
    /\ \A i \in 1..Len(own) : own[i].status = "ok"
    /\ Len(own) = 2 => own[1].hits < Few

\* _dispatch_overlap(): every platform's last start is before every finish.
StartOf(x) == {n \in 1..Len(log) : log[n].kind = "dispatch" /\ log[n].platform = x}
FinishOf(x) == {n \in 1..Len(log) : log[n].kind = "finished" /\ log[n].platform = x}
Timed(x) == StartOf(x) # {} /\ FinishOf(x) # {}
Overlapped(X) ==
    \A x, y \in X : Timed(x) /\ Timed(y) /\ LastOf(StartOf(x)) < LastOf(FinishOf(y))

DispatchedTo == {log[n].platform : n \in {m \in 1..Len(log) : log[m].kind = "dispatch"}}
Dispatches == Cardinality({n \in 1..Len(log) : log[n].kind = "dispatch"})

\* evaluate_real_main_case(), cross-platform.
CrossPlatformPassed(X) ==
    /\ Dispatches = Cardinality(X) /\ DispatchedTo = X
    /\ Overlapped(X)
    /\ LET calls == H4Calls IN
       /\ \A i \in 1..Len(calls) : calls[i].platform \in X
       /\ \A x \in X : ProtocolHolds(calls, x)

\* evaluate_real_main_case(), single platform: the main agent searches itself.
SinglePassed(x) ==
    /\ Dispatches = 0
    /\ LET calls == H4Calls IN
       /\ \A i \in 1..Len(calls) : calls[i].platform = x
       /\ ProtocolHolds(calls, x)

----------------------------------------------------------------------------
(* Properties. *)

InvokeAt(n) == CHOOSE i \in 1..Len(log) : log[i].kind = "invoke" /\ log[i].n = n
EndsOf(n) == {i \in 1..Len(log) : log[i].kind = "result" /\ log[i].n = n}
EndedOk(n) == \E i \in EndsOf(n) : log[i].status = "ok"

\* A finished dispatch answers with the last search its own SearchAgent
\* brought to an end, or with none if none was, whatever the main agent and
\* other SearchAgents search for on the same platform meanwhile.
DispatchAnswersItself ==
    \A l \in Lanes : lane[l] = "done" =>
        LET mine == {n \in 1..Searches : log[InvokeAt(n)].corr = l /\ EndedOk(n)}
        IN IF mine = {} THEN reply[l] = 0
           ELSE /\ reply[l] \in mine
                /\ \A n \in mine : Earliest(EndsOf(n)) <= Earliest(EndsOf(reply[l]))

\* No agent ran two searches at once and none was ended by the middleware.
Tidy ==
    /\ \A i \in 1..Len(log) : log[i].kind = "result" => log[i].platform # None
    /\ \A k, n \in 1..Searches :
          k < n /\ log[InvokeAt(k)].corr = log[InvokeAt(n)].corr =>
              EndsOf(k) # {} /\ Earliest(EndsOf(k)) < InvokeAt(n)

\* In a tidy turn the rubric's evidence gives every search its own result,
\* however the searches of several agents interleave.
RubricPairs ==
    Tidy => LET calls == RubricCalls IN
            \A i \in 1..Len(calls) : calls[i].status # "open" => calls[i].n = calls[i].from

\* A passed verdict of the acceptance is true, although its pairing of calls
\* and results may not be: every search the tool began was answered, across
\* platforms the dispatches ran at one moment, and a platform's second search
\* in turn followed one that found little.
VerdictIsTrue ==
    LET X == {Platform[Fixed[l]] : l \in Lanes} IN
    CrossPlatformPassed(X) \/ (\E x \in X : SinglePassed(x)) =>
        /\ \A n \in 1..Searches : EndedOk(n)
        /\ Dispatches > 0 => \E T \in together : Lanes \subseteq T
        /\ \A k, n \in 1..Searches :
              /\ log[InvokeAt(k)].platform = log[InvokeAt(n)].platform
              /\ Earliest(EndsOf(k)) < InvokeAt(n)
              => log[Earliest(EndsOf(k))].hits < Few

\* The two readers of a turn's events: one never misreads a tidy turn, the
\* other never passes a turn that broke the protocol.
EvidenceIsTrue == RubricPairs /\ VerdictIsTrue
=============================================================================
