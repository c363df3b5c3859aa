--------------------------- MODULE SessionContext ---------------------------
(***************************************************************************)
(* What a session knows of its searches and recommendations                *)
(* (app/application/context/reducer.py, app/infrastructure/                *)
(* context_middleware.py, app/application/tools/task_dispatch_tool.py,     *)
(* app/application/agents/orchestrator.py).  The main agent searches       *)
(* itself or dispatches search agents, several at a time.  Every search    *)
(* is an event on the session's bus and, through the main agent's own tool *)
(* results, a fact of the session context (L4).  At the end of a reply the *)
(* structured selection of products is resolved twice: by reduce_l4()      *)
(* against the tool results, for later turns, and by the orchestrator      *)
(* against the bus, for the buyer.                                         *)
(*                                                                         *)
(* A card is a product with the search it was found by; the platform is    *)
(* part of the product.  A subscription to the bus is a position in the    *)
(* log of its searches.                                                    *)
(***************************************************************************)
EXTENDS Integers, Sequences, FiniteSets, SequencesExt

CONSTANTS
    Turns,         \* the intents of the session
    Products,
    Tools,         \* what the main agent calls: "search", "dispatch"
    TopK,          \* products a search returns at most
    MaxShown,      \* _MAX_DISPLAYED_PRODUCTS
    MaxHistory,    \* _MAX_DISPLAYED_HISTORY
    None,
    MaxCalls,      \* bound: tool calls of the main agent
    MaxSearches,   \* bound: searches of the session
    MaxMishaps     \* bound: failed replies, restarts and turns begun while
                   \* another one runs

ASSUME ContextAssumption ==
    /\ TopK \in Nat /\ MaxShown \in Nat \ {0}
    /\ MaxHistory \in Nat /\ MaxHistory >= MaxShown
    /\ None \notin Turns /\ Tools \subseteq {"search", "dispatch"}
    /\ MaxCalls \in Nat /\ MaxSearches \in Nat /\ MaxMishaps \in Nat

VARIABLES
    bus,        \* the searches published, [by, hits]: by is the dispatch or 0
    facts,      \* session_context
    intent,     \* current_intent
    events,     \* current_turn_events: "invoke" and "result" of tools
    calls,      \* the tool calls that run, [id, turn, tool, since]
    made,       \* number of tool calls so far
    saved,      \* the session's snapshot: facts and log
    at,         \* at[t]: where the turn is
    heard,      \* heard[t]: its subscription to the bus
    prior,      \* prior[t]: the cards displayed before its reply
    shown,      \* shown[t]: the cards of its final.result
    log,        \* history: the recommendations in the facts, oldest first
    replay,     \* history: what was reduced in the last step, or Nothing
    overlapped, \* history: two turns have run at once
    mishaps

contextVars == <<bus, facts, intent, events, calls, made, saved, at, heard,
                 prior, shown, log, replay, overlapped, mishaps>>

Places == {"idle", "begun", "replying", "waiting", "ending", "over", "lost"}

----------------------------------------------------------------------------
(***************************************************************************)
(* Reduction: reduce_l4() and _resolve_displayed_products().               *)
(***************************************************************************)
ProductsOf(cards) == [i \in DOMAIN cards |-> cards[i].product]

\* The cards of several searches, over those there were before: the last of
\* the searches that found a product counts.
Renewed(before, searches) ==
    LET finds(p) == {i \in DOMAIN searches : p \in bus[searches[i]].hits}
    IN  {[product |-> p, search |-> searches[Max(finds(p))]] :
            p \in {q \in Products : finds(q) # {}}}
        \cup {c \in before : finds(c.product) = {}}

\* The elements of s that are in T, each at its first place.
Firsts(s, T) ==
    LET first[i \in 0..Len(s)] ==
            IF i = 0 THEN <<>>
            ELSE LET seen == first[i - 1] IN
                 IF s[i] \in T /\ ~Contains(seen, s[i]) THEN Append(seen, s[i]) ELSE seen
    IN  first[Len(s)]

\* Mutant: a selected product is not looked for among the cards.
ResolveUnchecked(selected, cards) ==
    LET products == Firsts(selected, Products)
    IN  [i \in DOMAIN products |->
            IF \E c \in cards : c.product = products[i]
              THEN CHOOSE c \in cards : c.product = products[i]
              ELSE [product |-> products[i], search |-> 1]]

\* The cards of a selection; a product nobody found is left out.
Resolve(selected, cards) ==
    LET known == Firsts(selected, {c.product : c \in cards})
    IN  [i \in DOMAIN known |-> CHOOSE c \in cards : c.product = known[i]]

\* A reply that ends without structured output selects nothing.
Chosen(selected, cards) == IF selected = None THEN <<>> ELSE Resolve(selected, cards)

\* What was displayed, newest first, every product once.
Remember(displayed, history) ==
    LET both     == displayed \o history
        products == Firsts(ProductsOf(both), Products)
        card(p)  == both[SelectInSeq(both, LAMBDA c : c.product = p)]
    IN  [i \in DOMAIN products |-> card(products[i])]

Recent(cards) == SubSeq(cards, 1, IF Len(cards) < MaxHistory THEN Len(cards) ELSE MaxHistory)

\* The places of the successful searches among the tool results that have
\* their call.
Successes(evts) ==
    {i \in DOMAIN evts :
        /\ evts[i].kind = "result" /\ evts[i].search # 0
        /\ \E j \in DOMAIN evts : evts[j].kind = "invoke" /\ evts[j].id = evts[i].id}

SearchesOf(evts) == [i \in Successes(evts) |-> evts[i].search]

\* The products of the dispatched searches together, or else of the last one.
Searched(evts, before) ==
    LET results    == Successes(evts)
        dispatched == {i \in results : evts[i].tool = "dispatch"}
        products(i) == bus[evts[i].search].hits
    IN  IF dispatched # {} THEN UNION {products(i) : i \in dispatched}
        ELSE IF results # {} THEN products(Max(results))
        ELSE before

\* reduce_l4(); selected is the structured output, or None.
Reduced(turn, evts, selected, old) ==
    LET displayed == Chosen(selected, Renewed(ToSet(old.history), SearchesOf(evts)))
        speaks    == selected # None /\ (displayed # <<>> \/ Successes(evts) # {})
        new       == [old EXCEPT
                        !.turn    = turn,
                        !.search  = Searched(evts, @),
                        !.shown   = IF speaks THEN displayed ELSE @,
                        !.history = IF speaks THEN Recent(Remember(displayed, @)) ELSE @]
    IN  IF new = old THEN old ELSE [new EXCEPT !.revision = @ + 1]

\* Whether this reduction sets last_recommendation.
Recommends(evts, selected) ==
    /\ selected # None
    /\ \/ Successes(evts) # {}
       \/ Resolve(selected, ToSet(facts.history)) # <<>>

\* All products recommended, the newest first, some more than once.
Named == IF log = <<>> THEN <<>> ELSE log[Len(log)].named

Entry(by, products) == [turn |-> by, products |-> products, named |-> products \o Named]

\* The facts are reduced; log and replay note what was done.
Reduce(turn, evts, selected, by) ==
    LET new == Reduced(turn, evts, selected, facts)
    IN  /\ facts' = new
        /\ log' = IF Recommends(evts, selected)
                    THEN Append(log, Entry(by, ProductsOf(new.shown)))
                    ELSE log
        /\ replay' = [turn |-> turn, events |-> evts, selected |-> selected]

----------------------------------------------------------------------------
NoFacts == [turn |-> None, search |-> {}, shown |-> <<>>, history |-> <<>>, revision |-> 0]
Nothing == [turn |-> None, events |-> <<>>, selected |-> None]

ContextInit ==
    /\ bus = <<>>
    /\ facts = NoFacts /\ intent = None /\ events = <<>>
    /\ calls = {} /\ made = 0
    /\ saved = [facts |-> NoFacts, log |-> <<>>]
    /\ at = [t \in Turns |-> "idle"]
    /\ heard = [t \in Turns |-> 0]
    /\ prior = [t \in Turns |-> {}]
    /\ shown = [t \in Turns |-> <<>>]
    /\ log = <<>> /\ replay = Nothing
    /\ overlapped = FALSE
    /\ mishaps = 0

Live == {t \in Turns : at[t] \notin {"idle", "over", "lost"}}
Move(t, from, to) == at[t] = from /\ at' = [at EXCEPT ![t] = to]
Mishap == mishaps < MaxMishaps /\ mishaps' = mishaps + 1

\* A step that does not reduce.
Quiet == replay' = Nothing /\ UNCHANGED <<facts, intent, log>>

\* The turn subscribes to the bus and takes the session's agent.
Begin(t) ==
    /\ IF Live = {} THEN UNCHANGED <<overlapped, mishaps>> ELSE Mishap /\ overlapped' = TRUE
    /\ Move(t, "idle", "begun")
    /\ heard' = [heard EXCEPT ![t] = Len(bus)]
    /\ Quiet /\ UNCHANGED <<bus, events, calls, made, saved, prior, shown>>

\* The reply takes the request into the facts and opens the turn's events.
StartReply(t) ==
    /\ Move(t, "begun", "replying")
    /\ prior' = [prior EXCEPT ![t] = ToSet(facts.history)]
    /\ intent' = t
    /\ events' = <<>>
    /\ Reduce(t, <<>>, None, t)
    /\ UNCHANGED <<bus, calls, made, saved, heard, shown, overlapped, mishaps>>

Call(t, tool) ==
    /\ at[t] = "replying" /\ made < MaxCalls
    /\ made' = made + 1
    /\ calls' = calls \cup {[id |-> made', turn |-> t, tool |-> tool, since |-> Len(bus)]}
    /\ events' = Append(events, [kind |-> "invoke", id |-> made', tool |-> tool, search |-> 0])
    /\ Quiet /\ UNCHANGED <<bus, saved, at, heard, prior, shown, overlapped, mishaps>>

Publish(by, hits) ==
    /\ Len(bus) < MaxSearches
    /\ bus' = Append(bus, [by |-> by, hits |-> hits])

\* A call ends with its result: the number of a search, or 0 for an error.
\* The result is lost when overlapping turns have replaced the mapping it is
\* noted in and taken its events.
Return(c, search) ==
    /\ calls' = calls \ {c}
    /\ \/ events' = Append(events, [kind |-> "result", id |-> c.id, tool |-> c.tool,
                                   search |-> search])
       \/ overlapped /\ UNCHANGED events
    /\ Quiet /\ UNCHANGED <<made, saved, at, heard, prior, shown, overlapped, mishaps>>

\* product_search_tool of the main agent.
SearchReturns(c, hits) ==
    /\ c.tool = "search"
    /\ Publish(0, hits)
    /\ Return(c, Len(bus'))

\* product_search_tool of a dispatched agent, which may search again.
AgentSearches(c, hits) ==
    /\ c.tool = "dispatch"
    /\ Publish(c.id, hits)
    /\ Quiet /\ UNCHANGED <<events, calls, made, saved, at, heard, prior, shown,
                            overlapped, mishaps>>

\* The dispatch's own latest search since it subscribed, or 0.
Latest(c) == SelectLastInSubSeq(bus, c.since + 1, Len(bus), LAMBDA e : e.by = c.id)

AgentReturns(c) ==
    /\ c.tool = "dispatch"
    /\ Return(c, Latest(c))
    /\ UNCHANGED bus

CallFails(c) == Return(c, 0) /\ UNCHANGED bus

HeardSearches(t) == [i \in heard[t] + 1..Len(bus) |-> i]

\* Mutant: the cards displayed before the turn are not known.
HeardOnly(t) == Renewed({}, HeardSearches(t))

\* The cards a turn has heard of.
Heard(t) == Renewed(prior[t], HeardSearches(t))

\* What the turn has heard and known is not read again.
Leave(t) == heard' = [heard EXCEPT ![t] = 0] /\ prior' = [prior EXCEPT ![t] = {}]

\* The reply ends with a selection: it becomes a fact of the session and,
\* resolved once more against the bus, what the buyer is shown.
Answer(t, selected) ==
    /\ Move(t, "replying", "ending")
    /\ \A c \in calls : c.turn # t
    /\ Reduce(intent, events, selected, t)
    /\ events' = <<>>
    /\ shown' = [shown EXCEPT ![t] = Chosen(selected, Heard(t))]
    /\ Leave(t)
    /\ UNCHANGED <<bus, intent, calls, made, saved, overlapped, mishaps>>

\* A reply ends without a selection; what its tools found stays.
Break(t, to) ==
    /\ Mishap
    /\ Move(t, "replying", to)
    /\ Reduce(intent, events, None, t)
    /\ events' = <<>>
    /\ calls' = {c \in calls : c.turn # t}
    /\ IF to = "ending" THEN Leave(t) ELSE UNCHANGED <<heard, prior>>
    /\ UNCHANGED <<bus, intent, made, saved, shown, overlapped>>

\* An upstream failure: the reply is tried again after a pause, without its
\* inputs.  A lasting failure or an interruption ends the turn.
Retry(t) == Break(t, "waiting")
Fail(t)  == Break(t, "ending")

Resume(t) ==
    /\ Move(t, "waiting", "replying")
    /\ Quiet /\ UNCHANGED <<bus, events, calls, made, saved, heard, prior, shown,
                            overlapped, mishaps>>

Persist(t) ==
    /\ Move(t, "ending", "over")
    /\ saved' = [facts |-> facts, log |-> log]
    /\ Quiet /\ UNCHANGED <<bus, events, calls, made, heard, prior, shown,
                            overlapped, mishaps>>

\* The process dies; the next turn finds the snapshot.
Restart ==
    /\ Live # {} /\ Mishap
    /\ at' = [t \in Turns |-> IF t \in Live THEN "lost" ELSE at[t]]
    /\ facts' = saved.facts /\ log' = saved.log
    /\ intent' = None /\ events' = <<>> /\ calls' = {} /\ replay' = Nothing
    /\ UNCHANGED <<bus, made, saved, heard, prior, shown, overlapped>>

TurnSteps(t) ==
    \/ Begin(t) \/ StartReply(t)
    \/ \E tool \in Tools : Call(t, tool)
    \/ \E selected \in BoundedSeq(Products, MaxShown) \cup {None} : Answer(t, selected)
    \/ Retry(t) \/ Resume(t) \/ Fail(t)
    \/ Persist(t)

CallSteps(c) ==
    \/ \E hits \in {h \in SUBSET Products : Cardinality(h) <= TopK} :
           SearchReturns(c, hits) \/ AgentSearches(c, hits)
    \/ AgentReturns(c)
    \/ CallFails(c)

ContextNext ==
    \/ \E t \in Turns : TurnSteps(t)
    \/ \E c \in calls : CallSteps(c)
    \/ Restart

ContextSpec == ContextInit /\ [][ContextNext]_contextVars

----------------------------------------------------------------------------
(***************************************************************************)
(* Properties.                                                             *)
(***************************************************************************)
Cards == [product : Products, search : 1..MaxSearches]

ContextTypeOK ==
    /\ Len(bus) <= MaxSearches
    /\ \A i \in DOMAIN bus : bus[i].by \in 0..MaxCalls /\ bus[i].hits \subseteq Products
    /\ facts.turn \in Turns \cup {None}
    /\ facts.search \subseteq Products
    /\ ToSet(facts.shown) \cup ToSet(facts.history) \subseteq Cards
    /\ Len(facts.shown) <= MaxShown /\ Len(facts.history) <= MaxHistory
    /\ intent \in Turns \cup {None}
    /\ at \in [Turns -> Places]
    /\ \A c \in calls : c.turn \in Turns /\ c.tool \in Tools /\ c.since <= Len(bus)
    /\ mishaps \in 0..MaxMishaps

\* However turns and dispatched agents overlap, a buyer is shown only cards a
\* search of the session returned: never an invented product, nor an old
\* product under a search that did not find it.
ShownWasFound ==
    \A t \in Turns : \A c \in ToSet(shown[t]) :
        c.search \in DOMAIN bus /\ c.product \in bus[c.search].hits

\* One turn after the other: what the session remembers as recommended in a
\* turn was shown to the buyer in that turn, in the same order.  The buyer may
\* have been shown more.
RememberedWasShown ==
    ~overlapped => \A i \in DOMAIN log :
        LET remembered == log[i].products
        IN  remembered = Firsts(ProductsOf(shown[log[i].turn]), ToSet(remembered))

\* Reducing the same events once more changes nothing, not even the revision.
ReplayChangesNothing ==
    replay # Nothing => Reduced(replay.turn, replay.events, replay.selected, facts) = facts

\* The products recommended last, up to the bound, can be shown again without
\* a search: cutting the history turn by turn loses none of them.
HistoryIsRecent ==
    ProductsOf(facts.history) = Recent(Firsts(Named, Products))

\* What the session remembers as recommended is what it showed, stays what it
\* is when its events are reduced again, and holds the newest at its bound.
MemoryIsTrue == RememberedWasShown /\ ReplayChangesNothing /\ HistoryIsRecent
=============================================================================
