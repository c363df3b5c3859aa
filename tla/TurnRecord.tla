----------------------------- MODULE TurnRecord -----------------------------
(***************************************************************************)
(* What turns leave behind beside the agent's state: the preferences of    *)
(* the buyer, the semantic cache of replies in Redis, and the conversation *)
(* log in SQLite (app/application/agents/orchestrator.py,                  *)
(* app/infrastructure/cache/semantic_cache.py,                             *)
(* app/infrastructure/persistence/sql/repositories.py).                    *)
(*                                                                         *)
(* One action is the code between two awaits.  Turns of a session and of a *)
(* buyer may overlap.  Questions close enough for the cache are one model  *)
(* value.  Entries also vanish by their time to live; a bucket that is     *)
(* missing is read as one that could not be read.  What a turn alone knows *)
(* is dropped once its reply is out.                                       *)
(***************************************************************************)
EXTENDS Integers, Sequences, FiniteSets, SequencesExt

CONSTANTS
    TurnIds,
    SessionOf,    \* SessionOf[t]: the session of turn t
    QueryOf,      \* QueryOf[t]: what is asked, up to similarity
    Unsafe,       \* the questions is_cacheable_query() turns down
    Buyers,
    Kinds,        \* like and dislike
    Statements,   \* what a preference may say
    BucketLimit,  \* _BUCKET_LIMIT
    Absent,
    MaxBusy,      \* bound: turns that run at once
    MaxSlips,   \* bound: failing calls of Redis, the database, the embedder
    MaxTrouble    \* bound: those and changes of preferences together

ASSUME RecordAssumption ==
    /\ Absent \notin TurnIds
    /\ BucketLimit \in Nat \ {0}
    /\ MaxBusy \in Nat /\ MaxSlips \in Nat /\ MaxTrouble \in Nat

VARIABLES
    owner,    \* the buyer of each session, chosen at the beginning
    prefs,    \* prefs[b]: the rows of buyer_preferences in the order of their ids
    bucket,   \* the cached entries by buyer and scope
    opened,   \* sessions that have a row in conversation_sessions
    messages, \* messages[s]: the rows of conversation_messages as inserted
    traced,   \* turns whose events are in conversation_events
    begun,    \* sessions whose agent has messages in its context
    place,    \* place[t]: where handle_intent() is
    late,     \* late[t]: has_history
    scope,    \* scope[t]: the preferences it made its bucket's key of
    under,    \* under[t]: the preferences its reply knows of
    outcome,  \* outcome[t]: what the reply was
    loaded,   \* loaded[t]: the bucket as it was read, to be written back
    served,   \* served[t]: the entry that answered it
    seen,     \* seen[t]: the session's row was there
    top,      \* top[t]: the greatest turn_index it has read
    unsteady, \* history: turns whose buyer's preferences were changed by
              \* another turn, or could not be read, while they replied
    changes, slips

cacheVars  == <<bucket, loaded, served>>
logVars    == <<opened, messages, traced, seen, top>>
replyVars  == <<begun, late, outcome>>
prefVars   == <<prefs, under, unsteady, changes>>
recordVars == <<owner, cacheVars, logVars, replyVars, prefVars, place, scope, slips>>

Preferences == [kind : Kinds, says : Statements]
Sessions    == {SessionOf[t] : t \in TurnIds}
BuyerOf(t)  == owner[SessionOf[t]]
Roles       == {"buyer", "agent"}
Outcomes    == {"plain", "shown", "error"}
Messages    == [turn : TurnIds, role : Roles, index : Nat]
Entries     == [buyer : Buyers, query : {QueryOf[t] : t \in TurnIds},
                under : Seq(Preferences), steady : BOOLEAN, fit : BOOLEAN]

Waiting == {"scoping", "reading", "hinting", "asking", "replying", "rescoping",
            "loading", "storing"}
Writing == {"recording", "opening", "numbering", "writing", "renumbering",
            "rewriting", "tracing"}

RecordTypeOK ==
    /\ owner \in [Sessions -> Buyers]
    /\ prefs \in [Buyers -> Seq(Preferences)]
    /\ \A k \in DOMAIN bucket :
          k.buyer \in Buyers /\ k.scope \in Seq(Preferences) /\ bucket[k] \in Seq(Entries)
    /\ opened \subseteq Sessions /\ begun \subseteq Sessions
    /\ messages \in [Sessions -> Seq(Messages)]
    /\ traced \subseteq TurnIds /\ unsteady \subseteq TurnIds
    /\ place \in [TurnIds -> Waiting \cup Writing \cup {"idle", "over"}]
    /\ late \in [TurnIds -> BOOLEAN] /\ seen \in [TurnIds -> BOOLEAN]
    /\ scope \in [TurnIds -> Seq(Preferences)] /\ under \in [TurnIds -> Seq(Preferences)]
    /\ outcome \in [TurnIds -> Outcomes \cup {Absent}]
    /\ loaded \in [TurnIds -> Seq(Entries)]
    /\ served \in [TurnIds -> Entries \cup {Absent}]
    /\ top \in [TurnIds -> Nat]
    /\ changes \in 0..MaxTrouble /\ slips \in 0..MaxSlips

----------------------------------------------------------------------------
RecordInit ==
    /\ owner \in [Sessions -> Buyers]
    /\ prefs \in [Buyers -> {<<>>} \cup {<<p>> : p \in Preferences}]
    /\ bucket = <<>>
    /\ opened = {} /\ begun = {} /\ traced = {} /\ unsteady = {}
    /\ messages = [s \in Sessions |-> <<>>]
    /\ place = [t \in TurnIds |-> "idle"]
    /\ late = [t \in TurnIds |-> FALSE] /\ seen = [t \in TurnIds |-> FALSE]
    /\ scope = [t \in TurnIds |-> <<>>] /\ under = [t \in TurnIds |-> <<>>]
    /\ outcome = [t \in TurnIds |-> Absent]
    /\ loaded = [t \in TurnIds |-> <<>>]
    /\ served = [t \in TurnIds |-> Absent]
    /\ top = [t \in TurnIds |-> 0]
    /\ changes = 0 /\ slips = 0

MoveTo(t, from, to) == place[t] = from /\ place' = [place EXCEPT ![t] = to]

Calm   == slips + changes < MaxTrouble
Slip   == Calm /\ slips < MaxSlips /\ slips' = slips + 1
Fine   == UNCHANGED slips

\* A list of preferences once one is added or a statement is taken back.
With(list, p)    == IF Contains(list, p) THEN list ELSE Append(list, p)
Without(list, w) == SelectSeq(list, LAMBDA p : p.says # w)

\* Neither look-up nor remembering in the middle of a session, nor for a
\* question that writes or refers to what was said before.
Cacheable(t) == ~late[t] /\ QueryOf[t] \notin Unsafe

\* _bucket_key(), and the bucket under it.
Key(t)    == [buyer |-> BuyerOf(t), scope |-> scope[t]]
Cached(t) == IF Key(t) \in DOMAIN bucket THEN bucket[Key(t)] ELSE <<>>

\* lookup() takes the first of equally similar entries.
Matches(t) == {i \in DOMAIN Cached(t) : Cached(t)[i].query = QueryOf[t]}
Best(t)    == {Cached(t)[i] : i \in {j \in Matches(t) : \A k \in Matches(t) : j <= k}}

----------------------------------------------------------------------------
(***************************************************************************)
(* The look-up, the reply and the preferences it reads and changes.        *)
(***************************************************************************)
Ongoing == {t \in TurnIds : place[t] \notin {"idle", "over"}}

BeginTurn(t) ==
    /\ Cardinality(Ongoing) < MaxBusy
    /\ MoveTo(t, "idle", "scoping")
    /\ late' = [late EXCEPT ![t] = SessionOf[t] \in begun]
    /\ Fine /\ UNCHANGED <<owner, cacheVars, logVars, begun, outcome, prefVars, scope>>

\* _preference_scope() of the look-up; preferences that cannot be read are
\* taken for none.
ScopeLookup(t) ==
    /\ MoveTo(t, "scoping", IF Cacheable(t) THEN "reading" ELSE "hinting")
    /\ \/ scope' = [scope EXCEPT ![t] = prefs[BuyerOf(t)]] /\ Fine
       \/ Slip /\ UNCHANGED scope
    /\ UNCHANGED <<owner, cacheVars, logVars, replyVars, prefVars>>

Hit(t) ==
    /\ MoveTo(t, "reading", "recording")
    /\ \E best \in Best(t) : served' = [served EXCEPT ![t] = best]
    /\ Fine /\ UNCHANGED <<owner, bucket, loaded, logVars, replyVars, prefVars, scope>>

\* Nothing close, or the bucket could not be read, or no vector was had.
Miss(t) ==
    /\ MoveTo(t, "reading", "hinting")
    /\ IF Matches(t) = {} THEN Fine ELSE Slip
    /\ UNCHANGED <<owner, cacheVars, logVars, replyVars, prefVars, scope>>

\* What PreferenceSelector.select() puts before the model.  Its ranking, which
\* leaves out likes beyond the first few, depends on these and the question.
Selected(b) == prefs[b]

\* _build_inputs() reads the preferences again, for the model.
Hint(t) ==
    /\ MoveTo(t, "hinting", "asking")
    /\ \/ /\ under' = [under EXCEPT ![t] = Selected(BuyerOf(t))]
          /\ Fine /\ UNCHANGED unsteady
       \/ Slip /\ unsteady' = unsteady \cup {t} /\ UNCHANGED under
    /\ UNCHANGED <<owner, cacheVars, logVars, replyVars, prefs, changes, scope>>

AskModel(t) ==
    /\ MoveTo(t, "asking", "replying")
    /\ begun' = begun \cup {SessionOf[t]}
    /\ Fine /\ UNCHANGED <<owner, cacheVars, logVars, late, outcome, prefVars, scope>>

\* The turns whose reply or bucket rests on preferences read before.
Relying(b) == {u \in TurnIds : BuyerOf(u) = b /\ place[u] \in {"asking", "replying", "rescoping"}}

\* A tool of turn t has changed its buyer's preferences; its own reply knows.
Change(t, list, mine) ==
    /\ place[t] = "replying" /\ Calm
    /\ changes' = changes + 1
    /\ prefs' = [prefs EXCEPT ![BuyerOf(t)] = list]
    /\ under' = [under EXCEPT ![t] = mine]
    /\ unsteady' = unsteady \cup (Relying(BuyerOf(t)) \ {t})
    /\ Fine /\ UNCHANGED <<owner, cacheVars, logVars, replyVars, place, scope>>

RememberPreference(t, p) ==
    /\ ~Contains(prefs[BuyerOf(t)], p)
    /\ Change(t, With(prefs[BuyerOf(t)], p), With(under[t], p))

ForgetPreference(t, w) ==
    /\ \E p \in ToSet(prefs[BuyerOf(t)]) : p.says = w
    /\ Change(t, Without(prefs[BuyerOf(t)], w), Without(under[t], w))

\* Mutant: an error is remembered like an answer.
RemembersErrors(o) == o # "shown"

\* Neither product cards nor errors are remembered.
Remembers(o) == o = "plain"

\* The reply: text, text with product cards, or an error or interruption.
Reply(t, o) ==
    /\ MoveTo(t, "replying", IF Remembers(o) THEN "rescoping" ELSE "recording")
    /\ outcome' = [outcome EXCEPT ![t] = o]
    /\ Fine /\ UNCHANGED <<owner, cacheVars, logVars, begun, late, prefVars, scope>>

----------------------------------------------------------------------------
(***************************************************************************)
(* Remembering the reply.                                                  *)
(***************************************************************************)
\* Mutant: the scope of the look-up is used again.
ScopeKept(t) ==
    /\ MoveTo(t, "rescoping", IF Cacheable(t) THEN "loading" ELSE "recording")
    /\ Fine /\ UNCHANGED <<owner, cacheVars, logVars, replyVars, prefVars, scope>>

\* _preference_scope(), read a third time.
ScopeRemember(t) ==
    /\ MoveTo(t, "rescoping", IF Cacheable(t) THEN "loading" ELSE "recording")
    /\ \/ /\ scope' = [scope EXCEPT ![t] = prefs[BuyerOf(t)]]
          /\ Fine /\ UNCHANGED unsteady
       \/ /\ scope' = [scope EXCEPT ![t] = <<>>]
          /\ Slip /\ unsteady' = unsteady \cup {t}
    /\ UNCHANGED <<owner, cacheVars, logVars, replyVars, prefs, under, changes>>

LoadBucket(t) ==
    /\ MoveTo(t, "loading", "storing")
    /\ \/ loaded' = [loaded EXCEPT ![t] = Cached(t)] /\ Fine
       \/ Slip /\ UNCHANGED loaded
    /\ UNCHANGED <<owner, bucket, served, logVars, replyVars, prefVars, scope>>

\* The bucket as it was read, with the new entry, replaces what is there.
Store(t) ==
    /\ MoveTo(t, "storing", "recording")
    /\ LET entry == [buyer |-> BuyerOf(t), query |-> QueryOf[t], under |-> under[t],
                     steady |-> t \notin unsteady,
                     fit |-> outcome[t] = "plain" /\ Cacheable(t)]
           all   == Append(loaded[t], entry)
           kept  == SubSeq(all, IF Len(all) > BucketLimit THEN Len(all) - BucketLimit + 1
                                ELSE 1, Len(all))
       IN  bucket' = [k \in DOMAIN bucket \cup {Key(t)} |->
                         IF k = Key(t) THEN kept ELSE bucket[k]]
    /\ loaded' = [loaded EXCEPT ![t] = <<>>]
    /\ Fine /\ UNCHANGED <<owner, served, logVars, replyVars, prefVars, scope>>

\* No vector for the question, or the write fails: the turn goes on.
NotStored(t) ==
    /\ place[t] \in {"loading", "storing"}
    /\ place' = [place EXCEPT ![t] = "recording"]
    /\ Slip
    /\ UNCHANGED <<owner, cacheVars, logVars, replyVars, prefVars, scope>>

----------------------------------------------------------------------------
(***************************************************************************)
(* _record_conversation().                                                 *)
(***************************************************************************)
Apart == <<owner, cacheVars, replyVars, prefVars, scope>>

\* touch_session() looks for the row ...
Touch(t) ==
    /\ \/ /\ MoveTo(t, "recording", "opening")
          /\ seen' = [seen EXCEPT ![t] = SessionOf[t] \in opened] /\ Fine
       \/ MoveTo(t, "recording", "over") /\ Slip /\ UNCHANGED seen
    /\ late' = [late EXCEPT ![t] = FALSE] /\ outcome' = [outcome EXCEPT ![t] = Absent]
    /\ scope' = [scope EXCEPT ![t] = <<>>] /\ under' = [under EXCEPT ![t] = <<>>]
    /\ loaded' = [loaded EXCEPT ![t] = <<>>] /\ served' = [served EXCEPT ![t] = Absent]
    /\ unsteady' = unsteady \ {t}
    /\ UNCHANGED <<owner, bucket, begun, prefs, changes, opened, messages, traced, top>>

\* Mutant: the row is inserted whether it was seen or not.
OpenBlindly(t) ==
    /\ MoveTo(t, "opening", IF SessionOf[t] \notin opened THEN "numbering" ELSE "over")
    /\ opened' = opened \cup {SessionOf[t]}
    /\ Fine /\ UNCHANGED <<Apart, messages, traced, seen, top>>

\* ... and updates it, or inserts it, which fails if another turn has done so
\* meanwhile: nothing of this turn is recorded.
OpenSession(t) ==
    /\ MoveTo(t, "opening", IF seen[t] \/ SessionOf[t] \notin opened THEN "numbering" ELSE "over")
    /\ opened' = opened \cup {SessionOf[t]}
    /\ Fine /\ UNCHANGED <<Apart, messages, traced, seen, top>>

Numbering == [buyer |-> "numbering", agent |-> "renumbering"]
Inserting == [buyer |-> "writing", agent |-> "rewriting"]
Inserted  == [buyer |-> "renumbering", agent |-> "tracing"]

Indexes(s) == {m.index : m \in ToSet(messages[s])}
Greatest(s) == IF Indexes(s) = {} THEN 0 ELSE Max(Indexes(s))

\* Mutant: the answer goes by the number read for the question.
NumberOnce(t, role) ==
    /\ MoveTo(t, Numbering[role], Inserting[role])
    /\ top' = IF role = "buyer" THEN [top EXCEPT ![t] = Greatest(SessionOf[t])] ELSE top
    /\ Fine /\ UNCHANGED <<Apart, opened, messages, traced, seen>>

\* append_turn() reads the greatest index of the session ...
Number(t, role) ==
    /\ MoveTo(t, Numbering[role], Inserting[role])
    /\ top' = [top EXCEPT ![t] = Greatest(SessionOf[t])]
    /\ Fine /\ UNCHANGED <<Apart, opened, messages, traced, seen>>

\* ... and inserts the message with the next one.
Insert(t, role) ==
    /\ MoveTo(t, Inserting[role], Inserted[role])
    /\ messages' = [messages EXCEPT ![SessionOf[t]] =
                       Append(@, [turn |-> t, role |-> role, index |-> top[t] + 1])]
    /\ Fine /\ UNCHANGED <<Apart, opened, traced, seen, top>>

\* append_events().
Trace(t) ==
    /\ MoveTo(t, "tracing", "over")
    /\ traced' = traced \cup {t}
    /\ Fine /\ UNCHANGED <<Apart, opened, messages, seen, top>>

\* A statement fails: the rest of the record is left out.
RecordFails(t) ==
    /\ place[t] \in Writing \ {"recording"}
    /\ place' = [place EXCEPT ![t] = "over"]
    /\ Slip
    /\ UNCHANGED <<Apart, logVars>>

Recording(t) ==
    \/ Touch(t) \/ OpenSession(t) \/ Trace(t) \/ RecordFails(t)
    \/ \E role \in Roles : Number(t, role) \/ Insert(t, role)

RecordNext ==
    \E t \in TurnIds :
        \/ BeginTurn(t) \/ ScopeLookup(t) \/ Hit(t) \/ Miss(t) \/ Hint(t) \/ AskModel(t)
        \/ \E p \in Preferences : RememberPreference(t, p)
        \/ \E w \in Statements : ForgetPreference(t, w)
        \/ \E o \in Outcomes : Reply(t, o)
        \/ ScopeRemember(t) \/ LoadBucket(t) \/ Store(t) \/ NotStored(t)
        \/ Recording(t)

RecordSpec == RecordInit /\ [][RecordNext]_recordVars

----------------------------------------------------------------------------
(* Properties. *)

\* A reply is used again only for the buyer it was written for and the
\* question it answers, and only if it was a plain answer at the beginning of
\* a session, whichever buckets overlapping turns have written back.
HitIsOwn ==
    \A t \in TurnIds : served[t] # Absent =>
        served[t].buyer = BuyerOf(t) /\ served[t].query = QueryOf[t] /\ served[t].fit

\* A reply is used again only under the very preferences it was written
\* under, those its own turn has changed on the way included, unless another
\* turn has changed them or they could not be read while it was written.
HitsAreCurrent ==
    \A t \in TurnIds : served[t] # Absent /\ served[t].steady => served[t].under = scope[t]

\* A reply never outlives the preferences it was written under
\* (app/infrastructure/cache/semantic_cache.py:11).
NoStaleReply ==
    \A t \in TurnIds : served[t] # Absent => served[t].under = scope[t]

Recorded(t) ==
    /\ t \in traced
    /\ \A role \in Roles :
          \E m \in ToSet(messages[SessionOf[t]]) : m.turn = t /\ m.role = role

\* The log of a session reads back from 1 on without a gap, and every question
\* before its answer, however the turns that wrote it overlapped or broke off.
LogReadable ==
    \A s \in Sessions :
        /\ Indexes(s) = 1..Greatest(s)
        /\ \A m, n \in ToSet(messages[s]) :
              m.turn = n.turn /\ m.role = "buyer" /\ n.role = "agent" => m.index < n.index

\* Only a turn that raced for the first row of its session loses its record,
\* and never all of them.
RecordKept ==
    slips = 0 =>
        /\ \A t \in TurnIds : place[t] = "over" /\ seen[t] => Recorded(t)
        /\ \A s \in Sessions :
              (\A t \in TurnIds : SessionOf[t] = s => place[t] = "over")
              => \E t \in TurnIds : SessionOf[t] = s /\ Recorded(t)

----------------------------------------------------------------------------
(***************************************************************************)
(* The inductive invariants of the properties.                             *)
(***************************************************************************)
\* What is cached for a buyer and a set of preferences, or was read of it to
\* be written back, is the buyer's own, fit to be used again, and written under
\* these preferences if its turn was not disturbed.  Until then an undisturbed
\* turn knows the preferences as they are.
Fits(e, b, sc) == e.buyer = b /\ e.fit /\ (e.steady => e.under = sc)
IsSeq(x)       == x \in Seq(ToSet(x))
Own(entries, b, sc) == IsSeq(entries) /\ \A e \in ToSet(entries) : Fits(e, b, sc)

CacheInv ==
    /\ owner \in [Sessions -> Buyers]
    /\ place \in [TurnIds -> Waiting \cup Writing \cup {"idle", "over"}]
    /\ outcome \in [TurnIds -> Outcomes \cup {Absent}] /\ late \in [TurnIds -> BOOLEAN]
    /\ DOMAIN prefs = Buyers /\ DOMAIN under = TurnIds /\ DOMAIN scope = TurnIds
    /\ DOMAIN loaded = TurnIds /\ DOMAIN served = TurnIds
    /\ \A k \in DOMAIN bucket : Own(bucket[k], k.buyer, k.scope)
    /\ \A t \in TurnIds :
          /\ place[t] \notin {"storing", "recording"} => loaded[t] = <<>>
          /\ place[t] = "storing" => Own(loaded[t], BuyerOf(t), scope[t])
          /\ place[t] # "recording" => served[t] = Absent
          /\ served[t] # Absent =>
                served[t].query = QueryOf[t] /\ Fits(served[t], BuyerOf(t), scope[t])
          /\ place[t] \in {"rescoping", "loading", "storing"} => outcome[t] = "plain"
          /\ place[t] \in {"loading", "storing"} => Cacheable(t)
          /\ place[t] \in {"asking", "replying", "rescoping"} /\ t \notin unsteady =>
                under[t] = prefs[BuyerOf(t)]
          /\ place[t] \in {"loading", "storing"} /\ t \notin unsteady => under[t] = scope[t]

\* A number read is never above the greatest one, and a turn has no message
\* before it has inserted it.
LogInv ==
    /\ place \in [TurnIds -> Waiting \cup Writing \cup {"idle", "over"}]
    /\ messages \in [Sessions -> Seq(Messages)] /\ top \in [TurnIds -> Nat]
    /\ \A s \in Sessions : Indexes(s) = 1..Greatest(s) /\ Greatest(s) \in Nat
    /\ \A t \in TurnIds : top[t] <= Greatest(SessionOf[t])
    /\ \A s \in Sessions : \A m \in ToSet(messages[s]) :
          /\ SessionOf[m.turn] = s
          /\ m.role = "buyer" => place[m.turn] \in {"renumbering", "rewriting", "tracing", "over"}
          /\ m.role = "agent" => place[m.turn] \in {"tracing", "over"}
          /\ place[m.turn] = "rewriting" => m.index <= top[m.turn]
    /\ LogReadable

\* Without a mishap a turn has written what it has passed, and a session whose
\* row is there has a turn that writes or has written its record.
Written(t, role) == \E m \in ToSet(messages[SessionOf[t]]) : m.turn = t /\ m.role = role

KeptInv ==
    /\ slips \in Nat /\ seen \in [TurnIds -> BOOLEAN]
    /\ slips = 0 =>
        /\ \A t \in TurnIds :
              /\ place[t] \in {"renumbering", "rewriting", "tracing"} => Written(t, "buyer")
              /\ place[t] = "tracing" => Written(t, "agent")
              /\ place[t] = "over" => Recorded(t) \/ (~seen[t] /\ SessionOf[t] \in opened)
        /\ \A s \in opened : \E t \in TurnIds :
              /\ SessionOf[t] = s
              /\ place[t] \in {"numbering", "writing", "renumbering", "rewriting", "tracing"}
                 \/ Recorded(t)
=============================================================================
