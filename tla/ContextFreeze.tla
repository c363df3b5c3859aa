--------------------------- MODULE ContextFreeze ---------------------------
(***************************************************************************)
(* The main agent's context over a long session: the raw messages, which   *)
(* are never deleted, and what the model is shown of them                  *)
(* (app/application/context/lifecycle.py, compactor.py, assembler.py,      *)
(* app/infrastructure/context_middleware.py).  Before every model call the *)
(* complete turns older than the hot window are frozen into segments (L2), *)
(* and when the input grows too long the older segments are folded into    *)
(* one stage summary of shopping journeys (L3).  The model sees the        *)
(* summary, the segments it does not cover, and the raw messages from the  *)
(* freeze cursor on.                                                       *)
(*                                                                         *)
(* A message is one block of the context.  An assistant text stands for a  *)
(* text or a successful structured output.  Lists that only grow at their  *)
(* end (segments, sources) are sets ordered by position.  Sizes in tokens  *)
(* are small numbers: a summary grows with its journeys and facts.         *)
(***************************************************************************)
EXTENDS Integers, Sequences, FiniteSets, SequencesExt

CONSTANTS
    Turns,         \* the intents to come
    Earlier,       \* numbers of turns an old snapshot may hold
    Topics,        \* what a question may be: "start", "follow", "probe"
    Hinted,        \* the turns whose buyer has preferences on record
    Tools,         \* tools a turn may call: "search", "order"
    HotTurns,      \* policy.l2_hot_turns
    KeepRecent,    \* policy.l3_keep_recent_frozen_segments, at most l3_max
    RecentLimit,   \* policy.l3_recent_frozen_token_limit
    MinRecent,     \* policy.l3_min_recent_frozen_segments
    SegmentSize, FixedSize,              \* tokens of a segment, of the fixed prompt
    Available, SoftLimit, MaxAfter, HardLimit,
    NoStage,
    MaxMishaps     \* bound: failed replies, interruptions, restarts, failed
                   \* saves, and turns begun while another one runs

ASSUME FreezeAssumption ==
    /\ HotTurns \in Nat \ {0} /\ KeepRecent \in Nat /\ MinRecent \in Nat
    /\ SegmentSize \in Nat
    /\ \A n \in Earlier : n \in Nat
    /\ Hinted \subseteq Turns
    /\ MaxMishaps \in Nat

VARIABLES
    messages,   \* AgentState.context
    cursor,     \* freeze_cursor: messages 1..cursor are frozen
    frozen,     \* frozen_segments
    stage,      \* stage_summary, or NoStage
    snapshot,      \* the snapshot of these four in the database
    at,         \* at[t]: where the turn is
    overlapped, \* history: two turns have run at once
    mishaps

context    == <<messages, cursor, frozen, stage>>
freezeVars == <<messages, cursor, frozen, stage, snapshot, at, overlapped, mishaps>>

Outcomes == {"completed", "error", "interrupted"}
Places   == {"idle", "asked", "thinking", "acting", "ending", "over", "lost"}

Message(kind, turn, tag, text) ==
    [kind |-> kind, turn |-> turn, tag |-> tag, text |-> text]

----------------------------------------------------------------------------
(***************************************************************************)
(* Interaction units: lifecycle.py.                                        *)
(***************************************************************************)
Asks == {i \in DOMAIN messages : messages[i].kind = "buyer"}

\* A preference hint belongs to the question it precedes.
Opens(i) == IF i > 1 /\ messages[i - 1].kind = "hint" THEN i - 1 ELSE i

Closes(i) ==
    LET later == {Opens(j) : j \in {k \in Asks : k > i}}
    IN  IF later = {} THEN Len(messages) ELSE Min(later) - 1

Units == {[from |-> Opens(i), ask |-> i, upto |-> Closes(i)] : i \in Asks}

In(u, kind) == {i \in (u.ask + 1)..u.upto : messages[i].kind = kind}

\* Messages of the assistant with text, in a unit.
Texts(u) == {i \in (u.ask + 1)..u.upto : messages[i].text}

\* Every call has its result in the unit, every result its call, and there
\* is an answer.
Complete(u) ==
    /\ \A i \in In(u, "call") : \E j \in In(u, "result") :
           j > i /\ messages[j].turn = messages[i].turn
    /\ \A j \in In(u, "result") : \E i \in In(u, "call") :
           i < j /\ messages[i].turn = messages[j].turn
    /\ Texts(u) # {}

\* Mutant: the hot window leaves out the current turn.
CoolEarly == {u \in Units : Cardinality({i \in Asks : i > u.ask}) >= HotTurns - 1}

\* Units older than the hot window, which holds the current turn.
Cool == {u \in Units : Cardinality({i \in Asks : i > u.ask}) >= HotTurns}

\* agent.state.get_unfinished_tool_calls()
Unfinished == messages # <<>> /\ Last(messages).kind = "call"

\* settled_prefix_units(): the complete units that follow the cursor.
Settled ==
    {u \in Cool :
        /\ ~Unfinished
        /\ \E v \in Cool : v.from = cursor + 1
        /\ u.from > cursor
        /\ \A v \in Cool : v.from \in (cursor + 1)..u.from => Complete(v)}

\* compact_interaction(): what a segment keeps of its unit.
Compact(u) ==
    LET failed == {i \in Texts(u) : messages[i].tag \in {"error", "interrupted"}}
    IN  [from    |-> u.from,
         upto    |-> u.upto,
         topic   |-> messages[u.ask].tag,
         tools   |-> {messages[i].tag : i \in In(u, "call")},
         answer  |-> messages[Max(Texts(u))].turn,
         outcome |-> IF failed = {} THEN "completed" ELSE messages[Max(failed)].tag]

----------------------------------------------------------------------------
(***************************************************************************)
(* The stage summary: summarize_frozen_segments().                         *)
(***************************************************************************)
NoFacts == [tool \in Tools |-> 0]

\* Mutant: a fact once known is not replaced.
NewerOnce(facts, segment) ==
    [tool \in Tools |-> IF tool \in segment.tools /\ facts[tool] = 0 THEN segment.from
                        ELSE facts[tool]]

\* A segment's facts replace older ones of the same key, which is the tool.
Newer(facts, segment) ==
    [tool \in Tools |-> IF tool \in segment.tools THEN segment.from ELSE facts[tool]]

\* The last journey takes in another turn; 0 is no number.
Continued(journeys, turn) ==
    IF turn = 0 THEN journeys ELSE [journeys EXCEPT ![Len(journeys)].last = turn]

Journey(segment, turn) == [from |-> segment.from, first |-> turn, last |-> turn]

\* A question that is no probe of the memory opens or continues a journey,
\* as the next turn if turns are counted.
Absorb(memory, segment) ==
    LET turn  == IF memory.counts THEN memory.turn + 1 ELSE 0
        facts == Newer(memory.facts, segment)
        opens == "search" \in segment.tools \/ segment.topic = "start"
                 \/ memory.journeys = <<>>
    IN  IF segment.topic = "probe"
          THEN [memory EXCEPT !.facts = facts]
          ELSE [counts   |-> memory.counts,
                turn     |-> turn,
                facts    |-> facts,
                journeys |-> IF opens THEN Append(memory.journeys, Journey(segment, turn))
                             ELSE Continued(memory.journeys, turn)]

\* The segments are absorbed in the order of their beginnings.
Absorbed(memory, segments) ==
    LET upto[n \in 0..Len(messages)] ==
            IF n = 0 THEN memory
            ELSE LET here == {s \in segments : s.from = n}
                 IN  IF here = {} THEN upto[n - 1]
                     ELSE Absorb(upto[n - 1], CHOOSE s \in here : TRUE)
    IN  upto[Len(messages)]

\* What an existing summary hands on: the last turn number of its journeys.
\* If it has none, its turns being probes, the next ones are not counted.
Recalled(old) ==
    IF old = NoStage
      THEN [counts |-> TRUE, turn |-> 0, facts |-> NoFacts, journeys |-> <<>>]
      ELSE [counts |-> old.journeys # <<>>,
            turn   |-> IF old.journeys = <<>> THEN 0 ELSE Last(old.journeys).last,
            facts  |-> old.facts, journeys |-> old.journeys]

Sources(old) == IF old = NoStage THEN {} ELSE old.sources

\* _summary_rebuild_inputs(): a summary of an older schema is rebuilt from
\* the segments it covers.
Summarise(segments, old) ==
    LET legacy  == old # NoStage /\ old.legacy
        fresh   == IF legacy THEN segments \cup old.sources ELSE segments
        base    == IF legacy THEN NoStage ELSE old
        memory  == Absorbed(Recalled(base), fresh)
    IN  [sources    |-> Sources(base) \cup fresh,
         journeys   |-> memory.journeys,
         facts      |-> memory.facts,
         generation |-> IF base = NoStage THEN 1 ELSE base.generation + 1,
         legacy     |-> FALSE]

StageSize(s) ==
    IF s = NoStage THEN 0
    ELSE 1 + Len(s.journeys) + Cardinality({tool \in Tools : s.facts[tool] # 0})

\* _build_and_validate_summary() fails for a summary that is too long.
Valid(s) == StageSize(s) <= HardLimit

----------------------------------------------------------------------------
(***************************************************************************)
(* One advance before a model call: advance_context_state().               *)
(***************************************************************************)
\* The result of a tool is counted among the messages and once more.
RawSize(from) ==
    Len(messages) - from
    + Cardinality({i \in (from + 1)..Len(messages) : messages[i].kind = "result"})

InputSize(segments, from, s) ==
    FixedSize + StageSize(s) + SegmentSize * Cardinality(segments \ Sources(s)) + RawSize(from)

NeedsSummary(segments, from, s) ==
    /\ FixedSize + RawSize(from) <= Available
    /\ segments # {}
    /\ \/ InputSize(segments, from, s) > Available
       \/ InputSize(segments, from, s) > SoftLimit

\* Mutant: the newest segments are folded and the oldest stay.
AllButOldest(n, segments) ==
    {s \in segments : Cardinality({t \in segments : t.from < s.from}) >= n}

\* All but the newest n of the segments no summary covers.
AllBut(n, segments) ==
    {s \in segments : Cardinality({t \in segments : t.from > s.from}) >= n}

\* How many of the segments stay beside a summary at most: as many of the
\* newest as the policy names, and fewer while they are too long.
Kept(segments) ==
    Max({0} \cup {n \in 1..Min({Cardinality(segments), KeepRecent}) :
                      n * SegmentSize <= RecentLimit})

\* The summary that replaces s, or s: the newest segments stay as they are,
\* fewer and fewer of them until the input is short enough.
Folded(segments, from, s) ==
    LET uncovered == segments \ Sources(s)
        most      == Kept(uncovered)
        least     == Min({MinRecent, most})
        summary(n) == Summarise(AllBut(n, uncovered), s)
        size(n)    == InputSize(segments, from, summary(n))
        kept      == Max({n \in least..most : size(n) <= MaxAfter} \cup {least})
        failed    == \E n \in kept..most : ~Valid(summary(n))
    IN  IF /\ NeedsSummary(segments, from, s)
           /\ AllBut(most, uncovered) # {}
           /\ ~failed
           /\ size(kept) < InputSize(segments, from, s)
           /\ size(kept) <= MaxAfter
          THEN summary(kept)
          ELSE s

Freeze ==
    LET segments == frozen \cup {Compact(u) : u \in Settled}
        from     == Max({u.upto : u \in Settled} \cup {cursor})
    IN  /\ frozen' = segments
        /\ cursor' = from
        /\ stage' = Folded(segments, from, stage)

----------------------------------------------------------------------------
(***************************************************************************)
(* The turns of the session.                                               *)
(***************************************************************************)
Snapshot == [messages |-> messages, cursor |-> cursor, frozen |-> frozen, stage |-> stage]

\* A session of n earlier turns, answered and frozen up to the last one; a
\* summary of an older schema covers all but the newest of its segments.
Past(n) ==
    LET old     == [i \in 1..n - 1 |-> [from |-> 2 * i - 1, upto |-> 2 * i,
                                        topic |-> "follow", tools |-> {}, answer |-> i,
                                        outcome |-> "completed"]]
        covered == {old[i] : i \in 1..n - 2}
    IN  [messages |-> [i \in 1..2 * n |-> IF i % 2 = 1
                          THEN Message("buyer", (i + 1) \div 2, "follow", FALSE)
                          ELSE Message("text", i \div 2, "completed", TRUE)],
         cursor   |-> IF n = 0 THEN 0 ELSE 2 * (n - 1),
         frozen   |-> {old[i] : i \in 1..n - 1},
         stage    |-> IF covered = {} THEN NoStage
                      ELSE [sources |-> covered, journeys |-> <<>>, facts |-> NoFacts,
                            generation |-> 1, legacy |-> TRUE]]

Load(s) ==
    /\ messages' = s.messages /\ cursor' = s.cursor
    /\ frozen' = s.frozen /\ stage' = s.stage

FreezeInit ==
    /\ \E n \in Earlier : snapshot = Past(n)
    /\ messages = snapshot.messages /\ cursor = snapshot.cursor
    /\ frozen = snapshot.frozen /\ stage = snapshot.stage
    /\ at = [t \in Turns |-> "idle"]
    /\ overlapped = FALSE
    /\ mishaps = 0

Live == {t \in Turns : at[t] \notin {"idle", "over", "lost"}}
Move(t, from, to) == at[t] = from /\ at' = [at EXCEPT ![t] = to]

Mishap == mishaps < MaxMishaps /\ mishaps' = mishaps + 1

Says(m) == messages' = Append(messages, m) /\ UNCHANGED <<cursor, frozen, stage>>

\* The reply appends the question, with the hint on the buyer's preferences.
\* Nothing keeps it from doing so while another turn of the session runs.
Ask(t, topic) ==
    /\ IF Live = {} THEN UNCHANGED <<overlapped, mishaps>> ELSE Mishap /\ overlapped' = TRUE
    /\ Move(t, "idle", "asked")
    /\ LET hint == IF t \in Hinted THEN <<Message("hint", t, "hint", FALSE)>> ELSE <<>>
       IN  messages' = messages \o hint \o <<Message("buyer", t, topic, FALSE)>>
    /\ UNCHANGED <<cursor, frozen, stage, snapshot>>

CallModel(t) ==
    /\ Move(t, "asked", "thinking")
    /\ Freeze
    /\ UNCHANGED <<messages, snapshot, overlapped, mishaps>>

\* The model asks for a tool, with or without a text beside the call.
CallTool(t, tool, text) ==
    /\ \A i \in DOMAIN messages :
           ~(messages[i].kind = "call" /\ messages[i].turn = t)
    /\ Move(t, "thinking", "acting")
    /\ Says(Message("call", t, tool, text))
    /\ UNCHANGED <<snapshot, overlapped, mishaps>>

ToolReturns(t) ==
    /\ Move(t, "acting", "asked")
    /\ Says(Message("result", t, "result", FALSE))
    /\ UNCHANGED <<snapshot, overlapped, mishaps>>

Answer(t) ==
    /\ Move(t, "thinking", "ending")
    /\ Says(Message("text", t, "completed", TRUE))
    /\ UNCHANGED <<snapshot, overlapped, mishaps>>

\* Where the reply runs: at the model, or at a tool, whose output may fail to
\* be stored or reduced.
Replying(t) == at[t] \in {"thinking", "acting"}

\* A transient failure: the reply is tried again, without the question.  A
\* tool that was running is called again with the call that has no result, or
\* the model is asked at once; the agent library decides which.
Retry(t) ==
    /\ Replying(t) /\ Mishap
    /\ \E place \in {"asked", at[t]} :
          /\ place # "thinking"
          /\ at' = [at EXCEPT ![t] = place]
    /\ UNCHANGED <<context, snapshot, overlapped>>

\* Mutant: nothing is appended when the reply fails.
FailSilently(t, outcome) ==
    /\ Replying(t) /\ Mishap
    /\ at' = [at EXCEPT ![t] = "ending"]
    /\ UNCHANGED <<context, snapshot, overlapped>>

\* A failed or interrupted reply is closed by a message that says so.  A call
\* the tool had not answered stays without its result.
Fail(t, outcome) ==
    /\ Replying(t) /\ Mishap
    /\ at' = [at EXCEPT ![t] = "ending"]
    /\ Says(Message("text", t, outcome, TRUE))
    /\ UNCHANGED <<snapshot, overlapped>>

\* A save that fails is only warned of.
Persist(t) ==
    /\ Move(t, "ending", "over")
    /\ \/ snapshot' = Snapshot /\ UNCHANGED mishaps
       \/ UNCHANGED snapshot /\ Mishap
    /\ UNCHANGED <<context, overlapped>>

\* The process dies; the next turn begins from the snapshot.
Restart ==
    /\ Live # {} /\ Mishap
    /\ at' = [t \in Turns |-> IF t \in Live THEN "lost" ELSE at[t]]
    /\ Load(snapshot)
    /\ UNCHANGED <<snapshot, overlapped>>

TurnSteps(t) ==
    \/ \E topic \in Topics : Ask(t, topic)
    \/ CallModel(t)
    \/ \E tool \in Tools, text \in BOOLEAN : CallTool(t, tool, text)
    \/ ToolReturns(t)
    \/ Answer(t)
    \/ Retry(t)
    \/ \E outcome \in {"error", "interrupted"} : Fail(t, outcome)
    \/ Persist(t)

FreezeNext ==
    \/ \E t \in Turns : TurnSteps(t)
    \/ Restart

FreezeSpec == FreezeInit /\ [][FreezeNext]_freezeVars

----------------------------------------------------------------------------
(***************************************************************************)
(* Properties.                                                             *)
(***************************************************************************)
Segments == [from : Nat, upto : Nat, topic : Topics, tools : SUBSET Tools,
             answer : Turns \cup Nat, outcome : Outcomes]

\* The messages, the segments and the summary are well formed.
FreezeTypeOK ==
    /\ \A i \in DOMAIN messages :
           messages[i].kind \in {"hint", "buyer", "call", "result", "text"}
    /\ cursor \in 0..Len(messages)
    /\ frozen \subseteq Segments
    /\ stage # NoStage => /\ stage.sources \subseteq Segments
                          /\ stage.generation \in Nat \ {0}
    /\ at \in [Turns -> Places]
    /\ overlapped \in BOOLEAN
    /\ mishaps \in 0..MaxMishaps

\* The model is shown the whole session once: the segments cover the
\* messages up to the cursor without a gap or an overlap, and the summary
\* covers a run of the oldest of them.
NothingLost ==
    /\ \A i \in 1..cursor : Cardinality({s \in frozen : i \in s.from..s.upto}) = 1
    /\ \A s \in frozen : s.upto <= cursor
    /\ \A s \in Sources(stage) : \A t \in frozen : t.from < s.from => t \in Sources(stage)
    /\ Sources(stage) \subseteq frozen

\* A segment is what its messages would be compacted to today: no message
\* that came later belongs to a turn already frozen, also after a restart.
FrozenStaysTrue ==
    \A s \in frozen : \E u \in Units : Complete(u) /\ s = Compact(u)

\* A message follows a call without its result: the reply failed, or was
\* interrupted, while the tool ran.
Abandoned ==
    \E i \in 1..Len(messages) - 1 :
        messages[i].kind = "call" /\ messages[i + 1].kind # "result"

\* At a model call the raw part holds the hot window's turns and no other.
OnlyHotIsRaw ==
    \A t \in Turns : at[t] = "thinking" => Cardinality({i \in Asks : i > cursor}) <= HotTurns

\* Turns in turn whose calls all got their results never leave freezing
\* blocked behind an unfinished one, also after failures and interruptions at
\* the model, retries and restarts.
NeverBlocked == ~overlapped /\ ~Abandoned => OnlyHotIsRaw

\* "Persist the terminal failure so later turns do not leave L2 blocked behind
\* an apparently unfinished interaction" (_handle_intent_in_context).  They
\* do, if it failed while a tool ran: the text that is appended completes no
\* unit in which a call has no result.
FailureNeverBlocks == ~overlapped => OnlyHotIsRaw

\* The number of a question among the buyer's questions that are no probes.
Authored(i) == Cardinality({j \in Asks : j <= i /\ messages[j].tag # "probe"})

\* A journey carries the buyer's own turn numbers, and the journeys leave no
\* turn out: the summary can be asked for the n-th turn.  Only a session that
\* began with a probe has a first journey without a number.
JourneysNumberTurns ==
    stage # NoStage /\ ~stage.legacy /\ stage.journeys # <<>> =>
        LET journeys == stage.journeys
            covered  == {u \in Units : \E s \in stage.sources : s.from = u.from}
        IN  IF journeys[1].first = 0
            THEN \E u \in covered : u.from = 1 /\ messages[u.ask].tag = "probe"
            ELSE /\ journeys[1].first = 1
                 /\ \A k \in DOMAIN journeys :
                      /\ \E u \in covered : u.from = journeys[k].from
                                            /\ Authored(u.ask) = journeys[k].first
                      /\ journeys[k].last = IF k < Len(journeys) THEN journeys[k + 1].first - 1
                                            ELSE Max({Authored(u.ask) : u \in covered})

\* "shopping_journeys.authored_turn_start/end are the original buyer-authored
\* business turn numbers" (turn_reference_policy, which the model reads with
\* the summary).  They are not: a summary of probes alone hands on no number,
\* so that the next one gives none and the one after begins again at 1.
NumbersAreOriginal ==
    stage # NoStage /\ ~stage.legacy =>
        \A k \in DOMAIN stage.journeys : stage.journeys[k].first # 0 =>
            \E u \in Units : u.from = stage.journeys[k].from
                             /\ Authored(u.ask) = stage.journeys[k].first

\* The newest state of a tool's fact wins: no summary revives an older one.
NewestFactWins ==
    stage # NoStage /\ ~stage.legacy =>
        \A tool \in Tools : \A s \in stage.sources :
            tool \in s.tools => s.from <= stage.facts[tool]

\* The summary of what is frozen tells the truth, however often it was folded:
\* its journeys carry the buyer's turn numbers and its facts are the newest.
SummaryIsTrue == JourneysNumberTurns /\ NewestFactWins

=============================================================================
