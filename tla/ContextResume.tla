--------------------------- MODULE ContextResume ---------------------------
(***************************************************************************)
(* The evaluation of context compression: a long session of authored       *)
(* queries until its context is compressed (L3), probes of what the        *)
(* summary still knows (scripts/eval/context_compression_runner.py), runs  *)
(* that resume from a clone of a session and may themselves be interrupted *)
(* and continued (context_resume_runner.py), and the reader of what they   *)
(* leave (rubric_context_artifact.py).                                     *)
(*                                                                         *)
(* One script runs at a time.  A session is the sequence of its questions; *)
(* a turn that raises ends the script and leaves no complete unit, as if   *)
(* it had not been asked.  Token counts and cache ratios, which decide     *)
(* nothing here, are left out; what depends on them is chosen.             *)
(***************************************************************************)
EXTENDS Naturals, SequencesExt

CONSTANTS
    Queries,      \* authored queries of the scenario
    WarmQueries,  \* queries of the warm-cache window
    Needs,        \* Needs[p]: compressions that probe p asks for
    Exacting,     \* probes that forbid a search and ask for the facts of the
                  \* anchor or for fragments of the request
    Production,   \* the context size and its soft limit are those of production
    Target,       \* compressions a long run asks for
    Cumulative,   \* turns of a real long session
    StallAfter,   \* turns after which a lifecycle that never froze is noticed
    MaxTrigger,   \* authored queries of one resumed run
    Repeats,      \* compressions of a repeated artifact
    Absent,       \* a file or a field that is not there
    MaxDirs,      \* bound: run directories
    MaxKills,     \* bound: scripts killed
    MaxStray      \* bound: compressions in the turn of a probe, and failed ones

VARIABLES
    session,  \* session[r]: the questions of the session of run r
    origin,   \* origin[r]: the run it resumes (0: none), its kind and completed turns
    partial,  \* partial[r]: turns.partial.json
    pointer,  \* pointer[r]: scenario_cursor of the private checkpoint
    rowsFile, \* rowsFile[r]: turns.json
    summary,  \* summary[r]: summary.json
    script,   \* the running script
    killed,   \* history: runs killed while writing, by stage
    strays    \* history: compressions in turns of probes, and failed ones

resumeVars == <<session, origin, partial, pointer, rowsFile, summary, script, killed, strays>>

Dirs == 1..MaxDirs
NoScript == [stage |-> "idle", dir |-> 0, rows |-> <<>>, cursor |-> 0, probe |-> 0, results |-> <<>>]

ResumeInit ==
    /\ session = [r \in Dirs |-> <<>>]
    /\ origin = [r \in Dirs |-> Absent]
    /\ partial = [r \in Dirs |-> <<>>]
    /\ pointer = [r \in Dirs |-> Absent]
    /\ rowsFile = [r \in Dirs |-> Absent]
    /\ summary = [r \in Dirs |-> Absent]
    /\ script = NoScript
    /\ killed = <<>> /\ strays = 0

----------------------------------------------------------------------------
(* What is read from rows and artifacts. *)

InPhase(rows, phases) == SelectSeq(rows, LAMBDA w : w.phase \in phases)
Positions(rows) == [i \in DOMAIN rows |-> rows[i].at]
Compressing(rows) == SelectSeq(rows, LAMBDA w : w.l3)
ShoppingTurns(rows) == Len(InPhase(rows, {"trigger", "warm"}))

\* compression_turns of a long run: those of its authored turns.
LongTriggers(rows) == Positions(Compressing(InPhase(rows, {"natural"})))

\* compression_turn of a resumed run, as a sequence: the first one.
OwnTrigger(rows) == LET c == Positions(Compressing(rows)) IN SubSeq(c, 1, IF c = <<>> THEN 0 ELSE 1)

BaseTurns(s) ==
    CASE summary[s].source # Absent   -> summary[s].source
      [] summary[s].triggers # <<>>   -> summary[s].triggers[1] - 1
      [] OTHER                        -> 0

PriorRows(s) ==
    SelectSeq(rowsFile[s], LAMBDA w : w.at \in ToSet(summary[s].triggers) /\ w.l3)

\* _compression_history() raises when a trigger is not among the turns.
HistoryComplete(s) ==
    summary[s] # Absent /\ Len(PriorRows(s)) = Len(summary[s].triggers)

Least(m, n) == IF m < n THEN m ELSE n

\* Mutant: probes and warm-cache questions count as authored ones.
CursorOfAllTurns(s, completed) == completed

NaturalScenarioCursor(s, completed) ==
    LET authored == Len(InPhase(rowsFile[s], {"natural", "trigger"}))
    IN  IF summary[s].source # Absent
        THEN Least(completed, summary[s].source + summary[s].executed)
        ELSE Least(completed, IF authored = 0 THEN completed ELSE authored)

AllTriggers(r, rows) ==
    IF origin[r].source = 0 THEN LongTriggers(rows)
    ELSE summary[origin[r].source].triggers \o OwnTrigger(rows)

----------------------------------------------------------------------------
(* The turns of a run. *)

At(stage) == script.stage = stage
Long == origin[script.dir].source = 0
Warm == origin[script.dir].warm
Back(next) == IF next.probe = 0 THEN "ask" ELSE "probe"

\* A long run stops at its target; a lifecycle that never froze may stop it.
MoreAuthored ==
    IF Long
    THEN /\ Len(script.rows) < Queries
         /\ ~(Len(LongTriggers(script.rows)) >= Target /\ Len(script.rows) >= Cumulative)
    ELSE /\ OwnTrigger(script.rows) = <<>>
         /\ IF Warm THEN ShoppingTurns(script.rows) < WarmQueries
            ELSE script.cursor < Queries /\ ShoppingTurns(script.rows) < MaxTrigger

\* How the attempts of a turn to compress the context ended, the last of them:
\* with a summary and its event, without a gain or with a failure.
Attempts == {"none", "summary", "failed"}

Stray(odd) == strays' = (IF odd THEN strays + 1 ELSE strays) /\ strays' <= MaxStray

Folds(turns) == Len(SelectSeq(turns, LAMBDA u : u.attempt = "summary"))

\* A turn is asked and answered and the session saved; the row is in memory.
\* Every summary folds segments the one before it had not.
Turn(rows, phase, query, attempt, ok) ==
    LET r     == script.dir
        turns == Append(session[r],
                     [query |-> IF phase \in {"natural", "trigger"} THEN query ELSE 0,
                      attempt |-> attempt])
        row   == [at |-> origin[r].base + Len(rows) + 1, phase |-> phase, query |-> query,
                  l3 |-> attempt = "summary", folds |-> Folds(turns), ok |-> ok]
    IN  /\ session' = [session EXCEPT ![r] = turns]
        /\ script' = [script EXCEPT !.stage = "note", !.rows = Append(rows, row),
                !.cursor = IF phase \in {"natural", "trigger"} THEN @ + 1 ELSE @,
                !.probe = IF phase = "recovery" THEN @ + 1 ELSE @,
                !.results = IF phase = "recovery" THEN Append(@, [probe |-> query, ok |-> ok])
                            ELSE @]
        /\ UNCHANGED <<origin, partial, pointer, rowsFile, summary, killed>>

AskAuthored(attempt) ==
    /\ At("ask") /\ MoreAuthored
    /\ LET phase == CASE Long -> "natural" [] Warm -> "warm" [] OTHER -> "trigger"
       IN  Turn(script.rows, phase, script.cursor + 1, attempt, TRUE)
    /\ Stray(attempt = "failed")

Stalled == Long /\ Len(script.rows) >= StallAfter /\ Compressing(script.rows) = <<>>

StopAsking ==
    /\ At("ask") /\ (~MoreAuthored \/ Stalled)
    /\ script' = [script EXCEPT !.stage = "probe", !.probe = 1]
    /\ UNCHANGED <<session, origin, partial, pointer, rowsFile, summary, killed, strays>>

\* Probes follow a compression; one that needs more of them is passed over.
Probes(p) ==
    /\ IF Long THEN Len(LongTriggers(script.rows)) >= Target
       ELSE OwnTrigger(script.rows) # <<>> /\ ~Warm
    /\ Needs[p] <= Len(AllTriggers(script.dir, script.rows))

Probing(p) == At("probe") /\ script.probe = p /\ p \in DOMAIN Needs
Probed(p) == {i \in DOMAIN script.rows : script.rows[i].phase = "recovery" /\ script.rows[i].query = p}

PassOver(p) ==
    /\ Probing(p) /\ ~Probes(p)
    /\ script' = [script EXCEPT !.probe = @ + 1]
    /\ UNCHANGED <<session, origin, partial, pointer, rowsFile, summary, killed, strays>>

\* A continued run keeps the probe that passed before ...
KeepProbe(p) ==
    /\ Probing(p) /\ Probes(p)
    /\ \E i \in Probed(p) : script.rows[i].ok
    /\ script' = [script EXCEPT !.probe = @ + 1, !.results = Append(@, [probe |-> p, ok |-> TRUE])]
    /\ UNCHANGED <<session, origin, partial, pointer, rowsFile, summary, killed, strays>>

\* ... and asks one again that failed, whose row becomes a diagnostic.
AskProbe(p, attempt, ok) ==
    /\ Probing(p) /\ Probes(p)
    /\ \A i \in Probed(p) : ~script.rows[i].ok
    /\ Stray(attempt # "none")
    /\ Turn([i \in DOMAIN script.rows |-> IF i \in Probed(p)
                THEN [script.rows[i] EXCEPT !.phase = "failed"] ELSE script.rows[i]],
            "recovery", p, attempt, ok)

Note ==
    /\ At("note")
    /\ partial' = [partial EXCEPT ![script.dir] = script.rows]
    /\ script' = [script EXCEPT !.stage = IF Long THEN Back(script) ELSE "point"]
    /\ UNCHANGED <<session, origin, pointer, rowsFile, summary, killed, strays>>

Point ==
    /\ At("point")
    /\ pointer' = [pointer EXCEPT ![script.dir] = script.cursor]
    /\ script' = [script EXCEPT !.stage = Back(script)]
    /\ UNCHANGED <<session, origin, partial, rowsFile, summary, killed, strays>>

----------------------------------------------------------------------------
(* The artifact of a run. *)

WriteRows ==
    /\ At("probe") /\ script.probe > Len(Needs)
    /\ rowsFile' = [rowsFile EXCEPT ![script.dir] =
           IF Long THEN script.rows ELSE PriorRows(origin[script.dir].source) \o script.rows]
    /\ script' = [script EXCEPT !.stage = "rows"]
    /\ UNCHANGED <<session, origin, partial, pointer, summary, killed, strays>>

\* Sessions only grow: the hash of the source is the one cloned exactly if no
\* turn was added to it.
SourceUnchanged == LET o == origin[script.dir] IN o.source = 0 \/ Len(session[o.source]) = o.base

Recovered == script.results # <<>> /\ \A i \in DOMAIN script.results : script.results[i].ok

\* The session keeps how its latest attempt to compress ended.
Retained(r) ==
    LET tried == SelectSeq(session[r], LAMBDA u : u.attempt # "none")
    IN  tried # <<>> /\ Last(tried).attempt = "summary"

WindowPassed ==
    Len(script.rows) = WarmQueries /\ Compressing(script.rows) = <<>> /\ SourceUnchanged

\* classify_resume_status(), and the status of a long and of a warm-cache run
\* (whose tokens, left out, may fail it as well: nothing reads its status);
\* froze tells whether the freeze cursor advanced.
Status(froze) ==
    CASE Long -> IF Len(LongTriggers(script.rows)) >= Target /\ Recovered
                 THEN "L3_RECOVERY_PASS" ELSE "L3_RECOVERY_FAIL"
      [] Warm -> IF WindowPassed THEN "WARM_CACHE_PASS" ELSE "WARM_CACHE_FAIL"
      [] ~SourceUnchanged -> "SOURCE_MUTATED"
      [] ~froze -> "L2_NOT_ADVANCED"
      [] OwnTrigger(script.rows) = <<>> -> "L2_PASS_L3_NOT_REACHED"
      [] OTHER -> IF Recovered THEN "L3_RECOVERY_PASS" ELSE "L3_RECOVERY_FAIL"

WriteSummary(froze) ==
    /\ At("rows")
    /\ summary' = [summary EXCEPT ![script.dir] =
           [source   |-> IF Long THEN Absent ELSE BaseTurns(origin[script.dir].source),
            executed |-> IF Long THEN Absent ELSE ShoppingTurns(script.rows),
            triggers |-> AllTriggers(script.dir, script.rows),
            probes   |-> script.results,
            froze    |-> froze,
            same     |-> SourceUnchanged,
            after    |-> Retained(script.dir),
            status   |-> Status(froze)]]
    /\ script' = NoScript
    /\ UNCHANGED <<session, origin, partial, pointer, rowsFile, killed, strays>>

----------------------------------------------------------------------------
(* Starts, continuations and ends. *)

Fresh == {r \in Dirs : origin[r] = Absent /\ \A q \in Dirs : q < r => origin[q] # Absent}

StartLong(r) ==
    /\ At("idle") /\ r \in Fresh
    /\ origin' = [origin EXCEPT ![r] = [source |-> 0, warm |-> FALSE, base |-> 0]]
    /\ script' = [NoScript EXCEPT !.stage = "ask", !.dir = r]
    /\ UNCHANGED <<session, partial, pointer, rowsFile, summary, killed, strays>>

\* The session is cloned and the checkpoint written.  A run that finds no
\* query left ends here and leaves a clone that nothing refers to.
StartResume(r, s, warm) ==
    LET completed == Len(session[s])
        cursor    == NaturalScenarioCursor(s, completed)
    IN  /\ At("idle") /\ r \in Fresh /\ origin[s] # Absent
        /\ HistoryComplete(s)
        /\ warm \/ cursor < Queries
        /\ session' = [session EXCEPT ![r] = session[s]]
        /\ origin' = [origin EXCEPT ![r] = [source |-> s, warm |-> warm, base |-> completed]]
        /\ pointer' = [pointer EXCEPT ![r] = cursor]
        /\ script' = [NoScript EXCEPT !.stage = "ask", !.dir = r, !.cursor = cursor]
        /\ UNCHANGED <<partial, rowsFile, summary, killed, strays>>

\* --continue-artifact-dir, given with the --warm-cache the run was started
\* with, refuses a session that has other turns than the checkpoint knows.
Agrees(r) == Len(session[r]) = origin[r].base + Len(partial[r])

Continue(r) ==
    /\ At("idle") /\ origin[r] # Absent /\ pointer[r] # Absent
    /\ HistoryComplete(origin[r].source) /\ Agrees(r)
    /\ LET next == [NoScript EXCEPT !.stage = "ask", !.dir = r, !.rows = partial[r],
                                !.cursor = pointer[r]]
       IN  /\ \/ OwnTrigger(next.rows) # <<>>
              \/ origin[r].warm /\ ShoppingTurns(next.rows) < WarmQueries
              \/ ~origin[r].warm /\ next.cursor < Queries /\ ShoppingTurns(next.rows) < MaxTrigger
           /\ script' = next
    /\ UNCHANGED <<session, origin, partial, pointer, rowsFile, summary, killed, strays>>

Kill ==
    /\ ~At("idle") /\ Len(killed) < MaxKills
    /\ killed' = Append(killed, [dir |-> script.dir, stage |-> script.stage])
    /\ script' = NoScript
    /\ UNCHANGED <<session, origin, partial, pointer, rowsFile, summary, strays>>

ResumeNext ==
    \/ \E r \in Dirs : StartLong(r) \/ Continue(r)
    \/ \E r, s \in Dirs, warm \in BOOLEAN : StartResume(r, s, warm)
    \/ \E attempt \in Attempts : AskAuthored(attempt)
    \/ StopAsking \/ Note \/ Point \/ WriteRows \/ Kill
    \/ \E p \in DOMAIN Needs :
          \/ PassOver(p) \/ KeepProbe(p)
          \/ \E attempt \in Attempts, ok \in BOOLEAN : AskProbe(p, attempt, ok)
    \/ \E froze \in BOOLEAN : WriteSummary(froze)

ResumeSpec == ResumeInit /\ [][ResumeNext]_resumeVars

----------------------------------------------------------------------------
(***************************************************************************)
(* load_context_compression_artifact().  What it asks of the numbers of a  *)
(* compression (before, after, ceiling, hard limit, event and lifecycle    *)
(* agree) the assembler has ensured before it says "l3_stage_summary", in  *)
(* production settings.                                                    *)
(***************************************************************************)
ManifestHolds(r, repeated) ==
    ~origin[r].warm /\ (repeated \/ origin[r].source # 0) /\ Production

SummaryHolds(r, repeated) ==
    LET s == summary[r]
    IN  /\ s.status = "L3_RECOVERY_PASS" /\ s.same /\ s.froze
        /\ s.triggers # <<>> /\ \A i, j \in DOMAIN s.triggers : i < j => s.triggers[i] < s.triggers[j]
        /\ repeated => Len(s.triggers) >= Repeats
        /\ IF s.source # Absent THEN s.source >= Cumulative /\ s.triggers[1] = s.source + 1
           ELSE s.triggers[1] >= Cumulative
        /\ s.probes # <<>> /\ \A i \in DOMAIN s.probes : s.probes[i].ok /\ s.probes[i].probe \in Exacting
        /\ s.after

RowsHold(r) ==
    LET triggers   == summary[r].triggers
        recovery   == InPhase(rowsFile[r], {"recovery"})
        Matches(i) == SelectSeq(rowsFile[r], LAMBDA w : w.at = triggers[i])
    IN  /\ \A i \in DOMAIN triggers :
             Len(Matches(i)) = 1 /\ Matches(i)[1].l3 /\ Matches(i)[1].phase \in {"trigger", "natural"}
        /\ \A i, j \in DOMAIN triggers : i < j => Matches(i)[1].folds < Matches(j)[1].folds
        /\ Len(recovery) = Len(summary[r].probes)
        /\ \A i \in DOMAIN recovery : recovery[i].at > Last(triggers)

Loads(r, repeated) ==
    /\ origin[r] # Absent /\ rowsFile[r] # Absent /\ summary[r] # Absent
    /\ ManifestHolds(r, repeated) /\ SummaryHolds(r, repeated) /\ RowsHold(r)

----------------------------------------------------------------------------
(* Properties. *)

ResumeTypeOK ==
    /\ script.stage \in {"idle", "ask", "note", "point", "probe", "rows"}
    /\ script.dir \in 0..MaxDirs /\ script.cursor \in Nat
    /\ \A r \in Dirs :
         /\ pointer[r] = Absent \/ pointer[r] \in Nat
         /\ origin[r] # Absent => origin[r].source \in 0..MaxDirs /\ origin[r].base \in Nat
         /\ \A i \in DOMAIN session[r] : session[r][i].query \in Nat
    /\ Len(killed) <= MaxKills /\ strays <= MaxStray

\* A source is an earlier run.
WarmBefore[r \in Dirs] ==
    LET s == origin[r].source IN s # 0 /\ (origin[s].warm \/ WarmBefore[s])

IsTold(r, row) ==
    /\ row.at \in DOMAIN session[r]
    /\ row.l3 <=> session[r][row.at].attempt = "summary"
    /\ row.phase \in {"natural", "trigger"} <=> session[r][row.at].query # 0
    /\ session[r][row.at].query \in {0, row.query}

\* Whatever is killed and continued, an artifact tells of its own session: a
\* row stands at the place where its question was asked, and what the rubric
\* accepts as proof of a recovery has the compressions of the authored
\* questions of that session, all of them, before the probes it counts.  What
\* passed is accepted, too, in production settings and with probes the rubric
\* wants, unless it rests on a warm-cache run or on a source too short, or an
\* attempt to compress the context again has failed since.
ArtifactIsTrue ==
    \A r \in Dirs :
        /\ \A i \in DOMAIN partial[r] : IsTold(r, partial[r][i])
        /\ rowsFile[r] # Absent => \A i \in DOMAIN rowsFile[r] : IsTold(r, rowsFile[r][i])
        /\ Loads(r, TRUE) \/ Loads(r, FALSE) =>
             ToSet(summary[r].triggers) =
                 {i \in DOMAIN session[r] :
                      session[r][i].attempt = "summary" /\ session[r][i].query # 0}
        /\ LET s == summary[r]
           IN  /\ s # Absent /\ ~WarmBefore[r]
               /\ Production /\ DOMAIN Needs \subseteq Exacting
               /\ s.status = "L3_RECOVERY_PASS" /\ s.froze /\ s.after
               /\ s.source # Absent /\ s.source >= Cumulative
               => Loads(r, FALSE)

Asked(r) == SelectSeq([i \in DOMAIN session[r] |-> session[r][i].query], LAMBDA q : q # 0)
OfLongRun(r) == origin[r].source = 0 \/ origin[origin[r].source].source = 0

\* A resumed run goes on where its source stopped.  No authored query is left
\* out, unless a warm-cache run was resumed, whose questions count as authored;
\* and none is asked twice, as long as the source is a long run and no kill
\* fell between the two files of a checkpoint (see InterruptionNeverReplays).
OnlyUnconsumed ==
    \A r \in Dirs : origin[r] # Absent =>
        /\ ~WarmBefore[r] => \A q \in ToSet(Asked(r)) : 1..q \subseteq ToSet(Asked(r))
        /\ OfLongRun(r) /\ [dir |-> r, stage |-> "point"] \notin ToSet(killed) =>
             Asked(r) = [i \in 1..Len(Asked(r)) |-> i]

\* "A private checkpoint keeps the raw local session handle and scenario cursor
\* so interruption never forces replay" (context_resume_runner.py).  A kill
\* after the turns of a checkpoint and before its cursor does: the turn was
\* kept, and the continued run asks its question once more.
InterruptionNeverReplays ==
    \A r \in Dirs : origin[r] # Absent /\ OfLongRun(r) =>
        \A i, j \in DOMAIN Asked(r) : Asked(r)[i] = Asked(r)[j] => i = j

\* The runs of an evaluation that rest on each other.
ResumeIsTrue == ArtifactIsTrue /\ OnlyUnconsumed
=============================================================================
