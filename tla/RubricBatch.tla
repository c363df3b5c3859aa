----------------------------- MODULE RubricBatch -----------------------------
(***************************************************************************)
(* A batch of the rubric evaluation (scripts/eval/rubric_runner.py): the   *)
(* requested cases with the earlier ones they depend on, in the order of   *)
(* the suite.  A case is asked turn by turn in the one assembled system,   *)
(* some with injected faults (rubric_fault_injection.py), or loads a       *)
(* context artifact; its products are looked up (rubric_ground_truth.py),  *)
(* a judge scores it (rubric_judge.py, rubric_contract.py), its files are  *)
(* written, and a summary is drawn up at the end (rubric_report.py).       *)
(*                                                                         *)
(* What a turn, a lookup or the judge comes to is chosen.  Of the evidence *)
(* there are the orders, which later cases ask for by number, and the      *)
(* parts of the system that were replaced while it was collected.  Texts,  *)
(* spans, P2 scores and the weights of the scores are left out.  No batch  *)
(* is ever continued: what a killed one leaves behind are the files of     *)
(* some state of it.                                                       *)
(***************************************************************************)
EXTENDS Naturals, FiniteSetsExt, SequencesExt

CONSTANTS
    Suite,       \* the cases of the suite, in its order
    DependsOn,   \* DependsOn[c]: sequence of cases
    Profile,     \* Profile[c]: "standard", "artifact" or a fault profile
    TurnsOf,     \* TurnsOf[c]: number of its queries
    BindsOrder,  \* cases with a query that names the dependency's latest order
    Boundary,    \* the order ownership case
    Family,      \* Family[c]: its scenario family
    Points,      \* Points[c]: the coverage points it is for
    Required,    \* Required[f]: the points a family asks for
    P0, P1,      \* criteria of each case's rubric
    UseCases,    \* the search use cases of the platforms
    Unset,       \* no value
    MaxCreated   \* bound: orders created in a batch

VARIABLES
    chosen,     \* the cases of this run
    bench,      \* the case being evaluated
    completed,  \* completed_cases, with the evidence of each
    graded,     \* results: [case, outcome, phase] in the order of the cases
    fitted,     \* fitted[s]: what is assembled at a replaceable place
    originals,  \* RubricFaultInjection._originals
    created,    \* history: the case in whose turns each order was created
    onDisk,     \* onDisk[c]: the files of a case
    report      \* summary.json and the exit code

rubricVars == <<chosen, bench, completed, graded, fitted, originals, created, onDisk, report>>

Cases == ToSet(Suite)
Services == (ToSet(UseCases) \X {"embedder", "index", "products", "reranker"})
          \cup {<<"place_order", "orders">>, <<"place_order", "stock">>}

\* The places a fault profile replaces, in every search use case once.
Faulted(profile) ==
    CASE profile = "opensearch-unavailable"   -> ToSet(UseCases) \X {"embedder", "index"}
      [] profile = "repository-inconsistency" -> ToSet(UseCases) \X {"embedder", "index", "products"}
      [] profile = "embedding-timeout"        -> ToSet(UseCases) \X {"embedder"}
      [] profile = "reranker-fallback"        -> ToSet(UseCases) \X {"embedder", "index", "reranker"}
      [] profile = "order-write-failure"      -> {"place_order"} \X {"orders", "stock"}
      [] OTHER                                -> {}

\* What loading the suite makes sure of.
SuiteHolds ==
    /\ IsInjective(Suite) /\ P0 >= 1 /\ P1 >= 1
    /\ \A i \in DOMAIN Suite :
         /\ ToSet(DependsOn[Suite[i]]) \subseteq {Suite[j] : j \in 1..(i - 1)}
         /\ Family[Suite[i]] \in DOMAIN Required
         /\ Points[Suite[i]] # {} /\ Points[Suite[i]] \subseteq Required[Family[Suite[i]]]
         /\ TurnsOf[Suite[i]] >= 1

ASSUME SuiteAssumption == SuiteHolds

----------------------------------------------------------------------------
(* The cases of a run. *)

\* A dependency is an earlier case.
Closure[i \in DOMAIN Suite] ==
    {Suite[i]} \cup UNION {Closure[j] : j \in {k \in 1..(i - 1) : Suite[k] \in ToSet(DependsOn[Suite[i]])}}

SelectCases(requested) ==
    IF requested = {} THEN Suite
    ELSE LET wanted == UNION {Closure[i] : i \in {k \in DOMAIN Suite : Suite[k] \in requested}}
         IN  SelectSeq(Suite, LAMBDA c : c \in wanted)

NoEvidence == [orders |-> <<>>, asked |-> <<>>, bound |-> Unset, under |-> {}]
Bench(i) == [at |-> i, step |-> "begin", turn |-> 0, seen |-> NoEvidence, attempt |-> 1,
             files |-> <<>>, verdict |-> Unset]

RubricInit ==
    /\ \E requested \in SUBSET Cases : chosen = SelectCases(requested)
    /\ bench = Bench(1)
    /\ completed = <<>> /\ graded = <<>> /\ created = <<>>
    /\ fitted = [s \in Services |-> "real"] /\ originals = <<>>
    /\ onDisk = [c \in Cases |-> {}]
    /\ report = Unset

Case == chosen[bench.at]
On(step) == report = Unset /\ bench.at <= Len(chosen) /\ bench.step = step
Fault == Profile[Case] \notin {"standard", "artifact"}

----------------------------------------------------------------------------
(* Dependencies. *)

DependencyIsReady(c) ==
    /\ c \in DOMAIN completed /\ completed[c].outcome = "SCORED"
    /\ completed[c].p0 = P0 /\ completed[c].p1 = 0

Unavailable == SelectSeq(DependsOn[Case], LAMBDA d : ~DependencyIsReady(d))

\* Orders in the evidence of the dependencies, the last dependency's last.
DependencyOrders == FlattenSeq([i \in DOMAIN DependsOn[Case] |->
                        completed[DependsOn[Case][i]].seen.orders])

\* How a case ends: what its result says and the files written before it.
Ends(outcome, phase, p0, p1, files) ==
    bench' = [bench EXCEPT !.step = "write", !.files = files,
        !.verdict = [outcome |-> outcome, phase |-> phase, p0 |-> p0, p1 |-> p1, seen |-> bench.seen]]

Fails(phase, files) == Ends("ERROR", phase, 0, 0, files)

RefuseCase ==
    /\ On("begin") /\ Unavailable # <<>>
    /\ Fails("dependency", <<>>)
    /\ UNCHANGED <<chosen, completed, graded, fitted, originals, created, onDisk, report>>

BindFails ==
    /\ On("begin") /\ Unavailable = <<>>
    /\ Case \in BindsOrder /\ DependencyOrders = <<>>
    /\ Fails("intent_execution", <<>>)
    /\ UNCHANGED <<chosen, completed, graded, fitted, originals, created, onDisk, report>>

\* The case begins; a fault is injected before its first turn.
BeginCase ==
    /\ On("begin") /\ Unavailable = <<>>
    /\ Case \in BindsOrder => DependencyOrders # <<>>
    /\ bench' = [bench EXCEPT !.step = IF Profile[Case] = "artifact" THEN "load" ELSE "turn",
                     !.seen.bound = IF Case \in BindsOrder THEN Last(DependencyOrders) ELSE Unset]
    /\ originals' = IF Fault THEN [s \in Faulted(Profile[Case]) |-> fitted[s]] ELSE <<>>
    /\ fitted' = [s \in Services |-> IF s \in Faulted(Profile[Case]) THEN Profile[Case] ELSE fitted[s]]
    /\ UNCHANGED <<chosen, completed, graded, created, onDisk, report>>

----------------------------------------------------------------------------
(* Evidence. *)

PutBack == [s \in Services |-> IF s \in DOMAIN originals THEN originals[s] ELSE fitted[s]]

LoadArtifact(holds) ==
    /\ On("load")
    /\ IF holds THEN bench' = [bench EXCEPT !.step = "contract"] ELSE Fails("artifact_validation", <<>>)
    /\ UNCHANGED <<chosen, completed, graded, fitted, originals, created, onDisk, report>>

\* A turn may create an order, unless orders cannot be saved, and may ask for
\* some; after the last one what was replaced is put back.
CollectTurn(order, asked) ==
    /\ On("turn")
    /\ order => fitted[<<"place_order", "orders">>] = "real" /\ Len(created) < MaxCreated
    /\ created' = IF order THEN Append(created, Case) ELSE created
    /\ LET last == bench.turn + 1 = TurnsOf[Case]
       IN  /\ bench' = [bench EXCEPT
                !.turn = @ + 1, !.step = IF last THEN "contract" ELSE "turn",
                !.seen.orders = IF order THEN Append(@, Len(created')) ELSE @,
                !.seen.asked = IF bench.turn = 0 THEN asked ELSE @,
                !.seen.under = @ \cup {s \in Services \X {fitted[s] : s \in Services} :
                                         fitted[s[1]] = s[2] /\ s[2] # "real"}]
           /\ fitted' = IF last THEN PutBack ELSE fitted
           /\ originals' = IF last THEN <<>> ELSE originals
    /\ UNCHANGED <<chosen, completed, graded, onDisk, report>>

\* Mutant: what a fault replaced is put back only when the turns were answered.
TurnFailsInjected ==
    /\ On("turn")
    /\ Fails("evidence_collection", <<>>)
    /\ UNCHANGED <<chosen, completed, graded, fitted, originals, created, onDisk, report>>

TurnFails ==
    /\ On("turn")
    /\ Fails("evidence_collection", <<>>)
    /\ fitted' = PutBack /\ originals' = <<>>
    /\ UNCHANGED <<chosen, completed, graded, created, onDisk, report>>

\* The order ownership case asks once, for the order named in its query.
AskedForItsOrder == Case = Boundary => bench.seen.asked = <<bench.seen.bound>>

CheckContract ==
    /\ On("contract")
    /\ IF AskedForItsOrder THEN bench' = [bench EXCEPT !.step = "truth"]
       ELSE Fails("evidence_collection", <<"evidence">>)
    /\ UNCHANGED <<chosen, completed, graded, fitted, originals, created, onDisk, report>>

----------------------------------------------------------------------------
(* Ground truth, judge and verdict. *)

LookUp(found) ==
    /\ On("truth")
    /\ IF found THEN bench' = [bench EXCEPT !.step = "judge"] ELSE Fails("ground_truth", <<"evidence">>)
    /\ UNCHANGED <<chosen, completed, graded, fitted, originals, created, onDisk, report>>

Requested == <<"evidence", "product_facts", "judge_request">>

\* One more attempt, after a transient error only.
JudgeFails(transient) ==
    /\ On("judge")
    /\ IF transient /\ bench.attempt = 1 THEN bench' = [bench EXCEPT !.attempt = 2]
       ELSE Fails("judge_transport", Requested)
    /\ UNCHANGED <<chosen, completed, graded, fitted, originals, created, onDisk, report>>

\* Of what a judgement may name there are the rubric's criteria and one other,
\* of what it may cite the evidence of the request and something else.
Criteria   == 1..(P0 + P1)
Judgements == [named : SeqOf(0..(P0 + P1), P0 + P1), cites : SUBSET {"evidence", "elsewhere"}]

\* Every criterion of the rubric once, and no other.
SameCriteria(named) == IsInjective(named) /\ ToSet(named) = Criteria

AllowedRefs == {"evidence"}

\* A judgement that is not of the rubric, or cites nothing or what the request
\* does not have, counts for nothing.
Counts(j) == SameCriteria(j.named) /\ j.cites # {} /\ j.cites \subseteq AllowedRefs

Verdict(passed) == IF passed = P0 THEN "SCORED" ELSE "FAIL"

JudgeAnswers(j, passed, failed) ==
    /\ On("judge")
    /\ IF Counts(j)
       THEN Ends(Verdict(passed), Unset, passed, failed, Append(Requested, "judge_response"))
       ELSE Fails("judge_protocol", Append(Requested, "judge_response"))
    /\ UNCHANGED <<chosen, completed, graded, fitted, originals, created, onDisk, report>>

----------------------------------------------------------------------------
(* Files and summary. *)

WriteFile ==
    /\ On("write") /\ bench.files # <<>>
    /\ onDisk' = [onDisk EXCEPT ![Case] = @ \cup {Head(bench.files)}]
    /\ bench' = [bench EXCEPT !.files = Tail(@)]
    /\ UNCHANGED <<chosen, completed, graded, fitted, originals, created, report>>

\* result.json comes last; a case with a score may be depended on.
EndCase ==
    /\ On("write") /\ bench.files = <<>>
    /\ onDisk' = [onDisk EXCEPT ![Case] = @ \cup {bench.verdict.outcome}]
    /\ completed' = IF bench.verdict.outcome = "ERROR" THEN completed
                    ELSE [c \in DOMAIN completed \cup {Case} |->
                            IF c = Case THEN bench.verdict ELSE completed[c]]
    /\ graded' = Append(graded, [case |-> Case, outcome |-> bench.verdict.outcome,
                                 phase |-> bench.verdict.phase, p0 |-> bench.verdict.p0])
    /\ bench' = Bench(bench.at + 1)
    /\ UNCHANGED <<chosen, fitted, originals, created, report>>

Graded(outcomes) == SelectSeq(graded, LAMBDA g : g.outcome \in outcomes)
IdentityHolds ==
    /\ ToSet(chosen) \subseteq Cases
    /\ Len(graded) = Len(chosen) /\ {g.case : g \in ToSet(graded)} = ToSet(chosen)

Gate ==
    LET scored == Graded({"SCORED", "FAIL"})
        passed == FoldSeq(LAMBDA g, n : n + g.p0, 0, scored)
        total  == P0 * Len(scored)
    IN  CASE total > 0 /\ passed < total -> "FAIL"
          [] Len(Graded({"ERROR"})) > 0  -> "INCOMPLETE"
          [] OTHER                       -> IF total > 0 THEN "PASS" ELSE "FAIL"

Covered(family, cases) == UNION {Points[c] : c \in {d \in cases : Family[d] = family}}

SumUp ==
    /\ report = Unset /\ bench.at > Len(chosen)
    /\ report' = IF ~IdentityHolds THEN [exit |-> 2] ELSE
         [exit     |-> IF Graded({"FAIL", "ERROR"}) = <<>> THEN 0 ELSE 1,
          gate     |-> Gate,
          weighted |-> Graded({"ERROR"}) = <<>>,
          designed |-> [f \in DOMAIN Required |-> Covered(f, Cases)],
          executed |-> [f \in DOMAIN Required |->
              Covered(f, {g.case : g \in ToSet(Graded({"SCORED", "FAIL"}))})]]
    /\ UNCHANGED <<chosen, bench, completed, graded, fitted, originals, created, onDisk>>

RubricNext ==
    \/ RefuseCase \/ BindFails \/ BeginCase \/ TurnFails \/ CheckContract
    \/ WriteFile \/ EndCase \/ SumUp
    \/ \E holds \in BOOLEAN : LoadArtifact(holds) \/ LookUp(holds) \/ JudgeFails(holds)
    \/ \E order \in BOOLEAN, asked \in SeqOf(DOMAIN created, 2) : CollectTurn(order, asked)
    \/ \E j \in Judgements, passed \in 0..P0, failed \in 0..P1 : JudgeAnswers(j, passed, failed)

----------------------------------------------------------------------------
(* Properties. *)

RubricTypeOK ==
    /\ ToSet(chosen) \subseteq Cases /\ bench.at \in 1..(Len(chosen) + 1)
    /\ bench.step \in {"begin", "load", "turn", "contract", "truth", "judge", "write"}
    /\ DOMAIN completed \subseteq ToSet(chosen) /\ Len(graded) <= Len(chosen)
    /\ DOMAIN originals \subseteq Services /\ Len(created) <= MaxCreated

\* Nothing is scored on ground that was not there: a scored case rests on
\* dependencies that were ready; its turns ran with what its own profile
\* replaced and nothing else, whichever case failed before; the order it asks
\* for was created by a case it depends on.
Grounded ==
    \A c \in DOMAIN completed :
        LET seen == completed[c].seen
        IN  /\ \A d \in ToSet(DependsOn[c]) :
                 d \in DOMAIN completed /\ completed[d].p0 = P0 /\ completed[d].p1 = 0
            /\ Profile[c] # "artifact" =>
                 seen.under = Faulted(Profile[c]) \X {Profile[c]}
            /\ c \in BindsOrder => created[seen.bound] \in ToSet(DependsOn[c])
            /\ c = Boundary => seen.asked = <<seen.bound>>

\* A case is turned away for a dependency only over one that was run and found
\* wanting, never over one that was left out of the run.
RefusedForCause ==
    \A i \in DOMAIN graded : graded[i].phase = "dependency" =>
        \E d \in ToSet(DependsOn[graded[i].case]), j \in 1..(i - 1) :
            /\ graded[j].case = d
            /\ graded[j].outcome # "SCORED" \/ ~DependencyIsReady(d)

\* The summary always fits its run, the exit code says what the gate says, and
\* only a case with a score counts as executed.
SummaryHonest ==
    report # Unset =>
        /\ report.exit \in {0, 1} /\ (report.exit = 0 <=> report.gate = "PASS")
        /\ report.exit = 0 => report.weighted /\ ToSet(chosen) = DOMAIN completed
        /\ report.gate = "FAIL" <=> \E c \in DOMAIN completed : completed[c].p0 < P0
        /\ \A f \in DOMAIN Required :
             /\ report.executed[f] \subseteq report.designed[f]
             /\ \A pt \in report.executed[f] : \E c \in DOMAIN completed : pt \in Points[c]

\* Wherever a batch is killed, a case whose result is on disk with a score has
\* all it was scored on beside it.
ScoreHasFiles ==
    \A c \in Cases : {"SCORED", "FAIL"} \cap onDisk[c] # {} =>
        ToSet(Append(Requested, "judge_response")) \subseteq onDisk[c]

BatchIsTrue == Grounded /\ RefusedForCause /\ SummaryHonest /\ ScoreHasFiles
=============================================================================
