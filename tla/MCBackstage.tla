----------------------------- MODULE MCBackstage -----------------------------
(***************************************************************************)
(* What works behind the turns, in one instance: the context of a long     *)
(* session that is frozen and folded (ContextFreeze), the runs that make   *)
(* an artifact of such compressions (ContextResume), the catalogue and the *)
(* searches judged by their events (MCCatalogue), and a batch of the       *)
(* rubric evaluation (RubricBatch).  They share no state while they run,   *)
(* so a behaviour follows one of them and leaves the others at their start.*)
(***************************************************************************)
EXTENDS MCCatalogue, MCContextResume, RubricBatch, ContextFreeze

CONSTANTS t1, t2, t3

VARIABLE desk

backstageVars == <<catalogueVars, resumeVars, rubricVars, freezeVars, desk>>

\* One long run, the others resume.  A question of a run's own is compressed at
\* most once more than its source's, one answer to a probe is wrong, and a
\* session without a compression may not be frozen; a kill and a stray
\* compression come apart.
Modestly ==
    /\ strays' + Len(killed') <= 1
    /\ \A r \in Dirs :
         /\ origin'[r] # Absent /\ origin'[r].source = 0 => r = 1
         /\ summary'[r] # Absent /\ ~summary'[r].froze => summary'[r].triggers = <<>>
         /\ Folds(session'[r]) <= r + 1
    /\ FoldSet(LAMBDA r, n : n + Len(SelectSeq(
                   IF r = script'.dir THEN script'.rows ELSE partial'[r], LAMBDA w : ~w.ok)),
               0, Dirs) <= 1

\* A purchase; the order ownership case, under its fault; a context artifact;
\* and a case under another fault that depends on two.
SuiteV == <<"buy", "steal", "recover", "rank">>
DependsV == [buy |-> <<>>, steal |-> <<"buy">>, recover |-> <<>>, rank |-> <<"recover", "buy">>]
ProfileV == [buy |-> "standard", steal |-> "order-write-failure", recover |-> "artifact",
             rank |-> "reranker-fallback"]
TurnsV == [buy |-> 2, steal |-> 2, recover |-> 1, rank |-> 1]
BindsV == {"steal"}
FamilyV == [buy |-> "order", steal |-> "order", recover |-> "search", rank |-> "search"]
PointsV == [buy |-> {"p"}, steal |-> {"p", "q"}, recover |-> {"r"}, rank |-> {"r", "s"}]
RequiredV == [order |-> {"p", "q"}, search |-> {"r", "s"}]
UseCasesV == <<"h4", "h4", "h3">>

----------------------------------------------------------------------------
Init ==
    /\ CatalogueInit /\ ResumeInit /\ RubricInit /\ FreezeInit
    /\ desk \in {"catalogue", "resume", "rubric", "context"}
    /\ desk # "rubric" => chosen = Suite
    /\ desk # "context" => messages = <<>>

Next ==
    /\ UNCHANGED desk
    /\ \/ /\ desk = "catalogue" /\ CatalogueNext
          /\ UNCHANGED <<resumeVars, rubricVars, freezeVars>>
       \/ /\ desk = "resume" /\ ResumeNext /\ Modestly
          /\ UNCHANGED <<catalogueVars, rubricVars, freezeVars>>
       \/ /\ desk = "rubric" /\ RubricNext
          /\ UNCHANGED <<catalogueVars, resumeVars, freezeVars>>
       \/ /\ desk = "context" /\ FreezeNext
          /\ UNCHANGED <<catalogueVars, resumeVars, rubricVars>>

Spec == Init /\ [][Next]_backstageVars

BackstageView ==
    CASE desk = "catalogue" -> <<desk, Seen>>
      [] desk = "resume"    -> <<desk, resumeVars>>
      [] desk = "rubric"    -> <<desk, rubricVars>>
      [] desk = "context"   -> <<desk, freezeVars>>

BackstageSymmetry == Symmetry \cup Permutations(Turns \ Hinted)

TypeOK == CatalogueTypeOK /\ ResumeTypeOK /\ RubricTypeOK /\ FreezeTypeOK
=============================================================================
