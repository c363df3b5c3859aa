---------------------------- MODULE ProductIndex ----------------------------
(***************************************************************************)
(* Building the product indexes and auditing them                          *)
(* (scripts/index/build_product_opensearch.py, audit_product_opensearch.py,*)
(* app/catalog/opensearch_product_h1.py).  A builder clears the            *)
(* checkpoints when told to reset, prepares the indexes, then sends each   *)
(* partition's rows in bulks and writes a checkpoint after each; it may    *)
(* die between any two steps and be started again.                         *)
(*                                                                         *)
(* A sha256 is the rows it is taken of.  The scripts run one at a time,    *)
(* and an audit takes longer than the 1 s after which a finalized index    *)
(* shows what it got.                                                      *)
(***************************************************************************)
EXTENDS CatalogFiles, FiniteSetsExt

CONSTANTS
    IndexOf,     \* IndexOf[p]: the index of a partition
    BulkSize,    \* --bulk-size
    MaxRuns,     \* bound: starts of the builder
    MaxLosses    \* bound: losses of an index

Indexes == {IndexOf[p] : p \in Parts}

ASSUME IndexAssumption ==
    /\ DOMAIN IndexOf = Parts
    /\ BulkSize \in Nat \ {0} /\ MaxRuns \in Nat /\ MaxLosses \in Nat

VARIABLES
    saved,    \* saved[p]: the checkpoint of a partition: [sha, next, completed]
    docs,     \* docs[i]: the documents of an index; only indexes that exist
    shown,    \* the indexes that are refreshed: searches see their documents
    builder,  \* the running builder
    audited,  \* the version the indexes passed the audit for, or NoFile if
              \* they did not or have been touched since
    runs,
    losses

indexVars == <<fileVars, saved, docs, shown, builder, audited, runs, losses>>

Stopped == [phase |-> "none", reset |-> FALSE, todo |-> <<>>,
            selected |-> {}, parts |-> <<>>, next |-> 0]

BuilderPhases == {"none", "clear", "prepare", "open", "send", "note", "finalize"}

IndexTypeOK ==
    /\ \A p \in Parts : saved[p] = NoFile \/
          (saved[p].completed \in BOOLEAN /\ saved[p].next \in 0..Len(saved[p].sha))
    /\ DOMAIN docs \subseteq Indexes
    /\ shown \subseteq DOMAIN docs
    /\ builder.phase \in BuilderPhases
    /\ runs \in 0..MaxRuns /\ losses \in 0..MaxLosses

IndexInit ==
    /\ FilesInit
    /\ saved = [p \in Parts |-> NoFile]
    /\ docs = <<>>
    /\ shown = {}
    /\ builder = Stopped
    /\ audited = NoFile
    /\ runs = 0 /\ losses = 0

----------------------------------------------------------------------------
(* Files and documents. *)

FreshCheckpoint(rows) == [sha |-> rows, next |-> 0, completed |-> FALSE]

\* load_checkpoint(): the contract holds the source's sha256.
ContractHolds(state, rows) == state.sha = rows

\* Documents are written under the product's id.
Written(index, rows) ==
    {d \in index : \A r \in rows : r.id # d.id} \cup rows

\* The rows a bulk takes, from the line the checkpoint names.
Batch(rows, next) ==
    SubSeq(rows, next + 1, IF Len(rows) < next + BulkSize THEN Len(rows) ELSE next + BulkSize)

PartIn(b) == Head(b.parts)

WithDocs(i, ds) == [j \in DOMAIN docs \cup {i} |-> IF j = i THEN ds ELSE docs[j]]

----------------------------------------------------------------------------
(* The builder. *)

BuilderStep(phase) ==
    /\ builder.phase = phase
    /\ UNCHANGED <<fileVars, audited, runs, losses>>

Launch(reset, selected) ==
    /\ builder.phase = "none" /\ runs < MaxRuns
    /\ builder' = [phase |-> IF reset THEN "clear" ELSE "prepare", reset |-> reset,
                   todo |-> SetToSeq(Indexes), selected |-> selected,
                   parts |-> Partitions, next |-> 0]
    /\ runs' = runs + 1
    /\ audited' = NoFile
    /\ UNCHANGED <<fileVars, saved, docs, shown, losses>>

\* --reset removes the checkpoints before it touches an index.
ClearCheckpoints ==
    /\ BuilderStep("clear")
    /\ saved' = [p \in Parts |-> NoFile]
    /\ builder' = [builder EXCEPT !.phase = "prepare"]
    /\ UNCHANGED <<docs, shown>>

\* prepare(): --reset deletes an index that exists ...
DropIndex ==
    /\ BuilderStep("prepare") /\ builder.todo # <<>>
    /\ LET i == Head(builder.todo) IN
       /\ builder.reset /\ i \in DOMAIN docs
       /\ docs' = [j \in DOMAIN docs \ {i} |-> docs[j]]
       /\ shown' = shown \ {i}
    /\ UNCHANGED <<saved, builder>>

\* ... and one that does not is created, with refresh_interval -1.
EnsureIndex ==
    /\ BuilderStep("prepare") /\ builder.todo # <<>>
    /\ LET i == Head(builder.todo) IN
       /\ ~(builder.reset /\ i \in DOMAIN docs)
       /\ docs' = IF i \in DOMAIN docs THEN docs ELSE WithDocs(i, {})
    /\ builder' = [builder EXCEPT !.todo = Tail(@),
                                  !.phase = IF Len(builder.todo) = 1 THEN "open" ELSE @]
    /\ UNCHANGED <<saved, shown>>

\* The next partition, or finalize(), with every index, after the last.
Onward(b) ==
    IF Len(b.parts) = 1
    THEN [b EXCEPT !.parts = <<>>, !.phase = "finalize", !.todo = SetToSeq(Indexes)]
    ELSE [b EXCEPT !.parts = Tail(@), !.phase = "open"]

\* --partition names the others.
SkipPartition ==
    /\ BuilderStep("open") /\ PartIn(builder) \notin builder.selected
    /\ builder' = Onward(builder)
    /\ UNCHANGED <<saved, docs, shown>>

\* build_partition() reads the file, which may be missing, and the
\* checkpoint: one of another contract stops the run.
OpenPartition ==
    /\ BuilderStep("open") /\ PartIn(builder) \in builder.selected
    /\ IF output = NoFile THEN builder' = Stopped
       ELSE LET p == PartIn(builder)
                state == IF saved[p] = NoFile THEN FreshCheckpoint(output[p]) ELSE saved[p]
            IN builder' = IF ~ContractHolds(state, output[p]) THEN Stopped
                          ELSE IF state.completed THEN Onward(builder)
                          ELSE [builder EXCEPT !.phase = "send", !.next = state.next]
    /\ UNCHANGED <<saved, docs, shown>>

\* A bulk; its checkpoint comes after it.
SendBulk ==
    /\ BuilderStep("send")
    /\ LET p == PartIn(builder)
           rows == Batch(output[p], builder.next)
       IN /\ rows # <<>>
          /\ docs' = WithDocs(IndexOf[p], Written(docs[IndexOf[p]], ToSet(rows)))
          /\ builder' = [builder EXCEPT !.phase = "note", !.next = @ + Len(rows)]
    /\ UNCHANGED <<saved, shown>>

\* Part of a bulk is refused: the run ends.
BulkRefused ==
    /\ BuilderStep("send")
    /\ LET p == PartIn(builder) IN
       \E part \in SUBSET ToSet(Batch(output[p], builder.next)) :
          docs' = WithDocs(IndexOf[p], Written(docs[IndexOf[p]], part))
    /\ builder' = Stopped
    /\ UNCHANGED <<saved, shown>>

NoteProgress ==
    /\ BuilderStep("note")
    /\ saved' = [saved EXCEPT ![PartIn(builder)] =
                    [sha |-> output[PartIn(builder)], next |-> builder.next, completed |-> FALSE]]
    /\ builder' = [builder EXCEPT !.phase = "send"]
    /\ UNCHANGED <<docs, shown>>

PartitionDone ==
    /\ BuilderStep("send")
    /\ Batch(output[PartIn(builder)], builder.next) = <<>>
    /\ saved' = [saved EXCEPT ![PartIn(builder)] =
                    [sha |-> output[PartIn(builder)], next |-> builder.next, completed |-> TRUE]]
    /\ builder' = Onward(builder)
    /\ UNCHANGED <<docs, shown>>

\* finalize(): an index is refreshed, and from now on by itself.
FinalizeIndex ==
    /\ BuilderStep("finalize")
    /\ shown' = shown \cup {Head(builder.todo)}
    /\ builder' = IF Len(builder.todo) = 1 THEN Stopped ELSE [builder EXCEPT !.todo = Tail(@)]
    /\ UNCHANGED <<saved, docs>>

Die ==
    /\ builder.phase # "none"
    /\ builder' = Stopped
    /\ UNCHANGED <<fileVars, saved, docs, shown, audited, runs, losses>>

BuilderNext ==
    \/ ClearCheckpoints \/ DropIndex \/ EnsureIndex
    \/ SkipPartition \/ OpenPartition \/ SendBulk \/ BulkRefused \/ NoteProgress \/ PartitionDone
    \/ FinalizeIndex \/ Die
    \/ \E reset \in BOOLEAN, selected \in SUBSET Parts \ {{}} : Launch(reset, selected)

----------------------------------------------------------------------------
(* The audit, and what happens around the scripts. *)

RowsOf(i) == {p \in Parts : IndexOf[p] = i}

Expected(i) == FoldSet(LAMBDA p, n : n + Len(output[p]), 0, RowsOf(i))

Visible(i) == IF i \in shown THEN docs[i] ELSE {}

\* audit_batch(): every row is in its index as it is in the source.
RowsMatch == \A p \in Parts : ToSet(output[p]) \subseteq docs[IndexOf[p]]

\* Mutant: the audit compares the rows and never counts the documents.
CountsAssumed == TRUE

\* main(): and an index has no more documents than the source has rows.
CountsMatch == \A i \in Indexes : Cardinality(Visible(i)) = Expected(i)

\* The audit passes; one that fails raises and leaves no report.
Audit ==
    /\ builder.phase = "none"
    /\ output # NoFile /\ DOMAIN docs = Indexes
    /\ RowsMatch /\ CountsMatch
    /\ audited' = output
    /\ UNCHANGED <<fileVars, saved, docs, shown, builder, runs, losses>>

\* The search engine loses an index (its volume is recreated).
LoseIndex ==
    /\ builder.phase = "none" /\ losses < MaxLosses
    /\ \E i \in DOMAIN docs :
          /\ docs' = [j \in DOMAIN docs \ {i} |-> docs[j]]
          /\ shown' = shown \ {i}
    /\ audited' = NoFile
    /\ losses' = losses + 1
    /\ UNCHANGED <<fileVars, saved, builder, runs>>

\* The catalogue is written while no builder runs.
WriteFiles ==
    /\ builder.phase = "none"
    /\ FilesNext
    /\ UNCHANGED <<saved, docs, shown, builder, audited, runs, losses>>

IndexNext ==
    \/ WriteFiles
    \/ writer.phase = "none" /\ (BuilderNext \/ Audit \/ LoseIndex)

IndexSpec == IndexInit /\ [][IndexNext]_indexVars

----------------------------------------------------------------------------
(* Properties. *)

\* A checkpoint never runs ahead of its index: while the search engine keeps
\* its indexes, the rows up to the checkpoint's line are documents of the
\* partition's index, exactly as the source had them, whatever run died
\* where and however often the builder was reset.
CheckpointIsTrue ==
    losses = 0 =>
        \A p \in Parts : saved[p] # NoFile =>
            \A n \in 1..saved[p].next :
                /\ IndexOf[p] \in DOMAIN docs
                /\ saved[p].sha[n] \in docs[IndexOf[p]]

\* Killed writers and builders lose no published catalogue and leave no
\* checkpoint ahead of its index.
SurvivesCrashes == NeverLost /\ CheckpointIsTrue

\* The inductive invariant of CheckpointIsTrue.  The builder sends the rows its
\* checkpoints name: it has prepared every index before it opens a partition,
\* has dropped none under a checkpoint, and no other partition's rows take the
\* place of those it has sent.
BuilderOK ==
    /\ builder \in [phase : BuilderPhases, reset : BOOLEAN, todo : Seq(Indexes),
                    selected : SUBSET Parts, parts : Seq(Parts), next : Nat]
    /\ builder.phase \notin {"none", "finalize"} => builder.parts # <<>>
    /\ builder.phase = "finalize" => builder.todo # <<>>
    /\ builder.phase # "none" => writer.phase = "none"
    /\ builder.phase \in {"clear", "prepare"} => Indexes \subseteq ToSet(builder.todo) \cup DOMAIN docs
    /\ builder.phase \in {"open", "send", "note"} => Indexes \subseteq DOMAIN docs
    /\ builder.phase = "prepare" /\ builder.reset => \A p \in Parts : saved[p] = NoFile

SentSoFar ==
    builder.phase \in {"send", "note"} =>
        LET p == PartIn(builder) IN
        /\ output # NoFile /\ builder.next <= Len(output[p])
        /\ saved[p] # NoFile => saved[p].sha = output[p]
        /\ losses = 0 => \A n \in 1..builder.next : output[p][n] \in docs[IndexOf[p]]

Checkpoints(p) == [sha : FileOf(p), next : Nat, completed : BOOLEAN]

IndexInv ==
    /\ FilesInv /\ BuilderOK /\ SentSoFar /\ CheckpointIsTrue
    /\ losses \in Nat /\ DOMAIN docs \subseteq Indexes
    /\ DOMAIN saved = Parts
    /\ \A p \in Parts : saved[p] # NoFile =>
          saved[p] \in Checkpoints(p) /\ saved[p].next <= Len(saved[p].sha)
=============================================================================
