---------------------------- MODULE CatalogFiles ----------------------------
(***************************************************************************)
(* The catalogue's files (scripts/data/build_catalogs_v2.py): the rows of  *)
(* the staging area are converted partition by partition into a directory  *)
(* of their own, which then takes the place of the published one: that one *)
(* is moved aside first and removed last.  The writer may be killed        *)
(* between any two steps, or fail to move the new directory in.            *)
(*                                                                         *)
(* A row is [id, rev]; a catalogue maps a partition to its products, rows  *)
(* whose conversion kept something to sell, sorted by their ids.           *)
(***************************************************************************)
EXTENDS Integers, Sequences, FiniteSets, SequencesExt

CONSTANTS
    Partitions,  \* PARTITIONS, in order
    PartOf,      \* PartOf[i]: the partition whose prefix an id has
    Stagings,    \* what the staging area may hold: [partition -> set of rows]
    Offers,      \* Offers[r]: the variants of a row, sets of [price, stock]
    NoPrice,     \* a variant without an observed price
    NoFile,
    MaxBuilds    \* bound: builds of the catalogue

Parts == ToSet(Partitions)

ASSUME FilesAssumption ==
    /\ Partitions \in Seq(Parts) \ {<<>>}
    /\ \A v \in Stagings : DOMAIN v = Parts
    /\ \A v \in Stagings : \A p \in Parts : v[p] \subseteq DOMAIN Offers /\ IsFiniteSet(v[p])
    /\ \A r \in DOMAIN Offers : r.id \in DOMAIN PartOf
    /\ NoFile \notin [Parts -> Seq(DOMAIN Offers)]
    /\ MaxBuilds \in Nat

VARIABLES
    output,   \* the published catalogue, or NoFile
    backup,   \* the one moved aside
    temps,    \* the builds whose temporary directory holds a whole catalogue
    writer,   \* the running writer: where it is and what it has built
    builds,
    once      \* history: a catalogue has been published

fileVars == <<output, backup, temps, writer, builds, once>>

AtRest == [phase |-> "none", made |-> NoFile, moved |-> FALSE]

FilesInit ==
    /\ output = NoFile /\ backup = NoFile /\ temps = {}
    /\ writer = AtRest /\ builds = 0 /\ once = FALSE

----------------------------------------------------------------------------
(* Conversion. *)

\* _price(), _convert_reference_seed() and _convert_amazon(): the variants
\* with an observed, positive price in whole cents become SKUs.
Priced == [r \in DOMAIN Offers |-> {o \in Offers[r] : o.price # NoPrice}]

\* A row none of whose variants has a price is rejected ("no_priced_sku").
Converted(rows) == {r \in rows : Priced[r] # {}}
Rejections(rows) == rows \ Converted(rows)

\* _write_partition(): sorted by id.  Which order that is does not matter, only
\* that rows without a duplicate have one.
Sorted(rows) == SetToSeq(rows)

\* _validated_partition_rows(): an id starts with its partition.
Validated(rows) == \A p \in Parts : \A r \in rows[p] : PartOf[r.id] = p

\* No product id twice, in a partition or in two.
Unique(rows) ==
    \A p, q \in Parts : \A r \in rows[p], s \in rows[q] : r.id = s.id => p = q /\ r = s

----------------------------------------------------------------------------
(* The writer. *)

\* _build_into(): an id of another partition, or a duplicate, raises and the
\* directory is removed.
BuildInto ==
    /\ writer.phase = "none" /\ builds < MaxBuilds
    /\ \E staging \in Stagings :
        LET kept == [p \in Parts |-> Converted(staging[p])]
            made == [p \in Parts |-> Sorted(kept[p])]
        IN IF Validated(staging) /\ Unique(kept)
           THEN /\ writer' = [AtRest EXCEPT !.phase = "built", !.made = made]
                /\ temps' = temps \cup {builds + 1}
           ELSE UNCHANGED <<writer, temps>>
    /\ builds' = builds + 1
    /\ UNCHANGED <<output, backup, once>>

\* _publish(), step by step: an old backup goes, ...
DropBackup ==
    /\ writer.phase = "built"
    /\ backup' = NoFile
    /\ writer' = [writer EXCEPT !.phase = "aside"]
    /\ UNCHANGED <<output, temps, builds, once>>

\* Mutant: the published catalogue is removed and not moved.
RemovesOutput ==
    /\ writer.phase = "aside"
    /\ output' = NoFile
    /\ writer' = [writer EXCEPT !.phase = "in"]
    /\ UNCHANGED <<backup, temps, builds, once>>

\* ... the published catalogue is moved aside, if there is one, ...
MoveAside ==
    /\ writer.phase = "aside"
    /\ output' = NoFile
    /\ backup' = IF output # NoFile THEN output ELSE backup
    /\ writer' = [writer EXCEPT !.phase = "in", !.moved = output # NoFile]
    /\ UNCHANGED <<temps, builds, once>>

\* ... the new one takes its place ...
MoveIn ==
    /\ writer.phase = "in"
    /\ output' = writer.made
    /\ temps' = temps \ {builds}
    /\ writer' = [writer EXCEPT !.phase = "tidy"]
    /\ once' = TRUE
    /\ UNCHANGED <<backup, builds>>

\* ... or cannot, and the old one comes back; run() removes what it built.
MoveFails ==
    /\ writer.phase = "in"
    /\ IF writer.moved THEN output' = backup /\ backup' = NoFile
                       ELSE UNCHANGED <<output, backup>>
    /\ temps' = temps \ {builds}
    /\ writer' = AtRest
    /\ UNCHANGED <<builds, once>>

DropMoved ==
    /\ writer.phase = "tidy"
    /\ backup' = NoFile
    /\ writer' = AtRest
    /\ UNCHANGED <<output, temps, builds, once>>

\* The process is killed: nothing is put right.
KillWriter ==
    /\ writer.phase # "none"
    /\ writer' = AtRest
    /\ UNCHANGED <<output, backup, temps, builds, once>>

FilesNext ==
    \/ BuildInto \/ DropBackup \/ MoveAside \/ MoveIn \/ MoveFails \/ DropMoved \/ KillWriter

FilesSpec == FilesInit /\ [][FilesNext]_fileVars

----------------------------------------------------------------------------
(* Properties. *)

\* Once a catalogue has been published, a whole one is on the disk, whichever
\* writers were killed or failed where: published, moved aside, or in a
\* directory that never took its place.
NeverLost == once => output # NoFile \/ backup # NoFile \/ temps # {}

\* The rows of a partition's file: one of a kind, and all the partition's own.
FileOf(p) ==
    {s \in Seq(DOMAIN Offers) :
        \A n, m \in DOMAIN s :
            PartOf[s[n].id] = p /\ (s[n].id = s[m].id => s[n] = s[m])}

Catalogues == {c \in [Parts -> Seq(DOMAIN Offers)] : \A p \in Parts : c[p] \in FileOf(p)}

Publishing == writer.phase \in {"built", "aside", "in"}

\* The inductive invariant of NeverLost: what a killed writer has left stays,
\* next to what the running one is about to publish.
LeftBehind == IF Publishing THEN temps \ {builds} ELSE temps

FilesInv ==
    /\ output \in Catalogues \cup {NoFile} /\ backup \in Catalogues \cup {NoFile}
    /\ writer \in [phase : {"none", "built", "aside", "in", "tidy"},
                   made : Catalogues \cup {NoFile}, moved : BOOLEAN]
    /\ builds \in Nat /\ temps \subseteq 1..builds
    /\ Publishing => writer.made # NoFile /\ builds \in temps
    /\ writer.phase = "in" /\ writer.moved => backup # NoFile
    /\ once /\ output = NoFile => LeftBehind # {} \/ (writer.phase = "in" /\ writer.moved)
=============================================================================
