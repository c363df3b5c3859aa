----------------------------- MODULE ToolOutput -----------------------------
(***************************************************************************)
(* What a tool returned and what the model sees of it: the exact output is *)
(* kept as a file named by its digest, and the model gets a bounded copy   *)
(* that refers to it when something is left out                            *)
(* (app/application/context/tool_output.py).  The processes that serve     *)
(* turns share the directory; a step is what one does between two calls of *)
(* the file system, and it may be killed between them.                     *)
(***************************************************************************)
EXTENDS Integers, Sequences, FiniteSets

CONSTANTS
    Serving,    \* processes, each with a pid of its own
    ToolCalls,
    ServedBy,   \* ServedBy[c]: the process of call c
    Outputs,    \* what tools return, [text, loses, long]
    OutputOf,   \* OutputOf[c]
    Gone,       \* no file, no view
    Partial,    \* a file that does not hold all of an output
    MaxDeaths   \* bound: processes killed

ASSUME OutputAssumption ==
    /\ ServedBy \in [ToolCalls -> Serving] /\ OutputOf \in [ToolCalls -> Outputs]
    /\ \A o \in Outputs : o.loses \in BOOLEAN /\ o.long \in BOOLEAN
    /\ Gone \notin ToolCalls /\ Gone \notin Outputs /\ Partial \notin Outputs
    /\ MaxDeaths \in Nat

VARIABLES
    blob,   \* blob[o]: the file at the path of o's digest
    temp,   \* temp[n]: the file with the temporary name n
    disk,   \* disk[f]: what is in file f; files are named by the calls that made them
    step,   \* step[c]: where put() is
    held,   \* held[c]: the file call c writes
    view,   \* view[c]: what the model sees
    deaths

outputVars == <<blob, temp, disk, step, held, view, deaths>>

Steps == {"idle", "missing", "opened", "written", "done", "failed", "lost"}
Views == [form : {"whole", "projected", "pointer"}, ref : Outputs \cup {Gone}]

\* Mutant: without the pid.
TempByDigest(p, o) == <<o>>

\* path.with_suffix(f".{os.getpid()}.tmp")
TempOf(p, o) == <<p, o>>

TempNames == {TempOf(p, o) : p \in Serving, o \in Outputs}

OutputTypeOK ==
    /\ blob \in [Outputs -> ToolCalls \cup {Gone}]
    /\ temp \in [TempNames -> ToolCalls \cup {Gone}]
    /\ disk \in [ToolCalls -> Outputs \cup {Partial}]
    /\ step \in [ToolCalls -> Steps]
    /\ held \in [ToolCalls -> ToolCalls \cup {Gone}]
    /\ view \in [ToolCalls -> Views \cup {Gone}]
    /\ deaths \in 0..MaxDeaths

OutputInit ==
    /\ blob = [o \in Outputs |-> Gone]
    /\ temp = [n \in TempNames |-> Gone]
    /\ disk = [c \in ToolCalls |-> Partial]
    /\ step = [c \in ToolCalls |-> "idle"]
    /\ held = [c \in ToolCalls |-> Gone]
    /\ view = [c \in ToolCalls |-> Gone]
    /\ deaths = 0

----------------------------------------------------------------------------
\* format_tool_output(): an output in JSON may lose fields, items of lists and
\* ends of strings to its tool's contract; what is no JSON, or what is left, may
\* be too long and is then only referred to.
Form(o) ==
    IF o.long THEN "pointer" ELSE IF o.loses THEN "projected" ELSE "whole"

Formatted(o) == [form |-> Form(o), ref |-> IF Form(o) = "whole" THEN Gone ELSE o]

Temp(c) == TempOf(ServedBy[c], OutputOf[c])

\* put() does not yield, so a process is in one call at a time.
Alone(c) ==
    \A d \in ToolCalls \ {c} :
        ServedBy[d] = ServedBy[c] => step[d] \notin {"missing", "opened", "written"}

\* put(): nothing to write if the file is there.
Look(c) ==
    /\ step[c] = "idle" /\ Alone(c)
    /\ IF blob[OutputOf[c]] # Gone
         THEN /\ step' = [step EXCEPT ![c] = "done"]
              /\ view' = [view EXCEPT ![c] = Formatted(OutputOf[c])]
         ELSE step' = [step EXCEPT ![c] = "missing"] /\ UNCHANGED view
    /\ UNCHANGED <<blob, temp, disk, held, deaths>>

\* write_bytes() makes the temporary file or empties the one that is there ...
OpenTemp(c) ==
    LET file == IF temp[Temp(c)] = Gone THEN c ELSE temp[Temp(c)]
    IN  /\ step[c] = "missing"
        /\ step' = [step EXCEPT ![c] = "opened"]
        /\ temp' = [temp EXCEPT ![Temp(c)] = file]
        /\ held' = [held EXCEPT ![c] = file]
        /\ disk' = [disk EXCEPT ![file] = Partial]
        /\ UNCHANGED <<blob, view, deaths>>

\* ... and writes it.
WriteTemp(c) ==
    /\ step[c] = "opened"
    /\ step' = [step EXCEPT ![c] = "written"]
    /\ disk' = [disk EXCEPT ![held[c]] = OutputOf[c]]
    /\ UNCHANGED <<blob, temp, held, view, deaths>>

\* replace(); without a temporary file the call fails.
Replace(c) ==
    /\ step[c] = "written"
    /\ IF temp[Temp(c)] = Gone
         THEN step' = [step EXCEPT ![c] = "failed"] /\ UNCHANGED <<blob, temp, view>>
         ELSE /\ step' = [step EXCEPT ![c] = "done"]
              /\ blob' = [blob EXCEPT ![OutputOf[c]] = temp[Temp(c)]]
              /\ temp' = [temp EXCEPT ![Temp(c)] = Gone]
              /\ view' = [view EXCEPT ![c] = Formatted(OutputOf[c])]
    /\ UNCHANGED <<disk, held, deaths>>

\* The process dies and another one takes its place, with its pid at worst.
Die(p) ==
    /\ deaths < MaxDeaths /\ deaths' = deaths + 1
    /\ step' = [c \in ToolCalls |->
                  IF ServedBy[c] = p /\ step[c] \in {"missing", "opened", "written"}
                  THEN "lost" ELSE step[c]]
    /\ step' # step
    /\ UNCHANGED <<blob, temp, disk, held, view>>

OutputNext ==
    \/ \E c \in ToolCalls : Look(c) \/ OpenTemp(c) \/ WriteTemp(c) \/ Replace(c)
    \/ \E p \in Serving : Die(p)

OutputSpec == OutputInit /\ [][OutputNext]_outputVars

----------------------------------------------------------------------------
(* Properties. *)

\* read(): the file of the digest holds what the digest is of.
ReadBack(o) == blob[o] # Gone /\ disk[blob[o]] = o

\* What the model's copy leaves out can be read back exactly, whichever
\* process wrote the file, next to which other, and wherever one was killed;
\* no call fails for another's sake.
LeftOutReadsBack ==
    \A c \in ToolCalls :
        /\ step[c] # "failed"
        /\ view[c] # Gone => ReadBack(OutputOf[c])
        /\ view[c] # Gone /\ (OutputOf[c].loses \/ OutputOf[c].long) => view[c].ref = OutputOf[c]

Persisting(c) == step[c] \in {"missing", "opened", "written"}

\* The inductive invariant of LeftOutReadsBack.  A process writes for one call
\* at a time, so the temporary file of its name is the call's own from the
\* moment it is opened, although a killed call may have left it there; a file
\* has one name, and one that stands under a digest holds the output.
OutputInv ==
    /\ OutputTypeOK
    /\ \A c, d \in ToolCalls :
          ServedBy[c] = ServedBy[d] /\ Persisting(c) /\ Persisting(d) => c = d
    /\ \A c \in ToolCalls : step[c] \in {"opened", "written"} =>
          temp[Temp(c)] = held[c] /\ held[c] # Gone
    /\ \A c \in ToolCalls : step[c] = "written" => disk[held[c]] = OutputOf[c]
    /\ \A n, m \in TempNames : temp[n] = temp[m] /\ temp[n] # Gone => n = m
    /\ \A o \in Outputs : blob[o] # Gone =>
          disk[blob[o]] = o /\ \A n \in TempNames : temp[n] # blob[o]
    /\ \A c \in ToolCalls : step[c] \in {"idle", "missing"} =>
          /\ \A n \in TempNames : temp[n] # c
          /\ \A o \in Outputs : blob[o] # c
    /\ \A c \in ToolCalls :
          /\ step[c] # "failed"
          /\ view[c] # Gone =>
                blob[OutputOf[c]] # Gone /\ view[c] = Formatted(OutputOf[c])
=============================================================================
