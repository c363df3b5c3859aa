--------------------------- MODULE SharedBreaker ----------------------------
(***************************************************************************)
(* The circuit breaker shared by all processes through Redis:              *)
(* SharedCircuitBreakerRegistry (app/infrastructure/shared_breaker.py).    *)
(*                                                                         *)
(* allow() and record_failure() read the record in one await and write it  *)
(* back in another; other calls, of this or another process, take steps in *)
(* between.  RedisCache hides every failure: a failed read is "no record", *)
(* a failed write is dropped.                                              *)
(***************************************************************************)
EXTENDS Integers, FiniteSets

CONSTANTS
    Calls, Threshold, Cooldown,
    Nothing,     \* no record under the key
    MaxAccess,   \* bound: calls that access the record at once
    MaxFaults,   \* bound: Redis calls that fail
    MaxLapses    \* bound: expiries of the record

ASSUME SharedAssumption ==
    /\ Threshold \in Nat \ {0} /\ Cooldown \in Nat
    /\ IsFiniteSet(Calls)
    /\ MaxAccess \in Nat \ {0}
    /\ MaxFaults \in Nat /\ MaxLapses \in Nat

VARIABLES
    stored,   \* the record in Redis
    copy,     \* copy[c]: the record c has read and is going to write
    at,       \* at[c]: where the caller is
    streak, quiet,   \* history, as in CircuitBreaker
    total,    \* history: failures so far, up to Threshold
    inTurn,   \* accesses come one after the other, each within a tick, and
              \* Redis does not fail
    faults, lapses

sharedVars == <<stored, copy, at, streak, quiet, total, inTurn, faults, lapses>>
history    == <<streak, quiet, total>>
budget     == <<faults, lapses>>

\* A call with a failure to record keeps how it was admitted.
Recording == [running |-> "recording", probe |-> "recordingProbe"]
Admitted  == [c \in Calls |-> CASE at[c] = "recording" -> "running"
                                [] at[c] = "recordingProbe" -> "probe"
                                [] at[c] = "marking" -> "idle"
                                [] OTHER -> at[c]]

\* In between a read and a write, nothing is visible to the tool's callers.
\* Accesses that overlap or fail are mapped to a breaker nobody uses.
Local == INSTANCE CircuitBreaker
    WITH circuit <- IF inTurn /\ stored # Nothing
                      THEN stored
                      ELSE [failures |-> 0, open |-> FALSE, cool |-> 0, probing |-> FALSE],
         at <- IF inTurn THEN Admitted ELSE [c \in Calls |-> "idle"],
         streak <- IF inTurn THEN streak ELSE 0,
         quiet <- IF inTurn THEN quiet ELSE 0

ASSUME NothingAssumption == Nothing \notin Local!States

SharedTypeOK ==
    /\ stored \in Local!States \cup {Nothing}
    /\ copy \in [Calls -> Local!States]
    /\ at \in [Calls -> {"idle", "marking", "running", "probe", "recording",
                         "recordingProbe", "refused"}]
    /\ streak \in 0..Threshold /\ quiet \in 0..Cooldown /\ total \in 0..Threshold
    /\ inTurn \in BOOLEAN
    /\ faults \in 0..MaxFaults /\ lapses \in 0..MaxLapses

SharedInit ==
    /\ stored = Nothing
    /\ copy = [c \in Calls |-> Local!Closed]
    /\ at = [c \in Calls |-> "idle"]
    /\ streak = 0 /\ quiet = 0 /\ total = 0
    /\ inTurn \in BOOLEAN
    /\ faults = 0 /\ lapses = 0

----------------------------------------------------------------------------
Move(c, from, to) == at[c] \in from /\ at' = [at EXCEPT ![c] = to]

Recorders == {c \in Calls : at[c] \in {"recording", "recordingProbe"}}
Accessing == Recorders \cup {c \in Calls : at[c] = "marking"}
MayAccess == Cardinality(Accessing) < IF inTurn THEN 1 ELSE MaxAccess

Fault ==
    ~inTurn /\ faults < MaxFaults /\ faults' = faults + 1 /\ UNCHANGED lapses

\* What _load() gives for the record r.
Read(r) == IF r = Nothing THEN Local!Closed ELSE r

\* A Redis read that succeeds, or fails and finds nothing.
Reads(r) ==
    \/ r = stored /\ UNCHANGED budget
    \/ r = Nothing /\ Fault

\* A Redis write that succeeds, or fails and is dropped.
Writes(r) ==
    \/ stored' = r /\ UNCHANGED budget
    \/ stored' = stored /\ Fault

\* allow_async(): no record, or one that is not open.
AskClosed(c) ==
    /\ MayAccess
    /\ Move(c, {"idle"}, "running")
    /\ \E r \in {stored, Nothing} : Reads(r) /\ ~Read(r).open
    /\ UNCHANGED <<stored, copy, history>>

Refuse(c) ==
    /\ MayAccess
    /\ Move(c, {"idle"}, "refused")
    /\ Read(stored).open /\ stored.cool > 0
    /\ UNCHANGED <<stored, copy, history, budget>>

\* The cooldown is over: half_open is set in the copy, to be written back.
AskCooled(c) ==
    /\ MayAccess
    /\ Move(c, {"idle"}, "marking")
    /\ Read(stored).open /\ stored.cool = 0
    /\ copy' = [copy EXCEPT ![c] = [stored EXCEPT !.probing = TRUE]]
    /\ UNCHANGED <<stored, history, budget>>

Mark(c) ==
    /\ Move(c, {"marking"}, "probe")
    /\ Writes(copy[c])
    /\ copy' = [copy EXCEPT ![c] = Local!Closed]
    /\ UNCHANGED history

Return(c) ==
    /\ Move(c, {"refused"}, "idle")
    /\ UNCHANGED <<stored, copy, history, budget>>

\* record_success_async() deletes the record.
Succeed(c) ==
    /\ MayAccess
    /\ Move(c, {"running", "probe"}, "idle")
    /\ Writes(Nothing)
    /\ streak' = 0
    /\ UNCHANGED <<copy, quiet, total>>

\* The call ends without a verdict, or is cancelled from outside at an await.
Vanish(c) ==
    /\ Move(c, {"running", "probe", "marking", "recording", "recordingProbe"}, "idle")
    /\ copy' = [copy EXCEPT ![c] = Local!Closed]
    /\ UNCHANGED <<stored, history, budget>>

\* Mutant: a failure is counted twice.
FailTwice(c) ==
    /\ MayAccess
    /\ at[c] \in {"running", "probe"}
    /\ Move(c, {"running", "probe"}, Recording[at[c]])
    /\ \E r \in {stored, Nothing} :
         Reads(r) /\ copy' = [copy EXCEPT ![c] = Local!Failed(Local!Failed(Read(r)))]
    /\ total' = Local!OneMore(total)
    /\ UNCHANGED <<stored, streak, quiet>>

\* record_failure_async() reads the record and counts the failure in its copy,
\* with the stamp of this moment ...
Fail(c) ==
    /\ MayAccess
    /\ at[c] \in {"running", "probe"}
    /\ Move(c, {"running", "probe"}, Recording[at[c]])
    /\ \E r \in {stored, Nothing} :
         Reads(r) /\ copy' = [copy EXCEPT ![c] = Local!Failed(Read(r))]
    /\ total' = Local!OneMore(total)
    /\ UNCHANGED <<stored, streak, quiet>>

\* ... and writes it back.
Record(c) ==
    /\ Move(c, {"recording", "recordingProbe"}, "idle")
    /\ Writes(copy[c])
    /\ quiet' = IF copy[c].open THEN Cooldown ELSE quiet
    /\ copy' = [copy EXCEPT ![c] = Local!Closed]
    /\ streak' = Local!OneMore(streak)
    /\ UNCHANGED total

\* The record's TTL is at least ten cooldowns after it was written.
Expire ==
    /\ stored # Nothing
    /\ stored.cool = 0
    /\ ~inTurn /\ lapses < MaxLapses
    /\ lapses' = lapses + 1
    /\ stored' = Nothing
    /\ UNCHANGED <<copy, at, history, faults>>

Older(r) == [r EXCEPT !.cool = Local!Waned(@)]

\* A tick of time.time(); a record holds the stamp, so copies age with it.
Tick ==
    /\ inTurn => Accessing = {}
    /\ quiet > 0 \/ Read(stored).cool > 0 \/ \E c \in Calls : copy[c].cool > 0
    /\ stored' = IF stored = Nothing THEN Nothing ELSE Older(stored)
    /\ copy' = [c \in Calls |-> Older(copy[c])]
    /\ quiet' = Local!Waned(quiet)
    /\ UNCHANGED <<at, streak, total, budget>>

Step(c) == \/ AskClosed(c) \/ AskCooled(c) \/ Refuse(c) \/ Mark(c) \/ Return(c)
           \/ Succeed(c) \/ Vanish(c) \/ Fail(c) \/ Record(c)

SharedNext ==
    /\ (\E c \in Calls : Step(c)) \/ Tick \/ Expire
    /\ UNCHANGED inTurn

SharedSpec == SharedInit /\ [][SharedNext]_sharedVars

----------------------------------------------------------------------------
(* Properties. *)

\* When accesses to the record are whole and Redis does not fail, all
\* processes together behave as one process with the local breaker does:
\* nothing is lost or kept by putting the state into Redis.
SharedIsLocal == Local!BreakerSpec

Records == {Read(stored)} \cup {copy[c] : c \in Calls}

\* However accesses overlap, fail or lapse, the breaker never opens before
\* there have been Threshold failures.
OpensOnlyWhenEarned ==
    \A r \in Records : r.failures <= total /\ (r.open => total = Threshold)

\* A call is refused only within a cooldown after a failure was recorded: no
\* lost or late write makes an old refusal come back.
RefusesOnlyAfterFailure ==
    \A r \in {Read(stored)} \cup {copy[c] : c \in Calls \ Recorders} : r.open => r.cool <= quiet

\* The inductive invariant of the two properties above.
SharedInv == SharedTypeOK /\ OpensOnlyWhenEarned /\ RefusesOnlyAfterFailure

\* The inductive invariant of SharedIsLocal.  With one access at a time, what a
\* call is about to write back is still what follows from the record.
TurnInv ==
    inTurn =>
        /\ \A c, d \in Accessing : c = d
        /\ \A c \in Recorders : copy[c] = Local!Failed(Read(stored))
        /\ \A c \in Calls : at[c] = "marking" =>
              /\ stored # Nothing /\ stored.open /\ stored.cool = 0
              /\ copy[c] = [stored EXCEPT !.probing = TRUE]
=============================================================================
