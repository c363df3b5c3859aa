--------------------------- MODULE CircuitBreaker ---------------------------
(***************************************************************************)
(* The circuit breaker in front of a tool: CircuitBreakerRegistry and the  *)
(* part of ToolResilienceMiddleware that consults it                       *)
(* (app/infrastructure/resilience.py), for one circuit key and the calls   *)
(* of one process that share it.                                           *)
(*                                                                         *)
(* The registry's methods never yield, so each is one atomic step.  A time *)
(* stamp is kept as the part of the cooldown that is left.                 *)
(***************************************************************************)
EXTENDS Integers, FiniteSets

CONSTANTS
    Calls,      \* callers of the tool; each calls it again and again
    Threshold,  \* failure_threshold
    Cooldown    \* reset_seconds, in ticks

ASSUME BreakerAssumption ==
    /\ Threshold \in Nat \ {0}
    /\ Cooldown \in Nat

VARIABLES
    circuit,  \* the _CircuitState of the key
    at,       \* at[c]: where the caller is
    streak,   \* history: counted failures since the last success
    quiet     \* history: what is left of the cooldown opened last

breakerVars == <<circuit, at, streak, quiet>>

\* failures counts up to Threshold: more is not told apart.
States == [failures : 0..Threshold, open : BOOLEAN, cool : 0..Cooldown, probing : BOOLEAN]

BreakerTypeOK ==
    /\ circuit \in States
    /\ at \in [Calls -> {"idle", "running", "probe", "refused"}]
    /\ streak \in 0..Threshold
    /\ quiet \in 0..Cooldown

\* A new _CircuitState, and what record_success() puts in place.
Closed == [failures |-> 0, open |-> FALSE, cool |-> 0, probing |-> FALSE]

\* Mutant: once open, the breaker never lets a probe through.
AllowsNoProbe(s) == ~s.open

\* allow(): closed, or the cooldown is over.
Allows(s) == ~s.open \/ s.cool = 0

OneMore(n) == IF n < Threshold THEN n + 1 ELSE Threshold

\* Mutant: the threshold is compared with the count before this failure.
FailedOffByOne(s) ==
    LET n == OneMore(s.failures) IN
    [s EXCEPT !.failures = n, !.open = @ \/ s.failures = Threshold,
              !.cool = IF s.failures = Threshold THEN Cooldown ELSE @]

\* record_failure(): a failed probe opens the breaker again, any other
\* failure is counted.
Failed(s) ==
    LET n == OneMore(s.failures) IN
    IF s.probing THEN [s EXCEPT !.cool = Cooldown, !.probing = FALSE]
    ELSE [s EXCEPT !.failures = n, !.open = @ \/ n = Threshold,
                   !.cool = IF n = Threshold THEN Cooldown ELSE @]

Waned(n) == IF n > 0 THEN n - 1 ELSE 0

BreakerInit ==
    /\ circuit = Closed
    /\ at = [c \in Calls |-> "idle"]
    /\ streak = 0 /\ quiet = 0

----------------------------------------------------------------------------
Move(c, to) == at' = [at EXCEPT ![c] = to]
Running(c)  == at[c] \in {"running", "probe"}

Ask(c) ==
    /\ at[c] = "idle"
    /\ Allows(circuit)
    /\ Move(c, IF circuit.open THEN "probe" ELSE "running")
    /\ circuit' = [circuit EXCEPT !.probing = @ \/ circuit.open]
    /\ UNCHANGED <<streak, quiet>>

\* The breaker answers for the tool with an error chunk.
Refuse(c) ==
    /\ at[c] = "idle"
    /\ ~Allows(circuit)
    /\ Move(c, "refused")
    /\ UNCHANGED <<circuit, streak, quiet>>

\* The agent decides what to do about the refusal, and calls again.
Return(c) ==
    /\ at[c] = "refused"
    /\ Move(c, "idle")
    /\ UNCHANGED <<circuit, streak, quiet>>

Succeed(c) ==
    /\ Running(c)
    /\ Move(c, "idle")
    /\ circuit' = Closed
    /\ streak' = 0
    /\ UNCHANGED quiet

\* A timeout, an exception or an ERROR chunk that counts as a failure.
Fail(c) ==
    /\ Running(c)
    /\ Move(c, "idle")
    /\ circuit' = Failed(circuit)
    /\ streak' = OneMore(streak)
    /\ quiet' = IF circuit'.open THEN Cooldown ELSE quiet

\* An ERROR chunk or an exception of product_search_tool that does not count,
\* or a call cancelled from outside: neither success nor failure is recorded.
Vanish(c) ==
    /\ Running(c)
    /\ Move(c, "idle")
    /\ UNCHANGED <<circuit, streak, quiet>>

\* A tick of time.monotonic().
Tick ==
    /\ circuit.cool > 0 \/ quiet > 0
    /\ circuit' = [circuit EXCEPT !.cool = Waned(@)]
    /\ quiet' = Waned(quiet)
    /\ UNCHANGED <<at, streak>>

Finish(c) == Succeed(c) \/ Fail(c) \/ Vanish(c)

BreakerNext ==
    \/ \E c \in Calls : Ask(c) \/ Refuse(c) \/ Return(c) \/ Finish(c)
    \/ Tick

BreakerSpec == BreakerInit /\ [][BreakerNext]_breakerVars

\* Time passes, a tool call ends within its timeout, and a tool that is
\* wanted is called again.
FairBreaker ==
    /\ BreakerSpec
    /\ WF_breakerVars(Tick)
    /\ \A c \in Calls : WF_breakerVars(Ask(c) \/ Return(c)) /\ WF_breakerVars(Finish(c))

----------------------------------------------------------------------------
(* Properties. *)

\* The breaker is open exactly when the last Threshold results that were
\* recorded are failures, whatever order the results of concurrent calls come
\* in, and also after late results and failed probes.
OpenMeansStreak == circuit.open <=> streak = Threshold

\* The inductive invariant of OpenMeansStreak.
BreakerInv ==
    /\ BreakerTypeOK
    /\ circuit.failures = streak
    /\ OpenMeansStreak
    /\ circuit.probing => circuit.open /\ circuit.cool = 0
    /\ circuit.cool <= quiet

\* The tool fails (or its calls end without a verdict) for ever, or the
\* breaker closes for good.
Recovers ==
    \/ []<><<\E c \in Calls : Fail(c) \/ Vanish(c)>>_breakerVars
    \/ <>[]~circuit.open
=============================================================================
