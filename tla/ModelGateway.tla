---------------------------- MODULE ModelGateway ----------------------------
(***************************************************************************)
(* The way of the agents' requests to the model: the process-wide throttle *)
(* (app/infrastructure/throttle.py), retries, fallback and streams of      *)
(* ThrottledChatModel (app/infrastructure/llm.py), and the token budget of *)
(* an intent that chooses the model (app/infrastructure/budget.py).        *)
(*                                                                         *)
(* The semaphore and the lock of the throttle serve in the order of        *)
(* arrival, so each is a queue.  The time since the last start is kept as  *)
(* what is left of the interval.                                           *)
(***************************************************************************)
EXTENDS Integers, Sequences, FiniteSets, SequencesExt

CONSTANTS
    Callers,      \* agents, main and dispatched, that use the throttle
    Intents,
    IntentOf,     \* IntentOf[c]: the intent whose budget the caller shares
    Slots,        \* llm_max_concurrency
    Interval,     \* llm_min_interval_seconds, in ticks
    MaxRetries,   \* llm_max_retries
    HasFallback,  \* llm_fallback_model is set and differs
    Limit,        \* token_budget_total, for an enabled budget
    MaxCost       \* bound: what an answer is charged at most

ASSUME GatewayAssumption ==
    /\ IsFiniteSet(Callers)
    /\ IntentOf \in [Callers -> Intents]
    /\ Slots \in Nat \ {0} /\ Interval \in Nat /\ MaxRetries \in Nat
    /\ HasFallback \in BOOLEAN
    /\ Limit \in Nat \ {0} /\ MaxCost \in Nat

VARIABLES
    waiting,  \* callers waiting for a slot, in order
    pacing,   \* callers with a slot waiting for their start, in order
    free,     \* the value of the semaphore
    gap,      \* what is left of the interval since the last start
    stage,    \* stage[c]: where the caller's request is
    attempt,  \* attempt[c]: retries made
    model,    \* model[c]: the model the last attempt went to
    used,     \* used[i]: tokens charged to the intent, up to Limit
    spent     \* history: tokens charged to the intent for the main model

throttleVars == <<waiting, pacing, free, gap>>
requestVars  == <<stage, attempt, model>>
gatewayVars  == <<throttleVars, requestVars, used, spent>>

\* 0 when the usage is missing.
Costs == 0..MaxCost

Places == {"idle", "queued", "pacing", "calling", "sleeping", "last", "streaming"}

ModelTypeOK ==
    /\ waiting \in Seq(Callers) /\ pacing \in Seq(Callers)
    /\ free \in 0..Slots
    /\ gap \in 0..Interval
    /\ stage \in [Callers -> Places]
    /\ attempt \in [Callers -> 0..MaxRetries]
    /\ model \in [Callers -> {"main", "lite"}]
    /\ used \in [Intents -> 0..Limit]
    /\ spent \in [Intents -> Nat]

----------------------------------------------------------------------------
(***************************************************************************)
(* The budget.                                                             *)
(***************************************************************************)
\* Mutant: the threshold belongs to the tier above it.
AmpleInclusive(i) == 2 * (Limit - used[i]) >= Limit

\* current_tier() is "main": more than half of the budget is left.  The lower
\* tiers choose the same model.
Ample(i) == 2 * (Limit - used[i]) > Limit

\* _charge_budget() of a request of caller c.
Charge(c, cost) ==
    LET i   == IntentOf[c]
        sum == used[i] + cost
    IN  /\ used' = [used EXCEPT ![i] = IF sum < Limit THEN sum ELSE Limit]
        /\ spent' = IF model[c] = "main" THEN [spent EXCEPT ![i] = @ + cost] ELSE spent

NoCharge == UNCHANGED <<used, spent>>

----------------------------------------------------------------------------
GatewayInit ==
    /\ waiting = <<>> /\ pacing = <<>>
    /\ free = Slots /\ gap = 0
    /\ stage = [c \in Callers |-> "idle"]
    /\ attempt = [c \in Callers |-> 0]
    /\ model = [c \in Callers |-> "main"]
    /\ used = [i \in Intents |-> 0]
    /\ spent = [i \in Intents |-> 0]

Advance(c, from, to) == stage[c] = from /\ stage' = [stage EXCEPT ![c] = to]

\* An agent calls its model and waits for a slot.
Request(c) ==
    /\ Advance(c, "idle", "queued")
    /\ waiting' = Append(waiting, c)
    /\ attempt' = [attempt EXCEPT ![c] = 0]
    /\ model' = [model EXCEPT ![c] = "main"]
    /\ NoCharge /\ UNCHANGED <<pacing, free, gap>>

\* The first in the queue gets a slot and waits for its start.
Acquire(c) ==
    /\ free > 0 /\ waiting # <<>> /\ c = Head(waiting)
    /\ Advance(c, "queued", "pacing")
    /\ waiting' = Tail(waiting)
    /\ pacing' = Append(pacing, c)
    /\ free' = free - 1
    /\ NoCharge /\ UNCHANGED <<gap, attempt, model>>

\* _invoke_upstream(): the tier of the moment chooses the model.
Attempt(c) ==
    model' = [model EXCEPT ![c] =
                 IF HasFallback /\ ~Ample(IntentOf[c]) THEN "lite" ELSE "main"]

\* The interval is over: the request starts.
StartAttempt(c) ==
    /\ gap = 0 /\ pacing # <<>> /\ c = Head(pacing)
    /\ Advance(c, "pacing", "calling")
    /\ pacing' = Tail(pacing)
    /\ gap' = Interval
    /\ Attempt(c)
    /\ NoCharge /\ UNCHANGED <<waiting, free, attempt>>

\* A transient failure: the caller sleeps with its slot, or turns to the
\* fallback model when the retries are used up.
Stumble(c) ==
    /\ IF attempt[c] < MaxRetries
         THEN /\ Advance(c, "calling", "sleeping")
              /\ attempt' = [attempt EXCEPT ![c] = @ + 1]
              /\ UNCHANGED model
         ELSE /\ HasFallback
              /\ Advance(c, "calling", "last")
              /\ model' = [model EXCEPT ![c] = "lite"]
              /\ UNCHANGED attempt
    /\ NoCharge /\ UNCHANGED throttleVars

\* The pause is over; a retry does not wait for the interval.
Retry(c) ==
    /\ Advance(c, "sleeping", "calling")
    /\ Attempt(c)
    /\ NoCharge /\ UNCHANGED <<throttleVars, attempt>>

\* Mutant: the slot is given back when the stream is handed over.
OpenAndRelease(c) ==
    /\ stage[c] \in {"calling", "last"}
    /\ stage' = [stage EXCEPT ![c] = "streaming"]
    /\ free' = IF free < Slots THEN free + 1 ELSE free
    /\ NoCharge /\ UNCHANGED <<waiting, pacing, gap, attempt, model>>

\* The upstream answers with a stream; the slot stays taken.
Open(c) ==
    /\ stage[c] \in {"calling", "last"}
    /\ stage' = [stage EXCEPT ![c] = "streaming"]
    /\ NoCharge /\ UNCHANGED <<throttleVars, attempt, model>>

\* The slot is given back.
Release(c) ==
    /\ stage' = [stage EXCEPT ![c] = "idle"]
    /\ free' = free + 1
    /\ UNCHANGED <<waiting, gap, attempt, model>>

\* The stream was read to its end, or broke off: what its last piece says is
\* charged.
Exhaust(c, cost) ==
    /\ stage[c] = "streaming"
    /\ Release(c)
    /\ Charge(c, cost)
    /\ UNCHANGED pacing

\* The upstream answers at once.
Answer(c, cost) ==
    /\ stage[c] \in {"calling", "last"}
    /\ Release(c)
    /\ Charge(c, cost)
    /\ UNCHANGED pacing

\* Mutant: a failed request keeps its slot.
RaiseHolding(c) ==
    /\ stage[c] \in {"calling", "last"}
    /\ stage' = [stage EXCEPT ![c] = "idle"]
    /\ NoCharge /\ UNCHANGED <<throttleVars, attempt, model>>

\* An error that is not transient, or the last one.
Raise(c) ==
    /\ stage[c] \in {"calling", "last"}
    /\ Release(c)
    /\ NoCharge /\ UNCHANGED pacing

\* The caller is cancelled, by the timeout of the tool it runs in or with its
\* process, wherever its request is.
CancelWaiting(c) ==
    /\ Advance(c, "queued", "idle")
    /\ waiting' = Remove(waiting, c)
    /\ NoCharge /\ UNCHANGED <<pacing, free, gap, attempt, model>>

CancelHolding(c) ==
    /\ stage[c] \in {"pacing", "sleeping"}
    /\ Release(c)
    /\ pacing' = Remove(pacing, c)
    /\ NoCharge

Elapse ==
    /\ gap > 0
    /\ gap' = gap - 1
    /\ NoCharge /\ UNCHANGED <<waiting, pacing, free, requestVars>>

Finish(c) ==
    \/ Stumble(c) \/ Open(c) \/ Raise(c)
    \/ \E cost \in Costs : Answer(c, cost) \/ Exhaust(c, cost)

GatewayNext ==
    \/ \E c \in Callers :
          \/ Request(c) \/ Acquire(c) \/ StartAttempt(c) \/ Retry(c) \/ Finish(c)
          \/ CancelWaiting(c) \/ CancelHolding(c)
    \/ Elapse

GatewaySpec == GatewayInit /\ [][GatewayNext]_gatewayVars

\* The event loop runs who may run, time passes, and a request to the
\* upstream ends in an answer or an error.
GatewayFairness ==
    /\ WF_gatewayVars(Elapse)
    /\ \A c \in Callers :
          /\ WF_gatewayVars(Acquire(c)) /\ WF_gatewayVars(StartAttempt(c))
          /\ WF_gatewayVars(Retry(c)) /\ WF_gatewayVars(Finish(c))

FairGateway == GatewaySpec /\ GatewayFairness

----------------------------------------------------------------------------
(* Properties. *)

InFlight == {c \in Callers : stage[c] \in {"calling", "last", "streaming"}}

\* At no moment more requests are with the upstream than the quota allows:
\* streams that are still read, retries and fallbacks count.
InFlightCapped == Cardinality(InFlight) <= Slots

\* Who has a slot, and who of an intent is on the main model.
Holders   == {c \in Callers : stage[c] \notin {"idle", "queued"}}
OnMain(i) == {c \in Callers :
                 IntentOf[c] = i /\ stage[c] \in {"calling", "streaming"} /\ model[c] = "main"}

\* The main model gets half of an intent's budget and at most one more answer
\* per slot, however many agents of the intent ask at once.
MainSpendBounded ==
    HasFallback => \A i \in Intents : spent[i] <= (Limit - 1) \div 2 + Slots * MaxCost

\* The inductive invariant of the two: every slot is free or held, what was
\* spent on the main model is part of what was charged until the limit is
\* reached, and the requests on the main model will not spend beyond the bound.
GatewayInv ==
    /\ stage \in [Callers -> Places] /\ model \in [Callers -> {"main", "lite"}]
    /\ used \in [Intents -> 0..Limit] /\ spent \in [Intents -> Nat]
    /\ free \in 0..Slots
    /\ free + Cardinality(Holders) = Slots
    /\ \A c \in Callers : stage[c] = "last" => model[c] = "lite"
    /\ \A i \in Intents : used[i] < Limit => spent[i] <= used[i]
    /\ HasFallback => \A i \in Intents :
          spent[i] + MaxCost * Cardinality(OnMain(i)) <= (Limit - 1) \div 2 + Slots * MaxCost

\* Who waits gets its turn: no failure, pause or broken stream of another
\* agent keeps a slot for ever.
EveryoneServed ==
    \A c \in Callers : stage[c] \in {"queued", "pacing"} ~> stage[c] \in {"calling", "idle"}
=============================================================================
