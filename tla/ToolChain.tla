----------------------------- MODULE ToolChain -----------------------------
(***************************************************************************)
(* The middleware chain of the main agent's tools, for one session:        *)
(* HarnessToolMiddleware outside, ToolResilienceMiddleware inside          *)
(* (app/infrastructure/harness_middleware.py, app/application/harness/,    *)
(* app/application/agents/main_agent.py).  The calls of CircuitBreaker are *)
(* task_dispatch calls here, several of which may run at once; each is for *)
(* a key of agent type, platform and site.                                 *)
(*                                                                         *)
(* No step of the chain awaits between the harness's admission and the     *)
(* breaker's, nor between the breaker's record and the harness's clean-up, *)
(* so each is one step.  The set of active keys is a Python object: a call *)
(* keeps the one it found after the mapping has dropped it.                *)
(***************************************************************************)
EXTENDS CircuitBreaker

CONSTANTS
    Keys,    \* what a dispatch can be for
    Window,  \* DEFAULT_WINDOW
    NoName

ASSUME ChainAssumption ==
    /\ IsFiniteSet(Calls) /\ NoName \notin Calls \cup Keys
    /\ Window \in Nat \ {0}

VARIABLES
    active,   \* _active_dispatches: the session's set object, or NoName
    members,  \* members[b]: the keys in set object b; objects are named by calls
    holds,    \* holds[c]: the set object a running dispatch has found
    key,      \* key[c]: what a running dispatch is for
    detector, \* LoopDetector: the last tool counted and how often in a row
    twins     \* history: two dispatches for one key have met since a
              \* dispatch last found none running

harnessVars == <<active, members, holds, key, detector, twins>>
chainVars == <<breakerVars, harnessVars>>

\* Tools the main agent builds with the chain of its _resilience().  None of
\* them has a prerequisite, so the sequencing check never turns one away.
Harnessed == {"dispatch", "remember"}

----------------------------------------------------------------------------
NoLoop == [tool |-> NoName, count |-> 0]

\* The tool's trailing repetitions in the window, this call included.
Counted(l, tool) ==
    [tool  |-> tool,
     count |-> IF l.tool # tool THEN 1 ELSE IF l.count < Window THEN l.count + 1 ELSE Window]

Noted == IF active = NoName THEN {} ELSE members[active]

\* A dispatch next to others that are for something else.
DistinctParallel(k) == Noted # {} /\ k \notin Noted

Dispatching == {c \in Calls : Running(c)}

\* The object a dispatch finds in the mapping, or a new one.
Bag == IF active # NoName THEN active
       ELSE CHOOSE b \in Calls : \A d \in Dispatching : holds[d] # b

\* Mutant: the session's entry is dropped whoever still runs.
DropsAlways(keys) == NoName

\* What the mapping holds once a dispatch has left its keys behind.
Dropped(keys) == IF keys = {} THEN NoName ELSE active

----------------------------------------------------------------------------
ChainInit ==
    /\ BreakerInit
    /\ active = NoName
    /\ members = [b \in Calls |-> {}]
    /\ holds = [c \in Calls |-> NoName]
    /\ key = [c \in Calls |-> NoName]
    /\ detector = NoLoop /\ twins = FALSE

\* What the harness does before a dispatch.
Admit(k) ==
    /\ detector' = IF DistinctParallel(k) THEN detector ELSE Counted(detector, "dispatch")
    /\ twins' = \/ twins /\ Dispatching # {}
                \/ \E d \in Dispatching : key[d] = k

Dispatch(c, k) ==
    /\ Admit(k)
    /\ Ask(c)
    /\ active' = Bag
    /\ members' = [members EXCEPT ![Bag] = Noted \cup {k}]
    /\ holds' = [holds EXCEPT ![c] = Bag]
    /\ key' = [key EXCEPT ![c] = k]

\* Mutant: a refused dispatch leaves its key behind.
LeavesKey(k) ==
    /\ active' = Bag
    /\ members' = [members EXCEPT ![Bag] = Noted \cup {k}]

\* The clean-up after a refused dispatch.
Forget(k) ==
    /\ active' = Dropped(Noted \ {k})
    /\ members' = IF active = NoName THEN members ELSE [members EXCEPT ![active] = @ \ {k}]

\* The breaker is open: the dispatch comes back at once.
DispatchRefused(c, k) ==
    /\ Admit(k)
    /\ Refuse(c)
    /\ Forget(k)
    /\ UNCHANGED <<holds, key>>

\* The agent, having read the refusal, goes on.
GoOn(c) == Return(c) /\ UNCHANGED harnessVars

\* A dispatch ends, in whatever way.
Leave(c) ==
    /\ Finish(c)
    /\ LET rest == members[holds[c]] \ {key[c]}
       IN  /\ members' = [members EXCEPT ![holds[c]] = rest]
           /\ active' = Dropped(rest)
    /\ holds' = [holds EXCEPT ![c] = NoName]
    /\ key' = [key EXCEPT ![c] = NoName]
    /\ UNCHANGED <<detector, twins>>

\* remember_preference and forget_preference.
Remember ==
    /\ detector' = Counted(detector, "remember")
    /\ UNCHANGED <<breakerVars, active, members, holds, key, twins>>

\* The end of a turn of the session; another one may run.
EndTurn ==
    /\ detector' = NoLoop
    /\ UNCHANGED <<breakerVars, active, members, holds, key, twins>>

Pass == Tick /\ UNCHANGED harnessVars

ChainNext ==
    \/ \E c \in Calls :
          \/ \E k \in Keys : Dispatch(c, k) \/ DispatchRefused(c, k)
          \/ GoOn(c) \/ Leave(c)
    \/ Remember
    \/ EndTurn
    \/ Pass

ChainSpec == ChainInit /\ [][ChainNext]_chainVars

\* Time passes, a dispatch ends within its timeout, and the agents dispatch
\* again.
ChainFairness ==
    /\ WF_chainVars(Pass)
    /\ \A c \in Calls :
          /\ WF_chainVars((\E k \in Keys : Dispatch(c, k)) \/ GoOn(c))
          /\ WF_chainVars(Leave(c))

FairChain == ChainSpec /\ ChainFairness

----------------------------------------------------------------------------
(* Properties. *)

ChainTypeOK ==
    /\ BreakerTypeOK
    /\ active \in Calls \cup {NoName}
    /\ members \in [Calls -> SUBSET Keys]
    /\ holds \in [Calls -> Calls \cup {NoName}]
    /\ key \in [Calls -> Keys \cup {NoName}]
    /\ detector \in [tool : Harnessed \cup {NoName}, count : 0..Window]
    /\ twins \in BOOLEAN

\* The inductive invariant of NothingLeftBehind.  A key in a set object that
\* a dispatch holds is the key of one that holds it, and the object in the
\* mapping is never empty.
HeldKeys(b) == {key[d] : d \in {e \in Dispatching : holds[e] = b}}

ChainInv ==
    /\ ChainTypeOK
    /\ \A c \in Dispatching : holds[c] \in Calls /\ key[c] \in Keys
    /\ \A b \in Calls : HeldKeys(b) # {} => members[b] \subseteq HeldKeys(b)
    /\ active # NoName => members[active] # {} /\ members[active] \subseteq HeldKeys(active)

\* An entry of the mapping never outlives the session's last dispatch, not
\* even when dispatches for one key have mixed up the set objects.
NothingLeftBehind == Dispatching = {} => active = NoName

\* A fan-out to several platforms is not taken for a loop: a dispatch that
\* starts next to others, for something none of them is for, is not counted.
FanOutNotCounted ==
    [][\A c \in Calls :
          (key'[c] # NoName /\ key[c] = NoName /\ Dispatching # {} /\ ~twins') => detector' = detector]_chainVars

\* The inductive invariant of FanOutNotCounted.  Without twins the running
\* dispatches, one for each key, all share the set object in the mapping.
FanInv ==
    Dispatching # {} /\ ~twins =>
        /\ active # NoName
        /\ \A d \in Dispatching : holds[d] = active /\ key[d] \in members[active]
        /\ \A d, e \in Dispatching : key[d] = key[e] => d = e
=============================================================================
