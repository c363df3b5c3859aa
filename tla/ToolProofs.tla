----------------------------- MODULE ToolProofs -----------------------------
(***************************************************************************)
(* The main agent's tools: the local circuit breaker, the harness above it *)
(* and what is kept of the tools' outputs, for every number of callers,    *)
(* keys, processes and outputs, every threshold, cooldown and window.      *)
(***************************************************************************)
EXTENDS ToolChain, ToolOutput, FiniteSetTheorems, TLAPS

\* Counting up to Threshold and waning down to zero stay in range.
LEMMA InRange ==
    ASSUME NEW n \in 0..Threshold, NEW k \in 0..Cooldown
    PROVE  OneMore(n) \in 0..Threshold /\ Waned(k) \in 0..Cooldown
  BY BreakerAssumption DEF OneMore, Waned

LEMMA BreakerInitInv == BreakerInit => BreakerInv
  BY BreakerAssumption
     DEF BreakerInit, BreakerInv, BreakerTypeOK, OpenMeansStreak, Closed, States

\* Recording a failure counts it, and opens the breaker at Threshold.
LEMMA FailedCounts ==
    ASSUME NEW s \in States, s.open <=> s.failures = Threshold,
           s.probing => s.open /\ s.cool = 0
    PROVE  /\ Failed(s) \in States
           /\ Failed(s).failures = OneMore(s.failures)
           /\ Failed(s).open <=> Failed(s).failures = Threshold
           /\ Failed(s).probing => Failed(s).open /\ Failed(s).cool = 0
           /\ Failed(s).open \/ Failed(s).cool = s.cool
<1> DEFINE n == OneMore(s.failures)
<1>1. /\ n \in 0..Threshold /\ Cooldown \in 0..Cooldown
      /\ s.failures = Threshold => n = Threshold
  BY BreakerAssumption, InRange DEF States, OneMore
<1>2. s = [failures |-> s.failures, open |-> s.open, cool |-> s.cool, probing |-> s.probing]
  BY DEF States
<1>3. CASE s.probing
  <2>1. Failed(s) = [failures |-> s.failures, open |-> s.open, cool |-> Cooldown, probing |-> FALSE]
    BY <1>2, <1>3 DEF Failed
  <2>2. s.open /\ s.failures = Threshold /\ n = s.failures
    BY <1>1, <1>3
  <2>3. QED
    BY <1>1, <2>1, <2>2 DEF States
<1>4. CASE ~s.probing
  <2>1. CASE n = Threshold
    <3>1. Failed(s) = [failures |-> n, open |-> TRUE, cool |-> Cooldown, probing |-> FALSE]
      BY <1>2, <1>4, <2>1 DEF Failed, States
    <3>2. QED
      BY <1>1, <2>1, <3>1 DEF States
  <2>2. CASE n # Threshold
    <3>1. Failed(s) = [failures |-> n, open |-> s.open, cool |-> s.cool, probing |-> FALSE]
      BY <1>2, <1>4, <2>2 DEF Failed, States
    <3>2. ~s.open
      BY <1>1, <2>2
    <3>3. QED
      BY <1>1, <2>2, <3>1, <3>2 DEF States
  <2>3. QED
    BY <2>1, <2>2
<1>5. QED
  BY <1>3, <1>4 DEF States

\* Every step of the breaker keeps the invariant.
LEMMA BreakerStep == BreakerInv /\ [BreakerNext]_breakerVars => BreakerInv'
<1> SUFFICES ASSUME BreakerInv, [BreakerNext]_breakerVars
             PROVE  BreakerInv'
  OBVIOUS
<1> USE BreakerAssumption
<1>1. /\ circuit \in States /\ streak \in 0..Threshold /\ quiet \in 0..Cooldown
      /\ circuit.failures = streak
      /\ circuit.open <=> streak = Threshold
      /\ circuit.probing => circuit.open /\ circuit.cool = 0
      /\ circuit.cool <= quiet
  BY DEF BreakerInv, BreakerTypeOK, OpenMeansStreak
<1>2. ASSUME NEW c \in Calls, Ask(c) PROVE BreakerInv'
  BY <1>1, <1>2 DEF Ask, Allows, Move, BreakerInv, BreakerTypeOK, OpenMeansStreak, States
<1>3. ASSUME NEW c \in Calls, Refuse(c) \/ Return(c) \/ Vanish(c) PROVE BreakerInv'
  BY <1>3 DEF Refuse, Return, Vanish, Move, BreakerInv, BreakerTypeOK, OpenMeansStreak
<1>4. ASSUME NEW c \in Calls, Succeed(c) PROVE BreakerInv'
  BY <1>1, <1>4 DEF Succeed, Move, Closed, BreakerInv, BreakerTypeOK, OpenMeansStreak, States
<1>5. ASSUME NEW c \in Calls, Fail(c) PROVE BreakerInv'
  <2>1. /\ circuit' \in States
        /\ circuit'.failures = OneMore(circuit.failures)
        /\ circuit'.open <=> circuit'.failures = Threshold
        /\ circuit'.probing => circuit'.open /\ circuit'.cool = 0
        /\ circuit'.open \/ circuit'.cool = circuit.cool
    BY <1>1, <1>5, FailedCounts DEF Fail
  <2>2. streak' = OneMore(streak) /\ streak' \in 0..Threshold
    BY <1>1, <1>5, InRange DEF Fail
  <2>3. quiet' \in 0..Cooldown /\ circuit'.cool <= quiet'
    BY <1>1, <1>5, <2>1 DEF Fail, States
  <2>4. QED
    BY <1>1, <1>5, <2>1, <2>2, <2>3
       DEF Fail, Move, BreakerInv, BreakerTypeOK, OpenMeansStreak
<1>6. CASE Tick
  <2>1. circuit' = [circuit EXCEPT !.cool = Waned(circuit.cool)] /\ quiet' = Waned(quiet)
    BY <1>6 DEF Tick
  <2>2. Waned(circuit.cool) \in 0..Cooldown /\ quiet' \in 0..Cooldown
    BY <1>1, <2>1, InRange DEF States
  <2>3. Waned(circuit.cool) <= Waned(quiet) /\ (circuit.cool = 0 => Waned(circuit.cool) = 0)
    BY <1>1 DEF Waned, States
  <2>4. QED
    BY <1>1, <1>6, <2>1, <2>2, <2>3
       DEF Tick, BreakerInv, BreakerTypeOK, OpenMeansStreak, States
<1>7. CASE UNCHANGED breakerVars
  BY <1>7 DEF breakerVars, BreakerInv, BreakerTypeOK, OpenMeansStreak
<1>8. QED
  BY <1>2, <1>3, <1>4, <1>5, <1>6, <1>7 DEF BreakerNext, Finish

\* The inductive invariant holds in every reachable state.
THEOREM BreakerInvariant == BreakerSpec => []BreakerInv
  BY BreakerInitInv, BreakerStep, PTL DEF BreakerSpec

\* The breaker is open exactly after Threshold recorded failures without a
\* success in between (record_failure() and record_success()).
THEOREM BreakerOpensOnStreak == BreakerSpec => []OpenMeansStreak
<1>1. BreakerInv => OpenMeansStreak
  BY DEF BreakerInv
<1>2. QED
  BY <1>1, BreakerInvariant, PTL

----------------------------------------------------------------------------
(* The middleware chain. *)

\* Every step of the chain is one of the breaker or leaves it alone.
THEOREM ChainUsesBreaker == ChainSpec => BreakerSpec
<1>1. ChainInit => BreakerInit
  BY DEF ChainInit
<1>2. [ChainNext]_chainVars => [BreakerNext]_breakerVars
  BY DEF ChainNext, Dispatch, DispatchRefused, GoOn, Leave, Remember, EndTurn, Pass,
         chainVars, breakerVars, BreakerNext
<1>3. QED
  BY <1>1, <1>2, PTL DEF ChainSpec, BreakerSpec

\* Below the harness, too, the breaker is open exactly after its streak.
THEOREM ChainOpensOnStreak == ChainSpec => []OpenMeansStreak
  BY ChainUsesBreaker, BreakerOpensOnStreak

\* A call that does not run leaves a set object free for its dispatch.
LEMMA SomeBagIsFree ==
    ASSUME \A d \in Dispatching : holds[d] \in Calls,
           NEW c \in Calls, c \notin Dispatching
    PROVE  \E b \in Calls : \A d \in Dispatching : holds[d] # b
<1> SUFFICES ASSUME \A b \in Calls : \E d \in Dispatching : holds[d] = b
             PROVE  FALSE
  OBVIOUS
<1> DEFINE f == [d \in Dispatching |-> holds[d]]
<1>1. IsFiniteSet(Calls) /\ Dispatching \in SUBSET Calls
  BY ChainAssumption DEF Dispatching
<1>2. /\ IsFiniteSet(Dispatching)
      /\ Cardinality(Dispatching) <= Cardinality(Calls)
      /\ Cardinality(Calls) = Cardinality(Dispatching) => Calls = Dispatching
  BY <1>1, FS_Subset
<1>3. f \in Surjection(Dispatching, Calls)
  BY DEF Surjection
<1>4. Cardinality(Calls) <= Cardinality(Dispatching)
  BY <1>2, <1>3, FS_Surjection
<1>5. Cardinality(Calls) \in Nat /\ Cardinality(Dispatching) \in Nat
  BY <1>1, <1>2, FS_CardinalityType
<1>6. QED
  BY <1>2, <1>4, <1>5

LEMMA ChainInitInv == ChainInit => ChainInv
<1> SUFFICES ASSUME ChainInit PROVE ChainInv
  OBVIOUS
<1>1. BreakerTypeOK /\ Dispatching = {}
  BY BreakerInitInv
     DEF ChainInit, BreakerInit, BreakerInv, Dispatching, Running
<1>2. detector \in [tool : Harnessed \cup {NoName}, count : 0..Window]
  BY ChainAssumption DEF ChainInit, NoLoop
<1>3. \A b \in Calls : HeldKeys(b) = {}
  BY <1>1 DEF HeldKeys
<1>4. QED
  BY <1>1, <1>2, <1>3 DEF ChainInit, ChainInv, ChainTypeOK

\* Counting keeps to the window.
LEMMA CountedInWindow ==
    ASSUME NEW l \in [tool : Harnessed \cup {NoName}, count : 0..Window], NEW tool \in Harnessed
    PROVE  Counted(l, tool) \in [tool : Harnessed \cup {NoName}, count : 0..Window]
  BY ChainAssumption DEF Counted

\* A dispatch adds itself to a set object no other running dispatch holds, or
\* to the one in the mapping.
LEMMA DispatchKeeps ==
    ASSUME ChainInv, BreakerTypeOK', NEW c \in Calls, NEW k \in Keys, Dispatch(c, k)
    PROVE  ChainInv'
<1>1. /\ active \in Calls \cup {NoName} /\ members \in [Calls -> SUBSET Keys]
      /\ holds \in [Calls -> Calls \cup {NoName}] /\ key \in [Calls -> Keys \cup {NoName}]
      /\ detector \in [tool : Harnessed \cup {NoName}, count : 0..Window] /\ twins \in BOOLEAN
      /\ at \in [Calls -> {"idle", "running", "probe", "refused"}]
  BY DEF ChainInv, ChainTypeOK, BreakerTypeOK
<1>2. c \notin Dispatching /\ Dispatching' = Dispatching \cup {c}
  BY <1>1 DEF Dispatch, Ask, Move, Dispatching, Running
<1>3. /\ Bag \in Calls
      /\ active = NoName => \A d \in Dispatching : holds[d] # Bag
      /\ active # NoName => Bag = active
  <2>1. CASE active # NoName
    BY <1>1, <2>1 DEF Bag
  <2>2. CASE active = NoName
    <3>1. \E b \in Calls : \A d \in Dispatching : holds[d] # b
      BY <1>2, SomeBagIsFree DEF ChainInv
    <3>2. QED
      BY <2>2, <3>1 DEF Bag
  <2>3. QED
    BY <2>1, <2>2
<1> PICK bag \in Calls : bag = Bag
  BY <1>3
<1>4. /\ active' = bag /\ active' # NoName
      /\ members' = [members EXCEPT ![bag] = Noted \cup {k}]
      /\ holds' = [holds EXCEPT ![c] = bag]
      /\ key' = [key EXCEPT ![c] = k]
  BY ChainAssumption DEF Dispatch
<1>5. Noted \in SUBSET Keys /\ Noted \subseteq HeldKeys(bag)
  BY <1>1, <1>3 DEF Noted, ChainInv
<1>6. ChainTypeOK'
  <2>1. detector' \in [tool : Harnessed \cup {NoName}, count : 0..Window] /\ twins' \in BOOLEAN
    BY <1>1, CountedInWindow DEF Dispatch, Admit, Harnessed
  <2>2. QED
    BY <1>1, <1>4, <1>5, <2>1 DEF ChainTypeOK
<1>7. \A b \in Calls : HeldKeys(b)' = IF b = bag THEN HeldKeys(b) \cup {k} ELSE HeldKeys(b)
  BY <1>1, <1>2, <1>4 DEF HeldKeys
<1>8. members'[bag] \subseteq HeldKeys(bag)' /\ members'[bag] # {}
  BY <1>1, <1>4, <1>5, <1>7
<1>9. \A b \in Calls : HeldKeys(b)' # {} => members'[b] \subseteq HeldKeys(b)'
  BY <1>1, <1>4, <1>7, <1>8 DEF ChainInv
<1>10. \A d \in Dispatching' : holds'[d] \in Calls /\ key'[d] \in Keys
  BY <1>1, <1>2, <1>4 DEF ChainInv, Dispatching
<1>11. active' # NoName => members'[active'] # {} /\ members'[active'] \subseteq HeldKeys(active)'
  BY <1>4, <1>8 DEF HeldKeys
<1>12. QED
  BY <1>6, <1>9, <1>10, <1>11 DEF ChainInv

\* A refused dispatch leaves the set object and the mapping as if it had not
\* been, but for a key it shared with another.
LEMMA RefusalKeeps ==
    ASSUME ChainInv, BreakerTypeOK', NEW c \in Calls, NEW k \in Keys, DispatchRefused(c, k)
    PROVE  ChainInv'
<1>1. /\ active \in Calls \cup {NoName} /\ members \in [Calls -> SUBSET Keys]
      /\ holds \in [Calls -> Calls \cup {NoName}] /\ key \in [Calls -> Keys \cup {NoName}]
      /\ detector \in [tool : Harnessed \cup {NoName}, count : 0..Window] /\ twins \in BOOLEAN
      /\ at \in [Calls -> {"idle", "running", "probe", "refused"}]
  BY DEF ChainInv, ChainTypeOK, BreakerTypeOK
<1>2. /\ Dispatching' = Dispatching
      /\ UNCHANGED <<holds, key>>
  BY <1>1 DEF DispatchRefused, Refuse, Move, Dispatching, Running
<1>3. ASSUME NEW b \in Calls PROVE HeldKeys(b)' = HeldKeys(b)
  BY <1>2 DEF HeldKeys
<1>4. detector' \in [tool : Harnessed \cup {NoName}, count : 0..Window] /\ twins' \in BOOLEAN
  BY <1>1, CountedInWindow DEF DispatchRefused, Admit, Harnessed
<1>5. CASE active = NoName
  <2>1. active' = NoName /\ members' = members
    BY <1>5 DEF DispatchRefused, Forget, Dropped, Noted
  <2>2. QED
    BY <1>1, <1>2, <1>3, <1>4, <2>1 DEF ChainInv, ChainTypeOK
<1>6. CASE active # NoName
  <2>1. /\ members' = [members EXCEPT ![active] = members[active] \ {k}]
        /\ active' = IF members[active] \ {k} = {} THEN NoName ELSE active
    BY <1>6 DEF DispatchRefused, Forget, Dropped, Noted
  <2>2. /\ members' \in [Calls -> SUBSET Keys] /\ active' \in Calls \cup {NoName}
        /\ \A b \in Calls : members'[b] \subseteq members[b]
        /\ active' # NoName => active' = active /\ members'[active] # {}
    BY <1>1, <1>6, <2>1
  <2>3. ChainTypeOK'
    BY <1>1, <1>2, <1>4, <2>2 DEF ChainTypeOK
  <2>4. \A b \in Calls : HeldKeys(b)' # {} => members'[b] \subseteq HeldKeys(b)'
    BY <1>3, <2>2 DEF ChainInv
  <2>5. active' # NoName => members'[active'] # {} /\ members'[active'] \subseteq HeldKeys(active)'
    <3> SUFFICES ASSUME active' # NoName
                 PROVE  members'[active'] # {} /\ members'[active'] \subseteq HeldKeys(active)'
      OBVIOUS
    <3>1. active' = active /\ active \in Calls
      BY <1>1, <1>6, <2>2
    <3>2. HeldKeys(active)' = HeldKeys(active)
      BY <1>2, <3>1 DEF HeldKeys
    <3>3. QED
      BY <1>6, <2>2, <3>1, <3>2 DEF ChainInv
  <2>6. QED
    BY <1>2, <2>3, <2>4, <2>5 DEF ChainInv
<1>7. QED
  BY <1>5, <1>6

\* A dispatch that ends takes its key along.
LEMMA LeaveKeeps ==
    ASSUME ChainInv, BreakerTypeOK', NEW c \in Calls, Leave(c)
    PROVE  ChainInv'
<1>1. /\ active \in Calls \cup {NoName} /\ members \in [Calls -> SUBSET Keys]
      /\ holds \in [Calls -> Calls \cup {NoName}] /\ key \in [Calls -> Keys \cup {NoName}]
      /\ detector \in [tool : Harnessed \cup {NoName}, count : 0..Window] /\ twins \in BOOLEAN
      /\ at \in [Calls -> {"idle", "running", "probe", "refused"}]
  BY DEF ChainInv, ChainTypeOK, BreakerTypeOK
<1>2. /\ c \in Dispatching /\ Dispatching' = Dispatching \ {c}
      /\ UNCHANGED <<detector, twins>>
  BY <1>1 DEF Leave, Finish, Succeed, Fail, Vanish, Move, Dispatching, Running
<1> PICK bag \in Calls : bag = holds[c]
  BY <1>2 DEF ChainInv
<1> DEFINE rest == members[bag] \ {key[c]}
<1>3. /\ members' = [members EXCEPT ![bag] = rest]
      /\ active' = IF rest = {} THEN NoName ELSE active
      /\ holds' = [holds EXCEPT ![c] = NoName]
      /\ key' = [key EXCEPT ![c] = NoName]
  BY DEF Leave, Dropped
<1>4. /\ \A b \in Calls : b # bag => HeldKeys(b)' = HeldKeys(b)
      /\ HeldKeys(bag) \ {key[c]} \subseteq HeldKeys(bag)'
      /\ HeldKeys(bag) # {}
  BY <1>1, <1>2, <1>3 DEF HeldKeys
<1>5. members'[bag] = rest /\ rest \subseteq HeldKeys(bag)'
  BY <1>1, <1>3, <1>4 DEF ChainInv
<1>6. ChainTypeOK'
  BY <1>1, <1>2, <1>3 DEF ChainTypeOK
<1>7. \A b \in Calls : HeldKeys(b)' # {} => members'[b] \subseteq HeldKeys(b)'
  BY <1>1, <1>3, <1>4, <1>5 DEF ChainInv
<1>8. \A d \in Dispatching' : holds'[d] \in Calls /\ key'[d] \in Keys
  BY <1>1, <1>2, <1>3 DEF ChainInv, Dispatching
<1>9. active' # NoName => members'[active'] # {} /\ members'[active'] \subseteq HeldKeys(active)'
  <2> SUFFICES ASSUME active' # NoName
               PROVE  members'[active'] # {} /\ members'[active'] \subseteq HeldKeys(active)'
    OBVIOUS
  <2> PICK a \in Calls : a = active
    BY <1>1, <1>3
  <2>1. active' = a /\ rest # {}
    BY <1>3
  <2>2. members'[a] # {} /\ members'[a] \subseteq HeldKeys(a)'
    BY <1>1, <1>3, <1>4, <1>5, <2>1, ChainAssumption DEF ChainInv
  <2>3. QED
    BY <2>1, <2>2 DEF HeldKeys
<1>10. QED
  BY <1>6, <1>7, <1>8, <1>9 DEF ChainInv

LEMMA ChainStep == ChainInv /\ BreakerTypeOK' /\ [ChainNext]_chainVars => ChainInv'
<1> SUFFICES ASSUME ChainInv, BreakerTypeOK', [ChainNext]_chainVars
             PROVE  ChainInv'
  OBVIOUS
<1>1. ASSUME /\ UNCHANGED <<active, members, holds, key>>
             /\ Dispatching' = Dispatching
             /\ detector' \in [tool : Harnessed \cup {NoName}, count : 0..Window]
             /\ twins' \in BOOLEAN
      PROVE  ChainInv'
  BY <1>1 DEF ChainInv, ChainTypeOK, HeldKeys
<1>2. /\ detector \in [tool : Harnessed \cup {NoName}, count : 0..Window] /\ twins \in BOOLEAN
      /\ at \in [Calls -> {"idle", "running", "probe", "refused"}]
  BY DEF ChainInv, ChainTypeOK, BreakerTypeOK
<1>3. ASSUME NEW c \in Calls, GoOn(c) PROVE ChainInv'
  BY <1>1, <1>2, <1>3 DEF GoOn, harnessVars, Return, Move, Dispatching, Running
<1>4. CASE Remember
  BY <1>1, <1>2, <1>4, CountedInWindow
     DEF Remember, breakerVars, Dispatching, Running, Harnessed
<1>5. CASE EndTurn
  BY <1>1, <1>2, <1>5, ChainAssumption
     DEF EndTurn, NoLoop, breakerVars, Dispatching, Running
<1>6. CASE Pass
  BY <1>1, <1>2, <1>6 DEF Pass, Tick, harnessVars, Dispatching, Running
<1>7. CASE UNCHANGED chainVars
  BY <1>1, <1>2, <1>7 DEF chainVars, harnessVars, breakerVars, Dispatching, Running
<1>8. QED
  BY <1>3, <1>4, <1>5, <1>6, <1>7, DispatchKeeps, RefusalKeeps, LeaveKeeps DEF ChainNext

\* The inductive invariant of the harness's entries.
THEOREM ChainInvariant == ChainSpec => []ChainInv
<1>1. BreakerInv => BreakerTypeOK
  BY DEF BreakerInv
<1>2. ChainSpec => []BreakerInv
  BY ChainUsesBreaker, BreakerInvariant
<1>3. QED
  BY <1>1, <1>2, ChainInitInv, ChainStep, PTL DEF ChainSpec

\* Whatever dispatches ran at once, and however they ended, the mapping has no
\* entry for the session when none is left (on_tool_call()'s finally).
THEOREM NoEntryLeaks == ChainSpec => []NothingLeftBehind
<1>1. ChainInv => NothingLeftBehind
  BY DEF ChainInv, NothingLeftBehind, HeldKeys
<1>2. QED
  BY <1>1, ChainInvariant, PTL

----------------------------------------------------------------------------
(* Fan-outs and the loop detector. *)

LEMMA DispatchKeepsFan ==
    ASSUME ChainInv, FanInv, NEW c \in Calls, NEW k \in Keys, Dispatch(c, k)
    PROVE  FanInv'
<1> SUFFICES ASSUME ~twins' PROVE FanInv'
  BY DEF FanInv
<1>1. /\ active \in Calls \cup {NoName} /\ members \in [Calls -> SUBSET Keys]
      /\ holds \in [Calls -> Calls \cup {NoName}] /\ key \in [Calls -> Keys \cup {NoName}]
      /\ at \in [Calls -> {"idle", "running", "probe", "refused"}]
  BY DEF ChainInv, ChainTypeOK, BreakerTypeOK
<1>2. c \notin Dispatching /\ Dispatching' = Dispatching \cup {c}
  BY <1>1 DEF Dispatch, Ask, Move, Dispatching, Running
<1>3. /\ active' = Bag
      /\ members' = [members EXCEPT ![Bag] = Noted \cup {k}]
      /\ holds' = [holds EXCEPT ![c] = Bag]
      /\ key' = [key EXCEPT ![c] = k]
      /\ \A d \in Dispatching : key[d] # k
      /\ Dispatching # {} => ~twins
  BY DEF Dispatch, Admit
<1>4. Bag \in Calls
  <2>1. CASE active # NoName
    BY <1>1, <2>1 DEF Bag
  <2>2. CASE active = NoName
    BY <1>2, <2>2, SomeBagIsFree DEF ChainInv, Bag
  <2>3. QED
    BY <2>1, <2>2
<1>5. active' # NoName
  BY <1>3, <1>4, ChainAssumption
<1>6. CASE Dispatching = {}
  BY <1>1, <1>2, <1>3, <1>4, <1>5, <1>6 DEF FanInv
<1>7. CASE Dispatching # {}
  <2>1. Bag = active /\ Noted = members[active]
    BY <1>3, <1>7 DEF FanInv, Bag, Noted
  <2>2. \A d \in Dispatching' : holds'[d] = active' /\ key'[d] \in members'[active']
    BY <1>1, <1>2, <1>3, <1>4, <1>7, <2>1 DEF FanInv, Dispatching
  <2>3. \A d, e \in Dispatching' : key'[d] = key'[e] => d = e
    BY <1>1, <1>2, <1>3, <1>7 DEF FanInv, Dispatching
  <2>4. QED
    BY <1>5, <2>2, <2>3 DEF FanInv
<1>8. QED
  BY <1>6, <1>7

LEMMA RefusalKeepsFan ==
    ASSUME ChainInv, FanInv, NEW c \in Calls, NEW k \in Keys, DispatchRefused(c, k)
    PROVE  FanInv'
<1> SUFFICES ASSUME Dispatching' # {}, ~twins' PROVE FanInv'
  BY DEF FanInv
<1>1. /\ active \in Calls \cup {NoName} /\ members \in [Calls -> SUBSET Keys]
      /\ at \in [Calls -> {"idle", "running", "probe", "refused"}]
  BY DEF ChainInv, ChainTypeOK, BreakerTypeOK
<1>2. Dispatching' = Dispatching /\ UNCHANGED <<holds, key>>
  BY <1>1 DEF DispatchRefused, Refuse, Move, Dispatching, Running
<1>3. ~twins /\ \A d \in Dispatching : key[d] # k
  BY <1>2 DEF DispatchRefused, Admit
<1>4. active # NoName
  BY <1>2, <1>3 DEF FanInv
<1>5. /\ members' = [members EXCEPT ![active] = members[active] \ {k}]
      /\ active' = IF members[active] \ {k} = {} THEN NoName ELSE active
  BY <1>4 DEF DispatchRefused, Forget, Dropped, Noted
<1>6. \A d \in Dispatching : key[d] \in members[active] \ {k}
  BY <1>2, <1>3 DEF FanInv
<1>7. active' = active /\ members'[active] = members[active] \ {k}
  BY <1>1, <1>2, <1>4, <1>5, <1>6
<1>8. QED
  BY <1>2, <1>3, <1>4, <1>6, <1>7 DEF FanInv

LEMMA LeaveKeepsFan ==
    ASSUME ChainInv, FanInv, NEW c \in Calls, Leave(c)
    PROVE  FanInv'
<1> SUFFICES ASSUME Dispatching' # {}, ~twins' PROVE FanInv'
  BY DEF FanInv
<1>1. /\ active \in Calls \cup {NoName} /\ members \in [Calls -> SUBSET Keys]
      /\ holds \in [Calls -> Calls \cup {NoName}] /\ key \in [Calls -> Keys \cup {NoName}]
      /\ at \in [Calls -> {"idle", "running", "probe", "refused"}]
  BY DEF ChainInv, ChainTypeOK, BreakerTypeOK
<1>2. /\ c \in Dispatching /\ Dispatching' = Dispatching \ {c}
      /\ twins' = twins
  BY <1>1 DEF Leave, Finish, Succeed, Fail, Vanish, Move, Dispatching, Running
<1>3. /\ active # NoName
      /\ \A d \in Dispatching : holds[d] = active /\ key[d] \in members[active]
      /\ \A d, e \in Dispatching : key[d] = key[e] => d = e
  BY <1>2 DEF FanInv
<1> DEFINE rest == members[active] \ {key[c]}
<1>4. /\ members' = [members EXCEPT ![active] = rest]
      /\ active' = IF rest = {} THEN NoName ELSE active
      /\ holds' = [holds EXCEPT ![c] = NoName]
      /\ key' = [key EXCEPT ![c] = NoName]
  BY <1>2, <1>3 DEF Leave, Dropped
<1>5. \A d \in Dispatching' : key[d] \in rest /\ holds'[d] = holds[d] /\ key'[d] = key[d]
  BY <1>1, <1>2, <1>3, <1>4 DEF Dispatching
<1>6. active' = active /\ members'[active] = rest
  BY <1>1, <1>3, <1>4, <1>5
<1>7. QED
  BY <1>2, <1>3, <1>5, <1>6 DEF FanInv

LEMMA FanStep == ChainInv /\ FanInv /\ [ChainNext]_chainVars => FanInv'
<1> SUFFICES ASSUME ChainInv, FanInv, [ChainNext]_chainVars
             PROVE  FanInv'
  OBVIOUS
<1>1. ASSUME UNCHANGED <<active, members, holds, key, twins>>, Dispatching' = Dispatching
      PROVE  FanInv'
  BY <1>1 DEF FanInv
<1>2. at \in [Calls -> {"idle", "running", "probe", "refused"}]
  BY DEF ChainInv, ChainTypeOK, BreakerTypeOK
<1>3. ASSUME NEW c \in Calls, GoOn(c) PROVE FanInv'
  BY <1>1, <1>2, <1>3 DEF GoOn, harnessVars, Return, Move, Dispatching, Running
<1>4. CASE Remember
  BY <1>1, <1>4 DEF Remember, breakerVars, Dispatching, Running
<1>5. CASE EndTurn
  BY <1>1, <1>5 DEF EndTurn, breakerVars, Dispatching, Running
<1>6. CASE Pass
  BY <1>1, <1>6 DEF Pass, Tick, harnessVars, Dispatching, Running
<1>7. CASE UNCHANGED chainVars
  BY <1>1, <1>7 DEF chainVars, harnessVars, breakerVars, Dispatching, Running
<1>8. QED
  BY <1>3, <1>4, <1>5, <1>6, <1>7, DispatchKeepsFan, RefusalKeepsFan, LeaveKeepsFan
     DEF ChainNext

\* Only a dispatch that is let through gives a call a key.
LEMMA FanIsNotALoop ==
    ASSUME ChainInv, FanInv, [ChainNext]_chainVars, NEW c \in Calls,
           key'[c] # NoName, key[c] = NoName, Dispatching # {}, ~twins'
    PROVE  detector' = detector
<1>1. key \in [Calls -> Keys \cup {NoName}]
  BY DEF ChainInv, ChainTypeOK
<1>2. PICK d \in Calls, k \in Keys : Dispatch(d, k)
  <2>1. ASSUME NEW d \in Calls, NEW k \in Keys, DispatchRefused(d, k) PROVE FALSE
    BY <2>1 DEF DispatchRefused
  <2>2. ASSUME NEW d \in Calls, GoOn(d) \/ Leave(d) PROVE FALSE
    BY <1>1, <2>2 DEF GoOn, harnessVars, Leave
  <2>3. ASSUME Remember \/ EndTurn \/ Pass \/ UNCHANGED chainVars PROVE FALSE
    BY <2>3 DEF Remember, EndTurn, Pass, chainVars, harnessVars
  <2>4. QED
    BY <2>1, <2>2, <2>3 DEF ChainNext
<1>3. ~twins /\ \A d1 \in Dispatching : key[d1] # k
  BY <1>2 DEF Dispatch, Admit
<1>4. /\ active # NoName /\ members[active] # {}
      /\ members[active] \subseteq HeldKeys(active)
  BY <1>3 DEF FanInv, ChainInv
<1>5. DistinctParallel(k)
  BY <1>3, <1>4 DEF DistinctParallel, Noted, HeldKeys
<1>6. QED
  BY <1>2, <1>5 DEF Dispatch, Admit

\* Whatever a session dispatches and however its dispatches end, a dispatch for
\* a platform that no running one is for is not counted by the loop detector
\* (the distinct_parallel of on_tool_call()).
THEOREM FanOutsAreFree == ChainSpec => FanOutNotCounted
<1>1. ChainInit => FanInv
  BY DEF ChainInit, BreakerInit, FanInv, Dispatching, Running
<1>2. ChainInv /\ FanInv /\ [ChainNext]_chainVars =>
        [\A c \in Calls :
           (key'[c] # NoName /\ key[c] = NoName /\ Dispatching # {} /\ ~twins') => detector' = detector]_chainVars
  BY FanIsNotALoop
<1>3. QED
  BY <1>1, <1>2, FanStep, ChainInvariant, PTL DEF ChainSpec, FanOutNotCounted

----------------------------------------------------------------------------
(* The outputs of the tools. *)

\* A call's temporary file is named by its process and its output.
LEMMA TempNamed ==
    ASSUME NEW c \in ToolCalls
    PROVE  /\ ServedBy[c] \in Serving /\ OutputOf[c] \in Outputs
           /\ Temp(c) = <<ServedBy[c], OutputOf[c]>> /\ Temp(c) \in TempNames
<1>1. ServedBy[c] \in Serving /\ OutputOf[c] \in Outputs
  BY OutputAssumption
<1>2. QED
  BY <1>1 DEF Temp, TempOf, TempNames

\* The view of an output is a view.
LEMMA FormattedIsView ==
    ASSUME NEW o \in Outputs
    PROVE  /\ Formatted(o) \in Views
           /\ o.loses \/ o.long => Formatted(o).ref = o
  BY OutputAssumption DEF Formatted, Form, Views

LEMMA LookKeeps ==
    ASSUME OutputInv, NEW c \in ToolCalls, Look(c)
    PROVE  OutputInv'
<1>1. /\ step[c] = "idle" /\ Alone(c)
      /\ UNCHANGED <<blob, temp, disk, held, deaths>>
  BY DEF Look
<1>2. CASE blob[OutputOf[c]] # Gone
  <2>1. /\ step' = [step EXCEPT ![c] = "done"]
        /\ view' = [view EXCEPT ![c] = Formatted(OutputOf[c])]
    BY <1>2 DEF Look
  <2>2. Formatted(OutputOf[c]) \in Views
    BY TempNamed, FormattedIsView
  <2>3. QED
    BY <1>1, <1>2, <2>1, <2>2, TempNamed DEF OutputInv, OutputTypeOK, Persisting, Steps, Temp
<1>3. CASE blob[OutputOf[c]] = Gone
  <2>1. step' = [step EXCEPT ![c] = "missing"] /\ view' = view
    BY <1>3 DEF Look
  <2>2. \A d \in ToolCalls \ {c} : ServedBy[d] = ServedBy[c] => ~Persisting(d)
    BY <1>1 DEF Alone, Persisting
  <2>3. QED
    BY <1>1, <2>1, <2>2 DEF OutputInv, OutputTypeOK, Persisting, Steps, Temp
<1>4. QED
  BY <1>2, <1>3

LEMMA OpenTempKeeps ==
    ASSUME OutputInv, NEW c \in ToolCalls, OpenTemp(c)
    PROVE  OutputInv'
<1> DEFINE file == IF temp[Temp(c)] = Gone THEN c ELSE temp[Temp(c)]
<1>1. /\ step[c] = "missing"
      /\ step' = [step EXCEPT ![c] = "opened"]
      /\ temp' = [temp EXCEPT ![Temp(c)] = file]
      /\ held' = [held EXCEPT ![c] = file]
      /\ disk' = [disk EXCEPT ![file] = Partial]
      /\ UNCHANGED <<blob, view, deaths>>
  BY DEF OpenTemp
<1>2. Temp(c) \in TempNames
  BY TempNamed
<1>3. /\ blob \in [Outputs -> ToolCalls \cup {Gone}]
      /\ temp \in [TempNames -> ToolCalls \cup {Gone}]
      /\ disk \in [ToolCalls -> Outputs \cup {Partial}]
      /\ step \in [ToolCalls -> Steps]
      /\ held \in [ToolCalls -> ToolCalls \cup {Gone}]
  BY DEF OutputInv, OutputTypeOK
<1>4. file \in ToolCalls /\ file # Gone
  BY <1>2, <1>3, OutputAssumption
<1>5. /\ \A n \in TempNames : n # Temp(c) => temp[n] # file
      /\ \A o \in Outputs : blob[o] # file
  BY <1>1, <1>2, <1>4 DEF OutputInv
<1>6. ASSUME NEW d \in ToolCalls, d # c, step[d] \in {"opened", "written"}
      PROVE  Temp(d) # Temp(c) /\ held[d] # file
  <2>1. ServedBy[d] # ServedBy[c]
    BY <1>1, <1>6 DEF OutputInv, Persisting
  <2>2. Temp(d) # Temp(c) /\ Temp(d) \in TempNames
    BY <2>1, TempNamed
  <2>3. QED
    BY <1>5, <1>6, <2>2 DEF OutputInv
<1> HIDE DEF file
<1>7. OutputTypeOK'
  BY <1>1, <1>2, <1>3, <1>4 DEF OutputInv, OutputTypeOK, Steps
<1>8. \A a, d \in ToolCalls :
         ServedBy[a] = ServedBy[d] /\ Persisting(a)' /\ Persisting(d)' => a = d
  BY <1>1, <1>3 DEF OutputInv, Persisting
<1>9. \A d \in ToolCalls : step'[d] \in {"opened", "written"} =>
         temp'[Temp(d)] = held'[d] /\ held'[d] # Gone
  BY <1>1, <1>2, <1>3, <1>4, <1>6, TempNamed DEF OutputInv
<1>10. \A d \in ToolCalls : step'[d] = "written" => disk'[held'[d]] = OutputOf[d]
  <2>1. SUFFICES ASSUME NEW d \in ToolCalls, step'[d] = "written"
                 PROVE  disk'[held'[d]] = OutputOf[d]
    OBVIOUS
  <2>2. d # c /\ step[d] = "written"
    BY <1>1, <1>3, <2>1
  <2>3. held'[d] = held[d] /\ held[d] # file /\ disk[held[d]] = OutputOf[d]
    BY <1>1, <1>3, <1>6, <2>2 DEF OutputInv
  <2>4. held[d] \in ToolCalls
    BY <1>3, <2>2 DEF OutputInv
  <2>5. QED
    BY <1>1, <1>3, <2>3, <2>4
<1>11. \A n, m \in TempNames : temp'[n] = temp'[m] /\ temp'[n] # Gone => n = m
  BY <1>1, <1>2, <1>3, <1>5 DEF OutputInv
<1>12. \A o \in Outputs : blob'[o] # Gone =>
          disk'[blob'[o]] = o /\ \A n \in TempNames : temp'[n] # blob'[o]
  BY <1>1, <1>2, <1>3, <1>4, <1>5 DEF OutputInv
<1>13. \A d \in ToolCalls : step'[d] \in {"idle", "missing"} =>
          /\ \A n \in TempNames : temp'[n] # d
          /\ \A o \in Outputs : blob'[o] # d
  <2>1. SUFFICES ASSUME NEW d \in ToolCalls, step'[d] \in {"idle", "missing"}
                 PROVE  /\ \A n \in TempNames : temp'[n] # d
                        /\ \A o \in Outputs : blob'[o] # d
    OBVIOUS
  <2>2. d # c /\ step[d] \in {"idle", "missing"}
    BY <1>1, <1>3, <2>1
  <2>3. file # d
    BY <1>2, <2>2 DEF OutputInv, file
  <2>4. QED
    BY <1>1, <1>2, <1>3, <2>2, <2>3 DEF OutputInv
<1>14. \A d \in ToolCalls :
          /\ step'[d] # "failed"
          /\ view'[d] # Gone => blob'[OutputOf[d]] # Gone /\ view'[d] = Formatted(OutputOf[d])
  BY <1>1, <1>3 DEF OutputInv
<1>15. QED
  BY <1>7, <1>8, <1>9, <1>10, <1>11, <1>12, <1>13, <1>14 DEF OutputInv, Temp

LEMMA WriteTempKeeps ==
    ASSUME OutputInv, NEW c \in ToolCalls, WriteTemp(c)
    PROVE  OutputInv'
<1>1. /\ step[c] = "opened"
      /\ step' = [step EXCEPT ![c] = "written"]
      /\ disk' = [disk EXCEPT ![held[c]] = OutputOf[c]]
      /\ UNCHANGED <<blob, temp, held, view, deaths>>
  BY DEF WriteTemp
<1>2. /\ blob \in [Outputs -> ToolCalls \cup {Gone}]
      /\ disk \in [ToolCalls -> Outputs \cup {Partial}]
      /\ step \in [ToolCalls -> Steps]
      /\ held \in [ToolCalls -> ToolCalls \cup {Gone}]
  BY DEF OutputInv, OutputTypeOK
<1>3. /\ held[c] \in ToolCalls /\ held[c] # Gone /\ temp[Temp(c)] = held[c]
      /\ Temp(c) \in TempNames
  BY <1>1, <1>2, TempNamed DEF OutputInv
<1>4. ASSUME NEW d \in ToolCalls, d # c, step[d] \in {"opened", "written"}
      PROVE  held[d] # held[c]
  <2>1. ServedBy[d] # ServedBy[c]
    BY <1>1, <1>4 DEF OutputInv, Persisting
  <2>2. Temp(d) # Temp(c) /\ Temp(d) \in TempNames
    BY <2>1, TempNamed
  <2>3. QED
    BY <1>3, <1>4, <2>2 DEF OutputInv
<1>5. \A o \in Outputs : blob[o] # held[c]
  BY <1>3 DEF OutputInv
<1>6. OutputTypeOK'
  BY <1>1, <1>2, <1>3, TempNamed DEF OutputInv, OutputTypeOK, Steps
<1>7. \A d \in ToolCalls : step'[d] = "written" => disk'[held[d]] = OutputOf[d]
  BY <1>1, <1>2, <1>3, <1>4 DEF OutputInv
<1>8. \A o \in Outputs : blob[o] # Gone => disk'[blob[o]] = o
  BY <1>1, <1>2, <1>5 DEF OutputInv
<1>9. \A d \in ToolCalls : /\ step'[d] \in {"opened", "written"} => step[d] \in {"opened", "written"}
                           /\ step'[d] \in {"idle", "missing"} => step[d] \in {"idle", "missing"}
                           /\ Persisting(d)' => Persisting(d)
                           /\ step'[d] = "failed" => step[d] = "failed"
  BY <1>1, <1>2 DEF Persisting
<1>10. QED
  BY <1>1, <1>6, <1>7, <1>8, <1>9 DEF OutputInv, Temp

LEMMA ReplaceKeeps ==
    ASSUME OutputInv, NEW c \in ToolCalls, Replace(c)
    PROVE  OutputInv'
<1>1. /\ blob \in [Outputs -> ToolCalls \cup {Gone}]
      /\ temp \in [TempNames -> ToolCalls \cup {Gone}]
      /\ step \in [ToolCalls -> Steps]
      /\ view \in [ToolCalls -> Views \cup {Gone}]
  BY DEF OutputInv, OutputTypeOK
<1>2. /\ step[c] = "written" /\ Temp(c) \in TempNames /\ OutputOf[c] \in Outputs
      /\ temp[Temp(c)] = held[c] /\ held[c] # Gone /\ disk[held[c]] = OutputOf[c]
  BY TempNamed DEF Replace, OutputInv
<1>3. /\ step' = [step EXCEPT ![c] = "done"]
      /\ blob' = [blob EXCEPT ![OutputOf[c]] = held[c]]
      /\ temp' = [temp EXCEPT ![Temp(c)] = Gone]
      /\ view' = [view EXCEPT ![c] = Formatted(OutputOf[c])]
      /\ UNCHANGED <<disk, held, deaths>>
  BY <1>2 DEF Replace
<1>4. OutputTypeOK'
  <2>1. held[c] \in ToolCalls
    BY <1>2 DEF OutputInv, OutputTypeOK
  <2>2. Formatted(OutputOf[c]) \in Views
    BY <1>2, FormattedIsView
  <2>3. QED
    BY <1>1, <1>2, <1>3, <2>1, <2>2 DEF OutputInv, OutputTypeOK, Steps
<1>5. ASSUME NEW d \in ToolCalls, step'[d] \in {"opened", "written"}
      PROVE  temp'[Temp(d)] = temp[Temp(d)] /\ step[d] = step'[d] /\ d # c
  <2>1. d # c /\ step[d] = step'[d]
    BY <1>1, <1>3, <1>5
  <2>2. ServedBy[d] # ServedBy[c]
    BY <1>2, <1>5, <2>1 DEF OutputInv, Persisting
  <2>3. Temp(d) # Temp(c) /\ Temp(d) \in TempNames
    BY <2>2, TempNamed
  <2>4. QED
    BY <1>1, <1>3, <2>1, <2>3
<1>6. \A d \in ToolCalls : step'[d] \in {"opened", "written"} =>
         temp'[Temp(d)] = held'[d] /\ held'[d] # Gone
  BY <1>3, <1>5 DEF OutputInv
<1>7. \A d \in ToolCalls : step'[d] = "written" => disk'[held'[d]] = OutputOf[d]
  BY <1>3, <1>5 DEF OutputInv
<1>8. \A n \in TempNames : temp'[n] = IF n = Temp(c) THEN Gone ELSE temp[n]
  BY <1>1, <1>3
<1>9. \A o \in Outputs : blob'[o] = IF o = OutputOf[c] THEN held[c] ELSE blob[o]
  BY <1>1, <1>3
<1>10. \A n, m \in TempNames : temp'[n] = temp'[m] /\ temp'[n] # Gone => n = m
  BY <1>8 DEF OutputInv
<1>11. \A o \in Outputs : blob'[o] # Gone =>
          disk'[blob'[o]] = o /\ \A n \in TempNames : temp'[n] # blob'[o]
  <2>1. \A n \in TempNames : temp'[n] # held[c]
    BY <1>2, <1>8 DEF OutputInv
  <2>2. QED
    BY <1>2, <1>3, <1>8, <1>9, <2>1 DEF OutputInv
<1>12. \A d \in ToolCalls : step'[d] \in {"idle", "missing"} =>
          /\ \A n \in TempNames : temp'[n] # d
          /\ \A o \in Outputs : blob'[o] # d
  <2>1. SUFFICES ASSUME NEW d \in ToolCalls, step'[d] \in {"idle", "missing"}
                 PROVE  /\ \A n \in TempNames : temp'[n] # d
                        /\ \A o \in Outputs : blob'[o] # d
    OBVIOUS
  <2>2. step[d] \in {"idle", "missing"}
    BY <1>1, <1>3, <2>1
  <2>3. held[c] # d /\ d # Gone
    BY <1>2, <2>2, OutputAssumption DEF OutputInv
  <2>4. QED
    BY <1>8, <1>9, <2>2, <2>3 DEF OutputInv
<1>13. \A d \in ToolCalls :
          /\ step'[d] # "failed"
          /\ view'[d] # Gone => blob'[OutputOf[d]] # Gone /\ view'[d] = Formatted(OutputOf[d])
  BY <1>1, <1>2, <1>3, <1>9, TempNamed DEF OutputInv
<1>14. \A a, d \in ToolCalls :
          ServedBy[a] = ServedBy[d] /\ Persisting(a)' /\ Persisting(d)' => a = d
  BY <1>1, <1>3 DEF OutputInv, Persisting
<1>15. QED
  BY <1>4, <1>6, <1>7, <1>10, <1>11, <1>12, <1>13, <1>14 DEF OutputInv, Temp

LEMMA DieKeeps ==
    ASSUME OutputInv, NEW p \in Serving, Die(p)
    PROVE  OutputInv'
<1>1. /\ \A c \in ToolCalls :
            step'[c] = step[c] \/ (step'[c] = "lost" /\ Persisting(c))
      /\ step' \in [ToolCalls -> Steps]
      /\ UNCHANGED <<blob, temp, disk, held, view>>
  BY DEF Die, OutputInv, OutputTypeOK, Persisting, Steps
<1>2. deaths' \in 0..MaxDeaths
  BY OutputAssumption DEF Die, OutputInv, OutputTypeOK
<1>3. OutputTypeOK'
  BY <1>1, <1>2 DEF OutputInv, OutputTypeOK
<1>4. QED
  BY <1>1, <1>3 DEF OutputInv, Persisting, Temp

\* The inductive invariant of the directory of outputs.
THEOREM OutputInvariant == OutputSpec => []OutputInv
<1>1. OutputInit => OutputInv
  BY OutputAssumption DEF OutputInit, OutputInv, OutputTypeOK, Steps, Persisting
<1>2. OutputInv /\ [OutputNext]_outputVars => OutputInv'
  <2> SUFFICES ASSUME OutputInv, [OutputNext]_outputVars PROVE OutputInv'
    OBVIOUS
  <2>1. CASE UNCHANGED outputVars
    BY <2>1 DEF outputVars, OutputInv, OutputTypeOK, Persisting, Temp
  <2>2. QED
    BY <2>1, LookKeeps, OpenTempKeeps, WriteTempKeeps, ReplaceKeeps, DieKeeps DEF OutputNext
<1>3. QED
  BY <1>1, <1>2, PTL DEF OutputSpec

\* For any number of processes, calls and deaths: what put() left out of a
\* model's copy is read back exactly, and no put() fails for another's sake.
THEOREM OutputsReadBack == OutputSpec => []LeftOutReadsBack
<1>1. OutputInv => LeftOutReadsBack
  BY TempNamed, FormattedIsView DEF OutputInv, LeftOutReadsBack, ReadBack
<1>2. QED
  BY <1>1, OutputInvariant, PTL

=============================================================================
