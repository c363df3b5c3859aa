------------------------- MODULE SessionTurnsProofs -------------------------
(***************************************************************************)
(* However many turns of however many buyers race for a session, in        *)
(* however many processes, no agent and no snapshot mixes the questions of *)
(* two buyers.  The inductive invariant says whose questions a state may   *)
(* hold: those of the owner noted in it, wherever the state is, in an      *)
(* agent, in the database or on the way between them.                      *)
(*                                                                         *)
(* Turns that come one after the other leave no question open; in one      *)
(* process their history is whole, and the session a Conversation.         *)
(***************************************************************************)
EXTENDS SessionTurns, SequenceTheorems, FiniteSetTheorems, TLAPS

\* Every question in the state is one of its owner's.
Owned(s) ==
    \A i \in DOMAIN s.messages :
        s.messages[i].kind = "ask" => AskerOf[s.messages[i].of] = s.owner

Held(s) == s # None => Owned(s)

OwnedInv ==
    /\ \A a \in Turns : Owned(state[a])
    /\ \A t \in Turns : Held(carried[t])
    /\ Held(snapshot)

\* A running turn has a process, and that process an agent for the session
\* once the turn has got one.
AgentInv ==
    \A t \in Turns :
        /\ t \in Live => on[t] \in Servers
        /\ turnAt[t] \in {"fresh", "consulting", "replying", "saving"} => registry[on[t]] \in Turns

TurnsInv == TurnsTypeOK /\ OwnedInv /\ AgentInv

----------------------------------------------------------------------------
(* Facts about single states. *)

\* The type of a state gives the types of its parts.
LEMMA StateParts ==
    ASSUME NEW s \in States
    PROVE  s.messages \in Seq(Messages) /\ s.owner \in Buyers \cup {None}
  BY DEF States

\* Adding a message to a state keeps its type.
LEMMA SaidTyped ==
    ASSUME NEW s \in States, NEW t \in Turns, NEW kind \in Kinds, NEW o \in Buyers \cup {None}
    PROVE  Said(s, t, kind, o) \in States
<1> DEFINE m == [of |-> t, kind |-> kind]
<1>1. m \in Messages
  BY DEF Messages
<1>2. Append(s.messages, m) \in Seq(Messages)
  BY <1>1, StateParts
<1> QED BY <1>2 DEF States, Said

\* What is no question disturbs nobody; a question does not when its buyer
\* is, or becomes, the owner.
LEMMA SaidOwned ==
    ASSUME NEW s \in States, Owned(s), NEW t \in Turns, NEW kind \in Kinds,
           NEW o \in Buyers \cup {None}, s.owner \in {None, o}, kind = "ask" => AskerOf[t] = o
    PROVE  (s.owner = o \/ kind = "ask") => Owned(Said(s, t, kind, o))
<1> DEFINE m == [of |-> t, kind |-> kind]
           n == Append(s.messages, m)
<1>1. s.messages \in Seq(Messages) /\ m \in Messages
  BY StateParts DEF Messages
<1>2. Said(s, t, kind, o).messages = n /\ Said(s, t, kind, o).owner = o
  BY DEF Said
<1>3. \A i \in DOMAIN n : n[i] = m \/ (i \in DOMAIN s.messages /\ n[i] = s.messages[i])
  BY <1>1
<1>4. SUFFICES ASSUME s.owner = o \/ kind = "ask", NEW i \in DOMAIN n, n[i].kind = "ask"
               PROVE  AskerOf[n[i].of] = o
  BY <1>2 DEF Owned
<1>5. CASE n[i] = m
  BY <1>4, <1>5
<1>6. CASE i \in DOMAIN s.messages /\ n[i] = s.messages[i]
  <2>1. s.messages[i] \in Messages
    BY <1>1, <1>6
  <2>2. s.messages[i].of \in Turns
    BY <2>1 DEF Messages
  <2>3. AskerOf[s.messages[i].of] = s.owner
    BY <1>4, <1>6 DEF Owned
  <2> QED BY <1>6, <2>2, <2>3, TurnsAssumption
<1> QED BY <1>3, <1>4, <1>5, <1>6

----------------------------------------------------------------------------
(* The invariant. *)

LEMMA InitInv == TurnsInit => TurnsInv
<1> SUFFICES ASSUME TurnsInit PROVE TurnsInv
  OBVIOUS
<1>1. Fresh \in States /\ Owned(Fresh)
  BY DEF Fresh, States, Owned
<1>2. TurnsTypeOK
  BY <1>1, TurnsAssumption DEF TurnsInit, TurnsTypeOK, Places
<1>3. OwnedInv
  BY <1>1 DEF TurnsInit, OwnedInv, Held
<1>4. AgentInv
  BY DEF TurnsInit, AgentInv, Live
<1> QED BY <1>2, <1>3, <1>4 DEF TurnsInv

\* A turn adds a message to its agent.
LEMMA SaidInv ==
    ASSUME TurnsInv, NEW t \in Turns, NEW kind \in Kinds, NEW o,
           state' = [state EXCEPT ![agent[t]] = Said(@, t, kind, o)],
           agent[t] \in Turns =>
             /\ o \in Buyers \cup {None}
             /\ state[agent[t]].owner = o \/ (kind = "ask" /\ state[agent[t]].owner = None)
             /\ kind = "ask" => AskerOf[t] = o
    PROVE  state' \in [Turns -> States] /\ \A a \in Turns : Owned(state'[a])
<1>1. ASSUME NEW a \in Turns
      PROVE  state[a] \in States /\ Owned(state[a])
  BY <1>1 DEF TurnsInv, TurnsTypeOK, OwnedInv
<1>2. ASSUME NEW a \in Turns
      PROVE  state'[a] = IF a = agent[t] THEN Said(state[a], t, kind, o) ELSE state[a]
  BY <1>2 DEF TurnsInv, TurnsTypeOK
<1>3. ASSUME NEW a \in Turns
      PROVE  state'[a] \in States /\ Owned(state'[a])
  <2>1. CASE a = agent[t]
    BY <1>1, <1>2, <1>3, <2>1, SaidTyped, SaidOwned
  <2>2. CASE a # agent[t]
    BY <1>1, <1>2, <1>3, <2>2
  <2> QED BY <2>1, <2>2
<1>4. state' = [a \in Turns |-> state'[a]]
  BY DEF TurnsInv, TurnsTypeOK
<1> QED BY <1>3, <1>4

\* The same of a message that is no question.
LEMMA SaysInv ==
    ASSUME TurnsInv, NEW t \in Turns, NEW kind \in Kinds \ {"ask"}, Says(t, kind)
    PROVE  state' \in [Turns -> States] /\ \A a \in Turns : Owned(state'[a])
<1> DEFINE o == state[agent[t]].owner
<1>1. state' = [state EXCEPT ![agent[t]] = Said(@, t, kind, o)]
  BY DEF Says
<1>2. agent[t] \in Turns => o \in Buyers \cup {None}
  BY StateParts DEF TurnsInv, TurnsTypeOK
<1>3. kind \in Kinds /\ kind # "ask"
  OBVIOUS
<1>4. state[agent[t]].owner = o
  OBVIOUS
<1> HIDE DEF o
<1> QED BY <1>1, <1>2, <1>3, <1>4, SaidInv

\* A turn moves on in its process, whose agent for the session stays.
LEMMA MoveInv ==
    ASSUME TurnsInv, NEW t \in Turns, NEW from \in SUBSET Places, NEW to \in Places,
           Moves(t, from, to), UNCHANGED <<on, registry>>,
           "idle" \notin from, "over" \notin from, "lost" \notin from,
           to \in {"fresh", "consulting", "replying", "saving"}
             => from \subseteq {"fresh", "consulting", "replying", "saving"}
    PROVE  turnAt' \in [Turns -> Places] /\ AgentInv'
<1>1. turnAt' \in [Turns -> Places]
  BY DEF Moves, TurnsInv, TurnsTypeOK
<1>2. \A u \in Turns : turnAt'[u] = IF u = t THEN to ELSE turnAt[u]
  BY DEF Moves, TurnsInv, TurnsTypeOK
<1>3. turnAt[t] \in from
  BY DEF Moves
<1>4. \A u \in Turns : u \in Live' => u \in Live
  BY <1>2, <1>3 DEF Live
<1>5. \A u \in Turns : turnAt'[u] \in {"fresh", "consulting", "replying", "saving"}
                         => turnAt[u] \in {"fresh", "consulting", "replying", "saving"}
  BY <1>2, <1>3
<1> QED BY <1>1, <1>4, <1>5 DEF TurnsInv, AgentInv

LEMMA BeginInv ==
    ASSUME TurnsInv, UNCHANGED turnByTurn, NEW t \in Turns, NEW p \in Servers, Begin(t, p)
    PROVE  TurnsInv'
<1>1. turnAt[t] = "idle" /\ on' = [on EXCEPT ![t] = p]
  BY DEF Begin, Goes
<1>2. PICK to \in Places :
        /\ turnAt' = [turnAt EXCEPT ![t] = to]
        /\ to \in {"loading", "building"} \/ registry[p] \in Turns
  BY DEF Begin, Goes, Consult, Places, TurnsInv, TurnsTypeOK
<1>3. agent' \in [Turns -> Turns \cup {None}]
  BY DEF Begin, TurnsInv, TurnsTypeOK
<1>4. known' \in [Turns -> Seq(Messages)]
  BY StateParts DEF Begin, Messaged, TurnsInv, TurnsTypeOK
<1>5. UNCHANGED <<snapshot, registry, state, carried, mishaps>>
  BY DEF Begin
<1>6. TurnsTypeOK'
  BY <1>1, <1>2, <1>3, <1>4, <1>5 DEF TurnsInv, TurnsTypeOK
<1>7. OwnedInv'
  BY <1>5 DEF TurnsInv, OwnedInv
<1>8. AgentInv'
  BY <1>1, <1>2, <1>5 DEF TurnsInv, TurnsTypeOK, AgentInv, Live
<1> QED BY <1>6, <1>7, <1>8 DEF TurnsInv

LEMMA LoadInv ==
    ASSUME TurnsInv, UNCHANGED turnByTurn, NEW t \in Turns, Load(t)
    PROVE  TurnsInv'
<1>1. Moves(t, {"loading"}, "building")
  BY DEF Load, Goes, Moves
<1>2. UNCHANGED <<snapshot, registry, state, on, agent, known>>
  BY DEF Load
<1>3. turnAt' \in [Turns -> Places] /\ AgentInv'
  BY <1>1, <1>2, MoveInv DEF Places
<1>4. carried' \in [Turns -> States \cup {None}] /\ \A u \in Turns : Held(carried'[u])
  BY DEF Load, TurnsInv, TurnsTypeOK, OwnedInv
<1>5. mishaps' \in 0..MaxMishaps
  BY TurnsAssumption DEF Load, Mishap, TurnsInv, TurnsTypeOK
<1> QED BY <1>2, <1>3, <1>4, <1>5 DEF TurnsInv, TurnsTypeOK, OwnedInv

LEMMA BuildInv ==
    ASSUME TurnsInv, UNCHANGED turnByTurn, NEW t \in Turns, Build(t)
    PROVE  TurnsInv'
<1>1. /\ turnAt[t] = "building"
      /\ state' = [state EXCEPT ![t] = Restored(t)]
      /\ registry' = [registry EXCEPT ![on[t]] = t]
      /\ agent' = [agent EXCEPT ![t] = t]
      /\ carried' = [carried EXCEPT ![t] = None]
      /\ UNCHANGED <<snapshot, on, known, mishaps>>
  BY DEF Build, Goes
<1>2. PICK to \in {"fresh", "consulting"} : turnAt' = [turnAt EXCEPT ![t] = to]
  BY DEF Build, Goes, Consult
<1>3. Restored(t) \in States /\ Owned(Restored(t))
  <2>1. Fresh \in States /\ Owned(Fresh)
    BY DEF Fresh, States, Owned
  <2> QED BY <2>1 DEF Restored, TurnsInv, TurnsTypeOK, OwnedInv, Held
<1>4. on[t] \in Servers
  BY <1>1 DEF TurnsInv, AgentInv, Live
<1>5. TurnsTypeOK'
  <2>1. state' \in [Turns -> States] /\ carried' \in [Turns -> States \cup {None}]
    BY <1>1, <1>3 DEF TurnsInv, TurnsTypeOK
  <2>2. turnAt' \in [Turns -> Places]
    BY <1>2 DEF TurnsInv, TurnsTypeOK, Places
  <2>3. registry' \in [Servers -> Turns \cup {None}] /\ agent' \in [Turns -> Turns \cup {None}]
    BY <1>1 DEF TurnsInv, TurnsTypeOK
  <2> QED BY <1>1, <2>1, <2>2, <2>3 DEF TurnsInv, TurnsTypeOK
<1>6. OwnedInv'
  BY <1>1, <1>3 DEF TurnsInv, TurnsTypeOK, OwnedInv, Held
<1>7. AgentInv'
  BY <1>1, <1>2, <1>4 DEF TurnsInv, TurnsTypeOK, AgentInv, Live
<1> QED BY <1>5, <1>6, <1>7 DEF TurnsInv

\* A turn that moves on, adding no message.
LEMMA HitInv ==
    ASSUME TurnsInv, UNCHANGED turnByTurn, NEW t \in Turns, Hit(t)
    PROVE  TurnsInv'
<1>1. Moves(t, {"fresh"}, "saving")
  BY DEF Hit, Goes, Moves
<1>2. UNCHANGED <<snapshot, registry, state, on, agent, carried, known, mishaps>>
  BY DEF Hit
<1>3. turnAt' \in [Turns -> Places] /\ AgentInv'
  BY <1>1, <1>2, MoveInv DEF Places
<1> QED BY <1>2, <1>3 DEF TurnsInv, TurnsTypeOK, OwnedInv

\* A turn that moves on, adding a message to its agent.
LEMMA TalkInv ==
    ASSUME TurnsInv, UNCHANGED turnByTurn, turnAt' \in [Turns -> Places], AgentInv',
           state' \in [Turns -> States], \A a \in Turns : Owned(state'[a]),
           UNCHANGED <<snapshot, registry, on, agent, carried, known, mishaps>>
    PROVE  TurnsInv'
  BY DEF TurnsInv, TurnsTypeOK, OwnedInv

LEMMA AskInv ==
    ASSUME TurnsInv, UNCHANGED turnByTurn, NEW t \in Turns, Ask(t)
    PROVE  TurnsInv'
<1> DEFINE o == AskerOf[t]
<1>1. Moves(t, {"fresh", "consulting"}, "replying")
  BY DEF Ask
<1>2. /\ state[agent[t]].owner \in {None, o}
      /\ state' = [state EXCEPT ![agent[t]] = Said(@, t, "ask", o)]
      /\ UNCHANGED <<snapshot, registry, on, agent, carried, known, mishaps>>
  BY DEF Ask
<1>3. turnAt' \in [Turns -> Places] /\ AgentInv'
  BY <1>1, <1>2, MoveInv DEF Places
<1>4. o \in Buyers /\ "ask" \in Kinds
  BY DEF Buyers, Kinds
<1>5. state' \in [Turns -> States] /\ \A a \in Turns : Owned(state'[a])
  BY <1>2, <1>4, SaidInv
<1> QED BY <1>2, <1>3, <1>5, TalkInv

LEMMA AnswerInv ==
    ASSUME TurnsInv, UNCHANGED turnByTurn, NEW t \in Turns, Answer(t)
    PROVE  TurnsInv'
<1>1. PICK kind \in Kinds \ {"ask"} : Says(t, kind)
  BY DEF Answer, Kinds
<1>2. /\ Moves(t, {"replying"}, "saving")
      /\ UNCHANGED <<snapshot, registry, on, agent, carried, known, mishaps>>
  BY DEF Answer, Goes, Moves
<1>3. turnAt' \in [Turns -> Places] /\ AgentInv'
  BY <1>2, MoveInv DEF Places
<1> QED BY <1>1, <1>2, <1>3, SaysInv, TalkInv

LEMMA FailInv ==
    ASSUME TurnsInv, UNCHANGED turnByTurn, NEW t \in Turns, FailTurn(t)
    PROVE  TurnsInv'
<1>1. "error" \in Kinds \ {"ask"} /\ Says(t, "error")
  BY DEF FailTurn, Kinds
<1>2. /\ Moves(t, {"fresh", "consulting", "replying"}, "saving")
      /\ UNCHANGED <<snapshot, registry, on, agent, carried, known, mishaps>>
  BY DEF FailTurn
<1>3. turnAt' \in [Turns -> Places] /\ AgentInv'
  BY <1>2, MoveInv DEF Places
<1> QED BY <1>1, <1>2, <1>3, SaysInv, TalkInv

\* What is rendered, written or dropped is the state of an agent.
LEMMA DumpInv ==
    ASSUME TurnsInv, UNCHANGED turnByTurn, NEW t \in Turns, Dump(t)
    PROVE  TurnsInv'
<1>1. /\ Moves(t, {"saving"}, "looking")
      /\ carried' = [carried EXCEPT ![t] = state[registry[on[t]]]]
      /\ UNCHANGED <<snapshot, registry, state, on, agent, known, mishaps>>
  BY DEF Dump, Goes, Moves
<1>2. registry[on[t]] \in Turns
  BY <1>1 DEF Moves, TurnsInv, AgentInv
<1>3. turnAt' \in [Turns -> Places] /\ AgentInv'
  BY <1>1, MoveInv DEF Places
<1> QED BY <1>1, <1>2, <1>3 DEF TurnsInv, TurnsTypeOK, OwnedInv, Held

LEMMA LookUpInv ==
    ASSUME TurnsInv, UNCHANGED turnByTurn, NEW t \in Turns, LookUpRow(t)
    PROVE  TurnsInv'
<1>1. PICK to \in {"inserting", "updating"} : Moves(t, {"looking"}, to)
  BY DEF LookUpRow, Goes, Moves
<1>2. UNCHANGED <<snapshot, registry, state, on, agent, carried, known, mishaps>>
  BY DEF LookUpRow
<1>3. turnAt' \in [Turns -> Places] /\ AgentInv'
  BY <1>1, <1>2, MoveInv DEF Places
<1> QED BY <1>2, <1>3 DEF TurnsInv, TurnsTypeOK, OwnedInv

LEMMA WriteInv ==
    ASSUME TurnsInv, UNCHANGED turnByTurn, NEW t \in Turns, WriteRow(t)
    PROVE  TurnsInv'
<1>1. /\ Moves(t, {"inserting", "updating"}, "over")
      /\ snapshot' \in {snapshot, carried[t]}
      /\ carried' = [carried EXCEPT ![t] = None]
      /\ UNCHANGED <<registry, state, on, agent, known, mishaps>>
  BY DEF WriteRow
<1>2. turnAt' \in [Turns -> Places] /\ AgentInv'
  BY <1>1, MoveInv DEF Places
<1> QED BY <1>1, <1>2 DEF TurnsInv, TurnsTypeOK, OwnedInv, Held

LEMMA WriteFailsInv ==
    ASSUME TurnsInv, UNCHANGED turnByTurn, NEW t \in Turns, WriteFails(t)
    PROVE  TurnsInv'
<1>1. /\ Moves(t, {"looking", "inserting", "updating"}, "over")
      /\ carried' = [carried EXCEPT ![t] = None]
      /\ mishaps < MaxMishaps /\ mishaps' = mishaps + 1
      /\ UNCHANGED <<snapshot, registry, state, on, agent, known>>
  BY DEF WriteFails, Mishap
<1>2. turnAt' \in [Turns -> Places] /\ AgentInv'
  BY <1>1, MoveInv DEF Places
<1>3. mishaps' \in 0..MaxMishaps
  BY <1>1, TurnsAssumption DEF TurnsInv, TurnsTypeOK
<1> QED BY <1>1, <1>2, <1>3 DEF TurnsInv, TurnsTypeOK, OwnedInv, Held

LEMMA RestartInv ==
    ASSUME TurnsInv, UNCHANGED turnByTurn, NEW p \in Servers, Restart(p)
    PROVE  TurnsInv'
<1> DEFINE ends(t) == t \in Live /\ on[t] = p
<1>1. /\ mishaps < MaxMishaps /\ mishaps' = mishaps + 1
      /\ registry' = [registry EXCEPT ![p] = None]
      /\ turnAt' = [t \in Turns |-> IF ends(t) THEN "lost" ELSE turnAt[t]]
      /\ carried' = [t \in Turns |-> IF ends(t) THEN None ELSE carried[t]]
      /\ UNCHANGED <<snapshot, state, on, agent, known>>
  BY DEF Restart, Mishap
<1>2. mishaps' \in 0..MaxMishaps
  BY <1>1, TurnsAssumption DEF TurnsInv, TurnsTypeOK
<1>3. TurnsTypeOK'
  BY <1>1, <1>2 DEF TurnsInv, TurnsTypeOK, Places
<1>4. OwnedInv'
  BY <1>1 DEF TurnsInv, TurnsTypeOK, OwnedInv, Held
<1>5. AgentInv'
  BY <1>1 DEF TurnsInv, TurnsTypeOK, AgentInv, Live
<1> QED BY <1>3, <1>4, <1>5 DEF TurnsInv

LEMMA TurnsStep == TurnsInv /\ [TurnsNext]_turnVars => TurnsInv'
<1> SUFFICES ASSUME TurnsInv, [TurnsNext]_turnVars PROVE TurnsInv'
  OBVIOUS
<1>1. ASSUME NEW t \in Turns, Proceed(t), UNCHANGED turnByTurn PROVE TurnsInv'
  BY <1>1, LoadInv, BuildInv, HitInv, AskInv, AnswerInv, FailInv, DumpInv, LookUpInv, WriteInv
     DEF Proceed
<1>2. ASSUME NEW t \in Turns, WriteFails(t), UNCHANGED turnByTurn PROVE TurnsInv'
  BY <1>2, WriteFailsInv
<1>3. ASSUME NEW t \in Turns, NEW p \in Servers, Begin(t, p), UNCHANGED turnByTurn PROVE TurnsInv'
  BY <1>3, BeginInv
<1>4. ASSUME NEW p \in Servers, Restart(p), UNCHANGED turnByTurn PROVE TurnsInv'
  BY <1>4, RestartInv
<1>5. CASE UNCHANGED turnVars
  BY <1>5 DEF turnVars, TurnsInv, TurnsTypeOK, OwnedInv, AgentInv, Live
<1> QED BY <1>1, <1>2, <1>3, <1>4, <1>5 DEF TurnsNext

----------------------------------------------------------------------------
(* The theorems. *)

\* Every reachable state satisfies the invariant (SessionRegistry, handle_intent()
\* and ContextLifecycleMiddleware.on_reply()).
THEOREM TurnsInvariant == TurnsSpec => []TurnsInv
  BY InitInv, TurnsStep, PTL DEF TurnsSpec

\* Every variable keeps its type: what is registered is an agent, and what is
\* stored is the state of one.
THEOREM TurnsTypeCorrect == TurnsSpec => []TurnsTypeOK
<1>1. TurnsInv => TurnsTypeOK
  BY DEF TurnsInv
<1> QED BY <1>1, TurnsInvariant, PTL

\* However turns of different buyers race for a session, no agent and no
\* snapshot holds questions of two buyers: the check and the note of the
\* buyer in on_reply() are one step with the question.
THEOREM OneBuyer == TurnsSpec => []OneBuyerPerHistory
<1>1. TurnsInv => OneBuyerPerHistory
  <2> SUFFICES ASSUME TurnsInv, NEW s \in Histories,
                      NEW t \in TurnsWith(s, {"ask"}), NEW u \in TurnsWith(s, {"ask"})
               PROVE  AskerOf[t] = AskerOf[u]
    BY DEF OneBuyerPerHistory
  <2>1. CASE s = <<>>
    BY <2>1 DEF TurnsWith
  <2>2. ASSUME NEW h, Owned(h), s = h.messages PROVE AskerOf[t] = AskerOf[u]
    BY <2>2 DEF Owned, TurnsWith
  <2>3. s = <<>> \/ \E h : Owned(h) /\ s = h.messages
    BY DEF Histories, Messaged, TurnsInv, OwnedInv, Held
  <2> QED BY <2>1, <2>2, <2>3
<1> QED BY <1>1, TurnsInvariant, PTL

----------------------------------------------------------------------------
(* Turns that come one after the other. *)

\* The turns of a history with one more message.
LEMMA TurnsWithMore ==
    ASSUME NEW s \in Seq(Messages), NEW m \in Messages, NEW K
    PROVE  TurnsWith(Append(s, m), K) = TurnsWith(s, K) \cup (IF m.kind \in K THEN {m.of} ELSE {})
<1> DEFINE n == Append(s, m)
<1>1. /\ DOMAIN n = (DOMAIN s) \cup {Len(s) + 1} /\ n[Len(s) + 1] = m
      /\ \A i \in DOMAIN s : n[i] = s[i]
  OBVIOUS
<1> HIDE DEF n
<1>2. TurnsWith(n, K) = {n[i].of : i \in {j \in DOMAIN n : n[j].kind \in K}}
  BY DEF TurnsWith
<1>3. TurnsWith(s, K) = {s[i].of : i \in {j \in DOMAIN s : s[j].kind \in K}}
  BY DEF TurnsWith
<1>4. TurnsWith(n, K) \subseteq TurnsWith(s, K) \cup (IF m.kind \in K THEN {m.of} ELSE {})
  BY <1>1, <1>2, <1>3
<1>5. TurnsWith(s, K) \subseteq TurnsWith(n, K)
  BY <1>1, <1>2, <1>3
<1>6. m.kind \in K => m.of \in TurnsWith(n, K)
  BY <1>1, <1>2
<1> QED BY <1>4, <1>5, <1>6 DEF n

\* A question opens its turn, and what follows it closes it.
LEMMA OpenMore ==
    ASSUME NEW s \in States, NEW t \in Turns, NEW kind \in Kinds, NEW o
    PROVE  /\ kind = "ask" => Open(Said(s, t, kind, o).messages) \subseteq Open(s.messages) \cup {t}
           /\ kind # "ask" => Open(Said(s, t, kind, o).messages) \subseteq Open(s.messages) \ {t}
<1> DEFINE m == [of |-> t, kind |-> kind]
           K == Kinds \ {"ask"}
<1>1. /\ m \in Messages /\ m.of = t /\ m.kind = kind
      /\ s.messages \in Seq(Messages) /\ Said(s, t, kind, o).messages = Append(s.messages, m)
  BY StateParts DEF Messages, Said
<1> HIDE DEF m
<1>2. /\ TurnsWith(Append(s.messages, m), {"ask"})
           = TurnsWith(s.messages, {"ask"}) \cup (IF m.kind \in {"ask"} THEN {m.of} ELSE {})
      /\ TurnsWith(Append(s.messages, m), K)
           = TurnsWith(s.messages, K) \cup (IF m.kind \in K THEN {m.of} ELSE {})
  BY <1>1, TurnsWithMore
<1>3. CASE kind = "ask"
  BY <1>1, <1>2, <1>3 DEF Open
<1>4. CASE kind # "ask"
  BY <1>1, <1>2, <1>4 DEF Open
<1> QED BY <1>3, <1>4

LEMMA NothingOpen == Open(<<>>) = {}
  BY DEF Open, TurnsWith

\* A prefix is told by its places.
LEMMA PrefixByPlace ==
    ASSUME NEW s \in Seq(Messages), NEW n \in Seq(Messages)
    PROVE  IsPrefix(s, n) <=> Len(s) <= Len(n) /\ \A i \in 1..Len(s) : s[i] = n[i]
<1>1. SubSeq(s, 1, Len(s)) = s
  BY SubSeqFull
<1>2. SUFFICES ASSUME Len(s) <= Len(n)
               PROVE  s = SubSeq(n, 1, Len(s)) <=> \A i \in 1..Len(s) : s[i] = n[i]
  BY <1>1 DEF IsPrefix
<1>3. PICK k \in Int : k = Len(s) /\ 0 <= k /\ k <= Len(n)
  BY <1>2
<1>4. \A i \in 1..k : n[i] \in Messages
  BY <1>3
<1>5. /\ SubSeq(n, 1, k) \in Seq(Messages)
      /\ Len(SubSeq(n, 1, k)) = IF 1 <= k THEN k - 1 + 1 ELSE 0
      /\ \A i \in 1..k - 1 + 1 : SubSeq(n, 1, k)[i] = n[1 + i - 1]
  BY <1>4, SubSeqProperties
<1>6. Len(SubSeq(n, 1, k)) = Len(s) /\ \A i \in 1..Len(s) : SubSeq(n, 1, k)[i] = n[i]
  BY <1>3, <1>5
<1> QED BY <1>3, <1>5, <1>6

LEMMA PrefixIsReflexive == \A s \in Seq(Messages) : IsPrefix(s, s)
  BY PrefixByPlace

LEMMA PrefixGrows ==
    ASSUME NEW s \in Seq(Messages), NEW n \in Seq(Messages), NEW m \in Messages, IsPrefix(s, n)
    PROVE  IsPrefix(s, Append(n, m))
<1>1. Append(n, m) \in Seq(Messages) /\ Len(Append(n, m)) = Len(n) + 1
      /\ \A i \in 1..Len(n) : Append(n, m)[i] = n[i]
  OBVIOUS
<1>2. Len(s) <= Len(n) /\ \A i \in 1..Len(s) : s[i] = n[i]
  BY PrefixByPlace
<1>3. Len(s) <= Len(n) + 1 /\ \A i \in 1..Len(s) : s[i] = Append(n, m)[i]
  BY <1>1, <1>2
<1> QED BY <1>1, <1>3, PrefixByPlace

\* A turn that begins alone finds no other.
LEMMA RoomIsEmpty ==
    ASSUME turnByTurn, LoneInv, RoomForTurn
    PROVE  Live = {}
<1> SUFFICES ASSUME NEW t \in Live PROVE FALSE
  OBVIOUS
<1>1. Live = {t}
  BY DEF LoneInv
<1>2. Cardinality(Live) = 1
  BY <1>1, FS_Singleton
<1> QED BY <1>2 DEF RoomForTurn

\* The types of what a turn alone works on.
LEMMA LoneTypes ==
    ASSUME TurnsInv
    PROVE  /\ Messaged(snapshot) \in Seq(Messages)
           /\ \A a \in Turns : state[a] \in States /\ state[a].messages \in Seq(Messages)
           /\ \A p \in InUse : p \in Servers /\ registry[p] \in Turns
           /\ turnAt \in [Turns -> Places] /\ on \in [Turns -> Servers \cup {None}]
           /\ registry \in [Servers -> Turns \cup {None}] /\ state \in [Turns -> States]
           /\ agent \in [Turns -> Turns \cup {None}]
           /\ carried \in [Turns -> States \cup {None}]
           /\ known \in [Turns -> Seq(Messages)]
           /\ \A t \in Live : on[t] \in Servers
           /\ None \notin Turns
<1>1. TurnsTypeOK /\ AgentInv
  BY DEF TurnsInv
<1>2. Messaged(snapshot) \in Seq(Messages)
  BY <1>1, StateParts DEF Messaged, TurnsTypeOK
<1>3. \A a \in Turns : state[a] \in States /\ state[a].messages \in Seq(Messages)
  BY <1>1, StateParts DEF TurnsTypeOK
<1>4. \A p \in InUse : p \in Servers /\ registry[p] \in Turns
  BY <1>1 DEF TurnsTypeOK, InUse
<1>5. \A t \in Live : on[t] \in Servers
  BY <1>1 DEF AgentInv, Live
<1>6. None \notin Turns
  BY TurnsAssumption
<1> QED BY <1>1, <1>2, <1>3, <1>4, <1>5, <1>6 DEF TurnsTypeOK

\* A step of a turn that is alone, adding no message.
LEMMA LoneMove ==
    ASSUME TurnsInv, LoneInv, NEW t \in Live, NEW to \in Places, turnAt' = [turnAt EXCEPT ![t] = to]
    PROVE  /\ Live = {t}
           /\ Live' = IF to \in {"idle", "over", "lost"} THEN {} ELSE {t}
           /\ turnAt'[t] = to
<1>1. Live = {t}
  BY DEF LoneInv
<1>2. \A u \in Turns : turnAt'[u] = IF u = t THEN to ELSE turnAt[u]
  BY LoneTypes
<1>3. \A u \in Turns \ {t} : turnAt[u] \in {"idle", "over", "lost"}
  BY <1>1 DEF Live
<1> QED BY <1>1, <1>2, <1>3 DEF Live

LEMMA LoneBegin ==
    ASSUME TurnsInv, turnByTurn, LoneInv, OpenInv, NEW t \in Turns, NEW p \in Servers, Begin(t, p)
    PROVE  /\ LoneInv' /\ OpenInv'
           /\ KnownInv => KnownInv'
<1> USE LoneTypes
<1>1. Live = {}
  BY RoomIsEmpty DEF Begin
<1>2. /\ on' = [on EXCEPT ![t] = p]
      /\ known' = [known EXCEPT ![t] = Messaged(snapshot)]
      /\ UNCHANGED <<snapshot, registry, state, carried>>
  BY DEF Begin
<1>3. PICK to \in {"loading", "fresh", "consulting"} :
        /\ turnAt' = [turnAt EXCEPT ![t] = to]
        /\ IF registry[p] # None THEN to # "loading" /\ agent' = [agent EXCEPT ![t] = registry[p]]
                                 ELSE to = "loading"
  BY DEF Begin, Goes, Consult
<1>4. Live' = {t} /\ turnAt'[t] = to /\ on'[t] = p /\ known'[t] = Messaged(snapshot)
  BY <1>1, <1>2, <1>3 DEF Live
<1>5. to # "loading" => agent'[t] = registry[p]
  BY <1>3
<1>6. LoneInv'
  BY <1>2, <1>3, <1>4, <1>5 DEF LoneInv
<1>7. OpenInv'
  BY <1>1, <1>2 DEF OpenInv, InUse
<1>8. KnownInv => KnownInv'
  BY <1>2, <1>4 DEF KnownInv, InUse
<1> QED BY <1>6, <1>7, <1>8

LEMMA LoneLoad ==
    ASSUME TurnsInv, turnByTurn, LoneInv, OpenInv, NEW t \in Turns, Load(t)
    PROVE  /\ LoneInv' /\ OpenInv'
           /\ KnownInv => KnownInv'
<1> USE LoneTypes
<1>1. /\ turnAt[t] = "loading" /\ turnAt' = [turnAt EXCEPT ![t] = "building"] /\ t \in Live
      /\ carried' = [carried EXCEPT ![t] = snapshot]
      /\ UNCHANGED <<snapshot, registry, state, on, agent, known>>
  BY DEF Load, Goes, Live
<1>2. Live = {t} /\ Live' = {t} /\ turnAt'[t] = "building"
  BY <1>1, LoneMove DEF Places
<1>3. LoneInv'
  BY <1>1, <1>2 DEF LoneInv
<1>4. OpenInv'
  BY <1>1, <1>2 DEF OpenInv, InUse
<1> QED BY <1>1, <1>2, <1>3, <1>4 DEF KnownInv, InUse

LEMMA LoneBuild ==
    ASSUME TurnsInv, turnByTurn, LoneInv, OpenInv, NEW t \in Turns, Build(t)
    PROVE  /\ LoneInv' /\ OpenInv'
           /\ KnownInv => KnownInv'
           /\ registry[on[t]] = None /\ state'[t].messages = Messaged(snapshot)
<1> USE LoneTypes
<1>1. /\ turnAt[t] = "building" /\ t \in Live
      /\ state' = [state EXCEPT ![t] = Restored(t)]
      /\ registry' = [registry EXCEPT ![on[t]] = t]
      /\ agent' = [agent EXCEPT ![t] = t]
      /\ UNCHANGED <<snapshot, on, known>>
  BY DEF Build, Goes, Live
<1>2. PICK to \in {"fresh", "consulting"} : turnAt' = [turnAt EXCEPT ![t] = to]
  BY DEF Build, Goes, Consult
<1>3. Live = {t} /\ Live' = {t} /\ turnAt'[t] = to
  BY <1>1, <1>2, LoneMove DEF Places
<1>4. on[t] \in Servers /\ registry'[on[t]] = t /\ agent'[t] = t /\ registry[on[t]] = None
  BY <1>1 DEF LoneInv
<1>5. state'[t].messages = Messaged(snapshot)
  BY <1>1 DEF LoneInv, Restored, Fresh, Messaged
<1>6. LoneInv'
  BY <1>1, <1>2, <1>3, <1>4 DEF LoneInv
<1>7. ASSUME NEW p \in InUse'
      PROVE  /\ p \in Servers /\ registry'[p] \in Turns
             /\ registry'[p] = t \/ (p \in InUse /\ registry'[p] = registry[p]
                                     /\ state'[registry[p]] = state[registry[p]])
  BY <1>1, <1>4, <1>7 DEF InUse
<1>8. OpenInv'
  <2>1. ASSUME NEW p \in InUse' PROVE Open(state'[registry'[p]].messages) = {}
    BY <1>1, <1>3, <1>5, <1>7, <2>1 DEF OpenInv
  <2>2. Open(Messaged(snapshot)') = {}
    BY <1>1 DEF OpenInv, Messaged
  <2> QED BY <2>1, <2>2 DEF OpenInv
<1>9. ASSUME KnownInv PROVE KnownInv'
  <2>1. Messaged(snapshot)' = Messaged(snapshot)
    BY <1>1 DEF Messaged
  <2>2. IsPrefix(Messaged(snapshot), state'[t].messages)
    BY <1>5, PrefixIsReflexive
  <2>3. ASSUME NEW p \in InUse' PROVE IsPrefix(Messaged(snapshot), state'[registry'[p]].messages)
    BY <1>7, <1>9, <2>2, <2>3 DEF KnownInv
  <2> QED BY <1>1, <1>3, <1>9, <2>1, <2>3 DEF KnownInv
<1> QED BY <1>4, <1>5, <1>6, <1>8, <1>9

\* While no turn replies, no question is open.
LEMMA Settled ==
    ASSUME LoneInv, OpenInv, NEW t \in Live, turnAt[t] # "replying"
    PROVE  \A p \in InUse : Open(state[registry[p]].messages) = {}
<1>1. \A u \in Live : turnAt[u] # "replying"
  BY DEF LoneInv
<1> QED BY <1>1 DEF OpenInv

\* A turn that is alone moves on and leaves agents and snapshot as they are.
LEMMA LoneStill ==
    ASSUME TurnsInv, LoneInv, OpenInv, NEW t \in Live, NEW to \in Places,
           turnAt[t] # "replying", turnAt' = [turnAt EXCEPT ![t] = to],
           to \in {"saving", "looking", "inserting", "updating", "over"},
           turnAt[t] \notin {"loading", "building"},
           UNCHANGED <<snapshot, registry, state, on, agent, known>>,
           to \in {"looking", "inserting", "updating"} => carried'[t] = state[registry[on[t]]],
           to = "inserting" => snapshot = None
    PROVE  /\ LoneInv' /\ OpenInv'
           /\ KnownInv => KnownInv'
<1>1. Live = {t} /\ Live' \subseteq {t} /\ turnAt'[t] = to
  BY LoneMove
<1>2. LoneInv'
  BY <1>1 DEF LoneInv
<1>3. OpenInv'
  <2>1. \A p \in InUse : Open(state[registry[p]].messages) = {}
    BY Settled
  <2>2. InUse' = InUse /\ Messaged(snapshot)' = Messaged(snapshot)
    BY DEF InUse, Messaged
  <2> QED BY <2>1, <2>2 DEF OpenInv
<1>4. KnownInv => KnownInv'
  BY <1>1 DEF KnownInv, InUse, Messaged
<1> QED BY <1>2, <1>3, <1>4

LEMMA LoneHit ==
    ASSUME TurnsInv, LoneInv, OpenInv, NEW t \in Turns, Hit(t)
    PROVE  /\ LoneInv' /\ OpenInv'
           /\ KnownInv => KnownInv'
<1>1. /\ turnAt[t] = "fresh" /\ turnAt' = [turnAt EXCEPT ![t] = "saving"] /\ t \in Live
      /\ UNCHANGED <<snapshot, registry, state, on, agent, known>>
  BY DEF Hit, Goes, Live
<1>2. "saving" \in Places
  BY DEF Places
<1> QED BY <1>1, <1>2, LoneStill

LEMMA LoneDump ==
    ASSUME TurnsInv, LoneInv, OpenInv, NEW t \in Turns, Dump(t)
    PROVE  /\ LoneInv' /\ OpenInv'
           /\ KnownInv => KnownInv'
<1>1. /\ turnAt[t] = "saving" /\ turnAt' = [turnAt EXCEPT ![t] = "looking"] /\ t \in Live
      /\ carried' = [carried EXCEPT ![t] = state[registry[on[t]]]]
      /\ UNCHANGED <<snapshot, registry, state, on, agent, known>>
  BY DEF Dump, Goes, Live
<1>2. "looking" \in Places /\ carried'[t] = state[registry[on[t]]]
  BY <1>1, LoneTypes DEF Places
<1> QED BY <1>1, <1>2, LoneStill

LEMMA LoneLookUp ==
    ASSUME TurnsInv, LoneInv, OpenInv, NEW t \in Turns, LookUpRow(t)
    PROVE  /\ LoneInv' /\ OpenInv'
           /\ KnownInv => KnownInv'
<1>1. /\ turnAt[t] = "looking" /\ t \in Live
      /\ UNCHANGED <<snapshot, registry, state, on, agent, carried, known>>
  BY DEF LookUpRow, Goes, Live
<1>2. PICK to \in {"inserting", "updating"} :
        turnAt' = [turnAt EXCEPT ![t] = to] /\ (to = "inserting" => snapshot = None)
  BY DEF LookUpRow, Goes
<1>3. to \in Places /\ carried'[t] = state[registry[on[t]]]
  BY <1>1 DEF Places, LoneInv
<1> QED BY <1>1, <1>2, <1>3, LoneStill

LEMMA LoneWriteFails ==
    ASSUME TurnsInv, LoneInv, OpenInv, NEW t \in Turns, WriteFails(t)
    PROVE  /\ LoneInv' /\ OpenInv'
           /\ KnownInv => KnownInv'
<1>1. /\ turnAt[t] \in {"looking", "inserting", "updating"}
      /\ turnAt' = [turnAt EXCEPT ![t] = "over"] /\ t \in Live
      /\ UNCHANGED <<snapshot, registry, state, on, agent, known>>
  BY DEF WriteFails, Moves, Live
<1>2. "over" \in Places
  BY DEF Places
<1> QED BY <1>1, <1>2, LoneStill

\* The snapshot becomes the state of the agent in use.
LEMMA LoneWrite ==
    ASSUME TurnsInv, LoneInv, OpenInv, NEW t \in Turns, WriteRow(t)
    PROVE  /\ LoneInv' /\ OpenInv'
           /\ (\A p, q \in Servers : p = q) /\ KnownInv => KnownInv'
           /\ on[t] \in InUse /\ Messaged(snapshot)' = state[registry[on[t]]].messages
           /\ t \in Live /\ UNCHANGED <<registry, state>>
<1> USE LoneTypes
<1>1. /\ turnAt[t] \in {"inserting", "updating"} /\ turnAt' = [turnAt EXCEPT ![t] = "over"] /\ t \in Live
      /\ snapshot' = IF turnAt[t] = "inserting" /\ snapshot # None THEN snapshot ELSE carried[t]
      /\ UNCHANGED <<registry, state, on, agent, known>>
  BY DEF WriteRow, Moves, Live
<1>2. Live = {t} /\ Live' = {}
  BY <1>1, LoneMove DEF Places
<1>3. /\ on[t] \in InUse /\ registry[on[t]] \in Turns
      /\ snapshot' = state[registry[on[t]]]
  BY <1>1 DEF LoneInv, InUse
<1>4. Messaged(snapshot)' = state[registry[on[t]]].messages
  BY <1>3, NoneAssumption DEF Messaged
<1>5. LoneInv'
  BY <1>2 DEF LoneInv
<1>6. OpenInv'
  <2>1. \A p \in InUse : Open(state[registry[p]].messages) = {}
    BY <1>1, Settled
  <2>2. InUse' = InUse
    BY <1>1 DEF InUse
  <2> QED BY <1>1, <1>3, <1>4, <2>1, <2>2 DEF OpenInv
<1>7. ASSUME \A p, q \in Servers : p = q PROVE KnownInv'
  <2>1. \A p \in InUse' : p = on[t]
    BY <1>1, <1>3, <1>7 DEF InUse
  <2>2. IsPrefix(Messaged(snapshot)', state[registry[on[t]]].messages)
    BY <1>3, <1>4, PrefixIsReflexive
  <2> QED BY <1>1, <1>2, <2>1, <2>2 DEF KnownInv
<1> QED BY <1>1, <1>3, <1>4, <1>5, <1>6, <1>7

\* A message of the turn that is alone goes to the agent in use.
LEMMA LoneSays ==
    ASSUME TurnsInv, LoneInv, OpenInv, NEW t \in Live, NEW kind \in Kinds, NEW o, NEW to \in Places,
           turnAt[t] \in {"fresh", "consulting", "replying"},
           turnAt' = [turnAt EXCEPT ![t] = to],
           \/ kind = "ask" /\ to = "replying" /\ turnAt[t] # "replying"
           \/ kind # "ask" /\ to = "saving",
           state' = [state EXCEPT ![agent[t]] = Said(@, t, kind, o)],
           UNCHANGED <<snapshot, registry, on, agent, carried, known>>
    PROVE  /\ LoneInv' /\ OpenInv'
           /\ KnownInv => KnownInv'
           /\ on[t] \in InUse /\ agent[t] = registry[on[t]]
           /\ state'[agent[t]].messages
                = Append(state[agent[t]].messages, [of |-> t, kind |-> kind])
<1> USE LoneTypes
<1>1. t \in Turns /\ Live = {t} /\ Live' = {t} /\ turnAt'[t] = to
  BY LoneMove DEF Live
<1>2. agent[t] = registry[on[t]] /\ on[t] \in InUse /\ agent[t] \in Turns
  BY DEF LoneInv, InUse
<1>3. \A a \in Turns : state'[a] = IF a = agent[t] THEN Said(state[a], t, kind, o) ELSE state[a]
  OBVIOUS
<1>4. LoneInv'
  BY <1>1, <1>2 DEF LoneInv
<1>5. OpenInv'
  <2>1. Messaged(snapshot)' = Messaged(snapshot) /\ InUse' = InUse
    BY DEF Messaged, InUse
  <2>2. ASSUME NEW p \in InUse
        PROVE  Open(state'[registry[p]].messages)
                 \subseteq IF kind = "ask" /\ agent[t] = registry[p] THEN {t} ELSE {}
    <3> DEFINE a == registry[p]
    <3>1. a \in Turns /\ state[a] \in States
      BY <2>2
    <3>2. CASE a # agent[t]
      <4>1. Open(state[a].messages) = {}
        BY <1>1, <2>2, <3>2 DEF OpenInv
      <4>2. state'[a] = state[a]
        BY <1>3, <3>1, <3>2
      <4> QED BY <3>2, <4>1, <4>2
    <3>3. CASE a = agent[t] /\ kind = "ask"
      <4>1. Open(state[a].messages) = {}
        BY <2>2, <3>3, Settled
      <4>2. state'[a] = Said(state[a], t, kind, o)
        BY <1>3, <3>1, <3>3
      <4>3. Open(Said(state[a], t, kind, o).messages) \subseteq Open(state[a].messages) \cup {t}
        BY <1>1, <3>1, <3>3, OpenMore
      <4> QED BY <3>3, <4>1, <4>2, <4>3
    <3>4. CASE a = agent[t] /\ kind # "ask"
      <4>1. Open(state[a].messages) \subseteq {t}
        BY <1>1, <2>2 DEF OpenInv
      <4>2. state'[a] = Said(state[a], t, kind, o)
        BY <1>3, <3>1, <3>4
      <4>3. Open(Said(state[a], t, kind, o).messages) \subseteq Open(state[a].messages) \ {t}
        BY <1>1, <3>1, <3>4, OpenMore
      <4> QED BY <4>1, <4>2, <4>3
    <3> QED BY <3>2, <3>3, <3>4
  <2>3. kind = "ask" => t \in Live' /\ turnAt'[t] = "replying"
    BY <1>1
  <2>4. Open(Messaged(snapshot)') = {}
    BY <2>1 DEF OpenInv
  <2>5. ASSUME NEW p \in InUse
        PROVE  Open(state'[registry[p]].messages)
                 \subseteq {u \in Live' : turnAt'[u] = "replying" /\ agent'[u] = registry'[p]}
    BY <2>2, <2>3, <2>5
  <2> QED BY <2>1, <2>4, <2>5 DEF OpenInv
<1>6. DEFINE m == [of |-> t, kind |-> kind]
<1>7. m \in Messages /\ state'[agent[t]].messages = Append(state[agent[t]].messages, m)
  BY <1>1, <1>2, <1>3 DEF Messages, Said
<1>8. ASSUME KnownInv PROVE KnownInv'
  <2>1. Messaged(snapshot)' = Messaged(snapshot) /\ InUse' = InUse
    BY DEF Messaged, InUse
  <2>2. ASSUME NEW p \in InUse
        PROVE  IsPrefix(Messaged(snapshot), state'[registry[p]].messages)
    <3>1. IsPrefix(Messaged(snapshot), state[registry[p]].messages)
      BY <1>8, <2>2 DEF KnownInv
    <3>2. CASE registry[p] # agent[t]
      BY <1>3, <2>2, <3>1, <3>2
    <3>3. CASE registry[p] = agent[t]
      <4>1. state[agent[t]].messages \in Seq(Messages)
        BY <1>2
      <4>2. IsPrefix(Messaged(snapshot), Append(state[agent[t]].messages, m))
        BY <1>7, <3>1, <3>3, <4>1, PrefixGrows
      <4> QED BY <1>7, <3>3, <4>2
    <3> QED BY <3>2, <3>3
  <2> QED BY <1>1, <1>8, <2>1, <2>2 DEF KnownInv
<1> QED BY <1>2, <1>4, <1>5, <1>7, <1>8

LEMMA LoneAsk ==
    ASSUME TurnsInv, LoneInv, OpenInv, NEW t \in Turns, Ask(t)
    PROVE  /\ LoneInv' /\ OpenInv'
           /\ KnownInv => KnownInv'
           /\ on[t] \in InUse /\ agent[t] = registry[on[t]] /\ UNCHANGED <<snapshot, registry>>
           /\ state'[agent[t]].messages
                = Append(state[agent[t]].messages, [of |-> t, kind |-> "ask"])
<1>1. /\ turnAt[t] \in {"fresh", "consulting"} /\ turnAt' = [turnAt EXCEPT ![t] = "replying"] /\ t \in Live
      /\ state' = [state EXCEPT ![agent[t]] = Said(@, t, "ask", AskerOf[t])]
      /\ UNCHANGED <<snapshot, registry, on, agent, carried, known>>
  BY DEF Ask, Moves, Live
<1>2. "ask" \in Kinds /\ "replying" \in Places
  BY DEF Kinds, Places
<1> QED BY <1>1, <1>2, LoneSays

\* An answer, an error or the note of an interruption.
LEMMA LoneConclude ==
    ASSUME TurnsInv, LoneInv, OpenInv, NEW t \in Turns, Answer(t) \/ FailTurn(t)
    PROVE  /\ LoneInv' /\ OpenInv'
           /\ KnownInv => KnownInv'
           /\ on[t] \in InUse /\ agent[t] = registry[on[t]] /\ UNCHANGED <<snapshot, registry>>
           /\ \E kind \in Kinds \ {"ask"} :
                state'[agent[t]].messages
                  = Append(state[agent[t]].messages, [of |-> t, kind |-> kind])
<1>1. PICK kind \in Kinds \ {"ask"} : Says(t, kind)
  BY DEF Answer, FailTurn, Kinds
<1>2. /\ turnAt[t] \in {"fresh", "consulting", "replying"}
      /\ turnAt' = [turnAt EXCEPT ![t] = "saving"] /\ t \in Live
      /\ UNCHANGED <<snapshot, registry, on, agent, carried, known>>
  BY DEF Answer, FailTurn, Goes, Moves, Live
<1>3. PICK o : o = state[agent[t]].owner
  OBVIOUS
<1>4. state' = [state EXCEPT ![agent[t]] = Said(@, t, kind, o)]
  BY <1>1, <1>3 DEF Says
<1>5. kind \in Kinds /\ kind # "ask" /\ "saving" \in Places
  BY DEF Places
<1> QED BY <1>1, <1>2, <1>4, <1>5, LoneSays

LEMMA LoneRestart ==
    ASSUME TurnsInv, AgentsInv, LoneInv, OpenInv, NEW p \in Servers, Restart(p)
    PROVE  /\ LoneInv' /\ OpenInv'
           /\ KnownInv => KnownInv'
<1> USE LoneTypes
<1> DEFINE ends(t) == t \in Live /\ on[t] = p
<1>1. /\ registry' = [registry EXCEPT ![p] = None]
      /\ turnAt' = [t \in Turns |-> IF ends(t) THEN "lost" ELSE turnAt[t]]
      /\ carried' = [t \in Turns |-> IF ends(t) THEN None ELSE carried[t]]
      /\ UNCHANGED <<snapshot, state, on, agent, known>>
  BY DEF Restart
<1>2. /\ Live' = {t \in Live : on[t] # p}
      /\ \A t \in Live' : turnAt'[t] = turnAt[t] /\ carried'[t] = carried[t]
      /\ InUse' = InUse \ {p}
      /\ \A q \in InUse' : registry'[q] = registry[q]
  BY <1>1 DEF Live, InUse
<1>3. LoneInv'
  <2>1. \A t, u \in Live' : t = u
    BY <1>2 DEF LoneInv
  <2>2. ASSUME NEW t \in Live'
        PROVE  t \in Live /\ on'[t] = on[t] /\ agent'[t] = agent[t] /\ turnAt'[t] = turnAt[t]
               /\ carried'[t] = carried[t] /\ registry'[on[t]] = registry[on[t]]
    BY <1>1, <1>2, <2>2
  <2>3. state' = state /\ snapshot' = snapshot
    BY <1>1
  <2>4. ASSUME NEW t \in Live'
        PROVE  /\ registry'[on'[t]] = None <=> turnAt'[t] \in {"loading", "building"}
               /\ turnAt'[t] = "building" => carried'[t] = snapshot'
               /\ turnAt'[t] \in {"fresh", "consulting", "replying"} => agent'[t] = registry'[on'[t]]
               /\ turnAt'[t] \in {"looking", "inserting", "updating"}
                    => carried'[t] = state'[registry'[on'[t]]]
               /\ turnAt'[t] = "inserting" => snapshot' = None
    BY <2>2, <2>3, <2>4 DEF LoneInv
  <2> QED BY <2>1, <2>4 DEF LoneInv
<1>4. Messaged(snapshot)' = Messaged(snapshot)
  BY <1>1 DEF Messaged
<1>5. OpenInv'
  <2>1. ASSUME NEW q \in InUse', NEW t \in Live, agent[t] = registry[q], turnAt[t] = "replying"
        PROVE  t \in Live' /\ turnAt'[t] = "replying"
    <3>1. registry[on[t]] = registry[q] /\ on[t] \in Servers
      BY <2>1 DEF LoneInv
    <3>2. on[t] \in InUse
      BY <1>2, <2>1, <3>1 DEF InUse
    <3>3. on[t] = q
      BY <1>2, <3>1, <3>2 DEF AgentsInv
    <3> QED BY <1>2, <2>1, <3>3
  <2>2. ASSUME NEW q \in InUse'
        PROVE  q \in InUse /\ state'[registry'[q]] = state[registry[q]]
    BY <1>1, <1>2, <2>2
  <2>3. ASSUME NEW q \in InUse'
        PROVE  Open(state'[registry'[q]].messages)
                 \subseteq {t \in Live' : turnAt'[t] = "replying" /\ agent'[t] = registry'[q]}
    <3>1. Open(state[registry[q]].messages)
            \subseteq {t \in Live : turnAt[t] = "replying" /\ agent[t] = registry[q]}
      BY <2>2, <2>3 DEF OpenInv
    <3>2. agent' = agent /\ registry'[q] = registry[q]
      BY <1>1, <1>2, <2>3
    <3> QED BY <2>1, <2>2, <2>3, <3>1, <3>2
  <2> QED BY <1>4, <2>3 DEF OpenInv
<1>6. KnownInv => KnownInv'
  BY <1>1, <1>2, <1>4 DEF KnownInv
<1> QED BY <1>3, <1>5, <1>6

\* A process has the agent of a turn that ran in it.
LEMMA AgentsStep == TurnsInv /\ AgentsInv /\ [TurnsNext]_turnVars => AgentsInv'
<1> SUFFICES ASSUME TurnsInv, AgentsInv, [TurnsNext]_turnVars PROVE AgentsInv'
  OBVIOUS
<1> USE LoneTypes
<1>1. ASSUME NEW t \in Turns, NEW p \in Servers, Begin(t, p) PROVE AgentsInv'
  <2>1. PICK to \in Places \ {"idle"} : turnAt[t] = "idle" /\ turnAt' = [turnAt EXCEPT ![t] = to]
    BY <1>1 DEF Begin, Goes, Consult, Places
  <2>2. on' = [on EXCEPT ![t] = p] /\ UNCHANGED registry
    BY <1>1 DEF Begin
  <2> QED BY <2>1, <2>2 DEF AgentsInv, InUse
<1>2. ASSUME NEW t \in Turns, Build(t) PROVE AgentsInv'
  <2>1. PICK to \in {"fresh", "consulting"} : turnAt' = [turnAt EXCEPT ![t] = to]
    BY <1>2 DEF Build, Goes, Consult
  <2>2. registry' = [registry EXCEPT ![on[t]] = t] /\ UNCHANGED on
    BY <1>2 DEF Build
  <2> QED BY <2>1, <2>2 DEF AgentsInv, InUse
<1>3. ASSUME NEW t \in Turns, NEW to \in Places \ {"idle"}, turnAt' = [turnAt EXCEPT ![t] = to],
             UNCHANGED <<on, registry>>
      PROVE  AgentsInv'
  BY <1>3 DEF AgentsInv, InUse
<1>4. ASSUME NEW t \in Turns, Proceed(t) \/ WriteFails(t) PROVE AgentsInv'
  <2>1. CASE Build(t)
    BY <1>2, <2>1
  <2>2. CASE ~Build(t)
    <3>1. UNCHANGED <<on, registry>>
      BY <1>4, <2>2
         DEF Proceed, Load, Hit, Ask, Answer, FailTurn, Dump, LookUpRow, WriteRow, WriteFails
    <3>2. PICK to \in Places \ {"idle"} : turnAt' = [turnAt EXCEPT ![t] = to]
      BY <1>4, <2>2
         DEF Proceed, Load, Hit, Ask, Answer, FailTurn, Dump, LookUpRow, WriteRow, WriteFails, Goes, Moves, Places
    <3> QED BY <1>3, <3>1, <3>2
  <2> QED BY <2>1, <2>2
<1>5. ASSUME NEW p \in Servers, Restart(p) PROVE AgentsInv'
  BY <1>5 DEF Restart, AgentsInv, InUse
<1>6. CASE UNCHANGED turnVars
  BY <1>6 DEF turnVars, AgentsInv, InUse
<1> QED BY <1>1, <1>4, <1>5, <1>6 DEF TurnsNext

\* One turn after the other, in as many processes as there are.
LEMMA LoneStep ==
    ASSUME TurnsInv, AgentsInv, turnByTurn, LoneInv, OpenInv, [TurnsNext]_turnVars
    PROVE  /\ LoneInv' /\ OpenInv'
           /\ (\A p, q \in Servers : p = q) /\ KnownInv => KnownInv'
<1>1. ASSUME NEW t \in Turns, Proceed(t) \/ WriteFails(t)
      PROVE  /\ LoneInv' /\ OpenInv'
             /\ (\A p, q \in Servers : p = q) /\ KnownInv => KnownInv'
  BY <1>1, LoneLoad, LoneBuild, LoneHit, LoneAsk, LoneConclude, LoneDump, LoneLookUp, LoneWrite,
     LoneWriteFails DEF Proceed
<1>2. CASE UNCHANGED turnVars
  BY <1>2 DEF turnVars, LoneInv, OpenInv, KnownInv, Live, InUse, Messaged
<1> QED BY <1>1, <1>2, LoneBegin, LoneRestart DEF TurnsNext

LEMMA WholeStep == TurnsInv /\ WholeInv /\ [TurnsNext]_turnVars => WholeInv'
<1>1. [TurnsNext]_turnVars => UNCHANGED turnByTurn
  BY DEF TurnsNext, turnVars
<1> QED BY <1>1, AgentsStep, LoneStep DEF WholeInv

LEMMA InitWhole == TurnsInit => WholeInv /\ KnownInv
<1> SUFFICES ASSUME TurnsInit PROVE WholeInv /\ KnownInv
  OBVIOUS
<1>1. Live = {} /\ InUse = {} /\ Messaged(snapshot) = <<>>
  BY DEF TurnsInit, Live, InUse, Messaged
<1> QED BY <1>1, NothingOpen DEF WholeInv, AgentsInv, LoneInv, OpenInv, KnownInv

\* Turns that come one after the other leave no question without its answer,
\* error or interruption, in whichever process each of them runs.
THEOREM NoneLeftOpen == TurnsSpec => []NoOpenQuestion
<1>1. TurnsInv /\ WholeInv => NoOpenQuestion
  BY DEF WholeInv, OpenInv, NoOpenQuestion, Open
<1> QED BY <1>1, TurnsInvariant, InitWhole, WholeStep, PTL DEF TurnsSpec

\* In one process, turns that come one after the other leave a history without
\* holes, restarts between them or not (handle_intent(), get_or_create(),
\* persist()).  With a second process a turn may meet an agent that missed what
\* the other one saved.
THEOREM WholeInOneProcess ==
    ASSUME \A p, q \in Servers : p = q
    PROVE  TurnsSpec => []HistoryIsWhole
<1>1. TurnsInv /\ WholeInv /\ (turnByTurn => KnownInv) => KnowsEarlierTurns
  <2> SUFFICES ASSUME TurnsInv, WholeInv, turnByTurn, KnownInv, NEW t \in Turns, turnAt[t] = "replying"
               PROVE  IsPrefix(known[t], state[agent[t]].messages)
    BY DEF KnowsEarlierTurns
  <2>1. t \in Live
    BY DEF Live
  <2>2. agent[t] = registry[on[t]] /\ registry[on[t]] # None
    BY <2>1 DEF WholeInv, LoneInv
  <2>3. on[t] \in InUse
    BY <2>1, <2>2, LoneTypes DEF InUse
  <2> QED BY <2>1, <2>2, <2>3 DEF KnownInv
<1>2. TurnsInv /\ WholeInv /\ (turnByTurn => KnownInv) /\ [TurnsNext]_turnVars
        => (turnByTurn => KnownInv)'
  <2>1. [TurnsNext]_turnVars => UNCHANGED turnByTurn
    BY DEF TurnsNext, turnVars
  <2> QED BY <2>1, LoneStep DEF WholeInv
<1>3. TurnsInit => (turnByTurn => KnownInv)
  BY InitWhole
<1> QED BY <1>1, <1>2, <1>3, TurnsInvariant, InitWhole, WholeStep, NoneLeftOpen, PTL
        DEF TurnsSpec, HistoryIsWhole

----------------------------------------------------------------------------
(* One process and one turn at a time: the session is a Conversation. *)


LEMMA CurrentOf ==
    ASSUME NEW p, Servers = {p}
    PROVE  /\ Current = IF registry[p] = None THEN Messaged(snapshot) ELSE state[registry[p]].messages
           /\ Current' = IF registry'[p] = None THEN Messaged(snapshot)'
                                                ELSE state'[registry'[p]].messages
<1>1. (CHOOSE q \in Servers : TRUE) = p
  OBVIOUS
<1> QED BY <1>1 DEF Current

LEMMA TalkStep ==
    ASSUME NEW p, Servers = {p}, TurnsInv, turnByTurn, LoneInv, OpenInv, [TurnsNext]_turnVars
    PROVE  \/ \E m \in Messages : Current' = Append(Current, m) /\ UNCHANGED Messaged(snapshot)
           \/ Messaged(snapshot)' = Current /\ UNCHANGED Current
           \/ Current' = Messaged(snapshot) /\ UNCHANGED Messaged(snapshot)
           \/ UNCHANGED <<Current, Messaged(snapshot)>>
<1>1. CASE UNCHANGED <<snapshot, registry, state>>
  BY <1>1 DEF Current, Messaged
<1>2. ASSUME NEW t \in Turns, Ask(t) \/ Answer(t) \/ FailTurn(t)
      PROVE  \E m \in Messages : Current' = Append(Current, m) /\ UNCHANGED Messaged(snapshot)
  <2>1. /\ on[t] \in InUse /\ agent[t] = registry[on[t]] /\ UNCHANGED <<snapshot, registry>>
        /\ \E kind \in Kinds : state'[agent[t]].messages
                = Append(state[agent[t]].messages, [of |-> t, kind |-> kind])
    BY <1>2, LoneAsk, LoneConclude DEF Kinds
  <2>2. PICK kind \in Kinds : state'[agent[t]].messages
                = Append(state[agent[t]].messages, [of |-> t, kind |-> kind])
    BY <2>1
  <2>3. [of |-> t, kind |-> kind] \in Messages
    BY DEF Messages
  <2>4. on[t] = p /\ registry[p] # None
    BY <2>1 DEF InUse
  <2>5. UNCHANGED Messaged(snapshot)
    BY <2>1 DEF Messaged
  <2> QED BY <2>1, <2>2, <2>3, <2>4, <2>5, CurrentOf
<1>3. ASSUME NEW t \in Turns, Build(t)
      PROVE  UNCHANGED <<Current, Messaged(snapshot)>>
  <2>1. /\ registry[on[t]] = None /\ state'[t].messages = Messaged(snapshot)
        /\ registry' = [registry EXCEPT ![on[t]] = t] /\ UNCHANGED snapshot
    BY <1>3, LoneBuild DEF Build
  <2>2. on[t] = p /\ registry \in [Servers -> Turns \cup {None}]
    BY <1>3, LoneTypes DEF Build, Goes, Live
  <2>3. registry[p] = None /\ registry'[p] = t /\ t # None
    BY <2>1, <2>2, LoneTypes
  <2>4. UNCHANGED Messaged(snapshot)
    BY <2>1 DEF Messaged
  <2> QED BY <2>1, <2>3, <2>4, CurrentOf
<1>4. ASSUME NEW t \in Turns, WriteRow(t)
      PROVE  Messaged(snapshot)' = Current /\ UNCHANGED Current
  <2>1. /\ on[t] \in InUse /\ Messaged(snapshot)' = state[registry[on[t]]].messages
        /\ UNCHANGED <<registry, state>>
    BY <1>4, LoneWrite
  <2>2. on[t] = p /\ registry[p] # None
    BY <2>1 DEF InUse
  <2> QED BY <2>1, <2>2, CurrentOf
<1>5. ASSUME NEW q \in Servers, Restart(q)
      PROVE  Current' = Messaged(snapshot) /\ UNCHANGED Messaged(snapshot)
  <2>1. registry' = [registry EXCEPT ![p] = None] /\ UNCHANGED snapshot
    BY <1>5 DEF Restart
  <2>2. registry'[p] = None
    BY <2>1, LoneTypes
  <2>3. UNCHANGED Messaged(snapshot)
    BY <2>1 DEF Messaged
  <2> QED BY <2>2, <2>3, CurrentOf
<1>6. ASSUME NEW t \in Turns,
             Load(t) \/ Hit(t) \/ Dump(t) \/ LookUpRow(t) \/ WriteFails(t) \/ \E q \in Servers : Begin(t, q)
      PROVE  UNCHANGED <<snapshot, registry, state>>
  BY <1>6 DEF Load, Hit, Dump, LookUpRow, WriteFails, Begin
<1>7. CASE UNCHANGED turnVars
  BY <1>1, <1>7 DEF turnVars
<1> QED BY <1>1, <1>2, <1>3, <1>4, <1>5, <1>6, <1>7 DEF TurnsNext, Proceed

\* In one process, turns that come one after the other are a conversation whose
\* history only grows, but for a restart, which takes back what was not saved
\* (handle_intent(), persist(), get_or_create()).
THEOREM TurnsAreConversation ==
    ASSUME NEW p, Servers = {p}
    PROVE  TurnsSpec => SessionIsConversation
<1>1. TurnsInit => Talk!TalkInit
  <2>1. TurnsInit => Messaged(snapshot) = <<>> /\ registry[p] = None
    BY DEF TurnsInit, Messaged
  <2> QED BY <2>1, CurrentOf DEF Talk!TalkInit
<1>2. TurnsInv /\ WholeInv /\ [TurnsNext]_turnVars => [Talk!TalkNext]_Talk!talkVars
  <2> SUFFICES ASSUME TurnsInv, WholeInv, [TurnsNext]_turnVars
               PROVE  [Talk!TalkNext]_Talk!talkVars
    OBVIOUS
  <2>1. UNCHANGED turnByTurn
    BY DEF TurnsNext, turnVars
  <2>2. CASE ~turnByTurn
    BY <2>1, <2>2 DEF Talk!talkVars
  <2>3. CASE turnByTurn
    <3>1. \A m \in Messages : m \in [of : Turns, kind : {"ask"}] \/ m \in [of : Turns, kind : Kinds \ {"ask"}]
      BY DEF Messages
    <3>2. LoneInv /\ OpenInv
      BY <2>3 DEF WholeInv
    <3>3. CASE \E m \in Messages : Current' = Append(Current, m) /\ UNCHANGED Messaged(snapshot)
      BY <2>1, <2>3, <3>1, <3>3 DEF Talk!TalkNext, Talk!AskMore, Talk!Conclude
    <3>4. CASE Messaged(snapshot)' = Current /\ UNCHANGED Current
      BY <2>1, <2>3, <3>4 DEF Talk!TalkNext, Talk!Keep
    <3>5. CASE Current' = Messaged(snapshot) /\ UNCHANGED Messaged(snapshot)
      BY <2>1, <2>3, <3>5 DEF Talk!TalkNext, Talk!Resume
    <3>6. CASE UNCHANGED <<Current, Messaged(snapshot)>>
      BY <2>1, <2>3, <3>6 DEF Talk!talkVars
    <3> QED BY <2>3, <3>2, <3>3, <3>4, <3>5, <3>6, TalkStep
  <2> QED BY <2>2, <2>3
<1> QED BY <1>1, <1>2, TurnsInvariant, InitWhole, WholeStep, PTL
        DEF TurnsSpec, SessionIsConversation, Talk!TalkSpec

=============================================================================
