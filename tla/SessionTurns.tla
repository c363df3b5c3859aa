---------------------------- MODULE SessionTurns ----------------------------
(***************************************************************************)
(* The turns of one shopping session: Orchestrator.handle_intent() and     *)
(* SessionRegistry, with the snapshots of the agent's state in SQLite      *)
(* (app/application/agents/orchestrator.py, main_agent.py,                 *)
(* app/infrastructure/persistence/sql/repositories.py), in one or several  *)
(* processes that each cache the session's agent.                          *)
(*                                                                         *)
(* Nothing orders the turns of a session: two of them may run at once, in  *)
(* one process or in two.  One action is the code between two awaits.  An  *)
(* agent is named after the turn that built it.  Its state is the list of  *)
(* its messages and the buyer its context belongs to.                      *)
(***************************************************************************)
EXTENDS Integers, Sequences, FiniteSets, SequencesExt

CONSTANTS
    Turns,        \* the intents of the session
    Servers,      \* processes that run the orchestrator
    AskerOf,      \* AskerOf[t]: buyer_id of intent t
    None,
    MaxOverlap,   \* bound: turns that run at once
    MaxMishaps    \* bound: snapshots that cannot be read or written, restarts

ASSUME TurnsAssumption ==
    /\ None \notin Turns
    /\ \A t \in Turns : AskerOf[t] # None
    /\ MaxOverlap \in Nat /\ MaxMishaps \in Nat

VARIABLES
    snapshot,  \* the session's row of agent_session_states, or None
    registry,  \* registry[p]: the agent of the session in process p
    state,     \* state[a]: messages and owner of the agent built by turn a
    turnAt,    \* turnAt[t]: where handle_intent() is
    on,        \* on[t]: the process it runs in
    agent,     \* agent[t]: the agent it uses
    carried,   \* carried[t]: the state it has read, or is going to write
    known,     \* history: what the database held when the turn began
    turnByTurn,  \* turns come one after the other, every snapshot can be read
    mishaps

turnVars == <<snapshot, registry, state, turnAt, on, agent, carried, known,
              turnByTurn, mishaps>>

Kinds    == {"ask", "answer", "error"}
Messages == [of : Turns, kind : Kinds]
Buyers   == {AskerOf[t] : t \in Turns}
States   == [messages : Seq(Messages), owner : Buyers \cup {None}]

ASSUME NoneAssumption == None \notin States

Places   == {"idle", "loading", "building", "fresh", "consulting", "replying", "saving",
             "looking", "inserting", "updating", "over", "lost"}

TurnsTypeOK ==
    /\ snapshot \in States \cup {None}
    /\ registry \in [Servers -> Turns \cup {None}]
    /\ state \in [Turns -> States]
    /\ turnAt \in [Turns -> Places]
    /\ on \in [Turns -> Servers \cup {None}]
    /\ agent \in [Turns -> Turns \cup {None}]
    /\ carried \in [Turns -> States \cup {None}]
    /\ known \in [Turns -> Seq(Messages)]
    /\ turnByTurn \in BOOLEAN
    /\ mishaps \in 0..MaxMishaps

Fresh == [messages |-> <<>>, owner |-> None]

TurnsInit ==
    /\ snapshot = None
    /\ registry = [p \in Servers |-> None]
    /\ state = [a \in Turns |-> Fresh]
    /\ turnAt = [t \in Turns |-> "idle"]
    /\ on = [t \in Turns |-> None]
    /\ agent = [t \in Turns |-> None]
    /\ carried = [t \in Turns |-> None]
    /\ known = [t \in Turns |-> <<>>]
    /\ turnByTurn \in BOOLEAN
    /\ mishaps = 0

----------------------------------------------------------------------------
Live == {t \in Turns : turnAt[t] \notin {"idle", "over", "lost"}}

\* The turns of a behaviour overlap, or come one after the other.
RoomForTurn == Cardinality(Live) < IF turnByTurn THEN 1 ELSE MaxOverlap

Goes(t, from, to) == turnAt[t] = from /\ turnAt' = [turnAt EXCEPT ![t] = to]
Moves(t, from, to) == turnAt[t] \in from /\ turnAt' = [turnAt EXCEPT ![t] = to]

Messaged(s) == IF s = None THEN <<>> ELSE s.messages

Mishap == mishaps < MaxMishaps /\ mishaps' = mishaps + 1

\* A state with one more message of a turn.
Said(s, t, kind, owner) ==
    [messages |-> Append(s.messages, [of |-> t, kind |-> kind]), owner |-> owner]

\* A message is added to the context of the turn's agent.
Says(t, kind) == state' = [state EXCEPT ![agent[t]] = Said(@, t, kind, @.owner)]

\* has_history is looked at once, before the semantic cache is asked.
Consult(s) == IF s.messages = <<>> THEN "fresh" ELSE "consulting"

\* get_or_create(): the registry has an agent, or the snapshot must be read.
Begin(t, p) ==
    /\ RoomForTurn
    /\ IF registry[p] # None
         THEN /\ Goes(t, "idle", Consult(state[registry[p]]))
              /\ agent' = [agent EXCEPT ![t] = registry[p]]
         ELSE Goes(t, "idle", "loading") /\ UNCHANGED agent
    /\ on' = [on EXCEPT ![t] = p]
    /\ known' = [known EXCEPT ![t] = Messaged(snapshot)]
    /\ UNCHANGED <<snapshot, registry, state, carried, mishaps>>

\* _try_restore(): a snapshot that cannot be read starts a new session.
Load(t) ==
    /\ Goes(t, "loading", "building")
    /\ \/ carried' = [carried EXCEPT ![t] = snapshot] /\ UNCHANGED mishaps
       \/ ~turnByTurn /\ Mishap /\ UNCHANGED carried
    /\ UNCHANGED <<snapshot, registry, state, on, agent, known>>

\* The state a new agent starts with.
Restored(t) == IF carried[t] = None THEN Fresh ELSE carried[t]

\* The new agent replaces whatever another turn has put there meanwhile.
Build(t) ==
    /\ Goes(t, "building", Consult(Restored(t)))
    /\ state' = [state EXCEPT ![t] = Restored(t)]
    /\ registry' = [registry EXCEPT ![on[t]] = t]
    /\ agent' = [agent EXCEPT ![t] = t]
    /\ carried' = [carried EXCEPT ![t] = None]
    /\ UNCHANGED <<snapshot, on, known, mishaps>>

\* The semantic cache answers a session without history: no message is added.
Hit(t) ==
    /\ Goes(t, "fresh", "saving")
    /\ UNCHANGED <<snapshot, registry, state, on, agent, carried, known, mishaps>>

\* Mutant: the buyer is noted when the reply ends, not when it begins.
AskUnclaimed(t) ==
    /\ Moves(t, {"fresh", "consulting"}, "replying")
    /\ state[agent[t]].owner \in {None, AskerOf[t]}
    /\ Says(t, "ask")
    /\ UNCHANGED <<snapshot, registry, on, agent, carried, known, mishaps>>

\* ContextLifecycleMiddleware.on_reply(): the context belongs to no buyer or
\* to this one; then the agent takes the question.
Ask(t) ==
    /\ Moves(t, {"fresh", "consulting"}, "replying")
    /\ state[agent[t]].owner \in {None, AskerOf[t]}
    /\ state' = [state EXCEPT ![agent[t]] = Said(@, t, "ask", AskerOf[t])]
    /\ UNCHANGED <<snapshot, registry, on, agent, carried, known, mishaps>>

\* The agent answers; the note that it was interrupted counts as an answer.
Answer(t) ==
    /\ Goes(t, "replying", "saving")
    /\ Says(t, "answer")
    /\ UNCHANGED <<snapshot, registry, on, agent, carried, known, mishaps>>

\* Mutant: the failed turn leaves its question open.
FailSilently(t) ==
    /\ Moves(t, {"fresh", "consulting", "replying"}, "saving")
    /\ UNCHANGED <<snapshot, registry, state, on, agent, carried, known, mishaps>>

\* An exception, ContextOwnershipError among them, after all retries: the
\* terminal failure is appended to the context.
FailTurn(t) ==
    /\ Moves(t, {"fresh", "consulting", "replying"}, "saving")
    /\ Says(t, "error")
    /\ UNCHANGED <<snapshot, registry, on, agent, carried, known, mishaps>>

\* Mutant: the agent the turn used is saved, not the registered one.
DumpOwn(t) ==
    /\ Goes(t, "saving", "looking")
    /\ carried' = [carried EXCEPT ![t] = state[t]]
    /\ UNCHANGED <<snapshot, registry, state, on, agent, known, mishaps>>

\* persist() renders the state of the agent that is registered by then.
Dump(t) ==
    /\ Goes(t, "saving", "looking")
    /\ carried' = [carried EXCEPT ![t] = state[registry[on[t]]]]
    /\ UNCHANGED <<snapshot, registry, state, on, agent, known, mishaps>>

\* The SELECT of merge(): INSERT or UPDATE.
LookUpRow(t) ==
    /\ Goes(t, "looking", IF snapshot = None THEN "inserting" ELSE "updating")
    /\ UNCHANGED <<snapshot, registry, state, on, agent, carried, known, mishaps>>

\* The COMMIT; an INSERT of a row that has appeared meanwhile is refused.
WriteRow(t) ==
    /\ Moves(t, {"inserting", "updating"}, "over")
    /\ snapshot' = IF turnAt[t] = "inserting" /\ snapshot # None THEN snapshot ELSE carried[t]
    /\ carried' = [carried EXCEPT ![t] = None]
    /\ UNCHANGED <<registry, state, on, agent, known, mishaps>>

\* The database is locked: persist() only warns.
WriteFails(t) ==
    /\ Moves(t, {"looking", "inserting", "updating"}, "over")
    /\ carried' = [carried EXCEPT ![t] = None]
    /\ Mishap
    /\ UNCHANGED <<snapshot, registry, state, on, agent, known>>

\* A process ends with its agents and the turns it runs.
Restart(p) ==
    /\ Mishap
    /\ registry' = [registry EXCEPT ![p] = None]
    /\ turnAt' = [t \in Turns |-> IF t \in Live /\ on[t] = p THEN "lost" ELSE turnAt[t]]
    /\ carried' = [t \in Turns |-> IF t \in Live /\ on[t] = p THEN None ELSE carried[t]]
    /\ UNCHANGED <<snapshot, state, on, agent, known>>

Proceed(t) ==
    \/ Load(t) \/ Build(t) \/ Hit(t) \/ Ask(t) \/ Answer(t) \/ FailTurn(t)
    \/ Dump(t) \/ LookUpRow(t) \/ WriteRow(t)

TurnsNext ==
    /\ \/ \E t \in Turns : Proceed(t) \/ WriteFails(t) \/ \E p \in Servers : Begin(t, p)
       \/ \E p \in Servers : Restart(p)
    /\ UNCHANGED turnByTurn

TurnsSpec == TurnsInit /\ [][TurnsNext]_turnVars

----------------------------------------------------------------------------
(* Properties. *)

TurnsWith(s, kinds) == {s[i].of : i \in {j \in DOMAIN s : s[j].kind \in kinds}}
InUse == {p \in Servers : registry[p] # None}
Histories == {state[a].messages : a \in Turns} \cup {Messaged(snapshot)}

\* However turns of different buyers race for a session, no agent and no
\* snapshot ever holds questions of two buyers.
OneBuyerPerHistory ==
    \A s \in Histories : \A t, u \in TurnsWith(s, {"ask"}) : AskerOf[t] = AskerOf[u]

\* One turn after the other: a turn that is no longer running has no open
\* question in the agents in use or in the snapshot.  An answer, an error or an
\* interruption follows it, so that later turns can settle what is before them.
NoOpenQuestion ==
    turnByTurn => \A s \in {Messaged(snapshot)} \cup {state[registry[p]].messages : p \in InUse} :
        \A t \in TurnsWith(s, {"ask"}) \ Live : t \in TurnsWith(s, Kinds \ {"ask"})

\* One turn after the other: a turn that asks its question knows every turn
\* that was saved before it began, restarts between them or not.
KnowsEarlierTurns ==
    turnByTurn => \A t \in Turns : turnAt[t] = "replying" =>
        IsPrefix(known[t], state[agent[t]].messages)

\* Turns in turn leave a history without holes: every question has its
\* continuation, and every later turn starts from all that was saved.
HistoryIsWhole == NoOpenQuestion /\ KnowsEarlierTurns

\* The inductive invariant of the two.  A turn that is alone finds its agent and
\* its snapshot as it left them, whatever processes there are; questions are
\* open in its own agent only, and while it replies.  In one process the agent
\* knows what was saved.
Open(s) == TurnsWith(s, {"ask"}) \ TurnsWith(s, Kinds \ {"ask"})

LoneInv ==
    /\ \A t, u \in Live : t = u
    /\ \A t \in Live :
        /\ registry[on[t]] = None <=> turnAt[t] \in {"loading", "building"}
        /\ turnAt[t] = "building" => carried[t] = snapshot
        /\ turnAt[t] \in {"fresh", "consulting", "replying"} => agent[t] = registry[on[t]]
        /\ turnAt[t] \in {"looking", "inserting", "updating"} => carried[t] = state[registry[on[t]]]
        /\ turnAt[t] = "inserting" => snapshot = None

OpenInv ==
    /\ Open(Messaged(snapshot)) = {}
    /\ \A p \in InUse : Open(state[registry[p]].messages)
                          \subseteq {t \in Live : turnAt[t] = "replying" /\ agent[t] = registry[p]}

KnownInv ==
    /\ \A p \in InUse : IsPrefix(Messaged(snapshot), state[registry[p]].messages)
    /\ \A t \in Live : known[t] = Messaged(snapshot)

\* Processes share no agent.
AgentsInv == \A p \in InUse : on[registry[p]] = p /\ turnAt[registry[p]] # "idle"

WholeInv == AgentsInv /\ (turnByTurn => LoneInv /\ OpenInv)

\* With one turn at a time in one process the session is a Conversation.
\* Overlapping turns are mapped to one that nobody takes up.
Current ==
    LET a == registry[CHOOSE p \in Servers : TRUE] IN
    IF a = None THEN Messaged(snapshot) ELSE state[a].messages

Talk == INSTANCE Conversation
    WITH Asks <- [of : Turns, kind : {"ask"}],
         Outcomes <- [of : Turns, kind : Kinds \ {"ask"}],
         history <- IF turnByTurn THEN Current ELSE <<>>,
         saved <- IF turnByTurn THEN Messaged(snapshot) ELSE <<>>

SessionIsConversation == Talk!TalkSpec
=============================================================================
