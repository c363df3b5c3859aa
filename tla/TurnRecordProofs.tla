-------------------------- MODULE TurnRecordProofs --------------------------
(***************************************************************************)
(* The reply cache and the conversation log, for every number of turns,    *)
(* sessions, buyers, questions and preferences, however turns overlap and  *)
(* calls fail; and the files that take their place when DATABASE_URL is    *)
(* "file", whichever writes are cut.                                       *)
(***************************************************************************)
EXTENDS TurnRecord, FileStores, FiniteSetTheorems, WellFoundedInduction, TLAPS

Places == Waiting \cup Writing \cup {"idle", "over"}

\* The elements of a sequence that one more is appended to.
LEMMA AppendAdds ==
    ASSUME NEW S, NEW s \in Seq(S), NEW e \in S
    PROVE  Append(s, e) \in Seq(S) /\ ToSet(Append(s, e)) = ToSet(s) \cup {e}
<1>1. Append(s, e) \in Seq(S) /\ DOMAIN Append(s, e) = 1..(Len(s) + 1) /\ DOMAIN s = 1..Len(s)
  OBVIOUS
<1>2. Len(s) \in Nat /\ Append(s, e)[Len(s) + 1] = e /\ \A i \in 1..Len(s) : Append(s, e)[i] = s[i]
  OBVIOUS
<1>3. \A i \in 1..(Len(s) + 1) : i \in 1..Len(s) \/ i = Len(s) + 1
  BY <1>2
<1>4. ToSet(Append(s, e)) \subseteq ToSet(s) \cup {e}
  BY <1>1, <1>2, <1>3 DEF ToSet
<1>5. ToSet(s) \cup {e} \subseteq ToSet(Append(s, e))
  <2>1. Len(s) + 1 \in 1..(Len(s) + 1) /\ \A i \in 1..Len(s) : i \in 1..(Len(s) + 1)
    BY <1>2
  <2>2. QED
    BY <1>1, <1>2, <2>1 DEF ToSet
<1>6. QED
  BY <1>1, <1>4, <1>5

\* A sequence is one of its own elements.
LEMMA SeqOfItsOwn ==
    ASSUME NEW S, NEW s \in Seq(S) PROVE s \in Seq(ToSet(s)) /\ ToSet(s) \subseteq S
<1>1. DOMAIN s = 1..Len(s) /\ Len(s) \in Nat /\ \A i \in 1..Len(s) : s[i] \in ToSet(s)
  BY DEF ToSet
<1>2. \A i \in 1..Len(s) : s[i] \in S
  OBVIOUS
<1>3. s = [i \in 1..Len(s) |-> s[i]]
  OBVIOUS
<1>4. [i \in 1..Len(s) |-> s[i]] \in Seq(ToSet(s))
  BY <1>1
<1>5. QED
  BY <1>1, <1>2, <1>3, <1>4 DEF ToSet

\* What is cut from a sequence is of its elements.
LEMMA CutKeeps ==
    ASSUME NEW S, NEW s \in Seq(S), NEW n \in Int, 1 <= n
    PROVE  /\ SubSeq(s, n, Len(s)) \in Seq(ToSet(SubSeq(s, n, Len(s))))
           /\ ToSet(SubSeq(s, n, Len(s))) \subseteq S
<1>1. SubSeq(s, n, Len(s)) \in Seq(S)
  OBVIOUS
<1>2. QED
  BY <1>1, SeqOfItsOwn

-----------------------------------------------------------------------------
(* The log. *)

\* The greatest of the numbers from 1 on.
LEMMA MaxOfRange ==
    ASSUME NEW n \in Nat, NEW S, S = 1..n PROVE (IF S = {} THEN 0 ELSE Max(S)) = n
<1>1. CASE n = 0
  BY <1>1
<1>2. CASE n > 0
  <2>1. n \in 1..n /\ \A m \in 1..n : m \in Int /\ m <= n
    BY <1>2
  <2>2. \A m \in 1..n : (\A k \in 1..n : k <= m) => m = n
    BY <2>1
  <2>3. Max(1..n) = n
    BY <2>1, <2>2 DEF Max
  <2>4. QED
    BY <1>2, <2>1, <2>3
<1>3. QED
  BY <1>1, <1>2

\* Where a turn is that has written a message.
HasWritten == {"renumbering", "rewriting", "tracing", "over"}

LEMMA LogInitInv == RecordInit => LogInv
<1> SUFFICES ASSUME RecordInit PROVE LogInv
  OBVIOUS
<1>1. \A s \in Sessions : messages[s] = <<>>
  BY DEF RecordInit
<1>2. \A s \in Sessions : ToSet(messages[s]) = {} /\ Indexes(s) = {}
  BY <1>1 DEF ToSet, Indexes
<1>3. \A s \in Sessions : Greatest(s) = 0
  BY <1>2 DEF Greatest
<1>4. messages \in [Sessions -> Seq(Messages)]
  BY DEF RecordInit
<1>5. \A t \in TurnIds : SessionOf[t] \in Sessions /\ top[t] = 0
  BY DEF RecordInit, Sessions
<1>6. place \in [TurnIds -> Places] /\ top \in [TurnIds -> Nat]
  BY DEF RecordInit, Places
<1>7. LogReadable
  BY <1>2, <1>3 DEF LogReadable
<1>8. \A s \in Sessions : Indexes(s) = 1..Greatest(s) /\ Greatest(s) \in Nat
  BY <1>2, <1>3
<1>9. \A t \in TurnIds : top[t] <= Greatest(SessionOf[t])
  BY <1>3, <1>5
<1>10. QED
  BY <1>2, <1>4, <1>6, <1>7, <1>8, <1>9 DEF LogInv, Places

\* A turn that has no message, or has written all it will, may go anywhere.
LEMMA MoveKeepsLog ==
    ASSUME LogInv, NEW t \in TurnIds, NEW x \in Places,
           place' = [place EXCEPT ![t] = x], UNCHANGED <<messages, top>>,
           place[t] \notin HasWritten \/ x = "over"
    PROVE  LogInv'
<1>1. place' \in [TurnIds -> Places]
  BY DEF LogInv, Places
<1>2. \A s : Indexes(s)' = Indexes(s) /\ Greatest(s)' = Greatest(s)
  BY DEF Indexes, Greatest
<1>3. LogReadable'
  BY <1>2 DEF LogInv, LogReadable
<1>4. ASSUME NEW s \in Sessions, NEW m \in ToSet(messages[s])
      PROVE  /\ m.role = "buyer" => place'[m.turn] \in HasWritten
             /\ m.role = "agent" => place'[m.turn] \in {"tracing", "over"}
             /\ place'[m.turn] = "rewriting" => m.index <= top[m.turn]
  <2>1. m \in Messages
    BY SeqOfItsOwn DEF LogInv
  <2>2. m.turn \in TurnIds /\ m.role \in {"buyer", "agent"}
    BY <2>1 DEF Messages, Roles
  <2>3. place[m.turn] \in HasWritten
    BY <2>2 DEF LogInv, HasWritten
  <2>4. QED
    BY <2>2, <2>3 DEF LogInv, HasWritten
<1>5. /\ messages' \in [Sessions -> Seq(Messages)] /\ top' \in [TurnIds -> Nat]
      /\ \A s \in Sessions : Indexes(s)' = 1..Greatest(s)' /\ Greatest(s)' \in Nat
      /\ \A u \in TurnIds : top'[u] <= Greatest(SessionOf[u])'
      /\ \A s \in Sessions : \A m \in ToSet(messages'[s]) : SessionOf[m.turn] = s
  BY <1>2 DEF LogInv
<1>6. QED
  BY <1>1, <1>3, <1>4, <1>5 DEF LogInv, Places, HasWritten

\* The places of a turn around its question and its answer.
LEMMA Stages ==
    /\ Numbering["buyer"] = "numbering" /\ Numbering["agent"] = "renumbering"
    /\ Inserting["buyer"] = "writing" /\ Inserting["agent"] = "rewriting"
    /\ Inserted["buyer"] = "renumbering" /\ Inserted["agent"] = "tracing"
BY DEF Numbering, Inserting, Inserted

\* The number read is not below any of the turn's own messages.
LEMMA NumberKeepsLog ==
    ASSUME LogInv, NEW t \in TurnIds, NEW role \in Roles, Number(t, role) PROVE LogInv'
<1>1. /\ UNCHANGED messages /\ top' = [top EXCEPT ![t] = Greatest(SessionOf[t])]
      /\ \/ place[t] = "numbering" /\ place' = [place EXCEPT ![t] = "writing"]
         \/ place[t] = "renumbering" /\ place' = [place EXCEPT ![t] = "rewriting"]
  BY Stages DEF Number, MoveTo, Roles
<1>2. SessionOf[t] \in Sessions
  BY DEF Sessions
<1>3. place' \in [TurnIds -> Places] /\ top' \in [TurnIds -> Nat]
  BY <1>1, <1>2 DEF LogInv, Places, Waiting, Writing
<1>4. \A s : Indexes(s)' = Indexes(s) /\ Greatest(s)' = Greatest(s)
  BY <1>1 DEF Indexes, Greatest
<1>5. LogReadable'
  BY <1>1, <1>4 DEF LogInv, LogReadable
<1>6. \A u \in TurnIds : top'[u] <= Greatest(SessionOf[u])
  BY <1>1, <1>2 DEF LogInv
<1>7. ASSUME NEW s \in Sessions, NEW m \in ToSet(messages[s])
      PROVE  /\ m.role = "buyer" => place'[m.turn] \in HasWritten
             /\ m.role = "agent" => place'[m.turn] \in {"tracing", "over"}
             /\ place'[m.turn] = "rewriting" => m.index <= top'[m.turn]
  <2>1. m \in Messages
    BY SeqOfItsOwn DEF LogInv
  <2>2. m.turn \in TurnIds /\ m.role \in {"buyer", "agent"} /\ SessionOf[m.turn] = s
    BY <2>1 DEF Messages, Roles, LogInv
  <2>3. m.index \in 1..Greatest(s) /\ Greatest(s) \in Nat
    BY DEF LogInv, Indexes
  <2>4. CASE m.turn = t
    BY <1>1, <2>2, <2>3, <2>4 DEF LogInv, HasWritten
  <2>5. CASE m.turn # t
    BY <1>1, <2>2, <2>5 DEF LogInv, HasWritten
  <2>6. QED
    BY <2>4, <2>5
<1>8. QED
  BY <1>1, <1>3, <1>4, <1>5, <1>6, <1>7 DEF LogInv, Places, HasWritten

\* A message that is inserted either repeats a number or has the next one.
LEMMA InsertNumbers ==
    ASSUME LogInv, NEW t \in TurnIds, NEW role \in Roles, Insert(t, role)
    PROVE  LET e == [turn |-> t, role |-> role, index |-> top[t] + 1] IN
           /\ e \in Messages /\ messages' \in [Sessions -> Seq(Messages)]
           /\ ToSet(messages'[SessionOf[t]]) = ToSet(messages[SessionOf[t]]) \cup {e}
           /\ \A s \in Sessions \ {SessionOf[t]} : messages'[s] = messages[s]
           /\ \A s \in Sessions :
                 /\ Greatest(s)' \in Nat /\ Greatest(s) <= Greatest(s)'
                 /\ Indexes(s)' = 1..Greatest(s)'
<1> DEFINE e == [turn |-> t, role |-> role, index |-> top[t] + 1]
<1> DEFINE s0 == SessionOf[t]
<1>1. s0 \in Sessions /\ top[t] \in Nat /\ Greatest(s0) \in Nat /\ top[t] <= Greatest(s0)
  BY DEF Sessions, LogInv
<1>2. e \in Messages
  BY <1>1 DEF Messages
<1>3. messages' = [messages EXCEPT ![s0] = Append(messages[s0], e)]
  BY DEF Insert
<1>4. messages[s0] \in Seq(Messages)
  BY <1>1 DEF LogInv
<1>5. Append(messages[s0], e) \in Seq(Messages)
      /\ ToSet(Append(messages[s0], e)) = ToSet(messages[s0]) \cup {e}
  BY <1>2, <1>4, AppendAdds
<1>6. messages'[s0] = Append(messages[s0], e) /\ \A s \in Sessions \ {s0} : messages'[s] = messages[s]
  BY <1>1, <1>3 DEF LogInv
<1>7. messages' \in [Sessions -> Seq(Messages)]
  BY <1>1, <1>3, <1>5 DEF LogInv
<1>8. e.index = top[t] + 1
  OBVIOUS
<1>9. Indexes(s0)' = Indexes(s0) \cup {top[t] + 1}
  BY <1>5, <1>6, <1>8 DEF Indexes
<1>10. PICK n \in Nat : n = Greatest(s0) /\ Indexes(s0) = 1..n
  BY <1>1 DEF LogInv
<1>11. \E k \in Nat : n <= k /\ Indexes(s0)' = 1..k
  <2>1. CASE top[t] < n
    BY <1>1, <1>9, <1>10, <2>1
  <2>2. CASE top[t] = n
    <3>1. Indexes(s0)' = 1..(n + 1)
      BY <1>9, <1>10, <2>2
    <3>2. QED
      BY <3>1
  <2>3. QED
    BY <1>1, <1>10, <2>1, <2>2
<1>12. PICK k \in Nat : n <= k /\ Indexes(s0)' = 1..k
  BY <1>11
<1>13. Greatest(s0)' = k
  <2>1. \A S : S = 1..k => (IF S = {} THEN 0 ELSE Max(S)) = k
    BY MaxOfRange
  <2>2. QED
    BY <1>12, <2>1 DEF Greatest
<1>14. \A s \in Sessions \ {s0} : Indexes(s)' = Indexes(s) /\ Greatest(s)' = Greatest(s)
  BY <1>6 DEF Indexes, Greatest
<1>15. \A s \in Sessions : Greatest(s)' \in Nat /\ Greatest(s) <= Greatest(s)' /\ Indexes(s)' = 1..Greatest(s)'
  <2>1. \A s \in Sessions \ {s0} : Greatest(s) \in Nat /\ Indexes(s) = 1..Greatest(s)
    BY DEF LogInv
  <2>2. QED
    BY <1>10, <1>12, <1>13, <1>14, <2>1
<1>16. QED
  BY <1>2, <1>5, <1>6, <1>7, <1>15

LEMMA InsertKeepsLog ==
    ASSUME LogInv, NEW t \in TurnIds, NEW role \in Roles, Insert(t, role) PROVE LogInv'
<1> DEFINE e == [turn |-> t, role |-> role, index |-> top[t] + 1]
<1>1. /\ e \in Messages /\ messages' \in [Sessions -> Seq(Messages)]
      /\ ToSet(messages'[SessionOf[t]]) = ToSet(messages[SessionOf[t]]) \cup {e}
      /\ \A s \in Sessions \ {SessionOf[t]} : messages'[s] = messages[s]
      /\ \A s \in Sessions :
            /\ Greatest(s)' \in Nat /\ Greatest(s) <= Greatest(s)'
            /\ Indexes(s)' = 1..Greatest(s)'
  BY InsertNumbers
<1>2. /\ e.turn = t /\ e.role = role /\ e.index = top[t] + 1 /\ top[t] \in Nat
      /\ SessionOf[t] \in Sessions
  BY DEF LogInv, Sessions
<1>3. /\ top' = top
      /\ \/ role = "buyer" /\ place[t] = "writing" /\ place' = [place EXCEPT ![t] = "renumbering"]
         \/ role = "agent" /\ place[t] = "rewriting" /\ place' = [place EXCEPT ![t] = "tracing"]
  BY Stages DEF Insert, MoveTo, Roles
<1>4. place' \in [TurnIds -> Places] /\ top' \in [TurnIds -> Nat]
  BY <1>3 DEF LogInv, Places, Waiting, Writing
<1>5. ASSUME NEW s \in Sessions, NEW m \in ToSet(messages'[s])
      PROVE  \/ m \in ToSet(messages[s])
             \/ m = e /\ s = SessionOf[t]
  BY <1>1
<1>6. ASSUME NEW s \in Sessions, NEW m \in ToSet(messages[s])
      PROVE  /\ m.turn \in TurnIds /\ m.role \in {"buyer", "agent"} /\ m.index \in Nat
             /\ SessionOf[m.turn] = s /\ place[m.turn] \in HasWritten
             /\ m.turn = t => role = "agent" /\ m.role = "buyer" /\ m.index <= top[t]
  <2>1. m \in Messages
    BY SeqOfItsOwn DEF LogInv
  <2>2. m.turn \in TurnIds /\ m.role \in {"buyer", "agent"} /\ m.index \in Nat
    BY <2>1 DEF Messages, Roles
  <2>3. SessionOf[m.turn] = s /\ place[m.turn] \in HasWritten
    BY <2>2 DEF LogInv, HasWritten
  <2>4. m.turn = t => role = "agent" /\ m.role = "buyer" /\ m.index <= top[t]
    BY <1>3, <2>2, <2>3 DEF LogInv, HasWritten
  <2>5. QED
    BY <2>2, <2>3, <2>4
<1>7. ASSUME NEW s \in Sessions, NEW m \in ToSet(messages'[s])
      PROVE  /\ SessionOf[m.turn] = s
             /\ m.role = "buyer" => place'[m.turn] \in HasWritten
             /\ m.role = "agent" => place'[m.turn] \in {"tracing", "over"}
             /\ place'[m.turn] = "rewriting" => m.index <= top[m.turn]
  <2>1. CASE m = e /\ s = SessionOf[t]
    BY <1>2, <1>3, <2>1 DEF LogInv, HasWritten, Places
  <2>2. CASE m \in ToSet(messages[s]) /\ m.turn = t
    BY <1>3, <1>6, <2>2 DEF LogInv, HasWritten
  <2>3. CASE m \in ToSet(messages[s]) /\ m.turn # t
    BY <1>3, <1>6, <2>3 DEF LogInv, HasWritten
  <2>4. QED
    BY <1>5, <2>1, <2>2, <2>3
<1>8. LogReadable'
  <2>1. ASSUME NEW s \in Sessions, NEW m \in ToSet(messages'[s]), NEW n \in ToSet(messages'[s]),
               m.turn = n.turn, m.role = "buyer", n.role = "agent"
        PROVE  m.index < n.index
    <3>1. CASE m \in ToSet(messages[s]) /\ n \in ToSet(messages[s])
      BY <2>1, <3>1 DEF LogInv, LogReadable
    <3>2. CASE m \in ToSet(messages[s]) /\ n = e
      BY <1>2, <1>6, <2>1, <3>2
    <3>3. CASE n \in ToSet(messages[s]) /\ m = e
      BY <1>2, <1>6, <2>1, <3>3
    <3>4. CASE m = e /\ n = e
      BY <2>1, <3>4
    <3>5. QED
      BY <1>5, <3>1, <3>2, <3>3, <3>4
  <2>2. \A s \in Sessions : Indexes(s)' = 1..Greatest(s)'
    BY <1>1
  <2>3. QED
    BY <2>1, <2>2 DEF LogReadable
<1>9. \A u \in TurnIds : top'[u] <= Greatest(SessionOf[u])'
  <2>1. \A u \in TurnIds : /\ SessionOf[u] \in Sessions /\ top[u] \in Nat
                           /\ top[u] <= Greatest(SessionOf[u]) /\ Greatest(SessionOf[u]) \in Nat
    BY DEF LogInv, Sessions
  <2>2. QED
    BY <1>1, <1>3, <2>1
<1>10. \A s \in Sessions : Indexes(s)' = 1..Greatest(s)' /\ Greatest(s)' \in Nat
  BY <1>1
<1>11. QED
  BY <1>1, <1>3, <1>4, <1>7, <1>8, <1>9, <1>10 DEF LogInv, Places, HasWritten

LEMMA LogNextInv ==
    ASSUME LogInv, [RecordNext]_recordVars PROVE LogInv'
<1> USE DEF Places
<1>1. CASE UNCHANGED recordVars
  BY <1>1 DEF recordVars, logVars, LogInv, LogReadable, Indexes, Greatest
<1>2. ASSUME NEW t \in TurnIds, UNCHANGED <<place, messages, top>> PROVE LogInv'
  BY <1>2 DEF LogInv, LogReadable, Indexes, Greatest
<1>3. ASSUME NEW t \in TurnIds, place[t] \notin HasWritten, UNCHANGED <<messages, top>>,
             \E x \in Places : place' = [place EXCEPT ![t] = x]
      PROVE  LogInv'
  BY <1>3, MoveKeepsLog
<1>4. ASSUME NEW t \in TurnIds, UNCHANGED <<messages, top>>, place' = [place EXCEPT ![t] = "over"]
      PROVE  LogInv'
  BY <1>4, MoveKeepsLog
<1>5. ASSUME NEW t \in TurnIds, BeginTurn(t) \/ ScopeLookup(t) \/ Hit(t) \/ Miss(t) \/ Hint(t) \/ AskModel(t)
      PROVE  LogInv'
  <2>1. place[t] \notin HasWritten /\ UNCHANGED <<messages, top>>
    BY <1>5 DEF BeginTurn, ScopeLookup, Hit, Miss, Hint, AskModel, MoveTo, logVars, HasWritten
  <2>2. \E x \in Places : place' = [place EXCEPT ![t] = x]
    BY <1>5 DEF BeginTurn, ScopeLookup, Hit, Miss, Hint, AskModel, MoveTo, Waiting, Writing
  <2>3. QED
    BY <1>3, <2>1, <2>2
<1>6. ASSUME NEW t \in TurnIds, \/ \E p \in Preferences : RememberPreference(t, p)
                                \/ \E w \in Statements : ForgetPreference(t, w)
      PROVE  LogInv'
  BY <1>2, <1>6 DEF RememberPreference, ForgetPreference, Change, logVars
<1>7. ASSUME NEW t \in TurnIds, \/ \E o \in Outcomes : Reply(t, o)
                                \/ ScopeRemember(t) \/ LoadBucket(t) \/ Store(t) \/ NotStored(t)
      PROVE  LogInv'
  <2>1. place[t] \notin HasWritten /\ UNCHANGED <<messages, top>>
    BY <1>7 DEF Reply, ScopeRemember, LoadBucket, Store, NotStored, MoveTo, logVars, HasWritten
  <2>2. \E x \in Places : place' = [place EXCEPT ![t] = x]
    BY <1>7 DEF Reply, ScopeRemember, LoadBucket, Store, NotStored, MoveTo, Waiting, Writing
  <2>3. QED
    BY <1>3, <2>1, <2>2
<1>8. ASSUME NEW t \in TurnIds, Touch(t) \/ OpenSession(t) PROVE LogInv'
  <2>1. place[t] \notin HasWritten /\ UNCHANGED <<messages, top>>
    BY <1>8 DEF Touch, OpenSession, MoveTo, HasWritten
  <2>2. \E x \in Places : place' = [place EXCEPT ![t] = x]
    BY <1>8 DEF Touch, OpenSession, MoveTo, Waiting, Writing
  <2>3. QED
    BY <1>3, <2>1, <2>2
<1>9. ASSUME NEW t \in TurnIds, Trace(t) \/ RecordFails(t) PROVE LogInv'
  BY <1>4, <1>9 DEF Trace, RecordFails, MoveTo, logVars
<1>10. ASSUME NEW t \in TurnIds, \E role \in Roles : Number(t, role) \/ Insert(t, role)
       PROVE  LogInv'
  BY <1>10, NumberKeepsLog, InsertKeepsLog
<1>11. QED
  BY <1>1, <1>5, <1>6, <1>7, <1>8, <1>9, <1>10 DEF RecordNext, Recording

\* The messages of every session are numbered without a gap, and a question
\* before its answer, for any number of turns that overlap or break off.
THEOREM LogInvariant == RecordSpec => []LogInv
BY LogInitInv, LogNextInv, PTL DEF RecordSpec

\* The log reads back in order: append_turn() of overlapping turns may number
\* two messages alike, but leaves no gap and puts no answer before its question.
THEOREM LogReadsBack == RecordSpec => []LogReadable
<1>1. LogInv => LogReadable
  BY DEF LogInv
<1>2. QED
  BY <1>1, LogInvariant, PTL

-----------------------------------------------------------------------------
(* What is recorded. *)

LEMMA KeptInitInv == RecordInit => KeptInv
<1> SUFFICES ASSUME RecordInit PROVE KeptInv
  OBVIOUS
<1>1. slips \in Nat /\ seen \in [TurnIds -> BOOLEAN] /\ opened = {}
      /\ \A t \in TurnIds : place[t] = "idle"
  BY DEF RecordInit
<1>2. QED
  BY <1>1 DEF KeptInv

\* Nothing that was written is lost.
LEMMA WrittenStays ==
    ASSUME LogInv, [RecordNext]_recordVars
    PROVE  /\ \A s \in Sessions : ToSet(messages[s]) \subseteq ToSet(messages'[s])
           /\ traced \subseteq traced' /\ opened \subseteq opened'
<1>1. CASE UNCHANGED <<messages, traced, opened>>
  BY <1>1
<1>2. ASSUME NEW t \in TurnIds, NEW role \in Roles, Insert(t, role)
      PROVE  /\ \A s \in Sessions : ToSet(messages[s]) \subseteq ToSet(messages'[s])
             /\ UNCHANGED <<traced, opened>>
  BY <1>2, InsertNumbers DEF Insert
<1>3. ASSUME NEW t \in TurnIds, OpenSession(t) \/ Trace(t)
      PROVE  UNCHANGED messages /\ traced \subseteq traced' /\ opened \subseteq opened'
  BY <1>3 DEF OpenSession, Trace
<1>4. ASSUME NEW t \in TurnIds, Touch(t) \/ RecordFails(t) \/ \E role \in Roles : Number(t, role)
      PROVE  UNCHANGED <<messages, traced, opened>>
  BY <1>4 DEF Touch, RecordFails, Number, logVars
<1>5. ASSUME NEW t \in TurnIds,
             \/ BeginTurn(t) \/ ScopeLookup(t) \/ Hit(t) \/ Miss(t) \/ Hint(t) \/ AskModel(t)
             \/ \E p \in Preferences : RememberPreference(t, p)
             \/ \E w \in Statements : ForgetPreference(t, w)
             \/ \E o \in Outcomes : Reply(t, o)
             \/ ScopeRemember(t) \/ LoadBucket(t) \/ Store(t) \/ NotStored(t)
      PROVE  UNCHANGED <<messages, traced, opened>>
  BY <1>5 DEF BeginTurn, ScopeLookup, Hit, Miss, Hint, AskModel, RememberPreference, ForgetPreference,
              Change, Reply, ScopeRemember, LoadBucket, Store, NotStored, logVars
<1>6. CASE UNCHANGED recordVars
  BY <1>1, <1>6 DEF recordVars, logVars
<1>7. QED
  BY <1>1, <1>2, <1>3, <1>4, <1>5, <1>6 DEF RecordNext, Recording

\* What the invariant says of one turn, and of the turn that carries a session.
Passed(t) ==
    /\ place[t] \in {"renumbering", "rewriting", "tracing"} => Written(t, "buyer")
    /\ place[t] = "tracing" => Written(t, "agent")
    /\ place[t] = "over" => Recorded(t) \/ (~seen[t] /\ SessionOf[t] \in opened)

Carrying == {"numbering", "writing", "renumbering", "rewriting", "tracing"}
Carries(t) == place[t] \in Carrying \/ Recorded(t)

LEMMA KeptSays ==
    KeptInv <=> /\ slips \in Nat /\ seen \in [TurnIds -> BOOLEAN]
                /\ slips = 0 =>
                     /\ \A t \in TurnIds : Passed(t)
                     /\ \A s \in opened : \E t \in TurnIds : SessionOf[t] = s /\ Carries(t)
BY DEF KeptInv, Passed, Carries, Carrying

\* A step of one turn keeps the invariant if it keeps what the turn has passed
\* and a session it opens or carries.
LEMMA TurnKeeps ==
    ASSUME LogInv, KeptInv, [RecordNext]_recordVars, NEW t \in TurnIds, NEW x,
           place' = [place EXCEPT ![t] = x], seen' \in [TurnIds -> BOOLEAN],
           \A u \in TurnIds \ {t} : seen'[u] = seen[u],
           slips = 0, slips' = 0, Passed(t)', Carries(t) => Carries(t)',
           \A s \in opened' : s \in opened \/ (s = SessionOf[t] /\ Carries(t)')
    PROVE  KeptInv'
<1>1. \A u \in TurnIds : SessionOf[u] \in Sessions
  BY DEF Sessions
<1>2. /\ \A s \in Sessions : ToSet(messages[s]) \subseteq ToSet(messages'[s])
      /\ traced \subseteq traced' /\ opened \subseteq opened'
  BY WrittenStays
<1>3. \A u \in TurnIds, r \in Roles : Written(u, r) => Written(u, r)'
  BY <1>1, <1>2 DEF Written
<1>4. \A u \in TurnIds : Recorded(u) => Recorded(u)'
  BY <1>1, <1>2 DEF Recorded
<1>5. \A u \in TurnIds \ {t} : place'[u] = place[u]
  BY DEF LogInv
<1>6. \A u \in TurnIds \ {t} : Passed(u)'
  <2>1. \A u \in TurnIds : Passed(u)
    BY KeptSays
  <2>2. QED
    BY <1>2, <1>3, <1>4, <1>5, <2>1 DEF Passed, Roles
<1>7. \A u \in TurnIds : Carries(u) => Carries(u)'
  BY <1>4, <1>5 DEF Carries
<1>8. \A s \in opened' : \E u \in TurnIds : SessionOf[u] = s /\ Carries(u)'
  BY <1>7, KeptSays
<1>9. QED
  <2>1. \A u \in TurnIds : Passed(u)'
    BY <1>6
  <2>2. KeptInv' <=> /\ slips' \in Nat /\ seen' \in [TurnIds -> BOOLEAN]
                     /\ slips' = 0 =>
                          /\ \A u \in TurnIds : Passed(u)'
                          /\ \A s \in opened' : \E u \in TurnIds : SessionOf[u] = s /\ Carries(u)'
    BY DEF KeptInv, Passed, Carries, Carrying
  <2>3. QED
    BY <1>8, <2>1, <2>2

\* A turn that is not yet writing its record, or does not leave it.
LEMMA EarlyKeeps ==
    ASSUME LogInv, KeptInv, [RecordNext]_recordVars, NEW t \in TurnIds, NEW x,
           place' = [place EXCEPT ![t] = x], seen' \in [TurnIds -> BOOLEAN],
           \A u \in TurnIds \ {t} : seen'[u] = seen[u],
           slips = 0, slips' = 0, UNCHANGED <<opened, messages, traced>>,
           x \notin {"renumbering", "rewriting", "tracing", "over"},
           place[t] \in Carrying => x \in Carrying
    PROVE  KeptInv'
<1>1. place'[t] = x
  BY DEF LogInv
<1>2. Passed(t)'
  BY <1>1 DEF Passed
<1>3. Carries(t) => Carries(t)'
  BY <1>1 DEF Carries, Recorded
<1>4. QED
  BY <1>2, <1>3, TurnKeeps

LEMMA NoMishap ==
    ASSUME KeptInv, [RecordNext]_recordVars
    PROVE  slips' \in Nat /\ (slips' = 0 => slips = 0)
<1>1. slips \in Nat
  BY DEF KeptInv
<1>2. UNCHANGED slips \/ slips' = slips + 1
  <2>1. ASSUME NEW t \in TurnIds,
               \/ BeginTurn(t) \/ ScopeLookup(t) \/ Hit(t) \/ Miss(t) \/ Hint(t) \/ AskModel(t)
               \/ \E p \in Preferences : RememberPreference(t, p)
               \/ \E w \in Statements : ForgetPreference(t, w)
               \/ \E o \in Outcomes : Reply(t, o)
               \/ ScopeRemember(t) \/ LoadBucket(t) \/ Store(t) \/ NotStored(t)
        PROVE  UNCHANGED slips \/ slips' = slips + 1
    BY <2>1 DEF BeginTurn, ScopeLookup, Hit, Miss, Hint, AskModel, RememberPreference, ForgetPreference,
                Change, Reply, ScopeRemember, LoadBucket, Store, NotStored, Slip, Fine
  <2>2. ASSUME NEW t \in TurnIds, Recording(t)
        PROVE  UNCHANGED slips \/ slips' = slips + 1
    BY <2>2 DEF Recording, Touch, OpenSession, Trace, RecordFails, Number, Insert, Slip, Fine
  <2>3. CASE UNCHANGED recordVars
    BY <2>3 DEF recordVars
  <2>4. QED
    BY <2>1, <2>2, <2>3 DEF RecordNext
<1>3. QED
  BY <1>1, <1>2

\* The steps that write the record.
LEMMA RecordKeeps ==
    ASSUME LogInv, LogInv', KeptInv, [RecordNext]_recordVars, slips = 0, slips' = 0,
           NEW t \in TurnIds, Recording(t)
    PROVE  KeptInv'
<1>1. seen \in [TurnIds -> BOOLEAN] /\ place \in [TurnIds -> Places] /\ SessionOf[t] \in Sessions
  BY DEF KeptInv, LogInv, Places, Sessions
<1>2. CASE Touch(t)
  <2>1. /\ place' = [place EXCEPT ![t] = "opening"] /\ UNCHANGED <<opened, messages, traced>>
        /\ seen' = [seen EXCEPT ![t] = SessionOf[t] \in opened] /\ place[t] = "recording"
    BY <1>2 DEF Touch, MoveTo, Slip, Fine
  <2>2. seen' \in [TurnIds -> BOOLEAN] /\ \A u \in TurnIds \ {t} : seen'[u] = seen[u]
    BY <1>1, <2>1
  <2>3. QED
    BY <1>1, <2>1, <2>2, EarlyKeeps DEF Carrying
<1>3. CASE OpenSession(t)
  <2>1. /\ UNCHANGED <<messages, traced, seen>> /\ place[t] = "opening"
        /\ opened' = opened \cup {SessionOf[t]}
        /\ \/ place' = [place EXCEPT ![t] = "numbering"]
           \/ place' = [place EXCEPT ![t] = "over"] /\ ~seen[t] /\ SessionOf[t] \in opened
    BY <1>3 DEF OpenSession, MoveTo
  <2>2. CASE place' = [place EXCEPT ![t] = "numbering"]
    <3>1. place'[t] = "numbering"
      BY <1>1, <2>2
    <3>2. Passed(t)' /\ Carries(t)'
      BY <3>1 DEF Passed, Carries, Carrying
    <3>3. QED
      BY <1>1, <2>1, <2>2, <3>2, TurnKeeps
  <2>3. CASE place' = [place EXCEPT ![t] = "over"] /\ ~seen[t] /\ SessionOf[t] \in opened
    <3>1. place'[t] = "over" /\ opened' = opened /\ ~seen'[t]
      BY <1>1, <2>1, <2>3
    <3>2. Passed(t)'
      BY <3>1, <2>3 DEF Passed
    <3>3. Carries(t) => Carries(t)'
      BY <2>1 DEF Carries, Carrying, Recorded
    <3>4. QED
      BY <1>1, <2>1, <2>3, <3>1, <3>2, <3>3, TurnKeeps
  <2>4. QED
    BY <2>1, <2>2, <2>3
<1>4. CASE RecordFails(t)
  <2>1. slips' = 1
    BY <1>4 DEF RecordFails, Slip
  <2>2. QED
    BY <2>1
<1>5. CASE Trace(t)
  <2>1. /\ place[t] = "tracing" /\ place' = [place EXCEPT ![t] = "over"]
        /\ traced' = traced \cup {t} /\ UNCHANGED <<opened, messages, seen>>
    BY <1>5 DEF Trace, MoveTo
  <2>2. Written(t, "buyer") /\ Written(t, "agent")
    BY <2>1, KeptSays DEF Passed
  <2>3. Recorded(t)'
    BY <2>1, <2>2 DEF Recorded, Written, Roles
  <2>4. Passed(t)' /\ Carries(t)'
    BY <1>1, <2>1, <2>3 DEF Passed, Carries
  <2>5. QED
    BY <1>1, <2>1, <2>4, TurnKeeps
<1>6. ASSUME NEW role \in Roles, Number(t, role) PROVE KeptInv'
  <2>1. /\ UNCHANGED <<opened, messages, traced, seen>>
        /\ \/ place[t] = "numbering" /\ place' = [place EXCEPT ![t] = "writing"]
           \/ place[t] = "renumbering" /\ place' = [place EXCEPT ![t] = "rewriting"]
    BY <1>6, Stages DEF Number, MoveTo, Roles
  <2>2. CASE place' = [place EXCEPT ![t] = "writing"]
    BY <1>1, <2>1, <2>2, EarlyKeeps DEF Carrying
  <2>3. CASE place[t] = "renumbering" /\ place' = [place EXCEPT ![t] = "rewriting"]
    <3>1. place'[t] = "rewriting" /\ Written(t, "buyer")
      BY <1>1, <2>3, KeptSays DEF Passed
    <3>2. Passed(t)' /\ Carries(t)'
      BY <2>1, <3>1 DEF Passed, Carries, Carrying, Written
    <3>3. QED
      BY <1>1, <2>1, <2>3, <3>2, TurnKeeps
  <2>4. QED
    BY <2>1, <2>2, <2>3
<1>7. ASSUME NEW role \in Roles, Insert(t, role) PROVE KeptInv'
  <2> DEFINE e == [turn |-> t, role |-> role, index |-> top[t] + 1]
  <2>1. /\ UNCHANGED <<opened, traced, seen>>
        /\ \/ role = "buyer" /\ place[t] = "writing" /\ place' = [place EXCEPT ![t] = "renumbering"]
           \/ role = "agent" /\ place[t] = "rewriting" /\ place' = [place EXCEPT ![t] = "tracing"]
    BY <1>7, Stages DEF Insert, MoveTo, Roles
  <2>2. ToSet(messages'[SessionOf[t]]) = ToSet(messages[SessionOf[t]]) \cup {e}
    BY <1>7, InsertNumbers
  <2>3. e.turn = t /\ e.role = role
    OBVIOUS
  <2>4. Written(t, role)'
    BY <2>2, <2>3 DEF Written
  <2>5. place'[t] = "tracing" => Written(t, "buyer")'
    <3>1. place'[t] = "tracing" => place[t] = "rewriting"
      BY <1>1, <2>1
    <3>2. place[t] = "rewriting" => Written(t, "buyer")
      BY KeptSays DEF Passed
    <3>3. Written(t, "buyer") => Written(t, "buyer")'
      BY <2>2 DEF Written
    <3>4. QED
      BY <3>1, <3>2, <3>3
  <2>6. Passed(t)' /\ Carries(t)'
    BY <1>1, <2>1, <2>4, <2>5 DEF Passed, Carries, Carrying
  <2>7. QED
    BY <1>1, <2>1, <2>6, TurnKeeps
<1>8. QED
  BY <1>2, <1>3, <1>4, <1>5, <1>6, <1>7 DEF Recording

LEMMA KeptNextInv ==
    ASSUME LogInv, LogInv', KeptInv, [RecordNext]_recordVars PROVE KeptInv'
<1>1. slips' \in Nat /\ (slips' = 0 => slips = 0)
  BY NoMishap
<1>2. seen \in [TurnIds -> BOOLEAN]
  BY DEF KeptInv
<1>3. seen' \in [TurnIds -> BOOLEAN]
  <2>1. ASSUME NEW t \in TurnIds,
               \/ BeginTurn(t) \/ ScopeLookup(t) \/ Hit(t) \/ Miss(t) \/ Hint(t) \/ AskModel(t)
               \/ \E p \in Preferences : RememberPreference(t, p)
               \/ \E w \in Statements : ForgetPreference(t, w)
               \/ \E o \in Outcomes : Reply(t, o)
               \/ ScopeRemember(t) \/ LoadBucket(t) \/ Store(t) \/ NotStored(t)
        PROVE  UNCHANGED seen
    BY <2>1 DEF BeginTurn, ScopeLookup, Hit, Miss, Hint, AskModel, RememberPreference, ForgetPreference,
                Change, Reply, ScopeRemember, LoadBucket, Store, NotStored, logVars
  <2>2. ASSUME NEW t \in TurnIds, OpenSession(t) \/ Trace(t) \/ RecordFails(t) \/
                                \E role \in Roles : Number(t, role) \/ Insert(t, role)
        PROVE  UNCHANGED seen
    BY <2>2 DEF OpenSession, Trace, RecordFails, Number, Insert, logVars
  <2>3. ASSUME NEW t \in TurnIds, Touch(t) PROVE seen' \in [TurnIds -> BOOLEAN]
    <3>1. CASE UNCHANGED seen
      BY <1>2, <3>1
    <3>2. CASE seen' = [seen EXCEPT ![t] = SessionOf[t] \in opened]
      BY <1>2, <3>2
    <3>3. QED
      BY <2>3, <3>1, <3>2 DEF Touch
  <2>4. CASE UNCHANGED recordVars
    BY <1>2, <2>4 DEF recordVars, logVars
  <2>5. QED
    BY <1>2, <2>1, <2>2, <2>3, <2>4 DEF RecordNext, Recording
<1>4. CASE slips' # 0
  BY <1>1, <1>3, <1>4 DEF KeptInv
<1>5. CASE slips' = 0
  <2> USE <1>1, <1>2, <1>5
  <2>1. CASE UNCHANGED <<place, opened, messages, traced, seen, slips>>
    BY <2>1 DEF KeptInv, Written, Recorded
  <2>2. ASSUME NEW t \in TurnIds, Recording(t) PROVE KeptInv'
    BY <2>2, RecordKeeps
  <2>3. ASSUME NEW t \in TurnIds, UNCHANGED <<opened, messages, traced, seen>>,
               place[t] \notin Carrying,
               \E x \in Waiting \cup {"recording"} : place' = [place EXCEPT ![t] = x]
        PROVE  KeptInv'
    BY <2>3, EarlyKeeps DEF Waiting
  <2>4. ASSUME NEW t \in TurnIds,
               BeginTurn(t) \/ ScopeLookup(t) \/ Hit(t) \/ Miss(t) \/ Hint(t) \/ AskModel(t)
        PROVE  KeptInv'
    <3>1. UNCHANGED <<opened, messages, traced, seen>> /\ place[t] \notin Carrying
      BY <2>4 DEF BeginTurn, ScopeLookup, Hit, Miss, Hint, AskModel, MoveTo, logVars, Carrying
    <3>2. \E x \in Waiting \cup {"recording"} : place' = [place EXCEPT ![t] = x]
      BY <2>4 DEF BeginTurn, ScopeLookup, Hit, Miss, Hint, AskModel, MoveTo, Waiting
    <3>3. QED
      BY <2>3, <3>1, <3>2
  <2>5. ASSUME NEW t \in TurnIds, \/ \E o \in Outcomes : Reply(t, o)
                                  \/ ScopeRemember(t) \/ LoadBucket(t) \/ Store(t) \/ NotStored(t)
        PROVE  KeptInv'
    <3>1. UNCHANGED <<opened, messages, traced, seen>> /\ place[t] \notin Carrying
      BY <2>5 DEF Reply, ScopeRemember, LoadBucket, Store, NotStored, MoveTo, logVars, Carrying
    <3>2. \E x \in Waiting \cup {"recording"} : place' = [place EXCEPT ![t] = x]
      BY <2>5 DEF Reply, ScopeRemember, LoadBucket, Store, NotStored, MoveTo, Waiting
    <3>3. QED
      BY <2>3, <3>1, <3>2
  <2>6. ASSUME NEW t \in TurnIds, \/ \E p \in Preferences : RememberPreference(t, p)
                                  \/ \E w \in Statements : ForgetPreference(t, w)
        PROVE  KeptInv'
    BY <2>1, <2>6 DEF RememberPreference, ForgetPreference, Change, logVars, Fine
  <2>7. CASE UNCHANGED recordVars
    BY <2>1, <2>7 DEF recordVars, logVars
  <2>8. QED
    BY <2>2, <2>4, <2>5, <2>6, <2>7 DEF RecordNext
<1>6. QED
  BY <1>4, <1>5

\* A turn that passed a step without a mishap has written its part, and a
\* session whose row is there has a turn that writes its record.
THEOREM RecordInvariant == RecordSpec => [](LogInv /\ KeptInv)
<1>1. RecordInit => LogInv /\ KeptInv
  BY LogInitInv, KeptInitInv
<1>2. LogInv /\ KeptInv /\ [RecordNext]_recordVars => (LogInv /\ KeptInv)'
  BY LogNextInv, KeptNextInv
<1>3. QED
  BY <1>1, <1>2, PTL DEF RecordSpec

\* Without a failing call only a turn that raced for the first row of its
\* session loses its record (_record_conversation()), and never all of them,
\* for any number of turns and sessions.
THEOREM OnlyRacersLoseTheirRecord == RecordSpec => []RecordKept
<1>1. LogInv /\ KeptInv => RecordKept
  <2> SUFFICES ASSUME KeptInv, slips = 0
               PROVE  /\ \A t \in TurnIds : place[t] = "over" /\ seen[t] => Recorded(t)
                      /\ \A s \in Sessions :
                            (\A t \in TurnIds : SessionOf[t] = s => place[t] = "over")
                            => \E t \in TurnIds : SessionOf[t] = s /\ Recorded(t)
    BY DEF RecordKept
  <2>1. \A t \in TurnIds : Passed(t)
    BY KeptSays
  <2>2. \A t \in TurnIds : place[t] = "over" /\ seen[t] => Recorded(t)
    BY <2>1 DEF Passed
  <2>3. ASSUME NEW s \in Sessions, \A t \in TurnIds : SessionOf[t] = s => place[t] = "over"
        PROVE  \E t \in TurnIds : SessionOf[t] = s /\ Recorded(t)
    <3>1. PICK t \in TurnIds : SessionOf[t] = s
      BY DEF Sessions
    <3>2. Recorded(t) \/ s \in opened
      BY <2>1, <2>3, <3>1 DEF Passed
    <3>3. s \in opened => \E u \in TurnIds : SessionOf[u] = s /\ Carries(u)
      BY KeptSays
    <3>4. QED
      BY <2>3, <3>1, <3>2, <3>3 DEF Carries, Carrying
  <2>4. QED
    BY <2>2, <2>3
<1>2. QED
  BY <1>1, RecordInvariant, PTL

-----------------------------------------------------------------------------
(* The cache. *)

\* What the invariant says of one turn.
Ready(t) ==
    /\ place[t] \notin {"storing", "recording"} => loaded[t] = <<>>
    /\ place[t] = "storing" => Own(loaded[t], BuyerOf(t), scope[t])
    /\ place[t] # "recording" => served[t] = Absent
    /\ served[t] # Absent =>
          served[t].query = QueryOf[t] /\ Fits(served[t], BuyerOf(t), scope[t])
    /\ place[t] \in {"rescoping", "loading", "storing"} => outcome[t] = "plain"
    /\ place[t] \in {"loading", "storing"} => Cacheable(t)
    /\ place[t] \in {"asking", "replying", "rescoping"} /\ t \notin unsteady =>
          under[t] = prefs[BuyerOf(t)]
    /\ place[t] \in {"loading", "storing"} /\ t \notin unsteady => under[t] = scope[t]

\* What its variables are.
CacheTypes ==
    /\ owner \in [Sessions -> Buyers]
    /\ place \in [TurnIds -> Places]
    /\ outcome \in [TurnIds -> Outcomes \cup {Absent}] /\ late \in [TurnIds -> BOOLEAN]
    /\ DOMAIN prefs = Buyers /\ DOMAIN under = TurnIds /\ DOMAIN scope = TurnIds
    /\ DOMAIN loaded = TurnIds /\ DOMAIN served = TurnIds

Stocked == \A k \in DOMAIN bucket : Own(bucket[k], k.buyer, k.scope)

LEMMA CacheSays == CacheInv <=> CacheTypes /\ Stocked /\ \A t \in TurnIds : Ready(t)
BY DEF CacheInv, CacheTypes, Stocked, Ready, Places

\* What a turn finds in its bucket.
LEMMA CachedIsOwn ==
    ASSUME CacheInv, NEW t \in TurnIds PROVE Own(Cached(t), BuyerOf(t), scope[t])
<1>1. CASE Key(t) \in DOMAIN bucket
  <2>1. Key(t).buyer = BuyerOf(t) /\ Key(t).scope = scope[t]
    BY DEF Key
  <2>2. QED
    BY <1>1, <2>1 DEF Cached, CacheInv
<1>2. CASE Key(t) \notin DOMAIN bucket
  <2>1. Cached(t) = <<>> /\ ToSet(<<>>) = {}
    BY <1>2 DEF Cached, ToSet
  <2>2. <<>> \in Seq({})
    OBVIOUS
  <2>3. QED
    BY <2>1, <2>2 DEF Own, IsSeq
<1>3. QED
  BY <1>1, <1>2

LEMMA CacheInitInv == RecordInit => CacheInv
<1> SUFFICES ASSUME RecordInit PROVE CacheInv
  OBVIOUS
<1>1. CacheTypes
  BY DEF RecordInit, CacheTypes, Places
<1>2. Stocked
  BY DEF RecordInit, Stocked
<1>3. \A t \in TurnIds : Ready(t)
  BY DEF RecordInit, Ready
<1>4. QED
  BY <1>1, <1>2, <1>3, CacheSays

\* A turn that stands still stays ready unless its preferences change.
LEMMA OthersReady ==
    ASSUME NEW u \in TurnIds, Ready(u), owner' = owner, place'[u] = place[u], late'[u] = late[u],
           loaded'[u] = loaded[u], served'[u] = served[u], scope'[u] = scope[u],
           under'[u] = under[u], outcome'[u] = outcome[u],
           u \in unsteady => u \in unsteady',
           \/ prefs'[BuyerOf(u)] = prefs[BuyerOf(u)]
           \/ place[u] \notin {"asking", "replying", "rescoping"}
           \/ u \in unsteady'
    PROVE  Ready(u)'
<1>1. BuyerOf(u)' = BuyerOf(u)
  BY DEF BuyerOf
<1>2. Cacheable(u)' = Cacheable(u)
  BY DEF Cacheable
<1>3. QED
  BY <1>1, <1>2 DEF Ready

LEMMA StepKeepsCache ==
    ASSUME CacheInv, NEW t \in TurnIds, owner' = owner, CacheTypes', Stocked', Ready(t)',
           \A u \in TurnIds \ {t} :
              /\ place'[u] = place[u] /\ late'[u] = late[u] /\ loaded'[u] = loaded[u]
              /\ served'[u] = served[u] /\ scope'[u] = scope[u] /\ under'[u] = under[u]
              /\ outcome'[u] = outcome[u]
              /\ u \in unsteady => u \in unsteady'
              /\ \/ prefs'[BuyerOf(u)] = prefs[BuyerOf(u)]
                 \/ place[u] \notin {"asking", "replying", "rescoping"}
                 \/ u \in unsteady'
    PROVE  CacheInv'
<1>1. \A u \in TurnIds : Ready(u)
  BY CacheSays
<1>2. \A u \in TurnIds \ {t} : Ready(u)'
  BY <1>1, OthersReady
<1>3. \A u \in TurnIds : Ready(u)'
  BY <1>2
<1>4. QED
  BY <1>3 DEF CacheInv, CacheTypes, Stocked, Ready, Places

LEMMA BeginKeepsCache == ASSUME CacheInv, NEW t \in TurnIds, BeginTurn(t) PROVE CacheInv'
<1>1. CacheTypes /\ Stocked /\ Ready(t)
  BY CacheSays
<1>2. /\ place[t] = "idle" /\ place' = [place EXCEPT ![t] = "scoping"]
      /\ late' = [late EXCEPT ![t] = SessionOf[t] \in begun]
      /\ UNCHANGED <<owner, bucket, loaded, served, outcome, prefs, under, unsteady, scope>>
  BY DEF BeginTurn, MoveTo, cacheVars, prefVars
<1>3. CacheTypes'
  BY <1>1, <1>2 DEF CacheTypes, Places, Waiting
<1>4. Ready(t)'
  BY <1>1, <1>2 DEF Ready, CacheTypes, BuyerOf
<1>5. Stocked'
  BY <1>1, <1>2 DEF Stocked
<1>6. QED
  BY <1>1, <1>2, <1>3, <1>4, <1>5, StepKeepsCache DEF CacheTypes

LEMMA ScopeLookupKeepsCache == ASSUME CacheInv, NEW t \in TurnIds, ScopeLookup(t) PROVE CacheInv'
<1>1. CacheTypes /\ Stocked /\ Ready(t)
  BY CacheSays
<1>2. /\ place[t] = "scoping" /\ \E x \in {"reading", "hinting"} : place' = [place EXCEPT ![t] = x]
      /\ scope' = scope \/ scope' = [scope EXCEPT ![t] = prefs[BuyerOf(t)]]
      /\ UNCHANGED <<owner, bucket, loaded, served, outcome, late, prefs, under, unsteady>>
  BY DEF ScopeLookup, MoveTo, cacheVars, prefVars, replyVars
<1>3. CacheTypes'
  BY <1>1, <1>2 DEF CacheTypes, Places, Waiting
<1>4. Ready(t)'
  BY <1>1, <1>2 DEF Ready, CacheTypes, BuyerOf
<1>5. Stocked'
  BY <1>1, <1>2 DEF Stocked
<1>6. \A u \in TurnIds \ {t} : scope'[u] = scope[u] /\ place'[u] = place[u]
  BY <1>1, <1>2 DEF CacheTypes
<1>7. QED
  BY <1>1, <1>2, <1>3, <1>4, <1>5, <1>6, StepKeepsCache

LEMMA HitKeepsCache == ASSUME CacheInv, NEW t \in TurnIds, Hit(t) PROVE CacheInv'
<1>1. CacheTypes /\ Stocked /\ Ready(t)
  BY CacheSays
<1>2. PICK best \in Best(t) :
        /\ place[t] = "reading" /\ place' = [place EXCEPT ![t] = "recording"]
        /\ served' = [served EXCEPT ![t] = best]
        /\ UNCHANGED <<owner, bucket, loaded, scope, outcome, late, prefs, under, unsteady>>
  BY DEF Hit, MoveTo, prefVars, replyVars
<1>3. best \in ToSet(Cached(t)) /\ best.query = QueryOf[t]
  BY DEF Best, Matches, ToSet
<1>4. Fits(best, BuyerOf(t), scope[t])
  BY <1>3, CachedIsOwn DEF Own
<1>5. CacheTypes'
  BY <1>1, <1>2 DEF CacheTypes, Places, Writing
<1>6. Ready(t)'
  <2>1. /\ place'[t] = "recording" /\ served'[t] = best /\ BuyerOf(t)' = BuyerOf(t)
        /\ scope'[t] = scope[t]
    BY <1>1, <1>2 DEF CacheTypes, BuyerOf
  <2>2. QED
    BY <1>3, <1>4, <2>1 DEF Ready
<1>7. Stocked'
  BY <1>1, <1>2 DEF Stocked
<1>8. QED
  BY <1>1, <1>2, <1>5, <1>6, <1>7, StepKeepsCache DEF CacheTypes

\* Steps that leave the cache and the preferences alone, up to the turn's own.
LEMMA MoveKeepsCache ==
    ASSUME CacheInv, NEW t \in TurnIds, Miss(t) \/ Hint(t) \/ AskModel(t) PROVE CacheInv'
<1>1. CacheTypes /\ Stocked /\ Ready(t)
  BY CacheSays
<1>2. UNCHANGED <<owner, bucket, loaded, served, scope, outcome, late, prefs>>
  BY DEF Miss, Hint, AskModel, cacheVars, prefVars, replyVars
<1>3. \/ /\ place[t] = "reading" /\ place' = [place EXCEPT ![t] = "hinting"] /\ UNCHANGED <<under, unsteady>>
      \/ /\ place[t] = "hinting" /\ place' = [place EXCEPT ![t] = "asking"]
         /\ \/ under' = [under EXCEPT ![t] = prefs[BuyerOf(t)]] /\ UNCHANGED unsteady
            \/ unsteady' = unsteady \cup {t} /\ UNCHANGED under
      \/ /\ place[t] = "asking" /\ place' = [place EXCEPT ![t] = "replying"] /\ UNCHANGED <<under, unsteady>>
  BY DEF Miss, Hint, AskModel, MoveTo, prefVars, Selected
<1>4. CacheTypes'
  BY <1>1, <1>2, <1>3 DEF CacheTypes, Places, Waiting
<1>5. Ready(t)'
  BY <1>1, <1>2, <1>3 DEF Ready, CacheTypes, BuyerOf
<1>6. Stocked'
  BY <1>1, <1>2 DEF Stocked
<1>7. \A u \in TurnIds \ {t} : /\ under'[u] = under[u] /\ place'[u] = place[u]
                               /\ u \in unsteady => u \in unsteady'
  BY <1>1, <1>3 DEF CacheTypes
<1>8. QED
  BY <1>2, <1>4, <1>5, <1>6, <1>7, StepKeepsCache

\* The turn that changes the preferences knows of it; those that rely on them
\* are marked as unsteady.
LEMMA ChangeKeepsCache ==
    ASSUME CacheInv, NEW t \in TurnIds, NEW list, NEW mine, Change(t, list, mine),
           under[t] = prefs[BuyerOf(t)] => mine = list
    PROVE  CacheInv'
<1>1. CacheTypes /\ Stocked /\ Ready(t)
  BY CacheSays
<1>2. /\ place[t] = "replying" /\ UNCHANGED place
      /\ UNCHANGED <<owner, bucket, loaded, served, scope, outcome, late>>
      /\ prefs' = [prefs EXCEPT ![BuyerOf(t)] = list]
      /\ under' = [under EXCEPT ![t] = mine]
      /\ unsteady' = unsteady \cup (Relying(BuyerOf(t)) \ {t})
  BY DEF Change, cacheVars, replyVars
<1>3. CacheTypes'
  BY <1>1, <1>2 DEF CacheTypes
<1>4. BuyerOf(t) \in Buyers /\ \A u \in TurnIds : BuyerOf(u) \in Buyers
  BY <1>1 DEF CacheTypes, BuyerOf, Sessions
<1>5. Ready(t)'
  <2>1. /\ prefs'[BuyerOf(t)] = list /\ under'[t] = mine /\ BuyerOf(t)' = BuyerOf(t)
        /\ t \notin unsteady' => t \notin unsteady
    BY <1>1, <1>2, <1>4 DEF CacheTypes, BuyerOf
  <2>2. QED
    BY <1>1, <1>2, <2>1 DEF Ready
<1>6. Stocked'
  BY <1>1, <1>2 DEF Stocked
<1>7. ASSUME NEW u \in TurnIds \ {t}
      PROVE  /\ under'[u] = under[u] /\ (u \in unsteady => u \in unsteady')
             /\ \/ prefs'[BuyerOf(u)] = prefs[BuyerOf(u)]
                \/ place[u] \notin {"asking", "replying", "rescoping"}
                \/ u \in unsteady'
  <2>1. under'[u] = under[u] /\ (u \in unsteady => u \in unsteady')
    BY <1>1, <1>2 DEF CacheTypes
  <2>2. CASE BuyerOf(u) # BuyerOf(t)
    BY <1>1, <1>2, <1>4, <2>1, <2>2 DEF CacheTypes
  <2>3. CASE BuyerOf(u) = BuyerOf(t)
    BY <1>2, <2>1, <2>3 DEF Relying
  <2>4. QED
    BY <2>2, <2>3
<1>8. QED
  BY <1>2, <1>3, <1>5, <1>6, <1>7, StepKeepsCache

LEMMA PreferenceKeepsCache ==
    ASSUME CacheInv, NEW t \in TurnIds,
           \/ \E p \in Preferences : RememberPreference(t, p)
           \/ \E w \in Statements : ForgetPreference(t, w)
    PROVE  CacheInv'
<1>1. ASSUME NEW p \in Preferences, RememberPreference(t, p) PROVE CacheInv'
  <2>1. Change(t, With(prefs[BuyerOf(t)], p), With(under[t], p))
    BY <1>1 DEF RememberPreference
  <2>2. under[t] = prefs[BuyerOf(t)] => With(under[t], p) = With(prefs[BuyerOf(t)], p)
    OBVIOUS
  <2>3. QED
    BY <2>1, <2>2, ChangeKeepsCache
<1>2. ASSUME NEW w \in Statements, ForgetPreference(t, w) PROVE CacheInv'
  <2>1. Change(t, Without(prefs[BuyerOf(t)], w), Without(under[t], w))
    BY <1>2 DEF ForgetPreference
  <2>2. under[t] = prefs[BuyerOf(t)] => Without(under[t], w) = Without(prefs[BuyerOf(t)], w)
    OBVIOUS
  <2>3. QED
    BY <2>1, <2>2, ChangeKeepsCache
<1>3. QED
  BY <1>1, <1>2

LEMMA ReplyKeepsCache ==
    ASSUME CacheInv, NEW t \in TurnIds, NEW o \in Outcomes, Reply(t, o) PROVE CacheInv'
<1>1. CacheTypes /\ Stocked /\ Ready(t)
  BY CacheSays
<1>2. /\ place[t] = "replying"
      /\ \/ o = "plain" /\ place' = [place EXCEPT ![t] = "rescoping"]
         \/ o # "plain" /\ place' = [place EXCEPT ![t] = "recording"]
      /\ outcome' = [outcome EXCEPT ![t] = o]
      /\ UNCHANGED <<owner, bucket, loaded, served, scope, late, prefs, under, unsteady>>
  BY DEF Reply, MoveTo, Remembers, cacheVars, prefVars
<1>3. CacheTypes'
  BY <1>1, <1>2 DEF CacheTypes, Places, Waiting, Writing
<1>4. Ready(t)'
  <2>1. outcome'[t] = o /\ BuyerOf(t)' = BuyerOf(t) /\ served[t] = Absent /\ loaded[t] = <<>>
    BY <1>1, <1>2 DEF CacheTypes, BuyerOf, Ready
  <2>2. (place'[t] = "rescoping" /\ o = "plain") \/ place'[t] = "recording"
    BY <1>1, <1>2 DEF CacheTypes
  <2>3. QED
    BY <1>1, <1>2, <2>1, <2>2 DEF Ready
<1>5. Stocked'
  BY <1>1, <1>2 DEF Stocked
<1>6. \A u \in TurnIds \ {t} : outcome'[u] = outcome[u] /\ place'[u] = place[u]
  BY <1>1, <1>2 DEF CacheTypes
<1>7. QED
  BY <1>2, <1>3, <1>4, <1>5, <1>6, StepKeepsCache

\* The scope a reply is remembered under is that of the preferences it knows,
\* unless they were disturbed.
LEMMA ScopeRememberKeepsCache ==
    ASSUME CacheInv, NEW t \in TurnIds, ScopeRemember(t) PROVE CacheInv'
<1>1. CacheTypes /\ Stocked /\ Ready(t)
  BY CacheSays
<1>2. /\ place[t] = "rescoping"
      /\ \/ Cacheable(t) /\ place' = [place EXCEPT ![t] = "loading"]
         \/ ~Cacheable(t) /\ place' = [place EXCEPT ![t] = "recording"]
      /\ \/ scope' = [scope EXCEPT ![t] = prefs[BuyerOf(t)]] /\ UNCHANGED unsteady
         \/ scope' = [scope EXCEPT ![t] = <<>>] /\ unsteady' = unsteady \cup {t}
      /\ UNCHANGED <<owner, bucket, loaded, served, outcome, late, prefs, under>>
  BY DEF ScopeRemember, MoveTo, cacheVars, replyVars
<1>3. CacheTypes'
  BY <1>1, <1>2 DEF CacheTypes, Places, Waiting, Writing
<1>4. Ready(t)'
  <2>1. /\ served[t] = Absent /\ loaded[t] = <<>> /\ outcome[t] = "plain" /\ BuyerOf(t)' = BuyerOf(t)
        /\ t \notin unsteady => under[t] = prefs[BuyerOf(t)]
    BY <1>1, <1>2 DEF Ready, BuyerOf
  <2>2. (place'[t] = "loading" /\ Cacheable(t)) \/ place'[t] = "recording"
    BY <1>1, <1>2 DEF CacheTypes
  <2>3. t \notin unsteady' => under'[t] = scope'[t]
    BY <1>1, <1>2, <2>1 DEF CacheTypes
  <2>4. Cacheable(t)' <=> Cacheable(t)
    BY <1>2 DEF Cacheable
  <2>5. QED
    BY <1>2, <2>1, <2>2, <2>3, <2>4 DEF Ready
<1>5. Stocked'
  BY <1>1, <1>2 DEF Stocked
<1>6. \A u \in TurnIds \ {t} : /\ scope'[u] = scope[u] /\ place'[u] = place[u]
                               /\ u \in unsteady => u \in unsteady'
  BY <1>1, <1>2 DEF CacheTypes
<1>7. QED
  BY <1>2, <1>3, <1>4, <1>5, <1>6, StepKeepsCache

LEMMA LoadKeepsCache == ASSUME CacheInv, NEW t \in TurnIds, LoadBucket(t) PROVE CacheInv'
<1>1. CacheTypes /\ Stocked /\ Ready(t)
  BY CacheSays
<1>2. /\ place[t] = "loading" /\ place' = [place EXCEPT ![t] = "storing"]
      /\ \/ loaded' = [loaded EXCEPT ![t] = Cached(t)]
         \/ UNCHANGED loaded
      /\ UNCHANGED <<owner, bucket, scope, served, outcome, late, prefs, under, unsteady>>
  BY DEF LoadBucket, MoveTo, prefVars, replyVars
<1>3. CacheTypes'
  BY <1>1, <1>2 DEF CacheTypes, Places, Waiting
<1>4. Own(<<>>, BuyerOf(t), scope[t]) /\ Own(Cached(t), BuyerOf(t), scope[t])
  <2>1. ToSet(<<>>) = {}
    BY DEF ToSet
  <2>2. <<>> \in Seq({})
    OBVIOUS
  <2>3. QED
    BY <2>1, <2>2, CachedIsOwn DEF Own, IsSeq
<1>5. Ready(t)'
  <2>1. loaded[t] = <<>> /\ served[t] = Absent /\ BuyerOf(t)' = BuyerOf(t)
    BY <1>1, <1>2 DEF Ready, BuyerOf
  <2>2. place'[t] = "storing" /\ (loaded'[t] = <<>> \/ loaded'[t] = Cached(t))
    BY <1>1, <1>2, <2>1 DEF CacheTypes
  <2>3. Own(loaded'[t], BuyerOf(t), scope[t])
    BY <1>4, <2>2
  <2>4. Cacheable(t)' <=> Cacheable(t)
    BY <1>2 DEF Cacheable
  <2>5. QED
    BY <1>1, <1>2, <2>1, <2>2, <2>3, <2>4 DEF Ready
<1>6. Stocked'
  BY <1>1, <1>2 DEF Stocked
<1>7. \A u \in TurnIds \ {t} : loaded'[u] = loaded[u] /\ place'[u] = place[u]
  BY <1>1, <1>2 DEF CacheTypes
<1>8. QED
  BY <1>2, <1>3, <1>5, <1>6, <1>7, StepKeepsCache

\* The new entry fits the bucket it is put into.
LEMMA StoreKeepsCache == ASSUME CacheInv, NEW t \in TurnIds, Store(t) PROVE CacheInv'
<1>1. CacheTypes /\ Stocked /\ Ready(t)
  BY CacheSays
<1> DEFINE entry == [buyer |-> BuyerOf(t), query |-> QueryOf[t], under |-> under[t],
                     steady |-> t \notin unsteady,
                     fit |-> outcome[t] = "plain" /\ Cacheable(t)]
           all   == Append(loaded[t], entry)
           first == IF Len(all) > BucketLimit THEN Len(all) - BucketLimit + 1 ELSE 1
           kept  == SubSeq(all, first, Len(all))
<1>2. /\ place[t] = "storing" /\ place' = [place EXCEPT ![t] = "recording"]
      /\ bucket' = [k \in DOMAIN bucket \cup {Key(t)} |-> IF k = Key(t) THEN kept ELSE bucket[k]]
      /\ loaded' = [loaded EXCEPT ![t] = <<>>]
      /\ UNCHANGED <<owner, served, scope, outcome, late, prefs, under, unsteady>>
  BY DEF Store, MoveTo, prefVars, replyVars
<1>3. /\ Own(loaded[t], BuyerOf(t), scope[t]) /\ outcome[t] = "plain" /\ Cacheable(t)
      /\ t \notin unsteady => under[t] = scope[t]
  BY <1>1, <1>2 DEF Ready
<1>4. Fits(entry, BuyerOf(t), scope[t])
  BY <1>3 DEF Fits
<1>5. \A e \in ToSet(kept) : Fits(e, BuyerOf(t), scope[t])
  <2> DEFINE S == ToSet(loaded[t]) \cup {entry}
  <2>1. loaded[t] \in Seq(ToSet(loaded[t]))
    BY <1>3 DEF Own, IsSeq
  <2>2. loaded[t] \in Seq(S) /\ entry \in S
    BY <2>1
  <2> HIDE DEF entry, S
  <2>3. all \in Seq(S)
    BY <2>2
  <2>4. first \in Int /\ 1 <= first
    BY <2>3, RecordAssumption
  <2> HIDE DEF all, first
  <2>5. ToSet(kept) \subseteq S
    BY <2>3, <2>4, CutKeeps
  <2>6. QED
    BY <1>3, <1>4, <2>5 DEF S, Own
<1>6. IsSeq(kept)
  <2> DEFINE S == ToSet(loaded[t]) \cup {entry}
  <2>1. loaded[t] \in Seq(ToSet(loaded[t]))
    BY <1>3 DEF Own, IsSeq
  <2>2. loaded[t] \in Seq(S) /\ entry \in S
    BY <2>1
  <2> HIDE DEF entry, S
  <2>3. all \in Seq(S)
    BY <2>2
  <2>4. first \in Int /\ 1 <= first
    BY <2>3, RecordAssumption
  <2> HIDE DEF all, first
  <2>5. QED
    BY <2>3, <2>4, CutKeeps DEF IsSeq
<1> HIDE DEF kept
<1>7. Stocked'
  <2>1. Key(t).buyer = BuyerOf(t) /\ Key(t).scope = scope[t]
    BY DEF Key
  <2>2. Own(kept, BuyerOf(t), scope[t])
    BY <1>5, <1>6 DEF Own
  <2>3. ASSUME NEW k \in DOMAIN bucket' PROVE Own(bucket'[k], k.buyer, k.scope)
    BY <1>1, <1>2, <2>1, <2>2, <2>3 DEF Stocked
  <2>4. QED
    BY <2>3 DEF Stocked
<1>8. CacheTypes'
  BY <1>1, <1>2 DEF CacheTypes, Places, Writing
<1>9. Ready(t)'
  <2>1. place'[t] = "recording" /\ served'[t] = Absent
    BY <1>1, <1>2 DEF CacheTypes, Ready
  <2>2. QED
    BY <2>1 DEF Ready
<1>10. \A u \in TurnIds \ {t} : loaded'[u] = loaded[u] /\ place'[u] = place[u]
  BY <1>1, <1>2 DEF CacheTypes
<1>11. QED
  BY <1>2, <1>7, <1>8, <1>9, <1>10, StepKeepsCache

LEMMA NotStoredKeepsCache == ASSUME CacheInv, NEW t \in TurnIds, NotStored(t) PROVE CacheInv'
<1>1. CacheTypes /\ Stocked /\ Ready(t)
  BY CacheSays
<1>2. /\ place[t] \in {"loading", "storing"} /\ place' = [place EXCEPT ![t] = "recording"]
      /\ UNCHANGED <<owner, bucket, loaded, served, scope, outcome, late, prefs, under, unsteady>>
  BY DEF NotStored, cacheVars, prefVars, replyVars
<1>3. CacheTypes'
  BY <1>1, <1>2 DEF CacheTypes, Places, Writing
<1>4. Ready(t)'
  <2>1. place'[t] = "recording" /\ served'[t] = Absent
    BY <1>1, <1>2 DEF CacheTypes, Ready
  <2>2. QED
    BY <2>1 DEF Ready
<1>5. Stocked'
  BY <1>1, <1>2 DEF Stocked
<1>6. \A u \in TurnIds \ {t} : place'[u] = place[u]
  BY <1>1, <1>2 DEF CacheTypes
<1>7. QED
  BY <1>2, <1>3, <1>4, <1>5, <1>6, StepKeepsCache

LEMMA TouchKeepsCache == ASSUME CacheInv, NEW t \in TurnIds, Touch(t) PROVE CacheInv'
<1>1. CacheTypes /\ Stocked /\ Ready(t)
  BY CacheSays
<1>2. /\ \E x \in {"opening", "over"} : place' = [place EXCEPT ![t] = x]
      /\ late' = [late EXCEPT ![t] = FALSE] /\ outcome' = [outcome EXCEPT ![t] = Absent]
      /\ scope' = [scope EXCEPT ![t] = <<>>] /\ under' = [under EXCEPT ![t] = <<>>]
      /\ loaded' = [loaded EXCEPT ![t] = <<>>] /\ served' = [served EXCEPT ![t] = Absent]
      /\ unsteady' = unsteady \ {t}
      /\ UNCHANGED <<owner, bucket, prefs>>
  BY DEF Touch, MoveTo
<1>3. CacheTypes'
  BY <1>1, <1>2 DEF CacheTypes, Places, Writing
<1>4. Ready(t)'
  <2>1. place'[t] \in {"opening", "over"} /\ served'[t] = Absent /\ loaded'[t] = <<>>
    BY <1>1, <1>2 DEF CacheTypes
  <2>2. QED
    BY <2>1 DEF Ready
<1>5. Stocked'
  BY <1>1, <1>2 DEF Stocked
<1>6. \A u \in TurnIds \ {t} :
         /\ place'[u] = place[u] /\ late'[u] = late[u] /\ loaded'[u] = loaded[u]
         /\ served'[u] = served[u] /\ scope'[u] = scope[u] /\ under'[u] = under[u]
         /\ outcome'[u] = outcome[u]
         /\ u \in unsteady => u \in unsteady'
  BY <1>1, <1>2 DEF CacheTypes
<1>7. QED
  BY <1>2, <1>3, <1>4, <1>5, <1>6, StepKeepsCache

LEMMA RecordKeepsCache == ASSUME CacheInv, NEW t \in TurnIds, Recording(t) PROVE CacheInv'
<1>1. CASE Touch(t)
  BY <1>1, TouchKeepsCache
<1>2. CASE \/ OpenSession(t) \/ Trace(t) \/ RecordFails(t)
           \/ \E role \in Roles : Number(t, role) \/ Insert(t, role)
  <2>1. CacheTypes /\ Stocked /\ Ready(t)
    BY CacheSays
  <2>2. UNCHANGED <<owner, bucket, loaded, served, scope, outcome, late, prefs, under, unsteady>>
    BY <1>2 DEF OpenSession, Trace, RecordFails, Number, Insert, Apart, cacheVars, prefVars, replyVars
  <2>3. /\ place[t] \in Writing \ {"recording"}
        /\ \E x \in (Writing \cup {"over"}) \ {"recording"} : place' = [place EXCEPT ![t] = x]
    BY <1>2, Stages DEF OpenSession, Trace, RecordFails, Number, Insert, MoveTo, Roles, Writing
  <2>4. CacheTypes'
    BY <2>1, <2>2, <2>3 DEF CacheTypes, Places
  <2>5. Ready(t)'
    <3>1. /\ place'[t] \in (Writing \cup {"over"}) \ {"recording"}
          /\ served'[t] = Absent /\ loaded'[t] = <<>>
      BY <2>1, <2>2, <2>3 DEF CacheTypes, Ready, Writing
    <3>2. QED
      BY <3>1 DEF Ready, Writing
  <2>6. Stocked'
    BY <2>1, <2>2 DEF Stocked
  <2>7. \A u \in TurnIds \ {t} : place'[u] = place[u]
    BY <2>1, <2>3 DEF CacheTypes
  <2>8. QED
    BY <2>2, <2>4, <2>5, <2>6, <2>7, StepKeepsCache
<1>3. QED
  BY <1>1, <1>2 DEF Recording

LEMMA CacheNextInv == ASSUME CacheInv, [RecordNext]_recordVars PROVE CacheInv'
<1>1. CASE UNCHANGED recordVars
  <2>1. UNCHANGED <<owner, bucket, loaded, served, scope, outcome, late, prefs, under, unsteady, place>>
    BY <1>1 DEF recordVars, cacheVars, prefVars, replyVars
  <2>2. CacheTypes /\ Stocked /\ \A u \in TurnIds : Ready(u)
    BY CacheSays
  <2>3. \A u \in TurnIds : Ready(u)'
    BY <2>1, <2>2, OthersReady
  <2>4. CacheTypes' /\ Stocked'
    BY <2>1, <2>2 DEF CacheTypes, Stocked
  <2>5. QED
    BY <2>3, <2>4 DEF CacheInv, CacheTypes, Stocked, Ready, Places
<1>2. ASSUME NEW t \in TurnIds, BeginTurn(t) \/ ScopeLookup(t) \/ Hit(t) \/ Miss(t) \/ Hint(t) \/ AskModel(t)
      PROVE  CacheInv'
  BY <1>2, BeginKeepsCache, ScopeLookupKeepsCache, HitKeepsCache, MoveKeepsCache
<1>3. ASSUME NEW t \in TurnIds, \/ \E p \in Preferences : RememberPreference(t, p)
                                \/ \E w \in Statements : ForgetPreference(t, w)
                                \/ \E o \in Outcomes : Reply(t, o)
      PROVE  CacheInv'
  BY <1>3, PreferenceKeepsCache, ReplyKeepsCache
<1>4. ASSUME NEW t \in TurnIds, \/ ScopeRemember(t) \/ LoadBucket(t) \/ Store(t) \/ NotStored(t)
                                \/ Recording(t)
      PROVE  CacheInv'
  BY <1>4, ScopeRememberKeepsCache, LoadKeepsCache, StoreKeepsCache, NotStoredKeepsCache,
     RecordKeepsCache
<1>5. QED
  BY <1>1, <1>2, <1>3, <1>4 DEF RecordNext

\* Every entry in a bucket, read of one or served from one is its buyer's own,
\* fit to be used again and, unless it was disturbed, of the bucket's preferences.
THEOREM CacheInvariant == RecordSpec => []CacheInv
BY CacheInitInv, CacheNextInv, PTL DEF RecordSpec

\* The semantic cache answers a buyer with a plain reply to this question that
\* was written for this buyer, whatever buckets overlapping turns write back.
THEOREM HitsAreOwn == RecordSpec => []HitIsOwn
<1>1. CacheInv => HitIsOwn
  BY DEF CacheInv, HitIsOwn, Fits
<1>2. QED
  BY <1>1, CacheInvariant, PTL

\* A reply whose preferences nobody else touched while it was written is used
\* again under exactly these preferences, for any number of buyers and turns.
THEOREM UndisturbedHitsAreCurrent == RecordSpec => []HitsAreCurrent
<1>1. CacheInv => HitsAreCurrent
  BY DEF CacheInv, HitsAreCurrent, Fits
<1>2. QED
  BY <1>1, CacheInvariant, PTL

----------------------------------------------------------------------------
(* The turns a file tells of. *)

\* A relation on the naturals that < is in and that has no infinite descent:
\* what every "take the least" below rests on.
LEMMA LessIsWellFounded ==
    \E R : IsWellFoundedOn(R, Nat) /\ \A x, y \in Nat : x < y => <<x, y>> \in R
<1>1. \A x, y \in Nat : x < y => <<x, y>> \in OpToRel(<, Nat)
  BY DEF OpToRel
<1>2. QED
  BY <1>1, NatLessThanWellFounded

\* A set of naturals has a least element.
LEMMA LeastOf ==
    ASSUME NEW S \in SUBSET Nat, S # {}
    PROVE  \E x \in S : \A y \in S : x <= y
<1>1. PICK R : IsWellFoundedOn(R, Nat) /\ \A x, y \in Nat : x < y => <<x, y>> \in R
  BY LessIsWellFounded
<1>2. \E x \in S : \A y \in S : ~(<<y, x>> \in R)
  <2>1. IsWellFoundedOn(R, Nat) /\ S \subseteq Nat /\ S # {}
    BY <1>1
  <2>2. \A Q, N, T : IsWellFoundedOn(Q, N) /\ T \subseteq N /\ T # {} =>
                        \E x \in T : \A y \in T : ~(<<y, x>> \in Q)
    BY ONLY WFMin
  <2> QED
    BY ONLY <2>1, <2>2
<1>3. PICK x \in S : \A y \in S : ~(<<y, x>> \in R)
  BY <1>2
<1>4. ASSUME NEW y \in S PROVE x <= y
  <2>1. x \in Nat /\ y \in Nat /\ ~(<<y, x>> \in R)
    BY <1>3
  <2>2. ~(y < x)
    BY <1>1, <2>1
  <2>3. QED
    BY <2>1, <2>2
<1>5. QED
  BY <1>4


\* What one more line adds.
TurnsStep(d, line) == IF Tells(line, "turn") THEN Append(d, line[1]) ELSE d

TurnsUpto(f, n, l) ==
    f = [i \in 0..n |-> IF i = 0 THEN <<>> ELSE TurnsStep(f[i - 1], l[i])]

\* There is such a function: one for a first n that had none would come of
\* the one for n - 1.
LEMMA TurnsExist ==
    ASSUME NEW l, NEW n \in Nat
    PROVE  \E f : TurnsUpto(f, n, l)
<1> DEFINE Bad == {m \in Nat : ~\E f : TurnsUpto(f, m, l)}
<1>1. SUFFICES ASSUME Bad # {} PROVE FALSE
  OBVIOUS
<1>2. PICK m \in Bad : \A k \in Bad : m <= k
  <2> HIDE DEF Bad
  <2>1. Bad \in SUBSET Nat
    BY DEF Bad
  <2> QED
    BY <1>1, <2>1, LeastOf
<1>3. m \in Nat /\ ~\E f : TurnsUpto(f, m, l)
  OBVIOUS
<1>4. m # 0
  <2> DEFINE f == [i \in 0..0 |-> <<>>]
  <2>1. TurnsUpto(f, 0, l)
    <3>1. \A i \in 0..0 : i = 0
      OBVIOUS
    <3> QED
      BY <3>1 DEF TurnsUpto
  <2> QED
    BY <1>3, <2>1
<1>5. m - 1 \in Nat /\ ~(m <= m - 1)
  BY <1>3, <1>4
<1>6. PICK g : TurnsUpto(g, m - 1, l)
  BY <1>2, <1>5
<1> DEFINE f == [i \in 0..m |-> IF i = m THEN TurnsStep(g[m - 1], l[m]) ELSE g[i]]
<1>7. f = [i \in 0..m |-> IF i = 0 THEN <<>> ELSE TurnsStep(f[i - 1], l[i])]
  <2>1. ASSUME NEW i \in 0..m PROVE f[i] = IF i = 0 THEN <<>> ELSE TurnsStep(f[i - 1], l[i])
    <3>1. CASE i = m
      <4>1. f[i - 1] = g[m - 1] /\ i # 0
        BY <1>3, <1>4, <1>5, <3>1
      <4>2. f[i] = TurnsStep(g[m - 1], l[m])
        BY <3>1
      <4> QED
        BY <3>1, <4>1, <4>2
    <3>2. CASE i # m
      <4>1. i \in 0..(m - 1)
        BY <1>3, <3>2
      <4>2. g[i] = IF i = 0 THEN <<>> ELSE TurnsStep(g[i - 1], l[i])
        BY <1>6, <4>1 DEF TurnsUpto
      <4>3. i # 0 => i - 1 \in 0..m /\ i - 1 # m
        BY <1>3, <4>1
      <4>4. f[i] = g[i] /\ (i # 0 => f[i - 1] = g[i - 1])
        BY <3>2, <4>3
      <4> QED
        BY <4>2, <4>4
    <3> QED
      BY <3>1, <3>2
  <2>2. DOMAIN f = 0..m
    OBVIOUS
  <2> HIDE DEF f
  <2>3. f = [i \in 0..m |-> f[i]]
    <3>1. f = [i \in 0..m |-> IF i = m THEN TurnsStep(g[m - 1], l[m]) ELSE g[i]]
      BY DEF f
    <3> QED
      BY <3>1
  <2> QED
    BY <2>1, <2>3
<1>8. QED
  BY <1>3, <1>7 DEF TurnsUpto

LEMMA TurnsAre ==
    ASSUME NEW l, Len(l) \in Nat
    PROVE  \E f : TurnsUpto(f, Len(l), l) /\ TurnsOf(l) = f[Len(l)]
<1> DEFINE n == Len(l)
           g == CHOOSE f : f = [i \in 0..n |->
                     IF i = 0 THEN <<>>
                     ELSE IF Tells(l[i], "turn") THEN Append(f[i - 1], l[i][1]) ELSE f[i - 1]]
<1>1. \E f : f = [i \in 0..n |->
                     IF i = 0 THEN <<>>
                     ELSE IF Tells(l[i], "turn") THEN Append(f[i - 1], l[i][1]) ELSE f[i - 1]]
  <2>1. PICK h : TurnsUpto(h, n, l)
    BY TurnsExist
  <2>2. h = [i \in 0..n |->
                     IF i = 0 THEN <<>>
                     ELSE IF Tells(l[i], "turn") THEN Append(h[i - 1], l[i][1]) ELSE h[i - 1]]
    BY ONLY <2>1 DEF TurnsUpto, TurnsStep
  <2> QED
    BY ONLY <2>2
<1>2. TurnsUpto(g, n, l)
  BY <1>1 DEF TurnsUpto, TurnsStep
<1>3. TurnsOf(l) = g[n]
  BY DEF TurnsOf
<1> QED
  BY <1>2, <1>3

\* Where two files begin alike, they tell of the same.
LEMMA TurnsAlike ==
    ASSUME NEW n \in Nat, NEW k \in Nat, k <= n, NEW l, NEW m, NEW f, NEW g,
           TurnsUpto(f, n, l), TurnsUpto(g, k, m), \A i \in 1..k : l[i] = m[i]
    PROVE  f[k] = g[k]
<1>1. /\ \A i \in 0..n : f[i] = IF i = 0 THEN <<>> ELSE TurnsStep(f[i - 1], l[i])
      /\ \A i \in 0..k : g[i] = IF i = 0 THEN <<>> ELSE TurnsStep(g[i - 1], m[i])
  BY DEF TurnsUpto
<1> DEFINE Bad == {i \in Nat : i <= k /\ f[i] # g[i]}
<1>2. SUFFICES ASSUME Bad # {} PROVE FALSE
  OBVIOUS
<1>3. PICK b \in Bad : \A j \in Bad : b <= j
  <2> HIDE DEF Bad
  <2>1. Bad \in SUBSET Nat
    BY DEF Bad
  <2> QED
    BY <1>2, <2>1, LeastOf
<1>4. b \in Nat /\ b <= k /\ f[b] # g[b] /\ b \in 0..n /\ b \in 0..k
  OBVIOUS
<1>5. b # 0
  BY <1>1, <1>4
<1>6. b - 1 \in Nat /\ b - 1 <= k /\ ~(b <= b - 1) /\ b \in 1..k
  BY <1>4, <1>5
<1>7. f[b - 1] = g[b - 1]
  BY <1>3, <1>6
<1> QED
  BY <1>1, <1>4, <1>5, <1>6, <1>7

\* A line more.
LEMMA TurnsBehind ==
    ASSUME NEW S, NEW l \in Seq(S), NEW x \in S
    PROVE  TurnsOf(Append(l, x)) = TurnsStep(TurnsOf(l), x)
<1> DEFINE m == Append(l, x)  n == Len(l)
<1>1. n \in Nat /\ Len(m) = n + 1 /\ m[n + 1] = x /\ \A i \in 1..n : m[i] = l[i]
  OBVIOUS
<1> HIDE DEF m, n
<1>2. PICK f : TurnsUpto(f, n + 1, m) /\ TurnsOf(m) = f[n + 1]
  <2>1. Len(m) \in Nat
    BY <1>1
  <2> QED
    BY <1>1, <2>1, TurnsAre
<1>3. PICK g : TurnsUpto(g, n, l) /\ TurnsOf(l) = g[n]
  BY <1>1, TurnsAre DEF n
<1>4. f[n] = g[n]
  BY <1>1, <1>2, <1>3, TurnsAlike
<1>5. f[n + 1] = TurnsStep(f[n], x)
  <2>1. f[n + 1] = TurnsStep(f[(n + 1) - 1], m[n + 1])
    BY <1>1, <1>2 DEF TurnsUpto
  <2> QED
    BY <1>1, <2>1
<1> QED
  BY <1>2, <1>3, <1>4, <1>5 DEF m

LEMMA TurnsOfNothing == TurnsOf(<<>>) = <<>>
<1>1. PICK f : TurnsUpto(f, 0, <<>>) /\ TurnsOf(<<>>) = f[0]
  <2>1. Len(<<>>) = 0
    OBVIOUS
  <2> QED
    BY <2>1, TurnsAre
<1> QED
  BY <1>1 DEF TurnsUpto

----------------------------------------------------------------------------
(* A conversation in a file. *)

Lines == {x \in Seq(Parts) : Len(x) >= 1}

LEMMA TurnsTyped ==
    ASSUME NEW l \in Seq(Lines)
    PROVE  TurnsOf(l) \in Seq(Parts)
<1> DEFINE n == Len(l)
<1>1. n \in Nat /\ \A i \in 1..n : l[i] \in Lines
  OBVIOUS
<1>2. PICK f : TurnsUpto(f, n, l) /\ TurnsOf(l) = f[n]
  BY <1>1, TurnsAre
<1>3. \A i \in 0..n : f[i] = IF i = 0 THEN <<>> ELSE TurnsStep(f[i - 1], l[i])
  BY <1>2 DEF TurnsUpto
<1> HIDE DEF n
<1> DEFINE Bad == {i \in Nat : i <= n /\ f[i] \notin Seq(Parts)}
<1>4. SUFFICES ASSUME Bad # {} PROVE FALSE
  BY <1>1, <1>2
<1>5. PICK b \in Bad : \A j \in Bad : b <= j
  <2> HIDE DEF Bad
  <2>1. Bad \in SUBSET Nat
    BY DEF Bad
  <2> QED
    BY <1>4, <2>1, LeastOf
<1>6. b \in Nat /\ b <= n /\ f[b] \notin Seq(Parts)
  OBVIOUS
<1>7. b # 0
  <2>1. f[0] = <<>>
    BY <1>1, <1>3
  <2>2. <<>> \in Seq(Parts)
    OBVIOUS
  <2> QED
    BY <1>6, <2>1, <2>2
<1>8. b - 1 \in Nat /\ b - 1 <= n /\ ~(b <= b - 1) /\ b \in 1..n /\ b \in 0..n
  BY <1>1, <1>6, <1>7
<1>9. f[b - 1] \in Seq(Parts)
  BY <1>5, <1>8
<1>10. f[b] = TurnsStep(f[b - 1], l[b]) /\ l[b] \in Lines
  BY <1>1, <1>3, <1>7, <1>8
<1>11. l[b][1] \in Parts
  BY <1>10 DEF Lines
<1> QED
  BY <1>6, <1>9, <1>10, <1>11 DEF TurnsStep



LEMMA SeqIs == ASSUME NEW S, NEW s \in Seq(S) PROVE s = [i \in 1..Len(s) |-> s[i]]
  OBVIOUS

LEMMA AppendIs ==
    ASSUME NEW S, NEW s \in Seq(S), NEW x \in S, NEW n \in Nat, Len(s) = n - 1
    PROVE  /\ Append(s, x) = [i \in 1..n |-> IF i = n THEN x ELSE s[i]]
           /\ Append(s, x) \in Seq(S) /\ Len(Append(s, x)) = n /\ n \in 1..n
<1>1. Append(s, x) \in Seq(S) /\ Len(Append(s, x)) = Len(s) + 1 /\ Len(s) \in Nat
  OBVIOUS
<1>2. Append(s, x)[Len(s) + 1] = x /\ \A i \in 1..Len(s) : Append(s, x)[i] = s[i]
  OBVIOUS
<1>3. Len(s) + 1 = n /\ n \in 1..n
  BY <1>1
<1>4. \A i \in 1..n : Append(s, x)[i] = IF i = n THEN x ELSE s[i]
  <2>1. \A i \in 1..n : i = n \/ i \in 1..Len(s)
    BY <1>1, <1>3
  <2> QED
    BY <1>2, <1>3, <2>1
<1>5. Append(s, x) = [i \in 1..n |-> Append(s, x)[i]]
  <2> DEFINE a == Append(s, x)
  <2>1. a \in Seq(S) /\ Len(a) = n
    BY <1>1, <1>3
  <2> HIDE DEF a
  <2>2. a = [i \in 1..n |-> a[i]]
    BY <2>1, SeqIs
  <2> QED
    BY <2>2 DEF a
<1> QED
  BY <1>1, <1>3, <1>4, <1>5

\* A part behind what the last line has.
Joined(l, part) == [l EXCEPT ![Len(l)] = Append(@, part)]

\* A line that is glued to what a cut one left is passed over, with it.
LEMMA Glued ==
    ASSUME NEW l \in Seq(Lines), Len(l) > 0, NEW part \in Parts,
           NEW m, m = Joined(l, part)
    PROVE  /\ m \in Seq(Lines) /\ Len(m) = Len(l) /\ Len(m[Len(m)]) # 1
           /\ Len(l) > 1 => m[1] = l[1]
           /\ TurnsOf(m) \in Seq(Parts)
           /\ TurnsOf(l) = TurnsStep(TurnsOf(m), l[Len(l)])
<1> DEFINE n == Len(l)
           front == SubSeq(l, 1, n - 1)
           glued == Append(l[n], part)
<1>1. /\ n \in Nat /\ n >= 1 /\ l[n] \in Lines /\ l = [i \in 1..n |-> l[i]]
      /\ \A i \in 1..n : l[i] \in Lines
  OBVIOUS
<1>2. front \in Seq(Lines) /\ Len(front) = n - 1 /\ \A i \in 1..(n - 1) : front[i] = l[i]
  BY <1>1
<1>3. glued \in Lines /\ Len(glued) > 1 /\ Len(glued) # 1
  <2>1. l[n] \in Seq(Parts) /\ Len(l[n]) >= 1
    BY <1>1 DEF Lines
  <2>2. glued \in Seq(Parts) /\ Len(glued) = Len(l[n]) + 1 /\ Len(l[n]) \in Nat
    BY <2>1
  <2> QED
    BY <2>1, <2>2 DEF Lines
<1>4. m = [i \in 1..n |-> IF i = n THEN glued ELSE l[i]]
  <2>1. DOMAIN l = 1..n
    BY <1>1
  <2> QED
    BY <2>1 DEF Joined
<1> HIDE DEF n, front, glued
<1>a. \A i \in 1..n : i = n \/ i \in 1..(n - 1)
  BY <1>1
<1>5. Append(front, l[n]) = l
  <2>1. Append(front, l[n]) = [i \in 1..n |-> IF i = n THEN l[n] ELSE front[i]]
    BY <1>1, <1>2, AppendIs
  <2>2. \A i \in 1..n : (IF i = n THEN l[n] ELSE front[i]) = l[i]
    BY <1>a, <1>2
  <2> QED
    BY <1>1, <2>1, <2>2
<1>6. Append(front, glued) = m
  <2>1. Append(front, glued) = [i \in 1..n |-> IF i = n THEN glued ELSE front[i]]
    BY <1>1, <1>2, <1>3, AppendIs
  <2>2. \A i \in 1..n : (IF i = n THEN glued ELSE front[i]) = IF i = n THEN glued ELSE l[i]
    BY <1>a, <1>2
  <2> QED
    BY <1>4, <2>1, <2>2
<1>7. /\ TurnsOf(l) = TurnsStep(TurnsOf(front), l[n])
      /\ TurnsOf(m) = TurnsStep(TurnsOf(front), glued)
  <2>1. TurnsOf(Append(front, l[n])) = TurnsStep(TurnsOf(front), l[n])
    BY <1>1, <1>2, TurnsBehind
  <2>2. TurnsOf(Append(front, glued)) = TurnsStep(TurnsOf(front), glued)
    BY <1>2, <1>3, TurnsBehind
  <2> QED
    BY <1>5, <1>6, <2>1, <2>2
<1>8. TurnsOf(m) = TurnsOf(front)
  <2>1. ~Tells(glued, "turn")
    BY <1>3 DEF Tells
  <2> QED
    BY <1>7, <2>1 DEF TurnsStep
<1>9. m \in Seq(Lines) /\ Len(m) = n /\ m[n] = glued /\ (n > 1 => m[1] = l[1])
  <2>1. Append(front, glued) \in Seq(Lines) /\ Len(Append(front, glued)) = n
    BY <1>1, <1>2, <1>3, AppendIs
  <2>2. m[n] = glued
    BY <1>1, <1>4
  <2>3. n > 1 => m[1] = l[1]
    BY <1>1, <1>4
  <2> QED
    BY <1>6, <2>1, <2>2, <2>3
<1>10. TurnsOf(m) \in Seq(Parts)
  BY <1>9, TurnsTyped
<1> QED
  BY <1>3, <1>7, <1>8, <1>9, <1>10 DEF n

\* What the conversation of a session is worth: its file, whether the last
\* line is open, the turns written, whether a write was cut, the numbers of
\* writes and of harms.
TurnsIn(l) == IF l = NoFile THEN <<>> ELSE TurnsOf(l)

Lost(l, t) == ToSet(t) \ ToSet(TurnsIn(l))

\* What the next write behind an open line costs.
Risk(l, o) == IF ~o THEN 0 ELSE IF Tells(l[Len(l)], "turn") THEN 2 ELSE 1

InOrder(d, w) ==
    /\ d \in Seq(Parts) /\ \A i \in 1..Len(d) : d[i].write <= w
    /\ \A i, j \in 1..Len(d) : i < j => d[i].write < d[j].write

ChatInv(l, o, t, sc, w, c) ==
    /\ l # NoFile => l \in Seq(Lines)
    /\ l = NoFile => t = <<>> /\ ~o
    /\ o => Len(l) > 0 /\ sc
    /\ t \in Seq(Parts)
    /\ InOrder(TurnsIn(l), w)
    /\ ToSet(TurnsIn(l)) \subseteq ToSet(t)
    /\ IsFiniteSet(Lost(l, t)) /\ Cardinality(Lost(l, t)) + Risk(l, o) <= 2 * c
    /\ ~sc => TurnsIn(l) = t
    /\ ~sc /\ l # NoFile => Len(l) > 0 /\ Tells(l[1], "session") /\ Sound(l)

\* At most one more is lost, and what was at risk.
LEMMA LosesOne ==
    ASSUME NEW S, IsFiniteSet(S), NEW e, NEW T, T \subseteq S \cup {e}
    PROVE  IsFiniteSet(T) /\ Cardinality(T) <= Cardinality(S) + 1
           /\ Cardinality(T) \in Nat /\ Cardinality(S) \in Nat
<1>1. IsFiniteSet(S \cup {e}) /\ Cardinality(S \cup {e}) <= Cardinality(S) + 1 /\ Cardinality(S) \in Nat
  BY FS_AddElement, FS_CardinalityType
<1>2. T \in SUBSET (S \cup {e})
  OBVIOUS
<1>3. IsFiniteSet(T) /\ Cardinality(T) <= Cardinality(S \cup {e})
  BY <1>1, <1>2, FS_Subset
<1>4. Cardinality(T) \in Nat /\ Cardinality(S \cup {e}) \in Nat
  BY <1>1, <1>3, FS_CardinalityType
<1> QED
  BY <1>1, <1>3, <1>4

\* How what is lost counts.
LEMMA Counts ==
    ASSUME NEW a \in Nat, NEW b \in Nat, NEW r \in Nat, NEW c \in Nat
    PROVE  /\ a <= b /\ b <= 2 * c /\ r <= 2 => a + r <= 2 * (c + 1)
           /\ a <= b + 1 /\ b <= 2 * c => a + 1 <= 2 * (c + 1)
           /\ a <= r + 1 /\ r <= b + 1 /\ b + 2 <= 2 * c => a + 0 <= 2 * c
           /\ a <= r /\ r <= b + 1 /\ b + 1 <= 2 * c => a + 0 <= 2 * c
  OBVIOUS

LEMMA LosesNone ==
    ASSUME NEW S, IsFiniteSet(S), NEW T, T \subseteq S
    PROVE  IsFiniteSet(T) /\ Cardinality(T) <= Cardinality(S)
           /\ Cardinality(T) \in Nat /\ Cardinality(S) \in Nat
<1>1. T \in SUBSET S
  OBVIOUS
<1> QED
  BY <1>1, FS_Subset, FS_CardinalityType


\* In order stays what is taken from the end, or what a later one is added to.
LEMMA OrderShortens ==
    ASSUME NEW d \in Seq(Parts), NEW e \in Parts, NEW w \in Nat, InOrder(Append(d, e), w)
    PROVE  InOrder(d, w)
<1>1. /\ Len(d) \in Nat /\ Len(Append(d, e)) = Len(d) + 1
      /\ \A i \in 1..Len(d) : Append(d, e)[i] = d[i] /\ i \in 1..(Len(d) + 1)
  OBVIOUS
<1> QED
  BY <1>1 DEF InOrder

LEMMA OrderGrows ==
    ASSUME NEW d, NEW e \in Parts, NEW w \in Nat, InOrder(d, w), e.write = w + 1
    PROVE  InOrder(Append(d, e), w + 1)
<1>1. d \in Seq(Parts)
  BY DEF InOrder
<1>2. /\ Len(d) \in Nat /\ Len(Append(d, e)) = Len(d) + 1 /\ Append(d, e)[Len(d) + 1] = e
      /\ \A i \in 1..Len(d) : Append(d, e)[i] = d[i]
      /\ Append(d, e) \in Seq(Parts)
  BY <1>1
<1>3. \A i \in 1..(Len(d) + 1) : i = Len(d) + 1 \/ i \in 1..Len(d)
  BY <1>2
<1>4. \A i \in 1..Len(d) : d[i].write \in Nat
  <2>1. \A i \in 1..Len(d) : d[i] \in Parts
    BY <1>1
  <2>2. \A x \in Parts : x.write \in Nat
    BY FilesAssumption DEF Parts
  <2> QED
    BY <2>1, <2>2
<1> DEFINE a == Append(d, e)
<1> HIDE DEF a
<1>5. ASSUME NEW i \in 1..Len(a) PROVE a[i].write <= w + 1
  <2>1. CASE i = Len(d) + 1
    BY <1>2, <2>1 DEF a
  <2>2. CASE i \in 1..Len(d)
    <3>1. a[i].write = d[i].write /\ d[i].write <= w
      BY <1>2, <2>2 DEF a, InOrder
    <3> QED
      BY <1>4, <2>2, <3>1
  <2> QED
    BY <1>2, <1>3, <2>1, <2>2 DEF a
<1>6. ASSUME NEW i \in 1..Len(a), NEW j \in 1..Len(a), i < j PROVE a[i].write < a[j].write
  <2>1. i \in 1..Len(d) /\ a[i].write = d[i].write /\ d[i].write <= w /\ d[i].write \in Nat
    <3>1. i \in 1..Len(d)
      BY <1>2, <1>3, <1>6 DEF a
    <3> QED
      BY <1>2, <1>4, <3>1 DEF a, InOrder
  <2>2. CASE j = Len(d) + 1
    BY <1>2, <2>1, <2>2 DEF a
  <2>3. CASE j \in 1..Len(d)
    BY <1>2, <1>6, <2>1, <2>3 DEF a, InOrder
  <2> QED
    BY <1>2, <1>3, <2>2, <2>3 DEF a
<1> QED
  BY <1>2, <1>5, <1>6 DEF a, InOrder

LEMMA OrderLasts ==
    ASSUME NEW d, NEW w \in Nat, InOrder(d, w), NEW v \in Nat, w <= v
    PROVE  InOrder(d, v)
<1>1. \A i \in 1..Len(d) : d[i] \in Parts
  BY DEF InOrder
<1>2. \A x \in Parts : x.write \in Nat
  BY FilesAssumption DEF Parts
<1>3. ASSUME NEW i \in 1..Len(d) PROVE d[i].write <= v
  <2>1. d[i].write \in Nat /\ d[i].write <= w
    BY <1>1, <1>2 DEF InOrder
  <2> QED
    BY <2>1
<1> QED
  BY <1>3 DEF InOrder

\* With time, and harms to other files, nothing is lost.
LEMMA ChatLasts ==
    ASSUME NEW l, NEW o \in BOOLEAN, NEW t, NEW sc \in BOOLEAN, NEW w \in Nat, NEW c \in Nat,
           ChatInv(l, o, t, sc, w, c), NEW v \in Nat, w <= v, NEW k \in Nat, c <= k,
           NEW sd \in BOOLEAN, sc => sd
    PROVE  ChatInv(l, o, t, sd, v, k)
<1>1. InOrder(TurnsIn(l), v)
  BY OrderLasts DEF ChatInv
<1>2. IsFiniteSet(Lost(l, t)) /\ Cardinality(Lost(l, t)) + Risk(l, o) <= 2 * c
  BY DEF ChatInv
<1>3. Cardinality(Lost(l, t)) \in Nat /\ Risk(l, o) \in Nat
  BY <1>2, FS_CardinalityType DEF Risk
<1>4. Cardinality(Lost(l, t)) + Risk(l, o) <= 2 * k
  BY <1>2, <1>3
<1> QED
  BY <1>1, <1>4 DEF ChatInv

\* What a file tells of once a line is behind it.
LEMMA LineBehind ==
    ASSUME NEW l, l # NoFile => l \in Seq(Lines), NEW e \in Parts,
           NEW m, m = IF l = NoFile THEN <<<<e>>>> ELSE Append(l, <<e>>)
    PROVE  /\ m \in Seq(Lines) /\ m # NoFile /\ Len(m) > 0 /\ m[Len(m)] = <<e>>
           /\ TurnsIn(m) = IF e.what = "turn" THEN Append(TurnsIn(l), e) ELSE TurnsIn(l)
           /\ IF l = NoFile THEN m[1] = <<e>> ELSE Len(l) > 0 => m[1] = l[1]
           /\ e.what \notin {"spoiling", "dangling"} /\ (l # NoFile => Sound(l)) => Sound(m)
<1>1. <<e>> \in Lines /\ Len(<<e>>) = 1 /\ <<e>>[1] = e
  BY DEF Lines
<1> DEFINE x == <<e>>
           k == IF l = NoFile THEN <<>> ELSE l
<1>2. k \in Seq(Lines) /\ TurnsIn(l) = TurnsOf(k)
  BY TurnsOfNothing DEF TurnsIn
<1>3. m = Append(k, x)
  <2>1. Append(<<>>, x) = <<x>>
    OBVIOUS
  <2> QED
    BY <2>1
<1>4. x \in Lines /\ (Tells(x, "turn") <=> e.what = "turn") /\ x[1] = e
  BY <1>1 DEF Tells
<1> HIDE DEF x, k
<1>5. m \in Seq(Lines) /\ Len(m) = Len(k) + 1 /\ Len(k) \in Nat
      /\ m[Len(m)] = x /\ (Len(k) > 0 => m[1] = k[1]) /\ (Len(k) = 0 => m[1] = x)
      /\ DOMAIN m = 1..(Len(k) + 1) /\ DOMAIN k = 1..Len(k)
      /\ \A i \in 1..(Len(k) + 1) : m[i] = x \/ (i \in 1..Len(k) /\ m[i] = k[i])
  <2> DEFINE n == Len(k) + 1
  <2>1. n \in Nat /\ Len(k) \in Nat /\ Len(k) = n - 1 /\ n \in 1..n
    BY <1>2
  <2> HIDE DEF n
  <2>a. Append(k, x) = [i \in 1..n |-> IF i = n THEN x ELSE k[i]] /\ Append(k, x) \in Seq(Lines)
        /\ Len(Append(k, x)) = n
    BY <1>2, <1>4, <2>1, AppendIs
  <2>2. m = [i \in 1..n |-> IF i = n THEN x ELSE k[i]] /\ m \in Seq(Lines) /\ Len(m) = n
    BY ONLY <1>3, <2>a
  <2>3. m[n] = x
    BY <2>1, <2>2
  <2>4. Len(k) > 0 => 1 \in 1..n /\ 1 # n
    BY <2>1
  <2>5. Len(k) = 0 => n = 1
    BY <2>1
  <2>6. Len(k) > 0 => m[1] = k[1]
    BY <2>2, <2>4
  <2> QED
    <3>1. DOMAIN m = 1..n /\ DOMAIN k = 1..Len(k)
      BY <1>2, <2>2
    <3>2. \A i \in 1..n : i = n \/ i \in 1..Len(k)
      BY <2>1
    <3>3. \A i \in 1..n : m[i] = x \/ (i \in 1..Len(k) /\ m[i] = k[i])
      BY <2>2, <3>2
    <3>4. QED
      BY <2>1, <2>2, <2>3, <2>5, <2>6, <3>1, <3>3 DEF n
<1>6. Len(m) > 0
  BY <1>5
<1>7. m # NoFile
  <2>1. Seq(Lines) \subseteq Seq(Seq(Parts))
    BY DEF Lines
  <2> QED
    BY <1>5, <2>1, FilesAssumption
<1>12. k # NoFile
  <2>1. Seq(Lines) \subseteq Seq(Seq(Parts))
    BY DEF Lines
  <2> QED
    BY <1>2, <2>1, FilesAssumption
<1>8. TurnsIn(m) = TurnsStep(TurnsIn(l), x)
  BY <1>2, <1>3, <1>4, <1>7, TurnsBehind DEF TurnsIn
<1>9. TurnsIn(m) = IF e.what = "turn" THEN Append(TurnsIn(l), e) ELSE TurnsIn(l)
  BY <1>4, <1>8 DEF TurnsStep
<1>10. IF l = NoFile THEN m[1] = <<e>> ELSE Len(l) > 0 => m[1] = l[1]
  <2>1. l = NoFile => Len(k) = 0
    BY DEF k
  <2>2. l # NoFile => k = l
    BY DEF k
  <2> QED
    BY <1>5, <2>1, <2>2 DEF x
<1>11. ASSUME e.what \notin {"spoiling", "dangling"}, l # NoFile => Sound(l) PROVE Sound(m)
  <2>1. Sound(k)
    <3>1. DOMAIN <<>> = {}
      OBVIOUS
    <3>2. k = l \/ k = <<>>
      BY DEF k
    <3>3. k = <<>> => Sound(k)
      BY <3>1 DEF Sound
    <3>4. k = l => l # NoFile
      BY <1>2, <1>12
    <3> QED
      BY <1>11, <3>2, <3>3, <3>4
  <2>2. Decodes(x) /\ Last(x).what # "dangling"
    <3>1. DOMAIN <<e>> = {1} /\ <<e>>[1] = e /\ Len(<<e>>) = 1
      OBVIOUS
    <3> QED
      BY <1>11, <3>1 DEF Decodes, Last, x
  <2>3. ASSUME NEW i \in DOMAIN m PROVE Decodes(m[i]) /\ Last(m[i]).what # "dangling"
    <3>1. m[i] = x \/ (i \in DOMAIN k /\ m[i] = k[i])
      BY <1>5, <2>3
    <3> QED
      BY <2>1, <2>2, <3>1 DEF Sound
  <2> QED
    BY <2>3 DEF Sound
<1> QED
  BY <1>5, <1>6, <1>7, <1>9, <1>10, <1>11 DEF x


\* What the turns written are, once e is.
Noted(t, e) == IF e.what = "turn" THEN Append(t, e) ELSE t

\* What may be left of a record, and a harm that is counted.
Left(e) == {e} \cup {As(e, what) : what \in {"broken", "spoiling", "dangling"}}

Counted(harmed, c) == IF harmed THEN c + 1 ELSE c

\* A part with a line of its own.
Added(l, part) == IF l = NoFile THEN <<<<part>>>> ELSE Append(l, <<part>>)


LEMMA NotedIs ==
    ASSUME NEW t \in Seq(Parts), NEW e \in Parts
    PROVE  /\ Noted(t, e) \in Seq(Parts)
           /\ ToSet(t) \subseteq ToSet(Noted(t, e))
           /\ ToSet(Noted(t, e)) \subseteq ToSet(t) \cup {e}
           /\ e.what = "turn" => e \in ToSet(Noted(t, e))
  BY AppendAdds DEF Noted

\* A write when the last line is closed, whole or harmed.
LEMMA ChatWrites ==
    ASSUME NEW l, NEW t, NEW sc \in BOOLEAN, NEW w \in Nat, NEW c \in Nat,
           ChatInv(l, FALSE, t, sc, w, c),
           NEW e \in Parts, e.write = w + 1, e.what \in {"session", "turn", "event"},
           e.what = "session" <=> l = NoFile,
           NEW left \in Left(e), NEW o \in BOOLEAN, NEW h \in BOOLEAN, o => h, ~h => left = e
    PROVE  ChatInv(Added(l, left), o, Noted(t, e), sc \/ h, w + 1, Counted(h, c))
<1> DEFINE m == Added(l, left)  k == Counted(h, c)  cut == sc \/ h
           T == TurnsIn(l)  U == TurnsIn(m)  u == Noted(t, e)
<1>1. left \in Parts /\ left.write = w + 1 /\ (left.what = "turn" => left = e)
      /\ (left = e \/ left.what \in {"broken", "spoiling", "dangling"})
  BY DEF Parts, Left, As
<1>2. /\ m \in Seq(Lines) /\ m # NoFile /\ Len(m) > 0 /\ m[Len(m)] = <<left>>
      /\ U = IF left.what = "turn" THEN Append(T, left) ELSE T
      /\ IF l = NoFile THEN m[1] = <<left>> ELSE Len(l) > 0 => m[1] = l[1]
      /\ left.what \notin {"spoiling", "dangling"} /\ (l # NoFile => Sound(l)) => Sound(m)
  <2>1. l # NoFile => l \in Seq(Lines)
    BY DEF ChatInv
  <2> QED
    BY <1>1, <2>1, LineBehind DEF Added
<1>3. /\ t \in Seq(Parts) /\ InOrder(T, w) /\ ToSet(T) \subseteq ToSet(t) /\ T \in Seq(Parts)
      /\ IsFiniteSet(Lost(l, t)) /\ Cardinality(Lost(l, t)) <= 2 * c
      /\ (~sc => T = t)
      /\ (~sc /\ l # NoFile => Len(l) > 0 /\ Tells(l[1], "session") /\ Sound(l))
  <2>1. IsFiniteSet(Lost(l, t)) /\ Cardinality(Lost(l, t)) + 0 <= 2 * c
    BY DEF ChatInv, Risk
  <2>2. Cardinality(Lost(l, t)) \in Nat
    BY <2>1, FS_CardinalityType
  <2> QED
    BY <2>1, <2>2 DEF ChatInv, InOrder
<1>4. /\ u \in Seq(Parts) /\ ToSet(t) \subseteq ToSet(u) /\ ToSet(u) \subseteq ToSet(t) \cup {e}
      /\ e.what = "turn" => e \in ToSet(u)
  BY <1>3, NotedIs
<1>5. ToSet(Append(T, left)) = ToSet(T) \cup {left}
  BY <1>1, <1>3, AppendAdds
<1>6. Lost(l, t) = ToSet(t) \ ToSet(T) /\ Lost(m, u) = ToSet(u) \ ToSet(U)
  BY DEF Lost
<1>7. InOrder(U, w + 1)
  BY <1>1, <1>2, <1>3, OrderGrows, OrderLasts
<1>8. ToSet(U) \subseteq ToSet(u)
  BY <1>1, <1>2, <1>3, <1>4, <1>5
<1>9. ~cut => U = u /\ Tells(m[1], "session") /\ Sound(m)
  <2> SUFFICES ASSUME ~cut PROVE U = u /\ Tells(m[1], "session") /\ Sound(m)
    OBVIOUS
  <2>1. ~sc /\ left = e
    OBVIOUS
  <2>5. Sound(m)
    BY <1>2, <1>3, <2>1
  <2>2. U = u
    BY <1>2, <1>3, <2>1 DEF Noted
  <2>3. CASE l = NoFile
    <3>1. m[1] = <<e>> /\ e.what = "session"
      BY <1>2, <2>1, <2>3
    <3>2. Len(<<e>>) = 1 /\ <<e>>[1] = e
      OBVIOUS
    <3> QED
      BY ONLY <2>2, <2>5, <3>1, <3>2 DEF Tells
  <2>4. CASE l # NoFile
    <3>1. Len(l) > 0 /\ Tells(l[1], "session")
      BY <1>3, <2>1, <2>4
    <3>2. m[1] = l[1]
      BY ONLY <1>2, <2>4, <3>1
    <3> QED
      BY ONLY <2>2, <2>5, <3>1, <3>2
  <2> QED
    BY <2>2, <2>3, <2>4, <2>5
<1>10. e.what # "turn" => u = t
  BY DEF Noted
<1>11. Risk(m, o) = IF ~o THEN 0 ELSE IF left.what = "turn" THEN 2 ELSE 1
  BY <1>2 DEF Risk, Tells
<1>a. (h => k = c + 1) /\ (~h => k = c) /\ k \in Nat
  BY DEF Counted
<1> HIDE DEF T, U, u, m, k
<1>12. IsFiniteSet(Lost(m, u)) /\ Cardinality(Lost(m, u)) + Risk(m, o) <= 2 * k
  <2>1. CASE left.what = "turn" \/ e.what # "turn"
    <3>1. Lost(m, u) \subseteq Lost(l, t)
      BY <1>1, <1>2, <1>3, <1>4, <1>5, <1>6, <1>10, <2>1
    <3>2. IsFiniteSet(Lost(m, u)) /\ Cardinality(Lost(m, u)) <= Cardinality(Lost(l, t))
          /\ Cardinality(Lost(m, u)) \in Nat /\ Cardinality(Lost(l, t)) \in Nat
      BY <1>3, <3>1, LosesNone
    <3>3. Risk(m, o) \in Nat /\ (o => Risk(m, o) <= 2) /\ (~o => Risk(m, o) = 0)
      BY <1>11
    <3>4. (o => k = c + 1) /\ (k = c \/ k = c + 1)
      BY <1>a
    <3>5. Cardinality(Lost(m, u)) + Risk(m, o) <= 2 * k
      <4>1. CASE o
        BY <1>3, <3>2, <3>3, <3>4, <4>1, Counts
      <4>2. CASE ~o
        BY <1>3, <3>2, <3>3, <3>4, <4>2
      <4> QED
        BY <4>1, <4>2
    <3> QED
      BY <3>2, <3>5
  <2>2. CASE left.what # "turn" /\ e.what = "turn"
    <3>1. Lost(m, u) \subseteq Lost(l, t) \cup {e}
      BY <1>2, <1>4, <1>6, <2>2
    <3>2. IsFiniteSet(Lost(m, u)) /\ Cardinality(Lost(m, u)) <= Cardinality(Lost(l, t)) + 1
          /\ Cardinality(Lost(m, u)) \in Nat /\ Cardinality(Lost(l, t)) \in Nat
      BY <1>3, <3>1, LosesOne
    <3>3. h /\ Risk(m, o) \in {0, 1}
      BY <1>11, <2>2
    <3>4. Cardinality(Lost(m, u)) + 1 <= 2 * (c + 1) /\ k = c + 1
      BY <1>3, <1>a, <3>2, <3>3, Counts
    <3> QED
      BY <3>2, <3>3, <3>4
  <2> QED
    BY <2>1, <2>2
<1>13. o => cut
  OBVIOUS
<1> QED
  BY <1>2, <1>4, <1>7, <1>8, <1>9, <1>12, <1>13 DEF ChatInv, T, U, u, m, k

\* A write behind an open line: both are lost.
LEMMA ChatGlues ==
    ASSUME NEW l, NEW t, NEW sc \in BOOLEAN, NEW w \in Nat, NEW c \in Nat,
           ChatInv(l, TRUE, t, sc, w, c), NEW e \in Parts, e.write = w + 1,
           NEW left \in Left(e), NEW o \in BOOLEAN, NEW h \in BOOLEAN, o => h
    PROVE  ChatInv(Joined(l, left), o, Noted(t, e), TRUE, w + 1, Counted(h, c))
<1> DEFINE m == Joined(l, left)  k == Counted(h, c)
           T == TurnsIn(l)  U == TurnsIn(m)  u == Noted(t, e)  last == l[Len(l)]
<1>1. left \in Parts
  BY DEF Parts, Left, As
<1>2. /\ l # NoFile /\ l \in Seq(Lines) /\ Len(l) > 0
      /\ t \in Seq(Parts) /\ InOrder(T, w) /\ ToSet(T) \subseteq ToSet(t)
      /\ IsFiniteSet(Lost(l, t)) /\ Cardinality(Lost(l, t)) + Risk(l, TRUE) <= 2 * c
  BY DEF ChatInv
<1>3. /\ m \in Seq(Lines) /\ Len(m) = Len(l) /\ Len(m[Len(m)]) # 1
      /\ TurnsOf(m) \in Seq(Parts) /\ TurnsOf(l) = TurnsStep(TurnsOf(m), last)
  BY <1>1, <1>2, Glued
<1>4. m # NoFile
  <2>1. Seq(Lines) \subseteq Seq(Seq(Parts))
    BY DEF Lines
  <2> QED
    BY <1>3, <2>1, FilesAssumption
<1>5. T = TurnsStep(U, last) /\ U \in Seq(Parts)
  BY <1>2, <1>3, <1>4 DEF TurnsIn
<1>6. /\ u \in Seq(Parts) /\ ToSet(t) \subseteq ToSet(u) /\ ToSet(u) \subseteq ToSet(t) \cup {e}
  BY <1>2, NotedIs
<1>7. last \in Lines /\ last[1] \in Parts
  <2>1. Len(l) \in 1..Len(l)
    BY <1>2
  <2>2. last \in Lines
    BY <1>2, <2>1
  <2> QED
    BY <2>2 DEF Lines
<1>8. Lost(l, t) = ToSet(t) \ ToSet(T) /\ Lost(m, u) = ToSet(u) \ ToSet(U)
  BY DEF Lost
<1>9. Risk(m, o) = IF o THEN 1 ELSE 0
  <2>1. ~Tells(m[Len(m)], "turn")
    <3>1. Len(m[Len(m)]) # 1
      BY ONLY <1>3
    <3> QED
      BY ONLY <3>1 DEF Tells
  <2> QED
    BY <2>1 DEF Risk
<1>a. (o => k = c + 1) /\ (k = c \/ k = c + 1) /\ k \in Nat
  BY DEF Counted
<1>10. Risk(l, TRUE) = IF Tells(last, "turn") THEN 2 ELSE 1
  BY DEF Risk
<1>11. T = IF Tells(last, "turn") THEN Append(U, last[1]) ELSE U
  BY <1>5 DEF TurnsStep
<1> HIDE DEF T, U, u, last, m, k
<1>12. /\ InOrder(U, w) /\ ToSet(U) \subseteq ToSet(T)
       /\ ToSet(T) \subseteq IF Tells(last, "turn") THEN ToSet(U) \cup {last[1]} ELSE ToSet(U)
  BY <1>2, <1>5, <1>7, <1>11, AppendAdds, OrderShortens
<1>13. InOrder(U, w + 1)
  BY <1>12, OrderLasts
<1>14. IsFiniteSet(Lost(m, u)) /\ Cardinality(Lost(m, u)) + Risk(m, o) <= 2 * k
  <2> DEFINE One == Lost(l, t) \cup {e}
  <2>1. IsFiniteSet(One) /\ Cardinality(One) <= Cardinality(Lost(l, t)) + 1
        /\ Cardinality(One) \in Nat /\ Cardinality(Lost(l, t)) \in Nat
    BY <1>2, LosesOne
  <2>2. CASE Tells(last, "turn")
    <3>1. Lost(m, u) \subseteq One \cup {last[1]}
      BY <1>6, <1>8, <1>12, <2>2
    <3> HIDE DEF One
    <3>2. IsFiniteSet(Lost(m, u)) /\ Cardinality(Lost(m, u)) <= Cardinality(One) + 1
          /\ Cardinality(Lost(m, u)) \in Nat
      BY <2>1, <3>1, LosesOne
    <3>3. Cardinality(Lost(m, u)) + 0 <= 2 * c
      BY <1>2, <1>10, <2>1, <2>2, <3>2, Counts
    <3> QED
      BY <1>a, <1>9, <3>2, <3>3
  <2>3. CASE ~Tells(last, "turn")
    <3>1. Lost(m, u) \subseteq One
      BY <1>6, <1>8, <1>12, <2>3
    <3> HIDE DEF One
    <3>2. IsFiniteSet(Lost(m, u)) /\ Cardinality(Lost(m, u)) <= Cardinality(One)
          /\ Cardinality(Lost(m, u)) \in Nat
      BY <2>1, <3>1, LosesNone
    <3>3. Cardinality(Lost(m, u)) + 0 <= 2 * c
      BY <1>2, <1>10, <2>1, <2>3, <3>2, Counts
    <3> QED
      BY <1>a, <1>9, <3>2, <3>3
  <2> QED
    BY <2>2, <2>3
<1>15. ToSet(U) \subseteq ToSet(u)
  BY <1>2, <1>6, <1>12
<1>16. Len(m) > 0
  BY <1>2, <1>3
<1> QED
  BY <1>3, <1>4, <1>6, <1>13, <1>14, <1>15, <1>16 DEF ChatInv, U, u, m, k

\* A write that leaves nothing but perhaps an empty file.
LEMMA ChatMisses ==
    ASSUME NEW l, NEW o \in BOOLEAN, NEW t, NEW sc \in BOOLEAN, NEW w \in Nat, NEW c \in Nat,
           ChatInv(l, o, t, sc, w, c), NEW e \in Parts, e.write = w + 1,
           NEW m, m = IF l = NoFile THEN <<>> ELSE l
    PROVE  ChatInv(m, o, Noted(t, e), TRUE, w + 1, c + 1)
<1> DEFINE T == TurnsIn(l)  U == TurnsIn(m)  u == Noted(t, e)
<1>1. /\ (l # NoFile => l \in Seq(Lines)) /\ (l = NoFile => ~o) /\ (o => Len(l) > 0)
      /\ t \in Seq(Parts) /\ InOrder(T, w) /\ ToSet(T) \subseteq ToSet(t)
      /\ IsFiniteSet(Lost(l, t)) /\ Cardinality(Lost(l, t)) + Risk(l, o) <= 2 * c
  BY DEF ChatInv
<1>2. <<>> \in Seq(Lines) /\ <<>> # NoFile
  <2>1. <<>> \in Seq(Lines) /\ <<>> \in Seq(Seq(Parts))
    OBVIOUS
  <2> QED
    BY <2>1, FilesAssumption
<1>3. U = T
  BY <1>2, TurnsOfNothing DEF TurnsIn
<1>4. /\ u \in Seq(Parts) /\ ToSet(t) \subseteq ToSet(u) /\ ToSet(u) \subseteq ToSet(t) \cup {e}
  BY <1>1, NotedIs
<1>5. Lost(m, u) \subseteq Lost(l, t) \cup {e}
  BY <1>3, <1>4 DEF Lost
<1>6. IsFiniteSet(Lost(m, u)) /\ Cardinality(Lost(m, u)) <= Cardinality(Lost(l, t)) + 1
      /\ Cardinality(Lost(m, u)) \in Nat /\ Cardinality(Lost(l, t)) \in Nat
  BY <1>1, <1>5, LosesOne
<1>7. Risk(m, o) = Risk(l, o) /\ Risk(l, o) \in Nat
  BY <1>1 DEF Risk
<1>8. Cardinality(Lost(m, u)) + Risk(m, o) <= 2 * (c + 1)
  BY <1>1, <1>6, <1>7
<1>9. InOrder(U, w + 1)
  BY <1>1, <1>3, OrderLasts
<1>10. m # NoFile /\ m \in Seq(Lines) /\ (o => Len(m) > 0) /\ ToSet(U) \subseteq ToSet(u)
  BY <1>1, <1>2, <1>3, <1>4
<1> QED
  BY <1>4, <1>6, <1>8, <1>9, <1>10 DEF ChatInv, U, u


----------------------------------------------------------------------------
(* All the files. *)

LikesOf(b) == {l \in Likes : l.buyer = b}

\* A file of preferences names its buyer alone, and holds what he means.
ListInv(b) ==
    /\ liked[Path(b)] \in {NoFile, Torn} \cup SUBSET LikesOf(b)
    /\ Meaning(PreferencesOf(b)) \subseteq meant[b]
    /\ b \notin scarred => Meaning(PreferencesOf(b)) = meant[b]

ChatOf(s) == ChatInv(lines[s], s \in open, told[s], s \in scarred, writes, harms)

FilesInv ==
    /\ writes \in Nat /\ writes <= MaxWrites /\ harms \in Nat
    /\ DOMAIN liked = Paths /\ legacy \in [Names -> {NoFile} \cup SUBSET Likes]
    /\ DOMAIN meant = Owners /\ \A b \in Owners : ListInv(b)
    /\ DOMAIN snapshot = Chats /\ DOMAIN saves = Chats /\ \A s \in Chats : Restored(s) = saves[s]
    /\ DOMAIN lines = Chats /\ DOMAIN told = Chats /\ \A s \in Chats : ChatOf(s)

LEMMA ListIs ==
    ASSUME FilesInv, NEW b \in Owners
    PROVE  PreferencesOf(b) \in SUBSET LikesOf(b)
<1>1. legacy[NameOf[b]] \in {NoFile} \cup SUBSET Likes /\ liked[Path(b)] \in {NoFile, Torn} \cup SUBSET LikesOf(b)
  BY DEF FilesInv, ListInv, Names
<1> QED
  BY <1>1 DEF PreferencesOf, LikesOf

LEMMA FilesStart == FilesInit => FilesInv
<1> SUFFICES ASSUME FilesInit PROVE FilesInv
  OBVIOUS
<1>1. /\ liked = [p \in Paths |-> NoFile] /\ legacy \in [Names -> {NoFile} \cup SUBSET Likes]
      /\ snapshot = [s \in Chats |-> NoFile] /\ saves = [s \in Chats |-> NoFile]
      /\ lines = [s \in Chats |-> NoFile] /\ told = [s \in Chats |-> <<>>]
      /\ open = {} /\ scarred = {} /\ writes = 0 /\ harms = 0
      /\ meant = [b \in Owners |-> Meaning(PreferencesOf(b))]
  BY DEF FilesInit
<1>2. ASSUME NEW b \in Owners PROVE ListInv(b)
  <2>1. Path(b) \in Paths
    BY DEF Paths
  <2>2. liked[Path(b)] = NoFile /\ meant[b] = Meaning(PreferencesOf(b))
    BY <1>1, <2>1
  <2> QED
    BY <2>2 DEF ListInv
<1>3. ASSUME NEW s \in Chats PROVE Restored(s) = saves[s]
  BY <1>1 DEF Restored
<1>4. ASSUME NEW s \in Chats PROVE ChatOf(s)
  <2>1. lines[s] = NoFile /\ told[s] = <<>> /\ s \notin open /\ s \notin scarred /\ writes = 0 /\ harms = 0
    BY <1>1
  <2>2. ToSet(<<>>) = {} /\ <<>> \in Seq(Parts) /\ Len(<<>>) = 0
    BY DEF ToSet
  <2>3. Lost(NoFile, <<>>) = {}
    BY <2>2 DEF Lost
  <2>4. TurnsIn(NoFile) = <<>> /\ Risk(NoFile, FALSE) = 0
    BY DEF TurnsIn, Risk
  <2>5. InOrder(<<>>, 0)
    BY <2>2 DEF InOrder
  <2>a. IsFiniteSet({}) /\ Cardinality({}) + 0 <= 2 * 0
    BY FS_EmptySet
  <2>b. ToSet(TurnsIn(NoFile)) \subseteq ToSet(<<>>)
    BY <2>4
  <2>6. ChatInv(NoFile, FALSE, <<>>, FALSE, 0, 0)
    BY <2>2, <2>3, <2>4, <2>5, <2>a, <2>b DEF ChatInv
  <2>7. (s \in open) = FALSE /\ (s \in scarred) = FALSE
    BY <2>1
  <2> QED
    BY <2>1, <2>6, <2>7 DEF ChatOf
<1> QED
  BY <1>1, <1>2, <1>3, <1>4, FilesAssumption DEF FilesInv

\* What a step is, seen from the files it does not write.
Steps ==
    /\ writes' \in Nat /\ writes <= writes' /\ writes' <= MaxWrites
    /\ harms' \in Nat /\ harms <= harms' /\ scarred \subseteq scarred'

LEMMA ChatStays ==
    ASSUME FilesInv, Steps, NEW s \in Chats,
           lines'[s] = lines[s], told'[s] = told[s], s \in open' <=> s \in open
    PROVE  ChatOf(s)'
<1> DEFINE o == s \in open  sc == s \in scarred  sd == s \in scarred'
<1>1. ChatInv(lines[s], o, told[s], sc, writes, harms) /\ writes \in Nat /\ harms \in Nat
  BY DEF FilesInv, ChatOf
<1>2. o \in BOOLEAN /\ sc \in BOOLEAN /\ sd \in BOOLEAN /\ (sc => sd)
  BY DEF Steps
<1>3. (s \in open)' = o /\ (s \in scarred)' = sd
  OBVIOUS
<1> HIDE DEF o, sc, sd
<1>4. ChatInv(lines[s], o, told[s], sd, writes', harms')
  BY <1>1, <1>2, ChatLasts DEF Steps
<1>5. ChatInv(lines[s], s \in open', told[s], s \in scarred', writes', harms')
  BY <1>4 DEF o, sd
<1> QED
  BY <1>5 DEF ChatOf

LEMMA ListStays ==
    ASSUME FilesInv, Steps, NEW b \in Owners,
           liked'[Path(b)] = liked[Path(b)], legacy' = legacy, meant'[b] = meant[b]
    PROVE  ListInv(b)'
<1>1. PreferencesOf(b)' = PreferencesOf(b)
  BY DEF PreferencesOf, Path
<1>2. ListInv(b)
  BY DEF FilesInv
<1>3. liked[Path(b)]' = liked[Path(b)]
  BY DEF Path
<1> QED
  BY <1>1, <1>2, <1>3 DEF ListInv, Steps, Path


LEMMA RewriteKeeps ==
    ASSUME FilesInv, NEW b \in Owners, NEW list \in SUBSET LikesOf(b), Rewrite(b, list),
           NEW M, meant' = [meant EXCEPT ![b] = M], Meaning(list) \subseteq M,
           b \notin scarred => Meaning(list) = M
    PROVE  FilesInv'
<1>1. Steps
  BY FilesAssumption DEF FilesInv, Rewrite, Write, Harm, Steps
<1>2. /\ UNCHANGED <<legacy, snapshot, lines, open, told, saves>>
      /\ DOMAIN liked' = Paths /\ DOMAIN meant' = Owners /\ meant'[b] = M
      /\ \/ liked'[Path(b)] = list /\ scarred' = scarred
         \/ liked'[Path(b)] = Torn /\ b \in scarred'
      /\ \A p \in Paths : p # Path(b) => liked'[p] = liked[p]
      /\ \A c \in Owners : c # b => meant'[c] = meant[c]
  <2>1. Path(b) \in Paths
    BY DEF Paths
  <2>2. DOMAIN liked = Paths /\ DOMAIN meant = Owners
    BY DEF FilesInv
  <2> QED
    BY <2>1, <2>2 DEF Rewrite
<1>3. ASSUME NEW s \in Chats PROVE ChatOf(s)' /\ Restored(s)' = saves'[s]
  BY <1>1, <1>2, ChatStays DEF FilesInv, Restored
<1>4. ASSUME NEW c \in Owners, c # b PROVE ListInv(c)'
  <2>1. Path(c) # Path(b) /\ Path(c) \in Paths
    BY <1>4 DEF Path, Paths
  <2> QED
    BY <1>1, <1>2, <1>4, <2>1, ListStays
<1>5. ListInv(b)'
  <2>1. CASE liked'[Path(b)] = list /\ scarred' = scarred
    <3>1. list # NoFile /\ list # Torn /\ \A l \in list : l.buyer = b
      BY FilesAssumption DEF LikesOf
    <3>2. PreferencesOf(b)' = list
      BY <2>1, <3>1 DEF PreferencesOf, Path
    <3> QED
      BY <1>2, <2>1, <3>2 DEF ListInv, Path, Meaning
  <2>2. CASE liked'[Path(b)] = Torn /\ b \in scarred'
    <3>1. PreferencesOf(b)' = {}
      BY <2>2, FilesAssumption DEF PreferencesOf, Path
    <3>2. Meaning({}) = {}
      BY DEF Meaning
    <3>3. Meaning(PreferencesOf(b))' = {}
      BY <3>1 DEF Meaning
    <3> QED
      BY <1>2, <2>2, <3>3 DEF ListInv, Path
  <2> QED
    BY <1>2, <2>1, <2>2
<1> QED
  <2>1. \A s \in Chats : ChatOf(s)' /\ Restored(s)' = saves'[s]
    BY <1>3
  <2>2. \A c \in Owners : ListInv(c)'
    BY <1>4, <1>5
  <2>3. /\ DOMAIN snapshot' = Chats /\ DOMAIN saves' = Chats /\ DOMAIN lines' = Chats /\ DOMAIN told' = Chats
        /\ legacy' \in [Names -> {NoFile} \cup SUBSET Likes]
    BY <1>2 DEF FilesInv
  <2> QED
    BY <1>1, <1>2, <2>1, <2>2, <2>3 DEF FilesInv, Steps

LEMMA AppendPreferenceKeeps ==
    ASSUME FilesInv, NEW l \in Likes, AppendPreference(l) PROVE FilesInv'
<1> DEFINE b == l.buyer  list == PreferencesOf(b) \cup {l}
           M == meant[b] \cup {<<l.kind, l.says>>}
<1>1. b \in Owners
  BY DEF Likes
<1>2. meant' = [meant EXCEPT ![b] = M] /\ Rewrite(b, list)
  BY DEF AppendPreference
<1>3. list \in SUBSET LikesOf(b)
  BY <1>1, ListIs DEF LikesOf
<1>4. Meaning(PreferencesOf(b)) \subseteq meant[b] /\ (b \notin scarred => Meaning(PreferencesOf(b)) = meant[b])
  BY <1>1 DEF FilesInv, ListInv
<1>5. Meaning(list) = Meaning(PreferencesOf(b)) \cup {<<l.kind, l.says>>}
  BY DEF Meaning
<1>6. Meaning(list) \subseteq M /\ (b \notin scarred => Meaning(list) = M)
  BY <1>4, <1>5
<1> HIDE DEF b, list, M
<1> QED
  BY <1>1, <1>2, <1>3, <1>6, RewriteKeeps

LEMMA DeletePreferenceKeeps ==
    ASSUME FilesInv, NEW b \in Owners, NEW w \in Sayings, DeletePreference(b, w) PROVE FilesInv'
<1> DEFINE remaining == {l \in PreferencesOf(b) : l.says # w}
           M == {p \in meant[b] : p[2] # w}
<1>1. meant' = [meant EXCEPT ![b] = M]
  BY DEF DeletePreference
<1>2. remaining \in SUBSET LikesOf(b)
  BY ListIs
<1>3. Meaning(PreferencesOf(b)) \subseteq meant[b] /\ (b \notin scarred => Meaning(PreferencesOf(b)) = meant[b])
  BY DEF FilesInv, ListInv
<1>4. Meaning(remaining) = {p \in Meaning(PreferencesOf(b)) : p[2] # w}
  <2>1. \A k, s : <<k, s>>[2] = s
    OBVIOUS
  <2> QED
    BY <2>1 DEF Meaning
<1>5. Meaning(remaining) \subseteq M /\ (b \notin scarred => Meaning(remaining) = M)
  BY <1>3, <1>4
<1>6. CASE remaining # PreferencesOf(b)
  <2>1. Rewrite(b, remaining)
    BY <1>6 DEF DeletePreference
  <2> HIDE DEF remaining, M
  <2> QED
    BY <1>1, <1>2, <1>5, <2>1, RewriteKeeps
<1>7. CASE remaining = PreferencesOf(b)
  <2>1. UNCHANGED <<liked, legacy, snapshot, lines, open, told, scarred, saves, writes, harms>>
    BY <1>7 DEF DeletePreference
  <2>2. Steps
    BY <2>1 DEF FilesInv, Steps
  <2>3. DOMAIN meant = Owners /\ meant'[b] = M /\ DOMAIN meant' = Owners
        /\ \A c \in Owners : c # b => meant'[c] = meant[c]
    BY <1>1 DEF FilesInv
  <2>4. ASSUME NEW s \in Chats PROVE ChatOf(s)' /\ Restored(s)' = saves'[s]
    BY <2>1, <2>2, ChatStays DEF FilesInv, Restored
  <2>5. ASSUME NEW c \in Owners, c # b PROVE ListInv(c)'
    BY <2>1, <2>2, <2>3, <2>5, ListStays
  <2>6. ListInv(b)'
    <3>1. PreferencesOf(b)' = PreferencesOf(b) /\ liked[Path(b)]' = liked[Path(b)]
      BY <2>1 DEF PreferencesOf, Path
    <3>2. Meaning(PreferencesOf(b))' = Meaning(remaining)
      BY <1>7, <3>1
    <3>3. liked[Path(b)] \in {NoFile, Torn} \cup SUBSET LikesOf(b)
      BY DEF FilesInv, ListInv
    <3> HIDE DEF remaining, M
    <3>4. liked[Path(b)]' \in {NoFile, Torn} \cup SUBSET LikesOf(b)
      BY <3>1, <3>3
    <3> QED
      BY <1>5, <2>1, <2>3, <3>2, <3>4 DEF ListInv
  <2>7. \A s \in Chats : ChatOf(s)' /\ Restored(s)' = saves'[s]
    BY <2>4
  <2>8. \A c \in Owners : ListInv(c)'
    BY <2>5, <2>6
  <2> QED
    BY <2>1, <2>3, <2>7, <2>8 DEF FilesInv
<1> QED
  BY <1>6, <1>7


LEMMA SaveKeeps == ASSUME FilesInv, NEW s \in Chats, Save(s) PROVE FilesInv'
<1>1. Steps
  BY FilesAssumption DEF FilesInv, Save, Write, Harm, Steps
<1>2. UNCHANGED <<liked, legacy, lines, open, meant, told, scarred>>
  BY DEF Save
<1>3. \A r \in Chats : ChatOf(r)'
  BY <1>1, <1>2, ChatStays
<1>4. \A b \in Owners : ListInv(b)'
  BY <1>1, <1>2, ListStays
<1>5. writes + 1 \in 1..MaxWrites /\ writes + 1 # NoFile /\ writes + 1 # Torn
  BY FilesAssumption DEF FilesInv, Save, Write
<1>6. DOMAIN snapshot' = Chats /\ DOMAIN saves' = Chats /\ \A r \in Chats : Restored(r)' = saves'[r]
  <2>1. DOMAIN snapshot = Chats /\ DOMAIN saves = Chats /\ \A r \in Chats : Restored(r) = saves[r]
    BY DEF FilesInv
  <2>2. DOMAIN snapshot' = Chats /\ DOMAIN saves' = Chats
        /\ \A r \in Chats : r # s => snapshot'[r] = snapshot[r] /\ saves'[r] = saves[r]
    BY <2>1 DEF Save
  <2>3. \/ snapshot'[s] = writes + 1 /\ saves'[s] = writes + 1
        \/ snapshot'[s] = Torn /\ saves'[s] = NoFile
    BY <2>1 DEF Save
  <2>4. Restored(s)' = saves'[s]
    BY <1>5, <2>3 DEF Restored
  <2>5. \A r \in Chats : r # s => Restored(r)' = saves'[r]
    BY <2>1, <2>2 DEF Restored
  <2> QED
    BY <2>2, <2>4, <2>5
<1> QED
  BY <1>1, <1>2, <1>3, <1>4, <1>6 DEF FilesInv, Steps

LEMMA AppendLineKeeps ==
    ASSUME FilesInv, NEW s \in Chats, NEW what \in {"session", "turn", "event"},
           what = "session" <=> lines[s] = NoFile,
           AppendLine(s, Part(what)), Write, UNCHANGED Kept,
           told' = told \/ told' = [told EXCEPT ![s] = Append(@, Part(what))],
           told'[s] = Noted(told[s], Part(what))
    PROVE  FilesInv'
<1> DEFINE e == Part(what)  l == lines[s]  t == told[s]  w == writes  c == harms
           o == s \in open  sc == s \in scarred
<1>1. w \in Nat /\ c \in Nat /\ w + 1 <= MaxWrites /\ writes' = w + 1 /\ ChatInv(l, o, t, sc, w, c)
  BY FilesAssumption DEF FilesInv, ChatOf, Write
<1>2. e \in Parts /\ e.write = w + 1 /\ e.what = what
  <2>1. w + 1 \in 1..MaxWrites
    BY <1>1, FilesAssumption
  <2> QED
    BY <2>1 DEF Part, Parts
<1>3. UNCHANGED <<liked, legacy, snapshot, meant, saves>>
  BY DEF Kept
<1>4. Steps
  BY <1>1, FilesAssumption DEF AppendLine, Harm, Steps
<1>5. /\ DOMAIN lines = Chats /\ DOMAIN told = Chats /\ DOMAIN lines' = Chats /\ DOMAIN told' = Chats
      /\ told'[s] = Noted(t, e)
      /\ \A r \in Chats : r # s => lines'[r] = lines[r] /\ told'[r] = told[r] /\ (r \in open' <=> r \in open)
  BY DEF FilesInv, AppendLine
<1>6. o \in BOOLEAN /\ sc \in BOOLEAN
  OBVIOUS
<1>7. \/ \E left \in Left(e), h \in BOOLEAN :
            /\ lines'[s] = Behind(s, left) /\ (s \in open' => h) /\ (~h => left = e)
            /\ (s \in scarred' <=> sc \/ h) /\ harms' = Counted(h, c)
      \/ /\ s \in scarred' /\ harms' = c + 1
         /\ lines'[s] = (IF l = NoFile THEN <<>> ELSE l) /\ (s \in open' <=> o)
  <2>1. ASSUME lines' = [lines EXCEPT ![s] = Behind(s, e)], open' = open \ {s},
               UNCHANGED <<scarred, harms>>
        PROVE  <1>7!1
    <3>1. e \in Left(e) /\ lines'[s] = Behind(s, e) /\ s \notin open'
      BY <1>5, <2>1 DEF Left
    <3>2. (s \in scarred' <=> sc \/ FALSE) /\ harms' = Counted(FALSE, c)
      BY <2>1 DEF Counted
    <3> QED
      BY <3>1, <3>2
  <2>2. ASSUME harms' = harms + 1, scarred' = scarred \cup {s},
               NEW part \in {what, "broken", "spoiling", "dangling"},
               lines' = [lines EXCEPT ![s] = Behind(s, As(e, part))]
        PROVE  <1>7!1
    <3>1. As(e, part) \in Left(e)
      <4>1. As(e, what) = e
        BY DEF As, Part
      <4> QED
        BY <2>2, <4>1 DEF Left
    <3>2. lines'[s] = Behind(s, As(e, part)) /\ (s \in scarred' <=> sc \/ TRUE)
          /\ harms' = Counted(TRUE, c)
      BY <1>5, <2>2 DEF Counted
    <3> QED
      BY <3>1, <3>2
  <2>3. ASSUME harms' = harms + 1, scarred' = scarred \cup {s}, UNCHANGED open,
               lines' = [lines EXCEPT ![s] = IF @ = NoFile THEN <<>> ELSE @]
        PROVE  <1>7!2
    BY <1>5, <2>3
  <2>4. e.what = what
    BY <1>2
  <2> HIDE DEF e
  <2> QED
    BY <2>1, <2>2, <2>3, <2>4 DEF AppendLine, Harm, e
<1>8. \A left : Behind(s, left) = IF l # NoFile /\ o THEN Joined(l, left) ELSE Added(l, left)
  BY DEF Behind, Joined, Added
<1>9. ChatInv(lines'[s], s \in open', told'[s], s \in scarred', writes', harms')
  <2> HIDE DEF e, l, t, w, c, o, sc
  <2>s. e.what = "session" <=> l = NoFile
    BY <1>2 DEF l
  <2>w. e.what \in {"session", "turn", "event"}
    BY <1>2
  <2>1. ASSUME NEW left \in Left(e), NEW h \in BOOLEAN,
               lines'[s] = Behind(s, left), s \in open' => h, ~h => left = e,
               s \in scarred' <=> sc \/ h, harms' = Counted(h, c)
        PROVE  <1>9
    <3> DEFINE p == s \in open'
    <3>1. p \in BOOLEAN /\ (p => h) /\ (s \in scarred') = (sc \/ h)
      BY <1>6, <2>1
    <3>a. (s \in open') = p
      OBVIOUS
    <3> HIDE DEF p
    <3>2. CASE o
      <4>1. ChatInv(l, TRUE, t, sc, w, c) /\ o = TRUE
        BY <1>1, <1>6, <3>2
      <4>2. sc /\ l # NoFile
        BY <4>1 DEF ChatInv
      <4>3. lines'[s] = Joined(l, left)
        BY <1>8, <2>1, <3>2, <4>2
      <4>4. ChatInv(Joined(l, left), p, Noted(t, e), TRUE, w + 1, Counted(h, c))
        <5>1. sc \in BOOLEAN /\ w \in Nat /\ c \in Nat /\ e \in Parts /\ e.write = w + 1
          BY <1>1, <1>2, <1>6
        <5>2. ChatInv(Joined(l, left), TRUE, Noted(t, e), TRUE, w + 1, Counted(TRUE, c))
          BY <4>1, <5>1, ChatGlues
        <5>3. ChatInv(Joined(l, left), FALSE, Noted(t, e), TRUE, w + 1, Counted(TRUE, c))
          BY <4>1, <5>1, ChatGlues
        <5>4. ChatInv(Joined(l, left), FALSE, Noted(t, e), TRUE, w + 1, Counted(FALSE, c))
          BY <4>1, <5>1, ChatGlues
        <5>5. \/ p = TRUE /\ h = TRUE
              \/ p = FALSE /\ h = TRUE
              \/ p = FALSE /\ h = FALSE
          BY <3>1
        <5> QED
          BY <5>2, <5>3, <5>4, <5>5
      <4>5. (s \in scarred') = TRUE
        BY <3>1, <4>2
      <4>6. writes' = w + 1 /\ harms' = Counted(h, c) /\ told'[s] = Noted(t, e)
        BY <1>1, <1>5, <2>1
      <4> QED
        BY <3>a, <4>3, <4>4, <4>5, <4>6, Zenon
    <3>3. CASE ~o
      <4>1. ChatInv(l, FALSE, t, sc, w, c) /\ o = FALSE
        BY <1>1, <1>6, <3>3
      <4>2. lines'[s] = Added(l, left)
        BY <1>8, <2>1, <3>3
      <4>3. ChatInv(Added(l, left), p, Noted(t, e), sc \/ h, w + 1, Counted(h, c))
        <5>1. sc \in BOOLEAN /\ w \in Nat /\ c \in Nat /\ e \in Parts /\ e.write = w + 1
          BY <1>1, <1>2, <1>6
        <5>2. ChatInv(Added(l, left), TRUE, Noted(t, e), sc \/ TRUE, w + 1, Counted(TRUE, c))
          BY <2>s, <2>w, <4>1, <5>1, ChatWrites
        <5>3. ChatInv(Added(l, left), FALSE, Noted(t, e), sc \/ TRUE, w + 1, Counted(TRUE, c))
          BY <2>s, <2>w, <4>1, <5>1, ChatWrites
        <5>4. ASSUME left = e
              PROVE  ChatInv(Added(l, left), FALSE, Noted(t, e), sc \/ FALSE, w + 1, Counted(FALSE, c))
          BY <2>s, <2>w, <4>1, <5>1, <5>4, ChatWrites
        <5>5. \/ p = TRUE /\ h = TRUE
              \/ p = FALSE /\ h = TRUE
              \/ p = FALSE /\ h = FALSE /\ left = e
          BY <2>1, <3>1
        <5> QED
          BY <5>2, <5>3, <5>4, <5>5
      <4>4. writes' = w + 1 /\ harms' = Counted(h, c) /\ told'[s] = Noted(t, e)
        BY <1>1, <1>5, <2>1
      <4>5. (s \in scarred') = (sc \/ h)
        BY <3>1
      <4> QED
        BY <3>a, <4>2, <4>3, <4>4, <4>5, Zenon
    <3> QED
      BY <3>2, <3>3
  <2>2. CASE /\ s \in scarred' /\ harms' = c + 1
             /\ lines'[s] = (IF l = NoFile THEN <<>> ELSE l) /\ (s \in open' <=> o)
    <3>1. (s \in open') = o /\ (s \in scarred') = TRUE
      BY <1>6, <2>2
    <3>2. ChatInv(lines'[s], o, Noted(t, e), TRUE, w + 1, c + 1)
      BY <1>1, <1>2, <1>6, <2>2, ChatMisses
    <3> QED
      BY <1>1, <1>5, <2>2, <3>1, <3>2
  <2> QED
    BY <1>7, <2>1, <2>2
<1>10. ChatOf(s)'
  BY <1>9 DEF ChatOf
<1>11. \A r \in Chats : ChatOf(r)'
  BY <1>4, <1>5, <1>10, ChatStays
<1>12. \A r \in Chats : Restored(r)' = saves'[r]
  BY <1>3 DEF Restored, FilesInv
<1>13. \A r \in Owners : ListInv(r)'
  BY <1>3, <1>4, ListStays
<1>14. /\ DOMAIN liked' = Paths /\ legacy' \in [Names -> {NoFile} \cup SUBSET Likes]
       /\ DOMAIN meant' = Owners /\ DOMAIN snapshot' = Chats /\ DOMAIN saves' = Chats
  BY <1>3 DEF FilesInv
<1> QED
  BY <1>4, <1>5, <1>11, <1>12, <1>13, <1>14 DEF FilesInv, Steps

LEMMA FilesKept == FilesInv /\ [FilesNext]_fileVars => FilesInv'
<1> SUFFICES ASSUME FilesInv, [FilesNext]_fileVars PROVE FilesInv'
  OBVIOUS
<1>1. CASE PreferencesNext
  BY <1>1, AppendPreferenceKeeps, DeletePreferenceKeeps DEF PreferencesNext
<1>2. ASSUME NEW s \in Chats, TouchSession(s) PROVE FilesInv'
  <2>1. Part("session").what = "session"
    BY DEF Part
  <2>2. told' = told /\ told'[s] = Noted(told[s], Part("session"))
    BY <1>2, <2>1 DEF TouchSession, Noted
  <2> QED
    BY <1>2, <2>2, AppendLineKeeps DEF TouchSession
<1>3. ASSUME NEW s \in Chats, AppendTurn(s) PROVE FilesInv'
  <2>1. Part("turn").what = "turn"
    BY DEF Part
  <2>2. /\ told' = [told EXCEPT ![s] = Append(@, Part("turn"))]
        /\ told'[s] = Noted(told[s], Part("turn"))
    BY <1>3, <2>1 DEF AppendTurn, Noted, FilesInv
  <2> QED
    BY <1>3, <2>2, AppendLineKeeps DEF AppendTurn
<1>4. ASSUME NEW s \in Chats, AppendEvent(s) PROVE FilesInv'
  <2>1. Part("event").what = "event"
    BY DEF Part
  <2>2. told' = told /\ told'[s] = Noted(told[s], Part("event"))
    BY <1>4, <2>1 DEF AppendEvent, Noted
  <2> QED
    BY <1>4, <2>2, AppendLineKeeps DEF AppendEvent
<1>5. CASE UNCHANGED fileVars
  <2>1. Steps
    BY <1>5 DEF fileVars, FilesInv, Steps
  <2>2. \A s \in Chats : ChatOf(s)'
    BY <1>5, <2>1, ChatStays DEF fileVars
  <2>3. \A b \in Owners : ListInv(b)'
    BY <1>5, <2>1, ListStays DEF fileVars
  <2>4. \A s \in Chats : Restored(s)' = saves'[s]
    BY <1>5 DEF fileVars, Restored, FilesInv
  <2> QED
    BY <1>5, <2>2, <2>3, <2>4 DEF fileVars, FilesInv
<1> QED
  BY <1>1, <1>2, <1>3, <1>4, <1>5, SaveKeeps DEF FilesNext, ChatsNext

\* The inductive invariant of the files.
THEOREM FilesInvariant == FilesSpec => []FilesInv
  BY FilesStart, FilesKept, PTL DEF FilesSpec

\* What the files are given is read back: the preferences a buyer means and no
\* other's, the latest snapshot of a session or none, and the turns of a session
\* of which no write was harmed.  Where one was, a file that can be read still
\* tells of the turns in order, of all but two for each harm (JsonFile*Store).
THEOREM FilesTrue == FilesSpec => []FilesAreTrue
<1>1. ASSUME FilesInv PROVE FilesAreTrue
  <2>1. PreferencesAreMeant
    BY <1>1 DEF PreferencesAreMeant, FilesInv, ListInv
  <2>2. RestoresLatest
    BY <1>1 DEF RestoresLatest, FilesInv
  <2>3. ASSUME NEW s \in Chats
        PROVE  /\ \A i, j \in DOMAIN Turned(s) : i < j => Turned(s)[i].write < Turned(s)[j].write
               /\ ToSet(Turned(s)) \subseteq ToSet(told[s])
               /\ Cardinality(ToSet(told[s]) \ ToSet(Turned(s))) <= 2 * harms
               /\ s \notin scarred => /\ Readable(s) /\ ListTurns(s) = LastRecords(told[s])
                                      /\ told[s] # <<>> => FindSession(s)
    <3>1. ChatInv(lines[s], s \in open, told[s], s \in scarred, writes, harms) /\ harms \in Nat
      BY <1>1 DEF FilesInv, ChatOf
    <3>2. Turned(s) = TurnsIn(lines[s])
      BY DEF Turned, TurnsIn
    <3>3. \A i, j \in DOMAIN Turned(s) : i < j => Turned(s)[i].write < Turned(s)[j].write
      <4>1. InOrder(Turned(s), writes)
        BY <3>1, <3>2 DEF ChatInv
      <4> QED
        BY <4>1 DEF InOrder
    <3>4. Cardinality(ToSet(told[s]) \ ToSet(Turned(s))) <= 2 * harms
      <4>1. /\ IsFiniteSet(Lost(lines[s], told[s]))
            /\ Cardinality(Lost(lines[s], told[s])) + Risk(lines[s], s \in open) <= 2 * harms
        BY <3>1 DEF ChatInv
      <4>2. Cardinality(Lost(lines[s], told[s])) \in Nat /\ Risk(lines[s], s \in open) \in Nat
        BY <4>1, FS_CardinalityType DEF Risk
      <4>3. Lost(lines[s], told[s]) = ToSet(told[s]) \ ToSet(Turned(s))
        BY <3>2 DEF Lost
      <4> QED
        BY <3>1, <4>1, <4>2, <4>3
    <3>5. ASSUME s \notin scarred
          PROVE  /\ Readable(s) /\ ListTurns(s) = LastRecords(told[s])
                 /\ told[s] # <<>> => FindSession(s)
      <4>5. Readable(s)
        BY <3>1, <3>5 DEF ChatInv, Readable
      <4>1. Turned(s) = told[s]
        BY <3>1, <3>2, <3>5 DEF ChatInv
      <4>2. told[s] # <<>> => lines[s] # NoFile /\ Len(lines[s]) \in Nat /\ Len(lines[s]) > 0
                              /\ Tells(lines[s][1], "session")
        BY <3>1, <3>5 DEF ChatInv
      <4>3. told[s] # <<>> => FindSession(s)
        BY <4>2 DEF FindSession
      <4> QED
        BY <4>1, <4>3, <4>5 DEF ListTurns
    <3>6. ToSet(Turned(s)) \subseteq ToSet(told[s])
      BY <3>1, <3>2 DEF ChatInv
    <3> QED
      BY <3>3, <3>4, <3>5, <3>6
  <2>4. TurnsReadable
    BY <2>3 DEF TurnsReadable
  <2> QED
    BY <2>1, <2>2, <2>4 DEF FilesAreTrue
<1> QED
  BY <1>1, FilesInvariant, PTL
=============================================================================
