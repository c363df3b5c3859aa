---------------------------- MODULE ScreenProofs ----------------------------
(***************************************************************************)
(* What a buyer sees of a session, and what the session remembers of it,   *)
(* for any number of questions, turns, products and orders.                *)
(*                                                                         *)
(* However broadcasts, responses, broken connections and dying processes   *)
(* interleave, the page shows the truth: ScreenIsTrue.  As long as no      *)
(* question is asked over what an earlier one has under way, all that is   *)
(* in the bus, on the socket and in the request is about the last          *)
(* question: the inductive invariant says how far that has come, and what  *)
(* the page has noted of it.                                               *)
(*                                                                         *)
(* However turns and dispatched agents overlap, a buyer is shown only      *)
(* cards that were found: ShownWasFound.  What the session remembers of    *)
(* its recommendations and its order is true: FactsAreTrue.  Most of that  *)
(* is about sequences from which repetitions are taken and that are cut.   *)
(***************************************************************************)
EXTENDS MCSessionContext, SequenceTheorems, FiniteSetTheorems, WellFoundedInduction, TLAPS
----------------------------------------------------------------------------
(* Types. *)

LEMMA TextsAndEvents ==
    /\ \A q \in Questions : \A kind \in {"reply", "failed", "timeout", "lost"} :
         /\ Text(kind, q) \in Texts /\ Text(kind, q).of = q /\ Text(kind, q).kind = kind
         /\ Text(kind, q) # Silence
    /\ \A q \in Questions : \A kind \in {"task.queued", "final.result", "error"} :
         Event(kind, q) \in Events /\ Event(kind, q).of = q /\ Event(kind, q).kind = kind
    /\ \A t \in Texts : t.of \in Questions /\ t.of # 0 /\ t # Silence
    /\ \A e \in Events : e.of \in Questions
    /\ Silence.of = 0 /\ Silence.kind = ""
<1>1. Silence.of = 0 /\ Silence.kind = "" /\ 0 \notin Questions
  BY BusAssumption DEF Silence, Questions
<1>2. \A t \in Texts : t.of \in Questions /\ t.kind \in {"reply", "failed", "timeout", "lost"}
  BY DEF Texts
<1>3. \A e \in Events : e.of \in Questions
  BY DEF Events
<1>4. ASSUME NEW q \in Questions, NEW kind \in {"reply", "failed", "timeout", "lost"}
      PROVE  /\ Text(kind, q) \in Texts /\ Text(kind, q).of = q /\ Text(kind, q).kind = kind
             /\ Text(kind, q) # Silence
  <2>1. Text(kind, q) \in Texts /\ Text(kind, q).of = q /\ Text(kind, q).kind = kind
    BY DEF Text, Texts
  <2> QED BY <1>1, <2>1
<1>5. ASSUME NEW q \in Questions, NEW kind \in {"task.queued", "final.result", "error"}
      PROVE  Event(kind, q) \in Events /\ Event(kind, q).of = q /\ Event(kind, q).kind = kind
  BY DEF Event, Events
<1>6. \A t \in Texts : t.of # 0 /\ t # Silence
  BY <1>1, <1>2
<1> QED BY <1>1, <1>2, <1>3, <1>4, <1>5, <1>6

LEMMA TextIs ==
    ASSUME NEW q \in Questions, NEW kind \in {"reply", "failed", "timeout", "lost"}
    PROVE  Text(kind, q) \in Texts /\ Text(kind, q).of = q /\ Text(kind, q).kind = kind
  BY DEF Text, Texts

LEMMA EventIs ==
    ASSUME NEW q \in Questions, NEW kind \in {"task.queued", "final.result", "error"}
    PROVE  Event(kind, q) \in Events /\ Event(kind, q).of = q /\ Event(kind, q).kind = kind
  BY DEF Event, Events

LEMMA ConcludeIs ==
    ASSUME NEW q \in Questions, Conclude(q)
    PROVE  \E told \in SUBSET Events :
             /\ Turn(q, "queued", "ended", told)
             /\ \A e \in told : e.of = q /\ e.kind # "task.queued"
             /\ UNCHANGED troubles \/ Trouble
             /\ good' \in {good, [good EXCEPT ![q] = FALSE]}
<1>1. \A e \in {Event("final.result", q), Event("error", q)} :
         e \in Events /\ e.of = q /\ e.kind # "task.queued"
  BY EventIs
<1>2. PICK told \in SUBSET {Event("final.result", q), Event("error", q)} :
         Turn(q, "queued", "ended", told) /\ good' \in {good, [good EXCEPT ![q] = FALSE]}
  BY DEF Conclude
<1>3. UNCHANGED troubles \/ Trouble
  BY DEF Conclude
<1> QED BY <1>1, <1>2, <1>3

LEMMA ApplyTyped ==
    ASSUME BusTypeOK, NEW text \in Texts, ApplyFinal(text)
    PROVE  /\ signature' \in Texts \cup {Silence} /\ completed' \in BOOLEAN
           /\ replies' \in [Questions -> Seq(Texts)]
<1>1. /\ signature \in Texts \cup {Silence} /\ completed \in BOOLEAN
      /\ replies \in [Questions -> Seq(Texts)]
  BY DEF BusTypeOK
<1>2. \A q \in Questions : Append(replies[q], text) \in Seq(Texts)
  BY <1>1
<1>3. CASE text = signature
  BY <1>1, <1>3 DEF ApplyFinal
<1>4. CASE text # signature
  <2>1. /\ signature' = text /\ completed' = TRUE
        /\ replies' = [replies EXCEPT ![asked] = Append(@, text)]
    BY <1>4 DEF ApplyFinal
  <2> QED BY <1>1, <1>2, <2>1
<1> QED BY <1>3, <1>4

LEMMA DeliverTyped ==
    ASSUME BusTypeOK, NEW e \in Events, DeliverLocal(e)
    PROVE  wire' \in Seq(Events) /\ inbox' \in [Questions -> Texts \cup {Silence}]
<1>1. wire' \in Seq(Events)
  BY DEF DeliverLocal, BusTypeOK
<1>2. Text("reply", e.of) \in Texts
  BY TextsAndEvents
<1> QED BY <1>1, <1>2 DEF DeliverLocal, BusTypeOK

LEMMA TroubleTyped == BusTypeOK /\ Trouble => troubles' \in 0..MaxTroubles
  BY BusAssumption DEF BusTypeOK, Trouble

LEMMA BusTypes == BusTypeOK /\ Noted /\ [BusNext]_busVars => BusTypeOK'
<1> SUFFICES ASSUME BusTypeOK, Noted, [BusNext]_busVars PROVE BusTypeOK'
  OBVIOUS
<1> USE DEF BusTypeOK, serverVars, pageVars
<1>1. ASSUME NEW e \in air, Forward(e) PROVE BusTypeOK'
  <2>1. e \in Events
    OBVIOUS
  <2> QED BY <1>1, <2>1, DeliverTyped DEF Forward
<1>2. ASSUME NEW e \in air, Vanish(e) PROVE BusTypeOK'
  BY <1>2, TroubleTyped DEF Vanish
<1>3. ASSUME NEW q \in Questions, Enqueue(q) PROVE BusTypeOK'
  BY <1>3 DEF Enqueue
<1>4. ASSUME NEW q \in Questions, Await(q) PROVE BusTypeOK'
  <2>1. Event("task.queued", q) \in Events
    BY TextsAndEvents
  <2> QED BY <1>4, <2>1, DeliverTyped DEF Await, Broadcast
<1>5. ASSUME NEW q \in Questions, AnswerRequest(q) PROVE BusTypeOK'
  <2>1. PICK text \in Texts : Respond(q, text)
    <3>1. \E kind \in {"reply", "failed", "timeout", "lost"} :
            (Respond(q, inbox[q]) /\ inbox[q] # Silence) \/ Respond(q, Text(kind, q))
      BY <1>5 DEF AnswerRequest
    <3>2. inbox[q] \in Texts \cup {Silence}
      OBVIOUS
    <3> QED BY <3>1, <3>2, TextsAndEvents
  <2> QED BY <2>1 DEF Respond
<1>6. ASSUME NEW q \in Questions, Conclude(q) PROVE BusTypeOK'
  <2>1. PICK told \in SUBSET Events :
          /\ Turn(q, "queued", "ended", told)
          /\ UNCHANGED troubles \/ Trouble
          /\ good' \in {good, [good EXCEPT ![q] = FALSE]}
    BY <1>6, ConcludeIs
  <2>2. troubles' \in 0..MaxTroubles
    BY <2>1, TroubleTyped
  <2> QED BY <2>1, <2>2 DEF Turn, Broadcast
<1>7. ASSUME NEW q \in Questions, MarkDone(q) PROVE BusTypeOK'
  BY <1>7 DEF MarkDone, Turn, Broadcast
<1>8. ASSUME NEW q \in Questions, WorkerDies(q) PROVE BusTypeOK'
  BY <1>8, TroubleTyped DEF WorkerDies, Turn, Broadcast
<1>9. CASE Ask
  <2>1. asked' \in 0..MaxAsked /\ request' \in [Questions -> {"none", "sent", "enqueued", "waiting", "over"}]
    <3>1. asked < MaxAsked /\ asked' = asked + 1 /\ request' = [request EXCEPT ![asked + 1] = "sent"]
      BY <1>9 DEF Ask
    <3>2. asked' \in 0..MaxAsked
      BY <3>1, BusAssumption
    <3> QED BY <3>1, <3>2
  <2>2. hurried' \in BOOLEAN
    <3>1. hurried' = (hurried \/ \E q \in 1..asked : Underway(q))
      BY <1>9 DEF Ask
    <3> HIDE DEF BusTypeOK
    <3>2. CASE hurried \/ \E q \in 1..asked : Underway(q)
      BY <3>1, <3>2, Zenon
    <3>3. CASE ~(hurried \/ \E q \in 1..asked : Underway(q))
      BY <3>1, <3>3, Zenon
    <3> QED BY <3>2, <3>3
  <2> QED BY <1>9, <2>1, <2>2 DEF Ask
<1>10. CASE ResponseArrives
  <2>1. asked \in Questions /\ response[asked] \in Texts
    BY <1>10 DEF ResponseArrives, Noted
  <2> QED BY <1>10, <2>1, ApplyTyped DEF ResponseArrives
<1>11. CASE FetchFails
  <2>1. UNCHANGED troubles \/ Trouble
    BY <1>11 DEF FetchFails
  <2>2. troubles' \in 0..MaxTroubles
    BY <2>1, TroubleTyped
  <2>3. Text("lost", asked) \in Texts
    BY <1>11, TextsAndEvents DEF FetchFails, Noted
  <2>4. /\ signature' \in Texts \cup {Silence} /\ completed' \in BOOLEAN
        /\ replies' \in [Questions -> Seq(Texts)]
    BY <1>11, <2>3, ApplyTyped DEF FetchFails
  <2> QED BY <1>11, <2>2, <2>4 DEF FetchFails
<1>12. CASE MessageArrives
  <2>1. PICK e \in Events : e = Head(wire)
    BY <1>12 DEF MessageArrives
  <2>2. wire' \in Seq(Events)
    BY <1>12 DEF MessageArrives
  <2>3. CASE e.kind = "final.result"
    <3>1. ApplyFinal(Text("reply", e.of)) /\ UNCHANGED timeline
      BY <1>12, <2>1, <2>3 DEF MessageArrives
    <3>2. Text("reply", e.of) \in Texts
      BY TextsAndEvents
    <3>3. /\ signature' \in Texts \cup {Silence} /\ completed' \in BOOLEAN
          /\ replies' \in [Questions -> Seq(Texts)]
      BY <3>1, <3>2, ApplyTyped
    <3> QED BY <1>12, <2>2, <3>1, <3>3 DEF MessageArrives
  <2>4. CASE e.kind # "final.result"
    <3>1. timeline' = [timeline EXCEPT ![e] = @ + 1] /\ UNCHANGED <<signature, completed, replies>>
      BY <1>12, <2>1, <2>4 DEF MessageArrives
    <3> QED BY <1>12, <2>2, <3>1 DEF MessageArrives
  <2> QED BY <2>3, <2>4
<1>13. CASE SocketBreaks
  <2>1. wire' \in Seq(Events) /\ socket' \in BOOLEAN
    BY <1>13, EmptySeq DEF SocketBreaks
  <2> QED BY <1>13, <2>1, TroubleTyped DEF SocketBreaks
<1>14. CASE Connect
  BY <1>14 DEF Connect
<1>15. CASE ListenerEnds
  BY <1>15, TroubleTyped DEF ListenerEnds
<1>16. CASE ApiRestart
  <2>1. wire' \in Seq(Events) /\ socket' \in BOOLEAN
    BY <1>16, EmptySeq DEF ApiRestart
  <2>2. request' \in [Questions -> {"none", "sent", "enqueued", "waiting", "over"}]
    BY <1>16 DEF ApiRestart
  <2>3. /\ inbox' \in [Questions -> Texts \cup {Silence}]
        /\ response' \in [Questions -> Texts \cup {Silence}]
    BY <1>16 DEF ApiRestart
  <2>4. air' \subseteq Events /\ listening' \in BOOLEAN
    BY <1>16 DEF ApiRestart
  <2> QED BY <1>16, <2>1, <2>2, <2>3, <2>4, TroubleTyped DEF ApiRestart
<1>17. CASE UNCHANGED busVars
  BY <1>17 DEF busVars
<1> QED BY <1>1, <1>2, <1>3, <1>4, <1>5, <1>6, <1>7, <1>8, <1>9, <1>10, <1>11, <1>12, <1>13,
           <1>14, <1>15, <1>16, <1>17 DEF BusNext

----------------------------------------------------------------------------
(* The told under way. *)

\* What is added to a sequence, and what is taken from it.
LEMMA OneMore ==
    ASSUME NEW S, NEW w \in Seq(S), NEW e \in S
    PROVE  /\ ToSet(Append(w, e)) = ToSet(w) \cup {e}
           /\ IsInjective(w) /\ e \notin ToSet(w) => IsInjective(Append(w, e))
<1>1. /\ Append(w, e) \in Seq(S) /\ DOMAIN Append(w, e) = 1..Len(w) + 1 /\ DOMAIN w = 1..Len(w)
      /\ \A i \in 1..Len(w) : Append(w, e)[i] = w[i]
      /\ Append(w, e)[Len(w) + 1] = e /\ Len(w) \in Nat
  OBVIOUS
<1> DEFINE n == Append(w, e)
<1> HIDE DEF n
<1>2. n = Append(w, e)
  BY DEF n
<1>3. ToSet(n) = ToSet(w) \cup {e}
  BY <1>1, <1>2 DEF ToSet
<1>4. ASSUME IsInjective(w), e \notin ToSet(w) PROVE IsInjective(n)
  BY <1>1, <1>2, <1>4 DEF ToSet, IsInjective
<1> QED BY <1>2, <1>3, <1>4

LEMMA OneLess ==
    ASSUME NEW S, NEW w \in Seq(S), w # <<>>
    PROVE  /\ Head(w) \in ToSet(w) /\ ToSet(Tail(w)) \subseteq ToSet(w)
           /\ IsInjective(w) => IsInjective(Tail(w)) /\ Head(w) \notin ToSet(Tail(w))
<1>1. /\ Tail(w) \in Seq(S) /\ DOMAIN Tail(w) = 1..Len(w) - 1 /\ DOMAIN w = 1..Len(w)
      /\ \A i \in 1..Len(w) - 1 : Tail(w)[i] = w[i + 1]
      /\ Head(w) = w[1] /\ Len(w) \in Nat /\ Len(w) >= 1
  OBVIOUS
<1> DEFINE n == Tail(w)
<1> HIDE DEF n
<1>2. n = Tail(w)
  BY DEF n
<1>3. Head(w) \in ToSet(w) /\ ToSet(n) \subseteq ToSet(w)
  BY <1>1, <1>2 DEF ToSet
<1>4. ASSUME IsInjective(w) PROVE IsInjective(n) /\ Head(w) \notin ToSet(n)
  BY <1>1, <1>2, <1>4 DEF ToSet, IsInjective
<1> QED BY <1>2, <1>3, <1>4

\* A task has begun to tell of itself, and a request to listen.
Begun(q) == request[q] \notin {"none", "sent", "enqueued"}
Told(q)  == work[q] \notin {"none", "queued"}

LEMMA NoneMore ==
    ASSUME ComesOnce, BusTypeOK, ToSet(wire') \subseteq ToSet(wire), IsInjective(wire'), air' \subseteq air,
           UNCHANGED timeline, \A q \in Questions : (Begun(q) => Begun(q)') /\ (Told(q) => Told(q)')
    PROVE  ComesOnce'
<1>1. \A e \in ToSet(wire) \cup air : e \in Events
  BY DEF BusTypeOK, ToSet
<1>2. \A e \in Events : e.of \in Questions
  BY TextsAndEvents
<1>3. \A e \in Events : timeline'[e] = timeline[e]
  OBVIOUS
<1> QED BY <1>1, <1>2, <1>3 DEF ComesOnce, Begun, Told

LEMMA NothingSent == ToSet(<<>>) = {} /\ IsInjective(<<>>)
  BY DEF ToSet, IsInjective

LEMMA ComesStep ==
    BusTypeOK /\ NotYetAsked /\ Noted /\ ComesOnce /\ [BusNext]_busVars => ComesOnce'
<1> SUFFICES ASSUME BusTypeOK, NotYetAsked, Noted, ComesOnce, [BusNext]_busVars PROVE ComesOnce'
  OBVIOUS
<1>0. /\ \A e \in ToSet(wire) \cup air : e \in Events
      /\ wire \in Seq(Events) /\ IsInjective(wire)
      /\ request \in [Questions -> {"none", "sent", "enqueued", "waiting", "over"}]
      /\ work \in [Questions -> {"none", "queued", "ended", "done", "gone"}]
      /\ timeline \in [Events -> Nat]
  BY DEF BusTypeOK, ToSet, ComesOnce
<1>1. ASSUME NEW e \in air, Forward(e) PROVE ComesOnce'
  <2>1. /\ air' = air \ {e} /\ UNCHANGED <<request, work, timeline>>
        /\ wire' = wire \/ (wire' = Append(wire, e) /\ e.kind # "task.queued")
    BY <1>1 DEF Forward, DeliverLocal, pageVars
  <2>2. CASE wire' = wire
    BY <1>0, <2>1, <2>2, NoneMore DEF Begun, Told
  <2>3. CASE wire' = Append(wire, e) /\ e.kind # "task.queued"
    <3>1. e \notin ToSet(wire) /\ timeline[e] = 0 /\ e \in Events /\ work[e.of] \notin {"none", "queued"}
      BY <1>0, <2>3 DEF ComesOnce
    <3>2. ToSet(wire') = ToSet(wire) \cup {e} /\ IsInjective(wire')
      BY <1>0, <2>3, <3>1, OneMore
    <3> QED BY <2>1, <2>3, <3>1, <3>2 DEF ComesOnce
  <2> QED BY <2>1, <2>2, <2>3
<1>2. ASSUME NEW e \in air, Vanish(e) PROVE ComesOnce'
  BY <1>0, <1>2, NoneMore DEF Vanish, pageVars, Begun, Told
<1>3. ASSUME NEW q \in Questions, Enqueue(q) PROVE ComesOnce'
  <2>1. /\ request[q] = "sent" /\ request' = [request EXCEPT ![q] = "enqueued"]
        /\ work' = [work EXCEPT ![q] = "queued"] /\ UNCHANGED <<air, wire, timeline>>
    BY <1>3 DEF Enqueue, pageVars
  <2>2. \A u \in Questions : Begun(u) => Begun(u)'
    BY <1>0, <2>1 DEF Begun
  <2>3. \A u \in Questions : Told(u) => Told(u)'
    BY <1>0, <2>1 DEF Told, NotYetAsked
  <2> QED BY <1>0, <2>1, <2>2, <2>3, NoneMore
<1>4. ASSUME NEW q \in Questions, Await(q) PROVE ComesOnce'
  <2> DEFINE e == Event("task.queued", q)
  <2>1. /\ request[q] = "enqueued" /\ request' = [request EXCEPT ![q] = "waiting"]
        /\ UNCHANGED <<work, timeline>>
        /\ air' \subseteq air \cup {e}
        /\ wire' = wire \/ wire' = Append(wire, e)
    BY <1>4 DEF Await, Broadcast, DeliverLocal, pageVars
  <2>2. e \in Events /\ e.of = q /\ e.kind = "task.queued"
    BY TextsAndEvents
  <2> HIDE DEF e
  <2>3. e \notin ToSet(wire) /\ ~(timeline[e] > 0)
    BY <2>1, <2>2 DEF ComesOnce
  <2>4. ToSet(wire') \subseteq ToSet(wire) \cup {e} /\ IsInjective(wire')
    <3>1. CASE wire' = wire
      BY <1>0, <3>1
    <3>2. CASE wire' = Append(wire, e)
      BY <1>0, <2>2, <2>3, <3>2, OneMore
    <3> QED BY <2>1, <3>1, <3>2
  <2>7. timeline[e] = 0
    BY <1>0, <2>2, <2>3
  <2>5. \A u \in Questions : request'[u] = IF u = q THEN "waiting" ELSE request[u]
    BY <1>0, <2>1
  <2>6. \A a \in Events : a.of \in Questions
    BY TextsAndEvents
  <2> QED BY <1>0, <2>1, <2>2, <2>4, <2>5, <2>6, <2>7 DEF ComesOnce
<1>5. ASSUME NEW q \in Questions, AnswerRequest(q) PROVE ComesOnce'
  BY <1>0, <1>5, NoneMore DEF AnswerRequest, Respond, pageVars, Begun, Told
<1>6. ASSUME NEW q \in Questions, Conclude(q) PROVE ComesOnce'
  <2>1. PICK told \in SUBSET Events :
          Turn(q, "queued", "ended", told) /\ \A e \in told : e.of = q /\ e.kind # "task.queued"
    BY <1>6, ConcludeIs
  <2>2. /\ work[q] = "queued" /\ work' = [work EXCEPT ![q] = "ended"]
        /\ air' \subseteq air \cup told
        /\ UNCHANGED <<request, timeline, wire>>
    BY <2>1 DEF Turn, Broadcast, pageVars
  <2>3. \A e \in told : e \notin ToSet(wire) /\ ~(timeline[e] > 0)
    BY <2>1, <2>2 DEF ComesOnce
  <2>4. \A e \in told : timeline[e] = 0
    BY <1>0, <2>1, <2>3
  <2>5. \A u \in Questions : work'[u] = IF u = q THEN "ended" ELSE work[u]
    BY <1>0, <2>2
  <2>6. \A a \in Events : a.of \in Questions
    BY TextsAndEvents
  <2> QED BY <1>0, <2>1, <2>2, <2>3, <2>4, <2>5, <2>6 DEF ComesOnce
<1>7. ASSUME NEW q \in Questions, MarkDone(q) PROVE ComesOnce'
  BY <1>0, <1>7, NoneMore DEF MarkDone, Turn, Broadcast, pageVars, Begun, Told
<1>8. ASSUME NEW q \in Questions, WorkerDies(q) PROVE ComesOnce'
  BY <1>0, <1>8, NoneMore DEF WorkerDies, Turn, Broadcast, pageVars, Begun, Told
<1>9. CASE Ask
  <2>1. /\ asked < MaxAsked /\ request' = [request EXCEPT ![asked + 1] = "sent"]
        /\ UNCHANGED <<work, air, wire, timeline>>
    BY <1>9 DEF Ask
  <2>2. request[asked + 1] = "none"
    BY <2>1, BusAssumption DEF NotYetAsked, BusTypeOK, Questions
  <2> QED BY <1>0, <2>1, <2>2, NoneMore DEF Begun, Told
<1>10. CASE ResponseArrives
  BY <1>0, <1>10, NoneMore DEF ResponseArrives, serverVars, Begun, Told
<1>11. CASE FetchFails
  BY <1>0, <1>11, NoneMore DEF FetchFails, serverVars, Begun, Told
<1>12. CASE MessageArrives
  <2>1. PICK e \in Events : e = Head(wire)
    BY <1>0, <1>12 DEF MessageArrives
  <2>2. /\ wire # <<>> /\ wire' = Tail(wire) /\ UNCHANGED <<request, work, air>>
        /\ UNCHANGED timeline \/ timeline' = [timeline EXCEPT ![e] = @ + 1]
    BY <1>12, <2>1 DEF MessageArrives, serverVars
  <2>3. e \in ToSet(wire) /\ ToSet(wire') \subseteq ToSet(wire) \ {e} /\ IsInjective(wire')
    BY <1>0, <2>1, <2>2, OneLess
  <2>4. CASE UNCHANGED timeline
    BY <1>0, <2>2, <2>3, <2>4, NoneMore DEF Begun, Told
  <2>5. CASE timeline' = [timeline EXCEPT ![e] = @ + 1]
    <3>1. \A a \in Events : timeline'[a] = IF a = e THEN 1 ELSE timeline[a]
      BY <1>0, <2>3, <2>5 DEF ComesOnce
    <3>2. e \in air => e.kind = "task.queued"
      BY <2>3 DEF ComesOnce
    <3>3. e.of \in Questions /\ \A a \in Events : a.of \in Questions
      BY TextsAndEvents
    <3>4. IF e.kind = "task.queued" THEN request[e.of] \notin {"none", "sent", "enqueued"}
                                    ELSE work[e.of] \notin {"none", "queued"}
      BY <2>3 DEF ComesOnce
    <3>5. \A a \in ToSet(wire') \cup {b \in air' : b.kind # "task.queued"} :
            a # e /\ a \in ToSet(wire) \cup {b \in air : b.kind # "task.queued"}
      BY <2>2, <2>3, <3>2
    <3>6. \A a \in ToSet(wire') \cup {b \in air' : b.kind # "task.queued"} : timeline'[a] = 0
      BY <1>0, <2>2, <3>1, <3>5 DEF ComesOnce
    <3>7. \A a \in ToSet(wire') \cup air' \cup {b \in Events : timeline'[b] > 0} :
            a = e \/ a \in ToSet(wire) \cup air \cup {b \in Events : timeline[b] > 0}
      BY <2>2, <2>3, <3>1
    <3>8. \A a \in ToSet(wire') \cup air' \cup {b \in Events : timeline'[b] > 0} :
            IF a.kind = "task.queued" THEN request'[a.of] \notin {"none", "sent", "enqueued"}
                                      ELSE work'[a.of] \notin {"none", "queued"}
      BY <2>2, <3>4, <3>7 DEF ComesOnce
    <3>9. \A a \in Events : timeline'[a] <= 1
      BY <3>1 DEF ComesOnce
    <3> QED BY <2>2, <2>3, <3>6, <3>8, <3>9 DEF ComesOnce
  <2> QED BY <2>2, <2>4, <2>5
<1>13. CASE SocketBreaks
  BY <1>0, <1>13, NoneMore, NothingSent DEF SocketBreaks, serverVars, pageVars, Begun, Told
<1>14. CASE Connect
  BY <1>0, <1>14, NoneMore DEF Connect, serverVars, pageVars, Begun, Told
<1>15. CASE ListenerEnds
  BY <1>0, <1>15, NoneMore DEF ListenerEnds, pageVars, Begun, Told
<1>16. CASE ApiRestart
  BY <1>0, <1>16, NoneMore, NothingSent DEF ApiRestart, pageVars, Begun, Told
<1>17. CASE UNCHANGED busVars
  BY <1>0, <1>17, NoneMore DEF busVars, serverVars, pageVars, Begun, Told
<1> QED BY <1>1, <1>2, <1>3, <1>4, <1>5, <1>6, <1>7, <1>8, <1>9, <1>10, <1>11, <1>12, <1>13,
           <1>14, <1>15, <1>16, <1>17 DEF BusNext

----------------------------------------------------------------------------
(* Questions that are not asked yet. *)

\* What leaves the page alone, and adds told of questions that are asked.
LEMMA NobodyAsks ==
    ASSUME BusTypeOK, NotYetAsked, UNCHANGED <<asked, replies>>,
           \A q \in Questions :
             /\ request[q] = "none" <=> request'[q] = "none"
             /\ request'[q] = "sent" => request[q] = "sent"
             /\ request[q] \in {"none", "sent"} =>
                  /\ work'[q] = work[q] \/ request'[q] \notin {"none", "sent"}
                  /\ inbox'[q] \in {inbox[q], Silence} /\ response'[q] \in {response[q], Silence},
           \A e \in ToSet(wire') \cup air' : e \in ToSet(wire) \cup air \/ e.of <= asked
    PROVE  NotYetAsked'
  BY DEF NotYetAsked

LEMMA AskedStep ==
    BusTypeOK /\ NotYetAsked /\ Noted /\ [BusNext]_busVars => NotYetAsked'
<1> SUFFICES ASSUME BusTypeOK, NotYetAsked, Noted, [BusNext]_busVars PROVE NotYetAsked'
  OBVIOUS
<1>0. /\ \A e \in ToSet(wire) \cup air : e \in Events
      /\ wire \in Seq(Events) /\ asked \in 0..MaxAsked /\ MaxAsked \in Nat /\ Questions = 1..MaxAsked
      /\ request \in [Questions -> {"none", "sent", "enqueued", "waiting", "over"}]
      /\ work \in [Questions -> {"none", "queued", "ended", "done", "gone"}]
      /\ inbox \in [Questions -> Texts \cup {Silence}]
      /\ response \in [Questions -> Texts \cup {Silence}]
      /\ replies \in [Questions -> Seq(Texts)]
  BY BusAssumption DEF BusTypeOK, ToSet, Questions
<1>1. ASSUME NEW e \in air, Forward(e) PROVE NotYetAsked'
  <2>1. /\ air' = air \ {e} /\ UNCHANGED <<request, work, response, asked, replies>>
        /\ wire' = wire \/ wire' = Append(wire, e)
        /\ \A q \in Questions : inbox'[q] = inbox[q] \/ request[q] = "waiting"
    BY <1>0, <1>1 DEF Forward, DeliverLocal, pageVars
  <2>2. \A a \in ToSet(wire') : a \in ToSet(wire) \cup {e}
    <3>1. CASE wire' = wire
      BY <3>1
    <3>2. CASE wire' = Append(wire, e)
      BY <1>0, <3>2, OneMore
    <3> QED BY <2>1, <3>1, <3>2
  <2>3. \A a \in ToSet(wire') \cup air' : a \in ToSet(wire) \cup air
    BY <2>1, <2>2
  <2>4. \A q \in Questions :
          /\ request[q] = "none" <=> request'[q] = "none"
          /\ request'[q] = "sent" => request[q] = "sent"
          /\ request[q] \in {"none", "sent"} =>
               /\ work'[q] = work[q] \/ request'[q] \notin {"none", "sent"}
               /\ inbox'[q] \in {inbox[q], Silence} /\ response'[q] \in {response[q], Silence}
    BY <2>1
  <2>5. UNCHANGED <<asked, replies>>
    BY <2>1
  <2> QED BY <2>3, <2>4, <2>5, NobodyAsks
<1>2. ASSUME NEW e \in air, Vanish(e) PROVE NotYetAsked'
  BY <1>0, <1>2, NobodyAsks DEF Vanish, pageVars
<1>3. ASSUME NEW q \in Questions, Enqueue(q) PROVE NotYetAsked'
  <2>1. /\ request[q] = "sent" /\ request' = [request EXCEPT ![q] = "enqueued"]
        /\ work' = [work EXCEPT ![q] = "queued"]
        /\ UNCHANGED <<inbox, response, air, wire, asked, replies>>
    BY <1>3 DEF Enqueue, pageVars
  <2> QED BY <1>0, <2>1, NobodyAsks
<1>4. ASSUME NEW q \in Questions, Await(q) PROVE NotYetAsked'
  <2> DEFINE e == Event("task.queued", q)
  <2>1. /\ request[q] = "enqueued" /\ request' = [request EXCEPT ![q] = "waiting"]
        /\ UNCHANGED <<work, response, asked, replies>>
        /\ air' \subseteq air \cup {e}
        /\ wire' = wire \/ wire' = Append(wire, e)
        /\ \A u \in Questions : inbox'[u] = inbox[u] \/ request[u] = "waiting"
    BY <1>0, <1>4 DEF Await, Broadcast, DeliverLocal, pageVars
  <2>2. e \in Events /\ e.of = q /\ q <= asked
    <3>1. q <= asked
      BY <1>0, <2>1 DEF NotYetAsked
    <3> QED BY <3>1, TextsAndEvents
  <2> HIDE DEF e
  <2>3. \A a \in ToSet(wire') : a \in ToSet(wire) \cup {e}
    <3>1. CASE wire' = wire
      BY <3>1
    <3>2. CASE wire' = Append(wire, e)
      BY <1>0, <2>2, <3>2, OneMore
    <3> QED BY <2>1, <3>1, <3>2
  <2>4. \A u \in Questions : request'[u] = IF u = q THEN "waiting" ELSE request[u]
    BY <1>0, <2>1
  <2>5. \A a \in ToSet(wire') \cup air' : a \in ToSet(wire) \cup air \/ a.of <= asked
    BY <2>1, <2>2, <2>3
  <2>6. \A u \in Questions : request[u] \in {"none", "sent"} => inbox'[u] = inbox[u]
    BY <2>1
  <2> QED BY <2>1, <2>4, <2>5, <2>6, NobodyAsks
<1>5. ASSUME NEW q \in Questions, AnswerRequest(q) PROVE NotYetAsked'
  <2>1. /\ request[q] = "waiting" /\ request' = [request EXCEPT ![q] = "over"]
        /\ UNCHANGED <<inbox, work, air, wire, asked, replies>>
        /\ \A u \in Questions : u = q \/ response'[u] = response[u]
    BY <1>0, <1>5 DEF AnswerRequest, Respond, pageVars
  <2> QED BY <1>0, <2>1, NobodyAsks
<1>6. ASSUME NEW q \in Questions, NEW from \in {"queued", "ended"}, NEW to, NEW told,
             Turn(q, from, to, told), \A e \in told : e.of = q
      PROVE  NotYetAsked'
  <2>1. /\ work[q] = from /\ work' = [work EXCEPT ![q] = to]
        /\ air' \subseteq air \cup told
        /\ UNCHANGED <<request, inbox, response, wire, asked, replies>>
    BY <1>6 DEF Turn, Broadcast, pageVars
  <2>2. q <= asked
    BY <1>0, <2>1 DEF NotYetAsked
  <2> QED BY <1>0, <1>6, <2>1, <2>2, NobodyAsks DEF NotYetAsked
<1>7. ASSUME NEW q \in Questions, Conclude(q) \/ MarkDone(q) \/ WorkerDies(q) PROVE NotYetAsked'
  <2>1. CASE Conclude(q)
    BY <1>6, <2>1, ConcludeIs
  <2>2. CASE MarkDone(q) \/ WorkerDies(q)
    <3>1. \E from \in {"queued", "ended"}, to \in {"done", "gone"} : Turn(q, from, to, {})
      BY <2>2 DEF MarkDone, WorkerDies
    <3> QED BY <1>6, <3>1
  <2> QED BY <1>7, <2>1, <2>2
<1>9. CASE Ask
  <2>1. /\ asked < MaxAsked /\ request' = [request EXCEPT ![asked + 1] = "sent"] /\ asked' = asked + 1
        /\ UNCHANGED <<work, air, wire, inbox, response, replies>>
    BY <1>9 DEF Ask
  <2>2. \A q \in Questions : request'[q] = IF q = asked + 1 THEN "sent" ELSE request[q]
    BY <1>0, <2>1
  <2>3. \A e \in Events : e.of \in Questions
    BY TextsAndEvents
  <2>4. \A e \in ToSet(wire') \cup air' : e.of <= asked'
    <3>1. \A e \in ToSet(wire) \cup air : e.of <= asked /\ e.of \in Int
      BY <1>0, <2>3 DEF NotYetAsked
    <3> QED BY <1>0, <2>1, <3>1
  <2>5. \A q \in Questions : request'[q] \in {"none", "sent"} => work'[q] = "none"
    BY <1>0, <2>1, <2>2 DEF NotYetAsked
  <2>6. \A q \in Questions : q > asked' => q > asked /\ q # asked + 1
    BY <1>0, <2>1
  <2> QED BY <2>1, <2>2, <2>4, <2>5, <2>6 DEF NotYetAsked
<1>10. ASSUME NEW text, ApplyFinal(text), asked \in Questions, UNCHANGED <<serverVars, asked>>,
              ToSet(wire') \subseteq ToSet(wire)
       PROVE  NotYetAsked'
  <2>1. \A q \in Questions : q > asked => replies'[q] = replies[q]
    BY <1>0, <1>10 DEF ApplyFinal
  <2> QED BY <1>0, <1>10, <2>1 DEF NotYetAsked, serverVars
<1>11. CASE ResponseArrives \/ FetchFails
  <2>1. asked \in Questions /\ UNCHANGED <<serverVars, wire, asked>>
    BY <1>11 DEF ResponseArrives, FetchFails, Noted
  <2>2. (\E text : ApplyFinal(text)) \/ UNCHANGED replies
    BY <1>11 DEF ResponseArrives, FetchFails
  <2>3. CASE UNCHANGED replies
    BY <1>0, <2>1, <2>3 DEF NotYetAsked, serverVars
  <2> QED BY <1>10, <2>1, <2>2, <2>3
<1>12. CASE MessageArrives
  <2>1. /\ wire # <<>> /\ wire' = Tail(wire) /\ UNCHANGED <<serverVars, asked>>
        /\ (\E text : ApplyFinal(text)) \/ UNCHANGED replies
    BY <1>12 DEF MessageArrives
  <2>2. Head(wire) \in ToSet(wire) /\ ToSet(wire') \subseteq ToSet(wire)
    BY <1>0, <2>1, OneLess
  <2>3. asked \in Questions
    <3>1. Head(wire).of \in Questions /\ Head(wire).of <= asked
      BY <1>0, <2>2, TextsAndEvents DEF NotYetAsked
    <3> QED BY <1>0, <3>1
  <2>4. CASE UNCHANGED replies
    BY <1>0, <2>1, <2>2, <2>4 DEF NotYetAsked, serverVars
  <2> QED BY <1>10, <2>1, <2>2, <2>3, <2>4
<1>13. CASE SocketBreaks
  BY <1>0, <1>13, NobodyAsks, NothingSent DEF SocketBreaks, serverVars, pageVars
<1>14. CASE Connect
  BY <1>0, <1>14, NobodyAsks DEF Connect, serverVars, pageVars
<1>15. CASE ListenerEnds
  BY <1>0, <1>15, NobodyAsks DEF ListenerEnds, pageVars
<1>16. CASE ApiRestart
  <2>1. /\ \A q \in Questions : request'[q] = IF request[q] = "none" THEN "none" ELSE "over"
        /\ \A q \in Questions : inbox'[q] = Silence /\ response'[q] = Silence
        /\ air' = {} /\ ToSet(wire') = {} /\ UNCHANGED <<work, asked, replies>>
    BY <1>16, NothingSent DEF ApiRestart, pageVars
  <2> QED BY <1>0, <2>1, NobodyAsks
<1>17. CASE UNCHANGED busVars
  BY <1>0, <1>17, NobodyAsks DEF busVars, serverVars, pageVars
<1> QED BY <1>1, <1>2, <1>3, <1>4, <1>5, <1>7, <1>9, <1>11, <1>12, <1>13,
           <1>14, <1>15, <1>16, <1>17 DEF BusNext

----------------------------------------------------------------------------
(* Every question is answered. *)

Answered == \A q \in 1..asked : q < asked \/ ~busy => replies[q] # <<>>

\* A text that comes is shown, or is the one shown last.
LEMMA ApplyShows ==
    ASSUME BusTypeOK, Noted, asked \in Questions, NEW text, text # Silence, ApplyFinal(text)
    PROVE  /\ signature' # Silence /\ replies'[asked] # <<>>
           /\ \A q \in Questions : q # asked => replies'[q] = replies[q]
<1>1. replies \in [Questions -> Seq(Texts)]
  BY DEF BusTypeOK
<1>2. CASE text = signature
  BY <1>2 DEF ApplyFinal, Noted
<1>3. CASE text # signature
  <2>1. signature' = text /\ replies' = [replies EXCEPT ![asked] = Append(@, text)]
    BY <1>3 DEF ApplyFinal
  <2>2. replies'[asked] = Append(replies[asked], text)
    BY <1>1, <2>1
  <2>3. Append(replies[asked], text) # <<>>
    BY <1>1
  <2> QED BY <1>1, <2>1, <2>2, <2>3
<1> QED BY <1>2, <1>3

LEMMA AnsweredStep ==
    BusTypeOK /\ NotYetAsked /\ Noted /\ Answered /\ [BusNext]_busVars => Noted' /\ Answered'
<1> SUFFICES ASSUME BusTypeOK, NotYetAsked, Noted, Answered, [BusNext]_busVars PROVE Noted' /\ Answered'
  OBVIOUS
<1>0. asked \in 0..MaxAsked /\ MaxAsked \in Nat /\ Questions = 1..MaxAsked
  BY BusAssumption DEF BusTypeOK, Questions
<1>1. CASE UNCHANGED <<asked, busy, signature, completed, replies>>
  BY <1>1 DEF Noted, Answered
<1>2. CASE Ask
  <2>1. /\ asked < MaxAsked /\ ~busy /\ asked' = asked + 1 /\ busy' = TRUE /\ signature' = Silence
        /\ completed' = FALSE /\ UNCHANGED replies
    BY <1>2 DEF Ask
  <2>2. asked' \in Questions
    BY <1>0, <2>1
  <2>3. \A q \in 1..asked' : q < asked' => q \in 1..asked
    BY <1>0, <2>1
  <2> QED BY <1>0, <2>1, <2>2, <2>3 DEF Noted, Answered
<1>3. ASSUME NEW text, text # Silence, ApplyFinal(text), asked \in Questions, UNCHANGED asked,
             busy' \in {busy, FALSE}
      PROVE  Noted' /\ Answered'
  <2>1. completed' => signature' # Silence
    BY <1>3, ApplyShows
  <2>2. \A q \in 1..asked : q \in Questions
    BY <1>0
  <2> QED BY <1>0, <1>3, <2>1, <2>2, ApplyShows DEF Noted, Answered
<1>4. CASE ResponseArrives
  BY <1>3, <1>4 DEF ResponseArrives, Noted
<1>5. CASE FetchFails
  <2>1. asked \in Questions /\ UNCHANGED asked /\ busy' = FALSE
    BY <1>5 DEF FetchFails, Noted
  <2>2. CASE completed /\ UNCHANGED <<signature, completed, replies>>
    <3>1. replies[asked] # <<>>
      BY <2>2 DEF Noted
    <3>2. \A q \in 1..asked : q < asked \/ q = asked
      BY <1>0
    <3> QED BY <2>1, <2>2, <3>1, <3>2 DEF Noted, Answered
  <2>3. CASE ApplyFinal(Text("lost", asked))
    BY <1>3, <2>1, <2>3, TextsAndEvents
  <2> QED BY <1>5, <2>2, <2>3 DEF FetchFails
<1>6. CASE MessageArrives
  <2>1. /\ wire \in Seq(Events) /\ wire # <<>> /\ UNCHANGED <<asked, busy>>
        /\ ApplyFinal(Text("reply", Head(wire).of)) \/ UNCHANGED <<signature, completed, replies>>
    BY <1>6 DEF MessageArrives, BusTypeOK
  <2>2. Head(wire) \in Events /\ Head(wire) \in ToSet(wire)
    BY <2>1, OneLess
  <2>3. Head(wire).of \in Questions /\ Head(wire).of <= asked
    BY <2>2, TextsAndEvents DEF NotYetAsked
  <2>4. asked \in Questions /\ Text("reply", Head(wire).of) # Silence
    <3>1. asked \in Questions
      BY <1>0, <2>3
    <3> QED BY <2>3, <3>1, TextsAndEvents
  <2> QED BY <1>1, <1>3, <2>1, <2>4
<1>7. CASE UNCHANGED pageVars
  BY <1>1, <1>7 DEF pageVars
<1>8. ASSUME NEW q \in Questions,
             Enqueue(q) \/ Await(q) \/ AnswerRequest(q) \/ Conclude(q) \/ MarkDone(q) \/ WorkerDies(q)
      PROVE  UNCHANGED pageVars
  BY <1>8 DEF Enqueue, Await, AnswerRequest, Respond, Conclude, MarkDone, WorkerDies, Turn
<1>9. ASSUME \/ \E e \in air : Forward(e) \/ Vanish(e)
             \/ SocketBreaks \/ Connect \/ ListenerEnds \/ ApiRestart \/ UNCHANGED busVars
      PROVE  UNCHANGED pageVars
  BY <1>9 DEF Forward, Vanish, SocketBreaks, Connect, ListenerEnds, ApiRestart, busVars
<1> QED BY <1>2, <1>4, <1>5, <1>6, <1>7, <1>8, <1>9 DEF BusNext

----------------------------------------------------------------------------
(* One question at a time. *)

\* Whatever is under way belongs to the question asked last.
LEMMA OnlyLast ==
    ASSUME BusTypeOK, NotYetAsked, OneAtATime
    PROVE  /\ \A e \in ToSet(wire) \cup air : e.of = asked /\ asked \in Questions
           /\ \A q \in Questions :
                request[q] \in {"sent", "enqueued", "waiting"} \/ work[q] \in {"queued", "ended"}
                  => q = asked
<1>1. /\ \A e \in ToSet(wire) \cup air : e \in Events
      /\ asked \in Int /\ \A q \in Questions : q \in Int
  BY BusAssumption DEF BusTypeOK, ToSet, Questions
<1>2. ASSUME NEW e \in ToSet(wire) \cup air PROVE e.of = asked
  <2>1. e.of \in Questions /\ e.of <= asked
    BY <1>1, TextsAndEvents DEF NotYetAsked
  <2>2. ~(e.of < asked)
    BY <2>1 DEF OneAtATime, Underway
  <2> QED BY <1>1, <2>1, <2>2
<1>3. \A e \in ToSet(wire) \cup air : e.of \in Questions
  BY <1>1, TextsAndEvents
<1>4. ASSUME NEW q \in Questions,
             request[q] \in {"sent", "enqueued", "waiting"} \/ work[q] \in {"queued", "ended"}
      PROVE  q = asked
  <2>1. ~(q < asked)
    BY <1>4 DEF OneAtATime, Underway
  <2>2. ~(q > asked)
    BY <1>4 DEF NotYetAsked
  <2> QED BY <1>1, <2>1, <2>2
<1> QED BY <1>2, <1>3, <1>4

\* The page shows what it showed, and nothing begins but for the last question.
LEMMA PageStill ==
    ASSUME BusTypeOK, OneAtATime, UNCHANGED <<asked, signature, replies>>,
           busy' => busy, completed => completed',
           \A q \in Questions : q # asked =>
             /\ request'[q] \in {"sent", "enqueued", "waiting"}
                  => request[q] \in {"sent", "enqueued", "waiting"}
             /\ work'[q] \in {"queued", "ended"} => work[q] \in {"queued", "ended"},
           \A e \in ToSet(wire') \cup air' : e.of = asked,
           asked \in Questions =>
             /\ inbox'[asked] \in {inbox[asked], Silence, Text("reply", asked)}
             /\ response'[asked].of \in {0, asked} /\ response'[asked].kind # "lost"
             /\ Coming' => Coming
    PROVE  OneAtATime'
<1>1. asked \in Int /\ \A q \in Questions : q \in Int
  BY BusAssumption DEF BusTypeOK, Questions
<1>2. ASSUME NEW q \in Questions, q < asked PROVE ~Underway(q)'
  <2>1. q # asked /\ ~Underway(q)
    BY <1>1, <1>2 DEF OneAtATime
  <2> QED BY <2>1 DEF Underway
<1>3. ASSUME asked \in Questions
      PROVE  /\ inbox'[asked] \in {Silence, Text("reply", asked)}
             /\ response'[asked].of \in {0, asked} /\ response'[asked].kind # "lost"
             /\ signature' = Silence <=> replies'[asked] = <<>>
             /\ replies'[asked] # <<>> => completed'
             /\ busy' /\ Coming' => replies'[asked] = <<>>
             /\ \A i \in DOMAIN replies'[asked] :
                  /\ busy' => replies'[asked][i] = signature' /\ signature' = Text("reply", asked)
                  /\ Coming' => replies'[asked][i] = signature'
  BY <1>3 DEF OneAtATime
<1>4. asked' = asked
  OBVIOUS
<1> QED BY <1>2, <1>3, <1>4 DEF OneAtATime

LEMMA ComingNoMore ==
    ASSUME UNCHANGED <<asked, work>>, air' \subseteq air, ToSet(wire') \subseteq ToSet(wire)
    PROVE  Coming' => Coming
  BY DEF Coming

\* Replies that are their question's own stay so with one more.
OwnReplies(s, q) ==
    /\ \A i \in DOMAIN s : s[i].of = q
    /\ IsInjective(s)
    /\ \A i, j \in DOMAIN s : i < j /\ s[i].kind # "timeout" => s[j].kind # "lost"

LEMMA OwnMore ==
    ASSUME NEW s \in Seq(Texts), NEW text \in Texts, NEW q, OwnReplies(s, q), text.of = q,
           \A i \in DOMAIN s : s[i] # text, text.kind = "lost" => s = <<>>
    PROVE  OwnReplies(Append(s, text), q)
<1> DEFINE n == Append(s, text)
<1>1. /\ n \in Seq(Texts) /\ DOMAIN n = 1..Len(s) + 1 /\ DOMAIN s = 1..Len(s)
      /\ \A i \in 1..Len(s) : n[i] = s[i]
      /\ n[Len(s) + 1] = text /\ Len(s) \in Nat
  OBVIOUS
<1>2. s = <<>> => Len(s) = 0
  OBVIOUS
<1> HIDE DEF n
<1>3. \A i \in DOMAIN n : n[i].of = q
  BY <1>1 DEF OwnReplies
<1>4. IsInjective(n)
  BY <1>1 DEF OwnReplies, IsInjective
<1>5. ASSUME NEW i \in DOMAIN n, NEW j \in DOMAIN n, i < j, n[i].kind # "timeout", n[j].kind = "lost"
      PROVE  FALSE
  <2>1. CASE j = Len(s) + 1
    BY <1>1, <1>2, <1>5, <2>1
  <2>2. CASE j \in 1..Len(s)
    BY <1>1, <1>5, <2>2 DEF OwnReplies
  <2> QED BY <1>1, <2>1, <2>2
<1> QED BY <1>3, <1>4, <1>5 DEF n, OwnReplies

\* A text comes to the page.
LEMMA PageShows ==
    ASSUME BusTypeOK, Noted, ~hurried, ~hurried', OneAtATime, ShownIsOwn, asked \in Questions,
           NEW text \in Texts, text.of = asked, ApplyFinal(text),
           UNCHANGED <<asked, request, work, air, inbox, response>>,
           ToSet(wire') \subseteq ToSet(wire), busy' => busy,
           busy' => Coming /\ ~Coming' /\ text = Text("reply", asked),
           Coming' => busy,
           busy \/ Coming,
           text.kind = "lost" => ~completed
    PROVE  OneAtATime' /\ ShownIsOwn'
<1> DEFINE s == replies[asked]
           n == replies'[asked]
<1>1. /\ replies \in [Questions -> Seq(Texts)] /\ s \in Seq(Texts) /\ text # Silence
      /\ asked \in Int /\ \A q \in Questions : q \in Int
      /\ Questions = 1..MaxAsked
  <2>1. asked \in Int /\ (\A q \in Questions : q \in Int) /\ Questions = 1..MaxAsked
    BY BusAssumption DEF BusTypeOK, Questions
  <2>2. replies \in [Questions -> Seq(Texts)]
    BY DEF BusTypeOK
  <2>3. s \in Seq(Texts)
    BY <2>2
  <2> QED BY <2>1, <2>2, <2>3, TextsAndEvents
<1>2. Coming' => Coming
  BY ComingNoMore
<1>3. \A q \in Questions : q < asked => ~Underway(q)'
  BY DEF OneAtATime, Underway
<1>4. \A q \in Questions : q # asked => replies'[q] = replies[q]
  BY <1>1, ApplyShows
<1>5. \A q \in 1..asked : q \in Questions /\ OwnReplies(replies[q], q)
  <2>1. \A q \in 1..asked : q \in Questions
    BY <1>1, BusAssumption
  <2>2. \A q \in 1..asked : OwnReplies(replies[q], q)
    BY DEF ShownIsOwn, OwnReplies
  <2> QED BY <2>1, <2>2
<1>6. CASE text = signature
  <2>1. UNCHANGED <<signature, completed, replies>>
    BY <1>6 DEF ApplyFinal
  <2>2. s # <<>>
    BY <1>1, <1>6 DEF OneAtATime
  <2>3. ShownIsOwn'
    BY <2>1 DEF ShownIsOwn
  <2>4. OneAtATime'
    <3>1. busy' => busy /\ asked' = asked
      OBVIOUS
    <3>2. /\ inbox'[asked] \in {Silence, Text("reply", asked)}
          /\ response'[asked].of \in {0, asked} /\ response'[asked].kind # "lost"
      BY DEF OneAtATime
    <3>3. /\ signature' = Silence <=> replies'[asked] = <<>>
          /\ replies'[asked] # <<>> => completed'
          /\ \A i \in DOMAIN replies'[asked] :
                  /\ busy' => replies'[asked][i] = signature' /\ signature' = Text("reply", asked)
                  /\ Coming' => replies'[asked][i] = signature'
      BY <1>2, <2>1, <3>1 DEF OneAtATime
    <3>4. ~(busy' /\ Coming')
      OBVIOUS
    <3>5. asked' = asked
      OBVIOUS
    <3> QED BY <1>3, <3>2, <3>3, <3>4, <3>5 DEF OneAtATime
  <2> QED BY <2>3, <2>4
<1>7. CASE text # signature
  <2>1. signature' = text /\ completed' = TRUE /\ n = Append(s, text)
    BY <1>1, <1>7 DEF ApplyFinal
  <2>2. \A i \in DOMAIN s : s[i] # text
    BY <1>7 DEF OneAtATime
  <2>3. text.kind = "lost" => s = <<>>
    BY DEF OneAtATime
  <2>4. OwnReplies(n, asked)
    BY <1>1, <1>5, <2>1, <2>2, <2>3, OwnMore
  <2>5. ShownIsOwn'
    <3>1. \A q \in 1..asked : OwnReplies(replies'[q], q)
      BY <1>4, <1>5, <2>4
    <3> QED BY <3>1 DEF ShownIsOwn, OwnReplies
  <2>6. n # <<>>
    BY <1>1, <2>1
  <2>7. busy' \/ Coming' => s = <<>>
    BY <1>2 DEF OneAtATime
  <2>8. s = <<>> => \A i \in DOMAIN n : n[i] = text
    BY <1>1, <2>1
  <2>9. OneAtATime'
    BY <1>1, <1>2, <1>3, <2>1, <2>6, <2>7, <2>8 DEF OneAtATime
  <2> QED BY <2>5, <2>9
<1> QED BY <1>6, <1>7

\* A process or a connection takes a step and the page does not.
LEMMA ServerStep ==
    ASSUME BusTypeOK, NotYetAsked, OneAtATime, UNCHANGED pageVars,
           \A q \in Questions : q # asked =>
             /\ request'[q] \in {request[q], "over"} /\ work'[q] = work[q],
           \A e \in ToSet(wire') \cup air' : e \in ToSet(wire) \cup air \/ e.of = asked,
           asked \in Questions =>
             /\ inbox'[asked] \in {inbox[asked], Silence, Text("reply", asked)}
             /\ response'[asked] \in Texts \cup {Silence}
             /\ response'[asked].of \in {0, asked} /\ response'[asked].kind # "lost"
             /\ Coming' => Coming
    PROVE  OneAtATime'
<1>1. \A e \in ToSet(wire') \cup air' : e.of = asked
  BY OnlyLast
<1> QED BY <1>1, PageStill DEF pageVars

LEMMA OneStep ==
    ASSUME BusTypeOK, ComesOnce, NotYetAsked, Noted, ~hurried, ~hurried', OneAtATime, ShownIsOwn,
           [BusNext]_busVars
    PROVE  OneAtATime' /\ ShownIsOwn'
<1>0. /\ \A e \in ToSet(wire) \cup air : e \in Events
      /\ wire \in Seq(Events) /\ asked \in 0..MaxAsked /\ MaxAsked \in Nat /\ Questions = 1..MaxAsked
      /\ request \in [Questions -> {"none", "sent", "enqueued", "waiting", "over"}]
      /\ work \in [Questions -> {"none", "queued", "ended", "done", "gone"}]
      /\ inbox \in [Questions -> Texts \cup {Silence}]
      /\ response \in [Questions -> Texts \cup {Silence}]
      /\ replies \in [Questions -> Seq(Texts)]
  BY BusAssumption DEF BusTypeOK, ToSet, Questions
<1>a. UNCHANGED pageVars => (ShownIsOwn => ShownIsOwn')
  BY DEF pageVars, ShownIsOwn
<1>b. asked \in Questions =>
        /\ response[asked] \in Texts \cup {Silence}
        /\ response[asked].of \in {0, asked} /\ response[asked].kind # "lost"
        /\ inbox[asked] \in {Silence, Text("reply", asked)}
  BY <1>0 DEF OneAtATime
<1>1. ASSUME NEW e \in air, Forward(e) PROVE OneAtATime'
  <2>1. /\ air' = air \ {e} /\ UNCHANGED <<request, work, response>> /\ UNCHANGED pageVars
        /\ wire' = wire \/ wire' = Append(wire, e)
        /\ \A q \in Questions : inbox'[q] \in {inbox[q], Text("reply", e.of)}
    BY <1>0, <1>1 DEF Forward, DeliverLocal
  <2>2. ToSet(wire') \subseteq ToSet(wire) \cup {e}
    <3>1. CASE wire' = wire
      BY <3>1
    <3>2. CASE wire' = Append(wire, e)
      BY <1>0, <3>2, OneMore
    <3> QED BY <2>1, <3>1, <3>2
  <2>3. e.of = asked
    BY OnlyLast
  <2>4. Coming' => Coming
    BY <2>1, <2>2 DEF Coming, pageVars
  <2> QED BY <1>b, <2>1, <2>2, <2>3, <2>4, ServerStep
<1>2. ASSUME NEW e \in air, Vanish(e) PROVE OneAtATime'
  <2>1. UNCHANGED <<request, inbox, response, work, wire>> /\ UNCHANGED pageVars /\ air' \subseteq air
    BY <1>2 DEF Vanish
  <2> QED BY <1>b, <2>1, ServerStep DEF Coming, pageVars
<1>3. ASSUME NEW q \in Questions, Enqueue(q) PROVE OneAtATime'
  <2>1. /\ request[q] = "sent" /\ request' = [request EXCEPT ![q] = "enqueued"]
        /\ work' = [work EXCEPT ![q] = "queued"] /\ UNCHANGED pageVars
        /\ UNCHANGED <<inbox, response, air, wire>>
    BY <1>3 DEF Enqueue
  <2>2. q = asked /\ work[q] = "none"
    BY <2>1, OnlyLast DEF NotYetAsked
  <2>3. Coming
    BY <2>2 DEF Coming
  <2> QED BY <1>0, <1>b, <2>1, <2>2, <2>3, ServerStep
<1>4. ASSUME NEW q \in Questions, Await(q) PROVE OneAtATime'
  <2> DEFINE e == Event("task.queued", q)
  <2>1. /\ request[q] = "enqueued" /\ request' = [request EXCEPT ![q] = "waiting"]
        /\ UNCHANGED <<work, response>> /\ UNCHANGED pageVars
        /\ air' \subseteq air \cup {e}
        /\ wire' = wire \/ wire' = Append(wire, e)
    BY <1>4 DEF Await, Broadcast, DeliverLocal
  <2>2. e \in Events /\ e.of = q /\ e.kind = "task.queued"
    BY TextsAndEvents
  <2>3. inbox' = inbox
    <3>1. \A u \in Questions : inbox'[u] = inbox[u] /\ inbox' = [v \in Questions |-> inbox'[v]]
      BY <1>4, <2>2 DEF Await, DeliverLocal
    <3> QED BY <1>0, <3>1
  <2> HIDE DEF e
  <2>4. ToSet(wire') \subseteq ToSet(wire) \cup {e}
    <3>1. CASE wire' = wire
      BY <3>1
    <3>2. CASE wire' = Append(wire, e)
      BY <1>0, <2>2, <3>2, OneMore
    <3> QED BY <2>1, <3>1, <3>2
  <2>5. q = asked
    BY <2>1, OnlyLast
  <2>6. Event("final.result", asked) # e
    <3>1. Event("final.result", q).kind = "final.result"
      BY TextsAndEvents
    <3> QED BY <2>2, <2>5, <3>1
  <2>7. Coming' => Coming
    BY <2>1, <2>4, <2>6 DEF Coming, pageVars
  <2> QED BY <1>0, <1>b, <2>1, <2>2, <2>3, <2>4, <2>5, <2>7, ServerStep
<1>5. ASSUME NEW q \in Questions, AnswerRequest(q) PROVE OneAtATime'
  <2>1. PICK text : Respond(q, text) /\ (text = inbox[q] \/ \E kind \in {"reply", "failed", "timeout"} : text = Text(kind, q))
    BY <1>5 DEF AnswerRequest
  <2>2. /\ request[q] = "waiting" /\ request' = [request EXCEPT ![q] = "over"]
        /\ response' = [response EXCEPT ![q] = text]
        /\ UNCHANGED <<inbox, work, air, wire>> /\ UNCHANGED pageVars
    BY <2>1 DEF Respond
  <2>3. q = asked
    BY <2>2, OnlyLast
  <2>4. text \in Texts \cup {Silence} /\ text.of \in {0, asked} /\ text.kind # "lost"
    <3>1. text = Silence \/ \E kind \in {"reply", "failed", "timeout"} : text = Text(kind, q)
      BY <1>b, <2>1, <2>3
    <3>2. CASE text = Silence
      BY <3>2, TextsAndEvents
    <3>3. ASSUME NEW kind \in {"reply", "failed", "timeout"}, text = Text(kind, q)
          PROVE  text \in Texts /\ text.of = asked /\ text.kind # "lost"
      <4>1. kind \in {"reply", "failed", "timeout", "lost"} /\ kind # "lost"
        BY <3>3
      <4>2. Text(kind, q) \in Texts /\ Text(kind, q).of = q /\ Text(kind, q).kind = kind
        BY <4>1, TextIs
      <4> QED BY <2>3, <3>3, <4>1, <4>2
    <3> QED BY <3>1, <3>2, <3>3
  <2>5. response'[asked] = text
    BY <1>0, <2>2, <2>3
  <2> QED BY <1>0, <1>b, <2>2, <2>3, <2>4, <2>5, ServerStep DEF Coming, pageVars
<1>6. ASSUME NEW q \in Questions, Conclude(q) \/ MarkDone(q) \/ WorkerDies(q) PROVE OneAtATime'
  <2>1. PICK told \in SUBSET Events : (\A e \in told : e.of = q) /\ air' \subseteq air \cup told
    <3>1. CASE Conclude(q)
      <4>1. PICK told \in SUBSET Events : Turn(q, "queued", "ended", told) /\ \A e \in told : e.of = q
        BY <3>1, ConcludeIs
      <4>2. air' \subseteq air \cup told
        BY <4>1 DEF Turn, Broadcast
      <4> QED BY <4>1, <4>2
    <3>2. CASE MarkDone(q) \/ WorkerDies(q)
      <4>1. air' \subseteq air \cup {}
        BY <3>2 DEF MarkDone, WorkerDies, Turn, Broadcast
      <4>2. {} \in SUBSET Events /\ \A e \in {} : e.of = q
        OBVIOUS
      <4> QED BY <4>1, <4>2
    <3> QED BY <1>6, <3>1, <3>2
  <2>2. /\ work[q] \in {"queued", "ended"} /\ \A u \in Questions : u # q => work'[u] = work[u]
        /\ UNCHANGED <<request, inbox, response, wire>> /\ UNCHANGED pageVars
    BY <1>0, <1>6 DEF Conclude, MarkDone, WorkerDies, Turn
  <2>3. q = asked
    BY <2>2, OnlyLast
  <2>4. work[q] = "queued" \/ (air' \subseteq air /\ work'[q] \notin {"none", "queued"})
    BY <1>0, <1>6 DEF Conclude, MarkDone, WorkerDies, Turn, Broadcast
  <2>5. Coming' => Coming
    BY <2>2, <2>3, <2>4 DEF Coming, pageVars
  <2> QED BY <1>0, <1>b, <2>1, <2>2, <2>3, <2>5, ServerStep
<1>13. CASE SocketBreaks \/ Connect \/ UNCHANGED busVars
  <2>1. /\ UNCHANGED <<request, inbox, response, work, air>> /\ UNCHANGED pageVars
        /\ wire' = wire \/ wire' = <<>>
    BY <1>13 DEF SocketBreaks, Connect, busVars, serverVars, pageVars
  <2>2. ToSet(wire') \subseteq ToSet(wire)
    <3>1. CASE wire' = wire
      BY <3>1
    <3>2. CASE wire' = <<>>
      BY <3>2, NothingSent
    <3> QED BY <2>1, <3>1, <3>2
  <2>3. Coming' => Coming
    BY <2>1, <2>2 DEF Coming, pageVars
  <2>4. \A e \in ToSet(wire') \cup air' : e \in ToSet(wire) \cup air
    BY <2>1, <2>2
  <2> QED BY <1>a, <1>b, <2>1, <2>3, <2>4, ServerStep
<1>15. CASE ListenerEnds
  <2>1. UNCHANGED <<request, inbox, response, work, wire>> /\ UNCHANGED pageVars /\ air' = {}
    BY <1>15 DEF ListenerEnds
  <2>2. Coming' => Coming
    BY <2>1 DEF Coming, pageVars
  <2>3. \A e \in ToSet(wire') \cup air' : e \in ToSet(wire) \cup air
    BY <2>1
  <2> QED BY <1>a, <1>b, <2>1, <2>2, <2>3, ServerStep
<1>16. CASE ApiRestart
  <2>1. /\ \A q \in Questions : request'[q] \in {request[q], "over"}
        /\ \A q \in Questions : inbox'[q] = Silence /\ response'[q] = Silence
        /\ air' = {} /\ ToSet(wire') = {} /\ UNCHANGED work /\ UNCHANGED pageVars
    BY <1>16, NothingSent DEF ApiRestart
  <2>2. Coming' => Coming
    BY <2>1 DEF Coming, pageVars
  <2>3. Silence.of = 0 /\ Silence.kind # "lost"
    BY TextsAndEvents
  <2>4. \A q \in Questions : q # asked => request'[q] \in {request[q], "over"} /\ work'[q] = work[q]
    BY <2>1
  <2>5. asked \in Questions =>
          /\ inbox'[asked] = Silence /\ response'[asked] \in Texts \cup {Silence}
          /\ response'[asked].of \in {0, asked} /\ response'[asked].kind # "lost"
    BY <2>1, <2>3
  <2>6. \A e \in ToSet(wire') \cup air' : FALSE
    BY <2>1
  <2>7. UNCHANGED pageVars
    BY <2>1
  <2> QED BY <1>a, <2>2, <2>4, <2>5, <2>6, <2>7, ServerStep
<1>17. ASSUME NEW q \in Questions,
             Enqueue(q) \/ Await(q) \/ AnswerRequest(q) \/ Conclude(q) \/ MarkDone(q) \/ WorkerDies(q)
      PROVE  UNCHANGED pageVars
  BY <1>17 DEF Enqueue, Await, AnswerRequest, Respond, Conclude, MarkDone, WorkerDies, Turn
<1>18. ASSUME \/ \E e \in air : Forward(e) \/ Vanish(e)
              \/ SocketBreaks \/ Connect \/ ListenerEnds \/ ApiRestart \/ UNCHANGED busVars
      PROVE  UNCHANGED pageVars
  BY <1>18 DEF Forward, Vanish, SocketBreaks, Connect, ListenerEnds, ApiRestart, busVars
<1>9. CASE Ask
  <2>1. /\ asked < MaxAsked /\ asked' = asked + 1 /\ signature' = Silence /\ completed' = FALSE
        /\ request' = [request EXCEPT ![asked + 1] = "sent"]
        /\ UNCHANGED <<inbox, response, work, air, wire, replies>>
        /\ hurried' = (hurried \/ \E q \in 1..asked : Underway(q))
    BY <1>9 DEF Ask
  <2>2. \A q \in 1..asked : ~Underway(q)
    BY <2>1
  <2>3. PICK n \in Questions : n = asked + 1
    BY <1>0, <2>1
  <2>4. /\ \A q \in Questions : q < n => q \in 1..asked /\ q # n
        /\ n > asked
    BY <1>0, <2>3
  <2>5. inbox[n] = Silence /\ response[n] = Silence /\ replies[n] = <<>>
    BY <2>4 DEF NotYetAsked
  <2>6. ASSUME NEW q \in Questions, q < n PROVE ~Underway(q)'
    <3>1. ~Underway(q) /\ request'[q] = request[q]
      BY <1>0, <2>1, <2>2, <2>3, <2>4, <2>6
    <3> QED BY <2>1, <3>1 DEF Underway
  <2>7. Silence.of = 0 /\ Silence.kind # "lost"
    BY TextsAndEvents
  <2>8. OneAtATime'
    BY <2>1, <2>3, <2>5, <2>6, <2>7 DEF OneAtATime
  <2>9. ShownIsOwn'
    <3>1. \A q \in 1..asked : OwnReplies(replies[q], q)
      BY DEF ShownIsOwn, OwnReplies
    <3>2. OwnReplies(<<>>, n)
      BY DEF OwnReplies, IsInjective
    <3>3. \A q \in 1..asked' : q \in 1..asked \/ q = n
      BY <1>0, <2>1, <2>3
    <3>4. \A q \in 1..asked' : OwnReplies(replies'[q], q)
      BY <2>1, <2>5, <3>1, <3>2, <3>3
    <3> QED BY <3>4 DEF ShownIsOwn, OwnReplies
  <2> QED BY <2>8, <2>9
<1>10. CASE ResponseArrives
  <2>1. /\ busy /\ asked \in Questions /\ response[asked] # Silence /\ ApplyFinal(response[asked])
        /\ busy' = FALSE /\ UNCHANGED <<asked, request, work, air, inbox, response, wire>>
    BY <1>10 DEF ResponseArrives, serverVars, Noted
  <2>2. response[asked] \in Texts /\ response[asked].of = asked /\ response[asked].kind # "lost"
    BY <1>b, <2>1, TextsAndEvents
  <2>3. Coming' => Coming
    BY <2>1 DEF Coming
  <2>4. ToSet(wire') \subseteq ToSet(wire) /\ ~busy'
    BY <2>1
  <2> QED BY <2>1, <2>2, <2>3, <2>4, PageShows
<1>11. CASE FetchFails
  <2>1. /\ busy /\ asked \in Questions
        /\ busy' = FALSE /\ UNCHANGED <<asked, request, work, air, inbox, response, wire>>
    BY <1>11 DEF FetchFails, serverVars, Noted
  <2>2. Coming' => Coming
    BY <2>1 DEF Coming
  <2>3. CASE ~completed
    <3>1. PICK text : text = Text("lost", asked)
      OBVIOUS
    <3>2. ApplyFinal(text)
      BY <1>11, <2>3, <3>1 DEF FetchFails
    <3>3. text \in Texts /\ text.of = asked
      BY <2>1, <3>1, TextsAndEvents
    <3>4. ToSet(wire') \subseteq ToSet(wire) /\ ~busy'
      BY <2>1
    <3> QED BY <2>1, <2>2, <2>3, <3>2, <3>3, <3>4, PageShows
  <2>4. CASE completed
    <3>1. UNCHANGED <<signature, completed, replies>>
      BY <1>11, <2>4 DEF FetchFails
    <3>2. ShownIsOwn'
      BY <2>1, <3>1 DEF ShownIsOwn
    <3>3. \A e \in ToSet(wire') \cup air' : e.of = asked
      BY <2>1, OnlyLast
    <3> QED BY <1>b, <2>1, <2>2, <2>4, <3>1, <3>2, <3>3, PageStill
  <2> QED BY <2>3, <2>4
<1>12. CASE MessageArrives
  <2>1. PICK e : e = Head(wire)
    OBVIOUS
  <2>2. /\ wire # <<>> /\ wire' = Tail(wire)
        /\ UNCHANGED <<asked, busy, request, work, air, inbox, response>>
    BY <1>12 DEF MessageArrives, serverVars
  <2>3. e \in ToSet(wire) /\ ToSet(wire') \subseteq ToSet(wire) /\ e \notin ToSet(wire')
    BY <1>0, <2>1, <2>2, OneLess DEF ComesOnce
  <2>4. e \in Events /\ e.of = asked /\ asked \in Questions
    BY <1>0, <2>3, OnlyLast
  <2>5. Coming' => Coming
    BY <2>2, <2>3 DEF Coming
  <2>6. CASE e.kind = "final.result"
    <3>1. e = Event("final.result", asked)
      BY <2>4, <2>6 DEF Event, Events
    <3>2. Coming
      BY <2>3, <3>1 DEF Coming
    <3>3. e \notin air /\ work[asked] \notin {"none", "queued"}
      BY <2>3, <2>4, <2>6 DEF ComesOnce
    <3>4. ~Coming'
      BY <2>2, <2>3, <3>1, <3>3 DEF Coming
    <3>5. PICK text : text = Text("reply", asked)
      OBVIOUS
    <3>6. ApplyFinal(text)
      BY <1>12, <2>1, <2>4, <2>6, <3>5 DEF MessageArrives
    <3>7. text \in Texts /\ text.of = asked /\ text.kind # "lost"
      BY <2>4, <3>5, TextsAndEvents
    <3> QED BY <2>2, <2>3, <2>4, <3>2, <3>4, <3>5, <3>6, <3>7, PageShows
  <2>7. CASE e.kind # "final.result"
    <3>1. UNCHANGED <<signature, completed, replies>>
      BY <1>12, <2>1, <2>7 DEF MessageArrives
    <3>2. ShownIsOwn'
      BY <2>2, <3>1 DEF ShownIsOwn
    <3>3. \A a \in ToSet(wire') \cup air' : a.of = asked
      BY <2>2, <2>3, OnlyLast
    <3> QED BY <1>b, <2>2, <2>5, <3>1, <3>2, <3>3, PageStill
  <2> QED BY <2>6, <2>7
<1> QED BY <1>a, <1>1, <1>2, <1>3, <1>4, <1>5, <1>6, <1>9, <1>10, <1>11, <1>12, <1>13, <1>15, <1>16,
           <1>17, <1>18 DEF BusNext

----------------------------------------------------------------------------
(* The theorems. *)

LEMMA InitScreen == BusInit => ScreenInv
<1> SUFFICES ASSUME BusInit PROVE ScreenInv
  OBVIOUS
<1>1. BusTypeOK
  <2>1. <<>> \in Seq(Events) /\ <<>> \in Seq(Texts)
    BY EmptySeq
  <2>2. asked \in 0..MaxAsked /\ troubles \in 0..MaxTroubles
    BY BusAssumption DEF BusInit
  <2>3. replies \in [Questions -> Seq(Texts)] /\ wire \in Seq(Events) /\ timeline \in [Events -> Nat]
    BY <2>1 DEF BusInit
  <2>4. air \subseteq Events /\ listening \in BOOLEAN /\ socket \in BOOLEAN /\ busy \in BOOLEAN
        /\ completed \in BOOLEAN /\ hurried \in BOOLEAN /\ good \in [Questions -> BOOLEAN]
    BY DEF BusInit
  <2> QED BY <2>2, <2>3, <2>4 DEF BusInit, BusTypeOK
<1>3. ToSet(wire) = {} /\ air = {} /\ IsInjective(wire) /\ asked = 0 /\ 1..asked = {}
      /\ \A e \in Events : timeline[e] = 0
  BY NothingSent DEF BusInit
<1>4. ComesOnce
  BY <1>3 DEF ComesOnce
<1>5. NotYetAsked
  BY <1>3 DEF BusInit, NotYetAsked
<1>6. Noted
  BY DEF BusInit, Noted
<1>7. ScreenIsTrue
  BY <1>3 DEF ScreenIsTrue, ShownIsOwn, NothingTwice
<1>8. OneAtATime
  <2>1. \A q \in Questions : ~Underway(q)
    BY <1>3 DEF BusInit, Underway
  <2>2. asked \notin Questions
    BY <1>3, BusAssumption DEF Questions
  <2> QED BY <2>1, <2>2 DEF OneAtATime
<1> QED BY <1>1, <1>4, <1>5, <1>6, <1>7, <1>8 DEF ScreenInv

LEMMA ScreenStep == ScreenInv /\ [BusNext]_busVars => ScreenInv'
<1> SUFFICES ASSUME ScreenInv, [BusNext]_busVars PROVE ScreenInv'
  OBVIOUS
<1>1. /\ BusTypeOK /\ ComesOnce /\ NotYetAsked /\ Noted /\ ShownIsOwn
      /\ ~hurried => OneAtATime
      /\ Answered
  BY DEF ScreenInv, ScreenIsTrue, NothingTwice, Answered
<1>2. BusTypeOK' /\ ComesOnce' /\ NotYetAsked' /\ Noted' /\ Answered'
  BY <1>1, BusTypes, ComesStep, AskedStep, AnsweredStep
<1>3. NothingTwice'
  BY <1>2 DEF NothingTwice, Answered, ComesOnce
<1>4. hurried => hurried'
  BY DEF BusNext, busVars, pageVars, serverVars, Forward, Vanish, Enqueue, Await, AnswerRequest,
         Respond, Conclude, MarkDone, WorkerDies, Turn, Ask, ResponseArrives, FetchFails,
         MessageArrives, SocketBreaks, Connect, ListenerEnds, ApiRestart
<1>5. ASSUME ~hurried' PROVE OneAtATime' /\ ShownIsOwn'
  BY <1>1, <1>4, <1>5, OneStep
<1>6. hurried' => ShownIsOwn'
  BY DEF ShownIsOwn
<1> QED BY <1>2, <1>3, <1>5, <1>6 DEF ScreenInv, ScreenIsTrue

\* Every reachable state of the page, the API process and the workers satisfies
\* the invariant (eventbus.py, connection.py, server.py, App.tsx).
THEOREM ScreenInvariant == BusSpec => []ScreenInv
  BY InitScreen, ScreenStep, PTL DEF BusSpec

\* Whatever way the replies come, by the socket, as the response or by both, in
\* whatever order, and whichever connections and processes fail: a question
\* asked after all else was over has only replies of its own, none of them
\* twice, and no failed request below an answer; no question stays without a
\* reply when the next can be asked (applyFinal(), submit(), deliver_local()).
THEOREM ScreenShowsTruth == BusSpec => []ScreenIsTrue
<1>1. ScreenInv => ScreenIsTrue
  BY DEF ScreenInv
<1> QED BY <1>1, ScreenInvariant, PTL

----------------------------------------------------------------------------
(* Least and greatest of a set of positions. *)

\* A relation on the naturals that < is in and that has no infinite descent:
\* what every "take the least" below rests on.
LEMMA LessIsWellFounded ==
    \E R : IsWellFoundedOn(R, Nat) /\ \A x, y \in Nat : x < y => <<x, y>> \in R
<1>1. \A x, y \in Nat : x < y => <<x, y>> \in OpToRel(<, Nat)
  BY DEF OpToRel
<1>2. QED
  BY <1>1, NatLessThanWellFounded

\* Min() of a set of naturals is its least element.
LEMMA LeastOf ==
    ASSUME NEW S \in SUBSET Nat, S # {}
    PROVE  Min(S) \in S /\ \A y \in S : Min(S) <= y
<1>1. PICK R : IsWellFoundedOn(R, Nat) /\ \A x, y \in Nat : x < y => <<x, y>> \in R
  BY LessIsWellFounded
<1>2. \E x \in S : \A y \in S : ~(<<y, x>> \in R)
  <2>1. IsWellFoundedOn(R, Nat) /\ S \subseteq Nat /\ S # {}
    BY <1>1
  <2>2. \A Q, N, T : IsWellFoundedOn(Q, N) /\ T \subseteq N /\ T # {} =>
                        \E x \in T : \A y \in T : ~(<<y, x>> \in Q)
    BY ONLY WFMin
  <2> QED
    BY ONLY <2>1, <2>2
<1>3. PICK x \in S : \A y \in S : ~(<<y, x>> \in R)
  BY <1>2
<1>4. ASSUME NEW y \in S PROVE x <= y
  <2>1. x \in Nat /\ y \in Nat /\ ~(<<y, x>> \in R)
    BY <1>3
  <2>2. ~(y < x)
    BY <1>1, <2>1
  <2>3. QED
    BY <2>1, <2>2
<1>5. QED
  BY <1>4 DEF Min

\* Max() of a bounded set of naturals is its greatest element.
LEMMA GreatestOf ==
    ASSUME NEW n \in Nat, NEW S \in SUBSET (0..n), S # {}
    PROVE  Max(S) \in S /\ \A y \in S : y <= Max(S)
<1> DEFINE R == {n - x : x \in S}
<1>0. \A x \in S : x \in Int /\ n - x \in Nat
  OBVIOUS
<1>1. R \in SUBSET Nat /\ R # {}
  BY <1>0
<1>2. PICK x \in S : Min(R) = n - x
  <2> HIDE DEF R
  <2>1. Min(R) \in R
    BY <1>1, LeastOf
  <2>2. QED
    BY <2>1 DEF R
<1>3. \A y \in S : n - y \in R
  OBVIOUS
<1> HIDE DEF R
<1>4. \A y \in S : n - x <= n - y
  BY <1>1, <1>2, <1>3, LeastOf
<1>5. \A y \in S : y <= x
  BY <1>0, <1>4
<1>6. QED
  BY <1>5 DEF Max

----------------------------------------------------------------------------
(* Firsts(): what it makes of a sequence.                                   *)

FirstsStep(seen, x, T) == IF x \in T /\ ~Contains(seen, x) THEN Append(seen, x) ELSE seen

FirstsUpto(f, n, s, T) ==
    f = [i \in 0..n |-> IF i = 0 THEN <<>> ELSE FirstsStep(f[i - 1], s[i], T)]

\* There is such a function: one for a first n that had none would come of
\* the one for n - 1.
LEMMA FirstsExist ==
    ASSUME NEW s, NEW T, NEW n \in Nat
    PROVE  \E f : FirstsUpto(f, n, s, T)
<1> DEFINE Bad == {m \in Nat : ~\E f : FirstsUpto(f, m, s, T)}
<1>1. SUFFICES ASSUME Bad # {} PROVE FALSE
  OBVIOUS
<1>2. PICK m \in Bad : \A k \in Bad : m <= k
  <2> HIDE DEF Bad
  <2>1. Bad \in SUBSET Nat
    BY DEF Bad
  <2> QED
    BY <1>1, <2>1, LeastOf
<1>3. m \in Nat /\ ~\E f : FirstsUpto(f, m, s, T)
  OBVIOUS
<1>4. m # 0
  <2> DEFINE f == [i \in 0..0 |-> <<>>]
  <2>1. FirstsUpto(f, 0, s, T)
    <3>1. \A i \in 0..0 : i = 0
      OBVIOUS
    <3> QED
      BY <3>1 DEF FirstsUpto
  <2> QED
    BY <1>3, <2>1
<1>5. m - 1 \in Nat /\ ~(m <= m - 1)
  BY <1>3, <1>4
<1>6. PICK g : FirstsUpto(g, m - 1, s, T)
  BY <1>2, <1>5
<1> DEFINE f == [i \in 0..m |-> IF i = m THEN FirstsStep(g[m - 1], s[m], T) ELSE g[i]]
<1>7. f = [i \in 0..m |-> IF i = 0 THEN <<>> ELSE FirstsStep(f[i - 1], s[i], T)]
  <2>1. ASSUME NEW i \in 0..m PROVE f[i] = IF i = 0 THEN <<>> ELSE FirstsStep(f[i - 1], s[i], T)
    <3>1. CASE i = m
      <4>1. f[i - 1] = g[m - 1] /\ i # 0
        BY <1>3, <1>4, <1>5, <3>1
      <4>2. f[i] = FirstsStep(g[m - 1], s[m], T)
        BY <3>1
      <4> QED
        BY <3>1, <4>1, <4>2
    <3>2. CASE i # m
      <4>1. i \in 0..(m - 1)
        BY <1>3, <3>2
      <4>2. g[i] = IF i = 0 THEN <<>> ELSE FirstsStep(g[i - 1], s[i], T)
        BY <1>6, <4>1 DEF FirstsUpto
      <4>3. i # 0 => i - 1 \in 0..m /\ i - 1 # m
        BY <1>3, <4>1
      <4>4. f[i] = g[i] /\ (i # 0 => f[i - 1] = g[i - 1])
        BY <3>2, <4>3
      <4> QED
        BY <4>2, <4>4
    <3> QED
      BY <3>1, <3>2
  <2>2. DOMAIN f = 0..m
    OBVIOUS
  <2> HIDE DEF f
  <2>3. f = [i \in 0..m |-> f[i]]
    <3>1. f = [i \in 0..m |-> IF i = m THEN FirstsStep(g[m - 1], s[m], T) ELSE g[i]]
      BY DEF f
    <3> QED
      BY <3>1
  <2> QED
    BY <2>1, <2>3
<1>8. QED
  BY <1>3, <1>7 DEF FirstsUpto

\* d is made of the first places of the first n of s.
FirstsAt(d, n, s, T) ==
    /\ d \in Seq(T) /\ Len(d) <= n
    /\ \A k, m \in 1..Len(d) : d[k] = d[m] => k = m
    /\ \A k \in 1..Len(d) : \E j \in 1..n : s[j] = d[k]
    /\ \A j \in 1..n : s[j] \in T => \E k \in 1..Len(d) : d[k] = s[j]
    /\ \A k, m \in 1..Len(d) : k < m =>
          \E j \in 1..n : s[j] = d[k] /\ \A i \in 1..j : s[i] # d[m]

LEMMA FirstsStepKeeps ==
    ASSUME NEW s, NEW T, NEW n \in Nat \ {0}, NEW d, FirstsAt(d, n - 1, s, T)
    PROVE  FirstsAt(FirstsStep(d, s[n], T), n, s, T)
<1> DEFINE x == s[n]
<1>0. d \in Seq(T) /\ Len(d) \in Nat /\ Len(d) <= n - 1 /\ n - 1 \in Nat /\ n \in 1..n /\ \A j \in 1..(n - 1) : j \in 1..n
  BY DEF FirstsAt
<1>1. Contains(d, x) <=> \E k \in 1..Len(d) : d[k] = x
  BY DEF Contains
<1>2. CASE x \in T /\ ~Contains(d, x)
  <2> DEFINE e == Append(d, x)
  <2>1. /\ e \in Seq(T) /\ Len(e) = Len(d) + 1 /\ e[Len(d) + 1] = x
        /\ \A k \in 1..Len(d) : e[k] = d[k]
    BY <1>0, <1>2
  <2>2. FirstsStep(d, s[n], T) = e
    BY <1>2 DEF FirstsStep
  <2> HIDE DEF e
  <2>3. \A k, m \in 1..Len(e) : e[k] = e[m] => k = m
    BY <1>0, <1>1, <1>2, <2>1 DEF FirstsAt
  <2>4. \A k \in 1..Len(e) : \E j \in 1..n : s[j] = e[k]
    <3> TAKE k \in 1..Len(e)
    <3>1. CASE k = Len(d) + 1
      BY <1>0, <2>1, <3>1
    <3>2. CASE k # Len(d) + 1
      <4>1. k \in 1..Len(d)
        BY <1>0, <2>1, <3>2
      <4> QED
        BY <1>0, <2>1, <4>1 DEF FirstsAt
    <3> QED
      BY <3>1, <3>2
  <2>5. \A j \in 1..n : s[j] \in T => \E k \in 1..Len(e) : e[k] = s[j]
    <3> SUFFICES ASSUME NEW j \in 1..n, s[j] \in T PROVE \E k \in 1..Len(e) : e[k] = s[j]
      OBVIOUS
    <3>1. CASE j = n
      <4>1. Len(d) + 1 \in 1..Len(e)
        BY <1>0, <2>1
      <4> QED
        BY <2>1, <3>1, <4>1
    <3>2. CASE j # n
      <4>1. j \in 1..(n - 1)
        BY <1>0, <3>2
      <4>2. PICK k \in 1..Len(d) : d[k] = s[j]
        BY <4>1 DEF FirstsAt
      <4>3. k \in 1..Len(e)
        BY <1>0, <2>1
      <4> QED
        BY <2>1, <4>2, <4>3
    <3> QED
      BY <3>1, <3>2
  <2>6. ASSUME NEW k \in 1..Len(e), NEW m \in 1..Len(e), k < m
        PROVE  \E j \in 1..n : s[j] = e[k] /\ \A i \in 1..j : s[i] # e[m]
    <3>1. k \in 1..Len(d) /\ e[k] = d[k]
      BY <1>0, <2>1, <2>6
    <3>2. CASE m \in 1..Len(d)
      <4>1. PICK j \in 1..(n - 1) : s[j] = d[k] /\ \A i \in 1..j : s[i] # d[m]
        BY <2>6, <3>1, <3>2 DEF FirstsAt
      <4> QED
        BY <1>0, <2>1, <3>1, <3>2, <4>1
    <3>3. CASE m \notin 1..Len(d)
      <4>1. m = Len(d) + 1 /\ e[m] = x
        BY <1>0, <2>1, <3>3
      <4>2. PICK j \in 1..(n - 1) : s[j] = d[k]
        BY <3>1 DEF FirstsAt
      <4>3. ASSUME NEW i \in 1..j PROVE s[i] # x
        <5>1. i \in 1..(n - 1)
          BY <1>0, <4>2
        <5> QED
          BY <1>1, <1>2, <5>1 DEF FirstsAt
      <4> QED
        BY <1>0, <3>1, <4>1, <4>2, <4>3
    <3> QED
      BY <3>2, <3>3
  <2>7. FirstsAt(e, n, s, T)
    BY <1>0, <2>1, <2>3, <2>4, <2>5, <2>6 DEF FirstsAt
  <2> QED
    BY <2>2, <2>7
<1>3. CASE ~(x \in T /\ ~Contains(d, x))
  <2>1. FirstsStep(d, s[n], T) = d
    BY <1>3 DEF FirstsStep
  <2>2. \A k \in 1..Len(d) : \E j \in 1..n : s[j] = d[k]
    BY <1>0 DEF FirstsAt
  <2>3. \A j \in 1..n : s[j] \in T => \E k \in 1..Len(d) : d[k] = s[j]
    <3> SUFFICES ASSUME NEW j \in 1..n, s[j] \in T PROVE \E k \in 1..Len(d) : d[k] = s[j]
      OBVIOUS
    <3>1. CASE j = n
      BY <1>1, <1>3, <3>1
    <3>2. CASE j # n
      <4>1. j \in 1..(n - 1)
        BY <1>0, <3>2
      <4> QED
        BY <4>1 DEF FirstsAt
    <3> QED
      BY <3>1, <3>2
  <2>4. ASSUME NEW k \in 1..Len(d), NEW m \in 1..Len(d), k < m
        PROVE \E j \in 1..n : s[j] = d[k] /\ \A i \in 1..j : s[i] # d[m]
    <3>1. PICK j \in 1..(n - 1) : s[j] = d[k] /\ \A i \in 1..j : s[i] # d[m]
      BY <2>4 DEF FirstsAt
    <3> QED
      BY <1>0, <3>1
  <2>5. d \in Seq(T) /\ Len(d) <= n /\ \A k, m \in 1..Len(d) : d[k] = d[m] => k = m
    BY <1>0 DEF FirstsAt
  <2> QED
    BY <2>1, <2>2, <2>3, <2>4, <2>5 DEF FirstsAt
<1> QED
  BY <1>2, <1>3

\* The firsts of s: every element of T that is in s, once, in the order in
\* which s has them first.
LEMMA FirstsAre ==
    ASSUME NEW s, Len(s) \in Nat, NEW T
    PROVE  FirstsAt(Firsts(s, T), Len(s), s, T)
<1> DEFINE n == Len(s)
<1>1. PICK f : FirstsUpto(f, n, s, T) /\ Firsts(s, T) = f[n]
  <2> DEFINE g == CHOOSE f : f = [i \in 0..n |->
                     IF i = 0 THEN <<>>
                     ELSE IF s[i] \in T /\ ~Contains(f[i - 1], s[i]) THEN Append(f[i - 1], s[i]) ELSE f[i - 1]]
  <2>1. \E f : f = [i \in 0..n |->
                     IF i = 0 THEN <<>>
                     ELSE IF s[i] \in T /\ ~Contains(f[i - 1], s[i]) THEN Append(f[i - 1], s[i]) ELSE f[i - 1]]
    <3>1. PICK h : FirstsUpto(h, n, s, T)
      BY FirstsExist
    <3>2. h = [i \in 0..n |->
                     IF i = 0 THEN <<>>
                     ELSE IF s[i] \in T /\ ~Contains(h[i - 1], s[i]) THEN Append(h[i - 1], s[i]) ELSE h[i - 1]]
      BY ONLY <3>1 DEF FirstsUpto, FirstsStep
    <3> QED
      BY ONLY <3>2
  <2>2. FirstsUpto(g, n, s, T)
    BY <2>1 DEF FirstsUpto, FirstsStep
  <2>3. Firsts(s, T) = g[n]
    BY DEF Firsts
  <2> QED
    BY <2>2, <2>3
<1> HIDE DEF n
<1>n. n \in Nat /\ n = Len(s)
  BY DEF n
<1>2. f[0] = <<>> /\ \A i \in 1..n : f[i] = FirstsStep(f[i - 1], s[i], T)
  <2>1. DOMAIN f = 0..n /\ \A i \in 0..n : f[i] = IF i = 0 THEN <<>> ELSE FirstsStep(f[i - 1], s[i], T)
    BY <1>1 DEF FirstsUpto
  <2> QED
    BY <1>n, <2>1
<1> DEFINE Bad == {i \in Nat : i <= n /\ ~FirstsAt(f[i], i, s, T)}
<1>3. SUFFICES ASSUME Bad # {} PROVE FALSE
  <2>1. n \notin Bad => FirstsAt(f[n], n, s, T)
    BY <1>n
  <2> QED
    BY <1>1, <1>n, <2>1
<1>4. PICK m \in Bad : \A k \in Bad : m <= k
  <2> HIDE DEF Bad
  <2>1. Bad \in SUBSET Nat
    BY DEF Bad
  <2> QED
    BY <1>3, <2>1, LeastOf
<1>5. m \in Nat /\ m <= n /\ ~FirstsAt(f[m], m, s, T)
  OBVIOUS
<1>6. m # 0
  <2>1. FirstsAt(<<>>, 0, s, T)
    BY DEF FirstsAt
  <2> QED
    BY <1>2, <1>5, <2>1
<1>7. m - 1 \in Nat /\ m - 1 <= n /\ ~(m <= m - 1) /\ m \in 1..n
  BY <1>5, <1>6, <1>n
<1>8. FirstsAt(f[m - 1], m - 1, s, T)
  BY <1>4, <1>7
<1>9. FirstsAt(f[m], m, s, T)
  BY <1>2, <1>7, <1>8, FirstsStepKeeps
<1> QED
  BY <1>5, <1>9

----------------------------------------------------------------------------
(* Cards that a search found.                                               *)

CardsOn(b) == {c \in [product : Products, search : 1..Len(b)] : c.product \in b[c.search].hits}

SearchRecords == [by : Nat, hits : SUBSET Products]

FactsOn(b) ==
    [turn : Turns \cup {None}, search : SUBSET Products, shown : Seq(CardsOn(b)),
     history : Seq(CardsOn(b)), revision : Nat]

EventsOn(b) == [kind : {"invoke", "result"}, id : Nat, tool : Tools, search : 0..Len(b)]

LEMMA ResolveFinds ==
    ASSUME NEW cards, \A c \in cards : c.product \in Products,
           NEW selected, Len(selected) \in Nat
    PROVE  /\ Resolve(selected, cards) \in Seq(cards)
           /\ Len(Resolve(selected, cards)) <= Len(selected)
           /\ LET known == Firsts(selected, {c.product : c \in cards}) IN
              /\ DOMAIN Resolve(selected, cards) = 1..Len(known)
              /\ Len(Resolve(selected, cards)) = Len(known)
              /\ \A i \in 1..Len(known) :
                    /\ Resolve(selected, cards)[i] \in cards
                    /\ Resolve(selected, cards)[i].product = known[i]
                    /\ Resolve(selected, cards)[i] = CHOOSE c \in cards : c.product = known[i]
<1> DEFINE T == {c.product : c \in cards}
           known == Firsts(selected, T)
<1>1. known \in Seq(T) /\ Len(known) <= Len(selected)
  BY FirstsAre DEF FirstsAt
<1>2. Resolve(selected, cards) = [i \in DOMAIN known |-> CHOOSE c \in cards : c.product = known[i]]
  BY DEF Resolve
<1> HIDE DEF known
<1>3. DOMAIN known = 1..Len(known) /\ Len(known) \in Nat /\ \A i \in 1..Len(known) : known[i] \in T
  BY <1>1
<1>4. ASSUME NEW i \in 1..Len(known)
      PROVE  LET c == CHOOSE d \in cards : d.product = known[i] IN c \in cards /\ c.product = known[i]
  <2>1. PICK c \in cards : c.product = known[i]
    BY <1>3
  <2> QED
    BY <2>1
<1> DEFINE r == Resolve(selected, cards)
<1>5. /\ DOMAIN r = 1..Len(known)
      /\ \A i \in 1..Len(known) : /\ r[i] \in cards /\ r[i].product = known[i]
                                  /\ r[i] = CHOOSE c \in cards : c.product = known[i]
  BY <1>2, <1>3, <1>4
<1>6. r = [i \in 1..Len(known) |-> r[i]]
  BY <1>2, <1>3
<1> HIDE DEF r
<1>7. r \in Seq(cards) /\ Len(r) = Len(known)
  <2>1. r \in [1..Len(known) -> cards]
    BY <1>5, <1>6
  <2> QED
    BY <1>3, <2>1
<1> QED
  BY <1>1, <1>3, <1>5, <1>7 DEF r, known

\* The searches of a sequence that found a product.
FindsOf(searches, p) == {i \in DOMAIN searches : p \in bus[searches[i]].hits}

\* A product some searches found has the number of the last that found it, and
\* the others are what they were.
IsCard(c, before, searches) ==
    \/ c \in before /\ FindsOf(searches, c.product) = {}
    \/ \E p \in Products : \E i \in FindsOf(searches, p) :
          /\ c = [product |-> p, search |-> searches[i]]
          /\ \A j \in FindsOf(searches, p) : j <= i

\* The cards there are after some searches.
LEMMA RenewedIs ==
    ASSUME NEW n \in Nat, NEW before, NEW searches, DOMAIN searches \in SUBSET (0..n), NEW c
    PROVE  c \in Renewed(before, searches) <=> IsCard(c, before, searches)
<1> DEFINE card(p) == [product |-> p, search |-> searches[Max(FindsOf(searches, p))]]
<1>1. c \in Renewed(before, searches) <=>
                \/ c \in before /\ FindsOf(searches, c.product) = {}
                \/ \E p \in Products : FindsOf(searches, p) # {} /\ c = card(p)
  <2>1. Renewed(before, searches) =
           {card(p) : p \in {q \in Products : FindsOf(searches, q) # {}}}
           \cup {d \in before : FindsOf(searches, d.product) = {}}
    BY DEF Renewed, FindsOf
  <2> HIDE DEF card
  <2> QED
    BY <2>1
<1>2. ASSUME NEW p, FindsOf(searches, p) # {}
      PROVE  /\ Max(FindsOf(searches, p)) \in FindsOf(searches, p)
             /\ \A j \in FindsOf(searches, p) : j <= Max(FindsOf(searches, p))
             /\ \A i \in FindsOf(searches, p) :
                   (\A j \in FindsOf(searches, p) : j <= i) => i = Max(FindsOf(searches, p))
  <2>1. FindsOf(searches, p) \in SUBSET (0..n)
    BY DEF FindsOf
  <2>2. /\ Max(FindsOf(searches, p)) \in FindsOf(searches, p)
        /\ \A j \in FindsOf(searches, p) : j <= Max(FindsOf(searches, p))
    BY <1>2, <2>1, GreatestOf
  <2> QED
    BY <2>1, <2>2
<1>3. ASSUME NEW p
      PROVE  FindsOf(searches, p) # {} /\ c = card(p) <=>
                \E i \in FindsOf(searches, p) :
                      /\ c = [product |-> p, search |-> searches[i]]
                      /\ \A j \in FindsOf(searches, p) : j <= i
  <2>1. CASE FindsOf(searches, p) = {}
    BY <2>1
  <2>2. CASE FindsOf(searches, p) # {}
    <3>1. c = card(p) =>
                \E i \in FindsOf(searches, p) :
                      /\ c = [product |-> p, search |-> searches[i]]
                      /\ \A j \in FindsOf(searches, p) : j <= i
      BY <1>2, <2>2
    <3>2. ASSUME NEW i \in FindsOf(searches, p), c = [product |-> p, search |-> searches[i]],
                 \A j \in FindsOf(searches, p) : j <= i
          PROVE  c = card(p)
      <4>1. i = Max(FindsOf(searches, p))
        BY <1>2, <2>2, <3>2
      <4> QED
        BY <3>2, <4>1
    <3> HIDE DEF card
    <3> QED
      BY <2>2, <3>1, <3>2
  <2> QED
    BY <2>1, <2>2
<1> HIDE DEF card
<1> QED
  BY <1>1, <1>3 DEF IsCard

LEMMA RenewedFinds ==
    ASSUME bus \in Seq(SearchRecords), NEW before \in SUBSET CardsOn(bus), NEW searches,
           NEW n \in Nat, DOMAIN searches \in SUBSET (0..n),
           \A i \in DOMAIN searches : searches[i] \in 1..Len(bus)
    PROVE  Renewed(before, searches) \in SUBSET CardsOn(bus)
<1> SUFFICES ASSUME NEW c \in Renewed(before, searches) PROVE c \in CardsOn(bus)
  OBVIOUS
<1>1. c \in before \/ \E p \in Products : \E i \in FindsOf(searches, p) :
                        c = [product |-> p, search |-> searches[i]]
  BY RenewedIs DEF IsCard
<1>2. ASSUME NEW p \in Products, NEW i \in FindsOf(searches, p),
             c = [product |-> p, search |-> searches[i]]
      PROVE  c \in CardsOn(bus)
  <2>1. searches[i] \in 1..Len(bus) /\ p \in bus[searches[i]].hits
    BY DEF FindsOf
  <2> QED
    BY <1>2, <2>1 DEF CardsOn
<1> QED
  BY <1>1, <1>2

LEMMA ProductsAre ==
    ASSUME NEW C, NEW s \in Seq(C)
    PROVE  /\ Len(ProductsOf(s)) = Len(s) /\ Len(s) \in Nat
           /\ DOMAIN ProductsOf(s) = 1..Len(s)
           /\ \A i \in 1..Len(s) : ProductsOf(s)[i] = s[i].product
<1>1. DOMAIN s = 1..Len(s) /\ Len(s) \in Nat
  OBVIOUS
<1>2. ProductsOf(s) = [i \in 1..Len(s) |-> s[i].product]
  BY <1>1 DEF ProductsOf
<1>3. ProductsOf(s) \in Seq({s[i].product : i \in 1..Len(s)})
  BY <1>1, <1>2
<1> QED
  BY <1>1, <1>2, <1>3

\* What is remembered: of every product of the two its first card, in the
\* order of their first cards.
LEMMA RememberFinds ==
    ASSUME NEW C, \A c \in C : c.product \in Products, NEW displayed \in Seq(C), NEW history \in Seq(C)
    PROVE  LET both == displayed \o history
               products == Firsts(ProductsOf(both), Products)
           IN  /\ Remember(displayed, history) \in Seq(C)
               /\ Len(Remember(displayed, history)) = Len(products)
               /\ \A i \in 1..Len(products) : \E j \in 1..Len(both) :
                     /\ Remember(displayed, history)[i] = both[j]
                     /\ both[j].product = products[i]
                     /\ \A k \in 1..Len(both) : both[k].product = products[i] => j <= k
<1> DEFINE both == displayed \o history
           ps == ProductsOf(both)
           products == Firsts(ps, Products)
           card(p) == both[SelectInSeq(both, LAMBDA c : c.product = p)]
<1>1. both \in Seq(C)
  OBVIOUS
<1>r. Remember(displayed, history) = [i \in DOMAIN products |-> card(products[i])]
  BY DEF Remember
<1> HIDE DEF both
<1>2. Len(ps) = Len(both) /\ Len(both) \in Nat /\ \A i \in 1..Len(both) : ps[i] = both[i].product /\ both[i] \in C
  BY <1>1, ProductsAre
<1> HIDE DEF ps
<1>3. FirstsAt(products, Len(ps), ps, Products)
  BY <1>2, FirstsAre
<1> HIDE DEF products
<1>4. products \in Seq(Products) /\ DOMAIN products = 1..Len(products) /\ Len(products) \in Nat
  BY <1>3 DEF FirstsAt
<1>5. ASSUME NEW i \in 1..Len(products)
      PROVE  \E j \in 1..Len(both) :
                 /\ card(products[i]) = both[j] /\ both[j].product = products[i]
                 /\ \A k \in 1..Len(both) : both[k].product = products[i] => j <= k
  <2> DEFINE I == {k \in 1..Len(both) : both[k].product = products[i]}
  <2>1. PICK k \in 1..Len(both) : ps[k] = products[i]
    BY <1>2, <1>3 DEF FirstsAt
  <2>2. I \in SUBSET Nat /\ I # {}
    BY <1>2, <2>1
  <2>3. SelectInSeq(both, LAMBDA c : c.product = products[i]) = Min(I)
    BY <2>2 DEF SelectInSeq
  <2> HIDE DEF I
  <2>4. Min(I) \in I /\ \A y \in I : Min(I) <= y
    BY <2>2, LeastOf
  <2> QED
    BY <2>3, <2>4 DEF I
<1> DEFINE r == Remember(displayed, history)
<1>6. \A i \in 1..Len(products) : card(products[i]) \in C
  BY <1>2, <1>5
<1>7. DOMAIN r = 1..Len(products) /\ \A i \in 1..Len(products) : r[i] = card(products[i])
  BY <1>r, <1>4
<1>8. r \in [1..Len(products) -> C]
  BY <1>r, <1>4, <1>6
<1> HIDE DEF r, card
<1>9. r \in Seq(C) /\ Len(r) = Len(products)
  BY <1>4, <1>8
<1> QED
  BY <1>5, <1>7, <1>9 DEF r, products, ps, both

LEMMA RecentIs ==
    ASSUME ContextAssumption, NEW C, NEW s \in Seq(C)
    PROVE  /\ Recent(s) \in Seq(C)
           /\ Len(Recent(s)) = IF Len(s) < MaxHistory THEN Len(s) ELSE MaxHistory
           /\ \A i \in 1..Len(Recent(s)) : Recent(s)[i] = s[i]
<1> DEFINE n == IF Len(s) < MaxHistory THEN Len(s) ELSE MaxHistory
<1>1. n \in Nat /\ n <= Len(s) /\ Len(s) \in Nat
  BY DEF ContextAssumption
<1> HIDE DEF n
<1>2. SubSeq(s, 1, n) \in Seq(C) /\ Len(SubSeq(s, 1, n)) = n /\ \A i \in 1..n : SubSeq(s, 1, n)[i] = s[i]
  BY <1>1
<1> QED
  BY <1>2 DEF Recent, n

LEMMA SearchesInBus ==
    ASSUME NEW b, NEW evts \in Seq(EventsOn(b)), Len(b) \in Nat
    PROVE  /\ Len(evts) \in Nat /\ DOMAIN SearchesOf(evts) \in SUBSET (0..Len(evts))
           /\ DOMAIN SearchesOf(evts) = Successes(evts)
           /\ \A i \in DOMAIN SearchesOf(evts) :
                 SearchesOf(evts)[i] = evts[i].search /\ SearchesOf(evts)[i] \in 1..Len(b)
<1>1. /\ Len(evts) \in Nat /\ DOMAIN SearchesOf(evts) \in SUBSET (0..Len(evts))
      /\ DOMAIN SearchesOf(evts) = Successes(evts)
  BY DEF SearchesOf, Successes
<1>2. ASSUME NEW i \in DOMAIN SearchesOf(evts)
      PROVE  SearchesOf(evts)[i] = evts[i].search /\ SearchesOf(evts)[i] \in 1..Len(b)
  <2>1. i \in Successes(evts) /\ SearchesOf(evts)[i] = evts[i].search
    BY DEF SearchesOf
  <2>2. i \in DOMAIN evts /\ evts[i].search # 0
    BY <2>1 DEF Successes
  <2>3. evts[i] \in EventsOn(b)
    BY <2>2
  <2> QED
    BY <2>1, <2>2, <2>3 DEF EventsOn
<1> QED
  BY <1>1, <1>2

Selections == BoundedSeq(Products, MaxShown) \cup {None}

LEMMA SelectionIs ==
    ASSUME NEW selected \in Selections, selected # None
    PROVE  selected \in Seq(Products) /\ Len(selected) \in Nat /\ Len(selected) <= MaxShown
<1>1. selected \in BoundedSeq(Products, MaxShown)
  BY DEF Selections
<1>2. PICK m \in 0..MaxShown : selected \in [1..m -> Products]
  BY <1>1 DEF BoundedSeq, SeqOf
<1> QED
  BY <1>2

LEMMA ChosenFinds ==
    ASSUME NEW selected \in Selections, NEW cards, \A c \in cards : c.product \in Products
    PROVE  Chosen(selected, cards) \in Seq(cards)
<1>1. CASE selected = None
  BY <1>1 DEF Chosen
<1>2. CASE selected # None
  BY <1>2, SelectionIs, ResolveFinds DEF Chosen
<1> QED
  BY <1>1, <1>2

LEMMA ReducedTyped ==
    ASSUME ContextAssumption, bus \in Seq(SearchRecords),
           NEW turn \in Turns \cup {None}, NEW evts \in Seq(EventsOn(bus)), NEW selected \in Selections,
           NEW old \in FactsOn(bus)
    PROVE  Reduced(turn, evts, selected, old) \in FactsOn(bus)
<1> DEFINE C == CardsOn(bus)
           displayed == Chosen(selected, Renewed(ToSet(old.history), SearchesOf(evts)))
           speaks == selected # None /\ (displayed # <<>> \/ Successes(evts) # {})
           found == Searched(evts, old.search)
           sh == IF speaks THEN displayed ELSE old.shown
           hi == IF speaks THEN Recent(Remember(displayed, old.history)) ELSE old.history
           new == [old EXCEPT !.turn = turn, !.search = found, !.shown = sh, !.history = hi]
<1>0. Len(bus) \in Nat /\ old.history \in Seq(C) /\ old.shown \in Seq(C) /\ \A c \in C : c.product \in Products
  BY DEF FactsOn, CardsOn
<1>1. Renewed(ToSet(old.history), SearchesOf(evts)) \in SUBSET C
  <2>1. ToSet(old.history) \in SUBSET C
    BY <1>0 DEF ToSet
  <2> QED
    BY <1>0, <2>1, SearchesInBus, RenewedFinds
<1>2. displayed \in Seq(C)
  <2> DEFINE R == Renewed(ToSet(old.history), SearchesOf(evts))
  <2>1. R \in SUBSET C
    BY <1>1
  <2> HIDE DEF R
  <2>2. Chosen(selected, R) \in Seq(R)
    BY <1>0, <2>1, ChosenFinds
  <2>3. Chosen(selected, R) \in Seq(C)
    BY <2>1, <2>2
  <2> QED
    BY <2>3 DEF R
<1> HIDE DEF displayed
<1>3. Recent(Remember(displayed, old.history)) \in Seq(C)
  <2>1. Remember(displayed, old.history) \in Seq(C)
    BY <1>0, <1>2, RememberFinds
  <2> QED
    BY <2>1, RecentIs
<1>4. found \in SUBSET Products
  <2>1. \A i \in Successes(evts) : bus[evts[i].search].hits \in SUBSET Products
    <3> TAKE i \in Successes(evts)
    <3>1. evts[i].search \in 1..Len(bus)
      BY <1>0, SearchesInBus DEF SearchesOf
    <3>2. bus[evts[i].search] \in SearchRecords
      BY <3>1
    <3> QED
      BY <3>2 DEF SearchRecords
  <2>2. Successes(evts) # {} => Max(Successes(evts)) \in Successes(evts)
    <3>1. Len(evts) \in Nat /\ Successes(evts) \in SUBSET (0..Len(evts))
      BY DEF Successes
    <3> QED
      BY <3>1, GreatestOf
  <2>3. old.search \in SUBSET Products
    BY DEF FactsOn
  <2> QED
    BY <2>1, <2>2, <2>3 DEF Searched
<1> HIDE DEF C, found
<1>5. sh \in Seq(C) /\ hi \in Seq(C)
  BY <1>0, <1>2, <1>3
<1> HIDE DEF sh, hi
<1>6. new \in FactsOn(bus)
  BY <1>4, <1>5 DEF FactsOn, C
<1>7. Reduced(turn, evts, selected, old) = IF new = old THEN old ELSE [new EXCEPT !.revision = @ + 1]
  BY DEF Reduced, displayed, sh, hi, found
<1> HIDE DEF new
<1>8. [new EXCEPT !.revision = @ + 1] \in FactsOn(bus)
  <2>1. new.revision + 1 \in Nat
    BY <1>6 DEF FactsOn
  <2> QED
    BY <1>6, <2>1 DEF FactsOn
<1> QED
  BY <1>6, <1>7, <1>8

----------------------------------------------------------------------------
(* Every card the session knows was found: the invariant and its steps.     *)

CallRecords == [id : Nat, turn : Turns, tool : Tools, since : Nat]

FoundInv ==
    /\ bus \in Seq(SearchRecords)
    /\ facts \in FactsOn(bus) /\ saved.facts \in FactsOn(bus)
    /\ intent \in Turns \cup {None}
    /\ events \in Seq(EventsOn(bus))
    /\ calls \in SUBSET CallRecords /\ made \in Nat
    /\ at \in [Turns -> Places]
    /\ heard \in [Turns -> Nat]
    /\ prior \in [Turns -> SUBSET CardsOn(bus)]
    /\ shown \in [Turns -> Seq(CardsOn(bus))]

\* What a longer bus has not made of the cards and the facts.
LEMMA BusGrows ==
    ASSUME FoundInv, NEW e \in SearchRecords, NEW b, b = Append(bus, e)
    PROVE  /\ b \in Seq(SearchRecords) /\ Len(b) = Len(bus) + 1 /\ Len(bus) \in Nat
           /\ CardsOn(bus) \subseteq CardsOn(b)
           /\ FactsOn(bus) \subseteq FactsOn(b)
           /\ Seq(EventsOn(bus)) \subseteq Seq(EventsOn(b))
           /\ Seq(CardsOn(bus)) \subseteq Seq(CardsOn(b))
<1>1. bus \in Seq(SearchRecords)
  BY DEF FoundInv
<1>2. /\ b \in Seq(SearchRecords) /\ Len(b) = Len(bus) + 1 /\ Len(bus) \in Nat
      /\ \A i \in 1..Len(bus) : b[i] = bus[i]
  BY <1>1
<1>3. CardsOn(bus) \subseteq CardsOn(b)
  BY <1>2 DEF CardsOn
<1>4. EventsOn(bus) \subseteq EventsOn(b)
  BY <1>2 DEF EventsOn
<1>5. Seq(EventsOn(bus)) \subseteq Seq(EventsOn(b)) /\ Seq(CardsOn(bus)) \subseteq Seq(CardsOn(b))
  BY <1>3, <1>4
<1>6. FactsOn(bus) \subseteq FactsOn(b)
  BY <1>5 DEF FactsOn
<1> QED
  BY <1>2, <1>3, <1>5, <1>6

LEMMA FoundStarts == ContextAssumption /\ ContextInit => FoundInv
<1> SUFFICES ASSUME ContextAssumption, ContextInit PROVE FoundInv
  OBVIOUS
<1>1. NoFacts \in FactsOn(<<>>)
  BY DEF NoFacts, FactsOn
<1>2. saved.facts = NoFacts
  BY DEF ContextInit
<1>3. {} \in SUBSET CallRecords /\ "idle" \in Places
  BY DEF Places
<1> QED
  BY <1>1, <1>2, <1>3 DEF ContextInit, FoundInv

\* A reduction keeps the facts found.
LEMMA ReduceFinds ==
    ASSUME ContextAssumption, FoundInv, NEW turn \in Turns \cup {None}, NEW evts \in Seq(EventsOn(bus)),
           NEW selected \in Selections, NEW by, Reduce(turn, evts, selected, by)
    PROVE  facts' \in FactsOn(bus)
<1>1. facts' = Reduced(turn, evts, selected, facts)
  BY DEF Reduce
<1> QED
  BY <1>1, ReducedTyped DEF FoundInv

LEMMA NoneSelected == None \in Selections /\ <<>> \in Seq(EventsOn(bus))
BY DEF Selections

LEMMA BeginFinds ==
    ASSUME FoundInv, NEW t \in Turns, Begin(t)
    PROVE  FoundInv'
<1>1. at' \in [Turns -> Places] /\ heard' \in [Turns -> Nat]
  <2>1. Len(bus) \in Nat
    BY DEF FoundInv
  <2> QED
    BY <2>1 DEF Begin, Move, FoundInv, Places
<1> QED
  BY <1>1 DEF Begin, Quiet, FoundInv

LEMMA StartReplyFinds ==
    ASSUME ContextAssumption, FoundInv, NEW t \in Turns, StartReply(t)
    PROVE  FoundInv'
<1>1. facts' \in FactsOn(bus)
  BY ReduceFinds, NoneSelected DEF StartReply
<1>2. ToSet(facts.history) \in SUBSET CardsOn(bus)
  BY DEF FoundInv, FactsOn, ToSet
<1>3. prior' \in [Turns -> SUBSET CardsOn(bus)] /\ at' \in [Turns -> Places]
  BY <1>2 DEF StartReply, Move, FoundInv, Places
<1> QED
  BY <1>1, <1>3, NoneSelected DEF StartReply, FoundInv

LEMMA CallFinds ==
    ASSUME FoundInv, NEW t \in Turns, NEW tool \in Tools, Call(t, tool)
    PROVE  FoundInv'
<1>0. Len(bus) \in Nat /\ made \in Nat
  BY DEF FoundInv
<1>1. calls' \in SUBSET CallRecords
  BY <1>0 DEF Call, FoundInv, CallRecords
<1>2. [kind |-> "invoke", id |-> made', tool |-> tool, search |-> 0] \in EventsOn(bus)
  BY <1>0 DEF Call, EventsOn
<1>3. events' \in Seq(EventsOn(bus))
  BY <1>2 DEF Call, FoundInv
<1> QED
  BY <1>0, <1>1, <1>3 DEF Call, Quiet, FoundInv

\* The end of a call, with a search of the bus or an error.
LEMMA ReturnFinds ==
    ASSUME FoundInv, NEW c \in calls, NEW search \in 0..Len(bus)', Return(c, search),
           bus' = bus \/ \E e \in SearchRecords : bus' = Append(bus, e)
    PROVE  FoundInv'
<1>1. /\ bus' \in Seq(SearchRecords) /\ Len(bus) \in Nat /\ CardsOn(bus) \subseteq CardsOn(bus')
      /\ FactsOn(bus) \subseteq FactsOn(bus') /\ Seq(EventsOn(bus)) \subseteq Seq(EventsOn(bus'))
      /\ Seq(CardsOn(bus)) \subseteq Seq(CardsOn(bus'))
  <2>1. CASE bus' = bus
    BY <2>1 DEF FoundInv
  <2>2. CASE \E e \in SearchRecords : bus' = Append(bus, e)
    BY <2>2, BusGrows
  <2> QED
    BY <2>1, <2>2
<1>2. [kind |-> "result", id |-> c.id, tool |-> c.tool, search |-> search] \in EventsOn(bus')
  BY DEF FoundInv, CallRecords, EventsOn
<1>3. events' \in Seq(EventsOn(bus'))
  <2>1. events \in Seq(EventsOn(bus'))
    BY <1>1 DEF FoundInv
  <2> QED
    BY <1>2, <2>1 DEF Return
<1>4. prior \in [Turns -> SUBSET CardsOn(bus')] /\ shown \in [Turns -> Seq(CardsOn(bus'))]
  BY <1>1 DEF FoundInv
<1>5. facts \in FactsOn(bus') /\ saved.facts \in FactsOn(bus')
  BY <1>1 DEF FoundInv
<1>6. calls' \in SUBSET CallRecords
  BY DEF Return, FoundInv
<1> QED
  BY <1>1, <1>3, <1>4, <1>5, <1>6 DEF Return, Quiet, FoundInv

LEMMA PublishAdds ==
    ASSUME FoundInv, NEW by \in Nat, NEW hits \in SUBSET Products, Publish(by, hits)
    PROVE  /\ [by |-> by, hits |-> hits] \in SearchRecords
           /\ bus' = Append(bus, [by |-> by, hits |-> hits])
           /\ Len(bus') = Len(bus) + 1 /\ Len(bus) \in Nat
<1>1. [by |-> by, hits |-> hits] \in SearchRecords
  BY DEF SearchRecords
<1>2. bus \in Seq(SearchRecords)
  BY DEF FoundInv
<1> QED
  BY <1>1, <1>2 DEF Publish

LEMMA LatestInBus ==
    ASSUME FoundInv, NEW c \in calls
    PROVE  Latest(c) \in 0..Len(bus)
<1> DEFINE I == {i \in (c.since + 1)..Len(bus) : bus[i].by = c.id}
<1>1. c.since \in Nat /\ Len(bus) \in Nat
  BY DEF FoundInv, CallRecords
<1>2. I \in SUBSET (0..Len(bus))
  BY <1>1
<1>3. Latest(c) = IF I # {} THEN Max(I) ELSE 0
  BY DEF Latest, SelectLastInSubSeq
<1> HIDE DEF I
<1>4. I # {} => Max(I) \in I
  BY <1>1, <1>2, GreatestOf
<1>5. CASE I = {}
  BY <1>1, <1>3, <1>5
<1>6. CASE I # {}
  <2>1. Latest(c) \in I
    BY <1>3, <1>4, <1>6
  <2> QED
    BY <1>2, <2>1
<1> QED
  BY <1>5, <1>6

LEMMA CallStepFinds ==
    ASSUME FoundInv, NEW c \in calls, CallSteps(c)
    PROVE  FoundInv'
<1>0. c.id \in Nat /\ bus \in Seq(SearchRecords) /\ Len(bus) \in Nat
  BY DEF FoundInv, CallRecords
<1>1. ASSUME NEW hits \in SUBSET Products, SearchReturns(c, hits) PROVE FoundInv'
  <2>1. /\ [by |-> 0, hits |-> hits] \in SearchRecords
        /\ bus' = Append(bus, [by |-> 0, hits |-> hits]) /\ Len(bus') = Len(bus) + 1
    BY <1>1, PublishAdds DEF SearchReturns
  <2>2. Return(c, Len(bus')) /\ Len(bus') \in 0..Len(bus')
    BY <1>0, <1>1, <2>1 DEF SearchReturns
  <2> QED
    BY <2>1, <2>2, ReturnFinds
<1>2. ASSUME NEW hits \in SUBSET Products, AgentSearches(c, hits) PROVE FoundInv'
  <2>1. /\ [by |-> c.id, hits |-> hits] \in SearchRecords
        /\ bus' = Append(bus, [by |-> c.id, hits |-> hits])
    BY <1>0, <1>2, PublishAdds DEF AgentSearches
  <2>2. /\ bus' \in Seq(SearchRecords) /\ CardsOn(bus) \subseteq CardsOn(bus')
        /\ FactsOn(bus) \subseteq FactsOn(bus') /\ Seq(EventsOn(bus)) \subseteq Seq(EventsOn(bus'))
        /\ Seq(CardsOn(bus)) \subseteq Seq(CardsOn(bus'))
    BY <2>1, BusGrows
  <2>3. prior \in [Turns -> SUBSET CardsOn(bus')] /\ shown \in [Turns -> Seq(CardsOn(bus'))]
    BY <2>2 DEF FoundInv
  <2>4. facts \in FactsOn(bus') /\ saved.facts \in FactsOn(bus') /\ events \in Seq(EventsOn(bus'))
    BY <2>2 DEF FoundInv
  <2> QED
    BY <1>2, <2>2, <2>3, <2>4 DEF AgentSearches, Quiet, FoundInv
<1>3. CASE AgentReturns(c)
  <2>1. Return(c, Latest(c)) /\ bus' = bus /\ Latest(c) \in 0..Len(bus')
    BY <1>3, LatestInBus DEF AgentReturns
  <2> QED
    BY <2>1, ReturnFinds
<1>4. CASE CallFails(c)
  <2>1. Return(c, 0) /\ bus' = bus /\ 0 \in 0..Len(bus')
    BY <1>0, <1>4 DEF CallFails
  <2> QED
    BY <2>1, ReturnFinds
<1> QED
  BY <1>1, <1>2, <1>3, <1>4 DEF CallSteps

LEMMA HeardFinds ==
    ASSUME FoundInv, NEW t \in Turns
    PROVE  Heard(t) \in SUBSET CardsOn(bus)
<1>1. bus \in Seq(SearchRecords) /\ prior[t] \in SUBSET CardsOn(bus) /\ heard[t] \in Nat /\ Len(bus) \in Nat
  BY DEF FoundInv
<1>2. \A i \in DOMAIN HeardSearches(t) : HeardSearches(t)[i] \in 1..Len(bus)
  BY <1>1 DEF HeardSearches
<1>3. DOMAIN HeardSearches(t) \in SUBSET (0..Len(bus))
  BY <1>1 DEF HeardSearches
<1> QED
  BY <1>1, <1>2, <1>3, RenewedFinds DEF Heard

LEMMA LeaveFinds ==
    ASSUME FoundInv, NEW t \in Turns, Leave(t)
    PROVE  heard' \in [Turns -> Nat] /\ prior' \in [Turns -> SUBSET CardsOn(bus)]
BY DEF Leave, FoundInv

LEMMA AnswerFinds ==
    ASSUME ContextAssumption, FoundInv, NEW t \in Turns, NEW selected \in Selections, Answer(t, selected)
    PROVE  FoundInv'
<1>1. facts' \in FactsOn(bus)
  BY ReduceFinds DEF Answer, FoundInv
<1>2. Chosen(selected, Heard(t)) \in Seq(CardsOn(bus))
  <2>1. Heard(t) \in SUBSET CardsOn(bus) /\ \A c \in CardsOn(bus) : c.product \in Products
    BY HeardFinds DEF CardsOn
  <2>2. Chosen(selected, Heard(t)) \in Seq(Heard(t))
    BY <2>1, ChosenFinds
  <2> QED
    BY <2>1, <2>2
<1>3. shown' \in [Turns -> Seq(CardsOn(bus))] /\ at' \in [Turns -> Places]
  BY <1>2 DEF Answer, Move, FoundInv, Places
<1>4. heard' \in [Turns -> Nat] /\ prior' \in [Turns -> SUBSET CardsOn(bus)]
  BY LeaveFinds DEF Answer
<1> QED
  BY <1>1, <1>3, <1>4, NoneSelected DEF Answer, FoundInv

LEMMA BreakFinds ==
    ASSUME ContextAssumption, FoundInv, NEW t \in Turns, NEW to \in {"waiting", "ending"}, Break(t, to)
    PROVE  FoundInv'
<1>1. facts' \in FactsOn(bus)
  BY ReduceFinds, NoneSelected DEF Break, FoundInv
<1>2. heard' \in [Turns -> Nat] /\ prior' \in [Turns -> SUBSET CardsOn(bus)]
  BY LeaveFinds DEF Break, FoundInv
<1>3. at' \in [Turns -> Places] /\ calls' \in SUBSET CallRecords
  BY DEF Break, Move, FoundInv, Places
<1> QED
  BY <1>1, <1>2, <1>3, NoneSelected DEF Break, FoundInv

LEMMA RestFinds ==
    ASSUME FoundInv, Restart \/ \E t \in Turns : Resume(t) \/ Persist(t)
    PROVE  FoundInv'
<1>1. ASSUME NEW t \in Turns, Resume(t) PROVE FoundInv'
  <2>1. at' \in [Turns -> Places]
    BY <1>1 DEF Resume, Move, FoundInv, Places
  <2> QED
    BY <1>1, <2>1 DEF Resume, Quiet, FoundInv
<1>2. ASSUME NEW t \in Turns, Persist(t) PROVE FoundInv'
  <2>1. at' \in [Turns -> Places]
    BY <1>2 DEF Persist, Move, FoundInv, Places
  <2>2. saved'.facts \in FactsOn(bus)
    BY <1>2 DEF Persist, FoundInv
  <2> QED
    BY <1>2, <2>1, <2>2 DEF Persist, Quiet, FoundInv
<1>3. CASE Restart
  <2>1. at' \in [Turns -> Places]
    BY <1>3 DEF Restart, FoundInv, Places
  <2> QED
    BY <1>3, <2>1, NoneSelected DEF Restart, FoundInv
<1> QED
  BY <1>1, <1>2, <1>3

LEMMA FoundStep ==
    ContextAssumption /\ FoundInv /\ [ContextNext]_contextVars => FoundInv'
<1> SUFFICES ASSUME ContextAssumption, FoundInv, [ContextNext]_contextVars PROVE FoundInv'
  OBVIOUS
<1>1. CASE UNCHANGED contextVars
  BY <1>1 DEF contextVars, FoundInv
<1>2. ASSUME NEW t \in Turns, TurnSteps(t) PROVE FoundInv'
  <2>1. CASE Retry(t) \/ Fail(t)
    BY <2>1, BreakFinds DEF Retry, Fail
  <2> QED
    BY <1>2, <2>1, BeginFinds, StartReplyFinds, CallFinds, AnswerFinds, RestFinds DEF TurnSteps, Selections
<1> QED
  BY <1>1, <1>2, CallStepFinds, RestFinds DEF ContextNext

THEOREM FoundInvariant == ContextSpec => []FoundInv
<1>1. ContextInit => FoundInv
  BY FoundStarts, ContextAssumption
<1>2. FoundInv /\ [ContextNext]_contextVars => FoundInv'
  BY FoundStep, ContextAssumption
<1> QED
  BY <1>1, <1>2, PTL DEF ContextSpec

\* A buyer is shown only cards a search of the session returned.
THEOREM OnlyFoundIsShown == ContextSpec => []ShownWasFound
<1>1. FoundInv => ShownWasFound
  <2> SUFFICES ASSUME FoundInv, NEW t \in Turns, NEW c \in ToSet(shown[t])
               PROVE  c.search \in DOMAIN bus /\ c.product \in bus[c.search].hits
    BY DEF ShownWasFound
  <2>1. shown[t] \in Seq(CardsOn(bus)) /\ bus \in Seq(SearchRecords)
    BY DEF FoundInv
  <2>2. c \in CardsOn(bus)
    BY <2>1 DEF ToSet
  <2> QED
    BY <2>1, <2>2 DEF CardsOn
<1> QED
  BY FoundInvariant, <1>1, PTL

----------------------------------------------------------------------------
(* Two sequences of firsts: when one is the beginning of the other.         *)

In(d, x) == \E k \in 1..Len(d) : d[k] = x

\* x is in s, and before any y.
Leads(s, x, y) == \E j \in 1..Len(s) : s[j] = x /\ \A i \in 1..j : s[i] # y

LEMMA FirstsLead ==
    ASSUME NEW s, Len(s) \in Nat, NEW T, NEW d, FirstsAt(d, Len(s), s, T)
    PROVE  /\ d \in Seq(T) /\ Len(d) \in Nat
           /\ \A x : In(d, x) <=> x \in T /\ In(s, x)
           /\ \A k, m \in 1..Len(d) : d[k] = d[m] => k = m
           /\ \A k, m \in 1..Len(d) : k < m => Leads(s, d[k], d[m])
           /\ \A k, m \in 1..Len(d) : Leads(s, d[k], d[m]) => k < m
<1>1. /\ d \in Seq(T) /\ Len(d) \in Nat /\ \A k \in 1..Len(d) : d[k] \in T
      /\ \A k, m \in 1..Len(d) : d[k] = d[m] => k = m
  BY DEF FirstsAt
<1>2. \A x : In(d, x) <=> x \in T /\ In(s, x)
  <2>1. ASSUME NEW x, In(d, x) PROVE x \in T /\ In(s, x)
    <3>1. PICK k \in 1..Len(d) : d[k] = x
      BY <2>1 DEF In
    <3>2. PICK j \in 1..Len(s) : s[j] = d[k]
      BY DEF FirstsAt
    <3> QED
      BY <1>1, <3>1, <3>2 DEF In
  <2>2. ASSUME NEW x \in T, In(s, x) PROVE In(d, x)
    <3>1. PICK j \in 1..Len(s) : s[j] = x
      BY <2>2 DEF In
    <3> QED
      BY <3>1 DEF FirstsAt, In
  <2> QED
    BY <2>1, <2>2
<1>3. \A k, m \in 1..Len(d) : k < m => Leads(s, d[k], d[m])
  BY DEF FirstsAt, Leads
<1>4. ASSUME NEW k \in 1..Len(d), NEW m \in 1..Len(d), Leads(s, d[k], d[m]) PROVE k < m
  <2>1. PICK j \in 1..Len(s) : s[j] = d[k] /\ \A i \in 1..j : s[i] # d[m]
    BY <1>4 DEF Leads
  <2>2. k # m
    BY <2>1
  <2>3. ASSUME m < k PROVE FALSE
    <3>1. PICK i \in 1..Len(s) : s[i] = d[m] /\ \A h \in 1..i : s[h] # d[k]
      BY <1>3, <2>3 DEF Leads
    <3>2. i <= j \/ j <= i
      OBVIOUS
    <3> QED
      BY <2>1, <3>1, <3>2
  <2> QED
    BY <1>1, <2>2, <2>3
<1> QED
  BY <1>1, <1>2, <1>3, <1>4

\* e is the beginning of d when its elements are some of d's, with all that
\* come before them, in the same order.
LEMMA BeginningOf ==
    ASSUME NEW d, Len(d) \in Nat, NEW e, Len(e) \in Nat,
           \A k, m \in 1..Len(d) : d[k] = d[m] => k = m,
           \A k, m \in 1..Len(e) : e[k] = e[m] => k = m,
           \A k \in 1..Len(e) : In(d, e[k]),
           \A i, j \in 1..Len(d) : j < i /\ In(e, d[i]) => In(e, d[j]),
           \A k, m \in 1..Len(e), i, j \in 1..Len(d) :
              k < m /\ d[i] = e[k] /\ d[j] = e[m] => i < j
    PROVE  Len(e) <= Len(d) /\ \A k \in 1..Len(e) : e[k] = d[k]
<1> DEFINE Bad == {k \in Nat : k \in 1..Len(e) /\ ~(k <= Len(d) /\ e[k] = d[k])}
<1>1. ASSUME Bad # {} PROVE FALSE
  <2>1. PICK k \in Bad : \A m \in Bad : k <= m
    <3> HIDE DEF Bad
    <3>1. Bad \in SUBSET Nat
      BY DEF Bad
    <3> QED
      BY <1>1, <3>1, LeastOf
  <2>2. k \in Nat /\ k \in 1..Len(e) /\ ~(k <= Len(d) /\ e[k] = d[k])
    OBVIOUS
  <2>3. \A m \in 1..Len(e) : m < k => m <= Len(d) /\ e[m] = d[m]
    BY <2>1, <2>2
  <2> HIDE DEF Bad
  <2>4. PICK i \in 1..Len(d) : d[i] = e[k]
    BY <2>2 DEF In
  <2>5. k < i
    <3>1. CASE i < k
      <4>1. i \in 1..Len(e) /\ e[i] = d[i]
        BY <2>2, <2>3, <3>1
      <4> QED
        BY <2>2, <2>4, <3>1, <4>1
    <3> QED
      BY <2>2, <2>4, <3>1
  <2>6. k \in 1..Len(d) /\ In(e, d[i])
    BY <2>2, <2>4, <2>5 DEF In
  <2>7. PICK j \in 1..Len(e) : e[j] = d[k]
    BY <2>4, <2>5, <2>6 DEF In
  <2>8. k < j
    <3>1. CASE j < k
      <4>1. e[j] = d[j] /\ j \in 1..Len(d)
        BY <2>2, <2>3, <2>6, <3>1
      <4> QED
        BY <2>6, <2>7, <3>1, <4>1
    <3>2. j # k
      BY <2>2, <2>6, <2>7
    <3> QED
      BY <2>2, <3>1, <3>2
  <2>9. i < k
    BY <2>2, <2>4, <2>6, <2>7, <2>8
  <2> QED
    BY <2>2, <2>5, <2>9
<1>2. \A k \in 1..Len(e) : k <= Len(d) /\ e[k] = d[k]
  BY <1>1
<1>3. Len(e) <= Len(d)
  <2>1. CASE Len(e) = 0
    BY <2>1
  <2>2. CASE Len(e) # 0
    <3>1. Len(e) \in 1..Len(e)
      BY <2>2
    <3> QED
      BY <1>2, <3>1
  <2> QED
    BY <2>1, <2>2
<1> QED
  BY <1>2, <1>3

\* The firsts of two sequences, when all of the one's come first in the other
\* and no two are led by one another.
LEMMA FirstsBegin ==
    ASSUME NEW s, Len(s) \in Nat, NEW T, NEW d, FirstsAt(d, Len(s), s, T),
           NEW q, Len(q) \in Nat, NEW U, NEW e, FirstsAt(e, Len(q), q, U),
           \A x : In(e, x) => In(d, x),
           \A x, y : In(e, x) /\ In(d, y) /\ Leads(s, y, x) => In(e, y),
           \A x, y : In(e, x) /\ In(e, y) /\ Leads(q, x, y) => ~Leads(s, y, x)
    PROVE  Len(e) <= Len(d) /\ \A k \in 1..Len(e) : e[k] = d[k]
<1>1. /\ Len(d) \in Nat
      /\ \A k, m \in 1..Len(d) : d[k] = d[m] => k = m
      /\ \A k, m \in 1..Len(d) : k < m => Leads(s, d[k], d[m])
      /\ \A k, m \in 1..Len(d) : Leads(s, d[k], d[m]) => k < m
  BY FirstsLead
<1>2. /\ Len(e) \in Nat
      /\ \A k, m \in 1..Len(e) : e[k] = e[m] => k = m
      /\ \A k, m \in 1..Len(e) : k < m => Leads(q, e[k], e[m])
  BY FirstsLead
<1>3. /\ \A k \in 1..Len(d) : In(d, d[k])
      /\ \A k \in 1..Len(e) : In(e, e[k]) /\ In(d, e[k])
  BY DEF In
<1>4. ASSUME NEW i \in 1..Len(d), NEW j \in 1..Len(d), j < i, In(e, d[i]) PROVE In(e, d[j])
  BY <1>1, <1>3, <1>4
<1>5. ASSUME NEW k \in 1..Len(e), NEW m \in 1..Len(e), NEW i \in 1..Len(d), NEW j \in 1..Len(d),
             k < m, d[i] = e[k], d[j] = e[m]
      PROVE  i < j
  <2>1. Leads(q, e[k], e[m])
    BY <1>2, <1>5
  <2>2. ~Leads(s, d[j], d[i])
    BY <1>3, <1>5, <2>1
  <2>3. ~(j < i)
    BY <1>1, <2>2
  <2>4. i # j
    BY <1>2, <1>5
  <2> QED
    BY <2>3, <2>4
<1>6. \A k \in 1..Len(e) : In(d, e[k])
  BY <1>3
<1> QED
  BY <1>1, <1>2, <1>4, <1>5, <1>6, BeginningOf

\* Two with the same elements are one.
LEMMA FirstsEqual ==
    ASSUME NEW s, Len(s) \in Nat, NEW T, NEW d, FirstsAt(d, Len(s), s, T),
           NEW q, Len(q) \in Nat, NEW U, NEW e, FirstsAt(e, Len(q), q, U),
           \A x : In(e, x) <=> In(d, x),
           \A x, y : In(e, x) /\ In(e, y) /\ Leads(q, x, y) => ~Leads(s, y, x)
    PROVE  d = e
<1>1. Len(e) <= Len(d) /\ \A k \in 1..Len(e) : e[k] = d[k]
  BY FirstsBegin
<1>2. Len(d) <= Len(e) /\ \A k \in 1..Len(d) : d[k] = e[k]
  <2>1. \A x, y : In(d, x) /\ In(d, y) /\ Leads(s, x, y) => ~Leads(q, y, x)
    OBVIOUS
  <2> QED
    BY <2>1, FirstsBegin
<1>3. d \in Seq(T) /\ e \in Seq(U) /\ Len(d) = Len(e)
  BY <1>1, <1>2, FirstsLead
<1> QED
  BY <1>1, <1>3

LEMMA NotBoth == \A s, x, y : Len(s) \in Nat /\ Leads(s, x, y) => ~Leads(s, y, x)
<1> SUFFICES ASSUME NEW s, NEW x, NEW y, Len(s) \in Nat, Leads(s, x, y), Leads(s, y, x) PROVE FALSE
  OBVIOUS
<1>1. PICK j \in 1..Len(s) : s[j] = x /\ \A i \in 1..j : s[i] # y
  BY DEF Leads
<1>2. PICK k \in 1..Len(s) : s[k] = y /\ \A i \in 1..k : s[i] # x
  BY DEF Leads
<1>3. j <= k \/ k <= j
  OBVIOUS
<1> QED
  BY <1>1, <1>2, <1>3

----------------------------------------------------------------------------
(* A history that is cut remembers what an uncut one begins with.           *)

\* How s \o q is looked up.
LEMMA Joined ==
    ASSUME NEW T, NEW s \in Seq(T), NEW q \in Seq(T)
    PROVE  /\ s \o q \in Seq(T) /\ Len(s \o q) = Len(s) + Len(q) /\ Len(s) \in Nat /\ Len(q) \in Nat
           /\ \A i \in 1..Len(s) : (s \o q)[i] = s[i]
           /\ \A i \in 1..Len(q) : (s \o q)[Len(s) + i] = q[i]
           /\ \A x : In(s \o q, x) <=> In(s, x) \/ In(q, x)
<1>1. /\ s \o q \in Seq(T) /\ Len(s \o q) = Len(s) + Len(q) /\ Len(s) \in Nat /\ Len(q) \in Nat
      /\ \A i \in 1..Len(s) : (s \o q)[i] = s[i]
  OBVIOUS
<1>2. \A i \in 1..Len(q) : (s \o q)[Len(s) + i] = q[i]
  OBVIOUS
<1>3. ASSUME NEW x, In(s \o q, x) PROVE In(s, x) \/ In(q, x)
  <2>1. PICK k \in 1..Len(s \o q) : (s \o q)[k] = x
    BY <1>3 DEF In
  <2>2. CASE k <= Len(s)
    BY <1>1, <2>1, <2>2 DEF In
  <2>3. CASE ~(k <= Len(s))
    <3>1. k - Len(s) \in 1..Len(q) /\ Len(s) + (k - Len(s)) = k
      BY <1>1, <2>3
    <3> QED
      BY <1>2, <2>1, <3>1 DEF In
  <2> QED
    BY <2>2, <2>3
<1>4. ASSUME NEW x, In(s, x) PROVE In(s \o q, x)
  BY <1>1, <1>4 DEF In
<1>5. ASSUME NEW x, In(q, x) PROVE In(s \o q, x)
  <2>1. PICK k \in 1..Len(q) : q[k] = x
    BY <1>5 DEF In
  <2>2. Len(s) + k \in 1..Len(s \o q)
    BY <1>1, <2>1
  <2> QED
    BY <1>2, <2>1, <2>2 DEF In
<1> QED
  BY <1>1, <1>2, <1>3, <1>4, <1>5

\* Who leads in s \o q: one of s does over all that s has not before it, one
\* of q alone over what s does not have.
LEMMA LeadsJoined ==
    ASSUME NEW T, NEW s \in Seq(T), NEW q \in Seq(T), NEW x, NEW y
    PROVE  Leads(s \o q, x, y) <=> Leads(s, x, y) \/ (~In(s, y) /\ Leads(q, x, y)) \/
                                   (~In(s, y) /\ In(s, x) /\ x # y)
<1> DEFINE z == s \o q
<1>1. /\ Len(z) = Len(s) + Len(q) /\ Len(s) \in Nat /\ Len(q) \in Nat
      /\ \A i \in 1..Len(s) : z[i] = s[i]
      /\ \A i \in 1..Len(q) : z[Len(s) + i] = q[i]
  BY Joined
<1> HIDE DEF z
<1>2. ASSUME Leads(s, x, y) PROVE Leads(z, x, y)
  <2>1. PICK j \in 1..Len(s) : s[j] = x /\ \A i \in 1..j : s[i] # y
    BY <1>2 DEF Leads
  <2>2. j \in 1..Len(z) /\ z[j] = x /\ \A i \in 1..j : z[i] # y
    BY <1>1, <2>1
  <2> QED
    BY <2>2 DEF Leads
<1>3. ASSUME ~In(s, y), Leads(q, x, y) PROVE Leads(z, x, y)
  <2>1. PICK j \in 1..Len(q) : q[j] = x /\ \A i \in 1..j : q[i] # y
    BY <1>3 DEF Leads
  <2>2. Len(s) + j \in 1..Len(z) /\ z[Len(s) + j] = x
    BY <1>1, <2>1
  <2>3. ASSUME NEW i \in 1..(Len(s) + j) PROVE z[i] # y
    <3>1. CASE i <= Len(s)
      BY <1>1, <1>3, <3>1 DEF In
    <3>2. CASE ~(i <= Len(s))
      <4>1. i - Len(s) \in 1..j /\ Len(s) + (i - Len(s)) = i /\ i - Len(s) \in 1..Len(q)
        BY <1>1, <2>1, <3>2
      <4> QED
        BY <1>1, <2>1, <4>1
    <3> QED
      BY <3>1, <3>2
  <2> QED
    BY <2>2, <2>3 DEF Leads
<1>4. ASSUME ~In(s, y), In(s, x) PROVE Leads(z, x, y)
  <2>1. PICK j \in 1..Len(s) : s[j] = x
    BY <1>4 DEF In
  <2>2. \A i \in 1..Len(s) : s[i] # y
    BY <1>4 DEF In
  <2>3. j \in 1..Len(z) /\ z[j] = x /\ \A i \in 1..j : i \in 1..Len(s) /\ z[i] = s[i]
    BY <1>1, <2>1
  <2> QED
    BY <2>2, <2>3 DEF Leads
<1>5. ASSUME Leads(z, x, y)
      PROVE  Leads(s, x, y) \/ (~In(s, y) /\ Leads(q, x, y)) \/ (~In(s, y) /\ In(s, x) /\ x # y)
  <2>1. PICK j \in 1..Len(z) : z[j] = x /\ \A i \in 1..j : z[i] # y
    BY <1>5 DEF Leads
  <2>2. CASE j <= Len(s)
    <3>1. j \in 1..Len(s) /\ s[j] = x /\ \A i \in 1..j : s[i] # y
      BY <1>1, <2>1, <2>2
    <3> QED
      BY <3>1 DEF Leads
  <2>3. CASE ~(j <= Len(s))
    <3>1. j - Len(s) \in 1..Len(q) /\ Len(s) + (j - Len(s)) = j
      BY <1>1, <2>3
    <3>2. q[j - Len(s)] = x
      BY <1>1, <2>1, <3>1
    <3>3. ASSUME NEW i \in 1..(j - Len(s)) PROVE q[i] # y
      <4>1. Len(s) + i \in 1..j /\ i \in 1..Len(q)
        BY <1>1, <3>1
      <4> QED
        BY <1>1, <2>1, <4>1
    <3>4. ~In(s, y)
      <4>1. \A i \in 1..Len(s) : i \in 1..j /\ z[i] = s[i]
        BY <1>1, <2>3
      <4> QED
        BY <2>1, <4>1 DEF In
    <3> QED
      BY <3>1, <3>2, <3>3, <3>4 DEF Leads
  <2> QED
    BY <2>2, <2>3
<1> QED
  BY <1>2, <1>3, <1>4, <1>5 DEF z

----------------------------------------------------------------------------
LEMMA RecentProducts ==
    ASSUME ContextAssumption, NEW C, NEW s \in Seq(C)
    PROVE  ProductsOf(Recent(s)) = Recent(ProductsOf(s))
<1> DEFINE P == {s[i].product : i \in 1..Len(s)}
           a == ProductsOf(Recent(s))
           b == Recent(ProductsOf(s))
<1>1. Recent(s) \in Seq(C) /\ Len(Recent(s)) = (IF Len(s) < MaxHistory THEN Len(s) ELSE MaxHistory)
      /\ \A i \in 1..Len(Recent(s)) : Recent(s)[i] = s[i]
  BY RecentIs
<1>2. Len(ProductsOf(s)) = Len(s) /\ DOMAIN ProductsOf(s) = 1..Len(s) /\ Len(s) \in Nat
      /\ \A i \in 1..Len(s) : ProductsOf(s)[i] = s[i].product
  BY ProductsAre
<1>3. Len(a) = Len(Recent(s)) /\ DOMAIN a = 1..Len(Recent(s))
      /\ \A i \in 1..Len(Recent(s)) : a[i] = Recent(s)[i].product
  BY <1>1, ProductsAre
<1>p. ProductsOf(s) = [i \in 1..Len(s) |-> s[i].product]
  BY DEF ProductsOf
<1>4. ProductsOf(s) \in Seq(P)
  BY <1>2, <1>p
<1>5. b \in Seq(P) /\ Len(b) = (IF Len(s) < MaxHistory THEN Len(s) ELSE MaxHistory)
      /\ \A i \in 1..Len(b) : b[i] = ProductsOf(s)[i]
  BY <1>2, <1>4, RecentIs
<1>6. Len(b) <= Len(s) /\ Len(b) \in Nat /\ DOMAIN b = 1..Len(b)
  BY <1>2, <1>5 DEF ContextAssumption
<1>7. a = [i \in 1..Len(Recent(s)) |-> a[i]]
  BY <1>1 DEF ProductsOf
<1> HIDE DEF a, b
<1>8. b = [i \in 1..Len(b) |-> b[i]]
  BY <1>5
<1>9. Len(Recent(s)) = Len(b)
  BY <1>1, <1>5
<1>10. ASSUME NEW i \in 1..Len(b) PROVE a[i] = b[i]
  <2>1. i \in 1..Len(s) /\ i \in 1..Len(Recent(s))
    BY <1>2, <1>6, <1>9
  <2>2. a[i] = s[i].product
    BY <1>1, <1>3, <2>1
  <2>3. b[i] = s[i].product
    BY <1>2, <1>5, <2>1
  <2> QED
    BY <2>2, <2>3
<1> QED
  BY <1>7, <1>8, <1>9, <1>10 DEF a, b

\* The beginning of one sequence that is as long as the bound is the recent
\* part of the other.
LEMMA RecentBegin ==
    ASSUME ContextAssumption, NEW T, NEW d \in Seq(T), NEW e \in Seq(T),
           Len(e) <= Len(d), \A k \in 1..Len(e) : e[k] = d[k],
           Len(e) = Len(d) \/ MaxHistory <= Len(e)
    PROVE  Recent(e) = Recent(d)
<1>0. Len(d) \in Nat /\ Len(e) \in Nat /\ MaxHistory \in Nat
  BY DEF ContextAssumption
<1>1. Recent(d) \in Seq(T) /\ Len(Recent(d)) = (IF Len(d) < MaxHistory THEN Len(d) ELSE MaxHistory)
      /\ \A i \in 1..Len(Recent(d)) : Recent(d)[i] = d[i]
  BY RecentIs
<1>2. Recent(e) \in Seq(T) /\ Len(Recent(e)) = (IF Len(e) < MaxHistory THEN Len(e) ELSE MaxHistory)
      /\ \A i \in 1..Len(Recent(e)) : Recent(e)[i] = e[i]
  BY RecentIs
<1>3. Len(Recent(d)) = Len(Recent(e)) /\ Len(Recent(e)) <= Len(e)
  BY <1>0, <1>1, <1>2
<1>4. \A i \in 1..Len(Recent(d)) : Recent(d)[i] = Recent(e)[i]
  BY <1>0, <1>1, <1>2, <1>3
<1> QED
  BY <1>1, <1>2, <1>3, <1>4

\* Different values of a sequence all of whose are in another: it is not longer.
LEMMA NotLonger ==
    ASSUME NEW n \in Nat, NEW h, \A i, j \in 1..n : h[i] = h[j] => i = j,
           NEW b, Len(b) \in Nat, \A i \in 1..n : In(b, h[i])
    PROVE  n <= Len(b)
<1> SUFFICES ASSUME ~(n <= Len(b)) PROVE FALSE
  OBVIOUS
<1> DEFINE f == [i \in 1..n |-> CHOOSE k \in 1..Len(b) : b[k] = h[i]]
<1>1. ASSUME NEW i \in 1..n PROVE f[i] \in 1..Len(b) /\ b[f[i]] = h[i]
  BY DEF In
<1>2. f \in [1..n -> 1..Len(b)]
  BY <1>1
<1> HIDE DEF f
<1>3. /\ IsFiniteSet(1..n) /\ Cardinality(1..n) = (IF 1 > n THEN 0 ELSE n - 1 + 1)
      /\ IsFiniteSet(1..Len(b)) /\ Cardinality(1..Len(b)) = (IF 1 > Len(b) THEN 0 ELSE Len(b) - 1 + 1)
  <2>1. \A k \in Nat : IsFiniteSet(1..k) /\ Cardinality(1..k) = (IF 1 > k THEN 0 ELSE k - 1 + 1)
    <3> TAKE k \in Nat
    <3>1. 1 \in Int /\ k \in Int
      OBVIOUS
    <3> QED
      BY <3>1, FS_Interval
  <2> QED
    BY <2>1
<1>4. Cardinality(1..Len(b)) < Cardinality(1..n)
  BY <1>3
<1>5. \E x, y \in 1..n : x # y /\ f[x] = f[y]
  BY <1>2, <1>3, <1>4, FS_PigeonHole
<1> QED
  BY <1>1, <1>5

\* What is shown goes before the history: cutting the history first makes no
\* difference to what is cut then.
LEMMA CutHistory ==
    ASSUME ContextAssumption, NEW D \in Seq(Products), NEW N \in Seq(Products), NEW H,
           H = Recent(Firsts(N, Products))
    PROVE  Recent(Firsts(D \o H, Products)) = Recent(Firsts(D \o N, Products))
<1> DEFINE F == Firsts(N, Products)
           A == Firsts(D \o N, Products)
           B == Firsts(D \o H, Products)
<1>1. FirstsAt(F, Len(N), N, Products) /\ Len(N) \in Nat
  BY FirstsAre
<1> HIDE DEF F
<1>2. /\ F \in Seq(Products) /\ Len(F) \in Nat /\ \A x : In(F, x) <=> x \in Products /\ In(N, x)
      /\ \A k, m \in 1..Len(F) : F[k] = F[m] => k = m
      /\ \A k, m \in 1..Len(F) : k < m => Leads(N, F[k], F[m])
      /\ \A k, m \in 1..Len(F) : Leads(N, F[k], F[m]) => k < m
  BY <1>1, FirstsLead
<1>3. /\ H \in Seq(Products) /\ Len(H) = (IF Len(F) < MaxHistory THEN Len(F) ELSE MaxHistory)
      /\ \A i \in 1..Len(H) : H[i] = F[i]
  BY <1>2, RecentIs DEF F
<1>4. Len(H) \in Nat /\ Len(H) <= Len(F) /\ 1..Len(H) \subseteq 1..Len(F) /\ MaxHistory \in Nat
  BY <1>2, <1>3 DEF ContextAssumption
<1>5. Len(D \o N) \in Nat /\ Len(D \o H) \in Nat /\ D \o N \in Seq(Products) /\ D \o H \in Seq(Products)
  BY <1>3
<1>6. FirstsAt(A, Len(D \o N), D \o N, Products) /\ FirstsAt(B, Len(D \o H), D \o H, Products)
  BY <1>5, FirstsAre
<1> HIDE DEF A, B
<1>7. /\ A \in Seq(Products) /\ Len(A) \in Nat
      /\ \A x : In(A, x) <=> x \in Products /\ In(D \o N, x)
  BY <1>5, <1>6, FirstsLead
<1>8. /\ B \in Seq(Products) /\ Len(B) \in Nat
      /\ \A x : In(B, x) <=> x \in Products /\ In(D \o H, x)
  BY <1>5, <1>6, FirstsLead
<1>9. \A x : /\ In(D \o N, x) <=> In(D, x) \/ In(N, x)
             /\ In(D \o H, x) <=> In(D, x) \/ In(H, x)
  BY <1>3, Joined
<1>10. \A x : In(H, x) <=> \E k \in 1..Len(H) : F[k] = x
  BY <1>3 DEF In
<1>11. \A x : In(F, x) <=> \E k \in 1..Len(F) : F[k] = x
  BY DEF In
<1>12. \A x : In(H, x) => In(F, x)
  BY <1>4, <1>10, <1>11
<1>13. \A x : In(B, x) => In(A, x)
  BY <1>2, <1>7, <1>8, <1>9, <1>12
<1>d. \A x, y : Leads(D, x, y) => In(D, x)
  BY DEF Leads, In
<1>n. \A x, y : Leads(N, x, y) => In(N, x)
  BY DEF Leads, In
<1>14. ASSUME NEW x, NEW y, In(B, x), In(A, y), Leads(D \o N, y, x) PROVE In(B, y)
  <2>1. y \in Products
    BY <1>7, <1>14
  <2>2. Leads(D, y, x) \/ (~In(D, x) /\ Leads(N, y, x)) \/ In(D, y)
    BY <1>14, LeadsJoined
  <2>3. CASE In(D, y)
    BY <1>8, <1>9, <2>1, <2>3
  <2>4. CASE ~In(D, x) /\ Leads(N, y, x)
    <3>1. In(H, x)
      BY <1>8, <1>9, <1>14, <2>4
    <3>2. PICK i \in 1..Len(H) : F[i] = x
      BY <1>10, <3>1
    <3>3. In(F, y)
      BY <1>2, <1>n, <2>1, <2>4
    <3>4. PICK j \in 1..Len(F) : F[j] = y
      BY <1>11, <3>3
    <3>5. j < i
      BY <1>2, <1>4, <2>4, <3>2, <3>4
    <3>6. j \in 1..Len(H)
      BY <1>4, <3>5
    <3> QED
      BY <1>8, <1>9, <1>10, <2>1, <3>4, <3>6
  <2> QED
    BY <1>d, <2>2, <2>3, <2>4
<1>15. ASSUME NEW x, NEW y, In(B, x), In(B, y), Leads(D \o H, x, y), Leads(D \o N, y, x) PROVE FALSE
  <2>1. Leads(D, x, y) \/ (~In(D, y) /\ Leads(H, x, y)) \/ (~In(D, y) /\ In(D, x) /\ x # y)
    BY <1>3, <1>15, LeadsJoined
  <2>2. Leads(D, y, x) \/ (~In(D, x) /\ Leads(N, y, x)) \/ (~In(D, x) /\ In(D, y) /\ y # x)
    BY <1>15, LeadsJoined
  <2>3. ~(Leads(D, x, y) /\ Leads(D, y, x))
    BY NotBoth
  <2>4. ~In(D, y) /\ Leads(H, x, y) /\ ~In(D, x) /\ Leads(N, y, x)
    BY <1>d, <2>1, <2>2, <2>3
  <2>5. PICK j \in 1..Len(H) : H[j] = x /\ \A i \in 1..j : H[i] # y
    BY <2>4 DEF Leads
  <2>6. In(H, y)
    BY <1>8, <1>9, <1>15, <2>4
  <2>7. PICK k \in 1..Len(H) : F[k] = y
    BY <1>10, <2>6
  <2>8. j < k
    BY <1>3, <1>4, <2>5, <2>7
  <2>9. Leads(N, x, y)
    BY <1>2, <1>3, <1>4, <2>5, <2>7, <2>8
  <2> QED
    BY <1>1, <2>4, <2>9, NotBoth
<1>16. Len(B) <= Len(A) /\ \A k \in 1..Len(B) : B[k] = A[k]
  <2>1. \A x, y : In(B, x) /\ In(A, y) /\ Leads(D \o N, y, x) => In(B, y)
    BY <1>14
  <2>2. \A x, y : In(B, x) /\ In(B, y) /\ Leads(D \o H, x, y) => ~Leads(D \o N, y, x)
    BY <1>15
  <2> DEFINE s == D \o N
             q == D \o H
  <2>3. /\ Len(s) \in Nat /\ FirstsAt(A, Len(s), s, Products)
        /\ Len(q) \in Nat /\ FirstsAt(B, Len(q), q, Products)
    BY <1>5, <1>6
  <2>4. /\ \A x, y : In(B, x) /\ In(A, y) /\ Leads(s, y, x) => In(B, y)
        /\ \A x, y : In(B, x) /\ In(B, y) /\ Leads(q, x, y) => ~Leads(s, y, x)
    BY <2>1, <2>2
  <2> HIDE DEF s, q
  <2> QED
    BY <1>13, <2>3, <2>4, FirstsBegin
<1>17. Len(B) = Len(A) \/ MaxHistory <= Len(B)
  <2>1. CASE Len(F) < MaxHistory
    <3>1. \A k \in 1..Len(A) : In(B, A[k])
      <4>1. Len(H) = Len(F)
        BY <1>3, <2>1
      <4>2. \A x : In(F, x) => In(H, x)
        BY <1>10, <1>11, <4>1
      <4>3. \A x : In(A, x) => In(B, x)
        BY <1>2, <1>7, <1>8, <1>9, <4>2
      <4> QED
        BY <4>3 DEF In
    <3>2. \A i, j \in 1..Len(A) : A[i] = A[j] => i = j
      BY <1>6 DEF FirstsAt
    <3>3. Len(A) <= Len(B)
      BY <1>7, <1>8, <3>1, <3>2, NotLonger
    <3> QED
      BY <1>7, <1>8, <1>16, <3>3
  <2>2. CASE ~(Len(F) < MaxHistory)
    <3>1. Len(H) = MaxHistory
      BY <1>3, <2>2
    <3>2. \A i, j \in 1..MaxHistory : H[i] = H[j] => i = j
      BY <1>2, <1>3, <1>4, <3>1
    <3>3. \A i \in 1..MaxHistory : In(B, H[i])
      <4>1. \A i \in 1..MaxHistory : In(H, H[i]) /\ H[i] \in Products
        BY <1>3, <3>1 DEF In
      <4> QED
        BY <1>8, <1>9, <4>1
    <3> QED
      BY <1>4, <1>8, <3>2, <3>3, NotLonger
  <2> QED
    BY <2>1, <2>2
<1>18. Recent(B) = Recent(A)
  BY <1>7, <1>8, <1>16, <1>17, RecentBegin
<1> QED
  BY <1>18 DEF A, B

LEMMA ProductsTyped ==
    ASSUME NEW C, \A c \in C : c.product \in Products, NEW s \in Seq(C)
    PROVE  /\ ProductsOf(s) \in Seq(Products) /\ Len(ProductsOf(s)) = Len(s)
           /\ \A i \in 1..Len(s) : ProductsOf(s)[i] = s[i].product
<1>1. Len(s) \in Nat /\ DOMAIN s = 1..Len(s) /\ \A i \in 1..Len(s) : s[i].product \in Products
  OBVIOUS
<1>2. ProductsOf(s) = [i \in 1..Len(s) |-> s[i].product]
  BY <1>1 DEF ProductsOf
<1> QED
  BY <1>1, <1>2, ProductsAre

LEMMA ProductsJoined ==
    ASSUME NEW C, \A c \in C : c.product \in Products, NEW s \in Seq(C), NEW q \in Seq(C)
    PROVE  ProductsOf(s \o q) = ProductsOf(s) \o ProductsOf(q)
<1> DEFINE a == ProductsOf(s)
           b == ProductsOf(q)
           d == ProductsOf(s \o q)
<1>1. /\ a \in Seq(Products) /\ Len(a) = Len(s) /\ \A i \in 1..Len(s) : a[i] = s[i].product
      /\ b \in Seq(Products) /\ Len(b) = Len(q) /\ \A i \in 1..Len(q) : b[i] = q[i].product
  BY ProductsTyped
<1>2. s \o q \in Seq(C) /\ Len(s \o q) = Len(s) + Len(q) /\ Len(s) \in Nat /\ Len(q) \in Nat
  OBVIOUS
<1>3. d \in Seq(Products) /\ Len(d) = Len(s) + Len(q) /\ \A i \in 1..Len(s \o q) : d[i] = (s \o q)[i].product
  BY <1>2, ProductsTyped
<1> HIDE DEF a, b, d
<1>4. a \o b \in Seq(Products) /\ Len(a \o b) = Len(s) + Len(q)
  BY <1>1, <1>2
<1>5. ASSUME NEW i \in 1..(Len(s) + Len(q)) PROVE (a \o b)[i] = d[i]
  <2>1. CASE i <= Len(s)
    <3>1. i \in 1..Len(s) /\ (a \o b)[i] = a[i] /\ (s \o q)[i] = s[i]
      BY <1>1, <1>2, <2>1
    <3> QED
      BY <1>1, <1>2, <1>3, <3>1
  <2>2. CASE ~(i <= Len(s))
    <3>1. i - Len(s) \in 1..Len(q) /\ (a \o b)[i] = b[i - Len(s)] /\ (s \o q)[i] = q[i - Len(s)]
      BY <1>1, <1>2, <2>2
    <3> QED
      BY <1>1, <1>2, <1>3, <3>1
  <2> QED
    BY <2>1, <2>2
<1>6. a \o b = d
  BY <1>3, <1>4, <1>5
<1> QED
  BY <1>6 DEF a, b, d

LEMMA RememberProducts ==
    ASSUME NEW C, \A c \in C : c.product \in Products, NEW displayed \in Seq(C), NEW history \in Seq(C)
    PROVE  /\ ProductsOf(Remember(displayed, history)) =
                 Firsts(ProductsOf(displayed) \o ProductsOf(history), Products)
           /\ Remember(displayed, history) \in Seq(C)
<1> DEFINE both == displayed \o history
           products == Firsts(ProductsOf(both), Products)
           r == Remember(displayed, history)
<1>0. /\ r \in Seq(C) /\ Len(r) = Len(products)
      /\ \A i \in 1..Len(products) : \E j \in 1..Len(both) :
            /\ r[i] = both[j]
            /\ both[j].product = products[i]
            /\ \A k \in 1..Len(both) : both[k].product = products[i] => j <= k
  BY RememberFinds
<1>1. /\ r \in Seq(C) /\ Len(r) = Len(products)
      /\ \A i \in 1..Len(products) : r[i].product = products[i]
  <2> HIDE DEF r, both, products
  <2> QED
    BY <1>0
<1>2. ProductsOf(both) = ProductsOf(displayed) \o ProductsOf(history)
  BY ProductsJoined
<1>3. both \in Seq(C)
  OBVIOUS
<1>4. ProductsOf(both) \in Seq(Products) /\ Len(ProductsOf(both)) \in Nat
  <2> HIDE DEF both
  <2>1. ProductsOf(both) \in Seq(Products)
    BY <1>3, ProductsTyped
  <2> QED
    BY <2>1
<1>5. products \in Seq(Products)
  BY <1>4, FirstsAre DEF FirstsAt
<1> HIDE DEF r, products
<1>6. ProductsOf(r) \in Seq(Products) /\ Len(ProductsOf(r)) = Len(r)
      /\ \A i \in 1..Len(r) : ProductsOf(r)[i] = r[i].product
  BY <1>1, ProductsTyped
<1>7. ProductsOf(r) = products
  <2>1. Len(ProductsOf(r)) = Len(products) /\ \A i \in 1..Len(products) : ProductsOf(r)[i] = products[i]
    BY <1>1, <1>6
  <2> QED
    BY <1>5, <1>6, <2>1
<1> QED
  BY <1>1, <1>2, <1>7 DEF r, products

----------------------------------------------------------------------------
(* A reduction, field by field.                                             *)

Known(evts, old) == Renewed(ToSet(old.history), SearchesOf(evts))

Displayed(evts, selected, old) == Chosen(selected, Known(evts, old))

Speaks(evts, selected, old) ==
    selected # None /\ (Displayed(evts, selected, old) # <<>> \/ Successes(evts) # {})

LEMMA ReducedIs ==
    ASSUME NEW turn, NEW evts, NEW selected, NEW old \in FactsOn(bus)
    PROVE  LET new == Reduced(turn, evts, selected, old)
               sh  == IF Speaks(evts, selected, old) THEN Displayed(evts, selected, old) ELSE old.shown
               hi  == IF Speaks(evts, selected, old)
                        THEN Recent(Remember(Displayed(evts, selected, old), old.history))
                        ELSE old.history
           IN  /\ new.turn = turn /\ new.search = Searched(evts, old.search)
               /\ new.shown = sh /\ new.history = hi
               /\ turn = old.turn /\ Searched(evts, old.search) = old.search
                     /\ sh = old.shown /\ hi = old.history => new = old
<1> DEFINE displayed == Chosen(selected, Renewed(ToSet(old.history), SearchesOf(evts)))
           speaks == selected # None /\ (displayed # <<>> \/ Successes(evts) # {})
           found == Searched(evts, old.search)
           sh == IF speaks THEN displayed ELSE old.shown
           hi == IF speaks THEN Recent(Remember(displayed, old.history)) ELSE old.history
           new == [old EXCEPT !.turn = turn, !.search = found, !.shown = sh, !.history = hi]
<1>1. Reduced(turn, evts, selected, old) = IF new = old THEN old ELSE [new EXCEPT !.revision = @ + 1]
  BY DEF Reduced
<1>2. speaks = Speaks(evts, selected, old) /\ displayed = Displayed(evts, selected, old)
  BY DEF Speaks, Displayed, Known
<1>3. DOMAIN old = {"turn", "search", "shown", "history", "revision"}
  BY DEF FactsOn
<1>s. sh = IF Speaks(evts, selected, old) THEN Displayed(evts, selected, old) ELSE old.shown
  BY <1>2
<1>h. hi = IF Speaks(evts, selected, old)
                        THEN Recent(Remember(Displayed(evts, selected, old), old.history))
                        ELSE old.history
  BY <1>2
<1> HIDE DEF displayed, speaks, sh, hi, found
<1>4. new.turn = turn /\ new.search = found /\ new.shown = sh /\ new.history = hi
      /\ DOMAIN new = DOMAIN old
  BY <1>3
<1>5. turn = old.turn /\ found = old.search /\ sh = old.shown /\ hi = old.history => new = old
  <2> SUFFICES ASSUME turn = old.turn, found = old.search, sh = old.shown, hi = old.history
               PROVE  new = old
    OBVIOUS
  <2>1. old \in [turn : Turns \cup {None}, search : SUBSET Products, shown : Seq(CardsOn(bus)),
                 history : Seq(CardsOn(bus)), revision : Nat]
    BY DEF FactsOn
  <2> QED
    BY <2>1
<1> HIDE DEF new
<1>6. LET q == [new EXCEPT !.revision = @ + 1]
      IN  q.turn = turn /\ q.search = found /\ q.shown = sh /\ q.history = hi
  BY <1>3, <1>4
<1>7. LET q == Reduced(turn, evts, selected, old)
      IN  q.turn = turn /\ q.search = found /\ q.shown = sh /\ q.history = hi
  BY <1>1, <1>4, <1>6
<1>8. new = old => Reduced(turn, evts, selected, old) = old
  BY <1>1
<1> QED
  BY <1>5, <1>7, <1>8, <1>s, <1>h DEF found

\* A reduction without a successful search knows the history.
LEMMA KnownWithout ==
    ASSUME NEW evts \in Seq(EventsOn(bus)), Len(bus) \in Nat, Successes(evts) = {}, NEW old
    PROVE  Known(evts, old) = ToSet(old.history)
<1>1. /\ Len(evts) \in Nat /\ DOMAIN SearchesOf(evts) \in SUBSET (0..Len(evts))
      /\ DOMAIN SearchesOf(evts) = {}
  BY SearchesInBus
<1>2. \A p : FindsOf(SearchesOf(evts), p) = {}
  BY <1>1 DEF FindsOf
<1>3. \A c : c \in Known(evts, old) <=> c \in ToSet(old.history)
  BY <1>1, <1>2, RenewedIs DEF Known, IsCard
<1> QED
  BY <1>3

LEMMA RecommendsSpeaks ==
    ASSUME FoundInv, NEW evts \in Seq(EventsOn(bus)), NEW selected
    PROVE  Recommends(evts, selected) <=> Speaks(evts, selected, facts)
<1>1. Len(bus) \in Nat
  BY DEF FoundInv
<1>2. Successes(evts) = {} => Known(evts, facts) = ToSet(facts.history)
  BY <1>1, KnownWithout
<1> QED
  BY <1>2 DEF Recommends, Speaks, Displayed, Chosen

----------------------------------------------------------------------------
(* The history holds the products recommended last.                         *)

LogEntries == [turn : Turns, products : Seq(Products), named : Seq(Products)]

NamedIn(l) == IF l = <<>> THEN <<>> ELSE l[Len(l)].named

IsRecent(f, l) == ProductsOf(f.history) = Recent(Firsts(NamedIn(l), Products))

HistoryInv ==
    /\ FoundInv
    /\ log \in Seq(LogEntries) /\ saved.log \in Seq(LogEntries)
    /\ IsRecent(facts, log) /\ IsRecent(saved.facts, saved.log)

LEMMA NamedTyped ==
    ASSUME NEW l \in Seq(LogEntries)
    PROVE  NamedIn(l) \in Seq(Products)
<1>1. CASE l = <<>>
  BY <1>1 DEF NamedIn
<1>2. CASE l # <<>>
  <2>1. Len(l) \in 1..Len(l)
    BY <1>2
  <2>2. l[Len(l)] \in LogEntries
    BY <2>1
  <2> QED
    BY <1>2, <2>2 DEF NamedIn, LogEntries
<1> QED
  BY <1>1, <1>2

LEMMA CardsHaveProducts == \A b : \A c \in CardsOn(b) : c.product \in Products
BY DEF CardsOn

\* What is displayed is of the bus.
LEMMA DisplayedFinds ==
    ASSUME ContextAssumption, bus \in Seq(SearchRecords), NEW evts \in Seq(EventsOn(bus)),
           NEW selected \in Selections, NEW old \in FactsOn(bus)
    PROVE  /\ Known(evts, old) \in SUBSET CardsOn(bus)
           /\ Displayed(evts, selected, old) \in Seq(CardsOn(bus))
<1>1. ToSet(old.history) \in SUBSET CardsOn(bus) /\ Len(bus) \in Nat
  BY DEF FactsOn, ToSet
<1>2. Known(evts, old) \in SUBSET CardsOn(bus)
  BY <1>1, SearchesInBus, RenewedFinds DEF Known
<1>3. Displayed(evts, selected, old) \in Seq(Known(evts, old))
  BY <1>2, CardsHaveProducts, ChosenFinds DEF Displayed
<1> QED
  BY <1>2, <1>3

LEMMA ReduceKeepsHistory ==
    ASSUME ContextAssumption, HistoryInv, NEW turn \in Turns \cup {None}, NEW evts \in Seq(EventsOn(bus)),
           NEW selected \in Selections, NEW by \in Turns, Reduce(turn, evts, selected, by)
    PROVE  log' \in Seq(LogEntries) /\ IsRecent(facts, log)'
<1> DEFINE D == Displayed(evts, selected, facts)
           h == facts.history
<1>1. facts \in FactsOn(bus) /\ bus \in Seq(SearchRecords) /\ h \in Seq(CardsOn(bus))
  BY DEF HistoryInv, FoundInv, FactsOn
<1>2. facts' = Reduced(turn, evts, selected, facts)
  BY DEF Reduce
<1>3. D \in Seq(CardsOn(bus))
  BY <1>1, DisplayedFinds
<1>4. log \in Seq(LogEntries) /\ NamedIn(log) \in Seq(Products)
  BY NamedTyped DEF HistoryInv
<1>5. ProductsOf(h) = Recent(Firsts(NamedIn(log), Products))
  BY DEF HistoryInv, IsRecent
<1>6. CASE ~Speaks(evts, selected, facts)
  <2>1. log' = log
    BY <1>6, RecommendsSpeaks DEF Reduce, HistoryInv
  <2>2. facts'.history = facts.history
    BY <1>1, <1>2, <1>6, ReducedIs
  <2>3. NamedIn(log)' = NamedIn(log)
    BY <2>1 DEF NamedIn
  <2> QED
    BY <1>4, <1>5, <2>1, <2>2, <2>3 DEF IsRecent
<1>7. CASE Speaks(evts, selected, facts)
  <2>1. facts'.shown = D /\ facts'.history = Recent(Remember(D, h))
    BY <1>1, <1>2, <1>7, ReducedIs
  <2>2. log' = Append(log, Entry(by, ProductsOf(D)))
    BY <1>2, <1>7, <2>1, RecommendsSpeaks DEF Reduce, HistoryInv
  <2> HIDE DEF D, h
  <2>3. ProductsOf(D) \in Seq(Products)
    BY <1>3, CardsHaveProducts, ProductsTyped
  <2>4. Named = NamedIn(log)
    BY DEF Named, NamedIn
  <2>5. Entry(by, ProductsOf(D)) \in LogEntries /\ Entry(by, ProductsOf(D)).named = ProductsOf(D) \o NamedIn(log)
    BY <1>4, <2>3, <2>4 DEF Entry, LogEntries
  <2>6. log' \in Seq(LogEntries) /\ NamedIn(log') = ProductsOf(D) \o NamedIn(log)
    BY <1>4, <2>2, <2>5 DEF NamedIn
  <2>7. /\ ProductsOf(Remember(D, h)) = Firsts(ProductsOf(D) \o ProductsOf(h), Products)
        /\ Remember(D, h) \in Seq(CardsOn(bus))
    BY <1>1, <1>3, CardsHaveProducts, RememberProducts
  <2>8. ProductsOf(Recent(Remember(D, h))) = Recent(Firsts(ProductsOf(D) \o ProductsOf(h), Products))
    BY <2>7, RecentProducts
  <2>9. @ = Recent(Firsts(ProductsOf(D) \o NamedIn(log), Products))
    BY <1>4, <1>5, <2>3, CutHistory
  <2>10. ProductsOf(facts'.history) = Recent(Firsts(NamedIn(log'), Products))
    BY <2>1, <2>6, <2>8, <2>9
  <2> QED
    BY <2>6, <2>10 DEF IsRecent
<1> QED
  BY <1>6, <1>7

LEMMA HistoryStarts == ContextAssumption /\ ContextInit => HistoryInv
<1> SUFFICES ASSUME ContextAssumption, ContextInit PROVE HistoryInv
  OBVIOUS
<1>1. FoundInv
  BY FoundStarts
<1>2. facts = NoFacts /\ log = <<>> /\ saved = [facts |-> NoFacts, log |-> <<>>]
  BY DEF ContextInit
<1>3. ProductsOf(<<>>) = <<>>
  BY DEF ProductsOf
<1>4. Firsts(<<>>, Products) = <<>>
  <2>1. FirstsAt(Firsts(<<>>, Products), 0, <<>>, Products)
    BY FirstsAre
  <2> QED
    BY <2>1 DEF FirstsAt
<1>5. Recent(<<>>) = <<>>
  <2>1. <<>> \in Seq(Products)
    OBVIOUS
  <2>2. Recent(<<>>) \in Seq(Products) /\ Len(Recent(<<>>)) = (IF Len(<<>>) < MaxHistory THEN Len(<<>>) ELSE MaxHistory)
    BY <2>1, RecentIs
  <2> QED
    BY <2>2 DEF ContextAssumption
<1>6. IsRecent(NoFacts, <<>>)
  BY <1>3, <1>4, <1>5 DEF IsRecent, NoFacts, NamedIn
<1> QED
  BY <1>1, <1>2, <1>6 DEF HistoryInv

\* Who reduces, and with what.
Reduces ==
    /\ \E turn \in Turns \cup {None}, evts \in Seq(EventsOn(bus)), selected \in Selections, by \in Turns :
          Reduce(turn, evts, selected, by)
    /\ UNCHANGED <<bus, saved>>

LEMMA StepsReduce ==
    ASSUME ContextAssumption, FoundInv, NEW t \in Turns, TurnSteps(t)
    PROVE  Reduces \/ (Quiet /\ (UNCHANGED saved \/ saved' = [facts |-> facts, log |-> log]))
<1>1. CASE StartReply(t)
  <2>1. Reduce(t, <<>>, None, t) /\ UNCHANGED <<bus, saved>>
    BY <1>1 DEF StartReply
  <2> QED
    BY <2>1, NoneSelected DEF Reduces
<1>2. ASSUME NEW selected \in Selections, Answer(t, selected) PROVE Reduces
  <2>1. Reduce(intent, events, selected, t) /\ UNCHANGED <<bus, saved>>
    BY <1>2 DEF Answer
  <2> QED
    BY <2>1 DEF Reduces, FoundInv
<1>3. CASE Retry(t) \/ Fail(t)
  <2>1. Reduce(intent, events, None, t) /\ UNCHANGED <<bus, saved>>
    BY <1>3 DEF Retry, Fail, Break
  <2> QED
    BY <2>1, NoneSelected DEF Reduces, FoundInv
<1>4. CASE Begin(t) \/ (\E tool \in Tools : Call(t, tool)) \/ Resume(t)
  BY <1>4 DEF Begin, Call, Resume
<1>5. CASE Persist(t)
  BY <1>5 DEF Persist
<1> QED
  BY <1>1, <1>2, <1>3, <1>4, <1>5 DEF TurnSteps, Selections

LEMMA CallsAreQuiet ==
    ASSUME NEW c, CallSteps(c)
    PROVE  Quiet /\ UNCHANGED saved
BY DEF CallSteps, SearchReturns, AgentSearches, AgentReturns, CallFails, Return

LEMMA HistoryStep ==
    ContextAssumption /\ HistoryInv /\ [ContextNext]_contextVars => HistoryInv'
<1> SUFFICES ASSUME ContextAssumption, HistoryInv, [ContextNext]_contextVars PROVE HistoryInv'
  OBVIOUS
<1>1. FoundInv'
  BY FoundStep DEF HistoryInv
<1>2. ASSUME UNCHANGED <<facts, log>>, UNCHANGED saved \/ saved' = [facts |-> facts, log |-> log]
      PROVE  HistoryInv'
  <2>1. IsRecent(facts, log)' /\ IsRecent(saved.facts, saved.log)'
    BY <1>2 DEF HistoryInv, IsRecent, ProductsOf, NamedIn
  <2> QED
    BY <1>1, <1>2, <2>1 DEF HistoryInv
<1>3. CASE Reduces
  <2>1. log' \in Seq(LogEntries) /\ IsRecent(facts, log)'
    BY <1>3, ReduceKeepsHistory DEF Reduces
  <2>2. IsRecent(saved.facts, saved.log)'
    BY <1>3 DEF Reduces, HistoryInv, IsRecent, ProductsOf, NamedIn
  <2> QED
    BY <1>1, <1>3, <2>1, <2>2 DEF HistoryInv, Reduces
<1>4. CASE Restart
  <2>1. facts' = saved.facts /\ log' = saved.log /\ saved' = saved
    BY <1>4 DEF Restart
  <2> QED
    BY <1>1, <2>1 DEF HistoryInv, IsRecent, ProductsOf, NamedIn
<1>5. ASSUME NEW t \in Turns, TurnSteps(t) PROVE HistoryInv'
  <2>1. Reduces \/ (Quiet /\ (UNCHANGED saved \/ saved' = [facts |-> facts, log |-> log]))
    BY <1>5, StepsReduce DEF HistoryInv
  <2> QED
    BY <1>2, <1>3, <2>1 DEF Quiet
<1>6. ASSUME NEW c \in calls, CallSteps(c) PROVE HistoryInv'
  BY <1>2, <1>6, CallsAreQuiet DEF Quiet
<1>7. CASE UNCHANGED contextVars
  BY <1>2, <1>7 DEF contextVars
<1> QED
  BY <1>4, <1>5, <1>6, <1>7 DEF ContextNext

THEOREM HistoryInvariant == ContextSpec => []HistoryInv
<1>1. ContextInit => HistoryInv
  BY HistoryStarts, ContextAssumption
<1>2. HistoryInv /\ [ContextNext]_contextVars => HistoryInv'
  BY HistoryStep, ContextAssumption
<1> QED
  BY <1>1, <1>2, PTL DEF ContextSpec

\* The history of the facts holds the products recommended last.
THEOREM HistoryHoldsRecent == ContextSpec => []HistoryIsRecent
<1>1. HistoryInv => HistoryIsRecent
  <2> SUFFICES ASSUME HistoryInv PROVE HistoryIsRecent
    OBVIOUS
  <2>1. Named = NamedIn(log)
    BY DEF Named, NamedIn
  <2> QED
    BY <2>1 DEF HistoryInv, IsRecent, HistoryIsRecent
<1> QED
  BY HistoryInvariant, <1>1, PTL

----------------------------------------------------------------------------
(* Reducing the same events once more changes nothing.                      *)

\* What was cut and is put behind what is shown already.
LEMMA CutAgain ==
    ASSUME ContextAssumption, NEW D \in Seq(Products), NEW N \in Seq(Products), NEW H,
           H = Recent(Firsts(D \o N, Products))
    PROVE  Recent(Firsts(D \o H, Products)) = H
<1> DEFINE s == D \o N
           q == D \o s
           d == Firsts(s, Products)
           e == Firsts(q, Products)
<1>1. s \in Seq(Products) /\ Len(s) \in Nat /\ q \in Seq(Products) /\ Len(q) \in Nat
  OBVIOUS
<1>2. Recent(Firsts(D \o H, Products)) = Recent(e)
  BY <1>1, CutHistory
<1>3. FirstsAt(d, Len(s), s, Products) /\ FirstsAt(e, Len(q), q, Products)
  BY <1>1, FirstsAre
<1>4. \A x : In(q, x) <=> In(s, x)
  <2>1. \A x : In(s, x) <=> In(D, x) \/ In(N, x)
    BY Joined
  <2>2. \A x : In(q, x) <=> In(D, x) \/ In(s, x)
    <3> HIDE DEF s
    <3> QED
      BY <1>1, Joined
  <2> QED
    BY <2>1, <2>2
<1>5. \A x, y : Leads(q, x, y) => Leads(s, x, y)
  <2> TAKE x, y
  <2>1. Leads(s, x, y) <=> Leads(D, x, y) \/ (~In(D, y) /\ Leads(N, x, y)) \/ (~In(D, y) /\ In(D, x) /\ x # y)
    BY LeadsJoined
  <2>2. Leads(q, x, y) <=> Leads(D, x, y) \/ (~In(D, y) /\ Leads(s, x, y)) \/ (~In(D, y) /\ In(D, x) /\ x # y)
    <3> HIDE DEF s
    <3> QED
      BY <1>1, LeadsJoined
  <2> QED
    BY <2>1, <2>2
<1> HIDE DEF s, q, d, e
<1>6. /\ \A x : In(d, x) <=> x \in Products /\ In(s, x)
      /\ \A x : In(e, x) <=> x \in Products /\ In(q, x)
  BY <1>1, <1>3, FirstsLead
<1>7. \A x, y : In(e, x) /\ In(e, y) /\ Leads(q, x, y) => ~Leads(s, y, x)
  BY <1>1, <1>5, NotBoth
<1>8. \A x : In(e, x) <=> In(d, x)
  BY <1>4, <1>6
<1>9. d = e
  BY <1>1, <1>3, <1>7, <1>8, FirstsEqual
<1> QED
  BY <1>2, <1>9 DEF s, q, d, e

\* Every product of cards once.
Single(h) == \A i, j \in 1..Len(h) : h[i].product = h[j].product => i = j

\* A history of the newest products has every product once.
LEMMA RecentIsSingle ==
    ASSUME ContextAssumption, NEW C, NEW h \in Seq(C), NEW N, Len(N) \in Nat,
           ProductsOf(h) = Recent(Firsts(N, Products))
    PROVE  Single(h)
<1> DEFINE F == Firsts(N, Products)
<1>1. FirstsAt(F, Len(N), N, Products)
  BY FirstsAre
<1> HIDE DEF F
<1>2. F \in Seq(Products) /\ \A i, j \in 1..Len(F) : F[i] = F[j] => i = j
  BY <1>1 DEF FirstsAt
<1>3. Len(Recent(F)) = (IF Len(F) < MaxHistory THEN Len(F) ELSE MaxHistory)
      /\ \A i \in 1..Len(Recent(F)) : Recent(F)[i] = F[i]
  BY <1>2, RecentIs
<1>4. Len(Recent(F)) <= Len(F) /\ Len(F) \in Nat /\ Len(Recent(F)) \in Nat
  BY <1>2, <1>3 DEF ContextAssumption
<1>5. ProductsOf(h) = Recent(F)
  BY DEF F
<1>6. Len(h) = Len(Recent(F)) /\ \A i \in 1..Len(h) : Recent(F)[i] = h[i].product
  BY <1>5, ProductsAre
<1> QED
  BY <1>2, <1>3, <1>4, <1>6 DEF Single

\* One card of every product.
Unique(K) == \A c, d \in K : c.product = d.product => c = d

LEMMA KnownIsUnique ==
    ASSUME NEW evts \in Seq(EventsOn(bus)), Len(bus) \in Nat, NEW old, Single(old.history)
    PROVE  Unique(Known(evts, old))
<1>0. Len(evts) \in Nat /\ DOMAIN SearchesOf(evts) \in SUBSET (0..Len(evts))
  BY SearchesInBus
<1> SUFFICES ASSUME NEW c \in Known(evts, old), NEW d \in Known(evts, old), c.product = d.product
             PROVE  c = d
  BY DEF Unique
<1> DEFINE S == SearchesOf(evts)
<1>1. \A x \in Known(evts, old) :
         \/ x \in ToSet(old.history) /\ FindsOf(S, x.product) = {}
         \/ \E p \in Products : \E i \in FindsOf(S, p) :
               x = [product |-> p, search |-> S[i]] /\ \A j \in FindsOf(S, p) : j <= i
  <2>1. \A x \in Known(evts, old) : IsCard(x, ToSet(old.history), S)
    BY <1>0, RenewedIs DEF Known
  <2> QED
    BY <2>1 DEF IsCard
<1>2. \A p : FindsOf(S, p) \subseteq 0..Len(evts)
  BY <1>0 DEF FindsOf
<1>3. CASE FindsOf(S, c.product) = {}
  <2>1. c \in ToSet(old.history) /\ d \in ToSet(old.history)
    BY <1>1, <1>3
  <2>2. PICK i \in 1..Len(old.history) : old.history[i] = c
    BY <2>1 DEF ToSet
  <2>3. PICK j \in 1..Len(old.history) : old.history[j] = d
    BY <2>1 DEF ToSet
  <2> QED
    BY <2>2, <2>3 DEF Single
<1>4. CASE FindsOf(S, c.product) # {}
  <2>1. PICK i \in FindsOf(S, c.product) :
           c = [product |-> c.product, search |-> S[i]] /\ \A j \in FindsOf(S, c.product) : j <= i
    <3> HIDE DEF S
    <3>1. PICK p \in Products : \E i \in FindsOf(S, p) :
               c = [product |-> p, search |-> S[i]] /\ \A j \in FindsOf(S, p) : j <= i
      BY <1>1, <1>4
    <3>2. c.product = p
      BY <3>1
    <3> QED
      BY <3>1, <3>2
  <2>2. PICK j \in FindsOf(S, c.product) :
           d = [product |-> c.product, search |-> S[j]] /\ \A k \in FindsOf(S, c.product) : k <= j
    <3> HIDE DEF S
    <3>1. PICK p \in Products : \E m \in FindsOf(S, p) :
               d = [product |-> p, search |-> S[m]] /\ \A k \in FindsOf(S, p) : k <= m
      BY <1>1, <1>4
    <3>2. c.product = p
      BY <3>1
    <3> QED
      BY <3>1, <3>2
  <2>3. i = j
    BY <1>2, <2>1, <2>2
  <2> QED
    BY <2>1, <2>2, <2>3
<1> QED
  BY <1>3, <1>4

\* What is shown first is remembered first, card by card.
LEMMA RememberLeads ==
    ASSUME ContextAssumption, NEW C, \A c \in C : c.product \in Products, NEW d \in Seq(C), NEW h \in Seq(C),
           Single(d), Len(d) <= MaxHistory, NEW r, r = Recent(Remember(d, h))
    PROVE  /\ r \in Seq(C) /\ Len(d) <= Len(r) /\ \A i \in 1..Len(d) : r[i] = d[i]
           /\ \A i \in 1..Len(r) : In(d \o h, r[i])
<1> DEFINE b == d \o h
           ps == ProductsOf(b)
           F == Firsts(ps, Products)
           m == Remember(d, h)
<1>0. Len(b) = Len(d) + Len(h) /\ Len(d) \in Nat /\ Len(h) \in Nat /\ \A i \in 1..Len(d) : b[i] = d[i]
  OBVIOUS
<1>1. /\ m \in Seq(C) /\ Len(m) = Len(F)
      /\ \A i \in 1..Len(F) : \E j \in 1..Len(b) :
            /\ m[i] = b[j] /\ b[j].product = F[i]
            /\ \A k \in 1..Len(b) : b[k].product = F[i] => j <= k
  BY RememberFinds
<1>2. b \in Seq(C)
  OBVIOUS
<1> HIDE DEF b
<1>3. ps \in Seq(Products) /\ Len(ps) = Len(b) /\ \A i \in 1..Len(b) : ps[i] = b[i].product
  BY <1>2, ProductsTyped
<1> HIDE DEF ps
<1>4. FirstsAt(F, Len(ps), ps, Products) /\ Len(ps) \in Nat
  BY <1>3, FirstsAre
<1> HIDE DEF F, m
<1>5. /\ F \in Seq(Products) /\ Len(F) \in Nat /\ \A x : In(F, x) <=> x \in Products /\ In(ps, x)
      /\ \A k, n \in 1..Len(F) : F[k] = F[n] => k = n
      /\ \A k, n \in 1..Len(F) : k < n => Leads(ps, F[k], F[n])
      /\ \A k, n \in 1..Len(F) : Leads(ps, F[k], F[n]) => k < n
  BY <1>4, FirstsLead
<1> DEFINE e == ProductsOf(d)
<1>6. e \in Seq(Products) /\ Len(e) = Len(d) /\ \A i \in 1..Len(d) : e[i] = d[i].product
  BY ProductsTyped
<1> HIDE DEF e
<1>7. \A i \in 1..Len(d) : i \in 1..Len(ps) /\ ps[i] = e[i]
  BY <1>0, <1>3, <1>6
<1>8. \A k, n \in 1..Len(e) : e[k] = e[n] => k = n
  BY <1>6 DEF Single
<1>9. \A k \in 1..Len(e) : In(F, e[k])
  <2> TAKE k \in 1..Len(e)
  <2>1. e[k] \in Products /\ In(ps, e[k])
    BY <1>6, <1>7 DEF In
  <2> QED
    BY <1>5, <2>1
<1>10. \A i, j \in 1..Len(F) : j < i /\ In(e, F[i]) => In(e, F[j])
  <2> SUFFICES ASSUME NEW i \in 1..Len(F), NEW j \in 1..Len(F), j < i, In(e, F[i]) PROVE In(e, F[j])
    OBVIOUS
  <2>1. PICK k \in 1..Len(ps) : ps[k] = F[j] /\ \A n \in 1..k : ps[n] # F[i]
    BY <1>5 DEF Leads
  <2>2. PICK n \in 1..Len(e) : e[n] = F[i]
    BY DEF In
  <2>3. k < n
    BY <1>0, <1>6, <1>7, <2>1, <2>2
  <2>4. k \in 1..Len(e) /\ e[k] = F[j]
    BY <1>0, <1>6, <1>7, <2>1, <2>2, <2>3
  <2> QED
    BY <2>4 DEF In
<1>11. \A k, n \in 1..Len(e), i, j \in 1..Len(F) : k < n /\ F[i] = e[k] /\ F[j] = e[n] => i < j
  <2> SUFFICES ASSUME NEW k \in 1..Len(e), NEW n \in 1..Len(e), NEW i \in 1..Len(F), NEW j \in 1..Len(F),
                      k < n, F[i] = e[k], F[j] = e[n]
               PROVE  i < j
    OBVIOUS
  <2>1. \A u \in 1..k : ps[u] # e[n]
    <3> TAKE u \in 1..k
    <3>1. u \in 1..Len(e) /\ u # n
      BY <1>0, <1>6
    <3> QED
      BY <1>6, <1>7, <1>8, <3>1
  <2>2. Leads(ps, e[k], e[n])
    BY <1>6, <1>7, <2>1 DEF Leads
  <2> QED
    BY <1>5, <2>2
<1>12. Len(e) <= Len(F) /\ \A k \in 1..Len(e) : e[k] = F[k]
  <2>1. Len(F) \in Nat /\ Len(e) \in Nat /\ \A k, n \in 1..Len(F) : F[k] = F[n] => k = n
    BY <1>0, <1>5, <1>6
  <2> QED
    BY ONLY <2>1, <1>8, <1>9, <1>10, <1>11, BeginningOf
<1>13. /\ r \in Seq(C) /\ Len(r) = (IF Len(m) < MaxHistory THEN Len(m) ELSE MaxHistory)
       /\ \A i \in 1..Len(r) : r[i] = m[i]
  BY <1>1, RecentIs DEF m
<1>14. Len(r) \in Nat /\ Len(r) <= Len(F) /\ Len(d) <= Len(r) /\ MaxHistory \in Nat
  BY <1>0, <1>1, <1>5, <1>6, <1>12, <1>13 DEF ContextAssumption
<1>15. ASSUME NEW i \in 1..Len(r)
       PROVE  \E j \in 1..Len(b) : /\ r[i] = b[j] /\ r[i].product = F[i]
                                   /\ \A k \in 1..Len(b) : b[k].product = r[i].product => j <= k
  <2>1. i \in 1..Len(F)
    BY <1>5, <1>14
  <2>2. PICK j \in 1..Len(b) : m[i] = b[j] /\ b[j].product = F[i] /\ \A k \in 1..Len(b) : b[k].product = F[i] => j <= k
    BY <1>1, <2>1
  <2> QED
    BY <1>13, <2>2
<1>16. ASSUME NEW i \in 1..Len(d) PROVE r[i] = d[i]
  <2>1. i \in 1..Len(r)
    BY <1>0, <1>14
  <2>2. PICK j \in 1..Len(b) : r[i] = b[j] /\ r[i].product = F[i] /\ \A k \in 1..Len(b) : b[k].product = r[i].product => j <= k
    BY <1>15, <2>1
  <2>3. F[i] = d[i].product
    BY <1>6, <1>12
  <2>4. i \in 1..Len(b) /\ b[i] = d[i]
    BY <1>0
  <2>5. j <= i
    BY <2>2, <2>3, <2>4
  <2>6. j \in 1..Len(d) /\ b[j] = d[j]
    BY <1>0, <2>2, <2>5
  <2>7. d[j].product = d[i].product
    BY <2>2, <2>3, <2>6
  <2>8. j = i
    BY <2>6, <2>7 DEF Single
  <2> QED
    BY <2>2, <2>4, <2>8
<1>17. \A i \in 1..Len(r) : In(b, r[i])
  BY <1>15 DEF In
<1> QED
  BY <1>13, <1>14, <1>16, <1>17 DEF b

\* Remembering the same once more changes nothing.
LEMMA RememberedAgain ==
    ASSUME ContextAssumption, NEW C, \A c \in C : c.product \in Products, NEW d \in Seq(C), NEW h \in Seq(C),
           Single(d), Len(d) <= MaxHistory, NEW r, r = Recent(Remember(d, h))
    PROVE  Single(r) /\ Recent(Remember(d, r)) = r
<1> DEFINE q == Recent(Remember(d, r))
           P == ProductsOf(d)
           N == ProductsOf(h)
<1>1. P \in Seq(Products) /\ N \in Seq(Products) /\ P \o N \in Seq(Products) /\ Len(P \o N) \in Nat
  <2>1. P \in Seq(Products) /\ N \in Seq(Products)
    BY ProductsTyped
  <2> HIDE DEF P, N
  <2> QED
    BY <2>1
<1>2. /\ r \in Seq(C) /\ Len(d) <= Len(r) /\ \A i \in 1..Len(d) : r[i] = d[i]
  BY RememberLeads
<1>3. /\ q \in Seq(C)
      /\ \A i \in 1..Len(q) : In(d \o r, q[i])
  BY <1>2, RememberLeads
<1>4. ProductsOf(r) = Recent(Firsts(P \o N, Products))
  <2>1. /\ ProductsOf(Remember(d, h)) = Firsts(P \o N, Products)
        /\ Remember(d, h) \in Seq(C)
    BY RememberProducts
  <2> QED
    BY <2>1, RecentProducts
<1>5. ProductsOf(q) = Recent(Firsts(P \o ProductsOf(r), Products))
  <2>1. /\ ProductsOf(Remember(d, r)) = Firsts(P \o ProductsOf(r), Products)
        /\ Remember(d, r) \in Seq(C)
    BY <1>2, RememberProducts
  <2> QED
    BY <2>1, RecentProducts
<1> HIDE DEF P, N, q
<1>6. ProductsOf(q) = ProductsOf(r)
  BY <1>1, <1>4, <1>5, CutAgain
<1>7. Single(r)
  BY <1>1, <1>2, <1>4, RecentIsSingle
<1>8. Len(q) = Len(r) /\ \A i \in 1..Len(r) : q[i].product = r[i].product
  BY <1>2, <1>3, <1>6, ProductsAre
<1>9. ASSUME NEW i \in 1..Len(r) PROVE q[i] = r[i]
  <2>1. PICK j \in 1..Len(d \o r) : q[i] = (d \o r)[j]
    BY <1>3, <1>8 DEF In
  <2>2. Len(d \o r) = Len(d) + Len(r) /\ Len(d) \in Nat /\ Len(r) \in Nat
    BY <1>2
  <2>3. PICK k \in 1..Len(r) : q[i] = r[k]
    <3>1. CASE j <= Len(d)
      <4>1. j \in 1..Len(d) /\ (d \o r)[j] = d[j] /\ j \in 1..Len(r)
        BY <1>2, <2>2, <3>1
      <4> QED
        BY <1>2, <2>1, <4>1
    <3>2. CASE ~(j <= Len(d))
      <4>1. j - Len(d) \in 1..Len(r) /\ (d \o r)[j] = r[j - Len(d)]
        BY <1>2, <2>2, <3>2
      <4> QED
        BY <2>1, <4>1
    <3> QED
      BY <3>1, <3>2
  <2>4. k = i
    BY <1>7, <1>8, <2>3 DEF Single
  <2> QED
    BY <2>3, <2>4
<1>10. q = r
  BY <1>2, <1>3, <1>8, <1>9
<1> QED
  BY <1>7, <1>10 DEF q

\* A selection resolved among other cards, of which those it had are some and
\* no other product is.
LEMMA ResolvedAgain ==
    ASSUME NEW K, \A c \in K : c.product \in Products, NEW L, \A c \in L : c.product \in Products,
           NEW selected, Len(selected) \in Nat, NEW d, d = Resolve(selected, K),
           \A i \in 1..Len(d) : d[i] \in L,
           Unique(L),
           \A c \in L : \E e \in K : e.product = c.product
    PROVE  Resolve(selected, L) = d
<1> DEFINE T == {c.product : c \in K}
           U == {c.product : c \in L}
           k == Firsts(selected, T)
           l == Firsts(selected, U)
           e == Resolve(selected, L)
<1>1. FirstsAt(k, Len(selected), selected, T) /\ FirstsAt(l, Len(selected), selected, U)
  BY FirstsAre
<1>2. /\ d \in Seq(K) /\ Len(d) = Len(k) /\ \A i \in 1..Len(k) : d[i].product = k[i]
  BY ResolveFinds
<1>l. Len(selected) \in Nat /\ \A c \in L : c.product \in Products
  OBVIOUS
<1>3. /\ e \in Seq(L) /\ Len(e) = Len(l)
      /\ \A i \in 1..Len(l) : e[i].product = l[i]
  BY ONLY <1>l, ResolveFinds
<1> HIDE DEF k, l, e
<1>4. /\ \A x : In(k, x) <=> x \in T /\ In(selected, x)
      /\ \A x : In(l, x) <=> x \in U /\ In(selected, x)
  BY <1>1, FirstsLead
<1>5. \A x : In(l, x) <=> In(k, x)
  <2>1. ASSUME NEW x, In(l, x) PROVE In(k, x)
    BY <1>4, <2>1
  <2>2. ASSUME NEW x, In(k, x) PROVE In(l, x)
    <3>1. PICK i \in 1..Len(k) : k[i] = x
      BY <2>2 DEF In
    <3>2. d[i] \in L /\ d[i].product = x
      BY <1>2, <3>1
    <3> QED
      BY <1>4, <2>2, <3>2
  <2> QED
    BY <2>1, <2>2
<1>6. k = l
  <2>1. \A x, y : In(l, x) /\ In(l, y) /\ Leads(selected, x, y) => ~Leads(selected, y, x)
    BY NotBoth
  <2> HIDE DEF T, U
  <2> QED
    BY <1>1, <1>5, <2>1, FirstsEqual
<1>7. \A i \in 1..Len(k) : e[i] = d[i]
  <2> TAKE i \in 1..Len(k)
  <2>1. d[i] \in L /\ e[i] \in L
    BY <1>2, <1>3, <1>6
  <2> QED
    BY <1>2, <1>3, <1>6, <2>1 DEF Unique
<1>8. Len(e) = Len(d)
  BY <1>2, <1>3, <1>6
<1>9. e = d
  BY <1>2, <1>3, <1>6, <1>7, <1>8
<1> QED
  BY <1>9 DEF e

LEMMA ReducedTwice ==
    ASSUME ContextAssumption, bus \in Seq(SearchRecords), NEW turn \in Turns \cup {None},
           NEW evts \in Seq(EventsOn(bus)), NEW selected \in Selections, NEW old \in FactsOn(bus),
           Single(old.history), NEW new, new = Reduced(turn, evts, selected, old)
    PROVE  Reduced(turn, evts, selected, new) = new
<1> DEFINE C == CardsOn(bus)
           S == SearchesOf(evts)
           D == Displayed(evts, selected, old)
           h == old.history
           r == new.history
<1>0. Len(bus) \in Nat /\ h \in Seq(C) /\ \A c \in C : c.product \in Products
  BY CardsHaveProducts DEF FactsOn
<1>1. new \in FactsOn(bus)
  BY ReducedTyped
<1>2. /\ new.turn = turn /\ new.search = Searched(evts, old.search)
      /\ new.shown = IF Speaks(evts, selected, old) THEN D ELSE old.shown
      /\ r = IF Speaks(evts, selected, old) THEN Recent(Remember(D, h)) ELSE h
  BY ReducedIs
<1>3. Searched(evts, new.search) = new.search
  BY <1>2 DEF Searched
<1>4. CASE ~Speaks(evts, selected, old)
  <2>1. new.shown = old.shown /\ r = h
    BY <1>2, <1>4
  <2>2. Displayed(evts, selected, new) = D
    BY <2>1 DEF Displayed, Known
  <2>3. ~Speaks(evts, selected, new)
    BY <1>4, <2>2 DEF Speaks
  <2> HIDE DEF C, D, h, r
  <2> QED
    BY <1>1, <1>2, <1>3, <2>3, ReducedIs
<1>5. CASE Speaks(evts, selected, old)
  <2>1. new.shown = D /\ r = Recent(Remember(D, h))
    BY <1>2, <1>5
  <2>2. selected # None /\ selected \in Seq(Products) /\ Len(selected) \in Nat /\ Len(selected) <= MaxShown
    BY <1>5, SelectionIs DEF Speaks
  <2> DEFINE K == Known(evts, old)
             L == Known(evts, new)
  <2>3. K \in SUBSET C /\ L \in SUBSET C
    BY <1>1, DisplayedFinds
  <2>4. D = Resolve(selected, K) /\ Displayed(evts, selected, new) = Resolve(selected, L)
    BY <2>2 DEF Displayed, Chosen
  <2>5. D \in Seq(K) /\ Single(D) /\ Len(D) <= MaxHistory /\ Len(D) \in Nat
    <3> DEFINE k == Firsts(selected, {c.product : c \in K})
    <3> HIDE DEF K, D
    <3>1. \A c \in K : c.product \in Products
      BY <1>0, <2>3
    <3>2. /\ D \in Seq(K) /\ Len(D) = Len(k) /\ Len(D) <= Len(selected)
          /\ \A i \in 1..Len(k) : D[i].product = k[i]
      BY <2>2, <2>4, <3>1, ResolveFinds
    <3>3. FirstsAt(k, Len(selected), selected, {c.product : c \in K})
      BY <2>2, FirstsAre
    <3> HIDE DEF k
    <3>4. \A i, j \in 1..Len(k) : k[i] = k[j] => i = j
      BY <3>3 DEF FirstsAt
    <3>5. Single(D)
      BY <3>2, <3>4 DEF Single
    <3>6. Len(D) \in Nat /\ Len(D) <= MaxHistory
      BY <2>2, <3>2 DEF ContextAssumption
    <3> QED
      BY <3>2, <3>5, <3>6
  <2>6. \A x : x \in K <=> IsCard(x, ToSet(h), S)
    BY <1>0, SearchesInBus, RenewedIs DEF Known
  <2>7. \A x : x \in L <=> IsCard(x, ToSet(r), S)
    BY <1>0, SearchesInBus, RenewedIs DEF Known
  <2> HIDE DEF C, D, h, r, K, L, S
  <2>8. D \in Seq(C)
    BY <2>3, <2>5
  <2>9. /\ r \in Seq(C) /\ Len(D) <= Len(r) /\ \A i \in 1..Len(D) : r[i] = D[i]
        /\ \A i \in 1..Len(r) : In(D \o h, r[i])
    BY <1>0, <2>1, <2>5, <2>8, RememberLeads
  <2>10. Single(r) /\ Recent(Remember(D, r)) = r
    BY <1>0, <2>1, <2>5, <2>8, RememberedAgain
  <2>11. Unique(L)
    BY <1>0, <2>10, KnownIsUnique DEF L, r
  <2>12. \A i \in 1..Len(D) : D[i] \in L
    <3> TAKE i \in 1..Len(D)
    <3>1. D[i] \in K
      BY <2>5
    <3>2. D[i] \in ToSet(r)
      <4>1. i \in 1..Len(r) /\ Len(r) \in Nat
        BY <2>5, <2>9
      <4>2. DOMAIN r = 1..Len(r)
        BY <2>9
      <4> QED
        BY <2>9, <4>1, <4>2 DEF ToSet
    <3> QED
      BY <2>6, <2>7, <3>1, <3>2 DEF IsCard
  <2>13. \A c \in L : \E e \in K : e.product = c.product
    <3> TAKE c \in L
    <3>1. IsCard(c, ToSet(r), S)
      BY <2>7
    <3>2. CASE c \in ToSet(r) /\ FindsOf(S, c.product) = {}
      <4>1. PICK i \in 1..Len(r) : r[i] = c
        BY <2>9, <3>2 DEF ToSet
      <4>2. PICK j \in 1..Len(D \o h) : c = (D \o h)[j]
        BY <2>9, <4>1 DEF In
      <4>3. Len(D \o h) = Len(D) + Len(h) /\ Len(h) \in Nat
        BY <1>0, <2>8
      <4>4. CASE j <= Len(D)
        <5>1. j \in 1..Len(D) /\ c = D[j]
          BY <1>0, <2>5, <2>8, <4>2, <4>3, <4>4
        <5> QED
          BY <2>5, <5>1
      <4>5. CASE ~(j <= Len(D))
        <5>1. j - Len(D) \in 1..Len(h) /\ c = h[j - Len(D)]
          BY <1>0, <2>5, <2>8, <4>2, <4>3, <4>5
        <5>2. c \in ToSet(h)
          BY <1>0, <5>1 DEF ToSet
        <5> QED
          BY <2>6, <3>2, <5>2 DEF IsCard
      <4> QED
        BY <4>4, <4>5
    <3>3. CASE ~(c \in ToSet(r) /\ FindsOf(S, c.product) = {})
      BY <2>6, <3>1, <3>3 DEF IsCard
    <3> QED
      BY <3>2, <3>3
  <2>14. Resolve(selected, L) = D
    <3>1. (\A c \in K : c.product \in Products) /\ (\A c \in L : c.product \in Products)
      BY <1>0, <2>3
    <3> QED
      BY <2>2, <2>4, <2>11, <2>12, <2>13, <3>1, ResolvedAgain
  <2>15. Displayed(evts, selected, new) = D
    BY <2>4, <2>14
  <2>16. Speaks(evts, selected, new)
    BY <1>5, <2>15 DEF Speaks, D
  <2>17. Recent(Remember(D, new.history)) = new.history
    BY <2>10 DEF r
  <2> QED
    BY <1>1, <1>2, <1>3, <2>1, <2>15, <2>16, <2>17, ReducedIs
<1> QED
  BY <1>4, <1>5

\* Reducing what was reduced last once more changes nothing.
ReplayInv == HistoryInv /\ ReplayChangesNothing

LEMMA ReplayStep ==
    ContextAssumption /\ ReplayInv /\ [ContextNext]_contextVars => ReplayInv'
<1> SUFFICES ASSUME ContextAssumption, ReplayInv, [ContextNext]_contextVars PROVE ReplayInv'
  OBVIOUS
<1>1. HistoryInv' /\ HistoryInv
  BY HistoryStep DEF ReplayInv
<1>2. CASE Reduces
  <2>1. PICK turn \in Turns \cup {None}, evts \in Seq(EventsOn(bus)), selected \in Selections, by \in Turns :
           Reduce(turn, evts, selected, by)
    BY <1>2 DEF Reduces
  <2>2. /\ facts' = Reduced(turn, evts, selected, facts) /\ bus' = bus
        /\ replay' = [turn |-> turn, events |-> evts, selected |-> selected]
    BY <1>2, <2>1 DEF Reduces, Reduce
  <2>3. facts \in FactsOn(bus) /\ bus \in Seq(SearchRecords) /\ facts.history \in Seq(CardsOn(bus))
    BY <1>1 DEF HistoryInv, FoundInv, FactsOn
  <2>4. Single(facts.history)
    <3>1. NamedIn(log) \in Seq(Products) /\ ProductsOf(facts.history) = Recent(Firsts(NamedIn(log), Products))
      BY <1>1, NamedTyped DEF HistoryInv, IsRecent
    <3> QED
      BY <2>3, <3>1, RecentIsSingle
  <2>5. Reduced(turn, evts, selected, facts') = facts'
    BY <2>2, <2>3, <2>4, ReducedTwice
  <2>6. Reduced(turn, evts, selected, facts)' = Reduced(turn, evts, selected, facts')
    BY <2>2 DEF Reduced, Renewed, Searched
  <2>7. ReplayChangesNothing'
    BY <2>2, <2>5, <2>6 DEF ReplayChangesNothing
  <2> QED
    BY <1>1, <2>7 DEF ReplayInv
<1>3. ASSUME replay' = Nothing PROVE ReplayInv'
  BY <1>1, <1>3 DEF ReplayInv, ReplayChangesNothing, Nothing
<1>4. ASSUME NEW t \in Turns, TurnSteps(t) PROVE ReplayInv'
  BY <1>1, <1>2, <1>3, <1>4, StepsReduce DEF HistoryInv, Quiet
<1>5. ASSUME NEW c \in calls, CallSteps(c) PROVE ReplayInv'
  BY <1>3, <1>5, CallsAreQuiet DEF Quiet
<1>6. CASE Restart
  BY <1>3, <1>6 DEF Restart
<1>7. CASE UNCHANGED contextVars
  <2>1. ReplayChangesNothing'
    <3>1. ASSUME NEW turn, NEW evts, NEW selected, NEW old
          PROVE  Reduced(turn, evts, selected, old)' = Reduced(turn, evts, selected, old)
      BY <1>7 DEF contextVars, Reduced, Renewed, Searched
    <3>2. replay' = replay /\ facts' = facts
      BY <1>7 DEF contextVars
    <3> QED
      BY <3>1, <3>2 DEF ReplayInv, ReplayChangesNothing
  <2> QED
    BY <1>1, <2>1 DEF ReplayInv
<1> QED
  BY <1>4, <1>5, <1>6, <1>7 DEF ContextNext

\* Reducing the events of a reply once more changes nothing of the facts.
THEOREM ReducingAgainIsNothing == ContextSpec => []ReplayChangesNothing
<1>1. ContextInit => ReplayInv
  <2>1. ContextInit => replay = Nothing
    BY DEF ContextInit
  <2> QED
    BY <2>1, HistoryStarts, ContextAssumption DEF ReplayInv, ReplayChangesNothing
<1>2. ReplayInv /\ [ContextNext]_contextVars => ReplayInv'
  BY ReplayStep, ContextAssumption
<1>3. ReplayInv => ReplayChangesNothing
  BY DEF ReplayInv
<1> QED
  BY <1>1, <1>2, <1>3, PTL DEF ContextSpec

----------------------------------------------------------------------------
(* What is remembered was shown, as long as one turn follows the other.     *)

\* What the reply of t reduces is what it resolves its selection against.
Fresh(t) ==
    /\ prior[t] = ToSet(facts.history)
    /\ \A i \in DOMAIN events : events[i].search = 0 \/ events[i].search > heard[t]

WasShown(e) == e.products = Firsts(ProductsOf(shown[e.turn]), ToSet(e.products))

AllShown(l) == \A i \in DOMAIN l : at[l[i].turn] \in {"ending", "over", "lost"} /\ WasShown(l[i])

OneByOne ==
    /\ \A t, u \in Live : t = u
    /\ \A t \in Turns : heard[t] <= Len(bus)
    /\ \A t \in Turns : at[t] \in {"replying", "waiting"} => Fresh(t)
    /\ \A c \in calls : at[c.turn] = "replying" /\ heard[c.turn] <= c.since
    /\ AllShown(log) /\ AllShown(saved.log)

ShownInv == HistoryInv /\ (~overlapped => OneByOne)

\* Of two selections of the same products, among the cards of some and of
\* more products, the first is the second without the others.
LEMMA FewerOf ==
    ASSUME NEW s, Len(s) \in Nat, NEW T, NEW U, T \subseteq U
    PROVE  Firsts(s, T) = Firsts(Firsts(s, U), ToSet(Firsts(s, T)))
<1> DEFINE d == Firsts(s, T)
           q == Firsts(s, U)
           V == ToSet(d)
           e == Firsts(q, V)
<1>1. FirstsAt(d, Len(s), s, T) /\ FirstsAt(q, Len(s), s, U)
  BY FirstsAre
<1>2. Len(q) \in Nat
  BY <1>1 DEF FirstsAt
<1>3. FirstsAt(e, Len(q), q, V)
  BY <1>2, FirstsAre
<1> HIDE DEF d, q, e
<1>4. d \in Seq(T) /\ \A x : x \in V <=> In(d, x)
  <2>1. d \in Seq(T)
    BY <1>1 DEF FirstsAt
  <2> QED
    BY <2>1 DEF ToSet, In
<1>5. /\ \A x : In(d, x) <=> x \in T /\ In(s, x)
      /\ \A x : In(q, x) <=> x \in U /\ In(s, x)
      /\ \A k, m \in 1..Len(q) : k < m => Leads(s, q[k], q[m])
  BY <1>1, FirstsLead
<1> HIDE DEF V
<1>6. \A x : In(e, x) <=> x \in V /\ In(q, x)
  BY <1>2, <1>3, FirstsLead
<1>7. \A x : In(e, x) <=> In(d, x)
  BY <1>4, <1>5, <1>6
<1>8. ASSUME NEW x, NEW y, In(e, x), In(e, y), Leads(q, x, y) PROVE ~Leads(s, y, x)
  <2>1. PICK k \in 1..Len(q) : q[k] = x /\ \A i \in 1..k : q[i] # y
    BY <1>8 DEF Leads
  <2>2. PICK m \in 1..Len(q) : q[m] = y
    BY <1>6, <1>8 DEF In
  <2>3. k < m
    BY <1>2, <2>1, <2>2
  <2>4. Leads(s, x, y)
    BY <1>5, <2>1, <2>2, <2>3
  <2> QED
    BY <2>4, NotBoth
<1>9. \A x, y : In(e, x) /\ In(e, y) /\ Leads(q, x, y) => ~Leads(s, y, x)
  BY <1>8
<1>10. d = e
  BY <1>1, <1>2, <1>3, <1>7, <1>9, FirstsEqual
<1> QED
  BY <1>10 DEF d, q, V, e

LEMMA ProductsResolved ==
    ASSUME NEW cards, \A c \in cards : c.product \in Products, NEW selected, Len(selected) \in Nat
    PROVE  ProductsOf(Resolve(selected, cards)) = Firsts(selected, {c.product : c \in cards})
<1> DEFINE T == {c.product : c \in cards}
           k == Firsts(selected, T)
           r == Resolve(selected, cards)
<1>1. FirstsAt(k, Len(selected), selected, T)
  BY FirstsAre
<1>2. /\ r \in Seq(cards) /\ Len(r) = Len(k) /\ \A i \in 1..Len(k) : r[i].product = k[i]
  BY ResolveFinds
<1>3. k \in Seq(T)
  BY <1>1 DEF FirstsAt
<1> HIDE DEF k, r, T
<1>4. ProductsOf(r) \in Seq(Products) /\ Len(ProductsOf(r)) = Len(r) /\ \A i \in 1..Len(r) : ProductsOf(r)[i] = r[i].product
  BY <1>2, ProductsTyped
<1>5. ProductsOf(r) = k
  <2>1. Len(ProductsOf(r)) = Len(k) /\ \A i \in 1..Len(k) : ProductsOf(r)[i] = k[i]
    BY <1>2, <1>4
  <2> QED
    BY <1>3, <1>4, <2>1
<1> QED
  BY <1>5 DEF k, r, T

\* A product the tools of a fresh reply found, or the session knew, is one of
\* the cards the turn has heard of.
LEMMA KnownIsHeard ==
    ASSUME FoundInv, NEW t \in Turns, Fresh(t), heard[t] <= Len(bus)
    PROVE  {c.product : c \in Known(events, facts)} \subseteq {c.product : c \in Heard(t)}
<1> DEFINE S == SearchesOf(events)
           H == HeardSearches(t)
<1>0. events \in Seq(EventsOn(bus)) /\ Len(bus) \in Nat /\ heard[t] \in Nat
  BY DEF FoundInv
<1>1. /\ Len(events) \in Nat /\ DOMAIN S \in SUBSET (0..Len(events))
      /\ \A i \in DOMAIN S : i \in DOMAIN events /\ S[i] = events[i].search /\ S[i] \in 1..Len(bus)
  <2>1. /\ Len(events) \in Nat /\ DOMAIN S \in SUBSET (0..Len(events)) /\ DOMAIN S = Successes(events)
        /\ \A i \in DOMAIN S : S[i] = events[i].search /\ S[i] \in 1..Len(bus)
    BY <1>0, SearchesInBus
  <2>2. Successes(events) \subseteq DOMAIN events
    BY DEF Successes
  <2> QED
    BY <2>1, <2>2
<1>2. DOMAIN H = (heard[t] + 1)..Len(bus) /\ \A i \in DOMAIN H : H[i] = i
  BY DEF HeardSearches
<1>3. DOMAIN H \in SUBSET (0..Len(bus))
  BY <1>0, <1>2
<1> HIDE DEF S, H
<1>4. \A c : c \in Known(events, facts) <=> IsCard(c, ToSet(facts.history), S)
  BY <1>1, RenewedIs DEF Known, S
<1>5. \A c : c \in Heard(t) <=> IsCard(c, prior[t], H)
  BY <1>0, <1>3, RenewedIs DEF Heard, H
<1>6. ASSUME NEW p \in Products, FindsOf(H, p) # {}
      PROVE  \E c \in Heard(t) : c.product = p
  <2> DEFINE F == FindsOf(H, p)
             c == [product |-> p, search |-> H[Max(F)]]
  <2>1. F \in SUBSET (0..Len(bus)) /\ F # {}
    BY <1>3, <1>6 DEF FindsOf
  <2>2. Max(F) \in F /\ \A y \in F : y <= Max(F)
    <3> HIDE DEF F
    <3> QED
      BY <1>0, <2>1, GreatestOf
  <2>3. IsCard(c, prior[t], H)
    BY <2>2 DEF IsCard
  <2>4. c.product = p
    OBVIOUS
  <2> HIDE DEF c
  <2> QED
    BY <1>5, <2>3, <2>4
<1>7. ASSUME NEW p, FindsOf(S, p) # {} PROVE FindsOf(H, p) # {}
  <2>1. PICK i \in DOMAIN S : p \in bus[S[i]].hits
    BY <1>7 DEF FindsOf
  <2>2. S[i] > heard[t] /\ S[i] \in 1..Len(bus)
    BY <1>1, <2>1 DEF Fresh
  <2>3. S[i] \in DOMAIN H /\ H[S[i]] = S[i]
    BY <1>0, <1>2, <2>2
  <2> QED
    BY <2>1, <2>3 DEF FindsOf
<1>8. ASSUME NEW c \in Known(events, facts) PROVE \E d \in Heard(t) : d.product = c.product
  <2>1. IsCard(c, ToSet(facts.history), S)
    BY <1>4
  <2>2. CASE FindsOf(S, c.product) # {}
    <3>1. c.product \in Products
      BY <2>1, <2>2 DEF IsCard
    <3> QED
      BY <1>6, <1>7, <2>2, <3>1
  <2>3. CASE FindsOf(S, c.product) = {}
    <3>1. c \in ToSet(facts.history)
      <4>1. \A p, k : c = [product |-> p, search |-> S[k]] => c.product = p
        OBVIOUS
      <4> QED
        BY <2>1, <2>3, <4>1 DEF IsCard
    <3>2. c \in prior[t] /\ c.product \in Products
      BY <3>1 DEF Fresh, FoundInv, CardsOn
    <3>3. CASE FindsOf(H, c.product) = {}
      BY <1>5, <3>2, <3>3 DEF IsCard
    <3>4. CASE FindsOf(H, c.product) # {}
      BY <1>6, <3>2, <3>4
    <3> QED
      BY <3>3, <3>4
  <2> QED
    BY <2>2, <2>3
<1> QED
  BY <1>8

\* A turn's steps tell their own place.
LEMMA LiveIs ==
    ASSUME FoundInv, NEW t \in Turns
    PROVE  t \in Live <=> at[t] \in {"begun", "replying", "waiting", "ending"}
BY DEF FoundInv, Live, Places

----------------------------------------------------------------------------
(* The steps. *)

LEMMA BeginOne ==
    ASSUME ShownInv, NEW t \in Turns, Begin(t), ~overlapped'
    PROVE  OneByOne'
<1>1. Live = {} /\ ~overlapped /\ OneByOne /\ FoundInv
  <2>1. Live = {}
    BY DEF Begin
  <2> QED
    BY <2>1 DEF Begin, ShownInv, HistoryInv
<1>2. /\ at[t] = "idle" /\ at' = [at EXCEPT ![t] = "begun"] /\ heard' = [heard EXCEPT ![t] = Len(bus)]
      /\ UNCHANGED <<bus, facts, events, calls, saved, prior, shown, log>>
  BY DEF Begin, Move, Quiet
<1>3. at \in [Turns -> Places] /\ heard \in [Turns -> Nat] /\ Len(bus) \in Nat /\ calls \in SUBSET CallRecords
  BY <1>1 DEF FoundInv
<1>4. \A u, v \in Live' : u = v
  BY <1>1, <1>2, <1>3 DEF Live
<1>5. \A u \in Turns : heard'[u] <= Len(bus)
  BY <1>1, <1>2, <1>3 DEF OneByOne
<1>6. \A u \in Turns : at'[u] \notin {"replying", "waiting"}
  <2>1. \A u \in Turns : at[u] \notin {"replying", "waiting"}
    BY <1>1, LiveIs
  <2> QED
    BY <1>2, <1>3, <2>1
<1>7. calls = {}
  <2>1. \A c \in calls : c.turn \in Turns /\ at[c.turn] = "replying"
    BY <1>1, <1>3 DEF OneByOne, CallRecords
  <2> QED
    BY <1>1, <2>1, LiveIs
<1>8. AllShown(log)' /\ AllShown(saved.log)'
  <2>1. \A u : at[u] \in {"ending", "over", "lost"} => at'[u] = at[u]
    BY <1>2, <1>3
  <2> QED
    BY <1>1, <1>2, <2>1 DEF OneByOne, AllShown, WasShown, ProductsOf
<1> QED
  BY <1>2, <1>4, <1>5, <1>6, <1>7, <1>8 DEF OneByOne

\* The turn that lives is t.
LEMMA OnlyOne ==
    ASSUME FoundInv, OneByOne, NEW t \in Turns, at[t] \in {"begun", "replying", "waiting", "ending"}
    PROVE  \A u \in Turns : u # t => at[u] \notin {"begun", "replying", "waiting", "ending"}
<1>1. t \in Live
  BY LiveIs
<1> QED
  BY <1>1, LiveIs DEF OneByOne

\* Where only t moves, from one live place to another, no other turn lives.
LEMMA StillOne ==
    ASSUME FoundInv, OneByOne, NEW t \in Turns, NEW to, at[t] \in {"begun", "replying", "waiting", "ending"},
           at' = [at EXCEPT ![t] = to]
    PROVE  /\ \A u, v \in Live' : u = v
           /\ at'[t] = to /\ \A u \in Turns : u # t => at'[u] = at[u]
           /\ \A u \in Turns : u # t => at'[u] \notin {"replying", "waiting"}
<1>1. \A u \in Turns : u # t => at[u] \notin {"begun", "replying", "waiting", "ending"}
  BY OnlyOne
<1>2. at \in [Turns -> Places]
  BY DEF FoundInv
<1>3. at'[t] = to /\ \A u \in Turns : u # t => at'[u] = at[u]
  BY <1>2
<1>4. \A u \in Turns : u # t => at'[u] \in {"idle", "over", "lost"}
  <2> TAKE u \in Turns
  <2>1. at[u] \in Places
    BY <1>2
  <2> QED
    BY <1>1, <1>3, <2>1 DEF Places
<1> QED
  BY <1>3, <1>4 DEF Live

LEMMA QuietReduce ==
    ASSUME FoundInv, NEW turn \in Turns \cup {None}, NEW evts, NEW by, Reduce(turn, evts, None, by)
    PROVE  facts'.history = facts.history /\ log' = log
<1>1. facts' = Reduced(turn, evts, None, facts) /\ facts \in FactsOn(bus)
  BY DEF Reduce, FoundInv
<1>2. ~Speaks(evts, None, facts)
  BY DEF Speaks
<1>3. log' = log
  BY DEF Reduce, Recommends
<1> QED
  BY <1>1, <1>2, <1>3, ReducedIs

LEMMA StartReplyOne ==
    ASSUME ShownInv, NEW t \in Turns, StartReply(t), ~overlapped'
    PROVE  OneByOne'
<1>1. ~overlapped /\ OneByOne /\ FoundInv
  BY DEF StartReply, ShownInv, HistoryInv
<1>2. /\ at[t] = "begun" /\ at' = [at EXCEPT ![t] = "replying"] /\ events' = <<>>
      /\ prior' = [prior EXCEPT ![t] = ToSet(facts.history)]
      /\ UNCHANGED <<bus, calls, saved, heard, shown>>
  BY DEF StartReply, Move
<1>3. facts'.history = facts.history /\ log' = log
  BY <1>1, QuietReduce DEF StartReply
<1>4. /\ \A u, v \in Live' : u = v
      /\ at'[t] = "replying" /\ \A u \in Turns : u # t => at'[u] = at[u]
      /\ \A u \in Turns : u # t => at'[u] \notin {"replying", "waiting"}
  BY <1>1, <1>2, StillOne
<1>5. Fresh(t)'
  BY <1>1, <1>2, <1>3 DEF Fresh, FoundInv
<1>6. \A c \in calls' : at'[c.turn] = "replying" /\ heard'[c.turn] <= c.since
  <2>1. \A c \in calls : c.turn \in Turns
    BY <1>1 DEF FoundInv, CallRecords
  <2> QED
    BY <1>1, <1>2, <1>4, <2>1 DEF OneByOne
<1>7. AllShown(log)' /\ AllShown(saved.log)'
  <2>1. \A u : at[u] \in {"ending", "over", "lost"} => at'[u] = at[u]
    BY <1>1, <1>2 DEF FoundInv
  <2>2. shown' = shown /\ log' = log /\ saved' = saved /\ AllShown(log) /\ AllShown(saved.log)
    BY <1>1, <1>2, <1>3 DEF OneByOne
  <2> QED
    BY ONLY <2>1, <2>2 DEF AllShown, WasShown, ProductsOf
<1> QED
  BY <1>1, <1>2, <1>4, <1>5, <1>6, <1>7 DEF OneByOne

LEMMA CallOne ==
    ASSUME ShownInv, NEW t \in Turns, NEW tool \in Tools, Call(t, tool), ~overlapped'
    PROVE  OneByOne'
<1>1. ~overlapped /\ OneByOne /\ FoundInv
  BY DEF Call, ShownInv, HistoryInv
<1> DEFINE call == [id |-> made', turn |-> t, tool |-> tool, since |-> Len(bus)]
           event == [kind |-> "invoke", id |-> made', tool |-> tool, search |-> 0]
<1>2. /\ at[t] = "replying" /\ calls' = calls \cup {call} /\ events' = Append(events, event)
      /\ UNCHANGED <<bus, facts, saved, at, heard, prior, shown, log>>
  BY DEF Call, Quiet
<1>3. call.turn = t /\ call.since = Len(bus) /\ event.search = 0
  OBVIOUS
<1> HIDE DEF call, event
<1>4. \A c \in calls' : at'[c.turn] = "replying" /\ heard'[c.turn] <= c.since
  BY <1>1, <1>2, <1>3 DEF OneByOne
<1>5. ASSUME NEW u \in Turns, at[u] \in {"replying", "waiting"} PROVE Fresh(u)'
  <2>1. Fresh(u)
    BY <1>1, <1>5 DEF OneByOne
  <2>2. \A i \in DOMAIN events' : events'[i].search = 0 \/ events'[i].search > heard'[u]
    <3>1. events \in Seq(EventsOn(bus))
      BY <1>1 DEF FoundInv
    <3>2. \A i \in DOMAIN events' : (i \in DOMAIN events /\ events'[i] = events[i]) \/ events'[i] = event
      BY <1>2, <3>1
    <3> QED
      BY <1>2, <1>3, <2>1, <3>2 DEF Fresh
  <2> QED
    BY <1>2, <2>1, <2>2 DEF Fresh
<1>6. AllShown(log)' /\ AllShown(saved.log)' /\ \A u, v \in Live' : u = v
  BY <1>1, <1>2 DEF OneByOne, AllShown, WasShown, ProductsOf, Live
<1> QED
  BY <1>1, <1>2, <1>4, <1>5, <1>6 DEF OneByOne

\* The end of a call, with what it found after its turn began.
LEMMA ReturnOne ==
    ASSUME ShownInv, NEW c \in calls, NEW search, Return(c, search), ~overlapped',
           Len(bus) <= Len(bus'), Len(bus') \in Nat, search = 0 \/ search > heard[c.turn]
    PROVE  OneByOne'
<1>1. ~overlapped /\ OneByOne /\ FoundInv
  BY DEF Return, ShownInv, HistoryInv
<1> DEFINE event == [kind |-> "result", id |-> c.id, tool |-> c.tool, search |-> search]
<1>2. /\ calls' = calls \ {c} /\ events' = Append(events, event)
      /\ UNCHANGED <<facts, saved, at, heard, prior, shown, log>>
  BY <1>1 DEF Return, Quiet
<1>3. event.search = search
  OBVIOUS
<1> HIDE DEF event
<1>4. c.turn \in Turns /\ at[c.turn] = "replying" /\ Len(bus) \in Nat
  BY <1>1 DEF OneByOne, FoundInv, CallRecords
<1>5. ASSUME NEW u \in Turns, at[u] \in {"replying", "waiting"} PROVE Fresh(u)'
  <2>1. Fresh(u) /\ u = c.turn
    BY <1>1, <1>4, <1>5, OnlyOne DEF OneByOne
  <2>2. \A i \in DOMAIN events' : events'[i].search = 0 \/ events'[i].search > heard'[u]
    <3>1. events \in Seq(EventsOn(bus))
      BY <1>1 DEF FoundInv
    <3>2. \A i \in DOMAIN events' : (i \in DOMAIN events /\ events'[i] = events[i]) \/ events'[i] = event
      BY <1>2, <3>1
    <3> QED
      BY <1>2, <1>3, <2>1, <3>2 DEF Fresh
  <2> QED
    BY <1>2, <2>1, <2>2 DEF Fresh
<1>6. AllShown(log)' /\ AllShown(saved.log)' /\ \A u, v \in Live' : u = v
  BY <1>1, <1>2 DEF OneByOne, AllShown, WasShown, ProductsOf, Live
<1>7. \A u \in Turns : heard'[u] <= Len(bus')
  BY <1>1, <1>2, <1>4 DEF OneByOne, FoundInv
<1>8. \A d \in calls' : at'[d.turn] = "replying" /\ heard'[d.turn] <= d.since
  BY <1>1, <1>2 DEF OneByOne
<1> QED
  BY <1>2, <1>5, <1>6, <1>7, <1>8 DEF OneByOne

\* A dispatch's latest search is of its own time.
LEMMA LatestIsFresh ==
    ASSUME FoundInv, OneByOne, NEW c \in calls
    PROVE  Latest(c) = 0 \/ Latest(c) > heard[c.turn]
<1> DEFINE I == {i \in (c.since + 1)..Len(bus) : bus[i].by = c.id}
<1>1. c.since \in Nat /\ Len(bus) \in Nat /\ c.turn \in Turns /\ heard[c.turn] \in Nat /\ heard[c.turn] <= c.since
  BY DEF FoundInv, CallRecords, OneByOne
<1>2. I \in SUBSET (0..Len(bus))
  BY <1>1
<1>3. Latest(c) = IF I # {} THEN Max(I) ELSE 0
  BY DEF Latest, SelectLastInSubSeq
<1>4. \A i \in I : i > c.since /\ i \in Nat
  BY <1>1
<1> HIDE DEF I
<1>5. I # {} => Max(I) \in I
  BY <1>1, <1>2, GreatestOf
<1>6. I # {} => Latest(c) \in I
  BY <1>3, <1>5
<1> QED
  BY <1>1, <1>3, <1>4, <1>6

LEMMA CallStepOne ==
    ASSUME ShownInv, NEW c \in calls, CallSteps(c), ~overlapped'
    PROVE  OneByOne'
<1>1. ~overlapped /\ OneByOne /\ FoundInv
  BY DEF CallSteps, SearchReturns, AgentSearches, AgentReturns, CallFails, Return, ShownInv, HistoryInv
<1>2. c.id \in Nat /\ Len(bus) \in Nat /\ c.turn \in Turns /\ heard[c.turn] \in Nat /\ heard[c.turn] <= Len(bus)
  BY <1>1 DEF FoundInv, CallRecords, OneByOne
<1>3. ASSUME NEW hits \in SUBSET Products, SearchReturns(c, hits) PROVE OneByOne'
  <2>1. Len(bus') = Len(bus) + 1
    BY <1>1, <1>3, PublishAdds DEF SearchReturns
  <2>2. Return(c, Len(bus'))
    BY <1>3 DEF SearchReturns
  <2>3. Len(bus') > heard[c.turn] /\ Len(bus) <= Len(bus') /\ Len(bus') \in Nat
    BY <1>2, <2>1
  <2> QED
    BY <2>2, <2>3, ReturnOne
<1>4. ASSUME NEW hits \in SUBSET Products, AgentSearches(c, hits) PROVE OneByOne'
  <2>1. Len(bus') = Len(bus) + 1
    BY <1>1, <1>2, <1>4, PublishAdds DEF AgentSearches
  <2>2. UNCHANGED <<facts, events, calls, saved, at, heard, prior, shown, log>>
    BY <1>4 DEF AgentSearches, Quiet
  <2>3. \A u \in Turns : heard'[u] <= Len(bus')
    <3>1. heard \in [Turns -> Nat]
      BY <1>1 DEF FoundInv
    <3> QED
      BY <1>1, <1>2, <2>1, <2>2, <3>1 DEF OneByOne
  <2>4. \A u \in Turns : at'[u] \in {"replying", "waiting"} => Fresh(u)'
    BY <1>1, <2>2 DEF OneByOne, Fresh
  <2>5. AllShown(log)' /\ AllShown(saved.log)' /\ \A u, v \in Live' : u = v
    BY <1>1, <2>2 DEF OneByOne, AllShown, WasShown, ProductsOf, Live
  <2> QED
    BY <1>1, <2>2, <2>3, <2>4, <2>5 DEF OneByOne
<1>5. CASE AgentReturns(c)
  <2>1. Return(c, Latest(c)) /\ bus' = bus
    BY <1>5 DEF AgentReturns
  <2> QED
    BY <1>1, <1>2, <2>1, LatestIsFresh, ReturnOne
<1>6. CASE CallFails(c)
  <2>1. Return(c, 0) /\ bus' = bus
    BY <1>6 DEF CallFails
  <2> QED
    BY <1>2, <2>1, ReturnOne
<1> QED
  BY <1>3, <1>4, <1>5, <1>6 DEF CallSteps

\* Entries of turns that are past stay true when one that is not is shown more.
LEMMA OthersShown ==
    ASSUME ShownInv, OneByOne, NEW t \in Turns, at[t] \notin {"ending", "over", "lost"}, NEW to,
           at' = [at EXCEPT ![t] = to], NEW cards, shown' = [shown EXCEPT ![t] = cards]
    PROVE  /\ \A i \in DOMAIN log :
                 /\ at'[log[i].turn] \in {"ending", "over", "lost"}
                 /\ log[i].products = Firsts(ProductsOf(shown'[log[i].turn]), ToSet(log[i].products))
           /\ \A i \in DOMAIN saved.log :
                 /\ at'[saved.log[i].turn] \in {"ending", "over", "lost"}
                 /\ saved.log[i].products =
                      Firsts(ProductsOf(shown'[saved.log[i].turn]), ToSet(saved.log[i].products))
<1>1. at \in [Turns -> Places] /\ shown \in [Turns -> Seq(CardsOn(bus))]
      /\ log \in Seq(LogEntries) /\ saved.log \in Seq(LogEntries)
  BY DEF ShownInv, HistoryInv, FoundInv
<1>2. AllShown(log) /\ AllShown(saved.log)
  BY DEF OneByOne
<1>3. \A u \in Turns : at[u] \in {"ending", "over", "lost"} => at'[u] = at[u] /\ shown'[u] = shown[u]
  BY <1>1
<1>4. (\A i \in DOMAIN log : log[i].turn \in Turns) /\ (\A i \in DOMAIN saved.log : saved.log[i].turn \in Turns)
  <2>1. \A l \in Seq(LogEntries) : \A i \in DOMAIN l : l[i].turn \in Turns
    <3> SUFFICES ASSUME NEW l \in Seq(LogEntries), NEW i \in DOMAIN l PROVE l[i].turn \in Turns
      OBVIOUS
    <3>1. l[i] \in LogEntries
      OBVIOUS
    <3> QED
      BY <3>1 DEF LogEntries
  <2> QED
    BY <1>1, <2>1
<1> QED
  BY <1>2, <1>3, <1>4 DEF AllShown, WasShown

LEMMA AnswerOne ==
    ASSUME ContextAssumption, ShownInv, NEW t \in Turns, NEW selected \in Selections,
           Answer(t, selected), ~overlapped'
    PROVE  OneByOne'
<1>1. ~overlapped /\ OneByOne /\ FoundInv
  BY DEF Answer, ShownInv, HistoryInv
<1>2. /\ at[t] = "replying" /\ at' = [at EXCEPT ![t] = "ending"] /\ \A c \in calls : c.turn # t
      /\ Reduce(intent, events, selected, t)
      /\ shown' = [shown EXCEPT ![t] = Chosen(selected, Heard(t))]
      /\ heard' = [heard EXCEPT ![t] = 0] /\ prior' = [prior EXCEPT ![t] = {}]
      /\ UNCHANGED <<bus, calls, saved>>
  BY DEF Answer, Move, Leave
<1>3. /\ \A u, v \in Live' : u = v
      /\ at'[t] = "ending" /\ \A u \in Turns : u # t => at'[u] = at[u]
      /\ \A u \in Turns : u # t => at'[u] \notin {"replying", "waiting"}
  BY <1>1, <1>2, StillOne
<1>4. \A u \in Turns : heard'[u] <= Len(bus')
  <2>1. heard \in [Turns -> Nat] /\ Len(bus) \in Nat
    BY <1>1 DEF FoundInv
  <2> QED
    BY <1>1, <1>2, <2>1 DEF OneByOne
<1>5. \A u \in Turns : at'[u] \in {"replying", "waiting"} => Fresh(u)'
  BY <1>3
<1>6. calls' = {}
  <2>1. \A c \in calls : c.turn \in Turns /\ at[c.turn] = "replying"
    BY <1>1 DEF OneByOne, FoundInv, CallRecords
  <2> QED
    BY <1>1, <1>2, <2>1, OnlyOne
<1> DEFINE K == Known(events, facts)
           entry == Entry(t, ProductsOf(facts'.shown))
<1>7. ASSUME log' # log
      PROVE  /\ log' = Append(log, entry) /\ entry.turn = t
             /\ entry.products = Firsts(ProductsOf(shown'[t]), ToSet(entry.products))
  <2>1. Recommends(events, selected) /\ log' = Append(log, Entry(t, ProductsOf(facts'.shown)))
    BY <1>2, <1>7 DEF Reduce
  <2>2. events \in Seq(EventsOn(bus)) /\ facts \in FactsOn(bus) /\ bus \in Seq(SearchRecords)
    BY <1>1 DEF FoundInv
  <2>3. Speaks(events, selected, facts) /\ selected # None
    BY <1>1, <2>1, <2>2, RecommendsSpeaks DEF Recommends
  <2>4. facts'.shown = Displayed(events, selected, facts)
    BY <1>2, <2>2, <2>3, ReducedIs DEF Reduce
  <2>5. facts'.shown = Resolve(selected, K) /\ shown'[t] = Resolve(selected, Heard(t))
    BY <1>1, <1>2, <2>3, <2>4 DEF Displayed, Chosen, FoundInv
  <2>6. selected \in Seq(Products) /\ Len(selected) \in Nat
    BY <2>3, SelectionIs
  <2>7. (\A c \in K : c.product \in Products) /\ (\A c \in Heard(t) : c.product \in Products)
    BY <1>1, <2>2, DisplayedFinds, HeardFinds, CardsHaveProducts
  <2> DEFINE T == {c.product : c \in K}
             U == {c.product : c \in Heard(t)}
  <2>8. T \subseteq U
    BY <1>1, <1>2, KnownIsHeard DEF OneByOne
  <2>9. ProductsOf(facts'.shown) = Firsts(selected, T) /\ ProductsOf(shown'[t]) = Firsts(selected, U)
    <3> HIDE DEF K
    <3> QED
      BY <2>5, <2>6, <2>7, ProductsResolved
  <2>10. entry.turn = t /\ entry.products = ProductsOf(facts'.shown)
    BY DEF Entry
  <2> HIDE DEF T, U, entry
  <2>11. Firsts(selected, T) = Firsts(Firsts(selected, U), ToSet(Firsts(selected, T)))
    BY <2>6, <2>8, FewerOf
  <2> QED
    BY <2>1, <2>9, <2>10, <2>11 DEF entry
<1> HIDE DEF entry, K
<1>8. /\ \A i \in DOMAIN log :
            /\ at'[log[i].turn] \in {"ending", "over", "lost"}
            /\ log[i].products = Firsts(ProductsOf(shown'[log[i].turn]), ToSet(log[i].products))
      /\ \A i \in DOMAIN saved.log :
            /\ at'[saved.log[i].turn] \in {"ending", "over", "lost"}
            /\ saved.log[i].products =
                 Firsts(ProductsOf(shown'[saved.log[i].turn]), ToSet(saved.log[i].products))
  BY <1>1, <1>2, OthersShown
<1>9. AllShown(saved.log)'
  BY <1>2, <1>8 DEF AllShown, WasShown, ProductsOf
<1>10. AllShown(log)'
  <2>1. log \in Seq(LogEntries)
    BY DEF ShownInv, HistoryInv
  <2>2. \A i \in DOMAIN log' : (i \in DOMAIN log /\ log'[i] = log[i]) \/ (log' # log /\ log'[i] = entry)
    BY <1>7, <2>1
  <2> SUFFICES ASSUME NEW i \in DOMAIN log'
               PROVE  /\ at'[log'[i].turn] \in {"ending", "over", "lost"}
                      /\ log'[i].products = Firsts(ProductsOf(shown'[log'[i].turn]), ToSet(log'[i].products))
    BY DEF AllShown, WasShown, ProductsOf
  <2>3. CASE i \in DOMAIN log /\ log'[i] = log[i]
    BY <1>8, <2>3
  <2>4. CASE log' # log /\ log'[i] = entry
    BY <1>3, <1>7, <2>4
  <2> QED
    BY <2>2, <2>3, <2>4
<1> QED
  BY <1>3, <1>4, <1>5, <1>6, <1>9, <1>10 DEF OneByOne

LEMMA BreakOne ==
    ASSUME ShownInv, NEW t \in Turns, NEW to \in {"waiting", "ending"}, Break(t, to), ~overlapped'
    PROVE  OneByOne'
<1>1. ~overlapped /\ OneByOne /\ FoundInv
  BY DEF Break, ShownInv, HistoryInv
<1>2. /\ at[t] = "replying" /\ at' = [at EXCEPT ![t] = to] /\ events' = <<>>
      /\ calls' = {c \in calls : c.turn # t}
      /\ (to = "ending" /\ Leave(t)) \/ (to = "waiting" /\ UNCHANGED <<heard, prior>>)
      /\ UNCHANGED <<bus, saved, shown>>
  BY DEF Break, Move
<1>3. facts'.history = facts.history /\ log' = log
  BY <1>1, QuietReduce DEF Break, FoundInv
<1>4. /\ \A u, v \in Live' : u = v
      /\ at'[t] = to /\ \A u \in Turns : u # t => at'[u] = at[u]
      /\ \A u \in Turns : u # t => at'[u] \notin {"replying", "waiting"}
  BY <1>1, <1>2, StillOne
<1>5. heard \in [Turns -> Nat] /\ Len(bus) \in Nat
  BY <1>1 DEF FoundInv
<1>6. \A u \in Turns : heard'[u] <= Len(bus')
  BY <1>1, <1>2, <1>5 DEF OneByOne, Leave
<1>7. to = "waiting" => Fresh(t)'
  <2>1. Fresh(t)
    BY <1>1, <1>2 DEF OneByOne
  <2> QED
    BY <1>2, <1>3, <2>1 DEF Fresh
<1>8. calls' = {}
  <2>1. \A c \in calls : c.turn \in Turns /\ at[c.turn] = "replying"
    BY <1>1 DEF OneByOne, FoundInv, CallRecords
  <2> QED
    BY <1>1, <1>2, <2>1, OnlyOne
<1>9. AllShown(log)' /\ AllShown(saved.log)'
  <2>1. \A u : at[u] \in {"ending", "over", "lost"} => at'[u] = at[u]
    BY <1>1, <1>2 DEF FoundInv
  <2>2. shown' = shown /\ log' = log /\ saved' = saved /\ AllShown(log) /\ AllShown(saved.log)
    BY <1>1, <1>2, <1>3 DEF OneByOne
  <2> QED
    BY ONLY <2>1, <2>2 DEF AllShown, WasShown, ProductsOf
<1> QED
  BY <1>4, <1>6, <1>7, <1>8, <1>9 DEF OneByOne

LEMMA ResumeOne ==
    ASSUME ShownInv, NEW t \in Turns, Resume(t), ~overlapped'
    PROVE  OneByOne'
<1>1. ~overlapped /\ OneByOne /\ FoundInv
  BY DEF Resume, ShownInv, HistoryInv
<1>2. /\ at[t] = "waiting" /\ at' = [at EXCEPT ![t] = "replying"]
      /\ UNCHANGED <<bus, facts, events, calls, saved, heard, prior, shown, log>>
  BY DEF Resume, Move, Quiet
<1>3. /\ \A u, v \in Live' : u = v
      /\ at'[t] = "replying" /\ \A u \in Turns : u # t => at'[u] = at[u]
      /\ \A u \in Turns : u # t => at'[u] \notin {"replying", "waiting"}
  BY <1>1, <1>2, StillOne
<1>4. Fresh(t)'
  BY <1>1, <1>2 DEF OneByOne, Fresh
<1>5. calls' = calls /\ \A c \in calls : FALSE
  <2>1. \A c \in calls : c.turn \in Turns /\ at[c.turn] = "replying"
    BY <1>1 DEF OneByOne, FoundInv, CallRecords
  <2> QED
    BY <1>1, <1>2, <2>1, OnlyOne
<1>6. AllShown(log)' /\ AllShown(saved.log)'
  <2>1. \A u : at[u] \in {"ending", "over", "lost"} => at'[u] = at[u]
    BY <1>1, <1>2 DEF FoundInv
  <2>2. shown' = shown /\ log' = log /\ saved' = saved /\ AllShown(log) /\ AllShown(saved.log)
    BY <1>1, <1>2 DEF OneByOne
  <2> QED
    BY ONLY <2>1, <2>2 DEF AllShown, WasShown, ProductsOf
<1> QED
  BY <1>1, <1>2, <1>3, <1>4, <1>5, <1>6 DEF OneByOne

LEMMA PersistOne ==
    ASSUME ShownInv, NEW t \in Turns, Persist(t), ~overlapped'
    PROVE  OneByOne'
<1>1. ~overlapped /\ OneByOne /\ FoundInv
  BY DEF Persist, ShownInv, HistoryInv
<1>2. /\ at[t] = "ending" /\ at' = [at EXCEPT ![t] = "over"] /\ saved'.log = log
      /\ UNCHANGED <<bus, facts, events, calls, heard, prior, shown, log>>
  BY DEF Persist, Move, Quiet
<1>3. /\ \A u, v \in Live' : u = v
      /\ at'[t] = "over" /\ \A u \in Turns : u # t => at'[u] = at[u]
      /\ \A u \in Turns : u # t => at'[u] \notin {"replying", "waiting"}
  <2>1. \A u \in Turns : u # t => at[u] \notin {"begun", "replying", "waiting", "ending"}
    BY <1>1, <1>2, OnlyOne
  <2>2. at \in [Turns -> Places]
    BY <1>1 DEF FoundInv
  <2>3. at'[t] = "over" /\ \A u \in Turns : u # t => at'[u] = at[u]
    BY <1>2, <2>2
  <2>4. \A u \in Turns : at'[u] \in {"idle", "over", "lost"}
    <3> TAKE u \in Turns
    <3>1. at[u] \in Places
      BY <2>2
    <3> QED
      BY <2>1, <2>3, <3>1 DEF Places
  <2> QED
    BY <2>3, <2>4 DEF Live
<1>4. calls' = calls /\ \A c \in calls : FALSE
  <2>1. \A c \in calls : c.turn \in Turns /\ at[c.turn] = "replying"
    BY <1>1 DEF OneByOne, FoundInv, CallRecords
  <2> QED
    BY <1>1, <1>2, <2>1, OnlyOne
<1>5. AllShown(log)' /\ AllShown(saved.log)'
  <2>1. \A u : at[u] \in {"ending", "over", "lost"} => at'[u] \in {"ending", "over", "lost"}
    BY <1>1, <1>2 DEF FoundInv
  <2>2. shown' = shown /\ log' = log /\ saved'.log = log /\ AllShown(log)
    BY <1>1, <1>2 DEF OneByOne
  <2> QED
    BY ONLY <2>1, <2>2 DEF AllShown, WasShown, ProductsOf
<1> QED
  BY <1>1, <1>2, <1>3, <1>4, <1>5 DEF OneByOne

LEMMA RestartOne ==
    ASSUME ShownInv, Restart, ~overlapped'
    PROVE  OneByOne'
<1>1. ~overlapped /\ OneByOne /\ FoundInv
  BY DEF Restart, ShownInv, HistoryInv
<1>2. /\ at' = [t \in Turns |-> IF t \in Live THEN "lost" ELSE at[t]]
      /\ log' = saved.log /\ calls' = {} /\ UNCHANGED <<bus, saved, heard, shown>>
  BY DEF Restart
<1>3. \A u \in Turns : at'[u] \in {"idle", "over", "lost"}
  BY <1>1, <1>2 DEF FoundInv, Places, Live
<1>4. \A u, v \in Live' : FALSE
  BY <1>3 DEF Live
<1>5. AllShown(log)' /\ AllShown(saved.log)'
  <2>1. \A u \in Turns : at[u] \in {"ending", "over", "lost"} => at'[u] \in {"ending", "over", "lost"}
    BY <1>2
  <2>2. shown' = shown /\ log' = saved.log /\ saved' = saved /\ AllShown(saved.log)
    BY <1>1, <1>2 DEF OneByOne
  <2>3. saved.log \in Seq(LogEntries)
    BY DEF ShownInv, HistoryInv
  <2>4. \A i \in DOMAIN saved.log : saved.log[i].turn \in Turns
    <3> TAKE i \in DOMAIN saved.log
    <3>1. saved.log[i] \in LogEntries
      BY <2>3
    <3> QED
      BY <3>1 DEF LogEntries
  <2> QED
    BY ONLY <2>1, <2>2, <2>4 DEF AllShown, WasShown, ProductsOf
<1> QED
  BY <1>1, <1>2, <1>3, <1>4, <1>5 DEF OneByOne

LEMMA ShownStep ==
    ContextAssumption /\ ShownInv /\ [ContextNext]_contextVars => ShownInv'
<1> SUFFICES ASSUME ContextAssumption, ShownInv, [ContextNext]_contextVars, ~overlapped' PROVE OneByOne'
  BY HistoryStep DEF ShownInv
<1>1. ASSUME NEW t \in Turns, TurnSteps(t) PROVE OneByOne'
  <2>1. CASE Retry(t) \/ Fail(t)
    BY <2>1, BreakOne DEF Retry, Fail
  <2>2. ASSUME NEW selected \in Selections, Answer(t, selected) PROVE OneByOne'
    BY <2>2, AnswerOne
  <2>3. ASSUME NEW tool \in Tools, Call(t, tool) PROVE OneByOne'
    BY <2>3, CallOne
  <2>4. CASE Begin(t) \/ StartReply(t) \/ Resume(t) \/ Persist(t)
    BY <2>4, BeginOne, StartReplyOne, ResumeOne, PersistOne
  <2> QED
    BY <1>1, <2>1, <2>2, <2>3, <2>4 DEF TurnSteps, Selections
<1>2. ASSUME NEW c \in calls, CallSteps(c) PROVE OneByOne'
  BY <1>2, CallStepOne
<1>3. CASE Restart
  BY <1>3, RestartOne
<1>4. CASE UNCHANGED contextVars
  BY <1>4 DEF contextVars, ShownInv, OneByOne, Fresh, AllShown, WasShown, ProductsOf, Live
<1> QED
  BY <1>1, <1>2, <1>3, <1>4 DEF ContextNext

THEOREM ShownInvariant == ContextSpec => []ShownInv
<1>1. ContextInit => ShownInv
  <2> SUFFICES ASSUME ContextInit PROVE OneByOne
    BY HistoryStarts, ContextAssumption DEF ShownInv
  <2> QED
    BY DEF ContextInit, OneByOne, Live, AllShown
<1>2. ShownInv /\ [ContextNext]_contextVars => ShownInv'
  BY ShownStep, ContextAssumption
<1> QED
  BY <1>1, <1>2, PTL DEF ContextSpec

\* One turn after the other: what the session remembers as recommended in a
\* turn was shown in that turn, in the same order.
THEOREM RememberedIsShown == ContextSpec => []RememberedWasShown
<1>1. ShownInv => RememberedWasShown
  BY DEF ShownInv, OneByOne, AllShown, WasShown, RememberedWasShown
<1> QED
  BY ShownInvariant, <1>1, PTL

\* What a session remembers of its recommendations is true.
THEOREM MemoryTrue == ContextSpec => []MemoryIsTrue
<1>1. RememberedWasShown /\ ReplayChangesNothing /\ HistoryIsRecent => MemoryIsTrue
  BY DEF MemoryIsTrue
<1> QED
  BY RememberedIsShown, ReducingAgainIsNothing, HistoryHoldsRecent, <1>1, PTL

----------------------------------------------------------------------------
(* The order of the facts is one order.                                     *)

\* What a snapshot tells of an order is true of the book, its reason for good.
TrueOf(r, b) ==
    /\ r \in Snapshots /\ r.number \in 1..Len(b)
    /\ r.status = "CANCELLED" => r = b[r.number]
    /\ r.reason # Nil => r.status = "CANCELLED"

OneOrder(o, seen, b) ==
    o # NoOrder =>
        /\ o \in Snapshots /\ seen # <<>>
        /\ o.number = seen[Len(seen)].number /\ o.status = seen[Len(seen)].status
        /\ o.number \in 1..Len(b)
        /\ o.status = "CANCELLED" => b[o.number].status = "CANCELLED" /\ o.reason = b[o.number].reason
        /\ o.reason # Nil => \E n \in 1..Len(b) : b[n].reason = o.reason

OrderInv ==
    /\ book \in Seq(Snapshots)
    /\ \A n \in 1..Len(book) :
          book[n].number = n /\ (book[n].reason = Nil <=> book[n].status = "CONFIRMED")
    /\ order \in [Desks -> Snapshots \cup {NoOrder}]
    /\ results \in [Desks -> Seq(Snapshots)] /\ reduced \in [Desks -> Seq(Snapshots)]
    /\ \A s \in Desks : /\ \A i \in 1..Len(results[s]) : TrueOf(results[s][i], book)
                        /\ OneOrder(order[s], reduced[s], book)

\* How a book grows: an order that is cancelled stays what it is.
Grows(b, c) ==
    /\ Len(b) \in Nat /\ Len(c) \in Nat /\ Len(b) <= Len(c)
    /\ \A n \in 1..Len(b) : b[n].status = "CANCELLED" \/ b[n].reason # Nil => c[n] = b[n]

LEMMA GrowsKeeps ==
    ASSUME NEW b, NEW c, Grows(b, c)
    PROVE  /\ \A r : TrueOf(r, b) => TrueOf(r, c)
           /\ \A o, seen : OneOrder(o, seen, b) => OneOrder(o, seen, c)
<1>1. \A n \in 1..Len(b) : n \in 1..Len(c)
  BY DEF Grows
<1>2. ASSUME NEW r, TrueOf(r, b) PROVE TrueOf(r, c)
  BY <1>1, <1>2 DEF TrueOf, Grows
<1>3. ASSUME NEW o, NEW seen, OneOrder(o, seen, b) PROVE OneOrder(o, seen, c)
  <2>1. o # NoOrder /\ o.reason # Nil => \E n \in 1..Len(c) : c[n].reason = o.reason
    <3> SUFFICES ASSUME o # NoOrder, o.reason # Nil PROVE \E n \in 1..Len(c) : c[n].reason = o.reason
      OBVIOUS
    <3>1. PICK n \in 1..Len(b) : b[n].reason = o.reason
      BY <1>3 DEF OneOrder
    <3> QED
      BY <1>1, <3>1 DEF Grows
  <2>2. o # NoOrder /\ o.status = "CANCELLED" => c[o.number].status = "CANCELLED" /\ o.reason = c[o.number].reason
    BY <1>3 DEF OneOrder, Grows
  <2> QED
    BY <1>1, <1>3, <2>1, <2>2 DEF OneOrder
<1> QED
  BY <1>2, <1>3

\* A snapshot is returned of a book that grew.
LEMMA CalledKeeps ==
    ASSUME OrderInv, NEW s \in Desks, NEW r, Called(s, r), TrueOf(r, book'), Grows(book, book'),
           book' \in Seq(Snapshots),
           \A n \in 1..Len(book') :
              book'[n].number = n /\ (book'[n].reason = Nil <=> book'[n].status = "CONFIRMED")
    PROVE  OrderInv'
<1>1. results' = [results EXCEPT ![s] = Append(results[s], r)] /\ order' = order /\ reduced' = reduced
  BY DEF Called
<1>2. r \in Snapshots /\ results \in [Desks -> Seq(Snapshots)]
  BY DEF TrueOf, OrderInv
<1>3. results' \in [Desks -> Seq(Snapshots)]
  BY <1>1, <1>2
<1>4. ASSUME NEW u \in Desks
      PROVE  /\ \A i \in 1..Len(results'[u]) : TrueOf(results'[u][i], book')
             /\ OneOrder(order'[u], reduced'[u], book')
  <2>1. \A i \in 1..Len(results[u]) : TrueOf(results[u][i], book')
    BY GrowsKeeps DEF OrderInv
  <2>2. \A i \in 1..Len(results'[u]) : TrueOf(results'[u][i], book')
    <3>1. CASE u = s
      <4>1. results'[u] = Append(results[u], r) /\ results[u] \in Seq(Snapshots)
        BY <1>1, <1>2, <3>1
      <4>2. \A i \in 1..Len(results'[u]) :
               (i \in 1..Len(results[u]) /\ results'[u][i] = results[u][i]) \/ results'[u][i] = r
        BY <4>1
      <4> QED
        BY <2>1, <4>2
    <3>2. CASE u # s
      BY <1>1, <1>2, <2>1, <3>2
    <3> QED
      BY <3>1, <3>2
  <2>3. OneOrder(order[u], reduced[u], book')
    BY GrowsKeeps DEF OrderInv
  <2> QED
    BY <1>1, <2>2, <2>3
<1> QED
  BY <1>1, <1>3, <1>4 DEF OrderInv

Confirmed(n) == [number |-> n, status |-> "CONFIRMED", reason |-> Nil]

LEMMA Placed ==
    ASSUME OrderInv, NEW b, b = Append(book, Confirmed(Len(book) + 1)), Len(book) < MaxOrders, FactsAssumption
    PROVE  /\ Grows(book, b) /\ b \in Seq(Snapshots) /\ TrueOf(Confirmed(Len(book) + 1), b)
           /\ \A n \in 1..Len(b) : b[n].number = n /\ (b[n].reason = Nil <=> b[n].status = "CONFIRMED")
<1> DEFINE new == Confirmed(Len(book) + 1)
<1>1. book \in Seq(Snapshots) /\ Len(book) \in Nat
  BY DEF OrderInv
<1>2. new \in Snapshots /\ new.number = Len(book) + 1 /\ new.status = "CONFIRMED" /\ new.reason = Nil
  BY <1>1 DEF Confirmed, Snapshots, FactsAssumption
<1> HIDE DEF new
<1>3. b = Append(book, new)
  BY DEF new
<1>4. /\ b \in Seq(Snapshots) /\ Len(b) = Len(book) + 1 /\ b[Len(book) + 1] = new
      /\ \A n \in 1..Len(book) : b[n] = book[n]
  BY <1>1, <1>2, <1>3
<1>5. Grows(book, b)
  BY <1>1, <1>4 DEF Grows
<1>6. TrueOf(new, b)
  BY <1>1, <1>2, <1>4 DEF TrueOf
<1>7. \A n \in 1..Len(b) : b[n].number = n /\ (b[n].reason = Nil <=> b[n].status = "CONFIRMED")
  <2> TAKE n \in 1..Len(b)
  <2>1. CASE n = Len(book) + 1
    BY <1>2, <1>4, <2>1
  <2>2. CASE n # Len(book) + 1
    <3>1. n \in 1..Len(book)
      BY <1>1, <1>4, <2>2
    <3> QED
      BY <1>4, <3>1 DEF OrderInv
  <2> QED
    BY <2>1, <2>2
<1> QED
  BY <1>4, <1>5, <1>6, <1>7 DEF new

CancelledFor(n, why) == [book[n] EXCEPT !.status = "CANCELLED", !.reason = why]

BookWithout(n, why) == [book EXCEPT ![n] = CancelledFor(n, why)]

LEMMA Cancelled ==
    ASSUME OrderInv, NEW n \in DOMAIN book, NEW why \in Reasons, book[n].status = "CONFIRMED", FactsAssumption,
           NEW b, b = BookWithout(n, why)
    PROVE  /\ Grows(book, b) /\ b \in Seq(Snapshots) /\ TrueOf(CancelledFor(n, why), b)
           /\ \A k \in 1..Len(b) : b[k].number = k /\ (b[k].reason = Nil <=> b[k].status = "CONFIRMED")
<1> DEFINE r == CancelledFor(n, why)
<1>1. book \in Seq(Snapshots) /\ Len(book) \in Nat /\ n \in 1..Len(book) /\ why # Nil
  BY DEF OrderInv, FactsAssumption
<1>2. book[n] \in Snapshots /\ book[n].number = n /\ book[n].reason = Nil
  BY <1>1 DEF OrderInv
<1>3. r \in Snapshots /\ r.number = n /\ r.status = "CANCELLED" /\ r.reason = why
  BY <1>2 DEF Snapshots, CancelledFor
<1> HIDE DEF r
<1>e. b = [book EXCEPT ![n] = r]
  BY DEF r, BookWithout
<1>4. b \in Seq(Snapshots) /\ Len(b) = Len(book) /\ b[n] = r /\ \A k \in 1..Len(book) : k # n => b[k] = book[k]
  BY <1>1, <1>3, <1>e
<1>5. Grows(book, b)
  BY <1>1, <1>2, <1>4 DEF Grows
<1>6. TrueOf(r, b)
  BY <1>1, <1>3, <1>4 DEF TrueOf
<1>7. \A k \in 1..Len(b) : b[k].number = k /\ (b[k].reason = Nil <=> b[k].status = "CONFIRMED")
  <2> TAKE k \in 1..Len(b)
  <2>1. CASE k = n
    BY <1>1, <1>3, <1>4, <2>1
  <2>2. CASE k # n
    BY <1>4, <2>2 DEF OrderInv
  <2> QED
    BY <2>1, <2>2
<1> QED
  BY <1>4, <1>5, <1>6, <1>7 DEF r

\* What the snapshots make of an order: the last one, and of its reason what
\* one of them says, or the order had.
LEMMA MergedIs ==
    ASSUME NEW rs \in Seq(Snapshots), rs # <<>>, NEW old
    PROVE  LET m == Merged(old, rs) IN
           /\ Len(rs) \in 1..Len(rs)
           /\ m.number = rs[Len(rs)].number /\ m.status = rs[Len(rs)].status
           /\ rs[Len(rs)].reason # Nil => m = rs[Len(rs)]
           /\ m.reason = old.reason \/ \E i \in 1..Len(rs) : m.reason = rs[i].reason /\ rs[i].reason # Nil
           /\ old.reason \in Reasons \cup {Nil} => m \in Snapshots
<1> DEFINE given == {i \in DOMAIN rs : rs[i].reason # Nil}
           last == rs[Len(rs)]
           why == IF given = {} THEN old.reason ELSE rs[Max(given)].reason
           m == [last EXCEPT !.reason = why]
<1>1. Merged(old, rs) = m
  BY DEF Merged, Last
<1>2. Len(rs) \in 1..Len(rs) /\ Len(rs) \in Nat /\ DOMAIN rs = 1..Len(rs)
  OBVIOUS
<1>3. last \in Snapshots
  BY <1>2
<1>4. given # {} => Max(given) \in given /\ \A i \in given : i <= Max(given)
  <2>1. given \in SUBSET (0..Len(rs))
    BY <1>2
  <2> HIDE DEF given
  <2> QED
    BY <1>2, <2>1, GreatestOf
<1>5. why = old.reason \/ \E i \in 1..Len(rs) : why = rs[i].reason /\ rs[i].reason # Nil
  BY <1>2, <1>4
<1>6. last.reason # Nil => why = last.reason
  <2> SUFFICES ASSUME last.reason # Nil PROVE why = last.reason
    OBVIOUS
  <2>1. Len(rs) \in given
    BY <1>2
  <2>2. Max(given) \in 1..Len(rs) /\ Len(rs) <= Max(given)
    BY <1>4, <2>1
  <2>3. Max(given) = Len(rs)
    BY <1>2, <2>2
  <2> QED
    BY <2>1, <2>3
<1>7. old.reason \in Reasons \cup {Nil} => why \in Reasons \cup {Nil}
  <2>1. \A i \in 1..Len(rs) : rs[i].reason \in Reasons \cup {Nil}
    <3> TAKE i \in 1..Len(rs)
    <3>1. rs[i] \in Snapshots
      OBVIOUS
    <3> QED
      BY <3>1 DEF Snapshots
  <2> QED
    BY <1>5, <2>1
<1> HIDE DEF why, last
<1>8. m.number = last.number /\ m.status = last.status /\ m.reason = why
  BY <1>3 DEF Snapshots
<1>9. why = last.reason => m = last
  BY <1>3 DEF Snapshots
<1>10. why \in Reasons \cup {Nil} => m \in Snapshots
  BY <1>3 DEF Snapshots
<1> HIDE DEF m
<1> QED
  BY <1>1, <1>2, <1>5, <1>6, <1>7, <1>8, <1>9, <1>10 DEF last

LEMMA ReduceOrdersKeeps ==
    ASSUME OrderInv, NEW s \in Desks, ReduceOrders(s)
    PROVE  OrderInv'
<1> DEFINE rs == results[s]
           m == Merged(order[s], rs)
           last == rs[Len(rs)]
<1>1. /\ rs # <<>> /\ order' = [order EXCEPT ![s] = m]
      /\ reduced' = [reduced EXCEPT ![s] = reduced[s] \o rs]
      /\ results' = [results EXCEPT ![s] = <<>>] /\ book' = book
  BY DEF ReduceOrders
<1>2. /\ rs \in Seq(Snapshots) /\ reduced[s] \in Seq(Snapshots) /\ book \in Seq(Snapshots)
      /\ order[s] \in Snapshots \cup {NoOrder}
      /\ \A i \in 1..Len(rs) : TrueOf(rs[i], book)
      /\ OneOrder(order[s], reduced[s], book)
  BY DEF OrderInv
<1>n. NoOrder.reason = Nil
  BY DEF NoOrder
<1>3. order[s].reason \in Reasons \cup {Nil}
  <2>1. \A o \in Snapshots : o.reason \in Reasons \cup {Nil}
    BY DEF Snapshots
  <2>2. CASE order[s] \in Snapshots
    BY <2>1, <2>2
  <2>3. CASE order[s] = NoOrder
    BY <1>n, <2>3
  <2> QED
    BY <1>2, <2>2, <2>3
<1> HIDE DEF rs, m
<1>4. /\ Len(rs) \in 1..Len(rs)
      /\ m.number = last.number /\ m.status = last.status
      /\ last.reason # Nil => m = last
      /\ m.reason = order[s].reason \/ \E i \in 1..Len(rs) : m.reason = rs[i].reason /\ rs[i].reason # Nil
      /\ m \in Snapshots
  BY <1>1, <1>2, <1>3, MergedIs DEF m
<1>5. TrueOf(last, book)
  BY <1>2, <1>4
<1>6. /\ reduced[s] \o rs \in Seq(Snapshots) /\ reduced[s] \o rs # <<>>
      /\ (reduced[s] \o rs)[Len(reduced[s] \o rs)] = last
  BY <1>1, <1>2
<1> HIDE DEF last
<1>7. m.status = "CANCELLED" => book[m.number].status = "CANCELLED" /\ m.reason = book[m.number].reason
  <2> SUFFICES ASSUME last.status = "CANCELLED"
               PROVE  book[m.number].status = "CANCELLED" /\ m.reason = book[m.number].reason
    BY <1>4
  <2>1. last = book[last.number] /\ last.number \in 1..Len(book)
    BY <1>5 DEF TrueOf
  <2>2. last.reason # Nil
    BY <2>1 DEF OrderInv
  <2> QED
    BY <1>4, <2>1, <2>2
<1>8. m.reason # Nil => \E n \in 1..Len(book) : book[n].reason = m.reason
  <2> SUFFICES ASSUME m.reason # Nil PROVE \E n \in 1..Len(book) : book[n].reason = m.reason
    OBVIOUS
  <2>1. CASE m.reason = order[s].reason
    <3>1. order[s] # NoOrder
      BY <1>n, <2>1
    <3> QED
      BY <1>2, <2>1, <3>1 DEF OneOrder
  <2>2. CASE \E i \in 1..Len(rs) : m.reason = rs[i].reason /\ rs[i].reason # Nil
    <3>1. PICK i \in 1..Len(rs) : m.reason = rs[i].reason /\ rs[i].reason # Nil
      BY <2>2
    <3> QED
      BY <1>2, <3>1 DEF TrueOf
  <2> QED
    BY <1>4, <2>1, <2>2
<1>9. OneOrder(m, reduced[s] \o rs, book)
  BY <1>4, <1>5, <1>6, <1>7, <1>8 DEF OneOrder, TrueOf
<1>10. ASSUME NEW u \in Desks
       PROVE  /\ \A i \in 1..Len(results'[u]) : TrueOf(results'[u][i], book)
              /\ OneOrder(order'[u], reduced'[u], book)
  <2>1. CASE u = s
    <3>1. results'[u] = <<>> /\ order'[u] = m /\ reduced'[u] = reduced[s] \o rs
      BY <1>1, <2>1 DEF OrderInv
    <3> QED
      BY <1>9, <3>1
  <2>2. CASE u # s
    <3>1. results'[u] = results[u] /\ order'[u] = order[u] /\ reduced'[u] = reduced[u]
      BY <1>1, <2>2 DEF OrderInv
    <3> QED
      BY <3>1 DEF OrderInv
  <2> QED
    BY <2>1, <2>2
<1>11. /\ order' \in [Desks -> Snapshots \cup {NoOrder}] /\ results' \in [Desks -> Seq(Snapshots)]
       /\ reduced' \in [Desks -> Seq(Snapshots)]
  BY <1>1, <1>4, <1>6 DEF OrderInv
<1> QED
  BY <1>1, <1>10, <1>11 DEF OrderInv

LEMMA OrderStep ==
    FactsAssumption /\ OrderInv /\ [OrderNext]_orderVars => OrderInv'
<1> SUFFICES ASSUME FactsAssumption, OrderInv, [OrderNext]_orderVars PROVE OrderInv'
  OBVIOUS
<1>0. book \in Seq(Snapshots) /\ Len(book) \in Nat /\ DOMAIN book = 1..Len(book)
  BY DEF OrderInv
<1>1. ASSUME NEW s \in Desks, CreateOrder(s) PROVE OrderInv'
  <2>1. /\ Len(book) < MaxOrders /\ book' = Append(book, Confirmed(Len(book) + 1))
        /\ Called(s, Confirmed(Len(book) + 1))
    BY <1>1 DEF CreateOrder, Confirmed
  <2> QED
    BY <2>1, Placed, CalledKeeps
<1>2. ASSUME NEW s \in Desks, NEW n \in DOMAIN book, QueryOrder(s, n) PROVE OrderInv'
  <2>1. Called(s, book[n]) /\ book' = book
    BY <1>2 DEF QueryOrder
  <2>2. Grows(book, book')
    BY <1>0, <2>1 DEF Grows
  <2>3. TrueOf(book[n], book')
    <3>1. book[n] \in Snapshots /\ book[n].number = n /\ (book[n].reason = Nil <=> book[n].status = "CONFIRMED")
      BY <1>0 DEF OrderInv
    <3> QED
      BY <1>0, <2>1, <3>1 DEF TrueOf, Snapshots
  <2> QED
    BY <2>1, <2>2, <2>3, CalledKeeps DEF OrderInv
<1>3. ASSUME NEW s \in Desks, NEW n \in DOMAIN book, NEW why \in Reasons, CancelOrder(s, n, why) PROVE OrderInv'
  <2> DEFINE r == CancelledFor(n, why)
  <2>1. book[n].status = "CONFIRMED" /\ book' = BookWithout(n, why) /\ Called(s, r)
    BY <1>3 DEF CancelOrder, CancelledFor, BookWithout
  <2>2. /\ Grows(book, book') /\ book' \in Seq(Snapshots) /\ TrueOf(r, book')
        /\ \A k \in 1..Len(book') : book'[k].number = k /\ (book'[k].reason = Nil <=> book'[k].status = "CONFIRMED")
    BY <2>1, Cancelled
  <2> HIDE DEF r
  <2> QED
    BY <2>1, <2>2, CalledKeeps
<1>4. ASSUME NEW s \in Desks, TimesOut(s) PROVE OrderInv'
  <2>1. /\ Grows(book, book') /\ book' \in Seq(Snapshots)
        /\ \A k \in 1..Len(book') : book'[k].number = k /\ (book'[k].reason = Nil <=> book'[k].status = "CONFIRMED")
    <3>1. CASE Len(book) < MaxOrders /\ book' = Append(book, Confirmed(Len(book) + 1))
      BY <3>1, Placed
    <3>2. ASSUME NEW n \in DOMAIN book, NEW why \in Reasons, book[n].status = "CONFIRMED",
                 book' = [book EXCEPT ![n].status = "CANCELLED", ![n].reason = why]
          PROVE  /\ Grows(book, book') /\ book' \in Seq(Snapshots)
                 /\ \A k \in 1..Len(book') : book'[k].number = k /\ (book'[k].reason = Nil <=> book'[k].status = "CONFIRMED")
      <4>1. book' = BookWithout(n, why)
        BY <1>0, <3>2 DEF CancelledFor, BookWithout
      <4>2. book[n].status = "CONFIRMED"
        BY <3>2
      <4> QED
        BY <4>1, <4>2, Cancelled
    <3> QED
      BY <1>4, <3>1, <3>2 DEF TimesOut, Confirmed
  <2>2. order' = order /\ results' = results /\ reduced' = reduced
    BY <1>4 DEF TimesOut
  <2>3. \A u \in Desks : /\ \A i \in 1..Len(results[u]) : TrueOf(results[u][i], book')
                         /\ OneOrder(order[u], reduced[u], book')
    BY <2>1, GrowsKeeps DEF OrderInv
  <2> QED
    BY <2>1, <2>2, <2>3 DEF OrderInv
<1>5. CASE UNCHANGED orderVars
  BY <1>5 DEF orderVars, OrderInv
<1> QED
  BY <1>1, <1>2, <1>3, <1>4, <1>5, ReduceOrdersKeeps DEF OrderNext

THEOREM OrderInvariant == OrderSpec => []OrderInv
<1>1. OrderInit => OrderInv
  BY DEF OrderInit, OrderInv, OneOrder
<1>2. OrderInv /\ [OrderNext]_orderVars => OrderInv'
  BY OrderStep, FactsAssumption
<1> QED
  BY <1>1, <1>2, PTL DEF OrderSpec

\* The facts of a session are true of its recommendations and its order.
THEOREM FactsTrue == ContextSpec /\ OrderSpec => []FactsAreTrue
<1>1. OrderInv => OrderIsOne
  BY DEF OrderInv, OneOrder, OrderIsOne, Last
<1>2. MemoryIsTrue /\ OrderIsOne => FactsAreTrue
  BY DEF FactsAreTrue
<1> QED
  BY MemoryTrue, OrderInvariant, <1>1, <1>2, PTL
=============================================================================
