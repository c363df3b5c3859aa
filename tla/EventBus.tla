------------------------------ MODULE EventBus ------------------------------
(***************************************************************************)
(* How the replies of one session reach its buyer's page                   *)
(* (app/infrastructure/eventbus.py, its backplane in                       *)
(* redis_stream_queue.py, app/presentation/connection.py, server.py,       *)
(* frontend/src/App.tsx).  A worker's events are broadcast over Redis, one *)
(* task and connection each, and the listener of the API process hands     *)
(* them to its subscribers: the page's socket and the requests that wait.  *)
(* A reply so comes to the page twice, by the socket and as the response   *)
(* of the request, in any order, or only once, or late.                    *)
(*                                                                         *)
(* A question stands for its request and its task.  Of its turn only the  *)
(* end is told; streams, statuses and the reuse of tasks are in            *)
(* IntentGateway.                                                          *)
(***************************************************************************)
EXTENDS Integers, Sequences, SequencesExt, Functions

CONSTANTS
    MaxAsked,    \* bound: questions the buyer asks
    MaxTroubles  \* bound: failures of connections and processes, odd ends of turns

ASSUME BusAssumption == MaxAsked \in Nat /\ MaxTroubles \in Nat

VARIABLES
    request,    \* request[q]: where its handler in the API process is
    inbox,      \* inbox[q]: the first final.result its subscription heard, or Silence
    response,   \* response[q]: what the API process answered, or Silence
    work,       \* work[q]: where the task is
    good,       \* good[q]: its turn ends with a reply, not with an error
    air,        \* the broadcasts under way
    listening,  \* the API process runs its listener
    socket,     \* the page's socket is subscribed
    wire,       \* the events in the socket's queue
    asked,      \* questions asked so far
    busy,       \* the page waits for a response
    signature,  \* finalSignatureRef
    completed,  \* requestCompletedRef
    replies,    \* replies[q]: the replies shown below the question
    timeline,   \* timeline[e]: how often another event is shown
    hurried,    \* history: a question was asked before all of an earlier one was over
    troubles

serverVars == <<request, inbox, response, work, good, air, listening>>
pageVars   == <<asked, busy, signature, completed, replies, timeline, hurried>>
busVars    == <<serverVars, pageVars, socket, wire, troubles>>

Questions == 1..MaxAsked
Texts     == [kind : {"reply", "failed", "timeout", "lost"}, of : Questions]
Silence   == [kind |-> "", of |-> 0]
Events    == [kind : {"task.queued", "final.result", "error"}, of : Questions]
Event(kind, q) == [kind |-> kind, of |-> q]
Text(kind, q)  == [kind |-> kind, of |-> q]

BusTypeOK ==
    /\ request \in [Questions -> {"none", "sent", "enqueued", "waiting", "over"}]
    /\ inbox \in [Questions -> Texts \cup {Silence}]
    /\ response \in [Questions -> Texts \cup {Silence}]
    /\ work \in [Questions -> {"none", "queued", "ended", "done", "gone"}]
    /\ good \in [Questions -> BOOLEAN]
    /\ air \subseteq Events /\ listening \in BOOLEAN
    /\ socket \in BOOLEAN /\ wire \in Seq(Events)
    /\ asked \in 0..MaxAsked /\ busy \in BOOLEAN
    /\ signature \in Texts \cup {Silence} /\ completed \in BOOLEAN
    /\ replies \in [Questions -> Seq(Texts)] /\ timeline \in [Events -> Nat]
    /\ hurried \in BOOLEAN /\ troubles \in 0..MaxTroubles

BusInit ==
    /\ request = [q \in Questions |-> "none"]
    /\ inbox = [q \in Questions |-> Silence] /\ response = [q \in Questions |-> Silence]
    /\ work = [q \in Questions |-> "none"] /\ good = [q \in Questions |-> TRUE]
    /\ air = {} /\ listening = TRUE
    /\ socket = TRUE /\ wire = <<>>
    /\ asked = 0 /\ busy = FALSE
    /\ signature = Silence /\ completed = FALSE
    /\ replies = [q \in Questions |-> <<>>] /\ timeline = [e \in Events |-> 0]
    /\ hurried = FALSE /\ troubles = 0

Trouble == troubles < MaxTroubles /\ troubles' = troubles + 1

----------------------------------------------------------------------------
(* The bus of the API process and its backplane. *)

\* deliver_local(): every subscriber of the session gets the event; a request
\* that waits looks for final.result only.
DeliverLocal(e) ==
    /\ wire' = IF socket THEN Append(wire, e) ELSE wire
    /\ inbox' = [q \in Questions |->
                   IF request[q] = "waiting" /\ inbox[q] = Silence /\ e.kind = "final.result"
                     THEN Text("reply", e.of) ELSE inbox[q]]

\* Pub/Sub keeps nothing for a listener that is not there.
Broadcast(events) == air' = IF listening THEN air \cup events ELSE air

\* The listener passes on what other processes sent, in any order.
Forward(e) ==
    /\ e \in air
    /\ air' = air \ {e}
    /\ IF e.kind = "task.queued" THEN UNCHANGED <<wire, inbox>> ELSE DeliverLocal(e)
    /\ UNCHANGED <<request, response, work, good, listening, socket, pageVars, troubles>>

\* A PUBLISH that fails is not tried again.
Vanish(e) ==
    /\ e \in air /\ air' = air \ {e} /\ Trouble
    /\ UNCHANGED <<request, inbox, response, work, good, listening, socket, wire, pageVars>>

\* An error of the listener ends it for good.
ListenerEnds ==
    /\ listening /\ listening' = FALSE /\ air' = {} /\ Trouble
    /\ UNCHANGED <<request, inbox, response, work, good, socket, wire, pageVars>>

----------------------------------------------------------------------------
(* The API process: submit_intent(), _await_result(). *)

Enqueue(q) ==
    /\ request[q] = "sent" /\ request' = [request EXCEPT ![q] = "enqueued"]
    /\ work' = [work EXCEPT ![q] = "queued"]
    /\ UNCHANGED <<inbox, response, good, air, listening, socket, wire, pageVars, troubles>>

\* The task may have ended before the request subscribes.
Await(q) ==
    /\ request[q] = "enqueued" /\ request' = [request EXCEPT ![q] = "waiting"]
    /\ DeliverLocal(Event("task.queued", q))
    /\ Broadcast({Event("task.queued", q)})
    /\ UNCHANGED <<response, work, good, listening, socket, pageVars, troubles>>

Respond(q, text) ==
    /\ request[q] = "waiting" /\ request' = [request EXCEPT ![q] = "over"]
    /\ response' = [response EXCEPT ![q] = text]
    /\ UNCHANGED <<inbox, work, good, air, listening, socket, wire, pageVars, troubles>>

\* The first final.result of the session is the answer, or the task's status,
\* which is asked for while an event may come.  The deadline may pass at any
\* time, too, with the event behind others in the subscription.
AnswerRequest(q) ==
    \/ inbox[q] # Silence /\ Respond(q, inbox[q])
    \/ work[q] = "done" /\ Respond(q, Text(IF good[q] THEN "reply" ELSE "failed", q))
    \/ Respond(q, Text("timeout", q))

\* The API process is started anew, with another listener and no requests.
ApiRestart ==
    /\ Trouble
    /\ request' = [q \in Questions |-> IF request[q] = "none" THEN "none" ELSE "over"]
    /\ inbox' = [q \in Questions |-> Silence] /\ response' = [q \in Questions |-> Silence]
    /\ listening' = TRUE /\ air' = {} /\ socket' = FALSE /\ wire' = <<>>
    /\ UNCHANGED <<work, good, pageVars>>

----------------------------------------------------------------------------
(* A worker: the turn's events, then the status. *)

Turn(q, from, to, events) ==
    /\ work[q] = from /\ work' = [work EXCEPT ![q] = to]
    /\ Broadcast(events)
    /\ UNCHANGED <<request, inbox, response, listening, socket, wire, pageVars>>

\* A turn replies with final.result or publishes an error.  With a trouble it
\* does both, interrupted or failing after its reply, or fails with nothing
\* published; or the status of a good reply cannot be set.
Conclude(q) ==
    \/ /\ Turn(q, "queued", "ended", {Event("final.result", q)})
       /\ UNCHANGED <<good, troubles>>
    \/ /\ Turn(q, "queued", "ended", {Event("error", q)})
       /\ good' = [good EXCEPT ![q] = FALSE] /\ UNCHANGED troubles
    \/ /\ \E events \in SUBSET {Event("final.result", q), Event("error", q)} :
             /\ Turn(q, "queued", "ended", events)
             /\ \/ Event("final.result", q) \in events /\ UNCHANGED good
                \/ good' = [good EXCEPT ![q] = FALSE]
       /\ Trouble

MarkDone(q) == Turn(q, "ended", "done", {}) /\ UNCHANGED <<good, troubles>>

\* Nobody takes over what a dead worker left.
WorkerDies(q) ==
    /\ \E from \in {"queued", "ended"} : Turn(q, from, "gone", {})
    /\ Trouble /\ UNCHANGED good

----------------------------------------------------------------------------
(* The page: App.tsx. *)

\* Mutant: whatever comes is shown.
ApplyEveryFinal(text) ==
    /\ signature' = text /\ completed' = TRUE
    /\ replies' = [replies EXCEPT ![asked] = Append(@, text)]

\* applyFinal(): the reply shown last is not shown again.
ApplyFinal(text) ==
    IF text = signature THEN UNCHANGED <<signature, completed, replies>>
    ELSE /\ signature' = text /\ completed' = TRUE
         /\ replies' = [replies EXCEPT ![asked] = Append(@, text)]

\* Something of a question is still to come.
Underway(q) ==
    \/ request[q] \in {"sent", "enqueued", "waiting"}
    \/ work[q] \in {"queued", "ended"}
    \/ \E e \in air \cup ToSet(wire) : e.of = q

\* submit()
Ask ==
    /\ ~busy /\ asked < MaxAsked
    /\ asked' = asked + 1 /\ busy' = TRUE
    /\ signature' = Silence /\ completed' = FALSE
    /\ hurried' = (hurried \/ \E q \in 1..asked : Underway(q))
    /\ request' = [request EXCEPT ![asked + 1] = "sent"]
    /\ UNCHANGED <<inbox, response, work, good, air, listening, socket, wire, replies,
                   timeline, troubles>>

ResponseArrives ==
    /\ busy /\ response[asked] # Silence
    /\ ApplyFinal(response[asked]) /\ busy' = FALSE
    /\ UNCHANGED <<serverVars, socket, wire, asked, timeline, hurried, troubles>>

\* The request fails, on its way or with the process that served it; an error
\* is shown unless a reply has been.
FetchFails ==
    /\ busy
    /\ IF request[asked] = "over" /\ response[asked] = Silence THEN UNCHANGED troubles ELSE Trouble
    /\ IF completed THEN UNCHANGED <<signature, completed, replies>>
       ELSE ApplyFinal(Text("lost", asked))
    /\ busy' = FALSE
    /\ UNCHANGED <<serverVars, socket, wire, asked, timeline, hurried>>

\* onmessage
MessageArrives ==
    /\ wire # <<>> /\ wire' = Tail(wire)
    /\ LET e == Head(wire) IN
       \/ e.kind = "final.result" /\ ApplyFinal(Text("reply", e.of)) /\ UNCHANGED timeline
       \/ e.kind # "final.result" /\ timeline' = [timeline EXCEPT ![e] = @ + 1]
          /\ UNCHANGED <<signature, completed, replies>>
    /\ UNCHANGED <<serverVars, socket, asked, busy, hurried, troubles>>

SocketBreaks ==
    /\ socket /\ socket' = FALSE /\ wire' = <<>> /\ Trouble
    /\ UNCHANGED <<serverVars, pageVars>>

\* The page connects again; what was published meanwhile is not sent again.
Connect ==
    /\ ~socket /\ socket' = TRUE
    /\ UNCHANGED <<serverVars, pageVars, wire, troubles>>

----------------------------------------------------------------------------
BusNext ==
    \/ \E e \in air : Forward(e) \/ Vanish(e)
    \/ \E q \in Questions : \/ Enqueue(q) \/ Await(q) \/ AnswerRequest(q)
                            \/ Conclude(q) \/ MarkDone(q) \/ WorkerDies(q)
    \/ Ask \/ ResponseArrives \/ FetchFails \/ MessageArrives \/ SocketBreaks \/ Connect
    \/ ListenerEnds \/ ApiRestart

BusSpec == BusInit /\ [][BusNext]_busVars

----------------------------------------------------------------------------
(* Properties. *)

\* What the buyer sees of a question once nothing of an earlier one was still
\* to come when it was asked: replies of its own task, none of them twice, and
\* no failed request below an answer, whichever of the two ways they came.
ShownIsOwn ==
    ~hurried => \A q \in 1..asked :
        /\ \A i \in DOMAIN replies[q] : replies[q][i].of = q
        /\ IsInjective(replies[q])
        /\ \A i, j \in DOMAIN replies[q] :
              i < j /\ replies[q][i].kind # "timeout" => replies[q][j].kind # "lost"

\* Every question is answered below it before the next can be asked, and no
\* event is shown twice although a process hears its own broadcasts.
NothingTwice ==
    /\ \A q \in 1..asked : q < asked \/ ~busy => replies[q] # <<>>
    /\ \A e \in Events : timeline[e] <= 1

ScreenIsTrue == ShownIsOwn /\ NothingTwice

\* The inductive invariant.  An event comes to the page once at most, and never
\* before what it tells of has happened.
ComesOnce ==
    /\ IsInjective(wire)
    /\ \A e \in Events : timeline[e] <= 1
    /\ \A e \in ToSet(wire) \cup {a \in air : a.kind # "task.queued"} : timeline[e] = 0
    /\ \A e \in ToSet(wire) \cap air : e.kind = "task.queued"
    /\ \A e \in ToSet(wire) \cup air \cup {e \in Events : timeline[e] > 0} :
         IF e.kind = "task.queued" THEN request[e.of] \notin {"none", "sent", "enqueued"}
                                   ELSE work[e.of] \notin {"none", "queued"}

\* Nothing happens for a question before it is asked, or enqueued.
NotYetAsked ==
    /\ \A q \in Questions : request[q] \in {"none", "sent"} => work[q] = "none"
    /\ \A q \in Questions : q > asked =>
         /\ request[q] = "none"
         /\ inbox[q] = Silence /\ response[q] = Silence /\ replies[q] = <<>>
    /\ \A e \in ToSet(wire) \cup air : e.of <= asked

\* The page notes what it shows.
Noted ==
    /\ busy => asked \in Questions
    /\ completed => signature # Silence
    /\ signature # Silence => asked \in Questions /\ replies[asked] # <<>>

\* The reply to the question asked last may still come over the socket.
Coming ==
    work[asked] \in {"none", "queued"} \/ Event("final.result", asked) \in air \cup ToSet(wire)

\* What has come for the question asked last, nothing of another being under
\* way: by the socket its reply, once; by the response one text.
OneAtATime ==
    /\ \A q \in Questions : q < asked => ~Underway(q)
    /\ asked \in Questions =>
         /\ inbox[asked] \in {Silence, Text("reply", asked)}
         /\ response[asked].of \in {0, asked} /\ response[asked].kind # "lost"
         /\ signature = Silence <=> replies[asked] = <<>>
         /\ replies[asked] # <<>> => completed
         /\ busy /\ Coming => replies[asked] = <<>>
         /\ \A i \in DOMAIN replies[asked] :
              /\ busy => replies[asked][i] = signature /\ signature = Text("reply", asked)
              /\ Coming => replies[asked][i] = signature

ScreenInv ==
    BusTypeOK /\ ComesOnce /\ NotYetAsked /\ Noted /\ ScreenIsTrue /\ (~hurried => OneAtATime)
=============================================================================
