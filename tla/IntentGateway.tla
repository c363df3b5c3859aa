---------------------------- MODULE IntentGateway ----------------------------
(***************************************************************************)
(* The API process in front of the task queue: _enqueue() with its         *)
(* idempotency key and _queue_priority(), _await_result(), and the event   *)
(* bus that brings final.result back from the workers                      *)
(* (app/presentation/server.py, app/infrastructure/eventbus.py), composed  *)
(* with the streams and workers of TaskStream.                             *)
(*                                                                         *)
(* A request draws a fresh task id, so the task it may submit is named     *)
(* like the request: Entries are the requests.  Every await of the handler *)
(* ends an action.  Redis calls through RedisCache swallow their errors,   *)
(* calls through the queue raise and end the request with HTTP 500.        *)
(***************************************************************************)
EXTENDS TaskStream

CONSTANTS
    SessionOf,   \* SessionOf[r]: shopping_session_id of request r
    QueryOf,     \* QueryOf[r]: raw_query of request r
    LargeTurns,  \* QUEUE_LARGE_REQUEST_TURNS
    MaxMishaps,  \* bound: failed calls, lost events, expiries, API crashes
    None

ASSUME GatewayAssumption ==
    /\ None \notin Entries
    /\ LargeTurns \in Nat
    /\ MaxMishaps \in Nat

VARIABLES
    place,      \* place[r]: where the request handler is
    task,       \* task[r]: the task id the request was answered with
    idem,       \* idem[k]: the idempotency key of session and query k
    seen,       \* seen[r]: the turn count the request computed
    turns,      \* turns[s]: the turn counter of session s
    inbox,      \* inbox[r]: first final.result in the request's queue
    delivered,  \* final.result events that reached the API process or are gone
    answer,     \* answer[r]: what the waiting client got
    keyLost,    \* keys that expired or whose command failed (history)
    mishaps     \* failures on the API side so far

gateVars == <<place, task, idem, seen, turns, inbox, delivered, answer, keyLost, mishaps>>
vars     == <<streamVars, gateVars>>

Key(r)   == <<SessionOf[r], QueryOf[r]>>
TaskKeys == {Key(r) : r \in Entries}
Sessions == {SessionOf[r] : r \in Entries}
Places   == {"idle", "lookup", "price", "count", "submit", "mark", "reply",
             "waiting", "replied", "aborted"}
Answers  == [by : {"event", "status", "failed"}, task : Entries]
            \cup [by : {"timeout", "accepted"}]

GateTypeOK ==
    /\ place \in [Entries -> Places]
    /\ task \in [Entries -> Entries \cup {None}]
    /\ idem \in [TaskKeys -> Entries \cup {None}]
    /\ seen \in [Entries -> Nat]
    /\ turns \in [Sessions -> Nat]
    /\ inbox \in [Entries -> Entries \cup {None}]
    /\ delivered \subseteq Entries
    /\ answer \in [Entries -> Answers \cup {None}]
    /\ keyLost \subseteq TaskKeys
    /\ mishaps \in 0..MaxMishaps

GateInit ==
    /\ place = [r \in Entries |-> "idle"]
    /\ task = [r \in Entries |-> None]
    /\ idem = [k \in TaskKeys |-> None]
    /\ seen = [r \in Entries |-> 0]
    /\ turns = [s \in Sessions |-> 0]
    /\ inbox = [r \in Entries |-> None]
    /\ delivered = {}
    /\ answer = [r \in Entries |-> None]
    /\ keyLost = {}
    /\ mishaps = 0

MoveTo(r, from, to) == place[r] = from /\ place' = [place EXCEPT ![r] = to]
Mishap == mishaps < MaxMishaps /\ mishaps' = mishaps + 1
Clean  == UNCHANGED <<keyLost, mishaps>>
Lose(k) == keyLost' = keyLost \cup {k}

----------------------------------------------------------------------------
(* _enqueue() *)

\* Mutant: SET without NX, every request believes it has the key.
ClaimWithoutNX(r) ==
    /\ MoveTo(r, "idle", "price") /\ idem' = [idem EXCEPT ![Key(r)] = r]
    /\ UNCHANGED <<streamVars, task, seen, turns, inbox, delivered, answer>> /\ Clean

\* SET NX of the idempotency key.
Claim(r) ==
    /\ IF idem[Key(r)] = None
         THEN MoveTo(r, "idle", "price") /\ idem' = [idem EXCEPT ![Key(r)] = r]
         ELSE MoveTo(r, "idle", "lookup") /\ UNCHANGED idem
    /\ UNCHANGED <<streamVars, task, seen, turns, inbox, delivered, answer>> /\ Clean

\* set_if_absent() answers TRUE when Redis raises.
ClaimFails(r) ==
    /\ MoveTo(r, "idle", "price")
    /\ \/ idem[Key(r)] = None /\ idem' = [idem EXCEPT ![Key(r)] = r]
       \/ UNCHANGED idem
    /\ Mishap /\ Lose(Key(r))
    /\ UNCHANGED <<streamVars, task, seen, turns, inbox, delivered, answer>>

\* The key is taken: answer with the task it names.
Reuse(r) ==
    /\ idem[Key(r)] # None
    /\ MoveTo(r, "lookup", "reply")
    /\ task' = [task EXCEPT ![r] = idem[Key(r)]]
    /\ UNCHANGED <<streamVars, idem, seen, turns, inbox, delivered, answer>> /\ Clean

\* The key expired between the two calls, or GET failed: submit after all.
FallThrough(r) ==
    /\ MoveTo(r, "lookup", "price")
    /\ \/ idem[Key(r)] = None /\ Clean
       \/ Mishap /\ Lose(Key(r))
    /\ UNCHANGED <<streamVars, task, idem, seen, turns, inbox, delivered, answer>>

ExpireKey(k) ==
    /\ idem[k] # None
    /\ idem' = [idem EXCEPT ![k] = None]
    /\ Mishap /\ Lose(k)
    /\ UNCHANGED <<streamVars, place, task, seen, turns, inbox, delivered, answer>>

\* _queue_priority(): GET of the turn counter; a failed GET counts from 0.
ReadTurns(r) ==
    /\ MoveTo(r, "price", "count")
    /\ \/ seen' = [seen EXCEPT ![r] = turns[SessionOf[r]] + 1] /\ UNCHANGED mishaps
       \/ seen' = [seen EXCEPT ![r] = 1] /\ Mishap
    /\ UNCHANGED <<streamVars, task, idem, turns, inbox, delivered, answer, keyLost>>

\* SET of the turn counter; a failed SET is skipped.
WriteTurns(r) ==
    /\ MoveTo(r, "count", "submit")
    /\ \/ turns' = [turns EXCEPT ![SessionOf[r]] = seen[r]] /\ UNCHANGED mishaps
       \/ UNCHANGED turns /\ Mishap
    /\ UNCHANGED <<streamVars, task, idem, seen, inbox, delivered, answer, keyLost>>

LaneOf(r) == IF seen[r] >= LargeTurns THEN "large" ELSE "normal"

Submit(r) ==
    /\ MoveTo(r, "submit", "mark")
    /\ Enqueue(r, LaneOf(r))
    /\ UNCHANGED <<task, idem, seen, turns, inbox, delivered, answer>> /\ Clean

\* XADD raised: HTTP 500; the entry may be in the stream all the same.
SubmitFails(r) ==
    /\ MoveTo(r, "submit", "aborted")
    /\ Enqueue(r, LaneOf(r)) \/ UNCHANGED streamVars
    /\ Mishap
    /\ UNCHANGED <<task, idem, seen, turns, inbox, delivered, answer, keyLost>>

Mark(r) ==
    /\ MoveTo(r, "mark", "reply")
    /\ MarkQueued(r)
    /\ task' = [task EXCEPT ![r] = r]
    /\ UNCHANGED <<idem, seen, turns, inbox, delivered, answer>> /\ Clean

MarkFails(r) ==
    /\ MoveTo(r, "mark", "aborted")
    /\ MarkQueued(r) \/ UNCHANGED streamVars
    /\ Mishap
    /\ UNCHANGED <<task, idem, seen, turns, inbox, delivered, answer, keyLost>>

----------------------------------------------------------------------------
(* The reply: at once for the async endpoint, _await_result() otherwise. *)

Respond(r, from, a) ==
    /\ MoveTo(r, from, "replied")
    /\ answer' = [answer EXCEPT ![r] = a]
    /\ UNCHANGED <<streamVars, task, idem, seen, turns, inbox, delivered>> /\ Clean

AcceptAsync(r) == Respond(r, "reply", [by |-> "accepted"])

\* The subscription starts only now, after the task is in the stream.
Subscribe(r) ==
    /\ MoveTo(r, "reply", "waiting")
    /\ UNCHANGED <<streamVars, task, idem, seen, turns, inbox, delivered, answer>>
    /\ Clean

Hears(r, t) == place[r] = "waiting" /\ inbox[r] = None /\ SessionOf[r] = SessionOf[t]

\* The backplane's listener hands a worker's final.result to every local
\* subscriber of the session; _await_result() looks at the first only.
DeliverResult(t) ==
    /\ t \in published \ delivered
    /\ delivered' = delivered \cup {t}
    /\ inbox' = [r \in Entries |-> IF Hears(r, t) THEN t ELSE inbox[r]]
    /\ UNCHANGED <<streamVars, place, task, idem, seen, turns, answer>> /\ Clean

\* Pub/Sub keeps nothing: a failed PUBLISH or a dead listener loses it.
LoseResult(t) ==
    /\ t \in published \ delivered
    /\ delivered' = delivered \cup {t}
    /\ Mishap
    /\ UNCHANGED <<streamVars, place, task, idem, seen, turns, inbox, answer, keyLost>>

AnswerFromEvent(r) ==
    /\ inbox[r] # None
    /\ Respond(r, "waiting", [by |-> "event", task |-> inbox[r]])

\* Mutant: the poll only looks for failures and trusts the event otherwise.
AnswerFromFailure(r) ==
    /\ inbox[r] = None /\ task[r] # None
    /\ status[task[r]] = "failed"
    /\ Respond(r, "waiting", [by |-> "failed", task |-> task[r]])

\* No event for two seconds: ask for the status.
AnswerFromStatus(r) ==
    /\ inbox[r] = None /\ task[r] # None
    /\ \/ /\ status[task[r]] = "done"
          /\ Respond(r, "waiting", [by |-> "status", task |-> task[r]])
       \/ /\ status[task[r]] = "failed"
          /\ Respond(r, "waiting", [by |-> "failed", task |-> task[r]])

AnswerTimeout(r) == Respond(r, "waiting", [by |-> "timeout"])

\* GET of the status raised: HTTP 500.
PollFails(r) ==
    /\ MoveTo(r, "waiting", "aborted")
    /\ inbox[r] = None
    /\ Mishap
    /\ UNCHANGED <<streamVars, task, idem, seen, turns, inbox, delivered, answer, keyLost>>

\* The API process dies with every request it is serving.
ApiCrash ==
    /\ \E r \in Entries : place[r] \notin {"idle", "replied", "aborted"}
    /\ place' = [r \in Entries |-> IF place[r] \in {"idle", "replied"} THEN place[r] ELSE "aborted"]
    /\ Mishap
    /\ UNCHANGED <<streamVars, task, idem, seen, turns, inbox, delivered, answer, keyLost>>

----------------------------------------------------------------------------
Request(r) ==
    \/ Reuse(r) \/ FallThrough(r) \/ ReadTurns(r) \/ WriteTurns(r)
    \/ Submit(r) \/ Mark(r)
    \/ AnswerFromEvent(r) \/ AnswerFromStatus(r)

RequestFails(r) ==
    \/ ClaimFails(r) \/ SubmitFails(r) \/ MarkFails(r) \/ PollFails(r)

Client(r) == Claim(r) \/ AcceptAsync(r) \/ Subscribe(r) \/ AnswerTimeout(r)

GateNext ==
    \/ WorkerNext /\ UNCHANGED gateVars
    \/ \E r \in Entries : Request(r) \/ RequestFails(r) \/ Client(r)
    \/ \E t \in Entries : DeliverResult(t) \/ LoseResult(t)
    \/ \E k \in TaskKeys : ExpireKey(k)
    \/ ApiCrash

GateSpec == StreamInit /\ GateInit /\ [][GateNext]_vars

(***************************************************************************)
(* The API's event loop and the backplane's listener keep running.  The    *)
(* deadline of _await_result() is left out: a waiting request may time     *)
(* out at any moment and is never owed a time-out.                         *)
(***************************************************************************)
GateFairness ==
    /\ \A w \in Workers : WF_vars(Loop(w) /\ UNCHANGED gateVars)
                          /\ WF_vars(Start(w) /\ UNCHANGED gateVars)
    /\ \A e \in Entries : WF_vars(Handle(e) /\ UNCHANGED gateVars)
    /\ \A r \in Entries : WF_vars(Request(r)) /\ WF_vars(DeliverResult(r))

FairGateSpec == GateSpec /\ GateFairness

----------------------------------------------------------------------------
(* Properties. *)

\* A buyer who submits twice does not order twice: as long as the key neither
\* expires nor fails, at most one request of a session and query puts a task
\* into the streams.
OneTaskPerKey ==
    \A q, r \in Entries :
        /\ q \in Appended /\ r \in Appended
        /\ Key(q) = Key(r) /\ Key(r) \notin keyLost
        => q = r

\* The inductive strengthening of OneTaskPerKey: while its key is intact, a
\* request on its way to the stream, or through, is the one the key names, and
\* a request that found the key taken still finds it taken.
KeyInv ==
    \A r \in Entries : Key(r) \notin keyLost =>
        /\ r \in Appended \/ place[r] \in {"price", "count", "submit"} => idem[Key(r)] = r
        /\ place[r] = "lookup" => idem[Key(r)] # None

\* Once a worker's status has replaced "queued", a waiting request gets an
\* answer without its deadline, also when it subscribed too late to hear
\* final.result: the poll finds "done".
RunningTaskIsAnswered ==
    \A r \in Entries :
        (/\ place[r] = "waiting" /\ task[r] \in Entries
         /\ place[task[r]] \in {"reply", "waiting", "replied"}
         /\ status[task[r]] \in {"running", "done", "failed"})
        ~> (place[r] # "waiting" \/ mishaps > 0 \/ faults > 0 \/ crashes > 0)

=============================================================================
