----------------------------- MODULE TaskStream -----------------------------
(***************************************************************************)
(* The intent task queue: the two Redis Streams with their consumer group, *)
(* the dead-letter stream and the task statuses                            *)
(* (app/infrastructure/queue/redis_stream_queue.py), and the worker        *)
(* processes that run consume() over them with the handler of              *)
(* app/worker.py.                                                          *)
(*                                                                         *)
(* A stream entry is identified with the task it carries.  One action is   *)
(* the code between two awaits.  A call to Redis may fail, and a failed    *)
(* call may or may not have taken effect on the server; a worker process   *)
(* may crash at any point.  MaxSetbacks bounds how often.                  *)
(***************************************************************************)
EXTENDS Integers, Sequences, FiniteSets

CONSTANTS
    Entries,        \* everything ever appended to the two streams
    Garbled,        \* entries whose payload IntentTask.from_dict rejects
    Blank,          \* entries without a payload field
    Workers,        \* worker processes (a restart reuses the identity)
    Concurrency,    \* WORKER_CONCURRENCY
    Limits,         \* values of max_deliveries of consume(), 3 by default
    MaxSetbacks     \* bound: Redis calls that fail on the worker side, worker
                    \* crashes and stop signals, together

ASSUME StreamAssumption ==
    /\ IsFiniteSet(Entries)
    /\ Garbled \subseteq Entries
    /\ Blank \subseteq Entries
    /\ Garbled \cap Blank = {}
    /\ Concurrency \in Nat \ {0}
    /\ Limits \subseteq Nat \ {0}
    /\ MaxSetbacks \in Nat

VARIABLES
    log,         \* log[l]: the entries of stream l, in order of XADD
    cursor,      \* cursor[l]: how many of them the group has been given
    pending,     \* the group's pending entries list (given, not acked)
    acked,       \* entries acknowledged with XACK
    dead,        \* entries copied to the dead-letter stream
    deliveries,  \* deliveries[e]: times_delivered of XPENDING
    status,      \* status[e]: the state under crossshop:task:<id>
    published,   \* tasks whose final.result event was published
    runs,        \* runs[e]: how often the orchestrator was started on e
    returned,    \* tasks whose handler returned (history)
    step,        \* step[e]: where _handle_one is with entry e
    loop,        \* loop[w]: where consume() is on worker w
    stopping,    \* stopping[w]: SIGTERM or SIGINT received
    slots,       \* slots[w]: consume()'s in_flight, finished ones included
    faults,      \* Redis failures so far
    crashes,     \* worker crashes so far
    stops,       \* stop signals so far
    limit        \* max_deliveries of this deployment

redisVars  == <<log, cursor, pending, acked, dead, deliveries>>
taskVars   == <<status, published, runs, returned, step>>
workerVars == <<loop, stopping, slots>>
budgetVars == <<faults, crashes, stops, limit>>
streamVars == <<redisVars, taskVars, workerVars, budgetVars>>

Lanes    == {"normal", "large"}
Statuses == {"none", "queued", "running", "done", "failed"}
Steps    == {"none", "new", "running", "answered", "raised", "ack",
             "rejected", "bury", "discard", "over", "lost"}
LoopAt   == {"check", "read", "drain", "exited", "down"}

StreamTypeOK ==
    /\ log \in [Lanes -> Seq(Entries)]
    /\ cursor \in [Lanes -> Nat]
    /\ pending \subseteq Entries
    /\ acked \subseteq Entries
    /\ dead \subseteq Entries
    /\ deliveries \in [Entries -> Nat]
    /\ status \in [Entries -> Statuses]
    /\ published \subseteq Entries
    /\ runs \in [Entries -> Nat]
    /\ returned \subseteq Entries
    /\ step \in [Entries -> Steps]
    /\ loop \in [Workers -> LoopAt]
    /\ stopping \in [Workers -> BOOLEAN]
    /\ slots \in [Workers -> SUBSET Entries]
    /\ faults \in 0..MaxSetbacks
    /\ crashes \in 0..MaxSetbacks
    /\ stops \in 0..MaxSetbacks
    /\ limit \in Limits

StreamInit ==
    /\ log = [l \in Lanes |-> <<>>]
    /\ cursor = [l \in Lanes |-> 0]
    /\ pending = {}
    /\ acked = {}
    /\ dead = {}
    /\ deliveries = [e \in Entries |-> 0]
    /\ status = [e \in Entries |-> "none"]
    /\ published = {}
    /\ runs = [e \in Entries |-> 0]
    /\ returned = {}
    /\ step = [e \in Entries |-> "none"]
    /\ loop = [w \in Workers |-> "down"]
    /\ stopping = [w \in Workers |-> FALSE]
    /\ slots = [w \in Workers |-> {}]
    /\ faults = 0
    /\ crashes = 0
    /\ stops = 0
    /\ limit \in Limits

Logged(l)   == {log[l][i] : i \in DOMAIN log[l]}
Appended    == UNION {Logged(l) : l \in Lanes}

----------------------------------------------------------------------------
(* What the API process does to the streams.  Garbled and blank entries   *)
(* come from another producer: the code in src/ writes neither.           *)

\* enqueue(): XADD to the stream of the task's priority.
Enqueue(e, l) ==
    /\ e \notin Appended
    /\ log' = [log EXCEPT ![l] = Append(@, e)]
    /\ UNCHANGED <<cursor, pending, acked, dead, deliveries,
                   taskVars, workerVars, budgetVars>>

SetStatus(e, s) == status' = [status EXCEPT ![e] = s]

\* _enqueue() writes "queued" after the XADD, when a worker may already be
\* past its own status writes.
MarkQueued(e) ==
    /\ e \in Appended /\ e \notin Garbled \cup Blank
    /\ SetStatus(e, "queued")
    /\ UNCHANGED <<redisVars, published, runs, returned, step,
                   workerVars, budgetVars>>

----------------------------------------------------------------------------
(* consume(): one worker's loop. *)

\* Mutant: free_slots ignores the handlers in flight.
FreeIgnoringInFlight(w) == Concurrency

Free(w) ==
    LET n == Concurrency - Cardinality(slots[w]) IN IF n > 0 THEN n ELSE 0

\* XREADGROUP applies COUNT to each stream separately.
Batch(l, n) ==
    {log[l][i] : i \in {j \in DOMAIN log[l] : cursor[l] < j /\ j <= cursor[l] + n}}

Fetched(n) == UNION {Batch(l, n) : l \in Lanes}

\* What the server does for XREADGROUP: advance the group's position in both
\* streams and put the entries on the pending list.
Deliver(n) ==
    /\ cursor' = [l \in Lanes |-> IF cursor[l] + n < Len(log[l])
                                    THEN cursor[l] + n ELSE Len(log[l])]
    /\ pending' = pending \cup Fetched(n)
    /\ deliveries' = [e \in Entries |->
                        IF e \in Fetched(n) THEN deliveries[e] + 1 ELSE deliveries[e]]

Unfinished(w) == {e \in slots[w] : step[e] # "over"}
\* Mutant: finished handlers stay in in_flight.
PruneNothing(w) == UNCHANGED slots

Prune(w)      == slots' = [slots EXCEPT ![w] = Unfinished(w)]
Goto(w, p)    == loop' = [loop EXCEPT ![w] = p]

Setback == faults + crashes + stops < MaxSetbacks

Fault == Setback /\ faults' = faults + 1 /\ UNCHANGED <<crashes, stops, limit>>

Start(w) ==
    /\ loop[w] \in {"down", "exited"}
    /\ Goto(w, "check")
    /\ stopping' = [stopping EXCEPT ![w] = FALSE]
    /\ UNCHANGED <<redisVars, taskVars, slots, budgetVars>>

RequestStop(w) ==
    /\ loop[w] \notin {"down", "exited"}
    /\ ~stopping[w]
    /\ Setback
    /\ stops' = stops + 1
    /\ stopping' = [stopping EXCEPT ![w] = TRUE]
    /\ UNCHANGED <<redisVars, taskVars, loop, slots, faults, crashes, limit>>

\* while not should_stop(): there is a free slot, so go and read.
BeginRead(w) ==
    /\ loop[w] = "check" /\ ~stopping[w]
    /\ Free(w) > 0
    /\ Goto(w, "read")
    /\ UNCHANGED <<redisVars, taskVars, stopping, slots, budgetVars>>

\* No free slot: wait for FIRST_COMPLETED and drop every finished handler.
AwaitSlot(w) ==
    /\ loop[w] = "check" /\ ~stopping[w]
    /\ Free(w) = 0
    /\ Unfinished(w) # slots[w]
    /\ Prune(w)
    /\ UNCHANGED <<redisVars, taskVars, loop, stopping, budgetVars>>

LeaveLoop(w) ==
    /\ loop[w] = "check" /\ stopping[w]
    /\ Goto(w, "drain")
    /\ UNCHANGED <<redisVars, taskVars, stopping, slots, budgetVars>>

ReadBatch(w) ==
    /\ loop[w] = "read"
    /\ Fetched(Free(w)) # {}
    /\ Deliver(Free(w))
    /\ step' = [e \in Entries |-> IF e \in Fetched(Free(w)) THEN "new" ELSE step[e]]
    /\ slots' = [slots EXCEPT ![w] = @ \cup Fetched(Free(w))]
    /\ Goto(w, "check")
    /\ UNCHANGED <<log, acked, dead, status, published, runs, returned,
                   stopping, budgetVars>>

\* The read blocked for block_ms and returned nothing.
ReadNothing(w) ==
    /\ loop[w] = "read"
    /\ Fetched(Free(w)) = {}
    /\ Prune(w)
    /\ Goto(w, "check")
    /\ UNCHANGED <<redisVars, taskVars, stopping, budgetVars>>

\* XREADGROUP raised before the server ran it: sleep and try again.
ReadFails(w) ==
    /\ loop[w] = "read"
    /\ Fault
    /\ Goto(w, "check")
    /\ UNCHANGED <<redisVars, taskVars, stopping, slots>>

\* XREADGROUP ran on the server and its reply was lost: the entries are on
\* the pending list and no handler was created for them.
ReadReplyLost(w) ==
    /\ loop[w] = "read"
    /\ Fetched(Free(w)) # {}
    /\ Fault
    /\ Deliver(Free(w))
    /\ step' = [e \in Entries |-> IF e \in Fetched(Free(w)) THEN "lost" ELSE step[e]]
    /\ Goto(w, "check")
    /\ UNCHANGED <<log, acked, dead, status, published, runs, returned,
                   stopping, slots>>

\* asyncio.gather over the handlers in flight, then main() shuts down.
Exit(w) ==
    /\ loop[w] = "drain"
    /\ Unfinished(w) = {}
    /\ slots' = [slots EXCEPT ![w] = {}]
    /\ Goto(w, "exited")
    /\ UNCHANGED <<redisVars, taskVars, stopping, budgetVars>>

Crash(w) ==
    /\ loop[w] \notin {"down", "exited"}
    /\ Setback
    /\ crashes' = crashes + 1
    /\ Goto(w, "down")
    /\ step' = [e \in Entries |-> IF e \in Unfinished(w) THEN "lost" ELSE step[e]]
    /\ slots' = [slots EXCEPT ![w] = {}]
    /\ UNCHANGED <<redisVars, status, published, runs, returned, stopping,
                   faults, stops, limit>>

----------------------------------------------------------------------------
(* _handle_one() with the handler of worker.py, one action per await. *)

At(e, p)  == step[e] = p
To(e, p)  == step' = [step EXCEPT ![e] = p]
Xack(e)   == acked' = acked \cup {e} /\ pending' = pending \ {e}
\* An XACK that raised in the client: the server may have done it or not.
XackMaybe(e) == Xack(e) \/ UNCHANGED <<acked, pending>>
IsTask(e) == e \notin Garbled \cup Blank

AckBlank(e) ==
    /\ At(e, "new") /\ e \in Blank
    /\ Xack(e)
    /\ To(e, "over")
    /\ UNCHANGED <<log, cursor, dead, deliveries, status, published, runs,
                   returned, workerVars, budgetVars>>

\* Unparsable, or delivered too often: copy to the dead-letter stream.
BuryEntry(e) ==
    /\ \/ At(e, "new") /\ e \in Garbled
       \/ At(e, "bury")
    /\ dead' = dead \cup {e}
    /\ To(e, "discard")
    /\ UNCHANGED <<log, cursor, pending, acked, deliveries, status, published,
                   runs, returned, workerVars, budgetVars>>

\* The acknowledgement that follows the copy.
DiscardEntry(e) ==
    /\ At(e, "discard")
    /\ Xack(e)
    /\ To(e, "over")
    /\ UNCHANGED <<log, cursor, dead, deliveries, status, published, runs,
                   returned, workerVars, budgetVars>>

\* Mutant: acknowledge on receipt.
BeginTaskAcked(e) ==
    /\ At(e, "new") /\ IsTask(e)
    /\ Xack(e)
    /\ SetStatus(e, "running")
    /\ runs' = [runs EXCEPT ![e] = @ + 1]
    /\ To(e, "running")
    /\ UNCHANGED <<log, cursor, dead, deliveries, published, returned,
                   workerVars, budgetVars>>

\* handle(): status "running", then the orchestrator starts.
BeginTask(e) ==
    /\ At(e, "new") /\ IsTask(e)
    /\ SetStatus(e, "running")
    /\ runs' = [runs EXCEPT ![e] = @ + 1]
    /\ To(e, "running")
    /\ UNCHANGED <<redisVars, published, returned, workerVars, budgetVars>>

\* The orchestrator publishes final.result before it persists and returns.
PublishResult(e) ==
    /\ At(e, "running")
    /\ published' = published \cup {e}
    /\ To(e, "answered")
    /\ UNCHANGED <<redisVars, status, runs, returned, workerVars, budgetVars>>

\* handle_intent() returned; from "running" on its error path, which turns
\* every exception into an "[error]" text without a final.result.
StoreResult(e) ==
    /\ step[e] \in {"running", "answered"}
    /\ SetStatus(e, "done")
    /\ returned' = returned \cup {e}
    /\ To(e, "ack")
    /\ UNCHANGED <<redisVars, published, runs, workerVars, budgetVars>>

\* handle()'s except clause: status "failed", then raise again.
MarkFailed(e) ==
    /\ At(e, "raised")
    /\ SetStatus(e, "failed")
    /\ To(e, "rejected")
    /\ UNCHANGED <<redisVars, published, runs, returned, workerVars, budgetVars>>

AckTask(e) ==
    /\ At(e, "ack")
    /\ Xack(e)
    /\ To(e, "over")
    /\ UNCHANGED <<log, cursor, dead, deliveries, status, published, runs,
                   returned, workerVars, budgetVars>>

\* _delivery_count(): 1 when the entry is not pending or XPENDING raises.
DeliveryCount(e) == IF e \in pending THEN deliveries[e] ELSE 1

GiveUp(e) ==
    /\ At(e, "rejected")
    /\ DeliveryCount(e) >= limit
    /\ To(e, "bury")
    /\ UNCHANGED <<redisVars, status, published, runs, returned,
                   workerVars, budgetVars>>

\* Not acknowledged: the entry stays on the pending list.
LeavePending(e) ==
    /\ At(e, "rejected")
    /\ DeliveryCount(e) < limit
    /\ To(e, "over")
    /\ UNCHANGED <<redisVars, status, published, runs, returned,
                   workerVars, budgetVars>>

\* set_status("running") raised: outside the try of handle(), inside the try
\* of _handle_one().
BeginTaskFails(e) ==
    /\ At(e, "new") /\ IsTask(e)
    /\ Fault
    /\ SetStatus(e, "running") \/ UNCHANGED status
    /\ To(e, "rejected")
    /\ UNCHANGED <<redisVars, published, runs, returned, workerVars>>

StoreResultFails(e) ==
    /\ step[e] \in {"running", "answered"}
    /\ Fault
    /\ SetStatus(e, "done") \/ UNCHANGED status
    /\ To(e, "raised")
    /\ UNCHANGED <<redisVars, published, runs, returned, workerVars>>

MarkFailedFails(e) ==
    /\ At(e, "raised")
    /\ Fault
    /\ SetStatus(e, "failed") \/ UNCHANGED status
    /\ To(e, "rejected")
    /\ UNCHANGED <<redisVars, published, runs, returned, workerVars>>

\* The XACK after a successful handler is inside the same try as the handler.
AckTaskFails(e) ==
    /\ At(e, "ack")
    /\ Fault
    /\ XackMaybe(e)
    /\ To(e, "rejected")
    /\ UNCHANGED <<log, cursor, dead, deliveries, status, published, runs,
                   returned, workerVars>>

\* Nothing catches these: the handler task ends with the exception.
AckBlankFails(e) ==
    /\ \/ At(e, "new") /\ e \in Blank
       \/ At(e, "discard")
    /\ Fault
    /\ XackMaybe(e)
    /\ To(e, "over")
    /\ UNCHANGED <<log, cursor, dead, deliveries, status, published, runs,
                   returned, workerVars>>

BuryEntryFails(e) ==
    /\ \/ At(e, "new") /\ e \in Garbled
       \/ At(e, "bury")
    /\ Fault
    /\ dead' = dead \cup {e} \/ UNCHANGED dead
    /\ To(e, "over")
    /\ UNCHANGED <<log, cursor, pending, acked, deliveries, status, published,
                   runs, returned, workerVars>>

----------------------------------------------------------------------------
Loop(w) ==
    \/ BeginRead(w) \/ AwaitSlot(w) \/ LeaveLoop(w)
    \/ ReadBatch(w) \/ ReadNothing(w) \/ Exit(w)

Handle(e) ==
    \/ AckBlank(e) \/ BuryEntry(e) \/ DiscardEntry(e)
    \/ BeginTask(e) \/ PublishResult(e) \/ StoreResult(e)
    \/ MarkFailed(e) \/ AckTask(e) \/ GiveUp(e) \/ LeavePending(e)

HandleFails(e) ==
    \/ BeginTaskFails(e) \/ StoreResultFails(e) \/ MarkFailedFails(e)
    \/ AckTaskFails(e) \/ AckBlankFails(e) \/ BuryEntryFails(e)

Operate(w) == Start(w) \/ RequestStop(w) \/ Crash(w)

WorkerNext ==
    \/ \E w \in Workers : Loop(w) \/ ReadFails(w) \/ ReadReplyLost(w) \/ Operate(w)
    \/ \E e \in Entries : Handle(e) \/ HandleFails(e)

ApiNext == \E e \in Entries : MarkQueued(e) \/ \E l \in Lanes : Enqueue(e, l)

StreamNext == WorkerNext \/ ApiNext

StreamSpec == StreamInit /\ [][StreamNext]_streamVars

(***************************************************************************)
(* A worker's event loop keeps running its coroutines: the loop of         *)
(* consume() and every handler in flight make progress while the process   *)
(* is up, and the compose file restarts a worker that exits                *)
(* (restart: unless-stopped).  A failing call, a crash, a signal and a     *)
(* client's request are never owed.                                        *)
(***************************************************************************)
WorkerFairness ==
    /\ \A w \in Workers : WF_streamVars(Loop(w)) /\ WF_streamVars(Start(w))
    /\ \A e \in Entries : WF_streamVars(Handle(e))

FairStreamSpec == StreamSpec /\ WorkerFairness

----------------------------------------------------------------------------
(* Properties. *)

\* The orchestrator is started at most once for an entry, whatever fails and
\* restarts: a turn that places an order cannot place it twice.
AtMostOnce == \A e \in Entries : runs[e] <= 1

\* XACK never comes before the result: an acknowledged entry has a handler
\* that returned, or is in the dead-letter stream, or carried no payload.
SettledIsHandled == acked \subseteq returned \cup dead \cup Blank

\* One worker never has more than Concurrency handlers from the same stream.
PerLaneCap ==
    \A w \in Workers, l \in Lanes :
        Cardinality(slots[w] \cap Logged(l)) <= Concurrency

\* Stop signals, restarts and full slots strand nothing: while no call failed
\* and no worker crashed, every pending entry has a live handler in a slot of
\* a worker that is up.
NothingStrandedWithoutFault ==
    faults = 0 /\ crashes = 0 =>
        \A e \in pending : \E w \in Workers :
            /\ e \in slots[w] /\ step[e] # "over"
            /\ loop[w] \notin {"down", "exited"}

\* A slot is freed by a finished handler and by nothing else: the handlers a
\* worker runs stay below its cap, and what is pending is being handled.
SlotsTrackHandlers == PerLaneCap /\ NothingStrandedWithoutFault

\* Every entry reaches some worker, in spite of failing handlers, failing
\* calls, crashes and stops: no slot stays taken and no stream is starved.
EveryEntryDelivered ==
    \A e \in Entries : (e \in Appended) ~> (deliveries[e] > 0)

\* What the docs of the queue say (redis_stream_queue.py:6-7 and :121-124,
\* worker.py:14): an entry that a crashed worker leaves on the pending list,
\* unacknowledged, is given to a worker again.
UnackedIsRedelivered ==
    \A e \in Entries :
        (faults = 0 /\ e \in pending /\ step[e] = "lost")
            ~> (e \notin pending \/ step[e] # "lost")

\* What the code does instead: it implements AtMostOnceQueue, in which a held
\* entry is never handed out again.  An entry is held while it is on the
\* pending list and settled once it is acknowledged.
LifeOf(e) ==
    IF e \in acked THEN "settled"
    ELSE IF e \in pending THEN "held"
    ELSE IF e \in Appended THEN "queued" ELSE "absent"

Life == [e \in Entries |-> LifeOf(e)]

Promise == INSTANCE AtMostOnceQueue
    WITH Items <- Entries, Junk <- Garbled, Empty <- Blank, life <- Life,
         runs <- runs, finished <- returned, buried <- dead

QueuePromise == Promise!ItemSpec

\* The inductive strengthening of AtMostOnce and SettledIsHandled.
\* An entry sits at one place of one stream, and the group has not been given
\* more than there is.
LogInv ==
    /\ \A l, m \in Lanes : \A i \in DOMAIN log[l], j \in DOMAIN log[m] :
         log[l][i] = log[m][j] => l = m /\ i = j
    /\ \A l \in Lanes : cursor[l] <= Len(log[l])

\* An entry that was not given out is untouched; no other entry is new.
UntouchedInv ==
    /\ \A e \in Entries : e \notin Appended => step[e] = "none"
    /\ \A l \in Lanes : \A i \in DOMAIN log[l] :
         cursor[l] < i => step[log[l][i]] = "none"
    /\ \A e \in Entries : step[e] = "none" =>
         /\ e \notin pending \cup acked \cup returned \cup dead
         /\ runs[e] = 0

\* What the place a handler has reached says about its entry.
HandlerInv ==
    \A e \in Entries :
        /\ step[e] = "new" => runs[e] = 0
        /\ step[e] \in {"running", "answered"} => runs[e] = 1
        /\ step[e] \in {"new", "running", "answered", "raised", "ack"} =>
             e \in pending /\ e \notin acked
        /\ step[e] # "none" => e \in pending \cup acked
        /\ step[e] = "ack" => e \in returned
        /\ step[e] = "discard" => e \in dead
        /\ step[e] \in {"running", "answered", "raised", "ack", "rejected", "bury"} =>
             IsTask(e)

\* A handler was created only for an entry that was given out.
SlotInv == \A w \in Workers : \A e \in slots[w] : step[e] # "none"

\* The five parts are true together at every moment, the moments around a
\* failed call, a crash and a restart included.
StreamInv ==
    LogInv /\ UntouchedInv /\ HandlerInv /\ SlotInv /\ AtMostOnce /\ SettledIsHandled

\* What makes SlotsTrackHandlers inductive: while no call failed, no handler is
\* on its way to give up an entry it leaves pending.
NoneGivesUp ==
    faults = 0 => \A e \in Entries : step[e] \notin {"raised", "rejected", "bury"}

SlotsInv == SlotsTrackHandlers /\ NoneGivesUp
=============================================================================
