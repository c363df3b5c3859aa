---------------------------- MODULE QueueProofs ----------------------------
(***************************************************************************)
(* What holds of the streams and workers for every set of entries and      *)
(* workers, every concurrency, and any number of failures, crashes and     *)
(* stop signals; then of the gateway, for every set of requests, sessions  *)
(* and texts, and any number of failures on either side of the queue.      *)
(***************************************************************************)
EXTENDS IntentGateway, FiniteSetTheorems, TLAPS

\* The worker's number of free slots is a natural number: the handlers in
\* flight are finitely many.
LEMMA FreeIsNat ==
    ASSUME StreamTypeOK, NEW w \in Workers
    PROVE  Free(w) \in Nat
<1>1. slots[w] \subseteq Entries
  BY DEF StreamTypeOK
<1>2. Cardinality(slots[w]) \in Nat
  BY <1>1, StreamAssumption, FS_Subset, FS_CardinalityType
<1>3. QED
  BY <1>2, StreamAssumption DEF Free

\* What a read returns was appended to a stream and not given out before.
LEMMA FetchedFacts ==
    ASSUME StreamTypeOK, NEW n \in Nat, NEW e \in Fetched(n)
    PROVE  /\ e \in Entries
           /\ \E l \in Lanes : \E i \in DOMAIN log[l] :
                log[l][i] = e /\ cursor[l] < i /\ i <= cursor[l] + n
<1>1. PICK l \in Lanes : e \in Batch(l, n)
  BY DEF Fetched
<1>2. PICK i \in DOMAIN log[l] : log[l][i] = e /\ cursor[l] < i /\ i <= cursor[l] + n
  BY <1>1 DEF Batch
<1>3. log[l] \in Seq(Entries)
  BY DEF StreamTypeOK
<1>4. e \in Entries
  BY <1>2, <1>3
<1>5. QED
  BY <1>2, <1>4

\* The server's part of a read keeps the types.
LEMMA DeliverType ==
    ASSUME StreamTypeOK, NEW n \in Nat, Deliver(n)
    PROVE  /\ cursor' \in [Lanes -> Nat]
           /\ pending' \subseteq Entries
           /\ deliveries' \in [Entries -> Nat]
<1>1. Fetched(n) \subseteq Entries
  BY FetchedFacts
<1>2. ASSUME NEW l \in Lanes
      PROVE  Len(log[l]) \in Nat /\ cursor[l] + n \in Nat
  BY DEF StreamTypeOK
<1>3. cursor' \in [Lanes -> Nat]
  BY <1>2 DEF Deliver
<1>4. pending' \subseteq Entries
  BY <1>1 DEF Deliver, StreamTypeOK
<1>5. deliveries' \in [Entries -> Nat]
  BY DEF Deliver, StreamTypeOK
<1>6. QED
  BY <1>3, <1>4, <1>5

\* Every step of the API process, of a worker's loop and of a handler keeps
\* the types of all state.
LEMMA StreamTypeStep ==
    ASSUME StreamTypeOK, [StreamNext]_streamVars
    PROVE  StreamTypeOK'
<1> USE StreamAssumption
<1>a. Setback => /\ faults + 1 \in 0..MaxSetbacks /\ crashes + 1 \in 0..MaxSetbacks
                 /\ stops + 1 \in 0..MaxSetbacks
  BY DEF Setback, StreamTypeOK
<1>1. CASE UNCHANGED streamVars
  BY <1>1 DEF StreamTypeOK, streamVars, redisVars, taskVars, workerVars, budgetVars
<1>2. ASSUME NEW e \in Entries, NEW l \in Lanes, Enqueue(e, l)
      PROVE  StreamTypeOK'
  BY <1>2 DEF StreamTypeOK, Enqueue, taskVars, workerVars, budgetVars
<1>3. ASSUME NEW e \in Entries, MarkQueued(e)
      PROVE  StreamTypeOK'
  BY <1>3 DEF StreamTypeOK, MarkQueued, SetStatus, Statuses, redisVars, workerVars, budgetVars
<1>4. ASSUME NEW w \in Workers, Operate(w)
      PROVE  StreamTypeOK'
  <2>1. CASE Start(w)
    BY <2>1 DEF StreamTypeOK, Start, Goto, LoopAt, redisVars, taskVars, budgetVars
  <2>2. CASE RequestStop(w)
    BY <1>a, <2>2 DEF StreamTypeOK, RequestStop, redisVars, taskVars
  <2>3. CASE Crash(w)
    BY <1>a, <2>3 DEF StreamTypeOK, Crash, Goto, LoopAt, Steps, redisVars
  <2>4. QED
    BY <1>4, <2>1, <2>2, <2>3 DEF Operate
<1>5. ASSUME NEW w \in Workers, ReadBatch(w) \/ ReadReplyLost(w)
      PROVE  StreamTypeOK'
  <2>1. Free(w) \in Nat
    BY FreeIsNat
  <2>2. Fetched(Free(w)) \subseteq Entries
    BY <2>1, FetchedFacts
  <2>3. Deliver(Free(w))
    BY <1>5 DEF ReadBatch, ReadReplyLost
  <2>4. /\ cursor' \in [Lanes -> Nat]
        /\ pending' \subseteq Entries
        /\ deliveries' \in [Entries -> Nat]
    BY <2>1, <2>3, DeliverType
  <2>5. step' \in [Entries -> Steps]
    BY <1>5 DEF StreamTypeOK, ReadBatch, ReadReplyLost, Steps
  <2>6. slots' \in [Workers -> SUBSET Entries]
    BY <1>5, <2>2 DEF StreamTypeOK, ReadBatch, ReadReplyLost
  <2>7. faults' \in 0..MaxSetbacks /\ UNCHANGED <<crashes, stops, limit>>
    BY <1>a, <1>5 DEF StreamTypeOK, ReadBatch, ReadReplyLost, Fault, budgetVars
  <2>8. loop' \in [Workers -> LoopAt] /\ stopping' = stopping
    BY <1>5 DEF StreamTypeOK, ReadBatch, ReadReplyLost, Goto, LoopAt
  <2>9. UNCHANGED <<log, acked, dead, status, published, runs, returned>>
    BY <1>5 DEF ReadBatch, ReadReplyLost
  <2>10. QED
    BY <2>4, <2>5, <2>6, <2>7, <2>8, <2>9 DEF StreamTypeOK
<1>6. ASSUME NEW w \in Workers, Loop(w) \/ ReadFails(w), ~ReadBatch(w)
      PROVE  StreamTypeOK'
  <2>1. CASE BeginRead(w) \/ LeaveLoop(w)
    BY <2>1 DEF StreamTypeOK, BeginRead, LeaveLoop, Goto, LoopAt, redisVars, taskVars, budgetVars
  <2>2. CASE AwaitSlot(w) \/ ReadNothing(w)
    BY <2>2 DEF StreamTypeOK, AwaitSlot, ReadNothing, Prune, Unfinished, Goto, LoopAt,
       redisVars, taskVars, budgetVars
  <2>3. CASE Exit(w)
    BY <2>3 DEF StreamTypeOK, Exit, Goto, LoopAt, redisVars, taskVars, budgetVars
  <2>4. CASE ReadFails(w)
    BY <1>a, <2>4 DEF StreamTypeOK, ReadFails, Fault, Goto, LoopAt, redisVars, taskVars
  <2>5. QED
    BY <1>6, <2>1, <2>2, <2>3, <2>4 DEF Loop
<1>7. ASSUME NEW e \in Entries, Handle(e)
      PROVE  StreamTypeOK'
  <2> USE DEF StreamTypeOK, At, To, Xack, SetStatus, Statuses, Steps,
              redisVars, taskVars, workerVars, budgetVars
  <2>1. CASE AckBlank(e)
    BY <2>1 DEF AckBlank
  <2>2. CASE BuryEntry(e)
    BY <2>2 DEF BuryEntry
  <2>3. CASE DiscardEntry(e)
    BY <2>3 DEF DiscardEntry
  <2>4. CASE BeginTask(e)
    BY <2>4 DEF BeginTask
  <2>5. CASE PublishResult(e)
    BY <2>5 DEF PublishResult
  <2>6. CASE StoreResult(e)
    BY <2>6 DEF StoreResult
  <2>7. CASE MarkFailed(e)
    BY <2>7 DEF MarkFailed
  <2>8. CASE AckTask(e)
    BY <2>8 DEF AckTask
  <2>9. CASE GiveUp(e) \/ LeavePending(e)
    BY <2>9 DEF GiveUp, LeavePending
  <2>10. QED
    BY <1>7, <2>1, <2>2, <2>3, <2>4, <2>5, <2>6, <2>7, <2>8, <2>9 DEF Handle
<1>8. ASSUME NEW e \in Entries, HandleFails(e)
      PROVE  StreamTypeOK'
  <2> USE DEF StreamTypeOK, At, To, Xack, XackMaybe, SetStatus, Statuses, Steps, Fault,
              redisVars, taskVars, workerVars
  <2>1. CASE BeginTaskFails(e)
    BY <1>a, <2>1 DEF BeginTaskFails
  <2>2. CASE StoreResultFails(e)
    BY <1>a, <2>2 DEF StoreResultFails
  <2>3. CASE MarkFailedFails(e)
    BY <1>a, <2>3 DEF MarkFailedFails
  <2>4. CASE AckTaskFails(e)
    BY <1>a, <2>4 DEF AckTaskFails
  <2>5. CASE AckBlankFails(e)
    BY <1>a, <2>5 DEF AckBlankFails
  <2>6. CASE BuryEntryFails(e)
    BY <1>a, <2>6 DEF BuryEntryFails
  <2>7. QED
    BY <1>8, <2>1, <2>2, <2>3, <2>4, <2>5, <2>6 DEF HandleFails
<1>9. QED
  BY <1>1, <1>2, <1>3, <1>4, <1>5, <1>6, <1>7, <1>8
     DEF StreamNext, WorkerNext, ApiNext, Loop

\* Every state the queue and the workers reach is of the declared type.
THEOREM StreamTypeCorrect == StreamSpec => []StreamTypeOK
<1>1. StreamInit => StreamTypeOK
  BY StreamAssumption DEF StreamInit, StreamTypeOK, Lanes, Statuses, Steps, LoopAt
<1>2. StreamTypeOK /\ [StreamNext]_streamVars => StreamTypeOK'
  BY StreamTypeStep
<1>3. QED
  BY <1>1, <1>2, PTL DEF StreamSpec

----------------------------------------------------------------------------
(* The inductive invariant: nothing runs twice, nothing is acknowledged    *)
(* before it is handled.                                                   *)

\* XADD adds its entry at the end of one stream and nothing else anywhere.
LEMMA EnqueueFacts ==
    ASSUME StreamTypeOK, NEW e \in Entries, NEW l \in Lanes, Enqueue(e, l)
    PROVE  /\ \A m \in Lanes : \A i \in DOMAIN log'[m] :
                \/ i \in DOMAIN log[m] /\ log'[m][i] = log[m][i]
                \/ m = l /\ i = Len(log[l]) + 1 /\ log'[m][i] = e
           /\ \A m \in Lanes : Len(log[m]) <= Len(log'[m])
           /\ \A m \in Lanes : \A i \in DOMAIN log[m] :
                i \in DOMAIN log'[m] /\ log'[m][i] = log[m][i]
           /\ Len(log'[l]) = Len(log[l]) + 1 /\ log'[l][Len(log[l]) + 1] = e
<1>1. log' = [log EXCEPT ![l] = Append(log[l], e)]
  BY DEF Enqueue
<1>2. \A m \in Lanes : log[m] \in Seq(Entries)
  BY DEF StreamTypeOK
<1>3. log'[l] = Append(log[l], e) /\ \A m \in Lanes : m # l => log'[m] = log[m]
  BY <1>1 DEF StreamTypeOK
<1>4. /\ Len(log'[l]) = Len(log[l]) + 1
      /\ \A i \in 1..Len(log[l]) : log'[l][i] = log[l][i]
      /\ log'[l][Len(log[l]) + 1] = e
      /\ DOMAIN log'[l] = 1..(Len(log[l]) + 1)
      /\ DOMAIN log[l] = 1..Len(log[l])
      /\ Len(log[l]) \in Nat
  BY <1>2, <1>3
<1>5. \A m \in Lanes : Len(log[m]) \in Nat
  BY <1>2
<1>6. ASSUME NEW m \in Lanes, NEW i \in DOMAIN log'[m]
      PROVE  \/ i \in DOMAIN log[m] /\ log'[m][i] = log[m][i]
             \/ m = l /\ i = Len(log[l]) + 1 /\ log'[m][i] = e
  <2>1. CASE m = l
    BY <1>4, <2>1
  <2>2. CASE m # l
    BY <1>3, <2>2
  <2>3. QED
    BY <2>1, <2>2
<1>7. ASSUME NEW m \in Lanes
      PROVE  /\ Len(log[m]) <= Len(log'[m])
             /\ \A i \in DOMAIN log[m] : i \in DOMAIN log'[m] /\ log'[m][i] = log[m][i]
  <2>1. CASE m = l
    BY <1>4, <2>1
  <2>2. CASE m # l
    BY <1>3, <1>5, <2>2
  <2>3. QED
    BY <2>1, <2>2
<1>8. QED
  BY <1>4, <1>6, <1>7

\* Membership in Appended, spelled out.
LEMMA AppendedIff ==
    ASSUME NEW e
    PROVE  e \in Appended <=> \E l \in Lanes : \E i \in DOMAIN log[l] : log[l][i] = e
BY DEF Appended, Logged

\* XADD adds one entry to what was appended.
LEMMA EnqueueAppends ==
    ASSUME StreamTypeOK, NEW e \in Entries, NEW l \in Lanes, Enqueue(e, l)
    PROVE  e \in Appended' /\ \A f : f # e => (f \in Appended' <=> f \in Appended)
<1>1. /\ \A m \in Lanes : \A i \in DOMAIN log'[m] :
           \/ i \in DOMAIN log[m] /\ log'[m][i] = log[m][i]
           \/ m = l /\ i = Len(log[l]) + 1 /\ log'[m][i] = e
      /\ \A m \in Lanes : \A i \in DOMAIN log[m] :
           i \in DOMAIN log'[m] /\ log'[m][i] = log[m][i]
      /\ Len(log'[l]) = Len(log[l]) + 1 /\ log'[l][Len(log[l]) + 1] = e
  BY EnqueueFacts
<1>2. Len(log[l]) + 1 \in DOMAIN log'[l]
  <2>1. log' \in [Lanes -> Seq(Entries)] /\ log \in [Lanes -> Seq(Entries)]
    BY StreamTypeStep DEF StreamNext, ApiNext, StreamTypeOK
  <2>2. DOMAIN log'[l] = 1..Len(log'[l]) /\ Len(log[l]) \in Nat
    BY <2>1
  <2>3. QED
    BY <1>1, <2>2
<1>3. \A f : f \in Appended' <=> \E m \in Lanes : \E i \in DOMAIN log'[m] : log'[m][i] = f
  BY DEF Appended, Logged
<1>4. QED
  BY <1>1, <1>2, <1>3, AppendedIff

\* XADD keeps the invariant: the new entry is untouched.
LEMMA EnqueueKeepsInv ==
    ASSUME StreamTypeOK, StreamInv, NEW e \in Entries, NEW l \in Lanes, Enqueue(e, l)
    PROVE  StreamInv'
<1> DEFINE Last == Len(log[l]) + 1
<1>1. /\ \A m \in Lanes : \A i \in DOMAIN log'[m] :
           \/ i \in DOMAIN log[m] /\ log'[m][i] = log[m][i]
           \/ m = l /\ i = Last /\ log'[m][i] = e
      /\ \A m \in Lanes : Len(log[m]) <= Len(log'[m])
      /\ \A m \in Lanes : \A i \in DOMAIN log[m] :
           i \in DOMAIN log'[m] /\ log'[m][i] = log[m][i]
      /\ Len(log'[l]) = Last /\ log'[l][Last] = e
  BY EnqueueFacts
<1>2. e \notin Appended
  BY DEF Enqueue
<1>3. \A m \in Lanes : \A i \in DOMAIN log[m] : log[m][i] # e
  BY <1>2, AppendedIff
<1>4. UNCHANGED <<cursor, pending, acked, dead, runs, returned, step>>
  BY DEF Enqueue, taskVars
<1>5. LogInv'
  <2>1. ASSUME NEW m \in Lanes, NEW k \in Lanes, NEW i \in DOMAIN log'[m],
               NEW j \in DOMAIN log'[k], log'[m][i] = log'[k][j]
        PROVE  m = k /\ i = j
    BY <1>1, <1>3, <2>1 DEF StreamInv, LogInv
  <2>2. \A m \in Lanes : cursor'[m] <= Len(log'[m])
    <3> SUFFICES ASSUME NEW m \in Lanes PROVE cursor[m] <= Len(log'[m])
      BY <1>4
    <3>1. cursor[m] <= Len(log[m]) /\ Len(log[m]) <= Len(log'[m])
      BY <1>1 DEF StreamInv, LogInv
    <3>2. cursor[m] \in Nat /\ Len(log[m]) \in Nat
      BY DEF StreamTypeOK
    <3>3. Len(log'[m]) \in Nat
      BY StreamTypeStep DEF StreamNext, ApiNext, StreamTypeOK
    <3>4. QED
      BY <3>1, <3>2, <3>3
  <2>3. QED
    BY <2>1, <2>2 DEF LogInv
<1>6. UntouchedInv'
  <2>1. \A f \in Entries : f \notin Appended' => step[f] = "none"
    <3> SUFFICES ASSUME NEW f \in Entries, f \notin Appended' PROVE step[f] = "none"
      OBVIOUS
    <3>1. \A m \in Lanes : \A i \in DOMAIN log'[m] : log'[m][i] # f
      BY DEF Appended, Logged
    <3>2. f \notin Appended
      BY <1>1, <3>1, AppendedIff
    <3>3. QED
      BY <3>2 DEF StreamInv, UntouchedInv
  <2>2. step[e] = "none"
    BY <1>2 DEF StreamInv, UntouchedInv
  <2>3. \A m \in Lanes : \A i \in DOMAIN log'[m] : cursor[m] < i => step[log'[m][i]] = "none"
    BY <1>1, <2>2 DEF StreamInv, UntouchedInv
  <2>4. QED
    BY <1>4, <2>1, <2>3 DEF StreamInv, UntouchedInv
<1>7. HandlerInv' /\ AtMostOnce' /\ SettledIsHandled'
  BY <1>4 DEF StreamInv, HandlerInv, AtMostOnce, SettledIsHandled, IsTask
<1>8. SlotInv'
  BY <1>4 DEF StreamInv, SlotInv, Enqueue, workerVars
<1>9. QED
  BY <1>5, <1>6, <1>7, <1>8 DEF StreamInv

\* A read gives out untouched entries only, so an entry is given out once.
LEMMA ReadKeepsInv ==
    ASSUME StreamTypeOK, StreamInv, NEW w \in Workers,
           ReadBatch(w) \/ ReadReplyLost(w)
    PROVE  StreamInv'
<1> DEFINE n == Free(w)
           F == Fetched(n)
<1>1. n \in Nat
  BY FreeIsNat
<1>2. Deliver(n)
  BY DEF ReadBatch, ReadReplyLost
<1>3. PICK p \in {"new", "lost"} :
        step' = [e \in Entries |-> IF e \in F THEN p ELSE step[e]]
  BY DEF ReadBatch, ReadReplyLost
<1>4. UNCHANGED <<log, acked, dead, runs, returned>>
  BY DEF ReadBatch, ReadReplyLost
<1>5. \A e \in F : e \in Entries /\ step[e] = "none" /\ e \in Appended
  BY <1>1, FetchedFacts, AppendedIff DEF StreamInv, UntouchedInv
<1>6. pending' = pending \cup F
  BY <1>2 DEF Deliver
<1>7. Appended' = Appended
  BY <1>4 DEF Appended, Logged
<1>8. ASSUME NEW l \in Lanes
      PROVE  /\ cursor'[l] \in Nat /\ cursor'[l] <= Len(log[l])
             /\ \A i \in DOMAIN log[l] : i <= cursor[l] + n => i <= cursor'[l]
             /\ \A i \in DOMAIN log[l] : cursor'[l] < i => cursor[l] + n < i
  <2>1. Len(log[l]) \in Nat /\ cursor[l] \in Nat /\ DOMAIN log[l] = 1..Len(log[l])
    BY DEF StreamTypeOK
  <2>2. cursor'[l] = IF cursor[l] + n < Len(log[l]) THEN cursor[l] + n ELSE Len(log[l])
    BY <1>2 DEF Deliver
  <2>3. QED
    BY <1>1, <2>1, <2>2
<1>9. LogInv'
  BY <1>4, <1>8 DEF StreamInv, LogInv
<1>10. ASSUME NEW l \in Lanes, NEW i \in DOMAIN log[l], cursor'[l] < i
       PROVE  step'[log[l][i]] = "none"
  <2>1. cursor[l] + n < i /\ cursor[l] < i
    BY <1>1, <1>8, <1>10 DEF StreamTypeOK
  <2>2. log[l][i] \in Entries /\ step[log[l][i]] = "none"
    BY <2>1 DEF StreamTypeOK, StreamInv, UntouchedInv
  <2>3. log[l][i] \notin F
    <3> SUFFICES ASSUME log[l][i] \in F PROVE FALSE
      OBVIOUS
    <3>1. PICK m \in Lanes : \E j \in DOMAIN log[m] :
            log[m][j] = log[l][i] /\ cursor[m] < j /\ j <= cursor[m] + n
      BY <1>1, FetchedFacts
    <3>2. PICK j \in DOMAIN log[m] :
            log[m][j] = log[l][i] /\ cursor[m] < j /\ j <= cursor[m] + n
      BY <3>1
    <3>3. m = l /\ j = i
      BY <3>2 DEF StreamInv, LogInv
    <3>4. i \in Nat /\ cursor[l] + n \in Nat
      <4>1. log[l] \in Seq(Entries) /\ cursor[l] \in Nat
        BY DEF StreamTypeOK
      <4>2. i \in 1..Len(log[l]) /\ Len(log[l]) \in Nat
        BY <4>1
      <4>3. QED
        BY <1>1, <4>1, <4>2
    <3>5. QED
      BY <2>1, <3>2, <3>3, <3>4
  <2>4. QED
    BY <1>3, <2>2, <2>3
<1>11. UntouchedInv'
  BY <1>3, <1>4, <1>5, <1>6, <1>7, <1>10 DEF StreamInv, UntouchedInv
<1>12. HandlerInv'
  <2> SUFFICES ASSUME NEW e \in Entries
               PROVE  /\ step'[e] = "new" => runs[e] = 0
                      /\ step'[e] \in {"running", "answered"} => runs[e] = 1
                      /\ step'[e] \in {"new", "running", "answered", "raised", "ack"} =>
                           e \in pending' /\ e \notin acked
                      /\ step'[e] # "none" => e \in pending' \cup acked
                      /\ step'[e] = "ack" => e \in returned
                      /\ step'[e] = "discard" => e \in dead
                      /\ step'[e] \in {"running", "answered", "raised", "ack",
                                       "rejected", "bury"} => IsTask(e)
    BY <1>4 DEF HandlerInv, IsTask
  <2>1. CASE e \in F
    BY <1>3, <1>5, <1>6, <2>1 DEF StreamInv, UntouchedInv
  <2>2. CASE e \notin F
    BY <1>3, <1>6, <2>2 DEF StreamInv, HandlerInv
  <2>3. QED
    BY <2>1, <2>2
<1>13. AtMostOnce' /\ SettledIsHandled'
  BY <1>4 DEF StreamInv, AtMostOnce, SettledIsHandled
<1>14. SlotInv'
  <2>1. \A v \in Workers : slots'[v] \subseteq slots[v] \cup F
    BY DEF ReadBatch, ReadReplyLost, StreamTypeOK
  <2>2. \A e \in F : step'[e] # "none"
    BY <1>3, <1>5
  <2>3. \A v \in Workers : \A e \in slots[v] : e \in Entries /\ step[e] # "none"
    BY DEF StreamInv, SlotInv, StreamTypeOK
  <2>4. \A e \in Entries : step[e] # "none" => step'[e] # "none"
    BY <1>3
  <2>5. QED
    BY <2>1, <2>2, <2>3, <2>4 DEF SlotInv
<1>15. QED
  BY <1>9, <1>11, <1>12, <1>13, <1>14 DEF StreamInv

\* The rest of the loop, a stop signal and a restart touch no entry; a crash
\* turns unfinished entries into lost ones.
LEMMA LoopKeepsInv ==
    ASSUME StreamTypeOK, StreamInv, NEW w \in Workers,
           Operate(w) \/ BeginRead(w) \/ AwaitSlot(w) \/ LeaveLoop(w) \/ ReadNothing(w)
             \/ Exit(w) \/ ReadFails(w)
    PROVE  StreamInv'
<1>1. UNCHANGED <<log, cursor, pending, acked, dead, runs, returned>>
  BY DEF Operate, Start, RequestStop, Crash, BeginRead, AwaitSlot, LeaveLoop,
         ReadNothing, Exit, ReadFails, redisVars, taskVars
<1>2. \A v \in Workers : slots'[v] \subseteq slots[v]
  BY DEF Operate, Start, RequestStop, Crash, BeginRead, AwaitSlot, LeaveLoop,
         ReadNothing, Exit, ReadFails, Prune, Unfinished, StreamTypeOK
<1>3. \A e \in Entries : \/ step'[e] = step[e]
                         \/ step[e] # "none" /\ step'[e] = "lost"
  <2>1. CASE Crash(w)
    <3>1. \A e \in Unfinished(w) : step[e] # "none"
      BY DEF Unfinished, StreamInv, SlotInv
    <3>2. QED
      BY <2>1, <3>1 DEF Crash
  <2>2. CASE ~Crash(w)
    BY <2>2 DEF Operate, Start, RequestStop, BeginRead, AwaitSlot, LeaveLoop,
         ReadNothing, Exit, ReadFails, taskVars
  <2>3. QED
    BY <2>1, <2>2
<1>4. Appended' = Appended
  BY <1>1 DEF Appended, Logged
<1>5. LogInv' /\ AtMostOnce' /\ SettledIsHandled'
  BY <1>1 DEF StreamInv, LogInv, AtMostOnce, SettledIsHandled
<1>6. UntouchedInv'
  <2>1. \A l \in Lanes : \A i \in DOMAIN log[l] : log[l][i] \in Entries
    BY DEF StreamTypeOK
  <2>2. QED
    BY <1>1, <1>3, <1>4, <2>1 DEF StreamInv, UntouchedInv
<1>7. HandlerInv'
  BY <1>1, <1>3 DEF StreamInv, HandlerInv, IsTask
<1>8. SlotInv'
  BY <1>2, <1>3 DEF StreamInv, SlotInv, StreamTypeOK
<1>9. QED
  BY <1>5, <1>6, <1>7, <1>8 DEF StreamInv

\* A step of one handler, in general: it moves its own entry away from a place
\* other than "none", and what it does to the entry fits the new place.
LEMMA HandlerStepKeepsInv ==
    ASSUME StreamTypeOK, StreamInv, NEW e \in Entries, NEW p \in Steps \ {"none"},
           step[e] # "none",
           To(e, p),
           UNCHANGED <<log, cursor, slots>>,
           acked' \in {acked, acked \cup {e}},
           pending \cup acked \subseteq pending' \cup acked',
           pending' \in {pending, pending \ {e}},
           dead' \in {dead, dead \cup {e}},
           returned' \in {returned, returned \cup {e}},
           \A f \in Entries : f # e => runs'[f] = runs[f],
           runs'[e] <= 1,
           e \in acked' => e \in returned' \cup dead' \cup Blank,
           p = "new" => runs'[e] = 0,
           p \in {"running", "answered"} => runs'[e] = 1,
           p \in {"new", "running", "answered", "raised", "ack"} =>
             e \in pending' /\ e \notin acked',
           p = "ack" => e \in returned',
           p = "discard" => e \in dead',
           p \in {"running", "answered", "raised", "ack", "rejected", "bury"} => IsTask(e)
    PROVE  StreamInv'
<1>1. step'[e] = p /\ \A f \in Entries : f # e => step'[f] = step[f]
  BY DEF To, StreamTypeOK
<1>2. Appended' = Appended
  BY DEF Appended, Logged
<1>3. LogInv'
  BY DEF StreamInv, LogInv
<1>4. UntouchedInv'
  <2>1. \A l \in Lanes : \A i \in DOMAIN log[l] : log[l][i] \in Entries
    BY DEF StreamTypeOK
  <2>2. \A f \in Entries : step'[f] = "none" <=> step[f] = "none"
    BY <1>1
  <2>3. \A f \in Entries : step'[f] = "none" => f # e
    BY <1>1
  <2>4. QED
    BY <1>2, <2>1, <2>2, <2>3 DEF StreamInv, UntouchedInv
<1>5. HandlerInv'
  <2> SUFFICES ASSUME NEW f \in Entries
               PROVE  /\ step'[f] = "new" => runs'[f] = 0
                      /\ step'[f] \in {"running", "answered"} => runs'[f] = 1
                      /\ step'[f] \in {"new", "running", "answered", "raised", "ack"} =>
                           f \in pending' /\ f \notin acked'
                      /\ step'[f] # "none" => f \in pending' \cup acked'
                      /\ step'[f] = "ack" => f \in returned'
                      /\ step'[f] = "discard" => f \in dead'
                      /\ step'[f] \in {"running", "answered", "raised", "ack",
                                       "rejected", "bury"} => IsTask(f)
    BY DEF HandlerInv, IsTask
  <2>1. CASE f = e
    BY <1>1, <2>1 DEF StreamInv, HandlerInv
  <2>2. CASE f # e
    BY <1>1, <2>2 DEF StreamInv, HandlerInv
  <2>3. QED
    BY <2>1, <2>2
<1>6. SlotInv'
  BY <1>1 DEF StreamInv, SlotInv, StreamTypeOK
<1>7. AtMostOnce'
  BY DEF StreamInv, AtMostOnce
<1>8. SettledIsHandled'
  BY DEF StreamInv, SettledIsHandled
<1>9. QED
  BY <1>3, <1>4, <1>5, <1>6, <1>7, <1>8 DEF StreamInv

\* Every step of a handler whose calls succeed fits its entry's new place.
LEMMA HandleKeepsInv ==
    ASSUME StreamTypeOK, StreamInv, NEW e \in Entries, Handle(e)
    PROVE  StreamInv'
<1>1. /\ step[e] = "new" => runs[e] = 0
      /\ step[e] \in {"running", "answered"} => runs[e] = 1
      /\ step[e] \in {"new", "running", "answered", "raised", "ack"} =>
           e \in pending /\ e \notin acked
      /\ step[e] # "none" => e \in pending \cup acked
      /\ step[e] = "ack" => e \in returned
      /\ step[e] = "discard" => e \in dead
      /\ step[e] \in {"running", "answered", "raised", "ack", "rejected", "bury"} =>
           IsTask(e)
      /\ runs[e] <= 1
      /\ e \in acked => e \in returned \cup dead \cup Blank
  BY DEF StreamInv, HandlerInv, AtMostOnce, SettledIsHandled
<1>2. runs \in [Entries -> Nat]
  BY DEF StreamTypeOK
<1> USE <1>1, HandlerStepKeepsInv DEF At, Steps, workerVars
<1>3. CASE AckBlank(e)
  BY <1>3 DEF AckBlank, Xack
<1>4. CASE BuryEntry(e)
  BY <1>4 DEF BuryEntry
<1>5. CASE DiscardEntry(e)
  BY <1>5 DEF DiscardEntry, Xack
<1>6. CASE BeginTask(e)
  BY <1>2, <1>6 DEF BeginTask, redisVars
<1>7. CASE PublishResult(e)
  BY <1>7 DEF PublishResult, redisVars
<1>8. CASE StoreResult(e)
  BY <1>8 DEF StoreResult, redisVars
<1>9. CASE MarkFailed(e)
  BY <1>9 DEF MarkFailed, redisVars
<1>10. CASE AckTask(e)
  BY <1>10 DEF AckTask, Xack
<1>11. CASE GiveUp(e)
  BY <1>11 DEF GiveUp, redisVars
<1>12. CASE LeavePending(e)
  BY <1>12 DEF LeavePending, redisVars
<1>13. QED
  BY <1>3, <1>4, <1>5, <1>6, <1>7, <1>8, <1>9, <1>10, <1>11, <1>12
     DEF Handle

\* So does every step of a handler at which a call to Redis fails.
LEMMA HandleFailsKeepsInv ==
    ASSUME StreamTypeOK, StreamInv, NEW e \in Entries, HandleFails(e)
    PROVE  StreamInv'
<1>1. /\ step[e] \in {"new", "running", "answered", "raised", "ack"} =>
           e \in pending /\ e \notin acked
      /\ step[e] # "none" => e \in pending \cup acked
      /\ step[e] = "ack" => e \in returned
      /\ step[e] = "discard" => e \in dead
      /\ step[e] \in {"running", "answered", "raised", "ack", "rejected", "bury"} =>
           IsTask(e)
      /\ runs[e] <= 1
      /\ e \in acked => e \in returned \cup dead \cup Blank
  BY DEF StreamInv, HandlerInv, AtMostOnce, SettledIsHandled
<1> USE <1>1, HandlerStepKeepsInv DEF At, Steps, workerVars
<1>2. CASE BeginTaskFails(e)
  BY <1>2 DEF BeginTaskFails, redisVars
<1>3. CASE StoreResultFails(e)
  BY <1>3 DEF StoreResultFails, redisVars
<1>4. CASE MarkFailedFails(e)
  BY <1>4 DEF MarkFailedFails, redisVars
<1>5. CASE AckTaskFails(e)
  BY <1>5 DEF AckTaskFails, Xack, XackMaybe
<1>6. CASE AckBlankFails(e)
  BY <1>6 DEF AckBlankFails, Xack, XackMaybe
<1>7. CASE BuryEntryFails(e)
  BY <1>7 DEF BuryEntryFails
<1>8. QED
  BY <1>2, <1>3, <1>4, <1>5, <1>6, <1>7 DEF HandleFails

\* Every step of the system keeps the invariant.
LEMMA StreamInvStep ==
    ASSUME StreamTypeOK, StreamInv, [StreamNext]_streamVars
    PROVE  StreamInv'
<1>1. CASE UNCHANGED streamVars
  BY <1>1 DEF StreamInv, LogInv, UntouchedInv, HandlerInv, SlotInv, AtMostOnce,
     SettledIsHandled, Appended, Logged, IsTask, streamVars, redisVars, taskVars, workerVars
<1>2. ASSUME NEW e \in Entries, MarkQueued(e)
      PROVE  StreamInv'
  BY <1>2 DEF StreamInv, LogInv, UntouchedInv, HandlerInv, SlotInv, AtMostOnce,
     SettledIsHandled, Appended, Logged, IsTask, MarkQueued, redisVars, workerVars
<1>3. ASSUME NEW w \in Workers, Loop(w) \/ ReadFails(w) \/ ReadReplyLost(w) \/ Operate(w)
      PROVE  StreamInv'
  BY <1>3, ReadKeepsInv, LoopKeepsInv DEF Loop
<1>4. QED
  BY <1>1, <1>2, <1>3, EnqueueKeepsInv, HandleKeepsInv, HandleFailsKeepsInv
     DEF StreamNext, WorkerNext, ApiNext

\* An entry sits at one place, is given out once, and its handler's place
\* bounds what was done to it: in every state of every execution.
THEOREM StreamInvariant == StreamSpec => []StreamInv
<1>1. StreamInit => StreamInv
  BY DEF StreamInit, StreamInv, LogInv, UntouchedInv, HandlerInv, SlotInv, AtMostOnce,
     SettledIsHandled, Appended, Logged, Lanes
<1>2. StreamTypeOK /\ StreamInv /\ [StreamNext]_streamVars => StreamInv'
  BY StreamInvStep
<1>3. QED
  BY <1>1, <1>2, StreamTypeCorrect, PTL DEF StreamSpec

\* Whatever fails, crashes or restarts, and however many workers share the
\* group, the orchestrator is started at most once for an entry.
THEOREM RunsAtMostOnce == StreamSpec => []AtMostOnce
<1>1. StreamInv => AtMostOnce
  BY DEF StreamInv
<1>2. QED
  BY <1>1, StreamInvariant, PTL

\* An acknowledged entry was handled, dead-lettered or empty.
THEOREM SettledWasHandled == StreamSpec => []SettledIsHandled
<1>1. StreamInv => SettledIsHandled
  BY DEF StreamInv
<1>2. QED
  BY <1>1, StreamInvariant, PTL

----------------------------------------------------------------------------
(* The streams and workers implement AtMostOnceQueue. *)

\* The life of an entry depends on three variables only.
LEMMA SameLife ==
    ASSUME UNCHANGED <<log, pending, acked>>
    PROVE  Life' = Life
BY DEF Life, LifeOf, Appended, Logged

\* What an acknowledgement does to the life of its entry.
LEMMA XackSettles ==
    ASSUME StreamTypeOK, NEW e \in Entries, e \in pending \cup acked, Xack(e), UNCHANGED log
    PROVE  /\ e \notin acked => Life[e] = "held"
           /\ e \in acked => Life' = Life
           /\ Life' = [Life EXCEPT ![e] = "settled"]
<1>1. Appended' = Appended
  BY DEF Appended, Logged
<1>2. \A f \in Entries : f # e => LifeOf(f)' = LifeOf(f)
  BY <1>1 DEF LifeOf, Xack
<1>3. LifeOf(e)' = "settled"
  BY DEF LifeOf, Xack
<1>4. (e \notin acked => LifeOf(e) = "held") /\ (e \in acked => LifeOf(e) = "settled")
  BY DEF LifeOf
<1>5. QED
  BY <1>2, <1>3, <1>4 DEF Life

\* XADD submits an item.
LEMMA EnqueueSubmits ==
    ASSUME StreamTypeOK, StreamInv, NEW e \in Entries, NEW l \in Lanes, Enqueue(e, l)
    PROVE  Promise!Submit(e)
<1>1. e \notin Appended /\ step[e] = "none"
  BY DEF Enqueue, StreamInv, UntouchedInv
<1>2. LifeOf(e) = "absent"
  BY <1>1 DEF LifeOf, StreamInv, UntouchedInv
<1>3. UNCHANGED <<pending, acked, dead, runs, returned>>
  BY DEF Enqueue, taskVars
<1>4. e \in Appended' /\ \A f \in Entries : f # e => (f \in Appended' <=> f \in Appended)
  BY EnqueueAppends
<1>5. LifeOf(e)' = "queued" /\ \A f \in Entries : f # e => LifeOf(f)' = LifeOf(f)
  <2>1. e \notin pending \cup acked
    BY <1>1 DEF StreamInv, UntouchedInv
  <2>2. QED
    BY <1>3, <1>4, <2>1 DEF LifeOf
<1>6. Life[e] = "absent" /\ Life' = [Life EXCEPT ![e] = "queued"]
  BY <1>2, <1>5 DEF Life
<1>7. QED
  BY <1>3, <1>6 DEF Promise!Submit

\* A read hands out what it fetched.
LEMMA ReadHands ==
    ASSUME StreamTypeOK, StreamInv, NEW w \in Workers,
           ReadBatch(w) \/ ReadReplyLost(w)
    PROVE  Promise!Hand(Fetched(Free(w))) /\ Fetched(Free(w)) \subseteq Entries
<1> DEFINE F == Fetched(Free(w))
<1>1. Free(w) \in Nat
  BY FreeIsNat
<1>2. F # {} /\ pending' = pending \cup F /\ UNCHANGED <<log, acked, dead, runs, returned>>
  BY DEF ReadBatch, ReadReplyLost, Deliver
<1>3. \A e \in F : e \in Entries /\ e \in Appended /\ step[e] = "none"
  BY <1>1, FetchedFacts, AppendedIff DEF StreamInv, UntouchedInv
<1>4. \A e \in F : e \notin pending \cup acked
  BY <1>3 DEF StreamInv, UntouchedInv
<1>5. Appended' = Appended
  BY <1>2 DEF Appended, Logged
<1>6. \A e \in F : LifeOf(e) = "queued" /\ LifeOf(e)' = "held"
  BY <1>2, <1>3, <1>4 DEF LifeOf
<1>7. \A e \in Entries : e \notin F => LifeOf(e)' = LifeOf(e)
  BY <1>2, <1>5 DEF LifeOf
<1>8. \A e \in F : Life[e] = "queued"
  BY <1>3, <1>6 DEF Life
<1>9. Life' = [e \in Entries |-> IF e \in F THEN "held" ELSE Life[e]]
  BY <1>6, <1>7 DEF Life
<1>10. QED
  BY <1>2, <1>3, <1>8, <1>9 DEF Promise!Hand

\* Every step of a handler is a step of the abstract queue or none at all.
LEMMA HandleImplements ==
    ASSUME StreamTypeOK, StreamInv, NEW e \in Entries, Handle(e) \/ HandleFails(e)
    PROVE  [Promise!ItemNext]_(Promise!itemVars)
<1> DEFINE Goal == [Promise!ItemNext]_(Promise!itemVars)
<1>1. /\ step[e] = "new" => runs[e] = 0
      /\ step[e] \in {"running", "answered"} => runs[e] = 1
      /\ step[e] \in {"new", "running", "answered", "raised", "ack"} =>
           e \in pending /\ e \notin acked
      /\ step[e] # "none" => e \in pending \cup acked
      /\ step[e] = "ack" => e \in returned
      /\ step[e] = "discard" => e \in dead
      /\ step[e] \in {"running", "answered", "raised", "ack", "rejected", "bury"} =>
           IsTask(e)
  BY DEF StreamInv, HandlerInv
<1>2. Life[e] = LifeOf(e)
  BY DEF Life
<1>3. CASE Xack(e) /\ UNCHANGED <<log, dead, runs, returned>>
           /\ e \in returned \cup dead \cup Blank /\ step[e] # "none"
  <2>1. CASE e \in acked
    BY <1>1, <1>3, <2>1, XackSettles DEF Promise!itemVars
  <2>2. CASE e \notin acked
    <3>1. Promise!Settle(e)
      BY <1>1, <1>3, <2>2, XackSettles DEF Promise!Settle
    <3>2. QED
      BY <3>1 DEF Promise!ItemNext
  <2>3. QED
    BY <2>1, <2>2
<1>4. CASE /\ dead' = dead \cup {e} /\ e \notin Blank /\ step[e] # "none"
           /\ UNCHANGED <<log, pending, acked, runs, returned>>
  <2>1. Life[e] \in {"held", "settled"}
    BY <1>1, <1>2, <1>4 DEF LifeOf
  <2>2. Promise!Bury(e)
    BY <1>4, <2>1, SameLife DEF Promise!Bury
  <2>3. QED
    BY <2>2 DEF Promise!ItemNext
<1>5. CASE UNCHANGED <<log, pending, acked, dead, runs, returned>>
  BY <1>5, SameLife DEF Promise!itemVars
<1>6. CASE BeginTask(e)
  <2>1. Life[e] = "held"
    BY <1>1, <1>2, <1>6 DEF LifeOf, BeginTask, At
  <2>2. Promise!Run(e)
    BY <1>1, <1>6, <2>1, SameLife DEF BeginTask, At, IsTask, redisVars, Promise!Run, StreamTypeOK
  <2>3. QED
    BY <2>2 DEF Promise!ItemNext
<1>7. CASE StoreResult(e)
  <2>1. Life[e] = "held"
    BY <1>1, <1>2, <1>7 DEF LifeOf, StoreResult
  <2>2. Promise!Finish(e)
    BY <1>1, <1>7, <2>1, SameLife DEF StoreResult, redisVars, Promise!Finish
  <2>3. QED
    BY <2>2 DEF Promise!ItemNext
<1>8. CASE AckBlank(e) \/ DiscardEntry(e) \/ AckTask(e)
  BY <1>1, <1>3, <1>8 DEF AckBlank, DiscardEntry, AckTask, At
<1>9. CASE AckTaskFails(e) \/ AckBlankFails(e)
  BY <1>1, <1>3, <1>5, <1>9 DEF AckTaskFails, AckBlankFails, XackMaybe, At
<1>10. CASE BuryEntry(e) \/ BuryEntryFails(e)
  BY <1>1, <1>4, <1>5, <1>10, StreamAssumption DEF BuryEntry, BuryEntryFails, At, IsTask
<1>11. CASE \/ PublishResult(e) \/ MarkFailed(e) \/ GiveUp(e) \/ LeavePending(e)
            \/ BeginTaskFails(e) \/ StoreResultFails(e) \/ MarkFailedFails(e)
  BY <1>5, <1>11 DEF PublishResult, MarkFailed, GiveUp, LeavePending, BeginTaskFails,
     StoreResultFails, MarkFailedFails, redisVars
<1>12. QED
  BY <1>6, <1>7, <1>8, <1>9, <1>10, <1>11 DEF Handle, HandleFails

\* The queue, its workers and everything that can fail in them behave like
\* the abstract queue: no entry is handed out twice, runs twice, or is settled
\* unhandled.
THEOREM QueueImplementsPromise == StreamSpec => QueuePromise
<1>1. StreamInit => Promise!ItemInit
  BY DEF StreamInit, Promise!ItemInit, Life, LifeOf, Appended, Logged, Lanes
<1>2. ASSUME StreamTypeOK, StreamInv, [StreamNext]_streamVars
      PROVE  [Promise!ItemNext]_(Promise!itemVars)
  <2>1. CASE UNCHANGED <<log, pending, acked, dead, runs, returned>>
    BY <2>1, SameLife DEF Promise!itemVars
  <2>2. CASE UNCHANGED streamVars
    BY <2>1, <2>2 DEF streamVars, redisVars, taskVars
  <2>3. ASSUME NEW e \in Entries, NEW l \in Lanes, Enqueue(e, l)
        PROVE  [Promise!ItemNext]_(Promise!itemVars)
    BY <1>2, <2>3, EnqueueSubmits DEF Promise!ItemNext
  <2>4. ASSUME NEW e \in Entries, MarkQueued(e)
        PROVE  [Promise!ItemNext]_(Promise!itemVars)
    BY <2>1, <2>4 DEF MarkQueued, redisVars
  <2>5. ASSUME NEW w \in Workers, ReadBatch(w) \/ ReadReplyLost(w)
        PROVE  [Promise!ItemNext]_(Promise!itemVars)
    BY <1>2, <2>5, ReadHands DEF Promise!ItemNext
  <2>6. ASSUME NEW w \in Workers, Loop(w) \/ ReadFails(w) \/ Operate(w), ~ReadBatch(w)
        PROVE  [Promise!ItemNext]_(Promise!itemVars)
    BY <2>1, <2>6 DEF Loop, BeginRead, AwaitSlot, LeaveLoop, ReadNothing, Exit, ReadFails,
       Operate, Start, RequestStop, Crash, redisVars, taskVars
  <2>7. QED
    BY <1>2, <2>2, <2>3, <2>4, <2>5, <2>6, HandleImplements
       DEF StreamNext, WorkerNext, ApiNext, Loop
<1>3. QED
  BY <1>1, <1>2, StreamTypeCorrect, StreamInvariant, PTL
     DEF StreamSpec, QueuePromise, Promise!ItemSpec

----------------------------------------------------------------------------
(* The handlers of a worker and the pending list. *)

\* Entries of a set of workers' slots and of a stream can be counted.
LEMMA SlotsFinite ==
    ASSUME StreamTypeOK, NEW w \in Workers, NEW S
    PROVE  /\ IsFiniteSet(slots[w]) /\ IsFiniteSet(slots[w] \cap S)
           /\ Cardinality(slots[w]) \in Nat /\ Cardinality(slots[w] \cap S) \in Nat
           /\ Cardinality(slots[w] \cap S) <= Cardinality(slots[w])
<1>1. slots[w] \subseteq Entries
  BY DEF StreamTypeOK
<1>2. IsFiniteSet(slots[w])
  BY <1>1, StreamAssumption, FS_Subset
<1>3. QED
  BY <1>2, FS_Intersection, FS_CardinalityType

\* n consecutive positions are n.
LEMMA IntervalSize ==
    ASSUME NEW a \in Nat, NEW n \in Nat
    PROVE  IsFiniteSet((a + 1)..(a + n)) /\ Cardinality((a + 1)..(a + n)) = n
<1>1. a + 1 \in Int /\ a + n \in Int
  OBVIOUS
<1>2. /\ IsFiniteSet((a + 1)..(a + n))
      /\ Cardinality((a + 1)..(a + n))
           = IF a + 1 > a + n THEN 0 ELSE (a + n) - (a + 1) + 1
  BY <1>1, FS_Interval
<1>3. QED
  BY <1>2

\* A read takes no more than COUNT entries from a stream.
LEMMA BatchAtMost ==
    ASSUME StreamTypeOK, NEW l \in Lanes, NEW n \in Nat
    PROVE  /\ IsFiniteSet(Batch(l, n))
           /\ Cardinality(Batch(l, n)) \in Nat /\ Cardinality(Batch(l, n)) <= n
<1> DEFINE J == {j \in DOMAIN log[l] : cursor[l] < j /\ j <= cursor[l] + n}
           I == (cursor[l] + 1)..(cursor[l] + n)
           f == [j \in J |-> log[l][j]]
<1>1. cursor[l] \in Nat /\ DOMAIN log[l] = 1..Len(log[l]) /\ Len(log[l]) \in Nat
  BY DEF StreamTypeOK
<1>2. J \subseteq I
  BY <1>1
<1>3. IsFiniteSet(I) /\ Cardinality(I) = n
  BY <1>1, IntervalSize
<1>4. IsFiniteSet(J) /\ Cardinality(J) <= n
  BY <1>2, <1>3, FS_Subset
<1>5. f \in Surjection(J, Batch(l, n))
  <2>1. Batch(l, n) = {log[l][j] : j \in J}
    BY DEF Batch
  <2>2. f \in [J -> Batch(l, n)]
    BY <2>1
  <2>3. \A t \in Batch(l, n) : \E j \in J : f[j] = t
    BY <2>1
  <2>4. QED
    BY <2>2, <2>3 DEF Surjection
<1>6. IsFiniteSet(Batch(l, n)) /\ Cardinality(Batch(l, n)) <= Cardinality(J)
  BY <1>4, <1>5, FS_Surjection
<1>7. Cardinality(J) \in Nat /\ Cardinality(Batch(l, n)) \in Nat
  BY <1>4, <1>6, FS_CardinalityType
<1>8. QED
  BY <1>4, <1>6, <1>7

\* What a read fetched of a stream is its batch of that stream.
LEMMA FetchedOfLane ==
    ASSUME StreamTypeOK, LogInv, NEW l \in Lanes, NEW n \in Nat
    PROVE  Fetched(n) \cap Logged(l) = Batch(l, n)
<1>1. Batch(l, n) \subseteq Fetched(n) \cap Logged(l)
  BY DEF Fetched, Logged, Batch
<1>2. ASSUME NEW e \in Fetched(n), e \in Logged(l)
      PROVE  e \in Batch(l, n)
  <2>1. PICK m \in Lanes : \E i \in DOMAIN log[m] :
               log[m][i] = e /\ cursor[m] < i /\ i <= cursor[m] + n
    BY FetchedFacts
  <2>2. PICK i \in DOMAIN log[m] : log[m][i] = e /\ cursor[m] < i /\ i <= cursor[m] + n
    BY <2>1
  <2>3. PICK j \in DOMAIN log[l] : log[l][j] = e
    BY <1>2 DEF Logged
  <2>4. m = l /\ i = j
    BY <2>2, <2>3 DEF LogInv
  <2>5. QED
    BY <2>2, <2>4 DEF Batch
<1>3. QED
  BY <1>1, <1>2

\* A step that adds nothing to slots and nothing to the streams keeps the cap.
LEMMA FewerKeepCap ==
    ASSUME StreamTypeOK, PerLaneCap, UNCHANGED log,
           \A w \in Workers : slots'[w] \subseteq slots[w]
    PROVE  PerLaneCap'
<1> SUFFICES ASSUME NEW w \in Workers, NEW l \in Lanes
             PROVE  Cardinality(slots'[w] \cap Logged(l)) <= Concurrency
  BY DEF PerLaneCap, Logged
<1>1. IsFiniteSet(slots[w] \cap Logged(l)) /\ Cardinality(slots[w] \cap Logged(l)) \in Nat
  BY SlotsFinite
<1>2. slots'[w] \cap Logged(l) \subseteq slots[w] \cap Logged(l)
  OBVIOUS
<1>3. /\ IsFiniteSet(slots'[w] \cap Logged(l))
      /\ Cardinality(slots'[w] \cap Logged(l)) <= Cardinality(slots[w] \cap Logged(l))
  BY <1>1, <1>2, FS_Subset
<1>4. Cardinality(slots'[w] \cap Logged(l)) \in Nat
  BY <1>3, FS_CardinalityType
<1>5. Cardinality(slots[w] \cap Logged(l)) <= Concurrency
  BY DEF PerLaneCap
<1>6. QED
  BY <1>1, <1>3, <1>4, <1>5, StreamAssumption

\* COUNT is what is free of the cap, so a read fills a stream's share at most.
LEMMA ReadKeepsCap ==
    ASSUME StreamTypeOK, StreamInv, PerLaneCap, NEW w \in Workers, ReadBatch(w)
    PROVE  PerLaneCap'
<1> DEFINE n == Free(w)
<1>1. n \in Nat
  BY FreeIsNat
<1>2. UNCHANGED log /\ slots' = [slots EXCEPT ![w] = slots[w] \cup Fetched(n)]
  BY DEF ReadBatch
<1> SUFFICES ASSUME NEW v \in Workers, NEW l \in Lanes
             PROVE  Cardinality(slots'[v] \cap Logged(l)) <= Concurrency
  BY <1>2 DEF PerLaneCap, Logged
<1>3. Cardinality(slots[v] \cap Logged(l)) <= Concurrency
  BY DEF PerLaneCap
<1>4. CASE v # w
  BY <1>2, <1>3, <1>4 DEF StreamTypeOK
<1>5. CASE v = w
  <2> DEFINE A == slots[w] \cap Logged(l)
             B == Batch(l, n)
  <2>1. slots'[w] \cap Logged(l) = A \cup B
    <3>1. slots'[w] = slots[w] \cup Fetched(n)
      BY <1>2 DEF StreamTypeOK
    <3>2. Fetched(n) \cap Logged(l) = B
      BY <1>1, FetchedOfLane DEF StreamInv
    <3>3. QED
      BY <3>1, <3>2
  <2>2. /\ IsFiniteSet(A) /\ Cardinality(A) \in Nat /\ Cardinality(slots[w]) \in Nat
        /\ Cardinality(A) <= Cardinality(slots[w])
    BY SlotsFinite
  <2>3. IsFiniteSet(B) /\ Cardinality(B) \in Nat /\ Cardinality(B) <= n
    BY <1>1, BatchAtMost
  <2>4. /\ Cardinality(A \cup B) = Cardinality(A) + Cardinality(B) - Cardinality(A \cap B)
        /\ Cardinality(A \cap B) \in Nat
    BY <2>2, <2>3, FS_Union, FS_Intersection, FS_CardinalityType
  <2>5. Cardinality(A \cup B) <= Cardinality(A) + n
    BY <1>1, <2>2, <2>3, <2>4
  <2>6. n = 0 \/ n = Concurrency - Cardinality(slots[w])
    BY DEF Free
  <2>7. Cardinality(A \cup B) <= Concurrency
    BY <1>1, <1>3, <1>5, <2>2, <2>3, <2>4, <2>5, <2>6, StreamAssumption
  <2>8. QED
    BY <1>5, <2>1, <2>7
<1>6. QED
  BY <1>4, <1>5

\* A new entry is in no slot.
LEMMA EnqueueKeepsCap ==
    ASSUME StreamTypeOK, StreamInv, PerLaneCap, NEW e \in Entries, NEW l \in Lanes, Enqueue(e, l)
    PROVE  PerLaneCap'
<1>1. UNCHANGED <<slots, step>>
  BY DEF Enqueue, workerVars, taskVars
<1> SUFFICES ASSUME NEW w \in Workers, NEW m \in Lanes
             PROVE  Cardinality(slots[w] \cap Logged(m)') <= Concurrency
  BY <1>1 DEF PerLaneCap
<1>2. e \notin slots[w]
  BY DEF Enqueue, StreamInv, UntouchedInv, SlotInv
<1>3. Logged(m)' \subseteq Logged(m) \cup {e} /\ Logged(m) \subseteq Logged(m)'
  BY EnqueueFacts DEF Logged
<1>4. slots[w] \cap Logged(m)' = slots[w] \cap Logged(m)
  BY <1>2, <1>3
<1>5. QED
  BY <1>4 DEF PerLaneCap

\* Every step keeps the cap.
LEMMA CapStep ==
    ASSUME StreamTypeOK, StreamInv, PerLaneCap, [StreamNext]_streamVars
    PROVE  PerLaneCap'
<1>1. CASE UNCHANGED streamVars
  BY <1>1 DEF PerLaneCap, Logged, streamVars, redisVars, workerVars
<1>2. ASSUME NEW e \in Entries, NEW l \in Lanes, Enqueue(e, l)
      PROVE  PerLaneCap'
  BY <1>2, EnqueueKeepsCap
<1>3. ASSUME NEW w \in Workers, ReadBatch(w)
      PROVE  PerLaneCap'
  BY <1>3, ReadKeepsCap
<1>4. ASSUME NEW w \in Workers, Loop(w) \/ ReadFails(w) \/ ReadReplyLost(w) \/ Operate(w),
             ~ReadBatch(w)
      PROVE  PerLaneCap'
  <2>1. UNCHANGED log
    BY <1>4 DEF Loop, BeginRead, AwaitSlot, LeaveLoop, ReadNothing, Exit, ReadFails,
       ReadReplyLost, Operate, Start, RequestStop, Crash, redisVars
  <2>2. \A v \in Workers : slots'[v] \subseteq slots[v]
    BY <1>4 DEF Loop, BeginRead, AwaitSlot, LeaveLoop, ReadNothing, Exit, ReadFails,
       ReadReplyLost, Operate, Start, RequestStop, Crash, Prune, Unfinished, StreamTypeOK
  <2>3. QED
    BY <2>1, <2>2, FewerKeepCap
<1>5. ASSUME NEW e \in Entries, Handle(e) \/ HandleFails(e) \/ MarkQueued(e)
      PROVE  PerLaneCap'
  <2>1. UNCHANGED <<log, slots>>
    BY <1>5 DEF Handle, HandleFails, MarkQueued, AckBlank, BuryEntry, DiscardEntry, BeginTask,
       PublishResult, StoreResult, MarkFailed, AckTask, GiveUp, LeavePending, BeginTaskFails,
       StoreResultFails, MarkFailedFails, AckTaskFails, AckBlankFails, BuryEntryFails,
       redisVars, workerVars
  <2>2. QED
    BY <2>1, FewerKeepCap
<1>6. QED
  BY <1>1, <1>2, <1>3, <1>4, <1>5 DEF StreamNext, WorkerNext, ApiNext

\* A handler that stays in its slot and is not over is one that is pending; a
\* read puts the handlers it creates into a slot of a worker that is up.
LEMMA SlotsInvStep ==
    ASSUME StreamTypeOK, StreamInv, SlotsInv, [StreamNext]_streamVars
    PROVE  SlotsInv'
<1> DEFINE Tended(e) == \E w \in Workers :
              e \in slots[w] /\ step[e] # "over" /\ loop[w] \notin {"down", "exited"}
<1>1. PerLaneCap'
  BY CapStep DEF SlotsInv, SlotsTrackHandlers
<1> SUFFICES ASSUME faults' = 0
             PROVE  /\ \A e \in Entries : step'[e] \notin {"raised", "rejected", "bury"}
                    /\ crashes' = 0 => \A e \in pending' : Tended(e)'
  BY <1>1 DEF SlotsInv, SlotsTrackHandlers, NothingStrandedWithoutFault, NoneGivesUp
<1>2. faults \in Nat /\ crashes \in Nat /\ step \in [Entries -> Steps]
      /\ pending \subseteq Entries /\ slots \in [Workers -> SUBSET Entries]
      /\ loop \in [Workers -> LoopAt]
  BY StreamAssumption DEF StreamTypeOK
<1>3. /\ faults = 0 => \A e \in Entries : step[e] \notin {"raised", "rejected", "bury"}
      /\ faults = 0 /\ crashes = 0 => \A e \in pending : Tended(e)
  BY DEF SlotsInv, SlotsTrackHandlers, NothingStrandedWithoutFault, NoneGivesUp
<1>4. CASE UNCHANGED streamVars
  BY <1>3, <1>4 DEF streamVars, redisVars, taskVars, workerVars, budgetVars
<1>5. ASSUME NEW e \in Entries, MarkQueued(e) \/ \E l \in Lanes : Enqueue(e, l)
      PROVE  /\ \A f \in Entries : step'[f] \notin {"raised", "rejected", "bury"}
             /\ crashes' = 0 => \A f \in pending' : Tended(f)'
  BY <1>3, <1>5 DEF MarkQueued, Enqueue, redisVars, taskVars, workerVars, budgetVars
<1>6. ASSUME NEW w \in Workers, Loop(w), ~ReadBatch(w)
      PROVE  /\ \A f \in Entries : step'[f] \notin {"raised", "rejected", "bury"}
             /\ crashes' = 0 => \A f \in pending' : Tended(f)'
  <2>1. UNCHANGED <<pending, step, faults, crashes>>
    BY <1>6 DEF Loop, BeginRead, AwaitSlot, LeaveLoop, ReadNothing, Exit, redisVars, taskVars,
       budgetVars
  <2>2. \A v \in Workers : \A f \in slots[v] : step[f] # "over" => f \in slots'[v]
    BY <1>2, <1>6 DEF Loop, BeginRead, AwaitSlot, LeaveLoop, ReadNothing, Exit, Prune, Unfinished
  <2>3. \A v \in Workers : loop[v] \notin {"down", "exited"} =>
           loop'[v] \notin {"down", "exited"} \/ (v = w /\ \A f \in slots[v] : step[f] = "over")
    BY <1>2, <1>6 DEF Loop, BeginRead, AwaitSlot, LeaveLoop, ReadNothing, Exit, Goto, Unfinished
  <2>4. QED
    BY <1>3, <2>1, <2>2, <2>3
<1>7. ASSUME NEW w \in Workers, ReadBatch(w)
      PROVE  /\ \A f \in Entries : step'[f] \notin {"raised", "rejected", "bury"}
             /\ crashes' = 0 => \A f \in pending' : Tended(f)'
  <2> DEFINE F == Fetched(Free(w))
  <2>1. /\ step' = [e \in Entries |-> IF e \in F THEN "new" ELSE step[e]]
        /\ slots' = [slots EXCEPT ![w] = slots[w] \cup F]
        /\ loop' = [loop EXCEPT ![w] = "check"] /\ loop[w] = "read"
        /\ pending' = pending \cup F /\ UNCHANGED <<faults, crashes>>
    BY <1>7 DEF ReadBatch, Deliver, Goto, budgetVars
  <2>2. F \subseteq Entries
    BY FreeIsNat, FetchedFacts
  <2>3. \A f \in F : Tended(f)'
    BY <1>2, <2>1, <2>2
  <2>4. \A f \in Entries : f \notin F /\ Tended(f) => Tended(f)'
    BY <1>2, <2>1
  <2>5. QED
    BY <1>2, <1>3, <2>1, <2>3, <2>4
<1>8. ASSUME NEW w \in Workers, Operate(w)
      PROVE  /\ \A f \in Entries : step'[f] \notin {"raised", "rejected", "bury"}
             /\ crashes' = 0 => \A f \in pending' : Tended(f)'
  <2>1. CASE Crash(w)
    BY <1>2, <1>3, <2>1 DEF Crash, Unfinished, redisVars
  <2>2. CASE Start(w) \/ RequestStop(w)
    BY <1>2, <1>3, <2>2 DEF Start, RequestStop, Goto, redisVars, taskVars, budgetVars
  <2>3. QED
    BY <1>8, <2>1, <2>2 DEF Operate
<1>9. ASSUME NEW e \in Entries, Handle(e)
      PROVE  /\ \A f \in Entries : step'[f] \notin {"raised", "rejected", "bury"}
             /\ crashes' = 0 => \A f \in pending' : Tended(f)'
  <2>1. UNCHANGED <<slots, loop, faults, crashes>>
    BY <1>9 DEF Handle, AckBlank, BuryEntry, DiscardEntry, BeginTask, PublishResult,
       StoreResult, MarkFailed, AckTask, GiveUp, LeavePending, workerVars, budgetVars
  <2>2. step[e] \notin {"raised", "rejected", "bury"}
    BY <1>3, <2>1
  <2>3. /\ \A f \in Entries : f # e => step'[f] = step[f]
        /\ \A f \in pending' : f \in pending
        /\ step'[e] \notin {"raised", "rejected", "bury"}
        /\ e \in pending' => step'[e] # "over"
    BY <1>2, <1>9, <2>2 DEF Handle, AckBlank, BuryEntry, DiscardEntry, BeginTask, PublishResult,
       StoreResult, MarkFailed, AckTask, GiveUp, LeavePending, At, To, Xack, redisVars
  <2>4. QED
    BY <1>2, <1>3, <2>1, <2>3
<1>10. ASSUME NEW e \in Entries, HandleFails(e)
       PROVE  FALSE
  BY <1>2, <1>10 DEF HandleFails, BeginTaskFails, StoreResultFails, MarkFailedFails, AckTaskFails,
     AckBlankFails, BuryEntryFails, Fault
<1>11. ASSUME NEW w \in Workers, ReadFails(w) \/ ReadReplyLost(w)
       PROVE  FALSE
  BY <1>2, <1>11 DEF ReadFails, ReadReplyLost, Fault
<1>12. QED
  BY <1>4, <1>5, <1>6, <1>7, <1>8, <1>9, <1>10, <1>11 DEF StreamNext, WorkerNext, ApiNext

\* For any number of workers, entries, failures and restarts: no stream has
\* more than Concurrency handlers on a worker, and an entry is left pending
\* without a handler only after a failed call or a crash.
THEOREM SlotsAreHandlers == StreamSpec => []SlotsTrackHandlers
<1>1. StreamInit => SlotsInv
  <2> SUFFICES ASSUME StreamInit PROVE SlotsInv
    OBVIOUS
  <2>1. PerLaneCap
    BY StreamAssumption, FS_EmptySet DEF StreamInit, PerLaneCap
  <2>2. QED
    BY <2>1 DEF StreamInit, SlotsInv, SlotsTrackHandlers, NothingStrandedWithoutFault, NoneGivesUp
<1>2. StreamTypeOK /\ StreamInv /\ SlotsInv /\ [StreamNext]_streamVars => SlotsInv'
  BY SlotsInvStep
<1>3. SlotsInv => SlotsTrackHandlers
  BY DEF SlotsInv
<1>4. QED
  BY <1>1, <1>2, <1>3, StreamTypeCorrect, StreamInvariant, PTL DEF StreamSpec

----------------------------------------------------------------------------
(* The gateway. *)

\* What a step of the gateway does to the streams is a step of the queue.
LEMMA GateStepIsStreamStep ==
    ASSUME [GateNext]_vars
    PROVE  [StreamNext]_streamVars
<1>1. CASE UNCHANGED vars
  BY <1>1 DEF vars
<1>2. CASE WorkerNext
  BY <1>2 DEF StreamNext
<1>3. ASSUME NEW r \in Entries, Enqueue(r, LaneOf(r)) \/ MarkQueued(r)
      PROVE  [StreamNext]_streamVars
  BY <1>3 DEF StreamNext, ApiNext, LaneOf, Lanes
<1>4. ASSUME NEW r \in Entries, Request(r) \/ RequestFails(r) \/ Client(r)
      PROVE  [StreamNext]_streamVars
  <2>1. CASE Submit(r) \/ SubmitFails(r) \/ Mark(r) \/ MarkFails(r)
    BY <1>3, <2>1 DEF Submit, SubmitFails, Mark, MarkFails
  <2>2. CASE Reuse(r) \/ FallThrough(r) \/ ReadTurns(r) \/ WriteTurns(r) \/ ClaimFails(r)
               \/ Claim(r) \/ Subscribe(r) \/ PollFails(r)
    BY <2>2 DEF Reuse, FallThrough, ReadTurns, WriteTurns, ClaimFails, Claim, Subscribe, PollFails
  <2>3. CASE AnswerFromEvent(r) \/ AnswerFromStatus(r) \/ AcceptAsync(r) \/ AnswerTimeout(r)
    BY <2>3 DEF AnswerFromEvent, AnswerFromStatus, AcceptAsync, AnswerTimeout, Respond
  <2>4. QED
    BY <1>4, <2>1, <2>2, <2>3 DEF Request, RequestFails, Client
<1>5. ASSUME NEW t \in Entries, DeliverResult(t) \/ LoseResult(t)
      PROVE  [StreamNext]_streamVars
  BY <1>5 DEF DeliverResult, LoseResult
<1>6. ASSUME NEW k \in TaskKeys, ExpireKey(k)
      PROVE  [StreamNext]_streamVars
  BY <1>6 DEF ExpireKey
<1>7. CASE ApiCrash
  BY <1>7 DEF ApiCrash
<1>8. QED
  BY <1>1, <1>2, <1>4, <1>5, <1>6, <1>7 DEF GateNext

\* The API process, its clients and its failures use the queue as the queue
\* expects: everything proved of the streams and workers alone holds here.
THEOREM GatewayUsesQueue == GateSpec => StreamSpec
<1>1. [GateNext]_vars => [StreamNext]_streamVars
  BY GateStepIsStreamStep
<1>2. QED
  BY <1>1, PTL DEF GateSpec, StreamSpec

\* A request that is answered keeps all but its place and its answer.
LEMMA RespondType ==
    ASSUME GateTypeOK, NEW r \in Entries, NEW from, NEW a \in Answers, Respond(r, from, a)
    PROVE  GateTypeOK'
BY DEF Respond, MoveTo, Clean, GateTypeOK, Places

\* Every step keeps the types of the gateway's state.
LEMMA GateTypeStep ==
    ASSUME GateTypeOK, [GateNext]_vars
    PROVE  GateTypeOK'
<1> USE GatewayAssumption
<1>1. CASE UNCHANGED gateVars
  BY <1>1 DEF GateTypeOK, gateVars
<1>2. ASSUME NEW r \in Entries PROVE Key(r) \in TaskKeys /\ SessionOf[r] \in Sessions
  BY DEF TaskKeys, Sessions
<1>3. ASSUME NEW r \in Entries, Request(r) \/ RequestFails(r) \/ Client(r)
      PROVE  GateTypeOK'
  <2> USE DEF GateTypeOK, MoveTo, Mishap, Clean, Lose, Places
  <2>1. CASE Claim(r) \/ ClaimFails(r)
    BY <1>2, <2>1 DEF Claim, ClaimFails
  <2>2. CASE Reuse(r) \/ FallThrough(r)
    BY <1>2, <2>2 DEF Reuse, FallThrough
  <2>3. CASE ReadTurns(r)
    BY <1>2, <2>3 DEF ReadTurns
  <2>4. CASE WriteTurns(r)
    BY <1>2, <2>4 DEF WriteTurns
  <2>5. CASE Submit(r) \/ SubmitFails(r) \/ Mark(r) \/ MarkFails(r)
    BY <2>5 DEF Submit, SubmitFails, Mark, MarkFails
  <2>6. CASE Subscribe(r) \/ PollFails(r)
    BY <2>6 DEF Subscribe, PollFails
  <2>7. CASE AnswerFromEvent(r)
    <3>1. [by |-> "event", task |-> inbox[r]] \in Answers
      BY <2>7 DEF AnswerFromEvent, Answers
    <3>2. QED
      BY <2>7, <3>1, RespondType DEF AnswerFromEvent
  <2>8. CASE AnswerFromStatus(r)
    <3>1. task[r] \in Entries
      BY <2>8 DEF AnswerFromStatus
    <3>2. /\ [by |-> "status", task |-> task[r]] \in Answers
          /\ [by |-> "failed", task |-> task[r]] \in Answers
      BY <3>1 DEF Answers
    <3>3. QED
      BY <2>8, <3>2, RespondType DEF AnswerFromStatus
  <2>9. CASE AcceptAsync(r) \/ AnswerTimeout(r)
    <3>1. [by |-> "accepted"] \in Answers /\ [by |-> "timeout"] \in Answers
      BY DEF Answers
    <3>2. QED
      BY <2>9, <3>1, RespondType DEF AcceptAsync, AnswerTimeout
  <2>10. QED
    BY <1>3, <2>1, <2>2, <2>3, <2>4, <2>5, <2>6, <2>7, <2>8, <2>9
       DEF Request, RequestFails, Client
<1>4. ASSUME NEW t \in Entries, DeliverResult(t) \/ LoseResult(t)
      PROVE  GateTypeOK'
  BY <1>4 DEF DeliverResult, LoseResult, GateTypeOK, Mishap, Clean
<1>5. ASSUME NEW k \in TaskKeys, ExpireKey(k)
      PROVE  GateTypeOK'
  BY <1>5 DEF ExpireKey, GateTypeOK, Mishap, Lose
<1>6. CASE ApiCrash
  BY <1>6 DEF ApiCrash, GateTypeOK, Mishap, Places
<1>7. QED
  BY <1>1, <1>3, <1>4, <1>5, <1>6 DEF GateNext, vars

\* Every state the gateway reaches is of the declared type.
THEOREM GateTypeCorrect == GateSpec => []GateTypeOK
<1>1. GateInit => GateTypeOK
  BY GatewayAssumption DEF GateInit, GateTypeOK, Places
<1>2. GateTypeOK /\ [GateNext]_vars => GateTypeOK'
  BY GateTypeStep
<1>3. QED
  BY <1>1, <1>2, PTL DEF GateSpec

----------------------------------------------------------------------------
(* The idempotency key. *)

\* A worker's step appends nothing.
LEMMA WorkerAppendsNothing ==
    ASSUME WorkerNext
    PROVE  UNCHANGED log
<1>1. ASSUME NEW w \in Workers, Loop(w) \/ ReadFails(w) \/ ReadReplyLost(w) \/ Operate(w)
      PROVE  UNCHANGED log
  BY <1>1 DEF Loop, Operate, BeginRead, AwaitSlot, LeaveLoop, ReadBatch, ReadNothing, Exit,
     ReadFails, ReadReplyLost, Start, RequestStop, Crash, redisVars
<1>2. ASSUME NEW e \in Entries, Handle(e) \/ HandleFails(e)
      PROVE  UNCHANGED log
  BY <1>2 DEF Handle, HandleFails, AckBlank, BuryEntry, DiscardEntry, BeginTask,
     PublishResult, StoreResult, MarkFailed, AckTask, GiveUp, LeavePending, BeginTaskFails,
     StoreResultFails, MarkFailedFails, AckTaskFails, AckBlankFails, BuryEntryFails, redisVars
<1>3. QED
  BY <1>1, <1>2 DEF WorkerNext

\* Every step keeps the key's invariant.
LEMMA KeyInvStep ==
    ASSUME StreamTypeOK, GateTypeOK, KeyInv, [GateNext]_vars
    PROVE  KeyInv'
<1>1. CASE UNCHANGED <<place, idem, keyLost, log>>
  BY <1>1 DEF KeyInv, Key, Appended, Logged
<1>2. CASE WorkerNext /\ UNCHANGED gateVars
  BY <1>1, <1>2, WorkerAppendsNothing DEF gateVars
<1>3. ASSUME NEW r \in Entries, Request(r) \/ RequestFails(r) \/ Client(r)
      PROVE  KeyInv'
  <2> DEFINE Bound(q) == q \in Appended \/ place[q] \in {"price", "count", "submit"}
  <2>1. CASE Claim(r)
    <3>1. UNCHANGED <<log, keyLost>>
      BY <2>1 DEF Claim, Clean, streamVars, redisVars
    <3>2. Appended' = Appended
      BY <3>1 DEF Appended, Logged
    <3>3. Key(r) \in TaskKeys
      BY DEF TaskKeys
    <3>4. CASE idem[Key(r)] = None
      <4>1. /\ place' = [place EXCEPT ![r] = "price"] /\ place[r] = "idle"
            /\ idem' = [idem EXCEPT ![Key(r)] = r]
        BY <2>1, <3>4 DEF Claim, MoveTo
      <4>2. ASSUME NEW q \in Entries, Key(q) = Key(r), Key(q) \notin keyLost
            PROVE  ~Bound(q) /\ place[q] # "lookup"
        BY <3>4, <4>2, GatewayAssumption DEF KeyInv
      <4>3. \A q \in Entries : idem'[Key(q)] = IF Key(q) = Key(r) THEN r ELSE idem[Key(q)]
        <5>1. \A q \in Entries : Key(q) \in TaskKeys
          BY DEF TaskKeys
        <5>2. QED
          BY <3>3, <4>1, <5>1 DEF GateTypeOK
      <4>4. \A q \in Entries : Key(q)' = Key(q)
        BY DEF Key
      <4>5. QED
        BY <3>1, <3>2, <4>1, <4>2, <4>3, <4>4, GatewayAssumption DEF KeyInv, GateTypeOK
    <3>5. CASE idem[Key(r)] # None
      <4>1. place' = [place EXCEPT ![r] = "lookup"] /\ place[r] = "idle" /\ idem' = idem
        BY <2>1, <3>5 DEF Claim, MoveTo
      <4>2. QED
        BY <3>1, <3>2, <3>5, <4>1 DEF KeyInv, GateTypeOK, Key
    <3>6. QED
      BY <3>4, <3>5
  <2>2. CASE ClaimFails(r)
    <3>1. /\ keyLost' = keyLost \cup {Key(r)} /\ place' = [place EXCEPT ![r] = "price"]
          /\ UNCHANGED log
      BY <2>2 DEF ClaimFails, Lose, MoveTo, streamVars, redisVars
    <3>2. \A k \in TaskKeys : k # Key(r) => idem'[k] = idem[k]
      BY <2>2 DEF ClaimFails, GateTypeOK
    <3>3. \A q \in Entries : Key(q) \in TaskKeys /\ Key(q)' = Key(q)
      BY DEF Key, TaskKeys
    <3>4. Appended' = Appended
      BY <3>1 DEF Appended, Logged
    <3>5. QED
      BY <3>1, <3>2, <3>3, <3>4 DEF KeyInv, GateTypeOK
  <2>3. CASE FallThrough(r)
    <3>1. place' = [place EXCEPT ![r] = "price"] /\ place[r] = "lookup" /\ UNCHANGED <<log, idem>>
      BY <2>3 DEF FallThrough, MoveTo, streamVars, redisVars
    <3>2. keyLost \subseteq keyLost' /\ Key(r) \in keyLost'
      BY <2>3, <3>1 DEF FallThrough, Lose, Clean, KeyInv
    <3>3. Appended' = Appended /\ \A q \in Entries : Key(q)' = Key(q)
      BY <3>1 DEF Appended, Logged, Key
    <3>4. QED
      BY <3>1, <3>2, <3>3 DEF KeyInv, GateTypeOK
  <2>4. CASE UNCHANGED <<idem, keyLost>> /\ Enqueue(r, LaneOf(r)) /\ place[r] = "submit"
               /\ place' \in {[place EXCEPT ![r] = "mark"], [place EXCEPT ![r] = "aborted"]}
    <3>1. LaneOf(r) \in Lanes
      BY DEF LaneOf, Lanes
    <3>2. \A q : q # r => (q \in Appended' <=> q \in Appended)
      BY <2>4, <3>1, EnqueueAppends
    <3>3. \A q \in Entries : Key(q)' = Key(q)
      BY DEF Key
    <3>4. QED
      BY <2>4, <3>2, <3>3 DEF KeyInv, GateTypeOK
  <2>5. CASE /\ UNCHANGED <<log, idem, keyLost>>
             /\ \E p \in Places : /\ place' = [place EXCEPT ![r] = p]
                                  /\ p # "lookup"
                                  /\ p \in {"price", "count", "submit"} =>
                                       place[r] \in {"price", "count", "submit"}
    <3>1. Appended' = Appended /\ \A q \in Entries : Key(q)' = Key(q)
      BY <2>5 DEF Appended, Logged, Key
    <3>2. QED
      BY <2>5, <3>1 DEF KeyInv, GateTypeOK
  <2>6. CASE Submit(r) \/ SubmitFails(r)
    BY <2>4, <2>5, <2>6 DEF Submit, SubmitFails, MoveTo, Clean, Places, streamVars, redisVars
  <2>7. CASE Reuse(r) \/ ReadTurns(r) \/ WriteTurns(r) \/ Mark(r) \/ MarkFails(r)
               \/ Subscribe(r) \/ PollFails(r)
    BY <2>5, <2>7 DEF Reuse, ReadTurns, WriteTurns, Mark, MarkFails, Subscribe, PollFails,
       MarkQueued, MoveTo, Clean, Places, streamVars, redisVars
  <2>8. CASE AnswerFromEvent(r) \/ AnswerFromStatus(r) \/ AcceptAsync(r) \/ AnswerTimeout(r)
    BY <2>5, <2>8 DEF AnswerFromEvent, AnswerFromStatus, AcceptAsync, AnswerTimeout, Respond,
       MoveTo, Clean, Places, streamVars, redisVars
  <2>9. QED
    BY <1>3, <2>1, <2>2, <2>3, <2>6, <2>7, <2>8 DEF Request, RequestFails, Client
<1>4. ASSUME NEW t \in Entries, DeliverResult(t) \/ LoseResult(t)
      PROVE  KeyInv'
  BY <1>1, <1>4 DEF DeliverResult, LoseResult, Clean, streamVars, redisVars
<1>5. ASSUME NEW k \in TaskKeys, ExpireKey(k)
      PROVE  KeyInv'
  <2>1. keyLost' = keyLost \cup {k} /\ idem' = [idem EXCEPT ![k] = None] /\ UNCHANGED <<log, place>>
    BY <1>5 DEF ExpireKey, Lose, streamVars, redisVars
  <2>2. \A q \in Entries : Key(q) \in TaskKeys /\ Key(q)' = Key(q)
    BY DEF Key, TaskKeys
  <2>3. Appended' = Appended
    BY <2>1 DEF Appended, Logged
  <2>4. QED
    BY <2>1, <2>2, <2>3 DEF KeyInv, GateTypeOK
<1>6. CASE ApiCrash
  <2>1. /\ \A r \in Entries : place'[r] \in {place[r], "aborted"}
        /\ UNCHANGED <<log, idem, keyLost>>
    BY <1>6 DEF ApiCrash, streamVars, redisVars
  <2>2. Appended' = Appended /\ \A q \in Entries : Key(q)' = Key(q)
    BY <2>1 DEF Appended, Logged, Key
  <2>3. QED
    BY <2>1, <2>2 DEF KeyInv
<1>7. QED
  BY <1>1, <1>2, <1>3, <1>4, <1>5, <1>6
     DEF GateNext, vars, gateVars, streamVars, redisVars

\* However many requests of a session and text race, and whatever fails
\* elsewhere: while the idempotency key is intact, one task is submitted.
THEOREM KeyAdmitsOneTask == GateSpec => []OneTaskPerKey
<1>1. StreamInit /\ GateInit => KeyInv
  BY DEF StreamInit, GateInit, KeyInv, Appended, Logged, Lanes
<1>2. StreamTypeOK /\ GateTypeOK /\ KeyInv /\ [GateNext]_vars => KeyInv'
  BY KeyInvStep
<1>3. KeyInv => OneTaskPerKey
  <2>1. SUFFICES ASSUME KeyInv, NEW q \in Entries, NEW r \in Entries,
                        q \in Appended, r \in Appended, Key(q) = Key(r), Key(r) \notin keyLost
                 PROVE  q = r
    BY DEF OneTaskPerKey
  <2>2. idem[Key(q)] = q /\ idem[Key(r)] = r
    BY <2>1 DEF KeyInv
  <2>3. QED
    BY <2>1, <2>2
<1>4. GateSpec => []StreamTypeOK
  BY GatewayUsesQueue, StreamTypeCorrect, PTL
<1>5. QED
  BY <1>1, <1>2, <1>3, <1>4, GateTypeCorrect, PTL DEF GateSpec
=============================================================================
