---------------------------- MODULE GuardsProofs ----------------------------
(***************************************************************************)
(* The guards that concurrent agents share.  The shared circuit breaker,   *)
(* under every interleaving of accesses to its record and any number of    *)
(* failing Redis calls and of expiries; the throttle and the budget of the *)
(* model gateway, for every number of agents, intents, slots and retries,  *)
(* every limit and every cost of an answer.                                *)
(***************************************************************************)
EXTENDS SharedBreaker, ModelGateway, FiniteSetTheorems, TLAPS

----------------------------------------------------------------------------
(* The shared breaker: the invariant of its records. *)

\* A record that may be stored or about to be written: its failures are no
\* more than t, and it is open only if t is Threshold and q of the cooldown
\* covers what it has left.
Sound(r, t, q) ==
    /\ r \in Local!States
    /\ r.failures <= t
    /\ r.open => t = Threshold /\ r.cool <= q

\* The bound on what is left in the copy of c: the failure it is about to
\* write may have been stamped long after the last one that was written.
Until(c) == IF c \in Recorders THEN Cooldown ELSE quiet

\* The invariant, record by record.
LEMMA SoundRecords ==
    SharedInv <=> SharedTypeOK /\ Sound(Read(stored), total, quiet)
                               /\ \A c \in Calls : Sound(copy[c], total, Until(c))
<1>1. Local!Closed \in Local!States
  BY SharedAssumption DEF Local!Closed, Local!States
<1>2. SharedTypeOK => Read(stored) \in Local!States /\ \A c \in Calls : copy[c] \in Local!States
  BY <1>1 DEF SharedTypeOK, Read
<1>3. ASSUME SharedTypeOK
      PROVE  /\ OpensOnlyWhenEarned /\ RefusesOnlyAfterFailure
                <=> /\ Sound(Read(stored), total, quiet)
                    /\ \A c \in Calls : Sound(copy[c], total, Until(c))
  <2>1. \A c \in Calls : copy[c].cool <= Cooldown
    BY <1>2, <1>3, SharedAssumption DEF Local!States
  <2>2. ASSUME NEW c \in Calls
        PROVE  Sound(copy[c], total, Until(c)) <=>
                 /\ copy[c].failures <= total /\ (copy[c].open => total = Threshold)
                 /\ c \notin Recorders /\ copy[c].open => copy[c].cool <= quiet
    BY <1>2, <1>3, <2>1 DEF Sound, Until
  <2>3. Sound(Read(stored), total, quiet) <=>
          /\ Read(stored).failures <= total /\ (Read(stored).open => total = Threshold)
          /\ Read(stored).open => Read(stored).cool <= quiet
    BY <1>2, <1>3 DEF Sound
  <2>4. QED
    BY <2>2, <2>3 DEF OpensOnlyWhenEarned, RefusesOnlyAfterFailure, Records
<1>4. QED
  BY <1>3 DEF SharedInv

LEMMA ClosedIsSound ==
    ASSUME NEW t \in 0..Threshold, NEW q \in 0..Cooldown
    PROVE  Sound(Local!Closed, t, q)
  BY SharedAssumption DEF Sound, Local!Closed, Local!States

\* More failures and more cooldown do not spoil a record.
LEMMA SoundGrows ==
    ASSUME NEW t \in 0..Threshold, NEW q \in 0..Cooldown, NEW r, Sound(r, t, q),
           NEW q2 \in 0..Cooldown, q2 = q \/ q2 = Cooldown
    PROVE  Sound(r, Local!OneMore(t), q2)
  BY SharedAssumption DEF Sound, Local!OneMore, Local!States

\* What record_failure() writes for a sound record is sound once the failure
\* is counted.
LEMMA FailedIsSound ==
    ASSUME NEW t \in 0..Threshold, NEW q \in 0..Cooldown, NEW r, Sound(r, t, q)
    PROVE  /\ Local!Failed(r) \in Local!States
           /\ Sound(Local!Failed(r), Local!OneMore(t),
                    IF Local!Failed(r).open THEN Cooldown ELSE q)
<1> DEFINE n == Local!OneMore(r.failures)
<1> USE SharedAssumption
<1>1. /\ n \in 0..Threshold /\ Cooldown \in 0..Cooldown
      /\ n <= Local!OneMore(t) /\ r.failures <= Local!OneMore(t)
      /\ Local!OneMore(t) \in 0..Threshold
      /\ t = Threshold => Local!OneMore(t) = Threshold
  BY DEF Sound, Local!States, Local!OneMore
<1>2. r = [failures |-> r.failures, open |-> r.open, cool |-> r.cool, probing |-> r.probing]
      /\ r.open \in BOOLEAN /\ r.cool \in 0..Cooldown /\ r.failures \in 0..Threshold
  BY DEF Sound, Local!States
<1>3. CASE r.probing
  <2>1. Local!Failed(r) = [failures |-> r.failures, open |-> r.open, cool |-> Cooldown, probing |-> FALSE]
    BY <1>2, <1>3 DEF Local!Failed
  <2>2. QED
    BY <1>1, <1>2, <2>1 DEF Sound, Local!States
<1>4. CASE ~r.probing
  <2>1. CASE n = Threshold
    <3>1. Local!Failed(r) = [failures |-> n, open |-> TRUE, cool |-> Cooldown, probing |-> FALSE]
      BY <1>2, <1>4, <2>1 DEF Local!Failed, Sound, Local!States
    <3>2. QED
      BY <1>1, <2>1, <3>1 DEF Sound, Local!States
  <2>2. CASE n # Threshold
    <3>1. Local!Failed(r) = [failures |-> n, open |-> r.open, cool |-> r.cool, probing |-> FALSE]
      BY <1>2, <1>4, <2>2 DEF Local!Failed, Sound, Local!States
    <3>2. QED
      BY <1>1, <1>2, <2>2, <3>1 DEF Sound, Local!States
  <2>3. QED
    BY <2>1, <2>2
<1>5. QED
  BY <1>3, <1>4 DEF Sound, Local!States

\* Time makes a sound record and its bound on the cooldown older together.
LEMMA OlderIsSound ==
    ASSUME NEW t \in 0..Threshold, NEW q \in 0..Cooldown, NEW r, Sound(r, t, q)
    PROVE  Sound(Older(r), t, Local!Waned(q))
<1>1. Older(r) = [failures |-> r.failures, open |-> r.open,
                  cool |-> Local!Waned(r.cool), probing |-> r.probing]
  BY DEF Older, Sound, Local!States
<1>2. /\ Local!Waned(r.cool) \in 0..Cooldown
      /\ r.cool <= q => Local!Waned(r.cool) <= Local!Waned(q)
  BY SharedAssumption DEF Sound, Local!States, Local!Waned
<1>3. QED
  BY <1>1, <1>2 DEF Sound, Local!States

LEMMA SharedInitInv == SharedInit => SharedInv
<1> SUFFICES ASSUME SharedInit PROVE SharedInv
  OBVIOUS
<1>1. 0 \in 0..Threshold /\ 0 \in 0..Cooldown
  BY SharedAssumption
<1>2. Sound(Local!Closed, 0, 0) /\ Local!Closed \in Local!States
  BY <1>1, ClosedIsSound DEF Sound
<1>3. SharedTypeOK
  BY <1>2, SharedAssumption DEF SharedInit, SharedTypeOK
<1>4. Sound(Read(stored), total, quiet) /\ \A c \in Calls : Sound(copy[c], total, Until(c))
  BY <1>2 DEF SharedInit, Read, Until, Recorders
<1>5. QED
  BY <1>3, <1>4, SoundRecords

\* The invariant without what no action but its own touches: where callers
\* are, the streak and the budgets stay in their types.
Control == /\ at \in [Calls -> {"idle", "marking", "running", "probe", "recording",
                                "recordingProbe", "refused"}]
           /\ streak \in 0..Threshold /\ inTurn \in BOOLEAN
           /\ faults \in 0..MaxFaults /\ lapses \in 0..MaxLapses

\* The rest: every record is sound.
Sounds == /\ stored \in Local!States \cup {Nothing}
          /\ copy \in [Calls -> Local!States]
          /\ quiet \in 0..Cooldown /\ total \in 0..Threshold
          /\ Sound(Read(stored), total, quiet)
          /\ \A c \in Calls : Sound(copy[c], total, Until(c))

LEMMA SharedInvParts == SharedInv <=> Control /\ Sounds
  BY SoundRecords DEF SharedInv, SharedTypeOK, Control, Sounds

LEMMA ControlStep == Control /\ [SharedNext]_sharedVars => Control'
<1> SUFFICES ASSUME Control, [SharedNext]_sharedVars PROVE Control'
  OBVIOUS
<1> USE SharedAssumption DEF Control, budget, history
<1>a. inTurn' \in BOOLEAN
  BY DEF SharedNext, sharedVars
<1>1. ASSUME NEW r, Reads(r) PROVE faults' \in 0..MaxFaults /\ lapses' \in 0..MaxLapses
  BY <1>1 DEF Reads, Fault
<1>2. ASSUME NEW r, Writes(r) PROVE faults' \in 0..MaxFaults /\ lapses' \in 0..MaxLapses
  BY <1>2 DEF Writes, Fault
<1>3. Local!OneMore(streak) \in 0..Threshold
  BY DEF Local!OneMore
<1>4. ASSUME NEW c \in Calls, AskClosed(c) \/ Fail(c) PROVE Control'
  <2>1. at[c] \in {"running", "probe"} => Recording[at[c]] \in {"recording", "recordingProbe"}
    BY DEF Recording
  <2>2. QED
    BY <1>a, <1>1, <1>4, <2>1 DEF AskClosed, Fail, Move
<1>5. ASSUME NEW c \in Calls, Mark(c) \/ Succeed(c) PROVE Control'
  BY <1>a, <1>2, <1>5 DEF Mark, Succeed, Move
<1>6. ASSUME NEW c \in Calls, AskCooled(c) \/ Refuse(c) \/ Return(c) \/ Vanish(c) PROVE Control'
  BY <1>a, <1>6 DEF AskCooled, Refuse, Return, Vanish, Move
<1>7. ASSUME NEW c \in Calls, Record(c) PROVE Control'
  BY <1>a, <1>2, <1>3, <1>7 DEF Record, Move
<1>8. CASE Tick
  BY <1>a, <1>8 DEF Tick
<1>9. CASE Expire
  BY <1>a, <1>9 DEF Expire
<1>10. CASE UNCHANGED sharedVars
  BY <1>a, <1>10 DEF sharedVars
<1>11. QED
  BY <1>a, <1>4, <1>5, <1>6, <1>7, <1>8, <1>9, <1>10 DEF SharedNext, Step

\* Whatever a Redis read returns is sound.
LEMMA ReadIsSound ==
    ASSUME Sounds, NEW r \in {stored, Nothing}
    PROVE  Sound(Read(r), total, quiet)
  BY ClosedIsSound DEF Sounds, Read

\* A step that writes r, leaves the history alone and changes at most the
\* copy of c, to k.
LEMMA WriteKeepsSounds ==
    ASSUME Sounds, NEW r, Writes(r), Sound(Read(r), total, quiet),
           r \in Local!States \cup {Nothing},
           UNCHANGED <<quiet, total>>,
           copy' \in [Calls -> Local!States],
           \A c \in Calls : Sound(copy'[c], total, Until(c)')
    PROVE  Sounds'
  BY DEF Sounds, Writes, Read

\* A caller that moves to no recording leaves the bounds of the others alone.
LEMMA OthersBounds ==
    ASSUME Control, NEW c \in Calls, NEW to, at' = [at EXCEPT ![c] = to], quiet' = quiet
    PROVE  /\ \A d \in Calls \ {c} : Until(d)' = Until(d)
           /\ to \notin {"recording", "recordingProbe"} => Until(c)' = quiet
           /\ to \in {"recording", "recordingProbe"} => Until(c)' = Cooldown
  BY DEF Control, Until, Recorders

LEMMA SoundsStep == Control /\ Sounds /\ [SharedNext]_sharedVars => Sounds'
<1> SUFFICES ASSUME Control, Sounds, [SharedNext]_sharedVars PROVE Sounds'
  OBVIOUS
<1>1. /\ Sound(Local!Closed, total, quiet) /\ Local!Closed \in Local!States
      /\ copy \in [Calls -> Local!States] /\ total \in 0..Threshold /\ quiet \in 0..Cooldown
      /\ Read(Nothing) = Local!Closed
  BY ClosedIsSound DEF Sounds, Sound, Read
\* What a caller does to its own copy.
<1>2. ASSUME NEW c \in Calls, NEW k, copy' = [copy EXCEPT ![c] = k], Sound(k, total, quiet),
             NEW to, to \notin {"recording", "recordingProbe"},
             at' = [at EXCEPT ![c] = to], quiet' = quiet
      PROVE  copy' \in [Calls -> Local!States] /\ \A d \in Calls : Sound(copy'[d], total, Until(d)')
  <2>1. k \in Local!States
    BY <1>2 DEF Sound
  <2>2. /\ Until(c)' = quiet /\ \A d \in Calls \ {c} : Until(d)' = Until(d)
    BY <1>2, OthersBounds
  <2>3. copy'[c] = k /\ \A d \in Calls \ {c} : copy'[d] = copy[d]
    BY <1>1, <1>2
  <2>4. ASSUME NEW d \in Calls PROVE Sound(copy'[d], total, Until(d)')
    <3>1. CASE d = c
      BY <1>2, <2>2, <2>3, <3>1
    <3>2. CASE d # c
      BY <2>2, <2>3, <3>2 DEF Sounds
    <3>3. QED
      BY <3>1, <3>2
  <2>5. QED
    BY <1>1, <1>2, <2>1, <2>4
<1>3. ASSUME NEW c \in Calls, AskClosed(c) \/ Refuse(c) \/ Return(c) PROVE Sounds'
  <2>1. /\ at[c] \in {"idle", "refused"}
        /\ \E to \in {"running", "refused", "idle"} : at' = [at EXCEPT ![c] = to]
        /\ UNCHANGED <<stored, copy, quiet, total>>
    BY <1>3 DEF AskClosed, Refuse, Return, Move, history
  <2>2. \A d \in Calls : Until(d)' = Until(d)
    BY <2>1 DEF Until, Recorders, Control
  <2>3. QED
    BY <2>1, <2>2 DEF Sounds, Read
<1>4. ASSUME NEW c \in Calls, AskCooled(c) PROVE Sounds'
  <2>1. stored # Nothing /\ stored \in Local!States /\ Sound(stored, total, quiet)
    BY <1>4 DEF AskCooled, Sounds, Read, Local!Closed
  <2>2. Sound([stored EXCEPT !.probing = TRUE], total, quiet)
    BY <2>1 DEF Sound, Local!States
  <2>3. /\ copy' = [copy EXCEPT ![c] = [stored EXCEPT !.probing = TRUE]]
        /\ at' = [at EXCEPT ![c] = "marking"]
        /\ UNCHANGED <<stored, quiet, total>>
    BY <1>4 DEF AskCooled, Move, history
  <2>4. copy' \in [Calls -> Local!States] /\ \A d \in Calls : Sound(copy'[d], total, Until(d)')
    BY <1>2, <2>2, <2>3
  <2>5. QED
    BY <2>3, <2>4 DEF Sounds, Read
<1>5. ASSUME NEW c \in Calls, Mark(c) PROVE Sounds'
  <2>0. /\ at[c] = "marking" /\ at' = [at EXCEPT ![c] = "probe"]
        /\ Writes(copy[c]) /\ copy' = [copy EXCEPT ![c] = Local!Closed]
        /\ UNCHANGED <<quiet, total>>
    BY <1>5 DEF Mark, Move, history
  <2>1. Sound(copy[c], total, quiet) /\ copy[c] \in Local!States
    BY <2>0 DEF Sounds, Sound, Until, Recorders
  <2>2. Sound(Read(copy[c]), total, quiet)
    BY <1>1, <2>1 DEF Read
  <2>3. copy' \in [Calls -> Local!States] /\ \A d \in Calls : Sound(copy'[d], total, Until(d)')
    BY <1>1, <1>2, <2>0
  <2>4. QED
    BY <2>0, <2>1, <2>2, <2>3, WriteKeepsSounds
<1>6. ASSUME NEW c \in Calls, Succeed(c) PROVE Sounds'
  <2>0. /\ at[c] \in {"running", "probe"} /\ at' = [at EXCEPT ![c] = "idle"]
        /\ Writes(Nothing) /\ UNCHANGED <<copy, quiet, total>>
    BY <1>6 DEF Succeed, Move
  <2>1. \A d \in Calls : Until(d)' = Until(d)
    BY <2>0 DEF Until, Recorders, Control
  <2>2. \A d \in Calls : Sound(copy'[d], total, Until(d)')
    BY <2>0, <2>1 DEF Sounds
  <2>3. QED
    BY <1>1, <2>0, <2>2, WriteKeepsSounds
<1>7. ASSUME NEW c \in Calls, Vanish(c) PROVE Sounds'
  <2>1. /\ at' = [at EXCEPT ![c] = "idle"] /\ copy' = [copy EXCEPT ![c] = Local!Closed]
        /\ UNCHANGED <<stored, quiet, total>>
    BY <1>7 DEF Vanish, Move, history
  <2>2. copy' \in [Calls -> Local!States] /\ \A d \in Calls : Sound(copy'[d], total, Until(d)')
    BY <1>1, <1>2, <2>1
  <2>3. QED
    BY <2>1, <2>2 DEF Sounds, Read
<1>8. ASSUME NEW c \in Calls, Fail(c) PROVE Sounds'
  <2> DEFINE t2 == Local!OneMore(total)
  <2>1. PICK r \in {stored, Nothing} : copy' = [copy EXCEPT ![c] = Local!Failed(Read(r))]
    BY <1>8 DEF Fail
  <2>2. /\ at[c] \in {"running", "probe"} /\ at' = [at EXCEPT ![c] = Recording[at[c]]]
        /\ total' = t2 /\ UNCHANGED <<stored, quiet>>
    BY <1>8 DEF Fail, Move
  <2>3. Recording[at[c]] \in {"recording", "recordingProbe"}
    BY <2>2 DEF Recording
  <2> DEFINE k == Local!Failed(Read(r))
             q2 == IF k.open THEN Cooldown ELSE quiet
  <2>4. k \in Local!States /\ Sound(k, t2, q2)
    BY <1>1, ReadIsSound, FailedIsSound
  <2>5. t2 \in 0..Threshold /\ Cooldown \in 0..Cooldown
    BY <1>1, SharedAssumption DEF Local!OneMore
  <2> HIDE DEF k
  <2>6. Sound(k, t2, Cooldown)
    BY <1>1, <2>4, SharedAssumption DEF Sound, Local!States
  <2>7. ASSUME NEW s, NEW q \in 0..Cooldown, Sound(s, total, q) PROVE Sound(s, t2, q)
    BY <1>1, <2>7, SoundGrows
  <2>8. Until(c)' = Cooldown /\ \A d \in Calls \ {c} : Until(d)' = Until(d)
    BY <2>2, <2>3, OthersBounds
  <2>9. copy'[c] = k /\ \A d \in Calls \ {c} : copy'[d] = copy[d]
    BY <1>1, <2>1 DEF k
  <2>10. ASSUME NEW d \in Calls PROVE Sound(copy'[d], t2, Until(d)')
    <3>1. CASE d = c
      BY <2>6, <2>8, <2>9, <3>1
    <3>2. CASE d # c
      <4>1. Sound(copy[d], total, Until(d)) /\ Until(d) \in 0..Cooldown
        BY <1>1, <2>5 DEF Sounds, Until
      <4>2. QED
        BY <2>7, <2>8, <2>9, <3>2, <4>1
    <3>3. QED
      BY <3>1, <3>2
  <2>11. copy' \in [Calls -> Local!States]
    BY <1>1, <2>1, <2>4 DEF k
  <2>12. Sound(Read(stored), t2, quiet)
    BY <1>1, <2>7 DEF Sounds
  <2>13. QED
    BY <2>2, <2>5, <2>10, <2>11, <2>12 DEF Sounds, Read
<1>9. ASSUME NEW c \in Calls, Record(c) PROVE Sounds'
  <2> DEFINE after == copy[c]
             q2 == IF after.open THEN Cooldown ELSE quiet
  <2>1. /\ Writes(after) /\ quiet' = q2 /\ total' = total
        /\ copy' = [copy EXCEPT ![c] = Local!Closed]
        /\ at' = [at EXCEPT ![c] = "idle"]
    BY <1>9 DEF Record, Move
  <2>2. Sound(after, total, Until(c)) /\ Sound(Read(stored), total, quiet) /\ after \in Local!States
    BY DEF Sounds, Sound
  <2>3. Sound(after, total, q2)
    BY <1>1, <2>2, SharedAssumption DEF Sound, Local!States
  <2>4. q2 \in 0..Cooldown /\ Cooldown \in 0..Cooldown /\ quiet <= q2 /\ quiet <= Cooldown
    BY <1>1, SharedAssumption
  <2> HIDE DEF q2
  <2>5. ASSUME NEW s, Sound(s, total, quiet) PROVE Sound(s, total, q2)
    BY <1>1, <2>4, <2>5 DEF Sound, Local!States
  <2>6. ASSUME NEW d \in Calls PROVE Sound(copy'[d], total, Until(d)')
    <3>1. Until(d)' = IF d # c /\ d \in Recorders THEN Cooldown ELSE q2
      BY <2>1 DEF Until, Recorders, Control
    <3>2. CASE d = c
      BY <1>1, <2>1, <2>5, <3>1, <3>2
    <3>3. CASE d # c
      <4>1. Sound(copy[d], total, Until(d)) /\ copy'[d] = copy[d]
        BY <1>1, <2>1, <3>3 DEF Sounds
      <4>2. QED
        BY <2>5, <3>1, <3>3, <4>1 DEF Until
    <3>4. QED
      BY <3>2, <3>3
  <2>7. Sound(Read(after), total, q2) /\ Sound(Read(stored), total, q2) /\ Sound(Local!Closed, total, q2)
    BY <1>1, <2>2, <2>3, <2>5 DEF Read
  <2>8. stored' = after \/ stored' = stored
    BY <2>1 DEF Writes
  <2>9. /\ stored' \in Local!States \cup {Nothing}
        /\ copy' \in [Calls -> Local!States]
        /\ Sound(Read(stored)', total, q2)
    BY <1>1, <2>1, <2>2, <2>7, <2>8 DEF Sounds, Read
  <2>10. QED
    BY <1>1, <2>1, <2>4, <2>6, <2>9 DEF Sounds
<1>10. CASE Tick
  <2>1. /\ stored' = IF stored = Nothing THEN Nothing ELSE Older(stored)
        /\ copy' = [c \in Calls |-> Older(copy[c])]
        /\ quiet' = Local!Waned(quiet) /\ total' = total /\ at' = at
    BY <1>10 DEF Tick
  <2>2. ASSUME NEW r, Sound(r, total, quiet)
        PROVE  Sound(Older(r), total, Local!Waned(quiet)) /\ Older(r) \in Local!States
    <3>1. Sound(Older(r), total, Local!Waned(quiet))
      BY <1>1, <2>2, OlderIsSound
    <3>2. QED
      BY <3>1 DEF Sound
  <2>3. Local!Waned(quiet) \in 0..Cooldown
    BY <1>1, SharedAssumption DEF Local!Waned
  <2>4. Sound(Local!Closed, total, Local!Waned(quiet))
    BY <1>1, <2>3, ClosedIsSound
  <2>5. ASSUME NEW c \in Calls
        PROVE  Older(copy[c]) \in Local!States /\ Sound(copy'[c], total, Until(c)')
    <3>1. Until(c)' = IF c \in Recorders THEN Cooldown ELSE Local!Waned(quiet)
      BY <2>1 DEF Until, Recorders
    <3>2. Until(c) \in 0..Cooldown /\ Sound(copy[c], total, Until(c)) /\ copy'[c] = Older(copy[c])
      BY <1>1, <2>1, SharedAssumption DEF Sounds, Until
    <3>3. Sound(Older(copy[c]), total, Local!Waned(Until(c))) /\ Older(copy[c]) \in Local!States
      <4>1. Sound(Older(copy[c]), total, Local!Waned(Until(c)))
        BY <1>1, <3>2, OlderIsSound
      <4>2. QED
        BY <4>1 DEF Sound
    <3>4. CASE c \in Recorders
      <4>1. Older(copy[c]).cool <= Cooldown
        BY <3>3, SharedAssumption DEF Local!States
      <4>2. QED
        BY <3>1, <3>2, <3>3, <3>4, <4>1 DEF Sound
    <3>5. CASE c \notin Recorders
      BY <3>1, <3>2, <3>3, <3>5 DEF Until
    <3>6. QED
      BY <3>3, <3>4, <3>5
  <2>9. copy' \in [Calls -> Local!States]
    BY <2>1, <2>5
  <2>6. CASE stored = Nothing
    BY <1>1, <2>1, <2>3, <2>4, <2>5, <2>6, <2>9 DEF Sounds, Read
  <2>7. CASE stored # Nothing
    <3>1. Sound(stored, total, quiet)
      BY <2>7 DEF Sounds, Read
    <3>2. stored' = Older(stored) /\ Older(stored) \in Local!States
          /\ Sound(Older(stored), total, Local!Waned(quiet))
      BY <2>1, <2>2, <2>7, <3>1
    <3>3. Sound(Read(stored'), total, Local!Waned(quiet))
      BY <2>4, <3>2 DEF Read
    <3>4. QED
      BY <1>1, <2>1, <2>3, <2>5, <2>9, <3>2, <3>3 DEF Sounds, Read
  <2>8. QED
    BY <2>6, <2>7
<1>11. CASE Expire
  <2>1. /\ stored' = Nothing /\ UNCHANGED <<copy, at, quiet, total>>
    BY <1>11 DEF Expire, history
  <2>2. \A c \in Calls : Until(c)' = Until(c)
    BY <2>1 DEF Until, Recorders
  <2>3. QED
    BY <1>1, <2>1, <2>2 DEF Sounds, Read
<1>12. CASE UNCHANGED sharedVars
  <2>1. UNCHANGED <<stored, copy, at, quiet, total>>
    BY <1>12 DEF sharedVars
  <2>2. \A c \in Calls : Until(c)' = Until(c)
    BY <2>1 DEF Until, Recorders
  <2>3. QED
    BY <2>1, <2>2 DEF Sounds, Read
<1>13. QED
  BY <1>3, <1>4, <1>5, <1>6, <1>7, <1>8, <1>9, <1>10, <1>11, <1>12 DEF SharedNext, Step

\* The inductive invariant of the shared breaker.
THEOREM SharedInvariant == SharedSpec => []SharedInv
<1>1. SharedInv /\ [SharedNext]_sharedVars => SharedInv'
  <2>1. SharedInv => Control /\ Sounds
    BY SharedInvParts
  <2>2. Control' /\ Sounds' => SharedInv'
    BY SharedInvParts, PTL
  <2>3. QED
    BY <2>1, <2>2, ControlStep, SoundsStep
<1>2. QED
  BY <1>1, SharedInitInv, PTL DEF SharedSpec

\* However reads and writes of the record overlap, fail or lapse, the breaker
\* is never open, nor about to be written open, before Threshold failures.
THEOREM EarnedOpens == SharedSpec => []OpensOnlyWhenEarned
<1>1. SharedInv => OpensOnlyWhenEarned
  BY DEF SharedInv
<1>2. QED
  BY <1>1, SharedInvariant, PTL

\* No lost or late write makes a refusal outlast the cooldown that follows a
\* recorded failure.
THEOREM RefusalsEarned == SharedSpec => []RefusesOnlyAfterFailure
<1>1. SharedInv => RefusesOnlyAfterFailure
  BY DEF SharedInv
<1>2. QED
  BY <1>1, SharedInvariant, PTL

----------------------------------------------------------------------------
(* Without overlaps the shared breaker is the local one. *)

\* A call may access the record only when no other one does.
LEMMA AccessAlone ==
    ASSUME inTurn, MayAccess
    PROVE  Accessing = {}
<1>1. IsFiniteSet(Accessing)
  <2>1. Accessing \subseteq Calls
    BY DEF Accessing, Recorders
  <2>2. QED
    BY <2>1, SharedAssumption, FS_Subset
<1>2. Cardinality(Accessing) \in Nat /\ Cardinality(Accessing) < 1
  BY <1>1, FS_CardinalityType DEF MayAccess
<1>3. Cardinality(Accessing) = 0
  BY <1>2
<1>4. QED
  BY <1>1, <1>3, FS_EmptySet

\* Records are told apart by their fields.
LEMMA RecordFields ==
    ASSUME NEW r \in Local!States
    PROVE  /\ r = [failures |-> r.failures, open |-> r.open, cool |-> r.cool,
                   probing |-> r.probing]
           /\ r.failures \in 0..Threshold /\ r.open \in BOOLEAN
           /\ r.cool \in 0..Cooldown /\ r.probing \in BOOLEAN
           /\ r # Nothing
  BY NothingAssumption DEF Local!States

\* What the state is as soon as it is well typed.
LEMMA SharedTypes ==
    ASSUME SharedTypeOK
    PROVE  /\ Local!Closed \in Local!States
           /\ Read(stored) \in Local!States
           /\ stored # Nothing => stored \in Local!States /\ Read(stored) = stored
           /\ stored = Nothing => Read(stored) = Local!Closed
           /\ copy \in [Calls -> Local!States]
           /\ at \in [Calls -> {"idle", "marking", "running", "probe", "recording",
                                "recordingProbe", "refused"}]
<1>1. Local!Closed \in Local!States
  BY SharedAssumption DEF Local!Closed, Local!States
<1>2. QED
  BY <1>1 DEF SharedTypeOK, Read

\* What a write leaves when Redis does not fail.
LEMMA WritesInTurn ==
    ASSUME inTurn, NEW r, Writes(r)
    PROVE  stored' = r
BY DEF Writes, Fault

\* A call that ends its access leaves nothing behind it.
LEMMA LastAccess ==
    ASSUME inTurn, TurnInv, SharedTypeOK, inTurn' = inTurn,
           NEW c \in Accessing, NEW to \in {"idle", "running", "probe", "refused"},
           at' = [at EXCEPT ![c] = to]
    PROVE  TurnInv'
<1>1. Accessing = {c}
  BY DEF TurnInv
<1>2. \A d \in Calls : at'[d] \notin {"marking", "recording", "recordingProbe"}
  BY <1>1, SharedTypes DEF Accessing, Recorders
<1>3. QED
  BY <1>2 DEF TurnInv, Accessing, Recorders

\* A step between accesses.
LEMMA NoAccess ==
    ASSUME inTurn, SharedTypeOK, inTurn' = inTurn, Accessing = {},
           NEW c \in Calls, NEW to \in {"idle", "running", "probe", "refused"},
           at' = [at EXCEPT ![c] = to]
    PROVE  TurnInv'
<1>1. \A d \in Calls : at'[d] \notin {"marking", "recording", "recordingProbe"}
  BY SharedTypes DEF Accessing, Recorders
<1>2. QED
  BY <1>1 DEF TurnInv, Accessing, Recorders

\* What ageing makes of a record.
LEMMA OlderFields ==
    ASSUME NEW s \in Local!States
    PROVE  /\ Older(s) = [failures |-> s.failures, open |-> s.open,
                          cool |-> Local!Waned(s.cool), probing |-> s.probing]
           /\ Older(s) \in Local!States
           /\ Older(s).failures = s.failures /\ Older(s).open = s.open
           /\ Older(s).cool = Local!Waned(s.cool) /\ Older(s).probing = s.probing
<1>1. /\ s = [failures |-> s.failures, open |-> s.open, cool |-> s.cool, probing |-> s.probing]
      /\ s.failures \in 0..Threshold /\ s.open \in BOOLEAN
      /\ s.cool \in 0..Cooldown /\ s.probing \in BOOLEAN
  BY RecordFields
<1>2. Older(s) = [failures |-> s.failures, open |-> s.open,
                  cool |-> Local!Waned(s.cool), probing |-> s.probing]
  BY <1>1 DEF Older
<1>3. Local!Waned(s.cool) \in 0..Cooldown
  BY <1>1, SharedAssumption DEF Local!Waned
<1>4. QED
  BY <1>1, <1>2, <1>3 DEF Local!States

\* In turn, no time passes within an access.
LEMMA TickKeepsTurn ==
    ASSUME inTurn, Tick, inTurn' = inTurn
    PROVE  TurnInv'
<1>1. Accessing = {} /\ at' = at
  BY DEF Tick
<1>2. \A c \in Calls : at'[c] \notin {"marking", "recording", "recordingProbe"}
  BY <1>1 DEF Accessing, Recorders
<1>3. QED
  BY <1>2 DEF TurnInv, Accessing, Recorders

LEMMA TurnStep == SharedTypeOK /\ TurnInv /\ [SharedNext]_sharedVars => TurnInv'
<1> SUFFICES ASSUME SharedTypeOK, TurnInv, [SharedNext]_sharedVars, inTurn
             PROVE  TurnInv'
  BY DEF TurnInv, SharedNext, sharedVars
<1>1. inTurn' = inTurn
  BY DEF SharedNext, sharedVars
<1>2. /\ copy \in [Calls -> Local!States]
      /\ at \in [Calls -> {"idle", "marking", "running", "probe", "recording",
                           "recordingProbe", "refused"}]
  BY SharedTypes
<1>3. ASSUME NEW c \in Calls, AskClosed(c) \/ Refuse(c) \/ Succeed(c) PROVE TurnInv'
  <2>1. Accessing = {}
    BY <1>3, AccessAlone DEF AskClosed, Refuse, Succeed
  <2>2. \E to \in {"idle", "running", "probe", "refused"} : at' = [at EXCEPT ![c] = to]
    BY <1>3 DEF AskClosed, Refuse, Succeed, Move
  <2>3. QED
    BY <1>1, <2>1, <2>2, NoAccess
<1>4. ASSUME NEW c \in Calls, AskCooled(c) PROVE TurnInv'
  <2>1. Accessing = {}
    BY <1>4, AccessAlone DEF AskCooled
  <2>2. /\ at' = [at EXCEPT ![c] = "marking"]
        /\ copy' = [copy EXCEPT ![c] = [stored EXCEPT !.probing = TRUE]]
        /\ stored' = stored
        /\ Read(stored).open /\ stored.cool = 0
    BY <1>4 DEF AskCooled, Move
  <2>3. stored # Nothing /\ stored.open
    BY <2>2 DEF Read, Local!Closed
  <2>4. \A d \in Calls : at'[d] \in {"marking", "recording", "recordingProbe"} => d = c
    BY <1>2, <2>1, <2>2 DEF Accessing, Recorders
  <2>5. at'[c] = "marking" /\ copy'[c] = [stored EXCEPT !.probing = TRUE]
    BY <1>2, <2>2
  <2>6. QED
    BY <2>2, <2>3, <2>4, <2>5 DEF TurnInv, Accessing, Recorders
<1>5. ASSUME NEW c \in Calls, Mark(c) \/ Record(c) PROVE TurnInv'
  <2>1. c \in Accessing
    BY <1>5 DEF Mark, Record, Move, Accessing, Recorders
  <2>2. \E to \in {"idle", "running", "probe", "refused"} : at' = [at EXCEPT ![c] = to]
    BY <1>5 DEF Mark, Record, Move
  <2>3. QED
    BY <1>1, <2>1, <2>2, LastAccess
<1>6. ASSUME NEW c \in Calls, Fail(c) PROVE TurnInv'
  <2>1. Accessing = {}
    BY <1>6, AccessAlone DEF Fail
  <2>2. /\ at[c] \in {"running", "probe"}
        /\ at' = [at EXCEPT ![c] = Recording[at[c]]]
        /\ copy' = [copy EXCEPT ![c] = Local!Failed(Read(stored))]
        /\ stored' = stored
    BY <1>6 DEF Fail, Move, Reads, Fault
  <2>3. Recording[at[c]] \in {"recording", "recordingProbe"}
    BY <2>2 DEF Recording
  <2>4. \A d \in Calls : at'[d] \in {"marking", "recording", "recordingProbe"} => d = c
    BY <1>2, <2>1, <2>2 DEF Accessing, Recorders
  <2>5. at'[c] # "marking" /\ copy'[c] = Local!Failed(Read(stored))
    BY <1>2, <2>2, <2>3
  <2>6. Read(stored)' = Read(stored)
    BY <2>2 DEF Read
  <2>7. \A d \in Recorders' : copy'[d] = Local!Failed(Read(stored)')
    BY <2>4, <2>5, <2>6 DEF Recorders
  <2>8. (\A d \in Recorders : copy[d] = Local!Failed(Read(stored)))'
    BY <2>5, <2>7, <2>4, <2>6 DEF Recorders, Local!Failed, Local!OneMore
  <2>9. QED
    BY <2>4, <2>5, <2>8 DEF TurnInv, Accessing, Recorders
<1>7. ASSUME NEW c \in Calls, Return(c) \/ Vanish(c) PROVE TurnInv'
  <2>1. CASE c \in Accessing
    <3>1. at' = [at EXCEPT ![c] = "idle"]
      BY <1>7 DEF Return, Vanish, Move
    <3>2. QED
      BY <1>1, <2>1, <3>1, LastAccess
  <2>2. CASE c \notin Accessing
    <3>1. /\ at' = [at EXCEPT ![c] = "idle"] /\ stored' = stored
          /\ copy' = copy \/ copy' = [copy EXCEPT ![c] = Local!Closed]
      BY <1>7 DEF Return, Vanish, Move
    <3>2. \A d \in Calls :
            /\ at'[d] \in {"marking", "recording", "recordingProbe"} =>
                  d # c /\ at'[d] = at[d] /\ copy'[d] = copy[d]
      BY <1>2, <3>1
    <3>3. Accessing' \subseteq Accessing /\ Recorders' \subseteq Recorders /\ Read(stored)' = Read(stored)
      BY <3>1, <3>2 DEF Accessing, Recorders, Read
    <3>4. \A d \in Recorders' : copy'[d] = copy[d]
      BY <3>2 DEF Recorders
    <3>5. QED
      BY <3>1, <3>2, <3>3, <3>4 DEF TurnInv
  <2>3. QED
    BY <2>1, <2>2
<1>8. CASE Tick
  BY <1>1, <1>8, TickKeepsTurn
<1>9. CASE UNCHANGED sharedVars
  BY <1>9 DEF sharedVars, TurnInv, Accessing, Recorders, Read
<1>10. QED
  BY <1>3, <1>4, <1>5, <1>6, <1>7, <1>8, <1>9 DEF SharedNext, Step, Expire

\* Where the local breaker sees a call.
As(p) == CASE p = "recording" -> "running" [] p = "recordingProbe" -> "probe"
           [] p = "marking" -> "idle" [] OTHER -> p

LEMMA AdmittedMoves ==
    ASSUME SharedTypeOK, NEW c \in Calls, NEW to, at' = [at EXCEPT ![c] = to]
    PROVE  /\ Admitted[c] = As(at[c])
           /\ Admitted' = [Admitted EXCEPT ![c] = As(to)]
<1>1. at \in [Calls -> {"idle", "marking", "running", "probe", "recording",
                        "recordingProbe", "refused"}]
  BY SharedTypes
<1>2. Admitted = [d \in Calls |-> As(at[d])]
  BY DEF Admitted, As
<1>3. Admitted' = [d \in Calls |-> As(at'[d])]
  BY DEF Admitted, As
<1>4. QED
  BY <1>1, <1>2, <1>3

\* What the local breaker sees of the record.
Circuit == IF inTurn /\ stored # Nothing
             THEN stored
             ELSE [failures |-> 0, open |-> FALSE, cool |-> 0, probing |-> FALSE]

LEMMA CircuitIsRead ==
    ASSUME inTurn
    PROVE  Circuit = Read(stored)
  BY DEF Circuit, Read, Local!Closed

\* A failure recorded in a record leaves one.
LEMMA FailedIsRecord ==
    ASSUME NEW r \in Local!States
    PROVE  Local!Failed(r) \in Local!States
<1>1. r.failures \in 0..Threshold /\ r.cool \in 0..Cooldown
  BY RecordFields
<1>2. Local!OneMore(r.failures) \in 0..Threshold /\ Cooldown \in 0..Cooldown
  BY <1>1, SharedAssumption DEF Local!OneMore
<1>3. QED
  BY <1>1, <1>2 DEF Local!Failed, Local!States

LEMMA AccessIsLocal ==
    ASSUME SharedTypeOK, TurnInv, inTurn, inTurn' = inTurn, NEW c \in Calls, Step(c)
    PROVE  [Local!BreakerNext]_(Local!breakerVars)
<1> DEFINE seen == IF inTurn THEN Admitted ELSE [d \in Calls |-> "idle"]
<1>1. Circuit = Read(stored) /\ Circuit' = Read(stored)' /\ seen = Admitted /\ seen' = Admitted'
  BY CircuitIsRead DEF Circuit, Read, Local!Closed
<1>2. Read(stored) \in Local!States
  BY SharedTypes
<1>3. CASE AskClosed(c)
  <2>1. at[c] = "idle" /\ at' = [at EXCEPT ![c] = "running"]
        /\ ~Read(stored).open /\ UNCHANGED <<stored, streak, quiet>>
    BY <1>3 DEF AskClosed, Move, Reads, Fault, history
  <2>2. seen[c] = "idle" /\ seen' = [seen EXCEPT ![c] = "running"]
    BY <1>1, <2>1, AdmittedMoves DEF As
  <2>3. Circuit' = Circuit /\ ~Circuit.open /\ [Circuit EXCEPT !.probing = @ \/ Circuit.open] = Circuit
    BY <1>1, <1>2, <2>1 DEF Local!States, Read
  <2>4. Local!Ask(c)
    BY <2>1, <2>2, <2>3 DEF Local!Ask, Local!Allows, Local!Move, Circuit
  <2>5. QED
    BY <2>4 DEF Local!BreakerNext
<1>4. CASE Refuse(c)
  <2>1. /\ at[c] = "idle" /\ at' = [at EXCEPT ![c] = "refused"]
        /\ Read(stored).open /\ stored.cool > 0 /\ UNCHANGED <<stored, streak, quiet>>
    BY <1>4 DEF Refuse, Move, history
  <2>2. seen[c] = "idle" /\ seen' = [seen EXCEPT ![c] = "refused"]
    BY <1>1, <2>1, AdmittedMoves DEF As
  <2>3. stored # Nothing
    BY <2>1 DEF Read, Local!Closed
  <2>4. Circuit' = Circuit /\ Circuit.open /\ Circuit.cool # 0
    BY <1>1, <1>2, <2>1, <2>3 DEF Local!States, Read
  <2>5. Local!Refuse(c)
    BY <2>1, <2>2, <2>4 DEF Local!Refuse, Local!Allows, Local!Move, Circuit
  <2>6. QED
    BY <2>5 DEF Local!BreakerNext
<1>5. CASE AskCooled(c)
  <2>1. at[c] = "idle" /\ at' = [at EXCEPT ![c] = "marking"] /\ UNCHANGED <<stored, streak, quiet>>
    BY <1>5 DEF AskCooled, Move, history
  <2>2. seen' = seen
    BY <1>1, <2>1, AdmittedMoves DEF As, Admitted
  <2>3. QED
    BY <2>1, <2>2 DEF Local!breakerVars
<1>6. CASE Mark(c)
  <2>1. /\ at[c] = "marking" /\ at' = [at EXCEPT ![c] = "probe"]
        /\ stored' = copy[c] /\ UNCHANGED <<streak, quiet>>
    BY <1>6, WritesInTurn DEF Mark, Move, history
  <2>2. /\ stored # Nothing /\ stored.open /\ stored.cool = 0
        /\ copy[c] = [stored EXCEPT !.probing = TRUE]
    BY <2>1 DEF TurnInv
  <2>3. copy[c] \in Local!States /\ copy[c] # Nothing
    BY SharedTypes, RecordFields
  <2>4. seen[c] = "idle" /\ seen' = [seen EXCEPT ![c] = "probe"]
    BY <1>1, <2>1, AdmittedMoves DEF As
  <2>5. Circuit = stored /\ Circuit' = [stored EXCEPT !.probing = TRUE]
    BY <1>1, <2>1, <2>2, <2>3 DEF Read
  <2>6. Circuit' = [Circuit EXCEPT !.probing = @ \/ Circuit.open]
    BY <2>2, <2>5
  <2>7. Local!Ask(c)
    BY <2>1, <2>2, <2>4, <2>5, <2>6 DEF Local!Ask, Local!Allows, Local!Move, Circuit
  <2>8. QED
    BY <2>7 DEF Local!BreakerNext
<1>7. CASE Return(c)
  <2>1. at[c] = "refused" /\ at' = [at EXCEPT ![c] = "idle"] /\ UNCHANGED <<stored, streak, quiet>>
    BY <1>7 DEF Return, Move, history
  <2>2. seen[c] = "refused" /\ seen' = [seen EXCEPT ![c] = "idle"]
    BY <1>1, <2>1, AdmittedMoves DEF As
  <2>3. Local!Return(c)
    BY <2>1, <2>2 DEF Local!Return, Local!Move
  <2>4. QED
    BY <2>3 DEF Local!BreakerNext
<1>8. CASE Succeed(c)
  <2>1. /\ at[c] \in {"running", "probe"} /\ at' = [at EXCEPT ![c] = "idle"]
        /\ stored' = Nothing /\ streak' = 0 /\ quiet' = quiet
    BY <1>8, WritesInTurn DEF Succeed, Move
  <2>2. seen[c] \in {"running", "probe"} /\ seen' = [seen EXCEPT ![c] = "idle"]
    BY <1>1, <2>1, AdmittedMoves DEF As
  <2>3. Local!Succeed(c)
    BY <2>1, <2>2 DEF Local!Succeed, Local!Move, Local!Running, Local!Closed
  <2>4. QED
    BY <2>3 DEF Local!BreakerNext, Local!Finish
<1>9. CASE Vanish(c)
  <2>1. /\ at[c] \in {"running", "probe", "marking", "recording", "recordingProbe"}
        /\ at' = [at EXCEPT ![c] = "idle"] /\ UNCHANGED <<stored, streak, quiet>>
    BY <1>9 DEF Vanish, Move, history
  <2>2. seen[c] = As(at[c]) /\ seen' = [seen EXCEPT ![c] = "idle"]
    BY <1>1, <2>1, AdmittedMoves DEF As
  <2>3. CASE at[c] = "marking"
    <3>1. seen' = seen
      BY <1>1, <2>2, <2>3 DEF As, Admitted
    <3>2. QED
      BY <2>1, <3>1 DEF Local!breakerVars
  <2>4. CASE at[c] # "marking"
    <3>1. seen[c] \in {"running", "probe"}
      BY <2>1, <2>2, <2>4 DEF As
    <3>2. Local!Vanish(c)
      BY <2>1, <2>2, <3>1 DEF Local!Vanish, Local!Move, Local!Running
    <3>3. QED
      BY <3>2 DEF Local!BreakerNext, Local!Finish
  <2>5. QED
    BY <2>3, <2>4
<1>10. CASE Fail(c)
  <2>1. /\ at[c] \in {"running", "probe"} /\ at' = [at EXCEPT ![c] = Recording[at[c]]]
        /\ UNCHANGED <<stored, streak, quiet>>
    BY <1>10 DEF Fail, Move, history
  <2>2. As(Recording[at[c]]) = As(at[c])
    BY <2>1 DEF As, Recording
  <2>3. seen' = [seen EXCEPT ![c] = seen[c]]
    BY <1>1, <2>1, <2>2, AdmittedMoves
  <2>4. seen' = seen
    BY <1>1, <2>3 DEF Admitted
  <2>5. QED
    BY <2>1, <2>4 DEF Local!breakerVars
<1>11. CASE Record(c)
  <2>1. /\ at[c] \in {"recording", "recordingProbe"} /\ at' = [at EXCEPT ![c] = "idle"]
        /\ stored' = copy[c] /\ streak' = Local!OneMore(streak)
        /\ quiet' = IF copy[c].open THEN Cooldown ELSE quiet
    BY <1>11, WritesInTurn DEF Record, Move
  <2>2. copy[c] = Local!Failed(Read(stored))
    BY <2>1 DEF TurnInv, Recorders
  <2>3. seen[c] \in {"running", "probe"} /\ seen' = [seen EXCEPT ![c] = "idle"]
    BY <1>1, <2>1, AdmittedMoves DEF As
  <2>4. copy[c] # Nothing
    BY <1>2, <2>2, FailedIsRecord, RecordFields
  <2>5. Circuit' = copy[c] /\ copy[c] = Local!Failed(Circuit)
    BY <1>1, <2>1, <2>2, <2>4 DEF Read
  <2>6. quiet' = IF Circuit'.open THEN Cooldown ELSE quiet
    BY <2>1, <2>5, Zenon
  <2>7. Circuit' = Local!Failed(Circuit)
    BY <2>5, Zenon
  <2>8. Local!Fail(c)
    BY <2>1, <2>3, <2>6, <2>7 DEF Local!Fail, Local!Move, Local!Running, Circuit
  <2>9. QED
    BY <2>8 DEF Local!BreakerNext, Local!Finish
<1>12. QED
  BY <1>3, <1>4, <1>5, <1>6, <1>7, <1>8, <1>9, <1>10, <1>11 DEF Step

\* Time passes for the local breaker, unless there was nothing to wait for.
LEMMA TickIsLocal ==
    ASSUME SharedTypeOK, inTurn, inTurn' = inTurn, Tick
    PROVE  [Local!BreakerNext]_(Local!breakerVars)
<1>1. Circuit = Read(stored) /\ Circuit' = Read(stored)' /\ Read(stored) \in Local!States
  BY CircuitIsRead, SharedTypes DEF Circuit, Read, Local!Closed
<1>2. /\ stored' = IF stored = Nothing THEN Nothing ELSE Older(stored)
      /\ quiet' = Local!Waned(quiet) /\ UNCHANGED <<at, streak>>
  BY DEF Tick
<1>3. Read(stored)' = Older(Read(stored))
  <2>1. CASE stored = Nothing
    <3>1. Older(Local!Closed) = Local!Closed
      BY DEF Older, Local!Closed, Local!Waned
    <3>2. QED
      BY <1>2, <2>1, <3>1 DEF Read
  <2>2. CASE stored # Nothing
    <3>1. stored \in Local!States /\ stored' = Older(stored)
      BY <1>2, <2>2, SharedTypes
    <3>2. Older(stored) # Nothing
      BY <3>1, OlderFields, RecordFields
    <3>3. QED
      BY <2>2, <3>1, <3>2 DEF Read
  <2>3. QED
    BY <2>1, <2>2
<1>4. Circuit' = [Circuit EXCEPT !.cool = Local!Waned(@)]
  BY <1>1, <1>3 DEF Older
<1>5. UNCHANGED (IF inTurn THEN Admitted ELSE [d \in Calls |-> "idle"])
  BY <1>2 DEF Admitted
<1>6. CASE Circuit.cool > 0 \/ quiet > 0
  <2>1. Local!Tick
    BY <1>2, <1>4, <1>5, <1>6 DEF Local!Tick, Circuit
  <2>2. QED
    BY <2>1 DEF Local!BreakerNext
<1>7. CASE ~(Circuit.cool > 0 \/ quiet > 0)
  <2>1. Local!Waned(Circuit.cool) = Circuit.cool /\ quiet' = quiet
    BY <1>1, <1>2, <1>7 DEF Local!Waned, Local!States, SharedTypeOK
  <2>2. Circuit' = Circuit
    <3>1. Circuit \in Local!States
      BY <1>1
    <3>2. [Circuit EXCEPT !.cool = Circuit.cool] = Circuit
      BY <3>1 DEF Local!States
    <3>3. QED
      BY <1>4, <2>1, <3>2
  <2>3. QED
    BY <1>2, <1>5, <2>1, <2>2 DEF Local!breakerVars, Circuit
<1>8. QED
  BY <1>6, <1>7

\* Accesses that overlap or fail are mapped to a breaker nobody uses.
LEMMA OutOfTurn ==
    ASSUME ~inTurn, inTurn' = inTurn
    PROVE  UNCHANGED Local!breakerVars
BY DEF Local!breakerVars

\* For any number of calls, threshold and cooldown: when accesses to the record
\* neither overlap nor fail, all processes behave as one process with the local
\* breaker does (shared_breaker.py against resilience.py).
THEOREM SharedImplementsLocal == SharedSpec => SharedIsLocal
<1>1. SharedInit => Local!BreakerInit
  BY DEF SharedInit, Local!BreakerInit, Local!Closed, Admitted
<1>2. SharedInit => TurnInv
  BY DEF SharedInit, TurnInv, Accessing, Recorders
<1>3. ASSUME SharedTypeOK, TurnInv, [SharedNext]_sharedVars
      PROVE  [Local!BreakerNext]_(Local!breakerVars)
  <2>1. CASE UNCHANGED sharedVars
    BY <2>1 DEF sharedVars, Local!breakerVars, Admitted
  <2>2. CASE SharedNext
    <3>1. inTurn' = inTurn
      BY <2>2 DEF SharedNext
    <3>2. CASE ~inTurn
      BY <3>1, <3>2, OutOfTurn
    <3>3. CASE inTurn
      BY <1>3, <2>2, <3>1, <3>3, AccessIsLocal, TickIsLocal DEF SharedNext, Expire
    <3>4. QED
      BY <3>2, <3>3
  <2>3. QED
    BY <1>3, <2>1, <2>2
<1>4. SharedInv => SharedTypeOK
  BY DEF SharedInv
<1>5. QED
  BY <1>1, <1>2, <1>3, <1>4, TurnStep, SharedInvariant, PTL
     DEF SharedSpec, SharedIsLocal, Local!BreakerSpec

----------------------------------------------------------------------------
(* The throttle and the budget. *)

\* What n answers cost at most.
LEMMA CostOfMore ==
    ASSUME NEW n \in Nat, NEW m \in Nat, n <= m
    PROVE  /\ MaxCost * n \in Nat /\ MaxCost * n <= MaxCost * m
           /\ MaxCost * (n + 1) = MaxCost * n + MaxCost
  BY GatewayAssumption

LEMMA Slotted == Slots * MaxCost = MaxCost * Slots /\ Slots * MaxCost \in Nat
  BY GatewayAssumption

LEMMA Counted ==
    /\ IsFiniteSet(Holders) /\ Cardinality(Holders) \in Nat
    /\ \A i \in Intents :
          /\ IsFiniteSet(OnMain(i)) /\ Cardinality(OnMain(i)) \in Nat
          /\ Cardinality(OnMain(i)) <= Cardinality(Holders)
<1>1. IsFiniteSet(Callers) /\ Holders \in SUBSET Callers
  BY GatewayAssumption DEF Holders
<1>2. IsFiniteSet(Holders)
  BY <1>1, FS_Subset
<1>3. \A i \in Intents : OnMain(i) \in SUBSET Holders
  BY DEF OnMain, Holders
<1>4. QED
  BY <1>2, <1>3, FS_Subset, FS_CardinalityType

LEMMA GatewayInitInv == GatewayInit => GatewayInv
<1> SUFFICES ASSUME GatewayInit PROVE GatewayInv
  OBVIOUS
<1> USE GatewayAssumption
<1>1. Holders = {} /\ \A i \in Intents : OnMain(i) = {}
  BY DEF GatewayInit, Holders, OnMain
<1>2. Cardinality(Holders) = 0 /\ \A i \in Intents : Cardinality(OnMain(i)) = 0
  BY <1>1, FS_EmptySet
<1>3. MaxCost * 0 = 0 /\ (Limit - 1) \div 2 \in Nat
  OBVIOUS
<1>4. QED
  BY <1>2, <1>3, Slotted DEF GatewayInit, GatewayInv, Places

\* What the invariant says of one intent's spending, with HasFallback.
Bounded(i) ==
    spent[i] + MaxCost * Cardinality(OnMain(i)) <= (Limit - 1) \div 2 + Slots * MaxCost

\* Steps that charge nothing and put no request on the main model keep the
\* bound on the spending.
LEMMA QuietKeepsBound ==
    ASSUME GatewayInv, HasFallback, NEW i \in Intents, UNCHANGED spent,
           OnMain(i)' \subseteq OnMain(i)
    PROVE  Bounded(i)'
<1>1. /\ IsFiniteSet(OnMain(i)) /\ Cardinality(OnMain(i)) \in Nat
      /\ Cardinality(OnMain(i)') <= Cardinality(OnMain(i))
      /\ Cardinality(OnMain(i)') \in Nat
  BY Counted, FS_Subset, FS_CardinalityType
<1>2. MaxCost * Cardinality(OnMain(i)') <= MaxCost * Cardinality(OnMain(i))
      /\ MaxCost * Cardinality(OnMain(i)') \in Nat /\ MaxCost * Cardinality(OnMain(i)) \in Nat
  BY <1>1, CostOfMore
<1>3. spent[i] \in Nat /\ Bounded(i)
  BY DEF GatewayInv, Bounded
<1>4. (Limit - 1) \div 2 \in Nat /\ Slots * MaxCost \in Nat
  BY GatewayAssumption, Slotted
<1>5. QED
  BY <1>2, <1>3, <1>4 DEF Bounded

\* A request that starts, for the first time or again, is put on the main
\* model only while less than half of the budget is used.
LEMMA AttemptKeepsBound ==
    ASSUME GatewayInv, HasFallback, NEW i \in Intents, UNCHANGED <<used, spent>>,
           NEW c \in Callers, Attempt(c), stage[c] \in Places,
           stage' = [stage EXCEPT ![c] = "calling"], Cardinality(Holders') <= Slots,
           Cardinality(OnMain(i)') <= Cardinality(Holders'), Cardinality(OnMain(i)') \in Nat,
           Cardinality(Holders') \in Nat
    PROVE  Bounded(i)'
<1> USE GatewayAssumption
<1>1. /\ stage \in [Callers -> Places] /\ model \in [Callers -> {"main", "lite"}]
      /\ used \in [Intents -> 0..Limit] /\ spent \in [Intents -> Nat]
  BY DEF GatewayInv
<1>2. CASE IntentOf[c] # i \/ ~Ample(IntentOf[c])
  <2>1. OnMain(i)' \subseteq OnMain(i)
    BY <1>1, <1>2 DEF OnMain, Attempt
  <2>2. QED
    BY <2>1, QuietKeepsBound
<1>3. CASE IntentOf[c] = i /\ Ample(i)
  <2>1. 2 * used[i] < Limit /\ used[i] \in 0..Limit /\ spent[i] \in Nat
    BY <1>1, <1>3 DEF Ample
  <2>2. spent[i] <= used[i] /\ spent[i] <= (Limit - 1) \div 2
    BY <2>1 DEF GatewayInv
  <2>3. MaxCost * Cardinality(OnMain(i)') <= Slots * MaxCost
        /\ MaxCost * Cardinality(OnMain(i)') \in Nat
    BY CostOfMore, Slotted
  <2>4. QED
    BY <2>1, <2>2, <2>3, Slotted DEF Bounded
<1>4. QED
  BY <1>2, <1>3

\* A slot is given back once: its holder has none afterwards.
LEMMA ReleaseFrees ==
    ASSUME GatewayInv, NEW c \in Callers, c \in Holders, Release(c)
    PROVE  /\ stage' \in [Callers -> Places]
           /\ free' \in 0..Slots /\ free' + Cardinality(Holders') = Slots
           /\ \A d \in Callers : stage'[d] = "last" => model'[d] = "lite"
           /\ \A i \in Intents : OnMain(i)' = OnMain(i) \ {c}
<1> USE GatewayAssumption
<1>1. stage \in [Callers -> Places] /\ stage' = [stage EXCEPT ![c] = "idle"] /\ UNCHANGED model
      /\ free' = free + 1
  BY DEF GatewayInv, Release
<1>2. Holders' = Holders \ {c}
  BY <1>1 DEF Holders
<1>3. /\ Cardinality(Holders') = Cardinality(Holders) - 1
      /\ Cardinality(Holders) \in Nat /\ Cardinality(Holders') \in Nat
  <2>1. IsFiniteSet(Holders) /\ Cardinality(Holders) \in Nat
    BY Counted
  <2>2. IsFiniteSet(Holders') /\ Cardinality(Holders') = Cardinality(Holders) - 1
    BY <1>2, <2>1, FS_RemoveElement
  <2>3. QED
    BY <2>1, <2>2, FS_CardinalityType
<1>4. QED
  BY <1>1, <1>3 DEF GatewayInv, OnMain, Places

\* An answer moves its cost from the requests on the main model to what was
\* spent on it.
LEMMA ChargeKeepsBound ==
    ASSUME GatewayInv, NEW c \in Callers, stage[c] \in {"calling", "last", "streaming"},
           NEW cost \in Costs, Charge(c, cost),
           \A i \in Intents : OnMain(i)' = OnMain(i) \ {c}
    PROVE  /\ used' \in [Intents -> 0..Limit] /\ spent' \in [Intents -> Nat]
           /\ \A i \in Intents : used'[i] < Limit => spent'[i] <= used'[i]
           /\ HasFallback => \A i \in Intents : Bounded(i)'
<1> USE GatewayAssumption
<1>1. /\ used \in [Intents -> 0..Limit] /\ spent \in [Intents -> Nat]
      /\ cost \in Nat /\ cost <= MaxCost /\ IntentOf[c] \in Intents
      /\ stage \in [Callers -> Places] /\ model \in [Callers -> {"main", "lite"}]
  BY DEF GatewayInv, Costs
<1> DEFINE j   == IntentOf[c]
           sum == used[j] + cost
<1>2. /\ used' = [used EXCEPT ![j] = IF sum < Limit THEN sum ELSE Limit]
      /\ spent' = IF model[c] = "main" THEN [spent EXCEPT ![j] = spent[j] + cost] ELSE spent
  BY DEF Charge
<1>3. sum \in Nat /\ used' \in [Intents -> 0..Limit] /\ spent' \in [Intents -> Nat]
  BY <1>1, <1>2
<1>4. ASSUME NEW i \in Intents, used'[i] < Limit PROVE spent'[i] <= used'[i]
  <2>1. CASE i = j
    <3>1. used'[j] = sum /\ used[j] < Limit /\ spent[j] <= used[j]
      BY <1>1, <1>2, <1>3, <1>4, <2>1 DEF GatewayInv
    <3>2. spent'[j] <= spent[j] + cost
      BY <1>1, <1>2
    <3>3. QED
      BY <1>1, <1>3, <2>1, <3>1, <3>2
  <2>2. CASE i # j
    BY <1>1, <1>2, <1>4, <2>2 DEF GatewayInv
  <2>3. QED
    BY <2>1, <2>2
<1>5. ASSUME HasFallback, NEW i \in Intents PROVE Bounded(i)'
  <2>1. CASE i = j /\ model[c] = "main"
    <3>1. c \in OnMain(i)
      BY <2>1 DEF OnMain, GatewayInv
    <3>2. /\ IsFiniteSet(OnMain(i)) /\ Cardinality(OnMain(i)) \in Nat
          /\ Cardinality(OnMain(i)') = Cardinality(OnMain(i)) - 1
          /\ Cardinality(OnMain(i)') \in Nat
      BY <3>1, Counted, FS_RemoveElement, FS_CardinalityType
    <3>3. MaxCost * Cardinality(OnMain(i)) = MaxCost * Cardinality(OnMain(i)') + MaxCost
          /\ MaxCost * Cardinality(OnMain(i)') \in Nat
      <4> DEFINE n == Cardinality(OnMain(i)')
      <4>1. n \in Nat /\ Cardinality(OnMain(i)) = n + 1
        BY <3>2
      <4> HIDE DEF n
      <4>2. MaxCost * n \in Nat /\ MaxCost * (n + 1) = MaxCost * n + MaxCost
        BY <4>1, CostOfMore
      <4>3. QED
        BY <4>1, <4>2 DEF n
    <3>4. spent'[i] = spent[i] + cost /\ spent[i] \in Nat
      BY <1>1, <1>2, <2>1
    <3>5. Bounded(i) /\ (Limit - 1) \div 2 \in Nat
      BY <1>5 DEF GatewayInv, Bounded
    <3>6. QED
      BY <1>1, <3>3, <3>4, <3>5, Slotted DEF Bounded
  <2>2. CASE ~(i = j /\ model[c] = "main")
    <3>1. spent'[i] = spent[i] /\ OnMain(i)' = OnMain(i)
      BY <1>1, <1>2, <2>2 DEF OnMain
    <3>2. QED
      BY <1>5, <3>1 DEF GatewayInv, Bounded
  <2>3. QED
    BY <2>1, <2>2
<1>6. QED
  BY <1>3, <1>4, <1>5

\* A request on the way: nothing is charged, no slot changes hands.
LEMMA PassingKeeps ==
    ASSUME GatewayInv, UNCHANGED <<used, spent, free>>, Holders' = Holders,
           stage' \in [Callers -> Places], model' \in [Callers -> {"main", "lite"}],
           \A c \in Callers : stage'[c] = "last" => model'[c] = "lite",
           \A i \in Intents : OnMain(i)' \subseteq OnMain(i)
    PROVE  GatewayInv'
  BY QuietKeepsBound DEF GatewayInv, Bounded

\* Every step keeps the invariant.
LEMMA GatewayStep == GatewayInv /\ [GatewayNext]_gatewayVars => GatewayInv'
<1> SUFFICES ASSUME GatewayInv, [GatewayNext]_gatewayVars
             PROVE  GatewayInv'
  OBVIOUS
<1> USE GatewayAssumption
<1>1. /\ stage \in [Callers -> Places] /\ model \in [Callers -> {"main", "lite"}]
      /\ free \in 0..Slots /\ free + Cardinality(Holders) = Slots
      /\ used \in [Intents -> 0..Limit] /\ spent \in [Intents -> Nat]
      /\ \A c \in Callers : stage[c] = "last" => model[c] = "lite"
  BY DEF GatewayInv
<1>2. ASSUME NEW c \in Callers, Request(c) \/ CancelWaiting(c) \/ Open(c)
      PROVE  GatewayInv'
  <2>1. /\ stage' \in [Callers -> Places] /\ model' \in [Callers -> {"main", "lite"}]
        /\ \A d \in Callers : stage'[d] = "last" => model'[d] = "lite"
        /\ UNCHANGED <<used, spent, free>>
    BY <1>1, <1>2 DEF Request, CancelWaiting, Open, Advance, NoCharge, throttleVars, Places
  <2>2. Holders' = Holders /\ \A i \in Intents : OnMain(i)' \subseteq OnMain(i)
    BY <1>1, <1>2 DEF Request, CancelWaiting, Open, Advance, Holders, OnMain
  <2>3. QED
    BY <2>1, <2>2, PassingKeeps
<1>3. ASSUME NEW c \in Callers, Stumble(c) PROVE GatewayInv'
  <2>1. /\ stage' \in [Callers -> Places] /\ model' \in [Callers -> {"main", "lite"}]
        /\ \A d \in Callers : stage'[d] = "last" => model'[d] = "lite"
        /\ UNCHANGED <<used, spent, free>>
    BY <1>1, <1>3 DEF Stumble, Advance, NoCharge, throttleVars, Places
  <2>2. Holders' = Holders /\ \A i \in Intents : OnMain(i)' \subseteq OnMain(i)
    BY <1>1, <1>3 DEF Stumble, Advance, Holders, OnMain
  <2>3. QED
    BY <2>1, <2>2, PassingKeeps
<1>4. ASSUME NEW c \in Callers, Acquire(c) PROVE GatewayInv'
  <2>1. /\ stage[c] = "queued" /\ stage' = [stage EXCEPT ![c] = "pacing"]
        /\ free > 0 /\ free' = free - 1 /\ UNCHANGED <<used, spent, model>>
    BY <1>4 DEF Acquire, Advance, NoCharge
  <2>2. Holders' = Holders \cup {c} /\ c \notin Holders
    BY <1>1, <2>1 DEF Holders
  <2>3. Cardinality(Holders') = Cardinality(Holders) + 1 /\ Cardinality(Holders) \in Nat
    BY <2>2, Counted, FS_AddElement
  <2>4. \A i \in Intents : OnMain(i)' = OnMain(i)
    BY <1>1, <2>1 DEF OnMain
  <2>5. QED
    BY <1>1, <2>1, <2>3, <2>4 DEF GatewayInv, Places
<1>5. ASSUME NEW c \in Callers, StartAttempt(c) \/ Retry(c) PROVE GatewayInv'
  <2>1. /\ stage[c] \in {"pacing", "sleeping"} /\ stage' = [stage EXCEPT ![c] = "calling"]
        /\ Attempt(c) /\ UNCHANGED <<used, spent, free>>
    BY <1>5 DEF StartAttempt, Retry, Advance, NoCharge, throttleVars
  <2>2. /\ stage' \in [Callers -> Places] /\ model' \in [Callers -> {"main", "lite"}]
        /\ \A d \in Callers : stage'[d] = "last" => model'[d] = "lite"
    BY <1>1, <2>1 DEF Attempt, Places
  <2>3. Holders' = Holders
    BY <1>1, <2>1 DEF Holders
  <2>4. ASSUME HasFallback, NEW i \in Intents PROVE Bounded(i)'
    <3>1. OnMain(i)' \in SUBSET Holders
      BY <2>3 DEF OnMain, Holders
    <3>2. /\ Cardinality(OnMain(i)') <= Cardinality(Holders') /\ Cardinality(OnMain(i)') \in Nat
          /\ Cardinality(Holders') \in Nat /\ Cardinality(Holders') <= Slots
      BY <1>1, <2>3, <3>1, Counted, FS_Subset, FS_CardinalityType
    <3>3. QED
      BY <1>1, <2>1, <2>4, <3>2, AttemptKeepsBound
  <2>5. QED
    BY <1>1, <2>1, <2>2, <2>3, <2>4 DEF GatewayInv, Bounded
<1>6. ASSUME NEW c \in Callers, Raise(c) \/ CancelHolding(c) PROVE GatewayInv'
  <2>1. c \in Holders /\ Release(c) /\ UNCHANGED <<used, spent, model>>
    BY <1>6 DEF Raise, CancelHolding, Release, NoCharge, Holders
  <2>2. ASSUME HasFallback, NEW i \in Intents PROVE Bounded(i)'
    BY <2>1, <2>2, ReleaseFrees, QuietKeepsBound
  <2>3. QED
    BY <1>1, <2>1, <2>2, ReleaseFrees DEF GatewayInv, Bounded
<1>7. ASSUME NEW c \in Callers, NEW cost \in Costs, Answer(c, cost) \/ Exhaust(c, cost)
      PROVE  GatewayInv'
  <2>1. /\ stage[c] \in {"calling", "last", "streaming"} /\ c \in Holders
        /\ Release(c) /\ Charge(c, cost) /\ UNCHANGED model
    BY <1>7 DEF Answer, Exhaust, Release, Holders
  <2>2. \A i \in Intents : OnMain(i)' = OnMain(i) \ {c}
    BY <2>1, ReleaseFrees
  <2>3. QED
    BY <1>1, <2>1, <2>2, ReleaseFrees, ChargeKeepsBound DEF GatewayInv, Bounded
<1>8. CASE Elapse \/ UNCHANGED gatewayVars
  <2>1. UNCHANGED <<stage, model, free, used, spent>>
    BY <1>8 DEF Elapse, gatewayVars, throttleVars, requestVars, NoCharge
  <2>2. QED
    BY <2>1 DEF GatewayInv, Holders, OnMain
<1>9. QED
  BY <1>2, <1>3, <1>4, <1>5, <1>6, <1>7, <1>8 DEF GatewayNext, Finish

\* The inductive invariant holds in every reachable state.
THEOREM GatewayInvariant == GatewaySpec => []GatewayInv
  BY GatewayInitInv, GatewayStep, PTL DEF GatewaySpec

\* Never more requests upstream than llm_max_concurrency, with streams,
\* retries, fallbacks and cancellations in any order (GatewayThrottle.slot()).
THEOREM QuotaKept == GatewaySpec => []InFlightCapped
<1>1. GatewayInv => InFlightCapped
  <2> SUFFICES ASSUME GatewayInv PROVE InFlightCapped
    OBVIOUS
  <2>1. InFlight \in SUBSET Holders
    BY DEF InFlight, Holders
  <2>2. Cardinality(InFlight) <= Cardinality(Holders) /\ Cardinality(Holders) \in Nat
        /\ Cardinality(InFlight) \in Nat
    BY <2>1, Counted, FS_Subset, FS_CardinalityType
  <2>3. QED
    BY <2>2, GatewayAssumption DEF GatewayInv, InFlightCapped
<1>2. QED
  BY <1>1, GatewayInvariant, PTL

\* What the agents of an intent spend on the main model exceeds half of the
\* budget by at most an answer per slot (TokenBudget.tier(), _charge_budget()).
THEOREM OvershootBounded == GatewaySpec => []MainSpendBounded
<1>1. GatewayInv => MainSpendBounded
  <2> SUFFICES ASSUME GatewayInv, HasFallback, NEW i \in Intents
               PROVE  spent[i] <= (Limit - 1) \div 2 + Slots * MaxCost
    BY DEF MainSpendBounded
  <2>1. Cardinality(OnMain(i)) \in Nat /\ MaxCost * Cardinality(OnMain(i)) \in Nat
    BY Counted, CostOfMore
  <2>2. spent[i] \in Nat /\ (Limit - 1) \div 2 \in Nat
    BY GatewayAssumption DEF GatewayInv
  <2>3. QED
    BY <2>1, <2>2, Slotted DEF GatewayInv
<1>2. QED
  BY <1>1, GatewayInvariant, PTL
=============================================================================
