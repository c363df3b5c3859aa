--------------------------- MODULE ContextProofs ---------------------------
(***************************************************************************)
(* Freezing a session's context, for every number of turns, every hot      *)
(* window and every limit of the budget, any number of failures, restarts  *)
(* and overlapping turns.                                                  *)
(*                                                                         *)
(* The argument: a unit another question follows does not change when      *)
(* messages are appended, so a segment made of a complete one stays true.  *)
(* A restart puts the context back to its snapshot, so the same invariant  *)
(* is kept of both, and the definitions of the model are restated here of  *)
(* any sequence of messages.                                               *)
(*                                                                         *)
(* What a summary tells: the state a fold carries is known after each      *)
(* segment it absorbs, and what is recalled of a summary is such a state.  *)
(*                                                                         *)
(* And what a dispatched SearchAgent answers with, for every number of     *)
(* agents, dispatches and searches and every interleaving of theirs: the   *)
(* log of a turn numbers its searches, gives each at most one result, and  *)
(* has a dispatch's events after its announcement.                         *)
(***************************************************************************)
EXTENDS ContextFreeze, SearchEvidence, FiniteSetTheorems, WellFoundedInduction, TLAPS

----------------------------------------------------------------------------
(* Least and greatest of a set of positions. *)

\* A relation on the naturals that < is in and that has no infinite descent:
\* what every "take the least" below rests on.
LEMMA LessIsWellFounded ==
    \E R : IsWellFoundedOn(R, Nat) /\ \A x, y \in Nat : x < y => <<x, y>> \in R
<1>1. \A x, y \in Nat : x < y => <<x, y>> \in OpToRel(<, Nat)
  BY DEF OpToRel
<1>2. QED
  BY <1>1, NatLessThanWellFounded

\* Min() of a set of naturals is its least element.
LEMMA LeastOf ==
    ASSUME NEW S \in SUBSET Nat, S # {}
    PROVE  Min(S) \in S /\ \A y \in S : Min(S) <= y
<1>1. PICK R : IsWellFoundedOn(R, Nat) /\ \A x, y \in Nat : x < y => <<x, y>> \in R
  BY LessIsWellFounded
<1>2. \E x \in S : \A y \in S : ~(<<y, x>> \in R)
  <2>1. IsWellFoundedOn(R, Nat) /\ S \subseteq Nat /\ S # {}
    BY <1>1
  <2>2. \A Q, N, T : IsWellFoundedOn(Q, N) /\ T \subseteq N /\ T # {} =>
                        \E x \in T : \A y \in T : ~(<<y, x>> \in Q)
    BY ONLY WFMin
  <2> QED
    BY ONLY <2>1, <2>2
<1>3. PICK x \in S : \A y \in S : ~(<<y, x>> \in R)
  BY <1>2
<1>4. ASSUME NEW y \in S PROVE x <= y
  <2>1. x \in Nat /\ y \in Nat /\ ~(<<y, x>> \in R)
    BY <1>3
  <2>2. ~(y < x)
    BY <1>1, <2>1
  <2>3. QED
    BY <2>1, <2>2
<1>5. QED
  BY <1>4 DEF Min

\* Max() of a bounded set of naturals is its greatest element.
LEMMA GreatestOf ==
    ASSUME NEW n \in Nat, NEW S \in SUBSET (0..n), S # {}
    PROVE  Max(S) \in S /\ \A y \in S : y <= Max(S)
<1> DEFINE R == {n - x : x \in S}
<1>0. \A x \in S : x \in Int /\ n - x \in Nat
  OBVIOUS
<1>1. R \in SUBSET Nat /\ R # {}
  BY <1>0
<1>2. PICK x \in S : Min(R) = n - x
  <2> HIDE DEF R
  <2>1. Min(R) \in R
    BY <1>1, LeastOf
  <2>2. QED
    BY <2>1 DEF R
<1>3. \A y \in S : n - y \in R
  OBVIOUS
<1> HIDE DEF R
<1>4. \A y \in S : n - x <= n - y
  BY <1>1, <1>2, <1>3, LeastOf
<1>5. \A y \in S : y <= x
  BY <1>0, <1>4
<1>6. QED
  BY <1>5 DEF Max

----------------------------------------------------------------------------
(* The definitions of the model, of any sequence of messages: the snapshot has one, too. *)

Kinds    == {"hint", "buyer", "call", "result", "text"}
Tags     == Topics \cup Tools \cup Outcomes \cup {"hint", "result", "follow"}
Messages == [kind : Kinds, turn : Turns \cup Nat, tag : Tags, text : BOOLEAN]

AsksOf(ms)        == {i \in DOMAIN ms : ms[i].kind = "buyer"}
OpensIn(ms, i)    == IF i > 1 /\ ms[i - 1].kind = "hint" THEN i - 1 ELSE i
LaterIn(ms, i)    == {OpensIn(ms, j) : j \in {k \in AsksOf(ms) : k > i}}
ClosesIn(ms, i)   == IF LaterIn(ms, i) = {} THEN Len(ms) ELSE Min(LaterIn(ms, i)) - 1
UnitOf(ms, i)     == [from |-> OpensIn(ms, i), ask |-> i, upto |-> ClosesIn(ms, i)]
InOf(ms, u, kind) == {i \in (u.ask + 1)..u.upto : ms[i].kind = kind}
TextsOf(ms, u)    == {i \in (u.ask + 1)..u.upto : ms[i].text}

\* Every call of a unit has its result, and every result its call.
PairedIn(ms, u) ==
    /\ \A i \in InOf(ms, u, "call") : \E j \in InOf(ms, u, "result") :
           j > i /\ ms[j].turn = ms[i].turn
    /\ \A j \in InOf(ms, u, "result") : \E i \in InOf(ms, u, "call") :
           i < j /\ ms[i].turn = ms[j].turn

CompleteIn(ms, u) == PairedIn(ms, u) /\ TextsOf(ms, u) # {}

CompactIn(ms, u) ==
    LET failed == {i \in TextsOf(ms, u) : ms[i].tag \in {"error", "interrupted"}}
    IN  [from    |-> u.from,
         upto    |-> u.upto,
         topic   |-> ms[u.ask].tag,
         tools   |-> {ms[i].tag : i \in InOf(ms, u, "call")},
         answer  |-> ms[Max(TextsOf(ms, u))].turn,
         outcome |-> IF failed = {} THEN "completed" ELSE ms[Max(failed)].tag]

\* What the model defines of the session is the same, stated of its messages.
LEMMA SameDefinitions ==
    /\ Asks = AsksOf(messages)
    /\ Units = {UnitOf(messages, i) : i \in AsksOf(messages)}
    /\ \A u : Complete(u) <=> CompleteIn(messages, u)
    /\ \A u : Compact(u) = CompactIn(messages, u)
<1>1. Asks = AsksOf(messages)
  BY DEF Asks, AsksOf
<1>2. \A i : Opens(i) = OpensIn(messages, i)
  BY DEF Opens, OpensIn
<1>3. \A i : {Opens(j) : j \in {k \in Asks : k > i}} = LaterIn(messages, i)
  BY <1>1, <1>2 DEF LaterIn
<1>4. \A i : Closes(i) = ClosesIn(messages, i)
  BY <1>3 DEF Closes, ClosesIn
<1>5. Units = {UnitOf(messages, i) : i \in AsksOf(messages)}
  BY <1>1, <1>2, <1>4 DEF Units, UnitOf
<1>6. \A u : Texts(u) = TextsOf(messages, u) /\ \A k : In(u, k) = InOf(messages, u, k)
  BY DEF Texts, TextsOf, In, InOf
<1>7. \A u : Complete(u) <=> CompleteIn(messages, u)
  BY <1>6 DEF Complete, CompleteIn, PairedIn
<1>8. \A u : Compact(u) = CompactIn(messages, u)
  BY <1>6 DEF Compact, CompactIn
<1>9. QED
  BY <1>1, <1>5, <1>7, <1>8

\* The opening of a question is it or the hint before it, and lies behind
\* every earlier question.
LEMMA OpensInRange ==
    ASSUME NEW ms \in Seq(Messages), NEW i \in AsksOf(ms)
    PROVE  /\ i \in 1..Len(ms) /\ OpensIn(ms, i) \in 1..i
           /\ \A j \in AsksOf(ms) : j < i => j < OpensIn(ms, i)
<1>1. DOMAIN ms = 1..Len(ms) /\ Len(ms) \in Nat /\ i \in 1..Len(ms) /\ AsksOf(ms) \subseteq 1..Len(ms)
  BY DEF AsksOf
<1>2. OpensIn(ms, i) \in 1..i /\ OpensIn(ms, i) \in {i, i - 1}
  BY <1>1 DEF OpensIn
<1>3. ASSUME NEW j \in AsksOf(ms), j < i PROVE j < OpensIn(ms, i)
  <2>1. ms[j].kind = "buyer" /\ j \in 1..Len(ms)
    BY <1>1 DEF AsksOf
  <2>2. j # OpensIn(ms, i)
    BY <1>1, <1>3, <2>1 DEF OpensIn
  <2>3. QED
    BY <1>1, <1>2, <1>3, <2>1, <2>2
<1>4. QED
  BY <1>1, <1>2, <1>3

\* A unit ends before the next one opens, the last one with the messages.
LEMMA ClosesInRange ==
    ASSUME NEW ms \in Seq(Messages), NEW i \in AsksOf(ms)
    PROVE  /\ ClosesIn(ms, i) \in i..Len(ms)
           /\ \A j \in AsksOf(ms) : j > i => ClosesIn(ms, i) < OpensIn(ms, j)
           /\ (\A j \in AsksOf(ms) : j <= i) => ClosesIn(ms, i) = Len(ms)
           /\ \/ ClosesIn(ms, i) = Len(ms) /\ \A j \in AsksOf(ms) : j <= i
              \/ \E j \in AsksOf(ms) : j > i /\ ClosesIn(ms, i) = OpensIn(ms, j) - 1
<1> DEFINE L == LaterIn(ms, i)
<1>0. AsksOf(ms) \subseteq 1..Len(ms) /\ Len(ms) \in Nat /\ i \in 1..Len(ms)
  BY DEF AsksOf
<1>1. \A x : x \in L <=> \E j \in AsksOf(ms) : j > i /\ x = OpensIn(ms, j)
  BY DEF LaterIn
<1>2. \A j \in AsksOf(ms) : OpensIn(ms, j) \in 1..j /\ (j > i => i < OpensIn(ms, j))
  BY <1>0, OpensInRange
<1> HIDE DEF L
<1>3. CASE L = {}
  <2>1. ClosesIn(ms, i) = Len(ms)
    BY <1>3 DEF ClosesIn, L
  <2>2. \A j \in AsksOf(ms) : j <= i
    BY <1>0, <1>1, <1>3
  <2>3. QED
    BY <1>0, <2>1, <2>2
<1>4. CASE L # {}
  <2>1. L \in SUBSET Nat
    BY <1>0, <1>1, <1>2
  <2>2. Min(L) \in L /\ \A y \in L : Min(L) <= y
    BY <1>4, <2>1, LeastOf
  <2>3. ClosesIn(ms, i) = Min(L) - 1
    BY <1>4 DEF ClosesIn, L
  <2>4. PICK j \in AsksOf(ms) : j > i /\ Min(L) = OpensIn(ms, j)
    BY <1>1, <2>2
  <2>5. \A k \in AsksOf(ms) : k > i => Min(L) <= OpensIn(ms, k)
    BY <1>1, <2>2
  <2>6. Min(L) \in 1..Len(ms) /\ i < Min(L)
    BY <1>0, <1>2, <2>4
  <2>7. ~(\A k \in AsksOf(ms) : k <= i)
    BY <1>0, <2>4
  <2>8. \A k \in AsksOf(ms) : OpensIn(ms, k) \in Int
    BY <1>0, <1>2
  <2>9. QED
    BY <1>0, <2>3, <2>4, <2>5, <2>6, <2>7, <2>8
<1>5. QED
  BY <1>3, <1>4

\* What comes behind does not change a unit that another question follows.
Extends(ns, ms) ==
    Len(ms) <= Len(ns) /\ \A i \in 1..Len(ms) : ns[i] = ms[i]

\* Appending neither adds a question to what was there nor moves an opening.
LEMMA AsksStay ==
    ASSUME NEW ms \in Seq(Messages), NEW ns \in Seq(Messages), Extends(ns, ms)
    PROVE  /\ \A i \in 1..Len(ms) : i \in AsksOf(ns) <=> i \in AsksOf(ms)
           /\ \A i \in 1..Len(ms) : OpensIn(ns, i) = OpensIn(ms, i)
<1>1. /\ DOMAIN ms = 1..Len(ms) /\ DOMAIN ns = 1..Len(ns) /\ Len(ms) \in Nat /\ Len(ns) \in Nat
      /\ Len(ms) <= Len(ns)
  BY DEF Extends
<1>2. \A i \in 1..Len(ms) : i \in 1..Len(ns) /\ ns[i] = ms[i]
  BY <1>1 DEF Extends
<1>3. \A i \in 1..Len(ms) : i \in AsksOf(ns) <=> i \in AsksOf(ms)
  BY <1>1, <1>2 DEF AsksOf
<1>4. ASSUME NEW i \in 1..Len(ms) PROVE OpensIn(ns, i) = OpensIn(ms, i)
  <2>1. i > 1 => i - 1 \in 1..Len(ms)
    BY <1>1
  <2>2. i > 1 => ns[i - 1] = ms[i - 1]
    BY <1>2, <2>1
  <2>3. QED
    BY <2>2 DEF OpensIn
<1>5. QED
  BY <1>3, <1>4

\* A unit that another question follows ends where it did.
LEMMA UnitStays ==
    ASSUME NEW ms \in Seq(Messages), NEW ns \in Seq(Messages), Extends(ns, ms),
           NEW i \in AsksOf(ms), NEW k \in AsksOf(ms), k > i
    PROVE  UnitOf(ns, i) = UnitOf(ms, i)
<1>0. AsksOf(ms) \subseteq 1..Len(ms) /\ Len(ms) \in Nat /\ Len(ns) \in Nat /\ AsksOf(ns) \subseteq 1..Len(ns)
  BY DEF AsksOf
<1>1. \A j \in AsksOf(ms) : j \in AsksOf(ns) /\ OpensIn(ns, j) = OpensIn(ms, j)
  BY <1>0, AsksStay
<1>2. \A j \in AsksOf(ns) : j \in AsksOf(ms) \/ j > Len(ms)
  BY <1>0, AsksStay
<1>3. PICK j \in AsksOf(ms) : j > i /\ ClosesIn(ms, i) = OpensIn(ms, j) - 1
  <2>1. ~(\A j \in AsksOf(ms) : j <= i)
    BY <1>0
  <2>2. QED
    BY <2>1, ClosesInRange
<1>4. PICK l \in AsksOf(ns) : l > i /\ ClosesIn(ns, i) = OpensIn(ns, l) - 1
  <2>1. ~(\A x \in AsksOf(ns) : x <= i)
    BY <1>0, <1>1
  <2>2. i \in AsksOf(ns)
    BY <1>1
  <2>3. QED
    BY <2>1, <2>2, ClosesInRange
<1>5. OpensIn(ns, j) \in 1..j /\ OpensIn(ns, l) \in 1..l /\ \A x \in AsksOf(ns) : x < l => x < OpensIn(ns, l)
  BY <1>1, <1>4, OpensInRange
<1>6. ClosesIn(ns, i) < OpensIn(ns, j)
  BY <1>1, <1>3, ClosesInRange
<1>7. OpensIn(ns, l) <= OpensIn(ns, j)
  BY <1>0, <1>4, <1>5, <1>6
<1>8. l <= j
  <2>1. j < l => j < OpensIn(ns, l)
    BY <1>1, <1>5
  <2>2. QED
    BY <1>0, <1>3, <1>4, <1>5, <1>7, <2>1
<1>9. l \in AsksOf(ms)
  BY <1>0, <1>2, <1>3, <1>4, <1>8
<1>10. ClosesIn(ms, i) < OpensIn(ms, l) /\ OpensIn(ms, l) = OpensIn(ns, l) /\ OpensIn(ms, j) = OpensIn(ns, j)
  BY <1>1, <1>3, <1>4, <1>9, ClosesInRange
<1>11. OpensIn(ms, l) = OpensIn(ms, j)
  BY <1>3, <1>5, <1>7, <1>10
<1>12. ClosesIn(ns, i) = ClosesIn(ms, i)
  BY <1>3, <1>4, <1>10, <1>11
<1>13. QED
  BY <1>1, <1>12 DEF UnitOf

\* What a range of old messages says and is compacted to does not change.
LEMMA ContentStays ==
    ASSUME NEW ms \in Seq(Messages), NEW ns \in Seq(Messages), Extends(ns, ms),
           NEW u, u.ask \in 1..Len(ms), u.upto \in 0..Len(ms)
    PROVE  /\ CompleteIn(ns, u) <=> CompleteIn(ms, u)
           /\ PairedIn(ns, u) <=> PairedIn(ms, u)
           /\ CompleteIn(ms, u) => CompactIn(ns, u) = CompactIn(ms, u)
<1>1. \A i \in (u.ask + 1)..u.upto : i \in 1..Len(ms) /\ ns[i] = ms[i]
  BY DEF Extends
<1>2. TextsOf(ns, u) = TextsOf(ms, u) /\ \A kind : InOf(ns, u, kind) = InOf(ms, u, kind)
  BY <1>1 DEF TextsOf, InOf
<1>3. \A i : i \in TextsOf(ms, u) => ns[i] = ms[i]
  BY <1>1 DEF TextsOf
<1>4. \A kind : \A i : i \in InOf(ms, u, kind) => ns[i] = ms[i]
  BY <1>1 DEF InOf
<1>5. PairedIn(ns, u) <=> PairedIn(ms, u)
  BY <1>2, <1>4 DEF PairedIn
<1>6. CompleteIn(ns, u) <=> CompleteIn(ms, u)
  BY <1>2, <1>5 DEF CompleteIn
<1>7. ASSUME CompleteIn(ms, u) PROVE CompactIn(ns, u) = CompactIn(ms, u)
  <2> DEFINE F(ss) == {i \in TextsOf(ss, u) : ss[i].tag \in {"error", "interrupted"}}
  <2>1. F(ns) = F(ms)
    BY <1>2, <1>3
  <2>2. TextsOf(ms, u) \subseteq 0..Len(ms) /\ TextsOf(ms, u) # {} /\ Len(ms) \in Nat
    BY <1>1, <1>7 DEF CompleteIn, TextsOf
  <2>3. Max(TextsOf(ms, u)) \in TextsOf(ms, u)
    BY <2>2, GreatestOf
  <2>4. ns[Max(TextsOf(ms, u))] = ms[Max(TextsOf(ms, u))]
    BY <1>3, <2>3
  <2>5. F(ms) # {} => Max(F(ms)) \in F(ms)
    <3>1. F(ms) \subseteq 0..Len(ms)
      BY <2>2
    <3> HIDE DEF F
    <3>2. QED
      BY <2>2, <3>1, GreatestOf
  <2>6. F(ms) # {} => ns[Max(F(ms))] = ms[Max(F(ms))]
    BY <1>3, <2>5
  <2>7. {ns[i].tag : i \in InOf(ns, u, "call")} = {ms[i].tag : i \in InOf(ms, u, "call")}
    BY <1>2, <1>4
  <2>8. ns[u.ask] = ms[u.ask]
    BY DEF Extends
  <2> HIDE DEF F
  <2>11. (IF F(ns) = {} THEN "completed" ELSE ns[Max(F(ns))].tag)
           = (IF F(ms) = {} THEN "completed" ELSE ms[Max(F(ms))].tag)
    BY <2>1, <2>6
  <2>12. ns[Max(TextsOf(ns, u))].turn = ms[Max(TextsOf(ms, u))].turn
    BY <1>2, <2>4
  <2> DEFINE C(ss) == {ss[i].tag : i \in InOf(ss, u, "call")}
             A(ss) == ss[Max(TextsOf(ss, u))].turn
             O(ss) == IF F(ss) = {} THEN "completed" ELSE ss[Max(F(ss))].tag
  <2>13. C(ns) = C(ms) /\ A(ns) = A(ms) /\ O(ns) = O(ms)
    BY <2>7, <2>11, <2>12
  <2>14. \A ss : CompactIn(ss, u) = [from |-> u.from, upto |-> u.upto, topic |-> ss[u.ask].tag,
            tools |-> C(ss), answer |-> A(ss), outcome |-> O(ss)]
    BY DEF CompactIn, F
  <2> HIDE DEF C, A, O
  <2>15. QED
    BY <2>8, <2>13, <2>14
<1>8. QED
  BY <1>5, <1>6, <1>7

\* The segment of a unit has its range; one position is in one unit only.
LEMMA CompactRange ==
    ASSUME NEW ms \in Seq(Messages), NEW i \in AsksOf(ms)
    PROVE  /\ CompactIn(ms, UnitOf(ms, i)).from = OpensIn(ms, i)
           /\ CompactIn(ms, UnitOf(ms, i)).upto = ClosesIn(ms, i)
BY DEF CompactIn, UnitOf

LEMMA UnitsApart ==
    ASSUME NEW ms \in Seq(Messages), NEW i \in AsksOf(ms), NEW j \in AsksOf(ms), NEW p \in Int,
           p \in OpensIn(ms, i)..ClosesIn(ms, i), p \in OpensIn(ms, j)..ClosesIn(ms, j)
    PROVE  i = j
<1>1. i \in 1..Len(ms) /\ j \in 1..Len(ms)
  BY OpensInRange
<1>2. OpensIn(ms, i) \in Int /\ OpensIn(ms, j) \in Int /\ ClosesIn(ms, i) \in Int /\ ClosesIn(ms, j) \in Int
  BY OpensInRange, ClosesInRange
<1>3. (j > i => ClosesIn(ms, i) < OpensIn(ms, j)) /\ (i > j => ClosesIn(ms, j) < OpensIn(ms, i))
  BY ClosesInRange
<1>4. QED
  BY <1>1, <1>2, <1>3

----------------------------------------------------------------------------
(* The invariant of a context, which the session and its snapshot both keep. *)

\* A segment is what the messages of a finished unit, which another question
\* follows, are compacted to.
FrozenTrue(ms, fz) ==
    \A s \in fz : \E i, k \in AsksOf(ms) :
        k > i /\ CompleteIn(ms, UnitOf(ms, i)) /\ s = CompactIn(ms, UnitOf(ms, i))

\* The segments lie before the cursor and leave none of it out; it stands at
\* the end of a unit.
Covered(ms, c, fz) ==
    /\ c \in 0..Len(ms)
    /\ \A s \in fz : s.upto <= c
    /\ \A p \in 1..c : \E s \in fz : p \in s.from..s.upto
    /\ c = 0 \/ \E i, k \in AsksOf(ms) : k > i /\ c = ClosesIn(ms, i)

\* A summary covers the oldest segments.
OldestCovered(fz, st) ==
    /\ Sources(st) \subseteq fz
    /\ \A s \in Sources(st) : \A t \in fz : t.from < s.from => t \in Sources(st)

\* A session begins with a question, and no hint is its last word.
BeginsWithQuestion(ms) ==
    ms # <<>> => ms[Len(ms)].kind # "hint" /\ \E i \in AsksOf(ms) : OpensIn(ms, i) = 1

ContextInv(ms, c, fz, st) ==
    /\ ms \in Seq(Messages)
    /\ BeginsWithQuestion(ms)
    /\ FrozenTrue(ms, fz)
    /\ Covered(ms, c, fz)
    /\ OldestCovered(fz, st)

\* A segment has the range of the unit it was made of.
LEMMA SegmentOf ==
    ASSUME NEW ms \in Seq(Messages), NEW fz, FrozenTrue(ms, fz), NEW s \in fz
    PROVE  \E i, k \in AsksOf(ms) :
              /\ k > i /\ CompleteIn(ms, UnitOf(ms, i)) /\ s = CompactIn(ms, UnitOf(ms, i))
              /\ s.from = OpensIn(ms, i) /\ s.upto = ClosesIn(ms, i)
              /\ s.from \in 1..i /\ s.upto \in i..Len(ms)
<1>1. PICK i, k \in AsksOf(ms) :
          k > i /\ CompleteIn(ms, UnitOf(ms, i)) /\ s = CompactIn(ms, UnitOf(ms, i))
  BY DEF FrozenTrue
<1>2. s.from = OpensIn(ms, i) /\ s.upto = ClosesIn(ms, i)
  BY <1>1, CompactRange
<1>3. s.from \in 1..i /\ s.upto \in i..Len(ms)
  BY <1>2, OpensInRange, ClosesInRange
<1>4. QED
  BY <1>1, <1>2, <1>3

\* Two segments share no position.
LEMMA SegmentsApart ==
    ASSUME NEW ms \in Seq(Messages), NEW fz, FrozenTrue(ms, fz), NEW s \in fz, NEW t \in fz,
           NEW p \in Int, p \in s.from..s.upto, p \in t.from..t.upto
    PROVE  s = t
<1>1. PICK i \in AsksOf(ms) : s = CompactIn(ms, UnitOf(ms, i))
                              /\ s.from = OpensIn(ms, i) /\ s.upto = ClosesIn(ms, i)
  BY SegmentOf
<1>2. PICK j \in AsksOf(ms) : t = CompactIn(ms, UnitOf(ms, j))
                              /\ t.from = OpensIn(ms, j) /\ t.upto = ClosesIn(ms, j)
  BY SegmentOf
<1>3. i = j
  BY <1>1, <1>2, UnitsApart
<1>4. QED
  BY <1>1, <1>2, <1>3

\* There are finitely many segments: their beginnings tell them apart.
LEMMA SegmentsFinite ==
    ASSUME NEW ms \in Seq(Messages), NEW fz, FrozenTrue(ms, fz)
    PROVE  IsFiniteSet(fz)
<1> DEFINE f == [s \in fz |-> s.from]
<1>0. Len(ms) \in Nat
  OBVIOUS
<1>1. \A s \in fz : s.from \in 1..Len(ms) /\ s.from \in s.from..s.upto
  <2> TAKE s \in fz
  <2>1. PICK i \in AsksOf(ms) : s.from \in 1..i /\ s.upto \in i..Len(ms)
    BY SegmentOf
  <2>2. i \in 1..Len(ms)
    BY OpensInRange
  <2>3. QED
    BY <1>0, <2>1, <2>2
<1>2. \A s, t \in fz : s.from = t.from => s = t
  <2> TAKE s, t \in fz
  <2> HAVE s.from = t.from
  <2>1. s.from \in Int /\ s.from \in s.from..s.upto /\ s.from \in t.from..t.upto
    BY <1>0, <1>1
  <2>2. QED
    BY <2>1, SegmentsApart
<1>3. f \in Injection(fz, 1..Len(ms))
  BY <1>1, <1>2 DEF Injection, IsInjective
<1>4. IsFiniteSet(1..Len(ms))
  BY <1>0, FS_Interval
<1> HIDE DEF f
<1>5. QED
  BY <1>3, <1>4, FS_Injection

\* Appending messages keeps the invariant of a context.
LEMMA GrowthKeeps ==
    ASSUME NEW ms \in Seq(Messages), NEW ns \in Seq(Messages), Extends(ns, ms),
           NEW c, NEW fz, NEW st, ContextInv(ms, c, fz, st), BeginsWithQuestion(ns)
    PROVE  ContextInv(ns, c, fz, st)
<1>0. AsksOf(ms) \subseteq 1..Len(ms) /\ Len(ms) \in Nat /\ Len(ns) \in Nat /\ Len(ms) <= Len(ns)
  BY DEF AsksOf, Extends
<1>1. \A i \in AsksOf(ms) : i \in AsksOf(ns)
  BY <1>0, AsksStay
<1>2. \A i, k \in AsksOf(ms) : k > i => UnitOf(ns, i) = UnitOf(ms, i)
  BY UnitStays
<1>3. ASSUME NEW s \in fz
      PROVE  \E i, k \in AsksOf(ns) :
                 k > i /\ CompleteIn(ns, UnitOf(ns, i)) /\ s = CompactIn(ns, UnitOf(ns, i))
  <2>1. PICK i, k \in AsksOf(ms) :
            k > i /\ CompleteIn(ms, UnitOf(ms, i)) /\ s = CompactIn(ms, UnitOf(ms, i))
    BY DEF ContextInv, FrozenTrue
  <2> DEFINE u == UnitOf(ms, i)
  <2>2. u.ask \in 1..Len(ms) /\ u.upto \in 0..Len(ms)
    BY <1>0, ClosesInRange DEF UnitOf
  <2> HIDE DEF u
  <2>3. CompleteIn(ns, u) /\ CompactIn(ns, u) = CompactIn(ms, u)
    BY <2>1, <2>2, ContentStays DEF u
  <2>4. UnitOf(ns, i) = u
    BY <1>2, <2>1 DEF u
  <2>5. QED
    BY <1>1, <2>1, <2>3, <2>4 DEF u
<1>4. Covered(ms, c, fz)
  BY DEF ContextInv
<1>5. \A i \in AsksOf(ms) : (\E k \in AsksOf(ms) : k > i) => ClosesIn(ns, i) = ClosesIn(ms, i)
  BY <1>2 DEF UnitOf
<1>6. c = 0 \/ \E i, k \in AsksOf(ns) : k > i /\ c = ClosesIn(ns, i)
  BY <1>1, <1>4, <1>5 DEF Covered
<1>7. Covered(ns, c, fz)
  BY <1>0, <1>4, <1>6 DEF Covered
<1>8. QED
  BY <1>3, <1>7 DEF ContextInv, FrozenTrue

----------------------------------------------------------------------------
(* Freezing. *)

After(i) == {j \in Asks : j > i}

\* Finitely many questions come after a position.
LEMMA AfterFinite ==
    ASSUME messages \in Seq(Messages), NEW i \in Int
    PROVE  IsFiniteSet(After(i)) /\ Cardinality(After(i)) \in Nat
<1>1. Len(messages) \in Nat /\ After(i) \subseteq 1..Len(messages)
  BY DEF After, Asks
<1>2. IsFiniteSet(1..Len(messages))
  BY <1>1, FS_Interval
<1>3. QED
  BY <1>1, <1>2, FS_Subset, FS_CardinalityType

\* Fewer questions come after a later question.
LEMMA AfterLater ==
    ASSUME messages \in Seq(Messages), NEW i \in Int, NEW j \in Int, i <= j
    PROVE  Cardinality(After(j)) <= Cardinality(After(i))
<1>1. \A k \in Asks : k \in Int
  BY DEF Asks
<1>2. \A k \in Asks : k > j => k > i
  BY <1>1
<1>3. After(j) \subseteq After(i)
  BY <1>2 DEF After
<1>4. QED
  BY <1>3, AfterFinite, FS_Subset

\* A cool unit has another question behind it, and so do the units before it.
LEMMA CoolUnits ==
    ASSUME messages \in Seq(Messages), NEW u \in Cool
    PROVE  /\ u.ask \in AsksOf(messages) /\ u = UnitOf(messages, u.ask)
           /\ \E k \in AsksOf(messages) : k > u.ask
           /\ \A i \in AsksOf(messages) : i <= u.ask => UnitOf(messages, i) \in Cool
<1>1. PICK i \in AsksOf(messages) : u = UnitOf(messages, i)
  BY SameDefinitions DEF Cool
<1>2. u.ask = i /\ u.ask \in Int /\ AsksOf(messages) \subseteq Int /\ Asks = AsksOf(messages)
  BY <1>1, SameDefinitions DEF UnitOf, AsksOf
<1>3. Cardinality(After(u.ask)) >= HotTurns
  BY DEF Cool, After
<1>4. After(u.ask) # {}
  <2>1. Cardinality({}) = 0
    BY FS_EmptySet
  <2>2. ~(0 >= HotTurns)
    BY FreezeAssumption
  <2>3. QED
    BY <1>3, <2>1, <2>2
<1>5. ASSUME NEW j \in AsksOf(messages), j <= u.ask PROVE UnitOf(messages, j) \in Cool
  <2>1. Cardinality(After(j)) >= HotTurns
    BY <1>2, <1>3, <1>5, AfterLater, AfterFinite, FreezeAssumption
  <2>2. UnitOf(messages, j) \in Units /\ UnitOf(messages, j).ask = j
    BY SameDefinitions DEF UnitOf
  <2>3. QED
    BY <2>1, <2>2 DEF Cool, After
<1>6. QED
  BY <1>1, <1>2, <1>4, <1>5 DEF After

\* A unit that settles is complete and lies behind the cursor.
LEMMA SettledUnits ==
    ASSUME messages \in Seq(Messages), cursor \in Nat, NEW u \in Settled
    PROVE  /\ u \in Cool /\ CompleteIn(messages, u)
           /\ u.from > cursor /\ u.upto \in 0..Len(messages)
           /\ u.from = OpensIn(messages, u.ask) /\ u.upto = ClosesIn(messages, u.ask)
<1>1. u \in Cool /\ u.from > cursor
  BY DEF Settled
<1>2. u.ask \in AsksOf(messages) /\ u.from = OpensIn(messages, u.ask) /\ u.upto = ClosesIn(messages, u.ask)
  BY <1>1, CoolUnits DEF UnitOf
<1>3. u.from \in 1..u.ask /\ u.ask \in 1..Len(messages) /\ u.upto \in u.ask..Len(messages)
  BY <1>2, OpensInRange, ClosesInRange
<1>4. PICK v \in Cool : v.from = cursor + 1
  BY DEF Settled
<1>5. v.from \in Int
  BY <1>4, CoolUnits, OpensInRange DEF UnitOf
<1>6. CompleteIn(messages, u)
  <2>1. u.from \in (cursor + 1)..u.from
    BY <1>1, <1>3, <1>4, <1>5
  <2>2. Complete(u)
    BY <1>1, <2>1 DEF Settled
  <2>3. QED
    BY <2>2, SameDefinitions
<1>7. QED
  BY <1>1, <1>2, <1>3, <1>6

\* The units that are frozen follow each other from the cursor on.
LEMMA SettledCover ==
    ASSUME messages \in Seq(Messages), cursor \in Nat, NEW u \in Settled,
           NEW p \in (cursor + 1)..u.upto
    PROVE  \E w \in Settled : p \in w.from..w.upto
<1> DEFINE ms == messages
           Q == {k \in AsksOf(ms) : OpensIn(ms, k) <= p}
<1>0. AsksOf(ms) \subseteq 1..Len(ms) /\ Len(ms) \in Nat
  BY DEF AsksOf
<1>1. PICK v \in Cool : v.from = cursor + 1
  BY DEF Settled
<1>2. v.ask \in AsksOf(ms) /\ v.from = OpensIn(ms, v.ask)
  BY <1>1, CoolUnits DEF UnitOf
<1>3. u \in Cool /\ u.ask \in AsksOf(ms) /\ u.upto = ClosesIn(ms, u.ask) /\ u.from = OpensIn(ms, u.ask) /\ u.upto \in Nat
  BY SettledUnits, CoolUnits
<1>4. p \in Nat /\ v.from <= p
  BY <1>1, <1>3
<1>5. v.ask \in Q /\ Q \subseteq 0..Len(ms)
  BY <1>0, <1>2, <1>4
<1> DEFINE k == Max(Q)
<1>6. k \in Q /\ \A j \in Q : j <= k
  BY <1>0, <1>5, GreatestOf
<1> HIDE DEF k
<1>7. k \in AsksOf(ms) /\ OpensIn(ms, k) <= p /\ OpensIn(ms, k) \in 1..k /\ k \in 1..Len(ms)
  BY <1>0, <1>6, OpensInRange
<1>8. \A j \in AsksOf(ms) : j > k => OpensIn(ms, j) > p
  <2> TAKE j \in AsksOf(ms)
  <2> HAVE j > k
  <2>1. ~(j <= k) /\ OpensIn(ms, j) \in Int
    BY <1>0, <1>7, OpensInRange
  <2>2. ~(OpensIn(ms, j) <= p)
    BY <1>6, <2>1
  <2>3. QED
    BY <1>4, <2>1, <2>2
<1>9. k <= u.ask
  <2>1. k > u.ask => ClosesIn(ms, u.ask) < OpensIn(ms, k)
    BY <1>3, <1>7, ClosesInRange
  <2>2. QED
    BY <1>0, <1>3, <1>4, <1>7, <2>1
<1>10. p <= ClosesIn(ms, k)
  <2>1. ClosesIn(ms, k) \in Nat
    BY <1>7, ClosesInRange
  <2>2. ClosesIn(ms, k) = Len(ms) => p <= ClosesIn(ms, k)
    BY <1>0, <1>3, ClosesInRange
  <2>3. ASSUME NEW j \in AsksOf(ms), j > k, ClosesIn(ms, k) = OpensIn(ms, j) - 1 PROVE p <= ClosesIn(ms, k)
    <3>1. OpensIn(ms, j) > p /\ OpensIn(ms, j) \in Int
      BY <1>8, <2>3, OpensInRange
    <3>2. QED
      BY <1>4, <2>3, <3>1
  <2>4. QED
    BY <1>7, <2>2, <2>3, ClosesInRange
<1> DEFINE w == UnitOf(ms, k)
<1>11. w \in Cool
  BY <1>3, <1>7, <1>9, CoolUnits
<1>12. w.from = OpensIn(ms, k) /\ w.upto = ClosesIn(ms, k) /\ w.ask = k
  BY DEF UnitOf
<1> HIDE DEF w
<1>13. v.ask <= k
  BY <1>5, <1>6
<1>14. w.from > cursor
  <2>1. v.ask < k => v.ask < OpensIn(ms, k)
    BY <1>2, <1>7, OpensInRange
  <2>2. OpensIn(ms, v.ask) \in 1..v.ask
    BY <1>2, OpensInRange
  <2>3. v.ask = k \/ v.ask < k
    BY <1>0, <1>2, <1>7, <1>13
  <2>4. QED
    BY <1>0, <1>1, <1>2, <1>7, <1>12, <2>1, <2>2, <2>3
<1>15. w.from <= u.from
  <2>1. k < u.ask => k < OpensIn(ms, u.ask)
    BY <1>3, <1>7, OpensInRange
  <2>2. k = u.ask \/ k < u.ask
    BY <1>0, <1>3, <1>7, <1>9
  <2>3. OpensIn(ms, u.ask) \in Int
    BY <1>3, OpensInRange
  <2>4. QED
    BY <1>3, <1>7, <1>12, <2>1, <2>2, <2>3
<1>16. \A x \in Cool : x.from \in (cursor + 1)..w.from => Complete(x)
  <2>1. \A x \in Cool : x.from \in (cursor + 1)..u.from => Complete(x)
    BY DEF Settled
  <2>2. w.from \in Int /\ u.from \in Int
    <3>1. OpensIn(ms, u.ask) \in Int
      BY <1>3, OpensInRange
    <3>2. QED
      BY <1>0, <1>3, <1>7, <1>12, <3>1
  <2>3. QED
    BY <1>15, <2>1, <2>2
<1>17. w \in Settled
  BY <1>1, <1>11, <1>14, <1>16 DEF Settled
<1>18. p \in w.from..w.upto
  BY <1>4, <1>7, <1>10, <1>12, ClosesInRange
<1>19. QED
  BY <1>17, <1>18

Segmented == frozen \cup {Compact(u) : u \in Settled}

\* Freezing adds only segments of complete units that another one follows.
LEMMA FreezeKeepsFrozen ==
    ASSUME ContextInv(messages, cursor, frozen, stage)
    PROVE  FrozenTrue(messages, Segmented)
<1>1. messages \in Seq(Messages) /\ cursor \in Nat /\ FrozenTrue(messages, frozen)
  BY DEF ContextInv, Covered
<1>2. ASSUME NEW u \in Settled
      PROVE  \E i, k \in AsksOf(messages) :
                 k > i /\ CompleteIn(messages, UnitOf(messages, i)) /\ Compact(u) = CompactIn(messages, UnitOf(messages, i))
  <2>1. u \in Cool /\ CompleteIn(messages, u)
    BY <1>1, SettledUnits
  <2>2. u.ask \in AsksOf(messages) /\ u = UnitOf(messages, u.ask) /\ \E k \in AsksOf(messages) : k > u.ask
    BY <1>1, <2>1, CoolUnits
  <2>3. Compact(u) = CompactIn(messages, u)
    BY SameDefinitions
  <2>4. QED
    BY <2>1, <2>2, <2>3
<1>3. QED
  BY <1>1, <1>2 DEF FrozenTrue, Segmented

\* The cursor moves on to the end of the last unit frozen, and every message
\* up to there is in a segment.
LEMMA FreezeKeepsCovered ==
    ASSUME ContextInv(messages, cursor, frozen, stage), Freeze, messages' = messages
    PROVE  /\ Covered(messages, cursor', Segmented)
           /\ cursor' >= cursor
           /\ \A u \in Settled : u.upto <= cursor'
<1> DEFINE E == {u.upto : u \in Settled} \cup {cursor}
<1>1. messages \in Seq(Messages) /\ cursor \in 0..Len(messages) /\ cursor \in Nat /\ Len(messages) \in Nat
  BY DEF ContextInv, Covered
<1>2. cursor' = Max(E)
  BY DEF Freeze
<1>3. \A u \in Settled : u.upto \in 0..Len(messages)
  BY <1>1, SettledUnits
<1>4. E \subseteq 0..Len(messages) /\ cursor \in E /\ \A u \in Settled : u.upto \in E
  BY <1>1, <1>3
<1> HIDE DEF E
<1>5. cursor' \in E /\ \A y \in E : y <= cursor'
  BY <1>1, <1>2, <1>4, GreatestOf
<1>6. cursor' \in 0..Len(messages) /\ cursor' >= cursor /\ \A u \in Settled : u.upto <= cursor'
  BY <1>1, <1>4, <1>5
<1>7. cursor' = cursor \/ \E u \in Settled : cursor' = u.upto
  BY <1>5 DEF E
<1>8. \A u \in Settled : Compact(u) \in Segmented /\ Compact(u).from = u.from /\ Compact(u).upto = u.upto
  BY DEF Segmented, Compact
<1>9. \A s \in Segmented : s.upto <= cursor'
  <2>1. \A s \in frozen : s.upto <= cursor'
    <3> TAKE s \in frozen
    <3>1. s.upto <= cursor
      BY DEF ContextInv, Covered
    <3>2. PICK i \in AsksOf(messages) : s.upto \in i..Len(messages) /\ i \in 1..Len(messages)
      <4>1. PICK j \in AsksOf(messages) : s.upto \in j..Len(messages)
        BY <1>1, SegmentOf DEF ContextInv
      <4>2. QED
        BY <1>1, <4>1, OpensInRange
    <3>3. QED
      BY <1>1, <1>6, <3>1, <3>2
  <2>2. QED
    BY <1>6, <1>8, <2>1 DEF Segmented
<1>10. ASSUME NEW p \in 1..cursor' PROVE \E s \in Segmented : p \in s.from..s.upto
  <2>1. CASE p <= cursor
    BY <1>1, <2>1 DEF ContextInv, Covered, Segmented
  <2>2. CASE ~(p <= cursor)
    <3>1. PICK u \in Settled : cursor' = u.upto
      BY <1>6, <1>7, <2>2
    <3>2. p \in (cursor + 1)..u.upto
      BY <1>1, <1>6, <2>2, <3>1
    <3>3. PICK w \in Settled : p \in w.from..w.upto
      BY <1>1, <3>2, SettledCover
    <3>4. QED
      BY <1>8, <3>3
  <2>3. QED
    BY <2>1, <2>2
<1>11. cursor' = 0 \/ \E i, k \in AsksOf(messages) : k > i /\ cursor' = ClosesIn(messages, i)
  <2>1. CASE cursor' = cursor
    BY <2>1 DEF ContextInv, Covered
  <2>2. ASSUME NEW u \in Settled, cursor' = u.upto PROVE <1>11!2
    <3>1. u \in Cool /\ u.upto = ClosesIn(messages, u.ask)
      BY <1>1, SettledUnits
    <3>2. u.ask \in AsksOf(messages) /\ \E k \in AsksOf(messages) : k > u.ask
      BY <1>1, <3>1, CoolUnits
    <3>3. QED
      BY <2>2, <3>1, <3>2
  <2>3. QED
    BY <1>7, <2>1, <2>2
<1>12. QED
  BY <1>6, <1>9, <1>10, <1>11 DEF Covered

\* The number kept is one, also when the limit in tokens lowers it.
LEMMA KeptIsNat == \A S : Cardinality(S) \in Nat => Kept(S) \in Nat
<1> SUFFICES ASSUME NEW S, Cardinality(S) \in Nat PROVE Kept(S) \in Nat
  OBVIOUS
<1> DEFINE few == Min({Cardinality(S), KeepRecent})
           N   == {0} \cup {n \in 1..few : n * SegmentSize <= RecentLimit}
<1>1. few \in Nat
  <2>1. {Cardinality(S), KeepRecent} \subseteq Nat
    BY FreezeAssumption
  <2>2. QED
    BY <2>1, LeastOf
<1>2. Kept(S) = Max(N)
  BY DEF Kept
<1> HIDE DEF few
<1>3. N \in SUBSET (0..few) /\ N # {}
  <2>1. 0 \in 0..few /\ \A n \in 1..few : n \in 0..few
    BY <1>1
  <2>2. QED
    BY <2>1, Zenon
<1> HIDE DEF N
<1>4. Max(N) \in N
  BY <1>1, <1>3, GreatestOf
<1>5. Kept(S) \in 0..few
  BY <1>2, <1>3, <1>4, Zenon
<1>6. QED
  BY <1>1, <1>5

\* Folding takes the oldest of the segments that the summary does not cover.
LEMMA FoldTakesOldest ==
    ASSUME NEW segments, IsFiniteSet(segments), \A s \in segments : s.from \in Int, NEW from, NEW st,
           OldestCovered(segments, st)
    PROVE  OldestCovered(segments, Folded(segments, from, st))
<1> DEFINE uncovered == segments \ Sources(st)
           most      == Kept(uncovered)
           least     == Min({MinRecent, most})
           summary(n) == Summarise(AllBut(n, uncovered), st)
           size(n)    == InputSize(segments, from, summary(n))
           C         == {n \in least..most : size(n) <= MaxAfter} \cup {least}
           kept      == Max(C)
<1>1. Folded(segments, from, st) \in {st, summary(kept)}
  BY DEF Folded
<1>2. IsFiniteSet(uncovered) /\ Cardinality(uncovered) \in Nat
  BY FS_Subset, FS_CardinalityType
<1>3. most \in Nat
  <2> HIDE DEF uncovered
  <2>1. QED
    BY <1>2, KeptIsNat
<1>4. least \in Nat /\ least <= most
  <2> HIDE DEF most
  <2>1. {MinRecent, most} \subseteq Nat
    BY <1>3, FreezeAssumption
  <2>2. QED
    BY <2>1, LeastOf
<1>5. kept \in Nat
  <2> HIDE DEF least, most, size
  <2>1. C \subseteq 0..most /\ C # {}
    BY <1>3, <1>4
  <2> HIDE DEF C
  <2>2. kept \in C
    BY <1>3, <2>1, GreatestOf
  <2> HIDE DEF kept
  <2>3. kept \in 0..most
    BY <2>1, <2>2
  <2>4. QED
    BY <1>3, <2>3
<1> HIDE DEF kept, size
<1>6. summary(kept) # NoStage => Sources(summary(kept)) = Sources(st) \cup AllBut(kept, uncovered)
  <2>1. summary(kept).sources = Sources(st) \cup AllBut(kept, uncovered)
    BY DEF Summarise, Sources
  <2> HIDE DEF summary
  <2>2. QED
    BY <2>1 DEF Sources
<1> HIDE DEF summary
<1>7. CASE summary(kept) = NoStage
  <2>1. Sources(summary(kept)) = {}
    BY <1>7 DEF Sources
  <2>2. OldestCovered(segments, summary(kept))
    BY <2>1 DEF OldestCovered
  <2>3. QED
    BY <1>1, <2>2
<1>8. CASE summary(kept) # NoStage
  <2>1. ASSUME NEW s \in AllBut(kept, uncovered), NEW t \in segments, t.from < s.from
        PROVE  t \in Sources(st) \cup AllBut(kept, uncovered)
    <3> SUFFICES ASSUME t \in uncovered PROVE t \in AllBut(kept, uncovered)
      OBVIOUS
    <3> DEFINE newer(x) == {r \in uncovered : r.from > x.from}
    <3>1. s \in uncovered /\ Cardinality(newer(s)) >= kept
      BY DEF AllBut
    <3>2. newer(s) \subseteq newer(t)
      BY <2>1, <3>1
    <3>3. newer(t) \subseteq uncovered
      OBVIOUS
    <3> HIDE DEF newer, uncovered
    <3>4. Cardinality(newer(s)) <= Cardinality(newer(t)) /\ Cardinality(newer(t)) \in Nat /\ Cardinality(newer(s)) \in Nat
      BY <1>2, <3>2, <3>3, FS_Subset, FS_CardinalityType
    <3>5. Cardinality(newer(t)) >= kept
      BY <1>5, <3>1, <3>4
    <3>6. QED
      BY <3>5 DEF AllBut, newer
  <2>2. AllBut(kept, uncovered) \subseteq segments
    BY DEF AllBut
  <2> HIDE DEF uncovered
  <2>3. OldestCovered(segments, summary(kept))
    BY <1>6, <1>8, <2>1, <2>2 DEF OldestCovered
  <2>4. QED
    BY <1>1, <2>3
<1>9. QED
  BY <1>7, <1>8

\* Freezing adds newer segments, so that a summary still covers the oldest.
LEMMA SegmentedOldest ==
    ASSUME ContextInv(messages, cursor, frozen, stage)
    PROVE  OldestCovered(Segmented, stage)
<1>1. messages \in Seq(Messages) /\ cursor \in Nat
      /\ FrozenTrue(messages, frozen) /\ \A s \in frozen : s.upto <= cursor
  BY DEF ContextInv, Covered
<1>2. FrozenTrue(messages, Segmented)
  BY FreezeKeepsFrozen
<1>3. \A s \in Segmented : s.from \in Int /\ s.upto \in Int /\ s.from <= s.upto
  <2> TAKE s \in Segmented
  <2>1. PICK i \in AsksOf(messages) : s.from \in 1..i /\ s.upto \in i..Len(messages)
    BY <1>1, <1>2, SegmentOf
  <2>2. i \in 1..Len(messages)
    BY <1>1, OpensInRange
  <2>3. QED
    BY <2>1, <2>2
<1>4. \A s \in Segmented : s \in frozen \/ s.from > cursor
  <2>1. \A u \in Settled : Compact(u).from > cursor
    BY <1>1, SettledUnits DEF Compact
  <2>2. QED
    BY <2>1 DEF Segmented
<1>5. OldestCovered(Segmented, stage)
  <2>1. Sources(stage) \subseteq frozen
        /\ \A s \in Sources(stage) : \A t \in frozen : t.from < s.from => t \in Sources(stage)
    BY DEF ContextInv, OldestCovered
  <2>2. frozen \subseteq Segmented
    BY DEF Segmented
  <2>3. ASSUME NEW s \in Sources(stage), NEW t \in Segmented, t.from < s.from PROVE t \in frozen
    <3>1. s \in frozen /\ s \in Segmented /\ s.upto <= cursor /\ s.from <= s.upto /\ s.from \in Int /\ s.upto \in Int
      BY <1>1, <1>3, <2>1, <2>2
    <3>2. t.from \in Int /\ ~(t.from > cursor)
      BY <1>1, <1>3, <2>3, <3>1
    <3>3. QED
      BY <1>4, <3>2
  <2>4. QED
    BY <2>1, <2>2, <2>3 DEF OldestCovered
<1> QED
  BY <1>5

\* advance_context_state() keeps the invariant of a context.
LEMMA FreezeKeeps ==
    ASSUME ContextInv(messages, cursor, frozen, stage), Freeze, messages' = messages
    PROVE  ContextInv(messages', cursor', frozen', stage')
<1>1. messages \in Seq(Messages) /\ BeginsWithQuestion(messages) /\ cursor \in Nat
      /\ FrozenTrue(messages, frozen) /\ \A s \in frozen : s.upto <= cursor
  BY DEF ContextInv, Covered
<1>2. frozen' = Segmented /\ stage' = Folded(Segmented, cursor', stage)
  BY DEF Freeze, Segmented
<1>3. FrozenTrue(messages, Segmented)
  BY FreezeKeepsFrozen
<1>4. Covered(messages, cursor', Segmented)
  BY FreezeKeepsCovered
<1>5. IsFiniteSet(Segmented)
  BY <1>1, <1>3, SegmentsFinite
<1>6. \A s \in Segmented : s.from \in Int /\ s.upto \in Int /\ s.from <= s.upto
  <2> TAKE s \in Segmented
  <2>1. PICK i \in AsksOf(messages) : s.from \in 1..i /\ s.upto \in i..Len(messages)
    BY <1>1, <1>3, SegmentOf
  <2>2. i \in 1..Len(messages)
    BY <1>1, OpensInRange
  <2>3. QED
    BY <2>1, <2>2
<1>8. OldestCovered(Segmented, stage)
  BY SegmentedOldest
<1>9. OldestCovered(Segmented, stage')
  BY <1>2, <1>5, <1>6, <1>8, FoldTakesOldest
<1>10. QED
  BY <1>1, <1>2, <1>3, <1>4, <1>9 DEF ContextInv

----------------------------------------------------------------------------
(* Turns in turn: how the last unit grows. *)

IsLast(ms, i) == i \in AsksOf(ms) /\ \A k \in AsksOf(ms) : k <= i

\* agent.state.get_unfinished_tool_calls()
Pending(ms) == ms # <<>> /\ ms[Len(ms)].kind = "call"

\* Every unit but the last is complete.
DoneBut(ms) == \A i, k \in AsksOf(ms) : k > i => CompleteIn(ms, UnitOf(ms, i))

\* All of them are.
AllDone(ms) ==
    /\ DoneBut(ms)
    /\ \A i : IsLast(ms, i) => CompleteIn(ms, UnitOf(ms, i))
    /\ ~Pending(ms)

\* The last one has a result for every call.
LastPaired(ms) ==
    /\ \A i : IsLast(ms, i) => PairedIn(ms, UnitOf(ms, i))
    /\ ~Pending(ms)

Upto(u, n) == [u EXCEPT !.upto = n]

\* The last one has a result for every call but the last, which is t's.
CallOpen(ms, t) ==
    /\ ms # <<>> /\ ms[Len(ms)].kind = "call" /\ ms[Len(ms)].turn = t
    /\ \A i : IsLast(ms, i) => PairedIn(ms, Upto(UnitOf(ms, i), Len(ms) - 1))

\* A unit cut at another end.
LEMMA UptoFields ==
    ASSUME NEW ms, NEW i, NEW n
    PROVE  Upto(UnitOf(ms, i), n).ask = i /\ Upto(UnitOf(ms, i), n).upto = n
BY DEF Upto, UnitOf

\* A message that is no question lengthens the last unit.
LEMMA LastGrows ==
    ASSUME NEW ms \in Seq(Messages), NEW m \in Messages, m.kind \notin {"buyer", "hint"}
    PROVE  LET ns == Append(ms, m) IN
           /\ ns \in Seq(Messages) /\ Extends(ns, ms) /\ Len(ns) = Len(ms) + 1 /\ ns[Len(ns)] = m
           /\ BeginsWithQuestion(ms) /\ ms # <<>> => BeginsWithQuestion(ns)
           /\ DoneBut(ms) => DoneBut(ns)
           /\ AsksOf(ns) = AsksOf(ms)
           /\ \A i : IsLast(ns, i) => /\ IsLast(ms, i) /\ UnitOf(ms, i).upto = Len(ms)
                                      /\ UnitOf(ns, i) = Upto(UnitOf(ms, i), Len(ms) + 1)
                                      /\ i \in 1..Len(ms) /\ UnitOf(ms, i).ask = i
<1> DEFINE ns == Append(ms, m)
<1>1. /\ ns \in Seq(Messages) /\ Len(ns) = Len(ms) + 1 /\ Len(ms) \in Nat /\ ns # <<>>
      /\ ns[Len(ms) + 1] = m /\ \A i \in 1..Len(ms) : ns[i] = ms[i]
      /\ DOMAIN ms = 1..Len(ms) /\ DOMAIN ns = 1..(Len(ms) + 1)
  OBVIOUS
<1> HIDE DEF ns
<1>2. Extends(ns, ms)
  BY <1>1 DEF Extends
<1>3. AsksOf(ns) = AsksOf(ms) /\ \A i \in AsksOf(ms) : i \in 1..Len(ms)
  <2>1. Len(ms) + 1 \notin AsksOf(ns)
    BY <1>1 DEF AsksOf
  <2>2. \A i : i \in 1..(Len(ms) + 1) <=> i \in 1..Len(ms) \/ i = Len(ms) + 1
    BY <1>1
  <2>3. \A i \in 1..Len(ms) : i \in AsksOf(ns) <=> i \in AsksOf(ms)
    BY <1>1, <1>2, AsksStay
  <2>4. AsksOf(ms) \subseteq 1..Len(ms) /\ AsksOf(ns) \subseteq 1..(Len(ms) + 1)
    BY <1>1 DEF AsksOf
  <2>5. QED
    BY <2>1, <2>2, <2>3, <2>4
<1>4. BeginsWithQuestion(ms) /\ ms # <<>> => BeginsWithQuestion(ns)
  <2> HAVE BeginsWithQuestion(ms) /\ ms # <<>>
  <2>1. PICK i \in AsksOf(ms) : OpensIn(ms, i) = 1
    BY DEF BeginsWithQuestion
  <2>2. i \in AsksOf(ns) /\ OpensIn(ns, i) = 1
    BY <1>1, <1>2, <1>3, <2>1, AsksStay
  <2>3. ns[Len(ns)].kind # "hint"
    BY <1>1
  <2>4. QED
    BY <2>2, <2>3 DEF BeginsWithQuestion
<1>5. ASSUME DoneBut(ms), NEW i \in AsksOf(ms), NEW k \in AsksOf(ms), k > i
      PROVE  CompleteIn(ns, UnitOf(ns, i))
  <2>1. UnitOf(ns, i) = UnitOf(ms, i)
    BY <1>1, <1>2, <1>5, UnitStays
  <2> DEFINE u == UnitOf(ms, i)
  <2>2. CompleteIn(ms, u)
    BY <1>5 DEF DoneBut
  <2>3. u.ask \in 1..Len(ms) /\ u.upto \in 0..Len(ms)
    BY <1>1, <1>3, ClosesInRange DEF UnitOf
  <2> HIDE DEF u
  <2>4. CompleteIn(ns, u)
    BY <1>1, <1>2, <2>2, <2>3, ContentStays
  <2>5. QED
    BY <2>1, <2>4 DEF u
<1>6. DoneBut(ms) => DoneBut(ns)
  BY <1>3, <1>5 DEF DoneBut
<1>7. ASSUME NEW i, IsLast(ns, i)
      PROVE  /\ IsLast(ms, i) /\ UnitOf(ms, i).upto = Len(ms)
             /\ UnitOf(ns, i) = Upto(UnitOf(ms, i), Len(ms) + 1)
             /\ i \in 1..Len(ms) /\ UnitOf(ms, i).ask = i
  <2>1. IsLast(ms, i) /\ i \in AsksOf(ms) /\ i \in AsksOf(ns) /\ i \in 1..Len(ms)
    BY <1>3, <1>7 DEF IsLast
  <2>2. ClosesIn(ms, i) = Len(ms) /\ ClosesIn(ns, i) = Len(ms) + 1
    BY <1>1, <1>7, <2>1, ClosesInRange DEF IsLast
  <2>3. OpensIn(ns, i) = OpensIn(ms, i)
    BY <1>1, <1>2, <2>1, AsksStay
  <2>4. QED
    BY <2>1, <2>2, <2>3 DEF UnitOf, Upto
<1>8. QED
  BY <1>1, <1>2, <1>3, <1>4, <1>6, <1>7 DEF ns

\* A call opens the last unit, its result closes it, a text completes it.
LEMMA CallOpens ==
    ASSUME NEW ms \in Seq(Messages), NEW m \in Messages, m.kind = "call", LastPaired(ms)
    PROVE  CallOpen(Append(ms, m), m.turn)
<1> DEFINE ns == Append(ms, m)
<1>1. /\ ns \in Seq(Messages) /\ Extends(ns, ms) /\ Len(ns) = Len(ms) + 1 /\ ns[Len(ns)] = m
      /\ Len(ms) \in Nat /\ ns # <<>>
      /\ \A i : IsLast(ns, i) => /\ IsLast(ms, i) /\ UnitOf(ms, i).upto = Len(ms)
                                 /\ UnitOf(ns, i) = Upto(UnitOf(ms, i), Len(ms) + 1)
                                 /\ i \in 1..Len(ms) /\ UnitOf(ms, i).ask = i
  BY LastGrows
<1> HIDE DEF ns
<1>2. ASSUME NEW i, IsLast(ns, i) PROVE PairedIn(ns, Upto(UnitOf(ns, i), Len(ns) - 1))
  <2> DEFINE u == UnitOf(ms, i)
  <2>1. PairedIn(ms, u)
    BY <1>1, <1>2 DEF LastPaired
  <2>2. u.upto = Len(ms) /\ u.ask \in 1..Len(ms) /\ u.upto \in 0..Len(ms)
    BY <1>1, <1>2
  <2>3. Upto(UnitOf(ns, i), Len(ns) - 1) = u
    <3>1. UnitOf(ns, i) = Upto(UnitOf(ms, i), Len(ms) + 1) /\ Len(ns) - 1 = Len(ms)
      BY <1>1, <1>2
    <3>2. QED
      BY <2>2, <3>1 DEF UnitOf, Upto
  <2> HIDE DEF u
  <2>4. PairedIn(ns, u)
    BY <1>1, <2>1, <2>2, ContentStays
  <2>5. QED
    BY <2>3, <2>4
<1>3. QED
  BY <1>1, <1>2 DEF CallOpen, ns

\* The result closes the call it belongs to.
LEMMA ResultCloses ==
    ASSUME NEW ms \in Seq(Messages), NEW m \in Messages, m.kind = "result", CallOpen(ms, m.turn)
    PROVE  LastPaired(Append(ms, m))
<1> DEFINE ns == Append(ms, m)
<1>1. /\ ns \in Seq(Messages) /\ Extends(ns, ms) /\ Len(ns) = Len(ms) + 1 /\ ns[Len(ns)] = m
      /\ Len(ms) \in Nat /\ ns # <<>>
      /\ \A i : IsLast(ns, i) => /\ IsLast(ms, i) /\ UnitOf(ms, i).upto = Len(ms)
                                 /\ UnitOf(ns, i) = Upto(UnitOf(ms, i), Len(ms) + 1)
                                 /\ i \in 1..Len(ms) /\ UnitOf(ms, i).ask = i
  BY LastGrows
<1> HIDE DEF ns
<1>2. ASSUME NEW i, IsLast(ns, i) PROVE PairedIn(ns, UnitOf(ns, i))
  <2> DEFINE n == Len(ms)
             v == Upto(UnitOf(ms, i), n - 1)
             w == UnitOf(ns, i)
  <2>1. PairedIn(ms, v) /\ n \in Nat /\ n # 0 /\ ms[n].kind = "call" /\ ms[n].turn = m.turn
    BY <1>1, <1>2 DEF CallOpen
  <2>a. w = Upto(UnitOf(ms, i), n + 1) /\ i \in 1..n
    BY <1>1, <1>2
  <2>2. v.ask = i /\ v.upto = n - 1 /\ w.ask = i /\ w.upto = n + 1 /\ i \in 1..n
    <3> HIDE DEF w, n
    <3>1. QED
      BY <2>a, UptoFields
  <2>3. i # n
    <3>1. ms[i].kind = "buyer"
      BY <1>1, <1>2 DEF IsLast, AsksOf
    <3>2. QED
      BY <2>1, <3>1
  <2> HIDE DEF v, w, n
  <2>4. PairedIn(ns, v)
    <3>1. v.ask \in 1..Len(ms) /\ v.upto \in 0..Len(ms)
      BY <2>1, <2>2 DEF n
    <3>2. QED
      BY <1>1, <2>1, <3>1, ContentStays
  <2>5. ns[n].kind = "call" /\ ns[n].turn = m.turn /\ ns[n + 1] = m
    BY <1>1, <2>1 DEF Extends, n
  <2>6. \A j : j \in (i + 1)..(n + 1) <=> j \in (i + 1)..(n - 1) \/ j = n \/ j = n + 1
    <3>1. i \in Int /\ n \in Int /\ i < n
      BY <2>1, <2>2, <2>3
    <3>2. QED
      BY ONLY <3>1
  <2>7. InOf(ns, w, "call") = InOf(ns, v, "call") \cup {n}
    BY <2>2, <2>5, <2>6 DEF InOf
  <2>8. InOf(ns, w, "result") = InOf(ns, v, "result") \cup {n + 1}
    BY <2>2, <2>5, <2>6 DEF InOf
  <2>9. n + 1 > n
    BY <2>1
  <2>10. QED
    BY <2>4, <2>5, <2>7, <2>8, <2>9 DEF PairedIn, w
<1>3. QED
  BY <1>1, <1>2 DEF LastPaired, Pending, ns

\* A text completes the last unit.
LEMMA TextCompletes ==
    ASSUME NEW ms \in Seq(Messages), NEW m \in Messages, m.kind = "text", m.text,
           LastPaired(ms), DoneBut(ms)
    PROVE  AllDone(Append(ms, m))
<1> DEFINE ns == Append(ms, m)
<1>1. /\ ns \in Seq(Messages) /\ Extends(ns, ms) /\ Len(ns) = Len(ms) + 1 /\ ns[Len(ns)] = m
      /\ Len(ms) \in Nat /\ ns # <<>> /\ DoneBut(ns)
      /\ \A i : IsLast(ns, i) => /\ IsLast(ms, i) /\ UnitOf(ms, i).upto = Len(ms)
                                 /\ UnitOf(ns, i) = Upto(UnitOf(ms, i), Len(ms) + 1)
                                 /\ i \in 1..Len(ms) /\ UnitOf(ms, i).ask = i
  BY LastGrows
<1> HIDE DEF ns
<1>2. ASSUME NEW i, IsLast(ns, i) PROVE CompleteIn(ns, UnitOf(ns, i))
  <2> DEFINE n == Len(ms)
             v == UnitOf(ms, i)
             w == UnitOf(ns, i)
  <2>1. PairedIn(ms, v) /\ n \in Nat
    BY <1>1, <1>2 DEF LastPaired
  <2>a. w = Upto(v, n + 1) /\ i \in 1..n /\ v.ask = i /\ v.upto = n
    BY <1>1, <1>2
  <2>2. v.ask = i /\ v.upto = n /\ w.ask = i /\ w.upto = n + 1 /\ i \in 1..n
    <3> HIDE DEF w, n
    <3>1. QED
      BY <2>a, UptoFields
  <2> HIDE DEF v, w, n
  <2>3. PairedIn(ns, v)
    <3>1. v.ask \in 1..Len(ms) /\ v.upto \in 0..Len(ms)
      BY <2>1, <2>2 DEF n
    <3>2. QED
      BY <1>1, <2>1, <3>1, ContentStays
  <2>4. ns[n + 1] = m
    BY <1>1 DEF n
  <2>5. \A j : j \in (i + 1)..(n + 1) <=> j \in (i + 1)..n \/ j = n + 1
    BY <2>1, <2>2
  <2>6. InOf(ns, w, "call") = InOf(ns, v, "call") /\ InOf(ns, w, "result") = InOf(ns, v, "result")
    BY <2>2, <2>4, <2>5 DEF InOf
  <2>7. n + 1 \in TextsOf(ns, w)
    BY <2>2, <2>4, <2>5 DEF TextsOf
  <2>8. QED
    BY <2>3, <2>6, <2>7 DEF CompleteIn, PairedIn, w
<1>3. QED
  BY <1>1, <1>2 DEF AllDone, Pending, ns

\* A message follows a call without its result.
AbandonedIn(ms) == \E i \in 1..Len(ms) - 1 : ms[i].kind = "call" /\ ms[i + 1].kind # "result"

\* It stays so.
LEMMA AbandonedStays ==
    ASSUME NEW ms \in Seq(Messages), NEW ns \in Seq(Messages), Extends(ns, ms), AbandonedIn(ms)
    PROVE  AbandonedIn(ns)
<1>1. Len(ms) \in Nat /\ Len(ns) \in Nat /\ Len(ms) <= Len(ns) /\ \A i \in 1..Len(ms) : ns[i] = ms[i]
  BY DEF Extends
<1>2. PICK i \in 1..Len(ms) - 1 : ms[i].kind = "call" /\ ms[i + 1].kind # "result"
  BY DEF AbandonedIn
<1>3. i \in 1..Len(ns) - 1 /\ ns[i] = ms[i] /\ ns[i + 1] = ms[i + 1]
  BY <1>1, <1>2
<1>4. QED
  BY <1>2, <1>3 DEF AbandonedIn

\* What is not its result, said behind a call, leaves it without one.
LEMMA CallLeft ==
    ASSUME NEW ms \in Seq(Messages), NEW m \in Messages, Pending(ms), m.kind # "result"
    PROVE  AbandonedIn(Append(ms, m))
<1> DEFINE ns == Append(ms, m)
<1>1. Len(ms) \in Nat /\ Len(ms) >= 1 /\ Len(ns) = Len(ms) + 1
      /\ ns[Len(ms)] = ms[Len(ms)] /\ ns[Len(ms) + 1] = m
  BY DEF Pending
<1> HIDE DEF ns
<1>2. Len(ms) \in 1..Len(ns) - 1
  BY <1>1
<1>3. QED
  BY <1>1, <1>2 DEF AbandonedIn, Pending, ns

----------------------------------------------------------------------------
(* What the earlier turns have left. *)

\* A session whose turns were answered and frozen satisfies the invariant, the
\* summary of an older schema included.
LEMMA PastHolds ==
    ASSUME NEW n \in Nat
    PROVE  /\ ContextInv(Past(n).messages, Past(n).cursor, Past(n).frozen, Past(n).stage)
           /\ AllDone(Past(n).messages)
<1> DEFINE ms  == Past(n).messages
           old == [i \in 1..n - 1 |-> [from |-> 2 * i - 1, upto |-> 2 * i,
                                       topic |-> "follow", tools |-> {}, answer |-> i,
                                       outcome |-> "completed"]]
           covered == {old[i] : i \in 1..n - 2}
           c == Past(n).cursor
           fz == Past(n).frozen
           st == Past(n).stage
<1>1. /\ ms = [i \in 1..2 * n |-> IF i % 2 = 1
                 THEN Message("buyer", (i + 1) \div 2, "follow", FALSE)
                 ELSE Message("text", i \div 2, "completed", TRUE)]
      /\ c = IF n = 0 THEN 0 ELSE 2 * (n - 1)
      /\ fz = {old[i] : i \in 1..n - 1}
      /\ st = IF covered = {} THEN NoStage
                      ELSE [sources |-> covered, journeys |-> <<>>, facts |-> NoFacts,
                            generation |-> 1, legacy |-> TRUE]
  BY DEF Past
<1> HIDE DEF ms, c, fz, st
<1>a. \A k \in 1..n - 1 : old[k] = [from |-> 2 * k - 1, upto |-> 2 * k, topic |-> "follow", tools |-> {},
                                   answer |-> k, outcome |-> "completed"]
  OBVIOUS
<1>b. \A k \in 1..n - 1 : old[k].from = 2 * k - 1 /\ old[k].upto = 2 * k
  OBVIOUS
<1>c. fz = {old[k] : k \in 1..n - 1} /\ (n = 0 => c = 0) /\ (n # 0 => c = 2 * (n - 1))
  BY <1>1
<1>d. Sources(st) \in {{}, covered}
  BY <1>1 DEF Sources
<1> HIDE DEF old
<1> DEFINE G(i) == IF i % 2 = 1 THEN Message("buyer", (i + 1) \div 2, "follow", FALSE)
                   ELSE Message("text", i \div 2, "completed", TRUE)
<1>e. ms = [i \in 1..2 * n |-> G(i)]
  BY <1>1
<1>2. ms \in Seq(Messages) /\ Len(ms) = 2 * n /\ DOMAIN ms = 1..2 * n
      /\ \A i \in 1..2 * n : ms[i] = G(i)
  <2>1. \A i \in 1..2 * n : (i + 1) \div 2 \in Nat /\ i \div 2 \in Nat
    OBVIOUS
  <2>2. \A k \in Nat : Message("buyer", k, "follow", FALSE) \in Messages
                       /\ Message("text", k, "completed", TRUE) \in Messages
    BY DEF Message, Messages, Kinds, Tags, Outcomes
  <2>3. \A i \in 1..2 * n : G(i) \in Messages
    BY <2>1, <2>2
  <2> HIDE DEF G
  <2>4. 2 * n \in Nat
    OBVIOUS
  <2>5. \A N \in Nat : (\A i \in 1..N : G(i) \in Messages) =>
            [i \in 1..N |-> G(i)] \in Seq(Messages) /\ Len([i \in 1..N |-> G(i)]) = N
    OBVIOUS
  <2>6. QED
    BY <1>e, <2>3, <2>4, <2>5
<1>3. /\ \A k \in 1..n : 2 * k \in 1..2 * n /\ 2 * k - 1 \in 1..2 * n
      /\ \A k \in 1..n : (2 * k) % 2 = 0 /\ (2 * k - 1) % 2 = 1 /\ (2 * k) \div 2 = k
  OBVIOUS
<1>4. /\ \A k \in 1..n : ms[2 * k] = Message("text", k, "completed", TRUE)
      /\ \A k \in 1..n : ms[2 * k - 1].kind = "buyer" /\ ms[2 * k - 1].tag = "follow"
      /\ \A i \in 1..2 * n : ms[i].kind \in {"buyer", "text"} /\ (ms[i].kind = "buyer" <=> i % 2 = 1)
  <2>1. \A i : i % 2 = 1 => G(i).kind = "buyer" /\ G(i).tag = "follow"
    BY DEF Message
  <2>2. \A i : i % 2 # 1 => G(i).kind = "text" /\ G(i) = Message("text", i \div 2, "completed", TRUE)
    BY DEF Message
  <2>3. \A k \in 1..n : 2 * k \in 1..2 * n /\ (2 * k) % 2 # 1 /\ (2 * k) \div 2 = k
    BY <1>3
  <2> HIDE DEF G
  <2>4. \A k \in 1..n : ms[2 * k] = Message("text", k, "completed", TRUE)
    BY <1>2, <2>2, <2>3
  <2>5. \A k \in 1..n : ms[2 * k - 1].kind = "buyer" /\ ms[2 * k - 1].tag = "follow"
    BY <1>2, <1>3, <2>1
  <2>6. ASSUME NEW i \in 1..2 * n
        PROVE  ms[i].kind \in {"buyer", "text"} /\ (ms[i].kind = "buyer" <=> i % 2 = 1)
    BY <1>2, <2>1, <2>2
  <2>7. QED
    BY <2>4, <2>5, <2>6
<1> HIDE DEF G
<1>5. AsksOf(ms) = {i \in 1..2 * n : i % 2 = 1} /\ \A i \in AsksOf(ms) : OpensIn(ms, i) = i
  <2>1. AsksOf(ms) = {i \in 1..2 * n : i % 2 = 1}
    BY <1>2, <1>4 DEF AsksOf
  <2>2. ASSUME NEW i \in AsksOf(ms) PROVE OpensIn(ms, i) = i
    <3>1. i > 1 => i - 1 \in 1..2 * n
      BY <2>1
    <3>2. i > 1 => ms[i - 1].kind # "hint"
      BY <1>4, <3>1
    <3>3. QED
      BY <3>2 DEF OpensIn
  <2>3. QED
    BY <2>1, <2>2
<1>6. BeginsWithQuestion(ms)
  <2>1. ms # <<>> => n >= 1
    BY <1>2
  <2>2. n >= 1 => 1 \in AsksOf(ms) /\ OpensIn(ms, 1) = 1
    BY <1>5
  <2>3. n >= 1 => Len(ms) \in 1..2 * n
    BY <1>2
  <2>4. QED
    BY <1>4, <2>1, <2>2, <2>3 DEF BeginsWithQuestion
<1>7. ASSUME NEW k \in 1..n
      PROVE  /\ 2 * k - 1 \in AsksOf(ms) /\ (k # n => 2 * k + 1 \in AsksOf(ms))
             /\ ClosesIn(ms, 2 * k - 1) = 2 * k
             /\ CompleteIn(ms, UnitOf(ms, 2 * k - 1))
             /\ k # n => CompactIn(ms, UnitOf(ms, 2 * k - 1)) = old[k]
  <2>1. 2 * k - 1 \in AsksOf(ms) /\ (k # n => 2 * k + 1 \in AsksOf(ms))
    BY <1>5
  <2>a. k = n => ClosesIn(ms, 2 * k - 1) = 2 * k
    <3> HAVE k = n
    <3>1. \A j \in AsksOf(ms) : j <= 2 * k - 1
      BY <1>5
    <3>2. QED
      BY <1>2, <2>1, <3>1, ClosesInRange
  <2>b. k # n => ClosesIn(ms, 2 * k - 1) = 2 * k
    <3> HAVE k # n
    <3>1. ClosesIn(ms, 2 * k - 1) < OpensIn(ms, 2 * k + 1)
      BY <1>2, <2>1, ClosesInRange
    <3>2. ~(\A j \in AsksOf(ms) : j <= 2 * k - 1)
      BY <2>1
    <3>3. PICK j \in AsksOf(ms) : j > 2 * k - 1 /\ ClosesIn(ms, 2 * k - 1) = OpensIn(ms, j) - 1
      BY <1>2, <2>1, <3>2, ClosesInRange
    <3>4. j - 1 < 2 * k + 1 /\ j \in Int /\ j % 2 = 1
      BY <1>5, <2>1, <3>1, <3>3
    <3>5. j = 2 * k + 1
      BY <3>3, <3>4
    <3>6. QED
      BY <1>5, <3>3, <3>5
  <2>2. ClosesIn(ms, 2 * k - 1) = 2 * k
    BY <2>a, <2>b
  <2> DEFINE u == UnitOf(ms, 2 * k - 1)
  <2>3. u.ask = 2 * k - 1 /\ u.from = 2 * k - 1 /\ u.upto = 2 * k
    BY <1>5, <2>1, <2>2 DEF UnitOf
  <2> HIDE DEF u
  <2>4. \A i : i \in (u.ask + 1)..u.upto <=> i = 2 * k
    BY <2>3
  <2>5. ms[2 * k].kind = "text" /\ ms[2 * k].text /\ ms[2 * k].tag = "completed" /\ ms[2 * k].turn = k
    <3>1. ms[2 * k] = Message("text", k, "completed", TRUE)
      BY <1>4
    <3>2. QED
      BY <3>1 DEF Message
  <2>6. TextsOf(ms, u) = {2 * k}
    BY <2>4, <2>5 DEF TextsOf
  <2>7. InOf(ms, u, "call") = {} /\ InOf(ms, u, "result") = {}
    BY <2>4, <2>5 DEF InOf
  <2>8. CompleteIn(ms, u)
    BY <2>6, <2>7 DEF CompleteIn, PairedIn
  <2>9. Max({2 * k}) = 2 * k
    BY DEF Max
  <2>10. {i \in TextsOf(ms, u) : ms[i].tag \in {"error", "interrupted"}} = {}
    BY <2>5, <2>6
  <2>11. ms[2 * k - 1].tag = "follow" /\ {ms[i].tag : i \in InOf(ms, u, "call")} = {}
    BY <1>4, <2>7
  <2>12. CompactIn(ms, u) = [from |-> 2 * k - 1, upto |-> 2 * k, topic |-> "follow", tools |-> {},
                             answer |-> k, outcome |-> "completed"]
    BY <2>3, <2>5, <2>6, <2>9, <2>10, <2>11 DEF CompactIn
  <2>13. QED
    BY <1>a, <2>1, <2>2, <2>8, <2>12 DEF u
<1>8. FrozenTrue(ms, fz)
  <2>1. \A k \in 1..n - 1 : 2 * k + 1 > 2 * k - 1 /\ k \in 1..n /\ k # n
    OBVIOUS
  <2>2. ASSUME NEW k \in 1..n - 1
        PROVE  \E i, j \in AsksOf(ms) :
                   j > i /\ CompleteIn(ms, UnitOf(ms, i)) /\ old[k] = CompactIn(ms, UnitOf(ms, i))
    BY <1>7, <2>1
  <2>3. QED
    BY <1>c, <2>2 DEF FrozenTrue
<1>10. Covered(ms, c, fz)
  <2>1. c \in 0..Len(ms)
    BY <1>2, <1>c
  <2>2. \A k \in 1..n - 1 : 2 * k <= c
    BY <1>c
  <2>3. \A s \in fz : s.upto <= c
    BY <1>b, <1>c, <2>2
  <2>4. ASSUME NEW p \in 1..c PROVE \E s \in fz : p \in s.from..s.upto
    <3>1. n # 0 /\ c = 2 * (n - 1)
      BY <1>c
    <3>2. PICK k \in 1..n - 1 : p = 2 * k - 1 \/ p = 2 * k
      <4>1. (p + 1) \div 2 \in 1..n - 1 /\ (p = 2 * ((p + 1) \div 2) - 1 \/ p = 2 * ((p + 1) \div 2))
        BY <3>1
      <4>2. QED
        BY <4>1
    <3>3. old[k] \in fz /\ old[k].from = 2 * k - 1 /\ old[k].upto = 2 * k
      BY <1>b, <1>c
    <3>4. QED
      BY <3>2, <3>3
  <2>5. c # 0 => n - 1 \in 1..n /\ n - 1 # n /\ c = 2 * (n - 1)
    BY <1>c
  <2>6. c # 0 => \E i, k \in AsksOf(ms) : k > i /\ c = ClosesIn(ms, i)
    <3> HAVE c # 0
    <3>1. 2 * (n - 1) + 1 > 2 * (n - 1) - 1
      OBVIOUS
    <3>2. QED
      BY <1>7, <2>5, <3>1
  <2>7. QED
    BY <2>1, <2>3, <2>4, <2>6 DEF Covered
<1>11. OldestCovered(fz, st)
  <2>2. \A k \in 1..n - 2 : k \in 1..n - 1
    OBVIOUS
  <2>3. covered \subseteq fz
    BY <1>c, <2>2
  <2>4. ASSUME NEW s \in covered, NEW t \in fz, t.from < s.from PROVE t \in covered
    <3>1. PICK k \in 1..n - 2 : s = old[k]
      OBVIOUS
    <3>2. PICK l \in 1..n - 1 : t = old[l]
      BY <1>c
    <3>3. 2 * l - 1 < 2 * k - 1
      BY <1>b, <2>2, <2>4, <3>1, <3>2
    <3>4. l \in 1..n - 2
      BY <3>3
    <3>5. QED
      BY <3>2, <3>4
  <2> HIDE DEF covered
  <2>5. QED
    BY <1>d, <2>3, <2>4 DEF OldestCovered
<1>12. AllDone(ms)
  <2>1. \A i \in AsksOf(ms) : CompleteIn(ms, UnitOf(ms, i))
    <3> TAKE i \in AsksOf(ms)
    <3>1. (i + 1) \div 2 \in 1..n /\ i = 2 * ((i + 1) \div 2) - 1
      BY <1>5
    <3>2. QED
      BY <1>7, <3>1
  <2>2. ~Pending(ms)
    <3>1. ms # <<>> => Len(ms) \in 1..2 * n
      BY <1>2
    <3>2. QED
      BY <1>4, <3>1 DEF Pending
  <2>3. QED
    BY <2>1, <2>2 DEF AllDone, DoneBut, IsLast
<1>13. QED
  BY <1>2, <1>6, <1>8, <1>10, <1>11, <1>12 DEF ContextInv, ms, c, fz, st

\* A question, perhaps behind a hint, ends the last unit and opens one of its own.
LEMMA QuestionOpens ==
    ASSUME NEW ms \in Seq(Messages), NEW q \in Messages, q.kind = "buyer",
           NEW hint \in Seq(Messages), Len(hint) \in {0, 1}, Len(hint) = 1 => hint[1].kind = "hint",
           BeginsWithQuestion(ms)
    PROVE  LET ns == ms \o hint \o <<q>> IN
           /\ ns \in Seq(Messages) /\ Extends(ns, ms) /\ ns # <<>> /\ BeginsWithQuestion(ns)
           /\ AllDone(ms) => DoneBut(ns) /\ LastPaired(ns)
<1> DEFINE ns == ms \o hint \o <<q>>
           n  == Len(ms)
           N  == Len(ns)
<1>1. /\ ns \in Seq(Messages) /\ n \in Nat /\ N \in Nat /\ N = n + Len(hint) + 1 /\ ns # <<>>
      /\ ns[N] = q /\ (\A i \in 1..n : ns[i] = ms[i]) /\ (Len(hint) = 1 => ns[n + 1] = hint[1])
      /\ DOMAIN ms = 1..n /\ DOMAIN ns = 1..N
  OBVIOUS
<1> HIDE DEF ns, n, N
<1>2. Extends(ns, ms)
  BY <1>1 DEF Extends, n, N
<1>3. AsksOf(ms) \subseteq 1..n /\ AsksOf(ns) = AsksOf(ms) \cup {N}
  <2>1. AsksOf(ms) \subseteq 1..n /\ AsksOf(ns) \subseteq 1..N /\ N \in AsksOf(ns)
    BY <1>1 DEF AsksOf
  <2>2. \A i \in 1..n : i \in AsksOf(ns) <=> i \in AsksOf(ms)
    BY <1>1, <1>2, AsksStay DEF n
  <2>3. \A i \in 1..N : i \in 1..n \/ i = N \/ (i = n + 1 /\ Len(hint) = 1)
    <3>1. N = n + 1 \/ (N = n + 2 /\ Len(hint) = 1)
      <4>1. Len(hint) = 0 \/ Len(hint) = 1
        OBVIOUS
      <4>2. N = n + Len(hint) + 1 /\ n \in Nat
        BY <1>1
      <4>3. CASE Len(hint) = 0
        BY <4>2, <4>3
      <4>4. CASE Len(hint) = 1
        BY <4>2, <4>4
      <4>5. QED
        BY <4>1, <4>3, <4>4
    <3>2. QED
      BY <1>1, <3>1
  <2>4. Len(hint) = 1 => n + 1 \notin AsksOf(ns)
    BY <1>1 DEF AsksOf
  <2>5. QED
    BY <2>1, <2>2, <2>3, <2>4
<1>4. OpensIn(ns, N) = n + 1
  <2>1. CASE Len(hint) = 1
    BY <1>1, <2>1 DEF OpensIn
  <2>2. CASE Len(hint) = 0
    <3>1. N = n + 1
      BY <1>1, <2>2
    <3>2. N > 1 => n \in 1..n /\ ms # <<>>
      BY <1>1, <3>1 DEF n
    <3>3. N > 1 => ns[n].kind # "hint"
      BY <1>1, <3>2 DEF BeginsWithQuestion, n
    <3>4. N - 1 = n
      BY <1>1, <3>1
    <3>5. QED
      BY <3>1, <3>3, <3>4 DEF OpensIn
  <2>3. QED
    BY <2>1, <2>2
<1>5. BeginsWithQuestion(ns)
  <2>1. ns[N].kind # "hint"
    BY <1>1
  <2>2. CASE ms = <<>>
    <3>1. N \in AsksOf(ns) /\ OpensIn(ns, N) = 1
      BY <1>1, <1>3, <1>4, <2>2 DEF n
    <3>2. QED
      BY <2>1, <3>1 DEF BeginsWithQuestion, N
  <2>3. CASE ms # <<>>
    <3>1. PICK i \in AsksOf(ms) : OpensIn(ms, i) = 1
      BY <2>3 DEF BeginsWithQuestion
    <3>2. i \in AsksOf(ns) /\ OpensIn(ns, i) = 1
      BY <1>1, <1>2, <1>3, <3>1, AsksStay DEF n
    <3>3. QED
      BY <2>1, <3>2 DEF BeginsWithQuestion, N
  <2>4. QED
    BY <2>2, <2>3
<1>6. ASSUME AllDone(ms), NEW i \in AsksOf(ms) PROVE CompleteIn(ns, UnitOf(ns, i))
  <2>1. UnitOf(ns, i) = UnitOf(ms, i)
    <3>1. CASE \E k \in AsksOf(ms) : k > i
      BY <1>1, <1>2, <3>1, UnitStays
    <3>2. CASE ~ \E k \in AsksOf(ms) : k > i
      <4>1. \A k \in AsksOf(ms) : k <= i
        BY <1>1, <1>3, <3>2
      <4>2. ClosesIn(ms, i) = n
        BY <4>1, ClosesInRange DEF n
      <4>3. i \in AsksOf(ns) /\ N \in AsksOf(ns) /\ N > i
        BY <1>1, <1>3
      <4>4. ~(\A k \in AsksOf(ns) : k <= i)
        BY <1>1, <1>3, <4>3
      <4>5. PICK j \in AsksOf(ns) : j > i /\ ClosesIn(ns, i) = OpensIn(ns, j) - 1
        BY <1>1, <4>3, <4>4, ClosesInRange
      <4>6. j = N
        BY <1>1, <1>3, <4>1, <4>5
      <4>7. ClosesIn(ns, i) = n
        BY <1>1, <1>4, <4>5, <4>6
      <4>8. OpensIn(ns, i) = OpensIn(ms, i)
        BY <1>1, <1>2, <1>3, AsksStay DEF n
      <4>9. QED
        BY <4>2, <4>7, <4>8 DEF UnitOf
    <3>3. QED
      BY <3>1, <3>2
  <2> DEFINE u == UnitOf(ms, i)
  <2>2. CompleteIn(ms, u)
    <3>1. IsLast(ms, i) \/ \E k \in AsksOf(ms) : k > i
      BY <1>1, <1>3 DEF IsLast
    <3>2. QED
      BY <1>6, <3>1 DEF AllDone, DoneBut
  <2>3. u.ask \in 1..Len(ms) /\ u.upto \in 0..Len(ms)
    BY <1>1, <1>3, ClosesInRange DEF UnitOf, n
  <2> HIDE DEF u
  <2>4. CompleteIn(ns, u)
    BY <1>1, <1>2, <2>2, <2>3, ContentStays
  <2>5. QED
    BY <2>1, <2>4 DEF u
<1>7. AllDone(ms) => DoneBut(ns)
  <2> HAVE AllDone(ms)
  <2>1. \A i, k \in AsksOf(ns) : k > i => i \in AsksOf(ms)
    BY <1>1, <1>3
  <2>2. QED
    BY <1>6, <2>1 DEF DoneBut
<1>8. LastPaired(ns)
  <2>1. ASSUME NEW i, IsLast(ns, i) PROVE PairedIn(ns, UnitOf(ns, i))
    <3>1. i = N /\ N \in AsksOf(ns)
      BY <1>1, <1>3, <2>1 DEF IsLast
    <3>2. ClosesIn(ns, N) = N
      BY <1>1, <2>1, <3>1, ClosesInRange DEF IsLast, N
    <3> DEFINE u == UnitOf(ns, i)
    <3>3. u.ask = N /\ u.upto = N
      BY <3>1, <3>2 DEF UnitOf
    <3> HIDE DEF u
    <3>4. \A j : j \notin (u.ask + 1)..u.upto
      BY <1>1, <3>3
    <3>5. QED
      BY <3>4 DEF PairedIn, InOf, u
  <2>2. ~Pending(ns)
    BY <1>1 DEF Pending, N
  <2>3. QED
    BY <2>1, <2>2 DEF LastPaired
<1>9. QED
  BY <1>1, <1>2, <1>5, <1>7, <1>8 DEF ns

\* When all units but the last are complete, freezing leaves the hot window.
LEMMA FreezeUnblocks ==
    ASSUME ContextInv(messages, cursor, frozen, stage), DoneBut(messages), ~Pending(messages),
           Freeze, messages' = messages
    PROVE  Cardinality({i \in Asks : i > cursor'}) <= HotTurns
<1> DEFINE ms == messages
           A  == After(cursor')
           m  == Min(A)
<1>1. ms \in Seq(Messages) /\ cursor \in Nat /\ cursor' \in Nat /\ cursor' >= cursor
      /\ \A u \in Settled : u.upto <= cursor'
  BY FreezeKeepsCovered DEF ContextInv, Covered
<1>2. A = {i \in Asks : i > cursor'} /\ Asks = AsksOf(ms) /\ AsksOf(ms) \subseteq 1..Len(ms) /\ A \subseteq Nat
      /\ Len(ms) \in Nat
  BY <1>1, SameDefinitions DEF After, AsksOf
<1>3. IsFiniteSet(A) /\ Cardinality(A) \in Nat
  BY <1>1, AfterFinite
<1>4. CASE A = {}
  <2>1. Cardinality({i \in Asks : i > cursor'}) = 0
    BY <1>2, <1>4, FS_EmptySet
  <2>2. HotTurns \in Nat
    BY FreezeAssumption
  <2>3. QED
    BY <2>1, <2>2
<1>5. CASE A # {}
  <2>1. m \in A /\ \A y \in A : m <= y
    <3> HIDE DEF A
    <3>1. QED
      BY <1>2, <1>5, LeastOf
  <2> HIDE DEF m
  <2>2. m \in AsksOf(ms) /\ m > cursor' /\ m \in Nat
    BY <1>2, <2>1
  <2>3. A = After(m) \cup {m} /\ m \notin After(m) /\ IsFiniteSet(After(m)) /\ Cardinality(After(m)) \in Nat
    <3>1. \A i \in Asks : i > cursor' <=> (i > m \/ i = m)
      BY <1>1, <1>2, <2>1, <2>2
    <3>2. m \in Asks /\ ~(m > m)
      BY <1>2, <2>2
    <3>3. QED
      BY <1>1, <1>2, <2>2, <3>1, <3>2, AfterFinite DEF After
  <2>4. Cardinality(A) = Cardinality(After(m)) + 1
    <3> HIDE DEF A
    <3>1. QED
      BY <2>3, FS_AddElement
  <2>5. UnitOf(ms, m) \notin Cool
    <3> SUFFICES ASSUME UnitOf(ms, m) \in Cool PROVE FALSE
      OBVIOUS
    <3> DEFINE u == UnitOf(ms, m)
               B == {i \in AsksOf(ms) : OpensIn(ms, i) > cursor}
               b == Min(B)
    <3>1. u.ask = m /\ u.from = OpensIn(ms, m) /\ u.upto = ClosesIn(ms, m)
      BY DEF UnitOf
    <3>2. m > cursor
      BY <1>1, <2>2
    <3>3. OpensIn(ms, m) > cursor /\ OpensIn(ms, m) \in 1..m
      <4>1. CASE cursor = 0
        BY <1>1, <2>2, <4>1, OpensInRange
      <4>2. ASSUME NEW i \in AsksOf(ms), cursor = ClosesIn(ms, i) PROVE OpensIn(ms, m) > cursor
        <5>1. ClosesIn(ms, i) \in i..Len(ms) /\ (m > i => ClosesIn(ms, i) < OpensIn(ms, m))
          BY <1>1, <2>2, ClosesInRange
        <5>2. i \in Nat
          BY <1>2
        <5>3. QED
          BY <1>1, <2>2, <3>2, <4>2, <5>1, <5>2, OpensInRange
      <4>3. cursor = 0 \/ \E i \in AsksOf(ms) : cursor = ClosesIn(ms, i)
        BY DEF ContextInv, Covered
      <4>4. QED
        BY <1>1, <2>2, <4>1, <4>2, <4>3, OpensInRange
    <3>4. \E i \in AsksOf(ms) : i <= m /\ OpensIn(ms, i) = cursor + 1
      <4>1. CASE cursor = 0
        <5>1. ms # <<>>
          BY <1>2, <2>2
        <5>2. PICK i \in AsksOf(ms) : OpensIn(ms, i) = 1
          BY <5>1 DEF ContextInv, BeginsWithQuestion
        <5>3. ~(m < i)
          <6>1. m < i => m < OpensIn(ms, i)
            BY <1>1, <2>2, OpensInRange
          <6>2. QED
            BY <1>1, <2>2, <4>1, <5>2, <6>1
        <5>4. QED
          BY <1>2, <2>2, <4>1, <5>2, <5>3
      <4>2. ASSUME NEW j \in AsksOf(ms), NEW k \in AsksOf(ms), k > j, cursor = ClosesIn(ms, j)
            PROVE  \E i \in AsksOf(ms) : i <= m /\ OpensIn(ms, i) = cursor + 1
        <5>1. ~(\A i \in AsksOf(ms) : i <= j)
          BY <1>2, <4>2
        <5>2. PICK i \in AsksOf(ms) : i > j /\ ClosesIn(ms, j) = OpensIn(ms, i) - 1
          BY <1>1, <5>1, ClosesInRange
        <5>3. OpensIn(ms, i) \in Int
          BY <1>1, OpensInRange
        <5>4. ~(m < i)
          <6>1. m < i => m < OpensIn(ms, i)
            BY <1>1, <2>2, OpensInRange
          <6>2. QED
            BY <1>1, <2>2, <3>2, <4>2, <5>2, <5>3, <6>1
        <5>5. QED
          BY <1>2, <2>2, <4>2, <5>2, <5>3, <5>4
      <4>3. cursor = 0 \/ \E j, k \in AsksOf(ms) : k > j /\ cursor = ClosesIn(ms, j)
        BY DEF ContextInv, Covered
      <4>4. QED
        BY <4>1, <4>2, <4>3
    <3>5. PICK i \in AsksOf(ms) : i <= m /\ OpensIn(ms, i) = cursor + 1
      BY <3>4
    <3>6. UnitOf(ms, i) \in Cool /\ UnitOf(ms, i).from = cursor + 1
      BY <1>1, <3>1, <3>5, CoolUnits DEF UnitOf
    <3>7. \A v \in Cool : Complete(v)
      <4> TAKE v \in Cool
      <4>1. v.ask \in AsksOf(ms) /\ v = UnitOf(ms, v.ask) /\ \E k \in AsksOf(ms) : k > v.ask
        BY <1>1, CoolUnits
      <4>2. CompleteIn(ms, UnitOf(ms, v.ask))
        BY <4>1 DEF DoneBut
      <4>3. QED
        BY <4>1, <4>2, SameDefinitions
    <3>8. ~Unfinished
      BY <1>1 DEF Unfinished, Pending, Last
    <3>9. u \in Settled
      BY <3>1, <3>3, <3>6, <3>7, <3>8 DEF Settled
    <3>10. u.upto <= cursor' /\ ClosesIn(ms, m) \in m..Len(ms)
      BY <1>1, <2>2, <3>9, ClosesInRange
    <3>11. QED
      BY <1>1, <2>2, <3>1, <3>10
  <2>6. ~(Cardinality(After(m)) >= HotTurns)
    <3>1. UnitOf(ms, m) \in Units /\ UnitOf(ms, m).ask = m
      BY <2>2, SameDefinitions DEF UnitOf
    <3>2. QED
      BY <2>5, <3>1 DEF Cool, After
  <2>7. QED
    BY <1>2, <1>3, <2>3, <2>4, <2>6, FreezeAssumption
<1>6. QED
  BY <1>4, <1>5

\* Nothing is frozen while a call is open.
LEMMA OpenCallHolds ==
    ASSUME ContextInv(messages, cursor, frozen, stage), Pending(messages), Freeze
    PROVE  cursor' = cursor
<1>1. Unfinished
  BY DEF Unfinished, Pending, Last
<1>2. {u.upto : u \in Settled} \cup {cursor} = {cursor}
  BY <1>1 DEF Settled
<1>3. cursor' = Max({cursor})
  BY <1>2 DEF Freeze
<1>4. cursor \in Nat
  BY DEF ContextInv, Covered
<1>5. {cursor} \in SUBSET (0..cursor)
  BY <1>4
<1>6. QED
  BY <1>3, <1>4, <1>5, GreatestOf

----------------------------------------------------------------------------
(* The session. *)

\* The raw part holds no more than the hot window.
RawIsHot == Cardinality({i \in Asks : i > cursor}) <= HotTurns

\* A running turn and its unit.
TurnInv(t) ==
    /\ at[t] \in {"asked", "thinking"} => LastPaired(messages) \/ CallOpen(messages, t)
    /\ at[t] = "acting" => CallOpen(messages, t)
    /\ at[t] = "ending" => AllDone(messages)
    /\ at[t] = "thinking" => RawIsHot

\* As long as no two turns have run at once and no call was left without its
\* result, a turn has left every unit complete before the next one begins; then
\* the freezing before a model call leaves the hot window, and a call that is
\* still open does not outgrow it.
CalmInv ==
    ~overlapped =>
        /\ ~AbandonedIn(snapshot.messages) => AllDone(snapshot.messages)
        /\ \A t, u \in Live : t = u
        /\ ~AbandonedIn(messages) =>
              /\ DoneBut(messages)
              /\ Live = {} => AllDone(messages)
              /\ Pending(messages) => RawIsHot
              /\ \A t \in Turns : TurnInv(t)

FreezeInv ==
    /\ ContextInv(messages, cursor, frozen, stage)
    /\ ContextInv(snapshot.messages, snapshot.cursor, snapshot.frozen, snapshot.stage)
    /\ at \in [Turns -> Places]
    /\ Live # {} => messages # <<>>
    /\ overlapped \in BOOLEAN
    /\ CalmInv

\* A session begins empty or with what earlier turns have left.
LEMMA InitHolds == FreezeInit => FreezeInv
<1> SUFFICES ASSUME FreezeInit PROVE FreezeInv
  OBVIOUS
<1>1. PICK n \in Earlier : snapshot = Past(n)
  BY DEF FreezeInit
<1>2. n \in Nat
  BY FreezeAssumption
<1>3. ContextInv(snapshot.messages, snapshot.cursor, snapshot.frozen, snapshot.stage) /\ AllDone(snapshot.messages)
  BY <1>1, <1>2, PastHolds
<1>4. /\ messages = snapshot.messages /\ cursor = snapshot.cursor /\ frozen = snapshot.frozen /\ stage = snapshot.stage
      /\ at = [t \in Turns |-> "idle"] /\ overlapped = FALSE
  BY DEF FreezeInit
<1>5. Live = {} /\ at \in [Turns -> Places] /\ \A t \in Turns : at[t] = "idle"
  BY <1>4 DEF Live, Places
<1>6. CalmInv
  BY <1>3, <1>4, <1>5 DEF CalmInv, TurnInv, AllDone
<1>7. QED
  BY <1>3, <1>4, <1>5, <1>6 DEF FreezeInv

\* What the steps of a running turn t have in common.
LEMMA OneMoves ==
    ASSUME FreezeInv, NEW t \in Turns, NEW from, NEW to \in Places, Move(t, from, to)
    PROVE  /\ at' \in [Turns -> Places] /\ at[t] = from /\ at'[t] = to
           /\ \A u \in Turns : u # t => at'[u] = at[u]
           /\ from \notin {"idle", "over", "lost"} => t \in Live /\ messages # <<>>
           /\ Live' \subseteq Live \cup {t}
           /\ to \in {"idle", "over", "lost"} => Live' = Live \ {t}
           /\ to \notin {"idle", "over", "lost"} => t \in Live' /\ Live' # {}
<1>1. at \in [Turns -> Places] /\ at[t] = from /\ at' = [at EXCEPT ![t] = to]
  BY DEF FreezeInv, Move
<1>2. at' \in [Turns -> Places] /\ at'[t] = to /\ \A u \in Turns : u # t => at'[u] = at[u]
  BY <1>1
<1>3. from \notin {"idle", "over", "lost"} => t \in Live /\ messages # <<>>
  BY <1>1 DEF Live, FreezeInv
<1>4. QED
  BY <1>1, <1>2, <1>3 DEF Live

\* A running turn says something that is no question.
LEMMA SaysKeeps ==
    ASSUME FreezeInv, NEW t \in Turns, NEW from \in Places, NEW to \in Places, Move(t, from, to),
           from \notin {"idle", "over", "lost"}, to \in {"asked", "acting", "ending"},
           NEW m \in Messages, m.kind \notin {"buyer", "hint"}, Says(m), UNCHANGED snapshot,
           UNCHANGED overlapped,
           m.kind = "call" => from = "thinking",
           /\ DoneBut(messages) /\ ~AbandonedIn(messages')
              /\ (from = "thinking" => LastPaired(messages) \/ CallOpen(messages, t))
              /\ (from = "acting" => CallOpen(messages, t)) =>
                 /\ to = "asked" => LastPaired(messages')
                 /\ to = "acting" => CallOpen(messages', t)
                 /\ to = "ending" => AllDone(messages')
    PROVE  FreezeInv'
<1>1. /\ at' \in [Turns -> Places] /\ at[t] = from /\ at'[t] = to
      /\ (\A u \in Turns : u # t => at'[u] = at[u])
      /\ t \in Live /\ messages # <<>> /\ Live' # {} /\ Live' \subseteq Live
  BY OneMoves
<1>2. messages \in Seq(Messages) /\ BeginsWithQuestion(messages)
      /\ ContextInv(messages, cursor, frozen, stage) /\ overlapped \in BOOLEAN
  BY DEF FreezeInv, ContextInv
<1>3. /\ messages' = Append(messages, m) /\ messages' \in Seq(Messages) /\ Extends(messages', messages)
      /\ BeginsWithQuestion(messages') /\ (DoneBut(messages) => DoneBut(messages'))
      /\ messages' # <<>> /\ cursor' = cursor /\ frozen' = frozen /\ stage' = stage
      /\ AsksOf(messages') = AsksOf(messages) /\ messages'[Len(messages')] = m
  BY <1>1, <1>2, LastGrows DEF Says
<1>4. ContextInv(messages', cursor', frozen', stage')
  BY <1>2, <1>3, GrowthKeeps
<1>5. CalmInv'
  <2> SUFFICES ASSUME ~overlapped' PROVE CalmInv'
    BY DEF CalmInv
  <2>1. /\ ~AbandonedIn(snapshot.messages) => AllDone(snapshot.messages)
        /\ \A a, b \in Live : a = b
    BY DEF FreezeInv, CalmInv
  <2>2. \A u \in Turns : u # t => at'[u] \in {"idle", "over", "lost"}
    <3> TAKE u \in Turns
    <3> HAVE u # t
    <3>1. u \notin Live
      BY <1>1, <2>1
    <3>2. QED
      BY <1>1, <3>1 DEF Live
  <2>3. /\ ~AbandonedIn(snapshot'.messages) => AllDone(snapshot'.messages)
        /\ \A a, b \in Live' : a = b
    BY <1>1, <2>1
  <2>4. ASSUME ~AbandonedIn(messages')
        PROVE  /\ DoneBut(messages') /\ (Live' = {} => AllDone(messages'))
               /\ (Pending(messages') => RawIsHot') /\ \A u \in Turns : TurnInv(u)'
    <3>1. ~AbandonedIn(messages)
      BY <1>2, <1>3, <2>4, AbandonedStays
    <3>2. /\ DoneBut(messages) /\ (from = "thinking" => RawIsHot)
          /\ (from = "thinking" => LastPaired(messages) \/ CallOpen(messages, t))
          /\ (from = "acting" => CallOpen(messages, t))
      BY <1>1, <3>1 DEF FreezeInv, CalmInv, TurnInv
    <3>3. DoneBut(messages') /\ (to = "asked" => LastPaired(messages'))
          /\ (to = "acting" => CallOpen(messages', t)) /\ (to = "ending" => AllDone(messages'))
      BY <1>3, <2>4, <3>2
    <3>4. RawIsHot' <=> RawIsHot
      <4>1. Asks' = Asks
        BY <1>3 DEF Asks, AsksOf
      <4>2. QED
        BY <1>3, <4>1 DEF RawIsHot
    <3>5. Pending(messages') => RawIsHot'
      BY <1>3, <3>2, <3>4 DEF Pending
    <3>6. \A u \in Turns : TurnInv(u)'
      BY <1>1, <2>2, <3>3 DEF TurnInv
    <3>7. QED
      BY <1>1, <3>3, <3>5, <3>6
  <2>5. QED
    BY <2>3, <2>4 DEF CalmInv
<1>6. QED
  BY <1>1, <1>3, <1>4, <1>5 DEF FreezeInv

\* A question, also one over a running turn, keeps the invariant.
LEMMA AskKeeps ==
    ASSUME FreezeInv, NEW t \in Turns, NEW topic \in Topics, Ask(t, topic)
    PROVE  FreezeInv'
<1> DEFINE hint == IF t \in Hinted THEN <<Message("hint", t, "hint", FALSE)>> ELSE <<>>
           q    == Message("buyer", t, topic, FALSE)
<1>1. /\ q \in Messages /\ q.kind = "buyer" /\ Message("hint", t, "hint", FALSE) \in Messages
      /\ Message("hint", t, "hint", FALSE).kind = "hint"
  BY DEF Message, Messages, Kinds, Tags
<1> HIDE DEF q
<1>2. hint \in Seq(Messages) /\ Len(hint) \in {0, 1} /\ (Len(hint) = 1 => hint[1].kind = "hint")
  <2> DEFINE h == Message("hint", t, "hint", FALSE)
  <2>1. h \in Messages /\ h.kind = "hint"
    BY <1>1
  <2>2. hint = <<h>> \/ hint = <<>>
    OBVIOUS
  <2> HIDE DEF h, hint
  <2>3. <<h>> \in Seq(Messages) /\ Len(<<h>>) = 1 /\ <<h>>[1] = h
    BY <2>1
  <2>4. <<>> \in Seq(Messages) /\ Len(<<>>) = 0
    OBVIOUS
  <2>5. CASE hint = <<h>>
    <3>1. hint \in Seq(Messages) /\ Len(hint) = 1 /\ hint[1] = h
      BY <2>3, <2>5
    <3>2. QED
      BY <2>1, <3>1
  <2>6. CASE hint = <<>>
    <3>1. hint \in Seq(Messages) /\ Len(hint) = 0
      BY <2>4, <2>6
    <3>2. QED
      BY <3>1
  <2>7. QED
    BY <2>2, <2>5, <2>6
<1>3. messages' = messages \o hint \o <<q>> /\ cursor' = cursor /\ frozen' = frozen /\ stage' = stage
      /\ snapshot' = snapshot /\ Move(t, "idle", "asked")
  BY DEF Ask, q
<1> HIDE DEF hint
<1>4. messages \in Seq(Messages) /\ BeginsWithQuestion(messages)
      /\ ContextInv(messages, cursor, frozen, stage) /\ overlapped \in BOOLEAN
  BY DEF FreezeInv, ContextInv
<1>5. /\ messages' \in Seq(Messages) /\ Extends(messages', messages) /\ messages' # <<>>
      /\ BeginsWithQuestion(messages')
      /\ AllDone(messages) => DoneBut(messages') /\ LastPaired(messages')
  BY <1>1, <1>2, <1>3, <1>4, QuestionOpens
<1>6. ContextInv(messages', cursor', frozen', stage')
  BY <1>3, <1>4, <1>5, GrowthKeeps
<1>7. /\ at' \in [Turns -> Places] /\ at[t] = "idle" /\ at'[t] = "asked"
      /\ (\A u \in Turns : u # t => at'[u] = at[u])
      /\ Live' # {} /\ Live' \subseteq Live \cup {t}
  BY <1>3, OneMoves DEF Places
<1>8. overlapped' \in BOOLEAN /\ (~overlapped' => ~overlapped /\ Live = {})
  BY <1>4 DEF Ask
<1>9. CalmInv'
  <2> SUFFICES ASSUME ~overlapped' PROVE CalmInv'
    BY DEF CalmInv
  <2>1. /\ ~AbandonedIn(snapshot.messages) => AllDone(snapshot.messages)
        /\ ~AbandonedIn(messages) => AllDone(messages)
        /\ Live = {}
    BY <1>8 DEF FreezeInv, CalmInv
  <2>2. \A u \in Turns : u # t => at'[u] \in {"idle", "over", "lost"}
    BY <1>7, <2>1 DEF Live
  <2>3. /\ ~AbandonedIn(snapshot'.messages) => AllDone(snapshot'.messages)
        /\ \A a, b \in Live' : a = b
    BY <1>3, <1>7, <2>1
  <2>4. ASSUME ~AbandonedIn(messages')
        PROVE  DoneBut(messages') /\ ~Pending(messages') /\ \A u \in Turns : TurnInv(u)'
    <3>1. AllDone(messages)
      BY <1>4, <1>5, <2>1, <2>4, AbandonedStays
    <3>2. DoneBut(messages') /\ LastPaired(messages')
      BY <1>5, <3>1
    <3>3. QED
      BY <1>7, <2>2, <3>2 DEF TurnInv, LastPaired
  <2>5. QED
    BY <1>7, <2>3, <2>4 DEF CalmInv
<1>10. QED
  BY <1>3, <1>5, <1>6, <1>7, <1>8, <1>9 DEF FreezeInv

\* So does the freezing before a model call,
LEMMA CallModelKeeps ==
    ASSUME FreezeInv, NEW t \in Turns, CallModel(t)
    PROVE  FreezeInv'
<1>1. Move(t, "asked", "thinking") /\ Freeze /\ messages' = messages /\ snapshot' = snapshot
      /\ overlapped' = overlapped
  BY DEF CallModel
<1>2. ContextInv(messages, cursor, frozen, stage)
  BY DEF FreezeInv
<1>3. ContextInv(messages', cursor', frozen', stage')
  BY <1>1, <1>2, FreezeKeeps
<1>4. /\ at' \in [Turns -> Places] /\ at[t] = "asked" /\ at'[t] = "thinking"
      /\ (\A u \in Turns : u # t => at'[u] = at[u])
      /\ t \in Live /\ messages # <<>> /\ Live' # {} /\ Live' \subseteq Live
  BY <1>1, OneMoves DEF Places
<1>5. CalmInv'
  <2> SUFFICES ASSUME ~overlapped' PROVE CalmInv'
    BY DEF CalmInv
  <2>1. /\ ~AbandonedIn(snapshot.messages) => AllDone(snapshot.messages)
        /\ \A a, b \in Live : a = b
    BY <1>1 DEF FreezeInv, CalmInv
  <2>2. \A u \in Turns : u # t => at'[u] \in {"idle", "over", "lost"}
    <3> TAKE u \in Turns
    <3> HAVE u # t
    <3>1. u \notin Live
      BY <1>4, <2>1
    <3>2. QED
      BY <1>4, <3>1 DEF Live
  <2>3. Asks' = Asks
    BY <1>1 DEF Asks
  <2>4. ASSUME ~AbandonedIn(messages)
        PROVE  DoneBut(messages) /\ RawIsHot' /\ (LastPaired(messages) \/ CallOpen(messages, t))
    <3>1. /\ DoneBut(messages) /\ (Pending(messages) => RawIsHot)
          /\ LastPaired(messages) \/ CallOpen(messages, t)
      BY <1>1, <1>4, <2>4 DEF FreezeInv, CalmInv, TurnInv
    <3>2. CASE ~Pending(messages)
      BY <1>1, <1>2, <2>3, <3>1, <3>2, FreezeUnblocks DEF RawIsHot
    <3>3. CASE Pending(messages)
      <4>1. cursor' = cursor
        BY <1>1, <1>2, <3>3, OpenCallHolds
      <4>2. QED
        BY <2>3, <3>1, <3>3, <4>1 DEF RawIsHot
    <3>4. QED
      BY <3>1, <3>2, <3>3
  <2>5. /\ ~AbandonedIn(snapshot'.messages) => AllDone(snapshot'.messages)
        /\ \A a, b \in Live' : a = b
    BY <1>1, <1>4, <2>1
  <2>6. ASSUME ~AbandonedIn(messages')
        PROVE  DoneBut(messages') /\ RawIsHot' /\ \A u \in Turns : TurnInv(u)'
    BY <1>1, <1>4, <2>2, <2>4, <2>6 DEF TurnInv
  <2>7. QED
    BY <1>4, <2>5, <2>6 DEF CalmInv
<1>6. QED
  BY <1>1, <1>3, <1>4, <1>5 DEF FreezeInv

\* a restart, which goes back to the snapshot,
LEMMA RestartKeeps ==
    ASSUME FreezeInv, Restart PROVE FreezeInv'
<1>1. /\ at' = [t \in Turns |-> IF t \in Live THEN "lost" ELSE at[t]]
      /\ messages' = snapshot.messages /\ cursor' = snapshot.cursor
      /\ frozen' = snapshot.frozen /\ stage' = snapshot.stage
      /\ snapshot' = snapshot /\ overlapped' = overlapped
  BY DEF Restart, Load
<1>2. at \in [Turns -> Places]
  BY DEF FreezeInv
<1>3. at' \in [Turns -> Places] /\ \A t \in Turns : at'[t] \in {"idle", "over", "lost"}
  BY <1>1, <1>2 DEF Live, Places
<1>4. Live' = {}
  BY <1>3 DEF Live
<1>5. CalmInv'
  <2>1. ~AbandonedIn(messages') /\ ~overlapped' => AllDone(messages')
    BY <1>1 DEF FreezeInv, CalmInv
  <2>2. QED
    BY <1>1, <1>3, <1>4, <2>1 DEF CalmInv, TurnInv, AllDone
<1>6. QED
  BY <1>1, <1>3, <1>4, <1>5 DEF FreezeInv

\* a reply that is tried again,
LEMMA RetryKeeps ==
    ASSUME FreezeInv, NEW t \in Turns, Retry(t) PROVE FreezeInv'
<1>1. PICK to \in {"asked", "acting"} : Move(t, at[t], to) /\ (to = "acting" => at[t] = "acting")
  BY DEF Retry, Replying, Move
<1>2. at[t] \in {"thinking", "acting"} /\ UNCHANGED <<messages, cursor, frozen, stage, snapshot, overlapped>>
  BY DEF Retry, Replying, context
<1>3. /\ at' \in [Turns -> Places] /\ at'[t] = to
      /\ (\A u \in Turns : u # t => at'[u] = at[u])
      /\ t \in Live /\ messages # <<>> /\ Live' # {} /\ Live' \subseteq Live
  BY <1>1, <1>2, OneMoves DEF Places
<1>4. Asks' = Asks /\ (RawIsHot' <=> RawIsHot)
  BY <1>2 DEF Asks, RawIsHot
<1>5. CalmInv'
  <2> SUFFICES ASSUME ~overlapped' PROVE CalmInv'
    BY DEF CalmInv
  <2>1. /\ ~AbandonedIn(snapshot.messages) => AllDone(snapshot.messages)
        /\ \A a, b \in Live : a = b
    BY <1>2 DEF FreezeInv, CalmInv
  <2>2. ASSUME NEW u \in Turns, u # t PROVE at'[u] \in {"idle", "over", "lost"}
    <3>1. u \notin Live
      BY <1>3, <2>1, <2>2
    <3>2. QED
      BY <1>3, <2>2, <3>1 DEF Live
  <2>3. ASSUME ~AbandonedIn(messages)
        PROVE  /\ DoneBut(messages) /\ (Pending(messages) => RawIsHot)
               /\ LastPaired(messages) \/ CallOpen(messages, t)
               /\ at[t] = "acting" => CallOpen(messages, t)
    BY <1>2, <2>3 DEF FreezeInv, CalmInv, TurnInv
  <2>4. ASSUME ~AbandonedIn(messages') PROVE \A u \in Turns : TurnInv(u)'
    BY <1>1, <1>2, <1>3, <2>2, <2>3, <2>4 DEF TurnInv
  <2>5. QED
    BY <1>2, <1>3, <1>4, <2>1, <2>3, <2>4 DEF CalmInv
<1>6. QED
  BY <1>2, <1>3, <1>5 DEF FreezeInv

\* the snapshot at the end of a turn,
LEMMA PersistKeeps ==
    ASSUME FreezeInv, NEW t \in Turns, Persist(t) PROVE FreezeInv'
<1>1. /\ Move(t, "ending", "over") /\ UNCHANGED <<messages, cursor, frozen, stage, overlapped>>
      /\ \/ snapshot' = snapshot
         \/ /\ snapshot'.messages = messages /\ snapshot'.cursor = cursor
            /\ snapshot'.frozen = frozen /\ snapshot'.stage = stage
  BY DEF Persist, context, Snapshot
<1>2. /\ at' \in [Turns -> Places] /\ at[t] = "ending" /\ at'[t] = "over"
      /\ (\A u \in Turns : u # t => at'[u] = at[u])
      /\ t \in Live /\ messages # <<>> /\ Live' = Live \ {t}
  BY <1>1, OneMoves DEF Places
<1>3. CalmInv'
  <2> SUFFICES ASSUME ~overlapped' PROVE CalmInv'
    BY DEF CalmInv
  <2>1. /\ \A a, b \in Live : a = b
        /\ ~AbandonedIn(snapshot.messages) => AllDone(snapshot.messages)
        /\ ~AbandonedIn(messages) => DoneBut(messages) /\ AllDone(messages)
    BY <1>1, <1>2 DEF FreezeInv, CalmInv, TurnInv
  <2>2. Live' = {}
    BY <1>2, <2>1
  <2>3. \A u \in Turns : at'[u] \in {"idle", "over", "lost"}
    BY <2>2 DEF Live
  <2>4. ~AbandonedIn(snapshot'.messages) => AllDone(snapshot'.messages)
    BY <1>1, <2>1
  <2>5. ~AbandonedIn(messages') => DoneBut(messages') /\ AllDone(messages') /\ ~Pending(messages')
    BY <1>1, <2>1 DEF AllDone
  <2>6. \A u \in Turns : TurnInv(u)'
    BY <2>3 DEF TurnInv
  <2>7. QED
    BY <2>2, <2>4, <2>5, <2>6 DEF CalmInv
<1>4. QED
  BY <1>1, <1>2, <1>3 DEF FreezeInv

\* and whatever a running turn appends.
LEMMA SayingKeeps ==
    ASSUME FreezeInv, NEW t \in Turns
    PROVE  /\ \A tool \in Tools, text \in BOOLEAN : CallTool(t, tool, text) => FreezeInv'
           /\ ToolReturns(t) => FreezeInv'
           /\ Answer(t) => FreezeInv'
           /\ \A outcome \in {"error", "interrupted"} : Fail(t, outcome) => FreezeInv'
<1>0. messages \in Seq(Messages)
  BY DEF FreezeInv, ContextInv
<1>1. ASSUME NEW tool \in Tools, NEW text \in BOOLEAN, CallTool(t, tool, text) PROVE FreezeInv'
  <2> DEFINE m == Message("call", t, tool, text)
  <2>1. m \in Messages /\ m.kind = "call" /\ m.turn = t
    BY DEF Message, Messages, Kinds, Tags
  <2>2. Move(t, "thinking", "acting") /\ Says(m) /\ UNCHANGED snapshot /\ UNCHANGED overlapped
    BY <1>1 DEF CallTool
  <2> HIDE DEF m
  <2>3. LastPaired(messages) => CallOpen(Append(messages, m), t)
    BY <1>0, <2>1, CallOpens
  <2>4. ~CallOpen(messages, t)
    BY <1>0, <1>1 DEF CallTool, CallOpen
  <2>5. QED
    BY <2>1, <2>2, <2>3, <2>4, SaysKeeps DEF Says, Places
<1>2. ASSUME ToolReturns(t) PROVE FreezeInv'
  <2> DEFINE m == Message("result", t, "result", FALSE)
  <2>1. m \in Messages /\ m.kind = "result" /\ m.turn = t
    BY DEF Message, Messages, Kinds, Tags
  <2>2. Move(t, "acting", "asked") /\ Says(m) /\ UNCHANGED snapshot /\ UNCHANGED overlapped
    BY <1>2 DEF ToolReturns
  <2> HIDE DEF m
  <2>3. CallOpen(messages, t) => LastPaired(Append(messages, m))
    BY <1>0, <2>1, ResultCloses
  <2>4. QED
    BY <2>1, <2>2, <2>3, SaysKeeps DEF Says, Places
<1>3. ASSUME NEW outcome \in Outcomes, at[t] \in {"thinking", "acting"},
             Move(t, at[t], "ending") /\ Says(Message("text", t, outcome, TRUE))
             /\ UNCHANGED snapshot /\ UNCHANGED overlapped
      PROVE  FreezeInv'
  <2> DEFINE m == Message("text", t, outcome, TRUE)
  <2>1. m \in Messages /\ m.kind = "text" /\ m.text
    BY DEF Message, Messages, Kinds, Tags
  <2>2. Says(m)
    BY <1>3
  <2> HIDE DEF m
  <2>3. LastPaired(messages) /\ DoneBut(messages) => AllDone(Append(messages, m))
    BY <1>0, <2>1, TextCompletes
  <2>4. CallOpen(messages, t) => AbandonedIn(Append(messages, m))
    BY <1>0, <2>1, CallLeft DEF CallOpen, Pending
  <2>5. /\ DoneBut(messages) /\ ~AbandonedIn(messages')
        /\ (at[t] = "thinking" => LastPaired(messages) \/ CallOpen(messages, t))
        /\ (at[t] = "acting" => CallOpen(messages, t))
        => AllDone(messages')
    BY <1>3, <2>2, <2>3, <2>4 DEF Says
  <2>6. QED
    BY <1>3, <2>1, <2>2, <2>5, SaysKeeps DEF Says, Places
<1>4. Answer(t) => FreezeInv'
  BY <1>3 DEF Answer, Outcomes, Move
<1>5. ASSUME NEW outcome \in {"error", "interrupted"}, Fail(t, outcome) PROVE FreezeInv'
  <2>1. outcome \in Outcomes
    BY DEF Outcomes
  <2>2. Move(t, at[t], "ending") /\ at[t] \in {"thinking", "acting"}
        /\ Says(Message("text", t, outcome, TRUE)) /\ UNCHANGED snapshot /\ UNCHANGED overlapped
    BY <1>5 DEF Fail, Move, Replying
  <2>3. QED
    BY <1>3, <2>1, <2>2
<1>6. QED
  BY <1>1, <1>2, <1>4, <1>5

\* Every step keeps the invariant.
LEMMA StepKeeps == FreezeInv /\ [FreezeNext]_freezeVars => FreezeInv'
<1> SUFFICES ASSUME FreezeInv, [FreezeNext]_freezeVars PROVE FreezeInv'
  OBVIOUS
<1>1. ASSUME NEW t \in Turns, TurnSteps(t) PROVE FreezeInv'
  BY <1>1, AskKeeps, CallModelKeeps, SayingKeeps, RetryKeeps, PersistKeeps DEF TurnSteps
<1>2. CASE Restart
  BY <1>2, RestartKeeps
<1>3. CASE UNCHANGED freezeVars
  <2>1. UNCHANGED <<messages, cursor, frozen, stage, snapshot, at, overlapped, mishaps>>
    BY <1>3 DEF freezeVars
  <2>2. Live' = Live /\ Asks' = Asks
    BY <2>1 DEF Live, Asks
  <2>3. CalmInv'
    BY <2>1, <2>2 DEF CalmInv, TurnInv, RawIsHot, FreezeInv
  <2>4. QED
    BY <2>1, <2>2, <2>3 DEF FreezeInv
<1>4. QED
  BY <1>1, <1>2, <1>3 DEF FreezeNext

\* The session's context and its snapshot both keep the freeze cursor at the end
\* of a unit, segments that are true, and a summary of the oldest of them; and
\* turns in turn leave no unit unfinished (settled_prefix_units(),
\* advance_context_state(), SessionRegistry.persist() and _try_restore()).
THEOREM ContextInvariant == FreezeSpec => []FreezeInv
<1>1. QED
  BY InitHolds, StepKeeps, PTL DEF FreezeSpec

\* The model is shown the whole session once: the segments cover the messages up
\* to the cursor without a gap or an overlap, and the stage summary covers a run
\* of the oldest of them (_candidate_context(), uncovered[:-keep]).
THEOREM FreezingLosesNothing == FreezeSpec => []NothingLost
<1>1. FreezeInv => NothingLost
  <2> SUFFICES ASSUME FreezeInv PROVE NothingLost
    OBVIOUS
  <2>1. /\ messages \in Seq(Messages) /\ FrozenTrue(messages, frozen)
        /\ Covered(messages, cursor, frozen) /\ OldestCovered(frozen, stage)
    BY DEF FreezeInv, ContextInv
  <2>2. ASSUME NEW i \in 1..cursor PROVE Cardinality({s \in frozen : i \in s.from..s.upto}) = 1
    <3>1. PICK s \in frozen : i \in s.from..s.upto
      BY <2>1 DEF Covered
    <3>2. i \in Int
      BY <2>1 DEF Covered
    <3>3. \A t \in frozen : i \in t.from..t.upto => t = s
      BY <2>1, <3>1, <3>2, SegmentsApart
    <3>4. {t \in frozen : i \in t.from..t.upto} = {s}
      BY <3>1, <3>3
    <3>5. QED
      BY <3>4, FS_Singleton
  <2>3. QED
    BY <2>1, <2>2 DEF NothingLost, Covered, OldestCovered
<1>2. QED
  BY <1>1, ContextInvariant, PTL

\* A segment is what its messages would be compacted to today: no message that
\* came later, from a tool or from an overlapping turn, belongs to a frozen unit
\* (compact_interaction(), freeze_settled_units()).
THEOREM SegmentsStayTrue == FreezeSpec => []FrozenStaysTrue
<1>1. FreezeInv => FrozenStaysTrue
  <2> SUFFICES ASSUME FreezeInv, NEW s \in frozen PROVE \E u \in Units : Complete(u) /\ s = Compact(u)
    BY DEF FrozenStaysTrue
  <2>1. PICK i \in AsksOf(messages) :
            CompleteIn(messages, UnitOf(messages, i)) /\ s = CompactIn(messages, UnitOf(messages, i))
    BY DEF FreezeInv, ContextInv, FrozenTrue
  <2>2. QED
    BY <2>1, SameDefinitions
<1>2. QED
  BY <1>1, ContextInvariant, PTL

\* Turns in turn, of which none failed while a tool ran, never leave freezing
\* blocked behind an unfinished unit, after whichever failures and interruptions
\* at the model, retries, failed saves and restarts: at a model call the raw part
\* holds the hot window's turns and no other (settled_prefix_units()).
THEOREM FreezingNeverBlocked == FreezeSpec => []NeverBlocked
<1>1. FreezeInv => NeverBlocked
  BY DEF FreezeInv, CalmInv, TurnInv, RawIsHot, AbandonedIn, Abandoned, NeverBlocked, OnlyHotIsRaw
<1>2. QED
  BY <1>1, ContextInvariant, PTL

----------------------------------------------------------------------------
(* The summary of what is frozen: journeys, turn numbers and facts.         *)

\* The segments of authored questions, and those up to a position.
AuthoredOf(S) == {s \in S : s.topic # "probe"}
Till(S, n)    == {s \in AuthoredOf(S) : s.from <= n}

\* Segments that begin at different positions.
IsRun(S) ==
    /\ IsFiniteSet(S) /\ \A s \in S : s.from \in Nat \ {0}
    /\ \A s, t \in S : s.from = t.from => s = t

ProbeFirst(S) == \E s \in S : s.topic = "probe" /\ \A t \in S : s.from <= t.from

Journeys == [from : Nat, first : Nat, last : Nat]

\* Journeys that number the authored questions of the segments.
Numbered(js, S) ==
    /\ js[1].first = 1
    /\ js[Len(js)].last = Cardinality(AuthoredOf(S))
    /\ \A k \in 1..Len(js) : k < Len(js) => js[k].last = js[k + 1].first - 1
    /\ \A k \in 1..Len(js) : \E s \in AuthoredOf(S) :
          s.from = js[k].from /\ Cardinality(Till(S, s.from)) = js[k].first

\* What is known after the segments S.
MemoryInv(m, S) ==
    /\ DOMAIN m = {"counts", "turn", "facts", "journeys"}
    /\ m.counts \in BOOLEAN /\ m.turn \in Nat /\ m.journeys \in Seq(Journeys)
    /\ m.facts \in [Tools -> Nat]
    /\ \A tool \in Tools : \A s \in S : tool \in s.tools => s.from <= m.facts[tool]
    /\ m.journeys = <<>> <=> AuthoredOf(S) = {}
    /\ m.counts /\ m.journeys = <<>> => m.turn = 0
    /\ m.counts /\ m.journeys # <<>> /\ m.journeys[1].first # 0 =>
          m.turn = Cardinality(AuthoredOf(S))
    /\ m.journeys # <<>> /\ m.journeys[1].first # 0 => Numbered(m.journeys, S)
    /\ m.journeys # <<>> /\ m.journeys[1].first = 0 => ProbeFirst(S)
    /\ ~m.counts => ProbeFirst(S) /\ (m.journeys # <<>> => m.journeys[1].first = 0)

\* A later segment S \cup {s} of a run.
LEMMA RunGrows ==
    ASSUME NEW S, IsRun(S), NEW s, s.from \in Nat \ {0}, \A t \in S : t.from < s.from
    PROVE  /\ IsRun(S \cup {s}) /\ s \notin S
           /\ IsFiniteSet(AuthoredOf(S)) /\ Cardinality(AuthoredOf(S)) \in Nat
           /\ s.topic = "probe" => /\ AuthoredOf(S \cup {s}) = AuthoredOf(S)
                                   /\ \A n : Till(S \cup {s}, n) = Till(S, n)
           /\ s.topic # "probe" =>
                 /\ AuthoredOf(S \cup {s}) = AuthoredOf(S) \cup {s}
                 /\ Cardinality(AuthoredOf(S \cup {s})) = Cardinality(AuthoredOf(S)) + 1
                 /\ Till(S \cup {s}, s.from) = AuthoredOf(S \cup {s})
                 /\ \A t \in S : Till(S \cup {s}, t.from) = Till(S, t.from)
           /\ ProbeFirst(S) => ProbeFirst(S \cup {s})
<1> DEFINE T == S \cup {s}
<1>1. \A t \in S : t.from \in Nat /\ t.from < s.from /\ ~(s.from <= t.from)
  BY DEF IsRun
<1>2. s \notin S
  BY <1>1
<1>3. IsRun(T)
  <2>1. IsFiniteSet(T)
    BY FS_AddElement DEF IsRun
  <2>2. \A a, b \in T : a.from = b.from => a = b
    BY <1>1 DEF IsRun
  <2>3. \A a \in T : a.from \in Nat \ {0}
    BY DEF IsRun
  <2> QED
    BY <2>1, <2>2, <2>3 DEF IsRun
<1>4. IsFiniteSet(AuthoredOf(S)) /\ Cardinality(AuthoredOf(S)) \in Nat
  <2>1. AuthoredOf(S) \in SUBSET S
    BY DEF AuthoredOf
  <2> QED
    BY <2>1, FS_Subset, FS_CardinalityType DEF IsRun
<1>5. s.topic = "probe" => AuthoredOf(T) = AuthoredOf(S) /\ \A n : Till(T, n) = Till(S, n)
  BY DEF AuthoredOf, Till
<1>6. ASSUME s.topic # "probe"
      PROVE  /\ AuthoredOf(T) = AuthoredOf(S) \cup {s}
             /\ Cardinality(AuthoredOf(T)) = Cardinality(AuthoredOf(S)) + 1
             /\ Till(T, s.from) = AuthoredOf(T)
             /\ \A t \in S : Till(T, t.from) = Till(S, t.from)
  <2>1. AuthoredOf(T) = AuthoredOf(S) \cup {s}
    BY <1>6 DEF AuthoredOf
  <2>2. s \notin AuthoredOf(S)
    BY <1>2 DEF AuthoredOf
  <2>3. Cardinality(AuthoredOf(S) \cup {s}) = Cardinality(AuthoredOf(S)) + 1
    BY <1>4, <2>2, FS_AddElement
  <2>4. \A t \in AuthoredOf(T) : t.from <= s.from
    BY <1>1 DEF AuthoredOf
  <2>5. Till(T, s.from) = AuthoredOf(T)
    BY <2>4 DEF Till
  <2>6. ASSUME NEW t \in S PROVE Till(T, t.from) = Till(S, t.from)
    BY <1>1, <2>1 DEF Till
  <2> QED
    BY <2>1, <2>3, <2>5, <2>6
<1>7. ASSUME ProbeFirst(S) PROVE ProbeFirst(T)
  <2>1. PICK p \in S : p.topic = "probe" /\ \A t \in S : p.from <= t.from
    BY <1>7 DEF ProbeFirst
  <2>2. p.from <= s.from
    BY <1>1
  <2> QED
    BY <2>1, <2>2 DEF ProbeFirst
<1> QED
  BY <1>2, <1>3, <1>4, <1>5, <1>6, <1>7

\* The last journey takes in a turn.
LEMMA ContinuedIs ==
    ASSUME NEW js \in Seq(Journeys), js # <<>>, NEW turn \in Nat
    PROVE  LET e == Continued(js, turn) IN
           /\ e \in Seq(Journeys) /\ Len(e) = Len(js) /\ e # <<>> /\ Len(js) \in Nat \ {0}
           /\ \A k \in 1..Len(js) : /\ e[k].from = js[k].from /\ e[k].first = js[k].first
                                    /\ k < Len(js) => e[k].last = js[k].last
           /\ turn # 0 => e[Len(js)].last = turn
           /\ turn = 0 => e = js
<1> DEFINE n == Len(js)
           e == Continued(js, turn)
<1>1. n \in Nat \ {0} /\ n \in 1..n /\ DOMAIN js = 1..n /\ \A k \in 1..n : js[k] \in Journeys
  OBVIOUS
<1>2. CASE turn = 0
  <2>1. e = js
    BY <1>2 DEF Continued
  <2> QED
    BY <1>1, <1>2, <2>1
<1>3. CASE turn # 0
  <2>1. e = [js EXCEPT ![n].last = turn]
    BY <1>3 DEF Continued
  <2>2. DOMAIN e = 1..n /\ (\A k \in 1..n : k # n => e[k] = js[k]) /\ e[n] = [js[n] EXCEPT !.last = turn]
    BY <1>1, <2>1
  <2>3. e[n] \in Journeys /\ e[n].from = js[n].from /\ e[n].first = js[n].first /\ e[n].last = turn
    BY <1>1, <2>2 DEF Journeys
  <2>4. e = [k \in 1..n |-> e[k]]
    BY <1>1, <2>1, <2>2
  <2>5. \A k \in 1..n : e[k] \in Journeys
    BY <1>1, <2>2, <2>3
  <2> HIDE DEF e, n
  <2>6. e \in Seq(Journeys) /\ Len(e) = n
    <3>1. n \in Nat
      BY <1>1
    <3> QED
      BY <2>4, <2>5, <3>1
  <2>7. \A k \in 1..n : /\ e[k].from = js[k].from /\ e[k].first = js[k].first
                        /\ k < n => e[k].last = js[k].last
    <3> TAKE k \in 1..n
    <3>1. CASE k = n
      <4>1. ~(k < n)
        BY <1>1, <3>1
      <4> QED
        BY <2>3, <3>1, <4>1
    <3>2. CASE k # n
      BY <2>2, <3>2
    <3> QED
      BY <3>1, <3>2
  <2>8. e # <<>>
    BY <1>1, <2>6
  <2> QED
    BY <1>1, <1>3, <2>3, <2>6, <2>7, <2>8 DEF e, n
<1> QED
  BY <1>2, <1>3
\* Another journey.
LEMMA AppendIs ==
    ASSUME NEW js \in Seq(Journeys), NEW j \in Journeys
    PROVE  LET ks == Append(js, j) IN
           /\ Len(js) \in Nat /\ ks \in Seq(Journeys) /\ Len(ks) = Len(js) + 1 /\ ks # <<>>
           /\ ks[Len(js) + 1] = j /\ \A k \in 1..Len(js) : ks[k] = js[k]
           /\ (js = <<>> <=> Len(js) = 0)
           /\ js # <<>> => ks[1] = js[1]
           /\ js = <<>> => ks[1] = j
<1>1. Len(js) \in Nat /\ (js = <<>> <=> Len(js) = 0)
  OBVIOUS
<1>2. Append(js, j) \in Seq(Journeys) /\ Len(Append(js, j)) = Len(js) + 1 /\ Append(js, j) # <<>>
  OBVIOUS
<1>3. Append(js, j)[Len(js) + 1] = j /\ \A k \in 1..Len(js) : Append(js, j)[k] = js[k]
  OBVIOUS
<1>4. js # <<>> => 1 \in 1..Len(js)
  BY <1>1
<1> QED
  BY <1>1, <1>2, <1>3, <1>4

\* A later segment is absorbed.
LEMMA AbsorbKeeps ==
    ASSUME NEW S, IsRun(S), NEW m, MemoryInv(m, S),
           NEW s, s.from \in Nat \ {0}, \A t \in S : t.from < s.from
    PROVE  MemoryInv(Absorb(m, s), S \cup {s})
<1> DEFINE T == S \cup {s}
           a == Absorb(m, s)
           js == m.journeys
           turn == IF m.counts THEN m.turn + 1 ELSE 0
           fs == Newer(m.facts, s)
<1>1. /\ IsRun(T) /\ s \notin S
      /\ IsFiniteSet(AuthoredOf(S)) /\ Cardinality(AuthoredOf(S)) \in Nat
      /\ s.topic = "probe" => /\ AuthoredOf(T) = AuthoredOf(S)
                              /\ \A n : Till(T, n) = Till(S, n)
      /\ s.topic # "probe" =>
            /\ AuthoredOf(T) = AuthoredOf(S) \cup {s}
            /\ Cardinality(AuthoredOf(T)) = Cardinality(AuthoredOf(S)) + 1
            /\ Till(T, s.from) = AuthoredOf(T)
            /\ \A t \in S : Till(T, t.from) = Till(S, t.from)
      /\ ProbeFirst(S) => ProbeFirst(T)
  BY RunGrows
<1>2. /\ DOMAIN m = {"counts", "turn", "facts", "journeys"}
      /\ m.counts \in BOOLEAN /\ m.turn \in Nat /\ js \in Seq(Journeys)
      /\ m.facts \in [Tools -> Nat]
      /\ \A tool \in Tools : \A t \in S : tool \in t.tools => t.from <= m.facts[tool]
      /\ js = <<>> <=> AuthoredOf(S) = {}
      /\ m.counts /\ js = <<>> => m.turn = 0
      /\ m.counts /\ js # <<>> /\ js[1].first # 0 => m.turn = Cardinality(AuthoredOf(S))
      /\ js # <<>> /\ js[1].first # 0 => Numbered(js, S)
      /\ js # <<>> /\ js[1].first = 0 => ProbeFirst(S)
      /\ ~m.counts => ProbeFirst(S) /\ (js # <<>> => js[1].first = 0)
  BY DEF MemoryInv
<1>3. fs \in [Tools -> Nat] /\ \A tool \in Tools : \A t \in T : tool \in t.tools => t.from <= fs[tool]
  <2>1. fs = [tool \in Tools |-> IF tool \in s.tools THEN s.from ELSE m.facts[tool]]
    BY DEF Newer
  <2>2. s.from \in Nat /\ \A t \in S : t.from \in Nat /\ t.from <= s.from
    BY DEF IsRun
  <2>3. fs \in [Tools -> Nat]
    BY <1>2, <2>1, <2>2
  <2>4. ASSUME NEW tool \in Tools, NEW t \in T, tool \in t.tools PROVE t.from <= fs[tool]
    BY <1>2, <2>1, <2>2, <2>4
  <2> QED
    BY <2>3, <2>4
<1>4. turn \in Nat /\ (turn = 0 <=> ~m.counts) /\ (m.counts => turn = m.turn + 1)
  BY <1>2
<1>5. CASE s.topic = "probe"
  <2>1. a = [m EXCEPT !.facts = fs]
    BY <1>5 DEF Absorb
  <2>2. a.counts = m.counts /\ a.turn = m.turn /\ a.journeys = js /\ a.facts = fs
        /\ DOMAIN a = {"counts", "turn", "facts", "journeys"}
    BY <1>2, <2>1
  <2>3. Numbered(js, S) => Numbered(js, T)
    BY <1>1, <1>5 DEF Numbered
  <2> HIDE DEF a, js, T, fs, turn
  <2>4. MemoryInv(a, T)
    BY ONLY <1>1, <1>2, <1>3, <1>5, <2>2, <2>3 DEF MemoryInv
  <2> QED
    BY <2>4 DEF a, T
<1>6. CASE s.topic # "probe"
  <2> DEFINE opens == "search" \in s.tools \/ s.topic = "start" \/ js = <<>>
             ks == IF opens THEN Append(js, Journey(s, turn)) ELSE Continued(js, turn)
  <2>1. a = [counts |-> m.counts, turn |-> turn, facts |-> fs, journeys |-> ks]
    BY <1>6 DEF Absorb
  <2>2. a.counts = m.counts /\ a.turn = turn /\ a.journeys = ks /\ a.facts = fs
        /\ DOMAIN a = {"counts", "turn", "facts", "journeys"}
    BY <2>1
  <2>3. s \in AuthoredOf(T) /\ AuthoredOf(T) # {} /\ AuthoredOf(S) \subseteq AuthoredOf(T)
        /\ Cardinality(AuthoredOf(T)) = Cardinality(AuthoredOf(S)) + 1
        /\ Till(T, s.from) = AuthoredOf(T) /\ \A t \in AuthoredOf(S) : Till(T, t.from) = Till(S, t.from)
    BY <1>1, <1>6 DEF AuthoredOf
  <2>4. Cardinality(AuthoredOf(S)) \in Nat /\ (js = <<>> => Cardinality(AuthoredOf(S)) = 0)
    BY <1>1, <1>2, FS_EmptySet
  <2>5. ASSUME js # <<>>, js[1].first # 0 PROVE m.counts /\ turn = Cardinality(AuthoredOf(T)) /\ Numbered(js, S)
    BY <1>2, <1>4, <2>3, <2>5
  <2>6. CASE opens
    <3> DEFINE j == Journey(s, turn)
               n == Len(js)
    <3>1. j \in Journeys /\ j.from = s.from /\ j.first = turn /\ j.last = turn
      BY <1>4 DEF Journey, Journeys
    <3>2. ks = Append(js, j)
      BY <2>6
    <3> HIDE DEF j, js, turn, ks, opens
    <3>3. /\ n \in Nat /\ ks \in Seq(Journeys) /\ Len(ks) = n + 1 /\ ks # <<>>
          /\ ks[n + 1] = j /\ (\A k \in 1..n : ks[k] = js[k]) /\ (js = <<>> <=> n = 0)
          /\ js # <<>> => ks[1] = js[1]
          /\ js = <<>> => ks[1] = j
      BY ONLY <1>2, <3>1, <3>2, AppendIs DEF n
    <3> HIDE DEF n
    <3>6. ASSUME ks[1].first # 0 PROVE Numbered(ks, T) /\ m.counts /\ turn = Cardinality(AuthoredOf(T))
      <4>1. CASE js = <<>>
        <5>a. n = 0 /\ turn # 0
          BY ONLY <3>1, <3>3, <3>6, <4>1
        <5>b. m.counts /\ turn = 1
          BY ONLY <1>2, <1>4, <4>1, <5>a
        <5>1. n = 0 /\ m.counts /\ turn = 1 /\ Cardinality(AuthoredOf(T)) = 1
          BY ONLY <2>3, <2>4, <4>1, <5>a, <5>b
        <5>2. Len(ks) = 1 /\ ks[1] = j
          BY <3>3, <4>1, <5>1
        <5>3. \A k \in 1..Len(ks) : k = 1
          BY <5>2
        <5>4. s.from = j.from /\ Cardinality(Till(T, s.from)) = 1
          BY <2>3, <3>1, <5>1
        <5>5. \A k \in 1..Len(ks) : ~(k < Len(ks)) /\ ks[k] = j
          BY <5>2
        <5>6. j.first = 1 /\ j.last = Cardinality(AuthoredOf(T))
          BY <3>1, <5>1
        <5>7. Numbered(ks, T)
          BY ONLY <2>3, <5>2, <5>4, <5>5, <5>6 DEF Numbered
        <5> QED
          BY <5>1, <5>7
      <4>2. CASE js # <<>>
        <5>1. m.counts /\ turn = Cardinality(AuthoredOf(T)) /\ Numbered(js, S)
          BY <2>5, <3>3, <3>6, <4>2
        <5>2. n \in Nat \ {0}
          BY <3>3, <4>2
        <5>3. /\ js[1].first = 1 /\ js[n].last = Cardinality(AuthoredOf(S))
              /\ \A k \in 1..n : k < n => js[k].last = js[k + 1].first - 1
              /\ \A k \in 1..n : \E t \in AuthoredOf(S) :
                    t.from = js[k].from /\ Cardinality(Till(S, t.from)) = js[k].first
          BY <5>1 DEF Numbered, n
        <5>4. ks[1].first = 1 /\ ks[Len(ks)].last = Cardinality(AuthoredOf(T))
          BY <2>4, <3>1, <3>3, <4>2, <5>1, <5>3
        <5>5. ASSUME NEW k \in 1..Len(ks), k < Len(ks) PROVE ks[k].last = ks[k + 1].first - 1
          <6>1. k \in 1..n /\ ks[k] = js[k]
            BY <3>3, <5>5
          <6>2. CASE k = n
            <7>1. ks[k + 1] = j /\ js[k].last = Cardinality(AuthoredOf(S))
              BY <3>3, <5>3, <6>2
            <7> QED
              BY <2>3, <2>4, <3>1, <5>1, <6>1, <7>1
          <6>3. CASE k # n
            <7>1. k + 1 \in 1..n /\ k < n
              BY <5>2, <6>1, <6>3
            <7>2. ks[k + 1] = js[k + 1]
              BY <3>3, <7>1
            <7> QED
              BY <5>3, <6>1, <7>1, <7>2
          <6> QED
            BY <6>2, <6>3
        <5>6. ASSUME NEW k \in 1..Len(ks)
              PROVE  \E t \in AuthoredOf(T) : t.from = ks[k].from /\ Cardinality(Till(T, t.from)) = ks[k].first
          <6>1. CASE k = n + 1
            BY <2>3, <3>1, <3>3, <5>1, <6>1
          <6>2. CASE k # n + 1
            <7>1. k \in 1..n /\ ks[k] = js[k]
              BY <3>3, <6>2
            <7>2. PICK t \in AuthoredOf(S) : t.from = js[k].from /\ Cardinality(Till(S, t.from)) = js[k].first
              BY <5>3, <7>1
            <7> QED
              BY <2>3, <7>1, <7>2
          <6> QED
            BY <6>1, <6>2
        <5> QED
          BY <5>1, <5>4, <5>5, <5>6 DEF Numbered
      <4> QED
        BY <4>1, <4>2
    <3>7. ASSUME ks[1].first = 0 PROVE ProbeFirst(T)
      <4>1. CASE js = <<>>
        BY <1>1, <1>2, <1>4, <3>1, <3>3, <3>7, <4>1
      <4>2. CASE js # <<>>
        BY <1>1, <1>2, <3>3, <3>7, <4>2
      <4> QED
        BY <4>1, <4>2
    <3>8. ~m.counts => ProbeFirst(T) /\ ks[1].first = 0
      BY <1>1, <1>2, <3>6
    <3> HIDE DEF a, T, fs
    <3>9. MemoryInv(a, T)
      BY ONLY <1>2, <1>3, <1>4, <2>2, <2>3, <3>3, <3>6, <3>7, <3>8 DEF MemoryInv
    <3> QED
      BY <3>9 DEF a, T
  <2>7. CASE ~opens
    <3> DEFINE n == Len(js)
    <3>1. js # <<>> /\ ks = Continued(js, turn)
      BY <2>7
    <3> HIDE DEF js, turn, ks, opens
    <3>2. /\ ks \in Seq(Journeys) /\ Len(ks) = n /\ ks # <<>> /\ n \in Nat \ {0}
          /\ \A k \in 1..n : /\ ks[k].from = js[k].from /\ ks[k].first = js[k].first
                             /\ k < n => ks[k].last = js[k].last
          /\ turn # 0 => ks[n].last = turn
          /\ turn = 0 => ks = js
      BY ONLY <1>2, <1>4, <3>1, ContinuedIs DEF n
    <3>3. ks[1].first = js[1].first
      BY <3>2
    <3>4. ASSUME ks[1].first # 0 PROVE Numbered(ks, T) /\ m.counts /\ turn = Cardinality(AuthoredOf(T))
      <4>1. m.counts /\ turn = Cardinality(AuthoredOf(T)) /\ Numbered(js, S)
        BY <2>5, <3>1, <3>3, <3>4
      <4>2. /\ js[1].first = 1
            /\ \A k \in 1..n : k < n => js[k].last = js[k + 1].first - 1
            /\ \A k \in 1..n : \E t \in AuthoredOf(S) :
                  t.from = js[k].from /\ Cardinality(Till(S, t.from)) = js[k].first
        BY <4>1 DEF Numbered
      <4>3. ks[n].last = Cardinality(AuthoredOf(T))
        BY <1>4, <3>2, <4>1
      <4> HIDE DEF n
      <4>4. ASSUME NEW k \in 1..n, k < n PROVE ks[k].last = ks[k + 1].first - 1
        <5>1. k + 1 \in 1..n
          BY <3>2, <4>4
        <5> QED
          BY <3>2, <4>2, <4>4, <5>1
      <4>5. ASSUME NEW k \in 1..n
            PROVE  \E t \in AuthoredOf(T) : t.from = ks[k].from /\ Cardinality(Till(T, t.from)) = ks[k].first
        <5>1. PICK t \in AuthoredOf(S) : t.from = js[k].from /\ Cardinality(Till(S, t.from)) = js[k].first
          BY <4>2
        <5> QED
          BY <2>3, <3>2, <5>1
      <4> QED
        BY <3>2, <3>3, <4>1, <4>2, <4>3, <4>4, <4>5 DEF Numbered
    <3>5. ks[1].first = 0 => ProbeFirst(T)
      BY <1>1, <1>2, <3>1, <3>3
    <3>6. ~m.counts => ProbeFirst(T) /\ ks[1].first = 0
      BY <1>1, <1>2, <3>1, <3>3
    <3> HIDE DEF a, T, fs
    <3>7. MemoryInv(a, T)
      BY ONLY <1>2, <1>3, <1>4, <2>2, <2>3, <3>1, <3>2, <3>4, <3>5, <3>6 DEF MemoryInv
    <3> QED
      BY <3>7 DEF a, T
  <2> QED
    BY <2>6, <2>7
<1> QED
  BY <1>5, <1>6


\* One position of the walk through the segments.
AbsorbStep(m, segments, i) ==
    LET here == {s \in segments : s.from = i}
    IN  IF here = {} THEN m ELSE Absorb(m, CHOOSE s \in here : TRUE)

AbsorbUpto(f, n, m, segments) ==
    f = [i \in 0..n |-> IF i = 0 THEN m ELSE AbsorbStep(f[i - 1], segments, i)]

\* There is such a walk: one for a first n that had none would come of the one
\* for n - 1.
LEMMA AbsorbExists ==
    ASSUME NEW memory, NEW segments, NEW n \in Nat
    PROVE  \E f : AbsorbUpto(f, n, memory, segments)
<1> DEFINE Bad == {m \in Nat : ~\E f : AbsorbUpto(f, m, memory, segments)}
<1>1. SUFFICES ASSUME Bad # {} PROVE FALSE
  OBVIOUS
<1>2. PICK m \in Bad : \A k \in Bad : m <= k
  <2> HIDE DEF Bad
  <2>1. Bad \in SUBSET Nat
    BY DEF Bad
  <2> QED
    BY <1>1, <2>1, LeastOf
<1>3. m \in Nat /\ ~\E f : AbsorbUpto(f, m, memory, segments)
  OBVIOUS
<1>4. m # 0
  <2> DEFINE f == [i \in 0..0 |-> memory]
  <2>1. AbsorbUpto(f, 0, memory, segments)
    <3>1. \A i \in 0..0 : i = 0
      OBVIOUS
    <3> QED
      BY <3>1 DEF AbsorbUpto
  <2> QED
    BY <1>3, <2>1
<1>5. m - 1 \in Nat /\ ~(m <= m - 1)
  BY <1>3, <1>4
<1>6. PICK g : AbsorbUpto(g, m - 1, memory, segments)
  BY <1>2, <1>5
<1> DEFINE f == [i \in 0..m |-> IF i = m THEN AbsorbStep(g[m - 1], segments, m) ELSE g[i]]
<1>7. f = [i \in 0..m |-> IF i = 0 THEN memory ELSE AbsorbStep(f[i - 1], segments, i)]
  <2>1. ASSUME NEW i \in 0..m
        PROVE  f[i] = IF i = 0 THEN memory ELSE AbsorbStep(f[i - 1], segments, i)
    <3>1. CASE i = m
      <4>1. f[i - 1] = g[m - 1] /\ i # 0
        BY <1>3, <1>4, <1>5, <3>1
      <4>2. f[i] = AbsorbStep(g[m - 1], segments, m)
        BY <3>1
      <4> QED
        BY <3>1, <4>1, <4>2
    <3>2. CASE i # m
      <4>1. i \in 0..(m - 1)
        BY <1>3, <3>2
      <4>2. g[i] = IF i = 0 THEN memory ELSE AbsorbStep(g[i - 1], segments, i)
        BY <1>6, <4>1 DEF AbsorbUpto
      <4>3. i # 0 => i - 1 \in 0..m /\ i - 1 # m
        BY <1>3, <4>1
      <4>4. f[i] = g[i] /\ (i # 0 => f[i - 1] = g[i - 1])
        BY <3>2, <4>3
      <4> QED
        BY <4>2, <4>4
    <3> QED
      BY <3>1, <3>2
  <2> HIDE DEF f
  <2>3. f = [i \in 0..m |-> f[i]]
    <3>1. f = [i \in 0..m |-> IF i = m THEN AbsorbStep(g[m - 1], segments, m) ELSE g[i]]
      BY DEF f
    <3> QED
      BY <3>1
  <2> QED
    BY <2>1, <2>3
<1>8. QED
  BY <1>3, <1>7 DEF AbsorbUpto

\* Absorbed() is its end.
LEMMA AbsorbedIs ==
    ASSUME NEW memory, NEW segments, Len(messages) \in Nat
    PROVE  \E f : /\ f[0] = memory
                  /\ \A i \in 1..Len(messages) : f[i] = AbsorbStep(f[i - 1], segments, i)
                  /\ Absorbed(memory, segments) = f[Len(messages)]
<1> DEFINE n == Len(messages)
           g == CHOOSE f : f = [i \in 0..n |->
                     IF i = 0 THEN memory
                     ELSE LET here == {s \in segments : s.from = i}
                          IN  IF here = {} THEN f[i - 1] ELSE Absorb(f[i - 1], CHOOSE s \in here : TRUE)]
<1>1. \E f : f = [i \in 0..n |->
                     IF i = 0 THEN memory
                     ELSE LET here == {s \in segments : s.from = i}
                          IN  IF here = {} THEN f[i - 1] ELSE Absorb(f[i - 1], CHOOSE s \in here : TRUE)]
  <2>1. PICK h : AbsorbUpto(h, n, memory, segments)
    BY AbsorbExists
  <2>2. h = [i \in 0..n |->
                     IF i = 0 THEN memory
                     ELSE LET here == {s \in segments : s.from = i}
                          IN  IF here = {} THEN h[i - 1] ELSE Absorb(h[i - 1], CHOOSE s \in here : TRUE)]
    BY ONLY <2>1 DEF AbsorbUpto, AbsorbStep
  <2> QED
    BY ONLY <2>2
<1>2. AbsorbUpto(g, n, memory, segments)
  BY <1>1 DEF AbsorbUpto, AbsorbStep
<1>3. Absorbed(memory, segments) = g[n]
  BY DEF Absorbed
<1> HIDE DEF g, n
<1>4. n \in Nat
  BY DEF n
<1>5. DOMAIN g = 0..n /\ \A i \in 0..n : g[i] = IF i = 0 THEN memory ELSE AbsorbStep(g[i - 1], segments, i)
  BY <1>2 DEF AbsorbUpto
<1>6. g[0] = memory /\ \A i \in 1..n : g[i] = AbsorbStep(g[i - 1], segments, i)
  BY <1>4, <1>5
<1> QED
  BY <1>3, <1>6 DEF n

\* Segments that are later than those of a memory are absorbed.
LEMMA AbsorbedKeeps ==
    ASSUME NEW S, NEW memory, MemoryInv(memory, S), NEW segments, IsRun(S \cup segments),
           Len(messages) \in Nat,
           \A s \in segments : s.from \in 1..Len(messages) /\ \A t \in S : t.from < s.from
    PROVE  MemoryInv(Absorbed(memory, segments), S \cup segments)
<1>a. \E f : /\ f[0] = memory
             /\ \A i \in 1..Len(messages) : f[i] = AbsorbStep(f[i - 1], segments, i)
             /\ Absorbed(memory, segments) = f[Len(messages)]
  BY ONLY Len(messages) \in Nat, AbsorbedIs
<1> DEFINE n == Len(messages)
           Fore(i) == S \cup {s \in segments : s.from <= i}
<1>1. PICK f : /\ f[0] = memory /\ \A i \in 1..n : f[i] = AbsorbStep(f[i - 1], segments, i)
               /\ Absorbed(memory, segments) = f[n]
  BY ONLY <1>a DEF n
<1>2. Fore(0) = S /\ Fore(n) = S \cup segments
  OBVIOUS
<1> HIDE DEF n
<1>n. n \in Nat /\ n = Len(messages)
  BY DEF n
<1> DEFINE Bad == {i \in Nat : i <= n /\ ~MemoryInv(f[i], Fore(i))}
<1>3. SUFFICES ASSUME Bad # {} PROVE FALSE
  <2>1. n \notin Bad => MemoryInv(f[n], Fore(n))
    BY <1>n
  <2> QED
    BY <1>1, <1>2, <1>n, <2>1
<1>4. PICK m \in Bad : \A k \in Bad : m <= k
  <2> HIDE DEF Bad
  <2>1. Bad \in SUBSET Nat
    BY DEF Bad
  <2> QED
    BY <1>3, <2>1, LeastOf
<1>5. m \in Nat /\ m <= n /\ ~MemoryInv(f[m], Fore(m))
  OBVIOUS
<1>6. m # 0
  BY <1>1, <1>2, <1>5
<1>7. m - 1 \in Nat /\ m - 1 <= n /\ ~(m <= m - 1) /\ m \in 1..n
  BY <1>5, <1>6, <1>n
<1>8. MemoryInv(f[m - 1], Fore(m - 1))
  BY <1>4, <1>7
<1>9. MemoryInv(f[m], Fore(m))
  <2> DEFINE here == {s \in segments : s.from = m}
             s0 == CHOOSE s \in here : TRUE
  <2>1. f[m] = AbsorbStep(f[m - 1], segments, m)
    BY <1>1, <1>7
  <2>2. CASE here = {}
    <3>1. f[m] = f[m - 1]
      BY <2>1, <2>2 DEF AbsorbStep
    <3>2. \A s \in segments : s.from <= m <=> s.from <= m - 1
      BY <1>7, <1>n, <2>2
    <3>3. Fore(m) = Fore(m - 1)
      BY <3>2
    <3> QED
      BY <1>8, <3>1, <3>3
  <2>3. CASE here # {}
    <3>1. s0 \in here
      BY <2>3
    <3>2. f[m] = Absorb(f[m - 1], s0)
      BY <2>1, <2>3 DEF AbsorbStep
    <3> HIDE DEF s0
    <3>3. s0 \in segments /\ s0.from = m
      BY <3>1
    <3>4. \A s \in segments : s.from = m => s = s0
      BY <3>3 DEF IsRun
    <3>5. \A s \in segments : s.from <= m <=> (s.from <= m - 1 \/ s = s0)
      BY <1>7, <1>n, <3>3, <3>4
    <3>6. Fore(m) = Fore(m - 1) \cup {s0}
      BY <3>3, <3>5
    <3>7. \A t \in Fore(m - 1) : t.from < s0.from
      BY <1>7, <1>n, <3>3
    <3>8. Fore(m - 1) \in SUBSET (S \cup segments)
      OBVIOUS
    <3> HIDE DEF Fore
    <3>9. IsRun(Fore(m - 1))
      BY <3>8, FS_Subset DEF IsRun
    <3>10. s0.from \in Nat \ {0}
      BY <1>7, <3>3
    <3>11. MemoryInv(Absorb(f[m - 1], s0), Fore(m - 1) \cup {s0})
      BY <1>8, <3>7, <3>9, <3>10, AbsorbKeeps
    <3> QED
      BY <3>2, <3>6, <3>11
  <2> QED
    BY <2>2, <2>3
<1> QED
  BY <1>5, <1>9

\* Nothing is known before the first segment.
LEMMA NothingRecalled == MemoryInv(Recalled(NoStage), {})
<1> DEFINE m == Recalled(NoStage)
<1>1. m = [counts |-> TRUE, turn |-> 0, facts |-> NoFacts, journeys |-> <<>>]
  BY DEF Recalled
<1>2. m.counts = TRUE /\ m.turn = 0 /\ m.facts = NoFacts /\ m.journeys = <<>>
      /\ DOMAIN m = {"counts", "turn", "facts", "journeys"}
  BY <1>1
<1>3. NoFacts \in [Tools -> Nat]
  BY DEF NoFacts
<1>4. AuthoredOf({}) = {}
  BY DEF AuthoredOf
<1>5. <<>> \in Seq(Journeys)
  OBVIOUS
<1> HIDE DEF m
<1>a. m.counts \in BOOLEAN /\ m.counts
  BY <1>2
<1>6. MemoryInv(m, {})
  <2>1. /\ m.turn \in Nat /\ m.journeys \in Seq(Journeys) /\ m.facts \in [Tools -> Nat]
    BY ONLY <1>2, <1>3, <1>5
  <2>2. \A tool \in Tools : \A s \in {} : tool \in s.tools => s.from <= m.facts[tool]
    OBVIOUS
  <2> QED
    BY ONLY <1>2, <1>4, <1>a, <2>1, <2>2 DEF MemoryInv
<1> QED
  BY <1>6 DEF m

\* The oldest segment of a run.
LEMMA OldestOf ==
    ASSUME NEW S, IsRun(S), S # {}
    PROVE  \E s \in S : \A t \in S : s.from <= t.from
<1> DEFINE F == {s.from : s \in S}
<1>1. F \in SUBSET Nat /\ F # {}
  BY DEF IsRun
<1>2. \A t \in S : t.from \in F
  OBVIOUS
<1>3. \A x \in F : \E s \in S : x = s.from
  OBVIOUS
<1> HIDE DEF F
<1>4. Min(F) \in F /\ \A x \in F : Min(F) <= x
  BY <1>1, LeastOf
<1> QED
  BY <1>2, <1>3, <1>4

\* A summary hands on what it knew: of its turns only the last number, and no
\* number if it has no journey, all of its questions being probes.
LEMMA RecalledKeeps ==
    ASSUME NEW S, S # {}, IsRun(S), NEW m, MemoryInv(m, S),
           NEW st, st # NoStage, st.journeys = m.journeys, st.facts = m.facts
    PROVE  MemoryInv(Recalled(st), S)
<1> DEFINE r == Recalled(st)
           js == m.journeys
           turn == IF js = <<>> THEN 0 ELSE Last(js).last
<1>1. r = [counts |-> js # <<>>, turn |-> turn, facts |-> m.facts, journeys |-> js]
  BY DEF Recalled
<1>2. r.counts = (js # <<>>) /\ r.turn = turn /\ r.facts = m.facts /\ r.journeys = js
      /\ DOMAIN r = {"counts", "turn", "facts", "journeys"}
  BY <1>1
<1>3. /\ js \in Seq(Journeys)
      /\ m.facts \in [Tools -> Nat]
      /\ \A tool \in Tools : \A s \in S : tool \in s.tools => s.from <= m.facts[tool]
      /\ js = <<>> <=> AuthoredOf(S) = {}
      /\ js # <<>> /\ js[1].first # 0 => Numbered(js, S)
      /\ js # <<>> /\ js[1].first = 0 => ProbeFirst(S)
  BY DEF MemoryInv
<1>4. js # <<>> => Len(js) \in 1..Len(js) /\ js[Len(js)] \in Journeys /\ turn = js[Len(js)].last
  BY <1>3 DEF Last
<1>5. turn \in Nat
  BY <1>4 DEF Journeys
<1>6. js # <<>> /\ js[1].first # 0 => turn = Cardinality(AuthoredOf(S))
  BY <1>3, <1>4 DEF Numbered
<1>7. js = <<>> => ProbeFirst(S)
  <2> SUFFICES ASSUME js = <<>> PROVE ProbeFirst(S)
    OBVIOUS
  <2>1. \A s \in S : s.topic = "probe"
    BY <1>3 DEF AuthoredOf
  <2>2. PICK s \in S : \A t \in S : s.from <= t.from
    BY OldestOf
  <2> QED
    BY <2>1, <2>2 DEF ProbeFirst
<1>8. js = <<>> => turn = 0
  OBVIOUS
<1> HIDE DEF r, js, turn
<1>9. MemoryInv(r, S)
  BY ONLY <1>2, <1>3, <1>5, <1>6, <1>7, <1>8 DEF MemoryInv
<1> QED
  BY <1>9 DEF r

----------------------------------------------------------------------------
(* Summaries. *)

\* A summary is of segments, and what it hands on is true of them.  One of an
\* older schema hands on its segments alone.
StageInv(st) ==
    st # NoStage =>
        /\ st.sources # {}
        /\ ~st.legacy => MemoryInv(Recalled(st), st.sources)

\* A summary and the newer segments that are folded into it.
LEMMA SummariseKeeps ==
    ASSUME NEW segments, IsRun(segments), Len(messages) \in Nat,
           \A s \in segments : s.from \in 1..Len(messages),
           NEW st, OldestCovered(segments, st), StageInv(st),
           NEW F, F # {}, F \subseteq segments \ Sources(st)
    PROVE  StageInv(Summarise(F, st))
<1> DEFINE legacy == st # NoStage /\ st.legacy
           fresh  == IF legacy THEN F \cup st.sources ELSE F
           base   == IF legacy THEN NoStage ELSE st
           memory == Absorbed(Recalled(base), fresh)
           S      == Sources(base)
           w      == Summarise(F, st)
<1>1. w = [sources    |-> S \cup fresh,
           journeys   |-> memory.journeys,
           facts      |-> memory.facts,
           generation |-> IF base = NoStage THEN 1 ELSE base.generation + 1,
           legacy     |-> FALSE]
  BY DEF Summarise
<1>2. w.sources = S \cup fresh /\ w.journeys = memory.journeys /\ w.facts = memory.facts
  BY <1>1
<1>3. Sources(st) \subseteq segments
      /\ \A s \in Sources(st) : \A t \in segments : t.from < s.from => t \in Sources(st)
  BY DEF OldestCovered
<1>4. MemoryInv(Recalled(base), S) /\ fresh # {} /\ fresh \subseteq segments /\ S \subseteq segments
      /\ \A s \in fresh : \A t \in S : t.from < s.from
  <2>1. CASE legacy
    <3>1. base = NoStage /\ S = {} /\ fresh = F \cup st.sources /\ Sources(st) = st.sources
      BY <2>1 DEF Sources
    <3> HIDE DEF legacy, base, fresh, S, memory, w
    <3> QED
      BY <1>3, <3>1, NothingRecalled
  <2>2. CASE ~legacy
    <3>1. base = st /\ S = Sources(st) /\ fresh = F
      BY <2>2
    <3>2. MemoryInv(Recalled(st), Sources(st))
      BY <2>2, NothingRecalled DEF StageInv, Sources
    <3>3. ASSUME NEW s \in F, NEW t \in Sources(st) PROVE t.from < s.from
      <4>1. s \in segments /\ t \in segments /\ s \notin Sources(st) /\ s.from \in Nat /\ t.from \in Nat
        BY <1>3 DEF IsRun
      <4>2. ~(s.from < t.from)
        BY <1>3, <4>1
      <4>3. s.from # t.from
        BY <4>1 DEF IsRun
      <4> QED
        BY <4>1, <4>2, <4>3
    <3> HIDE DEF legacy, base, fresh, S, memory, w
    <3> QED
      BY <1>3, <3>1, <3>2, <3>3
  <2> QED
    BY <2>1, <2>2
<1> HIDE DEF legacy, base, fresh, S, w
<1>5. IsRun(S \cup fresh)
  <2>1. S \cup fresh \in SUBSET segments
    BY <1>4
  <2> QED
    BY <2>1, FS_Subset DEF IsRun
<1>6. MemoryInv(memory, S \cup fresh)
  BY <1>4, <1>5, AbsorbedKeeps
<1> HIDE DEF memory
<1>7. w # NoStage => MemoryInv(Recalled(w), S \cup fresh)
  BY <1>2, <1>4, <1>5, <1>6, RecalledKeeps
<1>8. StageInv(w)
  BY <1>2, <1>4, <1>7 DEF StageInv
<1> QED
  BY <1>8 DEF w

\* So does what stands after a model call, with or without a new summary.
LEMMA FoldedKeeps ==
    ASSUME NEW segments, IsRun(segments), Len(messages) \in Nat,
           \A s \in segments : s.from \in 1..Len(messages), NEW from,
           NEW st, OldestCovered(segments, st), StageInv(st)
    PROVE  StageInv(Folded(segments, from, st))
<1> DEFINE uncovered == segments \ Sources(st)
           most      == Kept(uncovered)
           least     == Min({MinRecent, most})
           summary(n) == Summarise(AllBut(n, uncovered), st)
           size(n)    == InputSize(segments, from, summary(n))
           C         == {n \in least..most : size(n) <= MaxAfter} \cup {least}
           kept      == Max(C)
<1>1. Folded(segments, from, st) = st
      \/ (Folded(segments, from, st) = summary(kept) /\ AllBut(most, uncovered) # {})
  BY DEF Folded
<1>2. IsFiniteSet(uncovered) /\ Cardinality(uncovered) \in Nat
  BY FS_Subset, FS_CardinalityType DEF IsRun
<1>3. most \in Nat
  <2> HIDE DEF uncovered
  <2>1. QED
    BY <1>2, KeptIsNat
<1>4. least \in Nat /\ least <= most
  <2> HIDE DEF most
  <2>1. {MinRecent, most} \subseteq Nat
    BY <1>3, FreezeAssumption
  <2>2. QED
    BY <2>1, LeastOf
<1>5. kept \in Nat /\ kept <= most
  <2> HIDE DEF least, most, size
  <2>1. C \subseteq 0..most /\ C # {}
    BY <1>3, <1>4
  <2> HIDE DEF C
  <2>2. kept \in C
    BY <1>3, <2>1, GreatestOf
  <2> HIDE DEF kept
  <2>3. kept \in 0..most
    BY <2>1, <2>2
  <2>4. QED
    BY <1>3, <2>3
<1> HIDE DEF kept, size, most
<1>6. AllBut(most, uncovered) \subseteq AllBut(kept, uncovered)
  <2> HIDE DEF uncovered
  <2> DEFINE newer(x) == {t \in uncovered : t.from > x.from}
  <2>1. \A x : Cardinality(newer(x)) \in Nat
    <3> TAKE x
    <3>1. newer(x) \in SUBSET uncovered
      OBVIOUS
    <3> QED
      BY <1>2, <3>1, FS_Subset, FS_CardinalityType
  <2>2. \A n : AllBut(n, uncovered) = {s \in uncovered : Cardinality(newer(s)) >= n}
    BY DEF AllBut
  <2> HIDE DEF newer
  <2> QED
    BY <1>3, <1>5, <2>1, <2>2
<1>7. AllBut(kept, uncovered) \subseteq segments \ Sources(st)
  BY DEF AllBut
<1> HIDE DEF uncovered
<1>8. AllBut(most, uncovered) # {} => StageInv(summary(kept))
  BY <1>6, <1>7, SummariseKeeps
<1> QED
  BY <1>1, <1>8

\* The segments of a session are a run; each begins where its question opens.
LEMMA FrozenIsRun ==
    ASSUME NEW ms \in Seq(Messages), NEW fz, FrozenTrue(ms, fz)
    PROVE  IsRun(fz) /\ \A s \in fz : s.from \in 1..Len(ms)
<1>1. IsFiniteSet(fz)
  BY SegmentsFinite
<1>2. ASSUME NEW s \in fz PROVE s.from \in 1..Len(ms) /\ s.from \in s.from..s.upto /\ s.from \in Int
  <2>1. PICK i \in AsksOf(ms) : s.from \in 1..i /\ s.upto \in i..Len(ms)
    BY SegmentOf
  <2>2. i \in 1..Len(ms) /\ Len(ms) \in Nat
    BY OpensInRange
  <2> QED
    BY <2>1, <2>2
<1>3. ASSUME NEW s \in fz, NEW t \in fz, s.from = t.from PROVE s = t
  BY <1>2, <1>3, SegmentsApart
<1> QED
  BY <1>1, <1>2, <1>3 DEF IsRun

\* A question is frozen in one segment only.
LEMMA SegmentAsks ==
    ASSUME NEW ms \in Seq(Messages), NEW i \in AsksOf(ms), NEW j \in AsksOf(ms),
           OpensIn(ms, i) = OpensIn(ms, j)
    PROVE  i = j
<1>1. \A k \in AsksOf(ms) : OpensIn(ms, k) \in OpensIn(ms, k)..ClosesIn(ms, k) /\ OpensIn(ms, k) \in Int
  <2> TAKE k \in AsksOf(ms)
  <2>1. OpensIn(ms, k) \in 1..k /\ ClosesIn(ms, k) \in k..Len(ms) /\ k \in 1..Len(ms) /\ Len(ms) \in Nat
    BY OpensInRange, ClosesInRange
  <2> QED
    BY <2>1
<1> QED
  BY <1>1, UnitsApart

\* Every question before a segment of the oldest ones has one of them, too.
LEMMA EarlierCovered ==
    ASSUME NEW ms \in Seq(Messages), NEW c, NEW fz, FrozenTrue(ms, fz), Covered(ms, c, fz),
           NEW S, S \subseteq fz, \A s \in S : \A t \in fz : t.from < s.from => t \in S,
           NEW i \in AsksOf(ms), CompactIn(ms, UnitOf(ms, i)) \in S,
           NEW j \in AsksOf(ms), j <= i
    PROVE  CompactIn(ms, UnitOf(ms, j)) \in S
<1> DEFINE s == CompactIn(ms, UnitOf(ms, i))
           t == CompactIn(ms, UnitOf(ms, j))
<1>1. s.from = OpensIn(ms, i) /\ s.upto = ClosesIn(ms, i) /\ t.from = OpensIn(ms, j)
  BY CompactRange
<1>2. i \in 1..Len(ms) /\ j \in 1..Len(ms) /\ Len(ms) \in Nat /\ OpensIn(ms, j) \in 1..j
      /\ OpensIn(ms, i) \in 1..i /\ ClosesIn(ms, i) \in i..Len(ms) /\ ClosesIn(ms, j) \in j..Len(ms)
  BY OpensInRange, ClosesInRange
<1>3. s \in fz
  OBVIOUS
<1>4. c \in Nat /\ s.upto <= c
  BY <1>3 DEF Covered
<1> HIDE DEF s, t
<1>5. j \in 1..c
  BY <1>1, <1>2, <1>4
<1>6. PICK r \in fz : j \in r.from..r.upto
  BY <1>5 DEF Covered
<1>7. PICK k \in AsksOf(ms) : r = CompactIn(ms, UnitOf(ms, k)) /\ r.from = OpensIn(ms, k) /\ r.upto = ClosesIn(ms, k)
  BY SegmentOf
<1>8. j \in OpensIn(ms, j)..ClosesIn(ms, j) /\ j \in Int
  BY <1>2
<1>9. j = k
  BY <1>6, <1>7, <1>8, UnitsApart
<1>10. t \in fz
  BY <1>7, <1>9 DEF t
<1>11. CASE j = i
  BY <1>11 DEF t
<1>12. CASE j # i
  <2>1. j < OpensIn(ms, i)
    BY <1>2, <1>12, OpensInRange
  <2>2. t.from < s.from
    BY <1>1, <1>2, <2>1
  <2>3. s \in S
    BY DEF s
  <2>4. t \in S
    BY <1>10, <2>2, <2>3
  <2> QED
    BY <2>4 DEF t
<1> QED
  BY <1>11, <1>12

\* The number of a covered question is that of the covered questions so far.
LEMMA AuthoredIs ==
    ASSUME messages \in Seq(Messages), FrozenTrue(messages, frozen), Covered(messages, cursor, frozen),
           NEW S, S \subseteq frozen, \A s \in S : \A t \in frozen : t.from < s.from => t \in S,
           NEW i \in AsksOf(messages), CompactIn(messages, UnitOf(messages, i)) \in S
    PROVE  Authored(i) = Cardinality(Till(S, OpensIn(messages, i)))
<1> DEFINE ms == messages
           seg(j) == CompactIn(ms, UnitOf(ms, j))
           D == {j \in AsksOf(ms) : j <= i /\ ms[j].tag # "probe"}
           R == Till(S, OpensIn(ms, i))
           f == [j \in D |-> seg(j)]
<1>1. Authored(i) = Cardinality(D)
  <2>1. {j \in Asks : j <= i /\ messages[j].tag # "probe"} = D
    BY SameDefinitions
  <2> QED
    BY <2>1 DEF Authored
<1>2. \A j \in AsksOf(ms) : seg(j).from = OpensIn(ms, j) /\ seg(j).topic = ms[j].tag
  BY DEF CompactIn, UnitOf
<1>3. \A j \in AsksOf(ms) : j \in 1..Len(ms) /\ OpensIn(ms, j) \in 1..j
                            /\ \A k \in AsksOf(ms) : k < j => k < OpensIn(ms, j)
  BY OpensInRange
<1>4. Len(ms) \in Nat
  OBVIOUS
<1>5. ASSUME NEW j \in D PROVE seg(j) \in R
  <2>1. seg(j) \in S
    BY EarlierCovered
  <2>2. OpensIn(ms, j) <= OpensIn(ms, i)
    <3>1. j = i \/ j < i
      BY <1>3, <1>4
    <3>2. j < i => j < OpensIn(ms, i)
      BY <1>3
    <3> QED
      BY <1>3, <1>4, <3>1, <3>2
  <2>3. seg(j).from <= OpensIn(ms, i) /\ seg(j).topic # "probe"
    BY <1>2, <2>2
  <2> HIDE DEF seg
  <2> QED
    BY <2>1, <2>3 DEF Till, AuthoredOf
<1>6. ASSUME NEW j \in D, NEW k \in D, seg(j) = seg(k) PROVE j = k
  <2>1. OpensIn(ms, j) = OpensIn(ms, k)
    BY <1>2, <1>6
  <2> QED
    BY <2>1, SegmentAsks
<1>7. ASSUME NEW r \in R PROVE \E j \in D : seg(j) = r
  <2>1. r \in frozen /\ r.topic # "probe" /\ r.from <= OpensIn(ms, i)
    BY DEF Till, AuthoredOf
  <2>2. PICK j \in AsksOf(ms) : r = seg(j)
    BY <2>1, SegmentOf
  <2>3. OpensIn(ms, j) <= OpensIn(ms, i) /\ ms[j].tag # "probe"
    BY <1>2, <2>1, <2>2
  <2>4. ~(i < j)
    <3> SUFFICES ASSUME i < j PROVE FALSE
      OBVIOUS
    <3>1. i < OpensIn(ms, j)
      BY <1>3
    <3> QED
      BY <1>3, <1>4, <2>3, <3>1
  <2>5. j \in D
    BY <1>3, <1>4, <2>3, <2>4
  <2> QED
    BY <2>2, <2>5
<1>8. IsFiniteSet(D)
  <2>1. D \in SUBSET (1..Len(ms))
    BY <1>3
  <2>2. IsFiniteSet(1..Len(ms))
    BY <1>4, FS_Interval
  <2> HIDE DEF D
  <2> QED
    BY <2>1, <2>2, FS_Subset
<1> HIDE DEF D, R, seg
<1>9. f \in [D -> R] /\ \A j \in D : f[j] = seg(j)
  BY <1>5
<1> HIDE DEF f
<1>10. f \in Bijection(D, R)
  BY <1>6, <1>7, <1>9 DEF Bijection, Injection, Surjection, IsInjective
<1>11. Cardinality(R) = Cardinality(D)
  BY <1>8, <1>10, FS_Bijection DEF ExistsBijection
<1> QED
  BY <1>1, <1>11 DEF R

----------------------------------------------------------------------------
(* The session's summary and that of its snapshot.                          *)

SummaryInv == FreezeInv /\ StageInv(stage) /\ StageInv(snapshot.stage)

\* The summary of an older schema that a session may begin with has segments.
LEMMA PastStage ==
    ASSUME NEW n \in Nat
    PROVE  StageInv(Past(n).stage)
<1> DEFINE st == Past(n).stage
           old == [i \in 1..n - 1 |-> [from |-> 2 * i - 1, upto |-> 2 * i,
                                        topic |-> "follow", tools |-> {}, answer |-> i,
                                        outcome |-> "completed"]]
           covered == {old[i] : i \in 1..n - 2}
<1>1. st = IF covered = {} THEN NoStage
           ELSE [sources |-> covered, journeys |-> <<>>, facts |-> NoFacts,
                 generation |-> 1, legacy |-> TRUE]
  BY DEF Past
<1> HIDE DEF covered
<1>2. st # NoStage => covered # {} /\ st.sources = covered /\ st.legacy = TRUE
  BY <1>1
<1> HIDE DEF st
<1>3. StageInv(st)
  BY <1>2 DEF StageInv
<1> QED
  BY <1>3 DEF st

LEMMA SummaryStarts == FreezeInit => SummaryInv
<1> SUFFICES ASSUME FreezeInit PROVE SummaryInv
  OBVIOUS
<1>1. PICK n \in Earlier : snapshot = Past(n)
  BY DEF FreezeInit
<1>2. n \in Nat
  BY FreezeAssumption
<1>3. stage = snapshot.stage
  BY DEF FreezeInit
<1>4. StageInv(snapshot.stage)
  BY <1>1, <1>2, PastStage
<1> QED
  BY <1>3, <1>4, InitHolds DEF SummaryInv

\* A model call may fold segments into the summary; nothing else touches it.
LEMMA CallModelFolds ==
    ASSUME SummaryInv, NEW t \in Turns, CallModel(t)
    PROVE  StageInv(stage') /\ snapshot' = snapshot
<1>1. Freeze /\ messages' = messages /\ snapshot' = snapshot
  BY DEF CallModel
<1>2. ContextInv(messages, cursor, frozen, stage) /\ StageInv(stage)
  BY DEF SummaryInv, FreezeInv
<1>3. messages \in Seq(Messages) /\ Len(messages) \in Nat
  BY <1>2 DEF ContextInv
<1>4. stage' = Folded(Segmented, cursor', stage)
  BY <1>1 DEF Freeze, Segmented
<1>5. FrozenTrue(messages, Segmented)
  BY <1>2, FreezeKeepsFrozen
<1>6. OldestCovered(Segmented, stage)
  BY <1>2, SegmentedOldest
<1>7. IsRun(Segmented) /\ \A s \in Segmented : s.from \in 1..Len(messages)
  BY <1>3, <1>5, FrozenIsRun
<1>8. StageInv(Folded(Segmented, cursor', stage))
  BY <1>2, <1>3, <1>6, <1>7, FoldedKeeps
<1> QED
  BY <1>1, <1>4, <1>8

LEMMA SummaryStays == SummaryInv /\ [FreezeNext]_freezeVars => SummaryInv'
<1> SUFFICES ASSUME SummaryInv, [FreezeNext]_freezeVars PROVE SummaryInv'
  OBVIOUS
<1>1. FreezeInv'
  BY StepKeeps DEF SummaryInv
<1>2. StageInv(stage) /\ StageInv(snapshot.stage)
  BY DEF SummaryInv
<1>3. ASSUME NEW t \in Turns, TurnSteps(t) PROVE StageInv(stage') /\ StageInv(snapshot'.stage)
  <2>1. CASE CallModel(t)
    BY <1>2, <2>1, CallModelFolds
  <2>2. CASE Persist(t)
    BY <1>2, <2>2 DEF Persist, context, Snapshot
  <2>3. ASSUME ~CallModel(t), ~Persist(t) PROVE stage' = stage /\ snapshot' = snapshot
    BY <1>3, <2>3 DEF TurnSteps, Ask, CallTool, ToolReturns, Answer, Retry, Fail, Says, context
  <2> QED
    BY <1>2, <2>1, <2>2, <2>3
<1>4. ASSUME Restart PROVE StageInv(stage') /\ StageInv(snapshot'.stage)
  BY <1>2, <1>4 DEF Restart, Load
<1>5. ASSUME UNCHANGED freezeVars PROVE StageInv(stage') /\ StageInv(snapshot'.stage)
  BY <1>2, <1>5 DEF freezeVars
<1>6. StageInv(stage') /\ StageInv(snapshot'.stage)
  BY <1>2, <1>3, <1>4, <1>5 DEF FreezeNext
<1> QED
  BY <1>1, <1>6 DEF SummaryInv

\* At every point the segments, the summary and the snapshot's agree: a summary
\* knows of its sources what a fold over them from nothing would know, whichever
\* folds, failed saves and restarts came between (summarize_frozen_segments(),
\* advance_context_state()).
THEOREM SummaryInvariant == FreezeSpec => []SummaryInv
<1>1. QED
  BY SummaryStarts, SummaryStays, PTL DEF FreezeSpec

\* What the summary knows, of the units it covers.
LEMMA SummaryOfUnits ==
    ASSUME SummaryInv, stage # NoStage, ~stage.legacy, stage.journeys # <<>>
    PROVE  JourneysNumberTurns
<1> DEFINE ms == messages
           js == stage.journeys
           S  == stage.sources
           covered == {u \in Units : \E s \in S : s.from = u.from}
           numbers == {Authored(u.ask) : u \in covered}
           total   == Cardinality(AuthoredOf(S))
<1>1. /\ ms \in Seq(Messages) /\ FrozenTrue(ms, frozen) /\ Covered(ms, cursor, frozen)
      /\ S \subseteq frozen /\ \A s \in S : \A t \in frozen : t.from < s.from => t \in S
      /\ Len(ms) \in Nat /\ cursor \in Nat
  BY DEF SummaryInv, FreezeInv, ContextInv, Covered, OldestCovered, Sources
<1>2. S # {} /\ MemoryInv(Recalled(stage), S)
  BY DEF SummaryInv, StageInv
<1>3. Recalled(stage).journeys = js
  BY DEF Recalled
<1>4. /\ js \in Seq(Journeys) /\ AuthoredOf(S) # {}
      /\ js[1].first # 0 => Numbered(js, S)
      /\ js[1].first = 0 => ProbeFirst(S)
  BY <1>2, <1>3 DEF MemoryInv
<1>5. IsRun(S)
  <2>1. IsRun(frozen)
    BY <1>1, FrozenIsRun
  <2>2. S \in SUBSET frozen
    BY <1>1
  <2> QED
    BY <2>1, <2>2, FS_Subset DEF IsRun
<1>6. ASSUME NEW s \in S
      PROVE  \E i \in AsksOf(ms) : /\ s = CompactIn(ms, UnitOf(ms, i)) /\ s.from = OpensIn(ms, i)
                                   /\ UnitOf(ms, i) \in covered /\ UnitOf(ms, i).ask = i
                                   /\ UnitOf(ms, i).from = s.from
                                   /\ Authored(i) = Cardinality(Till(S, s.from))
  <2>1. PICK i \in AsksOf(ms) : s = CompactIn(ms, UnitOf(ms, i)) /\ s.from = OpensIn(ms, i)
    BY <1>1, SegmentOf
  <2>2. UnitOf(ms, i).ask = i /\ UnitOf(ms, i).from = s.from
    BY <2>1 DEF UnitOf
  <2>3. UnitOf(ms, i) \in Units
    BY SameDefinitions
  <2>4. Authored(i) = Cardinality(Till(S, OpensIn(ms, i)))
    BY <1>1, <2>1, AuthoredIs
  <2> QED
    BY <2>1, <2>2, <2>3, <2>4
<1>7. ASSUME NEW u \in covered
      PROVE  \E s \in S : Authored(u.ask) = Cardinality(Till(S, s.from))
  <2>1. PICK i \in AsksOf(ms) : u = UnitOf(ms, i)
    BY SameDefinitions
  <2>2. u.ask = i /\ u.from = OpensIn(ms, i)
    BY <2>1 DEF UnitOf
  <2>3. PICK s \in S : s.from = u.from
    OBVIOUS
  <2>4. PICK j \in AsksOf(ms) : s.from = OpensIn(ms, j) /\ Authored(j) = Cardinality(Till(S, s.from))
    BY <1>6
  <2>5. i = j
    BY <1>1, <2>2, <2>3, <2>4, SegmentAsks
  <2> QED
    BY <2>2, <2>4, <2>5
<1>8. IsFiniteSet(AuthoredOf(S)) /\ total \in Nat
  <2>1. AuthoredOf(S) \in SUBSET S
    BY DEF AuthoredOf
  <2> QED
    BY <1>5, <2>1, FS_Subset, FS_CardinalityType DEF IsRun
<1>9. \A n : Cardinality(Till(S, n)) \in 0..total
  <2> TAKE n
  <2>1. Till(S, n) \in SUBSET AuthoredOf(S)
    BY DEF Till
  <2>2. IsFiniteSet(Till(S, n)) /\ Cardinality(Till(S, n)) <= Cardinality(AuthoredOf(S))
    BY <1>8, <2>1, FS_Subset
  <2>3. Cardinality(Till(S, n)) \in Nat
    BY <2>2, FS_CardinalityType
  <2> QED
    BY <1>8, <2>2, <2>3
<1>10. \E s \in S : \A t \in S : t.from <= s.from
  <2> DEFINE F == {s.from : s \in S}
  <2>1. F \in SUBSET (0..Len(ms)) /\ F # {}
    <3>1. \A s \in S : s.from \in 1..Len(ms)
      BY <1>1, FrozenIsRun
    <3> QED
      BY <1>1, <1>2, <3>1
  <2>2. \A t \in S : t.from \in F
    OBVIOUS
  <2>3. \A x \in F : \E s \in S : x = s.from
    OBVIOUS
  <2> HIDE DEF F
  <2>4. Max(F) \in F /\ \A x \in F : x <= Max(F)
    BY <1>1, <2>1, GreatestOf
  <2> QED
    BY <2>2, <2>3, <2>4
<1>11. Max(numbers) = total
  <2>1. PICK s \in S : \A t \in S : t.from <= s.from
    BY <1>10
  <2>2. Till(S, s.from) = AuthoredOf(S)
    BY <2>1 DEF Till, AuthoredOf
  <2>3. \E u \in covered : Authored(u.ask) = total
    BY <1>6, <2>2
  <2>4. total \in numbers
    BY <2>3
  <2>5. numbers \in SUBSET (0..total)
    BY <1>7, <1>9
  <2> HIDE DEF numbers, total
  <2>6. Max(numbers) \in numbers /\ total <= Max(numbers)
    BY <1>8, <2>4, <2>5, GreatestOf
  <2>7. Max(numbers) \in 0..total
    BY <2>5, <2>6
  <2>8. Max(numbers) \in Nat /\ Max(numbers) <= total
    BY <1>8, <2>7
  <2>9. total \in Nat
    BY <1>8
  <2> QED
    BY ONLY <2>6, <2>8, <2>9
<1>12. ASSUME js[1].first = 0
       PROVE  \E u \in covered : u.from = 1 /\ messages[u.ask].tag = "probe"
  <2>1. PICK p \in S : p.topic = "probe" /\ \A t \in S : p.from <= t.from
    BY <1>4, <1>12 DEF ProbeFirst
  <2>2. PICK i \in AsksOf(ms) : /\ p = CompactIn(ms, UnitOf(ms, i)) /\ p.from = OpensIn(ms, i)
                                /\ UnitOf(ms, i) \in covered /\ UnitOf(ms, i).ask = i
                                /\ UnitOf(ms, i).from = p.from
    BY <1>6
  <2>3. p.topic = ms[i].tag
    BY <2>2 DEF CompactIn, UnitOf
  <2>4. p.from = 1
    <3>1. p.from \in 1..i /\ p.upto \in i..Len(ms) /\ p.upto <= cursor /\ i \in 1..Len(ms)
      <4>1. p \in frozen /\ p.upto = ClosesIn(ms, i)
        BY <1>1, <2>2, CompactRange
      <4> QED
        BY <1>1, <2>2, <4>1, OpensInRange, ClosesInRange DEF Covered
    <3>2. 1 \in 1..cursor
      BY <1>1, <3>1
    <3>3. PICK t \in frozen : 1 \in t.from..t.upto
      BY <1>1, <3>2 DEF Covered
    <3>4. t.from \in 1..Len(ms)
      BY <1>1, FrozenIsRun
    <3>5. t.from = 1
      BY <3>3, <3>4
    <3>6. ~(t.from < p.from)
      BY <1>1, <2>1, <3>1, <3>5
    <3> QED
      BY <3>1, <3>5, <3>6
  <2> QED
    BY <2>1, <2>2, <2>3, <2>4
<1>13. ASSUME js[1].first # 0
       PROVE  /\ js[1].first = 1
              /\ \A k \in DOMAIN js :
                   /\ \E u \in covered : u.from = js[k].from /\ Authored(u.ask) = js[k].first
                   /\ js[k].last = IF k < Len(js) THEN js[k + 1].first - 1 ELSE Max(numbers)
  <2>1. Numbered(js, S)
    BY <1>4, <1>13
  <2>2. Len(js) \in Nat /\ DOMAIN js = 1..Len(js)
    BY <1>4
  <2>3. ASSUME NEW k \in 1..Len(js)
        PROVE  /\ \E u \in covered : u.from = js[k].from /\ Authored(u.ask) = js[k].first
               /\ js[k].last = IF k < Len(js) THEN js[k + 1].first - 1 ELSE Max(numbers)
    <3>1. PICK s \in AuthoredOf(S) : s.from = js[k].from /\ Cardinality(Till(S, s.from)) = js[k].first
      BY <2>1 DEF Numbered
    <3>2. s \in S
      BY DEF AuthoredOf
    <3>3. \E u \in covered : u.from = js[k].from /\ Authored(u.ask) = js[k].first
      BY <1>6, <3>1, <3>2
    <3>4. CASE k < Len(js)
      BY <2>1, <3>3, <3>4 DEF Numbered
    <3>5. CASE ~(k < Len(js))
      <4>1. k = Len(js)
        BY <2>2, <3>5
      <4>2. js[k].last = total
        BY <2>1, <4>1 DEF Numbered
      <4> QED
        BY <1>11, <3>3, <3>5, <4>2
    <3> QED
      BY <3>4, <3>5
  <2>4. js[1].first = 1
    BY <2>1 DEF Numbered
  <2> QED
    BY <2>2, <2>3, <2>4
<1> QED
  BY <1>12, <1>13 DEF JourneysNumberTurns

\* The summary of what is frozen tells the truth, however often it was folded,
\* over failures, overlapping turns and restarts: its journeys carry the buyer's
\* own turn numbers unless the session began with a probe, and its facts are the
\* newest (summarize_frozen_segments(), _summary_rebuild_inputs()).
THEOREM SummaryTrue == FreezeSpec => []SummaryIsTrue
<1>1. SummaryInv => SummaryIsTrue
  <2> SUFFICES ASSUME SummaryInv PROVE SummaryIsTrue
    OBVIOUS
  <2>1. JourneysNumberTurns
    <3>1. CASE stage # NoStage /\ ~stage.legacy /\ stage.journeys # <<>>
      BY <3>1, SummaryOfUnits
    <3>2. CASE ~(stage # NoStage /\ ~stage.legacy /\ stage.journeys # <<>>)
      BY <3>2 DEF JourneysNumberTurns
    <3> QED
      BY <3>1, <3>2
  <2>2. NewestFactWins
    <3> SUFFICES ASSUME stage # NoStage, ~stage.legacy, NEW tool \in Tools, NEW s \in stage.sources, tool \in s.tools
                 PROVE  s.from <= stage.facts[tool]
      BY DEF NewestFactWins
    <3>1. MemoryInv(Recalled(stage), stage.sources)
      BY DEF SummaryInv, StageInv
    <3>2. Recalled(stage).facts = stage.facts
      BY DEF Recalled
    <3> QED
      BY <3>1, <3>2 DEF MemoryInv
  <2> QED
    BY <2>1, <2>2 DEF SummaryIsTrue
<1> QED
  BY <1>1, SummaryInvariant, PTL

----------------------------------------------------------------------------
(* The searches of a turn: the log of its events, as any sequence.          *)

IsLog(lg) == Len(lg) \in Nat /\ lg = [i \in 1..Len(lg) |-> lg[i]]

Of(lg, kind) == {i \in 1..Len(lg) : lg[i].kind = kind}

Begun(lg) == Cardinality(Of(lg, "invoke"))

LEMMA LogGrows ==
    ASSUME NEW lg, IsLog(lg), NEW e
    PROVE  /\ IsLog(Append(lg, e))
           /\ Len(Append(lg, e)) = Len(lg) + 1
           /\ \A i \in 1..Len(lg) : Append(lg, e)[i] = lg[i]
           /\ Append(lg, e)[Len(lg) + 1] = e
<1> DEFINE S == {lg[i] : i \in 1..Len(lg)} \cup {e}
<1>1. lg \in Seq(S) /\ e \in S
  <2>1. \A i \in 1..Len(lg) : lg[i] \in S
    OBVIOUS
  <2>2. Len(lg) \in Nat /\ lg = [i \in 1..Len(lg) |-> lg[i]]
    BY DEF IsLog
  <2>3. lg \in [1..Len(lg) -> S]
    BY <2>1, <2>2
  <2> QED
    BY <2>2, <2>3
<1> HIDE DEF S
<1>2. Append(lg, e) \in Seq(S) /\ Len(Append(lg, e)) = Len(lg) + 1
  BY <1>1
<1>3. IsLog(Append(lg, e))
  <2> DEFINE ng == Append(lg, e)
  <2>0. ng \in Seq(S)
    BY <1>2
  <2> HIDE DEF ng
  <2>1. ng \in [1..Len(ng) -> S] /\ Len(ng) \in Nat
    BY <2>0
  <2>2. ng = [i \in 1..Len(ng) |-> ng[i]]
    BY <2>1
  <2> QED
    BY <2>1, <2>2 DEF IsLog, ng
<1> QED
  BY <1>1, <1>2, <1>3

LEMMA BegunIsNat ==
    ASSUME NEW lg, IsLog(lg)
    PROVE  Begun(lg) \in Nat /\ IsFiniteSet(Of(lg, "invoke"))
<1>1. IsFiniteSet(1..Len(lg))
  <2>1. 1 \in Int /\ Len(lg) \in Int
    BY DEF IsLog
  <2> QED
    BY <2>1, FS_Interval
<1>2. Of(lg, "invoke") \subseteq 1..Len(lg)
  BY DEF Of
<1> QED
  BY <1>1, <1>2, FS_Subset, FS_CardinalityType DEF Begun

LEMMA BegunGrows ==
    ASSUME NEW lg, IsLog(lg), NEW e
    PROVE  Begun(Append(lg, e)) = IF e.kind = "invoke" THEN Begun(lg) + 1 ELSE Begun(lg)
<1>1. CASE e.kind = "invoke"
  <2>1. Of(Append(lg, e), "invoke") = Of(lg, "invoke") \cup {Len(lg) + 1}
    BY <1>1, LogGrows DEF Of, IsLog
  <2>2. Len(lg) + 1 \notin Of(lg, "invoke")
    BY DEF Of, IsLog
  <2> QED
    BY <1>1, <2>1, <2>2, BegunIsNat, FS_AddElement DEF Begun
<1>2. CASE e.kind # "invoke"
  <2>1. Of(Append(lg, e), "invoke") = Of(lg, "invoke")
    BY <1>2, LogGrows DEF Of, IsLog
  <2> QED
    BY <1>2, <2>1 DEF Begun
<1> QED
  BY <1>1, <1>2

\* What the log of a turn is: the searches are numbered in the order they
\* begin, a search has at most one result, which comes after its beginning,
\* and a result without error says whose search it is the result of.
LogInv(lg) ==
    /\ IsLog(lg)
    /\ \A i \in Of(lg, "invoke") : lg[i].n \in 1..Begun(lg)
    /\ \A i, j \in Of(lg, "invoke") : lg[i].n = lg[j].n => i = j
    /\ \A n \in 1..Begun(lg) : \E i \in Of(lg, "invoke") : lg[i].n = n
    /\ \A i \in Of(lg, "invoke") : lg[i].corr \in Lanes => lg[i].platform = Platform[Fixed[lg[i].corr]]
    /\ \A i \in Of(lg, "result") :
          /\ lg[i].n \in 0..Begun(lg)
          /\ lg[i].status = "ok" => lg[i].n > 0
          /\ lg[i].n > 0 => \E j \in Of(lg, "invoke") :
                /\ j < i /\ lg[j].n = lg[i].n
                /\ lg[i].status = "ok" => lg[i].corr = lg[j].corr /\ lg[i].platform = lg[j].platform
    /\ \A i, j \in Of(lg, "result") : lg[i].n = lg[j].n /\ lg[i].n > 0 => i = j

\* A search of the log that has no result.
Pends(lg, n) == n \in 1..Begun(lg) /\ \A i \in Of(lg, "result") : lg[i].n # n

InvokedAs(lg, n, corr, platform) ==
    \E i \in Of(lg, "invoke") : lg[i].n = n /\ lg[i].corr = corr /\ lg[i].platform = platform

\* The place of a dispatch in the log: none before it is announced, and then
\* all its events are after its announcement.
LaneSeen(lg, l) ==
    \E d \in Of(lg, "dispatch") :
        /\ lg[d].corr = l
        /\ \A i \in 1..Len(lg) : lg[i].corr = l => i >= d
        /\ \A i \in Of(lg, "dispatch") : lg[i].corr = l => i = d

OwnIn(lg, l) == {i \in 1..Len(lg) : Own(lg[i], l)}
LastOwn(lg, l) == IF OwnIn(lg, l) = {} THEN 0 ELSE lg[LastOf(OwnIn(lg, l))].n

LEMMA AppendInvoke ==
    ASSUME NEW lg, LogInv(lg), NEW corr, NEW platform,
           corr \in Lanes => platform = Platform[Fixed[corr]],
           NEW e, e = Event("invoke", Begun(lg) + 1, corr, platform, "none", 0)
    PROVE  /\ LogInv(Append(lg, e))
           /\ Pends(Append(lg, e), Begun(lg) + 1)
           /\ InvokedAs(Append(lg, e), Begun(lg) + 1, corr, platform)
<1> DEFINE ng == Append(lg, e)
           b == Begun(lg)
<1>1. /\ e.kind = "invoke" /\ e.n = b + 1 /\ e.corr = corr /\ e.platform = platform
      /\ "result" # "invoke" /\ b \in Nat /\ Begun(ng) = b + 1 /\ IsLog(ng) /\ IsLog(lg)
  BY BegunGrows, BegunIsNat, LogGrows DEF Event, LogInv
<1>2. /\ Of(ng, "invoke") = Of(lg, "invoke") \cup {Len(lg) + 1}
      /\ Of(ng, "result") = Of(lg, "result")
      /\ \A i \in Of(lg, "invoke") \cup Of(lg, "result") : i \in 1..Len(lg) /\ ng[i] = lg[i]
      /\ ng[Len(lg) + 1] = e /\ Len(lg) \in Nat
  BY <1>1, LogGrows DEF Of, IsLog
<1> HIDE DEF ng, b
<1>3. \A i \in Of(ng, "invoke") : ng[i].n \in 1..Begun(ng)
  BY <1>1, <1>2 DEF LogInv, b
<1>4. \A i, j \in Of(ng, "invoke") : ng[i].n = ng[j].n => i = j
  BY <1>1, <1>2 DEF LogInv, b
<1>5. \A n \in 1..Begun(ng) : \E i \in Of(ng, "invoke") : ng[i].n = n
  <2> TAKE n \in 1..Begun(ng)
  <2>1. CASE n = b + 1
    BY <1>1, <1>2, <2>1
  <2>2. CASE n # b + 1
    <3>1. n \in 1..b
      BY <1>1, <2>2
    <3>2. PICK i \in Of(lg, "invoke") : lg[i].n = n
      BY <3>1 DEF LogInv, b
    <3> QED
      BY <1>2, <3>2
  <2> QED
    BY <2>1, <2>2
<1>6. \A i \in Of(ng, "invoke") : ng[i].corr \in Lanes => ng[i].platform = Platform[Fixed[ng[i].corr]]
  BY <1>1, <1>2 DEF LogInv
<1>7. ASSUME NEW i \in Of(ng, "result")
      PROVE  /\ ng[i].n \in 0..Begun(ng)
             /\ ng[i].status = "ok" => ng[i].n > 0
             /\ ng[i].n > 0 => \E j \in Of(ng, "invoke") :
                   /\ j < i /\ ng[j].n = ng[i].n
                   /\ ng[i].status = "ok" => ng[i].corr = ng[j].corr /\ ng[i].platform = ng[j].platform
  <2>1. i \in Of(lg, "result") /\ ng[i] = lg[i]
    BY <1>2, <1>7
  <2>2. lg[i].n \in 0..b /\ (lg[i].status = "ok" => lg[i].n > 0)
    BY <2>1 DEF LogInv, b
  <2>3. lg[i].n > 0 => \E j \in Of(lg, "invoke") :
                   /\ j < i /\ lg[j].n = lg[i].n
                   /\ lg[i].status = "ok" => lg[i].corr = lg[j].corr /\ lg[i].platform = lg[j].platform
    BY <2>1 DEF LogInv
  <2>4. ng[i].n \in 0..Begun(ng)
    BY <1>1, <2>1, <2>2
  <2> QED
    BY <1>2, <2>1, <2>2, <2>3, <2>4
<1>8. \A i, j \in Of(ng, "result") : ng[i].n = ng[j].n /\ ng[i].n > 0 => i = j
  BY <1>2 DEF LogInv
<1>9. LogInv(ng)
  BY <1>1, <1>3, <1>4, <1>5, <1>6, <1>7, <1>8 DEF LogInv
<1>10. Pends(ng, b + 1)
  <2>1. \A i \in Of(lg, "result") : lg[i].n \in 0..b
    BY DEF LogInv, b
  <2>2. \A i \in Of(ng, "result") : ng[i].n # b + 1
    BY <1>1, <1>2, <2>1
  <2> QED
    BY <1>1, <2>2 DEF Pends
<1>11. InvokedAs(ng, b + 1, corr, platform)
  BY <1>1, <1>2 DEF InvokedAs
<1> QED
  BY <1>9, <1>10, <1>11 DEF ng, b

LEMMA AppendOther ==
    ASSUME NEW lg, LogInv(lg), NEW e, e.kind # "invoke",
           e.kind = "result" =>
              /\ e.n = 0 \/ Pends(lg, e.n)
              /\ e.status = "ok" => e.n # 0 /\ InvokedAs(lg, e.n, e.corr, e.platform)
    PROVE  /\ LogInv(Append(lg, e))
           /\ \A n : Pends(lg, n) /\ (e.kind = "result" => e.n # n) => Pends(Append(lg, e), n)
<1> DEFINE ng == Append(lg, e)
           b == Begun(lg)
<1>1. /\ b \in Nat /\ Begun(ng) = b /\ IsLog(ng) /\ IsLog(lg)
  BY BegunGrows, BegunIsNat, LogGrows DEF LogInv
<1>2. /\ Of(ng, "invoke") = Of(lg, "invoke")
      /\ Of(ng, "result") = Of(lg, "result") \cup (IF e.kind = "result" THEN {Len(lg) + 1} ELSE {})
      /\ \A i \in Of(lg, "invoke") \cup Of(lg, "result") : i \in 1..Len(lg) /\ ng[i] = lg[i]
      /\ ng[Len(lg) + 1] = e /\ Len(lg) \in Nat
  BY <1>1, LogGrows DEF Of, IsLog
<1> HIDE DEF ng, b
<1>3. /\ \A i \in Of(ng, "invoke") : ng[i].n \in 1..Begun(ng)
      /\ \A i, j \in Of(ng, "invoke") : ng[i].n = ng[j].n => i = j
  BY <1>1, <1>2 DEF LogInv, b
<1>5. \A n \in 1..Begun(ng) : \E i \in Of(ng, "invoke") : ng[i].n = n
  BY <1>1, <1>2 DEF LogInv, b
<1>6. \A i \in Of(ng, "invoke") : ng[i].corr \in Lanes => ng[i].platform = Platform[Fixed[ng[i].corr]]
  BY <1>1, <1>2 DEF LogInv
<1>7. ASSUME NEW i \in Of(ng, "result")
      PROVE  /\ ng[i].n \in 0..Begun(ng)
             /\ ng[i].status = "ok" => ng[i].n > 0
             /\ ng[i].n > 0 => \E j \in Of(ng, "invoke") :
                   /\ j < i /\ ng[j].n = ng[i].n
                   /\ ng[i].status = "ok" => ng[i].corr = ng[j].corr /\ ng[i].platform = ng[j].platform
  <2>1. CASE i \in Of(lg, "result")
    <3>1. ng[i] = lg[i]
      BY <1>2, <2>1
    <3>2. lg[i].n \in 0..b /\ (lg[i].status = "ok" => lg[i].n > 0)
      BY <2>1 DEF LogInv, b
    <3>3. lg[i].n > 0 => \E j \in Of(lg, "invoke") :
                   /\ j < i /\ lg[j].n = lg[i].n
                   /\ lg[i].status = "ok" => lg[i].corr = lg[j].corr /\ lg[i].platform = lg[j].platform
      BY <2>1 DEF LogInv
    <3> QED
      BY <1>1, <1>2, <3>1, <3>2, <3>3
  <2>2. CASE i \notin Of(lg, "result")
    <3>1. e.kind = "result" /\ i = Len(lg) + 1 /\ ng[i] = e
      BY <1>2, <1>7, <2>2
    <3>2. e.n \in 0..b /\ (e.status = "ok" => e.n > 0)
      BY <1>1, <3>1 DEF Pends, b
    <3>3. ASSUME e.n > 0 PROVE \E j \in Of(lg, "invoke") :
                   /\ j < i /\ lg[j].n = e.n
                   /\ e.status = "ok" => e.corr = lg[j].corr /\ e.platform = lg[j].platform
      <4>1. CASE e.status = "ok"
        <5>1. InvokedAs(lg, e.n, e.corr, e.platform)
          BY <3>1, <4>1
        <5>2. PICK j \in Of(lg, "invoke") : lg[j].n = e.n /\ lg[j].corr = e.corr /\ lg[j].platform = e.platform
          BY <5>1 DEF InvokedAs
        <5>3. j < i
          BY <1>2, <3>1
        <5> QED
          BY <5>2, <5>3
      <4>2. CASE e.status # "ok"
        <5>1. e.n \in 1..b
          BY <1>1, <3>2, <3>3
        <5> QED
          BY <1>2, <3>1, <4>2, <5>1 DEF LogInv, b
      <4> QED
        BY <4>1, <4>2
    <3> QED
      BY <1>1, <1>2, <3>1, <3>2, <3>3
  <2> QED
    BY <2>1, <2>2
<1>8. ASSUME NEW i \in Of(ng, "result"), NEW j \in Of(ng, "result"), ng[i].n = ng[j].n, ng[i].n > 0
      PROVE  i = j
  <2>1. CASE i \in Of(lg, "result") /\ j \in Of(lg, "result")
    BY <1>2, <1>8, <2>1 DEF LogInv
  <2>2. CASE i \notin Of(lg, "result") /\ j \notin Of(lg, "result")
    BY <1>2, <1>8, <2>2
  <2>3. ASSUME NEW x \in Of(lg, "result"), e.kind = "result", lg[x].n = e.n, e.n > 0
        PROVE  FALSE
    <3>1. Pends(lg, e.n)
      BY <2>3
    <3> QED
      BY <2>3, <3>1 DEF Pends
  <2>4. CASE i \in Of(lg, "result") /\ j \notin Of(lg, "result")
    BY <1>2, <1>8, <2>3, <2>4
  <2>5. CASE i \notin Of(lg, "result") /\ j \in Of(lg, "result")
    BY <1>2, <1>8, <2>3, <2>5
  <2> QED
    BY <2>1, <2>2, <2>4, <2>5
<1>9. LogInv(ng)
  BY <1>1, <1>3, <1>5, <1>6, <1>7, <1>8 DEF LogInv
<1>10. \A n : Pends(lg, n) /\ (e.kind = "result" => e.n # n) => Pends(ng, n)
  BY <1>1, <1>2 DEF Pends, b
<1> QED
  BY <1>9, <1>10 DEF ng

LEMMA LastIsLast ==
    ASSUME NEW n \in Nat, NEW S \in SUBSET (0..n), S # {}
    PROVE  LastOf(S) \in S /\ \A y \in S : y <= LastOf(S)
<1>1. Max(S) \in S /\ \A y \in S : y <= Max(S)
  BY GreatestOf
<1>2. \A y \in S : y \in Int
  OBVIOUS
<1>3. \E i \in S : \A j \in S : i >= j
  BY <1>1, <1>2
<1>4. LastOf(S) \in S /\ \A j \in S : LastOf(S) >= j
  BY <1>3 DEF LastOf
<1> QED
  BY <1>2, <1>4

LEMMA InvokedStays ==
    ASSUME NEW lg, IsLog(lg), NEW e, NEW n, NEW corr, NEW platform, InvokedAs(lg, n, corr, platform)
    PROVE  InvokedAs(Append(lg, e), n, corr, platform)
<1>1. PICK i \in Of(lg, "invoke") : lg[i].n = n /\ lg[i].corr = corr /\ lg[i].platform = platform
  BY DEF InvokedAs
<1>2. i \in Of(Append(lg, e), "invoke") /\ Append(lg, e)[i] = lg[i]
  BY LogGrows DEF Of, IsLog
<1> QED
  BY <1>1, <1>2 DEF InvokedAs

\* A lane stays announced whatever is published, once.
LEMMA LaneStays ==
    ASSUME NEW lg, IsLog(lg), NEW e, NEW l, LaneSeen(lg, l), e.kind = "dispatch" => e.corr # l
    PROVE  LaneSeen(Append(lg, e), l)
<1> DEFINE ng == Append(lg, e)
<1>1. PICK d \in Of(lg, "dispatch") :
        /\ lg[d].corr = l
        /\ \A i \in 1..Len(lg) : lg[i].corr = l => i >= d
        /\ \A i \in Of(lg, "dispatch") : lg[i].corr = l => i = d
  BY DEF LaneSeen
<1>2. /\ Len(lg) \in Nat /\ Len(ng) = Len(lg) + 1 /\ ng[Len(lg) + 1] = e
      /\ \A i \in 1..Len(lg) : ng[i] = lg[i]
  BY LogGrows DEF IsLog
<1> HIDE DEF ng
<1>3. d \in 1..Len(lg) /\ d \in Of(ng, "dispatch") /\ ng[d].corr = l
  BY <1>1, <1>2 DEF Of
<1>4. \A i \in 1..Len(ng) : ng[i].corr = l => i >= d
  BY <1>1, <1>2, <1>3
<1>5. \A i \in Of(ng, "dispatch") : ng[i].corr = l => i = d
  BY <1>1, <1>2 DEF Of
<1> QED
  BY <1>3, <1>4, <1>5 DEF LaneSeen, ng

LEMMA OwnStays ==
    ASSUME NEW lg, IsLog(lg), NEW e, NEW l, ~Own(e, l)
    PROVE  LastOwn(Append(lg, e), l) = LastOwn(lg, l)
<1> DEFINE ng == Append(lg, e)
<1>1. /\ Len(lg) \in Nat /\ Len(ng) = Len(lg) + 1 /\ ng[Len(lg) + 1] = e
      /\ \A i \in 1..Len(lg) : ng[i] = lg[i]
  BY LogGrows DEF IsLog
<1> HIDE DEF ng
<1>2. OwnIn(ng, l) = OwnIn(lg, l)
  BY <1>1 DEF OwnIn
<1>3. CASE OwnIn(lg, l) = {}
  BY <1>2, <1>3 DEF LastOwn, ng
<1>4. CASE OwnIn(lg, l) # {}
  <2>1. OwnIn(lg, l) \in SUBSET (0..Len(lg))
    BY <1>1 DEF OwnIn
  <2>2. LastOf(OwnIn(lg, l)) \in OwnIn(lg, l)
    BY <1>1, <1>4, <2>1, LastIsLast
  <2>3. LastOf(OwnIn(lg, l)) \in 1..Len(lg)
    BY <2>2 DEF OwnIn
  <2> QED
    BY <1>1, <1>2, <2>3 DEF LastOwn, ng
<1> QED
  BY <1>3, <1>4

LEMMA LogJoins ==
    ASSUME NEW lg, IsLog(lg)
    PROVE  lg \o <<>> = lg /\ \A e : lg \o <<e>> = Append(lg, e)
<1>1. lg \in Seq({lg[i] : i \in 1..Len(lg)})
  <2> DEFINE S == {lg[i] : i \in 1..Len(lg)}
  <2>1. Len(lg) \in Nat /\ lg = [i \in 1..Len(lg) |-> lg[i]]
    BY DEF IsLog
  <2>2. \A i \in 1..Len(lg) : lg[i] \in S
    OBVIOUS
  <2> HIDE DEF S
  <2>3. lg \in Seq(S)
    BY <2>1, <2>2
  <2> QED
    BY <2>3 DEF S
<1>2. lg \o <<>> = lg
  BY <1>1
<1>3. ASSUME NEW e PROVE lg \o <<e>> = Append(lg, e)
  <2> DEFINE S == {lg[i] : i \in 1..Len(lg)} \cup {e}
  <2>1. lg \in Seq(S) /\ e \in S
    BY <1>1
  <2> HIDE DEF S
  <2> QED
    BY <2>1
<1> QED
  BY <1>2, <1>3

----------------------------------------------------------------------------
CallFields == {"phase", "ask", "tries", "recalled", "eligible", "rejected", "result", "hurt"}

\* What is known of a search that is under way.
RunningInv(c) ==
    /\ MaySearch(c)
    /\ Pends(log, number[c])
    /\ InvokedAs(log, number[c], Correlation(c), Platform[call[c].ask.scope])

CallsInv ==
    /\ DOMAIN call = Calls /\ \A c \in Calls : DOMAIN call[c] = CallFields
    /\ DOMAIN number = Calls
    /\ \A c \in Calls : Running(c) => RunningInv(c)
    /\ \A c, d \in Calls : Running(c) /\ Running(d) /\ number[c] = number[d] => c = d
    /\ \A c \in Calls : Running(c) /\ LaneOf[c] # Main => call[c].ask.scope = Fixed[LaneOf[c]]

LanesInv ==
    /\ lane \in [Lanes -> {"new", "open", "done", "cut"}]
    /\ DOMAIN reply = Lanes
    /\ \A l \in Lanes :
          /\ lane[l] = "new" => \A i \in 1..Len(log) : log[i].corr # l
          /\ lane[l] # "new" => LaneSeen(log, l)
          /\ lane[l] = "done" => reply[l] = LastOwn(log, l)

\* The inductive invariant of DispatchAnswersItself.
EvidenceInv == LogInv(log) /\ CallsInv /\ LanesInv

LEMMA EvidenceStarts == EvidenceInit => EvidenceInv
<1> SUFFICES ASSUME EvidenceInit PROVE EvidenceInv
  OBVIOUS
<1>1. log = <<>> /\ lane = [l \in Lanes |-> "new"] /\ reply = [l \in Lanes |-> 0]
      /\ number = [c \in Calls |-> 0] /\ call = [c \in Calls |-> Idle]
  BY DEF EvidenceInit, SearchInit
<1>2. Len(log) = 0 /\ IsLog(log)
  BY <1>1 DEF IsLog
<1>3. \A kind : Of(log, kind) = {}
  BY <1>2 DEF Of
<1>4. Begun(log) = 0
  BY <1>3, FS_EmptySet DEF Begun
<1>5. LogInv(log)
  BY <1>2, <1>3, <1>4 DEF LogInv
<1>6. LanesInv
  BY <1>1, <1>2 DEF LanesInv
<1>7. CallsInv
  <2>1. \A c \in Calls : call[c] = Idle /\ ~Running(c)
    BY <1>1 DEF Running, Idle
  <2> QED
    BY <1>1, <2>1 DEF CallsInv, Idle, CallFields
<1> QED
  BY <1>5, <1>6, <1>7 DEF EvidenceInv

\* A call that moves on.
Moves(c) ==
    \/ Embed(c) \/ Recall(c) \/ Rerank(c) \/ Degrade(c) \/ TimesOut(c)
    \/ \E kind \in {"transient", "permanent"} : DependencyFails(c, kind)

LEMMA CallMoves ==
    ASSUME NEW c \in Calls, Moves(c), DOMAIN call = Calls, \A d \in Calls : DOMAIN call[d] = CallFields
    PROVE  /\ Running(c)
           /\ DOMAIN call' = Calls /\ \A d \in Calls : DOMAIN call'[d] = CallFields
           /\ \A d \in Calls : d # c => call'[d] = call[d]
           /\ call'[c].ask = call[c].ask
           /\ call'[c].phase \in {"embedding", "searching", "ranking", "answered", "failed"}
<1> DEFINE Good(r) ==
        /\ DOMAIN r = CallFields /\ r.ask = call[c].ask
        /\ r.phase \in {"embedding", "searching", "ranking", "answered", "failed"}
<1>0. SUFFICES Running(c) /\ \E r : Put(c, r) /\ Good(r)
  BY DEF Put
<1>1. DOMAIN call[c] = CallFields
  OBVIOUS
<1>2. CASE Embed(c)
  <2> DEFINE q == [call[c] EXCEPT !.phase = "searching", !.tries = 1]
  <2>1. Put(c, q) /\ Running(c)
    BY <1>2 DEF Embed, Running
  <2>2. Good(q)
    BY <1>1 DEF CallFields
  <2> QED
    BY <2>1, <2>2
<1>3. CASE Recall(c)
  <2>1. PICK found \in Recalls(call[c].ask) :
        LET here == Restored(found)
            kept == Passing(here, call[c].ask)
            r == [call[c] EXCEPT !.recalled = found, !.eligible = kept,
                                 !.rejected = Rejected(here, call[c].ask)]
        IN Put(c, IF Len(here) < Len(found)
                  THEN [call[c] EXCEPT !.phase = "failed", !.recalled = found]
                  ELSE IF kept = <<>>
                  THEN Answered(r, <<>>, FALSE)
                  ELSE [r EXCEPT !.phase = "ranking"])
    BY <1>3 DEF Recall
  <2> DEFINE here == Restored(found)
             kept == Passing(here, call[c].ask)
             rej == Rejected(here, call[c].ask)
             r == [call[c] EXCEPT !.recalled = found, !.eligible = kept, !.rejected = rej]
             q == IF Len(here) < Len(found)
                  THEN [call[c] EXCEPT !.phase = "failed", !.recalled = found]
                  ELSE IF kept = <<>>
                  THEN Answered(r, <<>>, FALSE)
                  ELSE [r EXCEPT !.phase = "ranking"]
  <2>2. Put(c, q)
    BY <2>1
  <2> HIDE DEF here, kept, rej
  <2>3. DOMAIN r = CallFields /\ r.ask = call[c].ask
    BY <1>1 DEF CallFields
  <2> HIDE DEF r
  <2>4. Good(q)
    BY <1>1, <2>3 DEF Answered, CallFields
  <2>5. Running(c)
    BY <1>3 DEF Recall, Running
  <2> QED
    BY <2>2, <2>4, <2>5
<1>4. CASE Rerank(c)
  <2>1. PICK order : Put(c, Answered(call[c], order, TRUE))
    BY <1>4 DEF Rerank
  <2>2. Running(c)
    BY <1>4 DEF Rerank, Running
  <2>3. Good(Answered(call[c], order, TRUE))
    BY <1>1 DEF Answered, CallFields
  <2> QED
    BY <2>1, <2>2, <2>3
<1>5. CASE Degrade(c)
  <2> DEFINE r == [call[c] EXCEPT !.hurt = @ \cup {"reranker"}]
  <2>1. Put(c, Answered(r, r.eligible, FALSE)) /\ Running(c)
    BY <1>5 DEF Degrade, Running
  <2>2. DOMAIN r = CallFields /\ r.ask = call[c].ask
    BY <1>1 DEF CallFields
  <2> HIDE DEF r
  <2>3. Good(Answered(r, r.eligible, FALSE))
    BY <2>2 DEF Answered, CallFields
  <2> QED
    BY <2>1, <2>3
<1>6. CASE TimesOut(c)
  <2> DEFINE q == [call[c] EXCEPT !.phase = "failed", !.hurt = @ \cup {"timeout"}]
  <2>1. Put(c, q) /\ Running(c)
    BY <1>6 DEF TimesOut
  <2>2. Good(q)
    BY <1>1 DEF CallFields
  <2> QED
    BY <2>1, <2>2
<1>7. ASSUME NEW kind \in {"transient", "permanent"}, DependencyFails(c, kind)
      PROVE  Running(c) /\ \E r : Put(c, r) /\ Good(r)
  <2> DEFINE r == [call[c] EXCEPT !.hurt = @ \cup {kind}]
             q == IF Retries(r, kind) THEN [r EXCEPT !.tries = 2] ELSE [r EXCEPT !.phase = "failed"]
  <2>1. Put(c, q) /\ Running(c)
    BY <1>7 DEF DependencyFails, Running
  <2>2. DOMAIN r = CallFields /\ r.ask = call[c].ask /\ r.phase \in {"embedding", "searching"}
    BY <1>1, <1>7 DEF CallFields, DependencyFails
  <2> HIDE DEF r
  <2>3. Good(q)
    BY <2>2 DEF CallFields
  <2> QED
    BY <2>1, <2>3
<1> QED
  BY <1>2, <1>3, <1>4, <1>5, <1>6, <1>7 DEF Moves

----------------------------------------------------------------------------
(* Each step keeps the invariant.                                           *)

\* An event that is neither the beginning nor the result of a running search
\* leaves what is known of it.
LEMMA RunningStays ==
    ASSUME EvidenceInv, NEW e, e.kind # "invoke",
           e.kind = "result" => e.n = 0 \/ Pends(log, e.n),
           e.kind = "result" /\ e.status = "ok" => e.n # 0 /\ InvokedAs(log, e.n, e.corr, e.platform),
           NEW c \in Calls, RunningInv(c), e.kind = "result" => e.n # number[c]
    PROVE  /\ Pends(Append(log, e), number[c])
           /\ InvokedAs(Append(log, e), number[c], Correlation(c), Platform[call[c].ask.scope])
<1>1. LogInv(log) /\ IsLog(log)
  BY DEF EvidenceInv, LogInv
<1>2. Pends(log, number[c]) /\ InvokedAs(log, number[c], Correlation(c), Platform[call[c].ask.scope])
  BY DEF RunningInv
<1> QED
  BY <1>1, <1>2, AppendOther, InvokedStays

\* An event of a lane that is open, or of none, is not of one that is new,
\* cut or done.
LEMMA LanesStay ==
    ASSUME EvidenceInv, NEW e, e.kind # "dispatch",
           \A l \in Lanes : e.corr = l => lane[l] = "open", log' = Append(log, e),
           UNCHANGED <<lane, reply>>
    PROVE  LanesInv'
<1>1. IsLog(log) /\ LanesInv
  BY DEF EvidenceInv, LogInv
<1>2. /\ Len(log) \in Nat /\ Len(log') = Len(log) + 1 /\ log'[Len(log) + 1] = e
      /\ \A i \in 1..Len(log) : log'[i] = log[i]
  BY <1>1, LogGrows DEF IsLog
<1>3. ASSUME NEW l \in Lanes
      PROVE  /\ lane[l] = "new" => \A i \in 1..Len(log') : log'[i].corr # l
             /\ lane[l] # "new" => LaneSeen(log', l)
             /\ lane[l] = "done" => reply[l] = LastOwn(log', l)
  <2>1. lane[l] = "new" => \A i \in 1..Len(log') : log'[i].corr # l
    BY <1>1, <1>2 DEF LanesInv
  <2>2. lane[l] # "new" => LaneSeen(log', l)
    BY <1>1, LaneStays DEF LanesInv
  <2>3. lane[l] = "done" => ~Own(e, l)
    BY DEF Own
  <2>4. lane[l] = "done" => reply[l] = LastOwn(log', l)
    BY <1>1, <2>3, OwnStays DEF LanesInv
  <2> QED
    BY <2>1, <2>2, <2>4
<1> QED
  BY <1>1, <1>3 DEF LanesInv

LEMMA CorrelationOpen ==
    ASSUME EvidenceAssumption, NEW c \in Calls, MaySearch(c), NEW l \in Lanes, Correlation(c) = l
    PROVE  LaneOf[c] = l /\ lane[l] = "open"
<1>1. LaneOf[c] # Main /\ LaneOf[c] = l
  BY DEF EvidenceAssumption, Correlation
<1> QED
  BY <1>1 DEF MaySearch, Open

LEMMA ShortCircuitKeeps ==
    ASSUME EvidenceAssumption, EvidenceInv, NEW c \in Calls, ShortCircuit(c)
    PROVE  EvidenceInv'
<1> DEFINE e == Event("result", 0, None, None, "error", 0)
<1>1. /\ log' = Append(log, e) /\ UNCHANGED <<lane, reply, number, call>>
      /\ e.kind = "result" /\ e.n = 0 /\ e.corr = None /\ e.status = "error"
  BY DEF ShortCircuit, Event
<1> HIDE DEF e
<1>2. LogInv(log')
  BY <1>1, AppendOther DEF EvidenceInv
<1>3. LanesInv'
  BY <1>1, LanesStay DEF EvidenceAssumption
<1>4. ASSUME NEW d \in Calls, Running(d) PROVE RunningInv(d)'
  <2>1. RunningInv(d)
    BY <1>4 DEF EvidenceInv, CallsInv
  <2>2. number[d] # 0
    BY <2>1 DEF RunningInv, Pends
  <2>3. /\ Pends(Append(log, e), number[d])
        /\ InvokedAs(Append(log, e), number[d], Correlation(d), Platform[call[d].ask.scope])
    BY <1>1, <2>1, <2>2, RunningStays
  <2> QED
    BY <1>1, <2>1, <2>3 DEF RunningInv, MaySearch, Open
<1>5. CallsInv'
  BY <1>1, <1>4 DEF EvidenceInv, CallsInv, Running
<1> QED
  BY <1>2, <1>3, <1>5 DEF EvidenceInv

LEMMA ProceedKeeps ==
    ASSUME EvidenceAssumption, EvidenceInv, NEW c \in Calls, Proceed(c)
    PROVE  EvidenceInv'
<1>0. CallsInv /\ LanesInv /\ LogInv(log)
  BY DEF EvidenceInv
<1>1. /\ Running(c)
      /\ DOMAIN call' = Calls /\ \A d \in Calls : DOMAIN call'[d] = CallFields
      /\ \A d \in Calls : d # c => call'[d] = call[d]
      /\ call'[c].ask = call[c].ask
      /\ call'[c].phase \in {"embedding", "searching", "ranking", "answered", "failed"}
  <2>1. Moves(c)
    BY DEF Proceed, Moves
  <2> QED
    BY <1>0, <2>1, CallMoves DEF CallsInv
<1>2. UNCHANGED <<lane, reply, number>>
  BY DEF Proceed
<1>3. \A d \in Calls : Running(d)' => Running(d) /\ call'[d].ask = call[d].ask
  BY <1>1 DEF Running
<1>4. CASE call'[c].phase \in {"answered", "failed"}
  <2> DEFINE e == ResultOf(c, number[c], call'[c])
  <2>1. log' = Append(log, e)
    BY <1>4 DEF Proceed
  <2>2. /\ e.kind = "result" /\ e.n = number[c]
        /\ e.corr \in {None, Correlation(c)}
        /\ e.status = "ok" => e.corr = Correlation(c) /\ e.platform = Platform[call[c].ask.scope]
    <3>1. CASE call'[c].phase = "failed"
      BY <3>1 DEF ResultOf, Event
    <3>2. CASE call'[c].phase # "failed"
      BY <1>1, <3>2 DEF ResultOf, Event
    <3> QED
      BY <3>1, <3>2
  <2> HIDE DEF e
  <2>3. RunningInv(c)
    BY <1>0, <1>1 DEF CallsInv
  <2>4. Pends(log, e.n) /\ e.n # 0 /\ (e.status = "ok" => InvokedAs(log, e.n, e.corr, e.platform))
    BY <2>2, <2>3 DEF RunningInv, Pends
  <2>5. LogInv(log')
    BY <1>0, <2>1, <2>2, <2>4, AppendOther
  <2>6. \A l \in Lanes : e.corr = l => lane[l] = "open"
    BY <2>2, <2>3, CorrelationOpen DEF EvidenceAssumption, RunningInv
  <2>7. LanesInv'
    BY <1>2, <2>1, <2>2, <2>6, LanesStay
  <2>8. ~Running(c)'
    BY <1>4 DEF Running
  <2>9. ASSUME NEW d \in Calls, Running(d)' PROVE RunningInv(d)'
    <3>1. d # c /\ Running(d) /\ RunningInv(d) /\ call'[d] = call[d]
      BY <1>0, <1>1, <1>3, <2>8, <2>9 DEF CallsInv
    <3>2. number[d] # number[c]
      BY <1>0, <1>1, <3>1 DEF CallsInv
    <3>3. /\ Pends(Append(log, e), number[d])
          /\ InvokedAs(Append(log, e), number[d], Correlation(d), Platform[call[d].ask.scope])
      BY <2>2, <2>4, <3>1, <3>2, RunningStays
    <3> QED
      BY <1>2, <2>1, <3>1, <3>3 DEF RunningInv, MaySearch, Open
  <2>10. CallsInv'
    BY <1>0, <1>1, <1>2, <1>3, <2>9 DEF CallsInv
  <2> QED
    BY <2>5, <2>7, <2>10 DEF EvidenceInv
<1>5. CASE call'[c].phase \notin {"answered", "failed"}
  <2>1. log' = log
    BY <1>5 DEF Proceed
  <2>2. LanesInv'
    BY <1>0, <1>2, <2>1 DEF LanesInv
  <2>3. \A d \in Calls : Running(d)' => RunningInv(d)'
    BY <1>0, <1>2, <1>3, <2>1 DEF CallsInv, RunningInv, MaySearch, Open
  <2>4. CallsInv'
    BY <1>0, <1>1, <1>2, <1>3, <2>3 DEF CallsInv
  <2> QED
    BY <1>0, <2>1, <2>2, <2>4 DEF EvidenceInv
<1> QED
  BY <1>4, <1>5

LEMMA SearchKeeps ==
    ASSUME EvidenceAssumption, EvidenceInv, NEW c \in Calls, NEW ask \in Requests, Search(c, ask)
    PROVE  EvidenceInv'
<1> DEFINE n == Begun(log) + 1
           i == InvokeOf(c, n, ask)
           lg == Append(log, i)
           r == ResultOf(c, n, call'[c])
<1>0. CallsInv /\ LanesInv /\ LogInv(log) /\ IsLog(log)
  BY DEF EvidenceInv, LogInv
<1>1. /\ MaySearch(c) /\ Searches = Begun(log) /\ (LaneOf[c] # Main => ask.scope = Fixed[LaneOf[c]])
      /\ number' = [number EXCEPT ![c] = n] /\ UNCHANGED <<lane, reply>>
      /\ log' = lg \o (IF call'[c].phase = "refused" THEN <<r>> ELSE <<>>)
  BY DEF Search, Searches, Begun, Of
<1>2. /\ ~Running(c) /\ DOMAIN call' = Calls /\ \A d \in Calls : DOMAIN call'[d] = CallFields
      /\ \A d \in Calls : d # c => call'[d] = call[d]
      /\ call'[c].ask = ask /\ call'[c].phase \in {"embedding", "refused"}
  <2> DEFINE b == [Idle EXCEPT !.phase = "embedding", !.ask = ask, !.tries = 1]
             q == [Idle EXCEPT !.phase = "refused", !.ask = ask]
  <2>1. ~Running(c) /\ (Put(c, b) \/ Put(c, q))
    BY DEF Search, Begin, Refuse
  <2>2. /\ DOMAIN b = CallFields /\ b.ask = ask /\ b.phase = "embedding"
        /\ DOMAIN q = CallFields /\ q.ask = ask /\ q.phase = "refused"
    BY DEF Idle, CallFields
  <2> HIDE DEF b, q
  <2> QED
    BY <1>0, <2>1, <2>2 DEF Put, CallsInv
<1>3. i = Event("invoke", n, Correlation(c), Platform[ask.scope], "none", 0)
  BY DEF InvokeOf
<1>4. i.kind = "invoke" /\ i.n = n /\ i.corr = Correlation(c) /\ i.platform = Platform[ask.scope]
  BY <1>3 DEF Event
<1>5. Correlation(c) \in Lanes => Platform[ask.scope] = Platform[Fixed[Correlation(c)]]
  BY <1>1 DEF Correlation, EvidenceAssumption
<1>6. LogInv(lg) /\ Pends(lg, n) /\ InvokedAs(lg, n, Correlation(c), Platform[ask.scope])
  BY <1>0, <1>3, <1>5, AppendInvoke
<1>7. \A l \in Lanes : i.corr = l => lane[l] = "open"
  BY <1>1, <1>4, CorrelationOpen
<1>8. ASSUME NEW l \in Lanes
      PROVE  /\ lane[l] = "new" => \A k \in 1..Len(lg) : lg[k].corr # l
             /\ lane[l] # "new" => LaneSeen(lg, l)
             /\ lane[l] = "done" => reply[l] = LastOwn(lg, l)
  <2>1. /\ Len(log) \in Nat /\ Len(lg) = Len(log) + 1 /\ lg[Len(log) + 1] = i
        /\ \A k \in 1..Len(log) : lg[k] = log[k]
    BY <1>0, LogGrows DEF IsLog
  <2>2. lane[l] = "new" => \A k \in 1..Len(lg) : lg[k].corr # l
    BY <1>0, <1>7, <2>1 DEF LanesInv
  <2>3. lane[l] # "new" => LaneSeen(lg, l)
    BY <1>0, <1>4, LaneStays DEF LanesInv
  <2>4. ~Own(i, l)
    BY <1>4 DEF Own
  <2> QED
    BY <1>0, <2>2, <2>3, <2>4, OwnStays DEF LanesInv
<1>9. ASSUME NEW d \in Calls, d # c, Running(d)
      PROVE  /\ RunningInv(d) /\ number[d] # n /\ Pends(lg, number[d])
             /\ InvokedAs(lg, number[d], Correlation(d), Platform[call[d].ask.scope])
  <2>1. RunningInv(d)
    BY <1>0, <1>9 DEF CallsInv
  <2>2. Pends(log, number[d]) /\ InvokedAs(log, number[d], Correlation(d), Platform[call[d].ask.scope])
    BY <2>1 DEF RunningInv
  <2>3. InvokedAs(lg, number[d], Correlation(d), Platform[call[d].ask.scope])
    BY <1>0, <2>2, InvokedStays
  <2>4. Begun(log) \in Nat /\ Begun(lg) = n
    BY <1>0, <1>4, BegunIsNat, BegunGrows
  <2>5. number[d] \in 1..Begun(log)
    BY <2>2 DEF Pends
  <2>6. Of(lg, "result") = Of(log, "result") /\ \A k \in Of(log, "result") : lg[k] = log[k]
    BY <1>0, <1>4, LogGrows DEF Of, IsLog
  <2>7. Pends(lg, number[d])
    <3>1. number[d] \in 1..Begun(lg)
      BY <2>4, <2>5
    <3>2. \A k \in Of(lg, "result") : lg[k].n # number[d]
      BY <2>2, <2>6 DEF Pends
    <3> QED
      BY <3>1, <3>2 DEF Pends
  <2>8. number[d] # n
    BY <2>4, <2>5
  <2> QED
    BY <2>1, <2>3, <2>7, <2>8
<1> HIDE DEF lg, i
<1>10. CASE call'[c].phase = "embedding"
  <2>1. log' = lg
    BY <1>1, <1>6, <1>10, LogJoins DEF LogInv
  <2>2. LanesInv'
    BY <1>0, <1>1, <1>8, <2>1 DEF LanesInv
  <2>3. number'[c] = n /\ DOMAIN number' = Calls /\ \A d \in Calls : d # c => number'[d] = number[d]
    BY <1>0, <1>1 DEF CallsInv
  <2> HIDE DEF n
  <2>4. ASSUME NEW d \in Calls, Running(d)'
        PROVE  RunningInv(d)' /\ (d # c => Running(d) /\ number'[d] # n)
    <3>1. CASE d = c
      BY <1>1, <1>2, <1>6, <2>1, <2>3, <3>1 DEF RunningInv, MaySearch, Open, Correlation
    <3>2. CASE d # c
      <4>1. Running(d) /\ call'[d] = call[d] /\ number'[d] = number[d]
        BY <1>2, <2>3, <2>4, <3>2 DEF Running
      <4> QED
        BY <1>1, <1>9, <2>1, <3>2, <4>1 DEF RunningInv, MaySearch, Open, Correlation
    <3> QED
      BY <3>1, <3>2
  <2>5. \A d1, d2 \in Calls : Running(d1)' /\ Running(d2)' /\ number'[d1] = number'[d2] => d1 = d2
    BY <1>0, <2>3, <2>4 DEF CallsInv
  <2>6. \A d \in Calls : Running(d)' /\ LaneOf[d] # Main => call'[d].ask.scope = Fixed[LaneOf[d]]
    BY <1>0, <1>1, <1>2, <2>4 DEF CallsInv
  <2>7. CallsInv'
    BY <1>2, <2>3, <2>4, <2>5, <2>6 DEF CallsInv
  <2> QED
    BY <1>6, <2>1, <2>2, <2>7 DEF EvidenceInv
<1>11. CASE call'[c].phase = "refused"
  <2>1. log' = Append(lg, r)
    BY <1>1, <1>6, <1>11, LogJoins DEF LogInv
  <2>2. /\ r.kind = "result" /\ r.n = n /\ r.corr = Correlation(c) /\ r.status = "error"
    BY <1>11 DEF ResultOf, Event
  <2>3. number'[c] = n /\ DOMAIN number' = Calls /\ \A d \in Calls : d # c => number'[d] = number[d]
    BY <1>0, <1>1 DEF CallsInv
  <2> HIDE DEF r, n
  <2>4. LogInv(log') /\ \A k : Pends(lg, k) /\ k # n => Pends(log', k)
    BY <1>6, <2>1, <2>2, AppendOther
  <2>5. ~Running(c)'
    BY <1>11 DEF Running
  <2>6. ASSUME NEW d \in Calls, Running(d)'
        PROVE  RunningInv(d)' /\ d # c /\ Running(d) /\ call'[d] = call[d] /\ number'[d] = number[d]
    <3>1. d # c /\ Running(d) /\ call'[d] = call[d] /\ number'[d] = number[d]
      BY <1>2, <2>3, <2>5, <2>6 DEF Running
    <3>2. Pends(log', number[d])
      BY <1>9, <2>4, <3>1
    <3>3. InvokedAs(log', number[d], Correlation(d), Platform[call[d].ask.scope])
      BY <1>6, <1>9, <2>1, <3>1, InvokedStays DEF LogInv
    <3> QED
      BY <1>1, <1>9, <3>1, <3>2, <3>3 DEF RunningInv, MaySearch, Open, Correlation
  <2>7. CallsInv'
    BY <1>0, <1>2, <2>3, <2>6 DEF CallsInv
  <2>8. \A l \in Lanes : r.corr = l => lane[l] = "open"
    BY <1>1, <2>2, CorrelationOpen
  <2>9. ASSUME NEW l \in Lanes
        PROVE  /\ lane[l] = "new" => \A k \in 1..Len(log') : log'[k].corr # l
               /\ lane[l] # "new" => LaneSeen(log', l)
               /\ lane[l] = "done" => reply[l] = LastOwn(log', l)
    <3>1. /\ Len(lg) \in Nat /\ Len(log') = Len(lg) + 1 /\ log'[Len(lg) + 1] = r
          /\ \A k \in 1..Len(lg) : log'[k] = lg[k]
      BY <1>6, <2>1, LogGrows DEF IsLog, LogInv
    <3>2. lane[l] = "new" => \A k \in 1..Len(log') : log'[k].corr # l
      BY <1>8, <2>8, <3>1
    <3>3. lane[l] # "new" => LaneSeen(log', l)
      BY <1>6, <1>8, <2>1, <2>2, LaneStays DEF LogInv
    <3>4. ~Own(r, l)
      BY <2>2 DEF Own
    <3> QED
      BY <1>6, <1>8, <2>1, <3>2, <3>3, <3>4, OwnStays DEF LogInv
  <2>10. LanesInv'
    BY <1>0, <1>1, <2>9 DEF LanesInv
  <2> QED
    BY <2>4, <2>7, <2>10 DEF EvidenceInv
<1> QED
  BY <1>2, <1>10, <1>11

LEMMA DispatchKeeps ==
    ASSUME EvidenceAssumption, EvidenceInv, NEW l \in Lanes, Dispatch(l)
    PROVE  EvidenceInv'
<1> DEFINE e == DispatchEvent("dispatch", l)
<1>0. CallsInv /\ LanesInv /\ LogInv(log) /\ IsLog(log)
  BY DEF EvidenceInv, LogInv
<1>1. /\ lane[l] = "new" /\ lane' = [lane EXCEPT ![l] = "open"] /\ log' = Append(log, e)
      /\ UNCHANGED <<reply, number, call>>
      /\ e.kind = "dispatch" /\ e.n = 0 /\ e.corr = l
  BY DEF Dispatch, DispatchEvent, Event, searchVars
<1> HIDE DEF e
<1>2. LogInv(log')
  BY <1>0, <1>1, AppendOther
<1>3. /\ Len(log) \in Nat /\ Len(log') = Len(log) + 1 /\ log'[Len(log) + 1] = e
      /\ \A i \in 1..Len(log) : log'[i] = log[i]
  BY <1>0, <1>1, LogGrows DEF IsLog
<1>4. lane' \in [Lanes -> {"new", "open", "done", "cut"}] /\ lane'[l] = "open"
      /\ \A k \in Lanes : k # l => lane'[k] = lane[k]
  BY <1>0, <1>1 DEF LanesInv
<1>5. LaneSeen(log', l)
  <2>1. \A i \in 1..Len(log) : log[i].corr # l
    BY <1>0, <1>1 DEF LanesInv
  <2>2. Len(log) + 1 \in Of(log', "dispatch") /\ log'[Len(log) + 1].corr = l
    BY <1>1, <1>3 DEF Of
  <2>3. \A i \in 1..Len(log') : log'[i].corr = l => i = Len(log) + 1
    BY <1>3, <2>1
  <2>4. Of(log', "dispatch") \subseteq 1..Len(log')
    BY DEF Of
  <2> QED
    BY <1>3, <2>2, <2>3, <2>4 DEF LaneSeen
<1>6. ASSUME NEW k \in Lanes
      PROVE  /\ lane'[k] = "new" => \A i \in 1..Len(log') : log'[i].corr # k
             /\ lane'[k] # "new" => LaneSeen(log', k)
             /\ lane'[k] = "done" => reply[k] = LastOwn(log', k)
  <2>1. CASE k = l
    BY <1>4, <1>5, <2>1
  <2>2. CASE k # l
    <3>1. lane'[k] = "new" => \A i \in 1..Len(log') : log'[i].corr # k
      BY <1>0, <1>1, <1>3, <1>4, <2>2 DEF LanesInv
    <3>2. lane'[k] # "new" => LaneSeen(log', k)
      BY <1>0, <1>1, <1>4, <2>2, LaneStays DEF LanesInv
    <3>3. ~Own(e, k)
      BY <1>1 DEF Own
    <3>4. lane'[k] = "done" => reply[k] = LastOwn(log', k)
      BY <1>0, <1>1, <1>4, <2>2, <3>3, OwnStays DEF LanesInv
    <3> QED
      BY <3>1, <3>2, <3>4
  <2> QED
    BY <2>1, <2>2
<1>7. LanesInv'
  BY <1>0, <1>1, <1>4, <1>6 DEF LanesInv
<1>8. ASSUME NEW d \in Calls, Running(d) PROVE RunningInv(d)'
  <2>1. RunningInv(d)
    BY <1>0, <1>8 DEF CallsInv
  <2>2. /\ Pends(Append(log, e), number[d])
        /\ InvokedAs(Append(log, e), number[d], Correlation(d), Platform[call[d].ask.scope])
    BY <1>1, <2>1, RunningStays
  <2>3. MaySearch(d)'
    BY <1>4, <2>1 DEF RunningInv, MaySearch, Open
  <2> QED
    BY <1>1, <2>2, <2>3 DEF RunningInv
<1>9. CallsInv'
  BY <1>0, <1>1, <1>8 DEF CallsInv, Running
<1> QED
  BY <1>2, <1>7, <1>9 DEF EvidenceInv

\* What the finished dispatch gives back is the last result of its own.
LEMMA LatestIsLastOwn ==
    ASSUME EvidenceInv, NEW l \in Lanes, lane[l] # "new"
    PROVE  LatestSearchResult(l) = LastOwn(log, l)
<1>1. IsLog(log) /\ LaneSeen(log, l)
  BY DEF EvidenceInv, LogInv, LanesInv
<1>2. PICK d \in Of(log, "dispatch") :
        /\ log[d].corr = l
        /\ \A i \in 1..Len(log) : log[i].corr = l => i >= d
        /\ \A i \in Of(log, "dispatch") : log[i].corr = l => i = d
  BY <1>1 DEF LaneSeen
<1>3. Since(l) = d
  <2>1. d \in 1..Len(log) /\ log[d].kind = "dispatch" /\ log[d].corr = l
    BY <1>2 DEF Of
  <2>2. Since(l) \in 1..Len(log) /\ log[Since(l)].kind = "dispatch" /\ log[Since(l)].corr = l
    BY <2>1 DEF Since
  <2> QED
    BY <1>2, <2>2 DEF Of
<1>4. {n \in Since(l)..Len(log) : Own(log[n], l)} = OwnIn(log, l)
  BY <1>1, <1>2, <1>3 DEF OwnIn, Own, Of, IsLog
<1> QED
  BY <1>4 DEF LatestSearchResult, LastOwn

LEMMA ConcludeKeeps ==
    ASSUME EvidenceAssumption, EvidenceInv, NEW l \in Lanes, Conclude(l)
    PROVE  EvidenceInv'
<1> DEFINE e == DispatchEvent("finished", l)
<1>0. CallsInv /\ LanesInv /\ LogInv(log) /\ IsLog(log)
  BY DEF EvidenceInv, LogInv
<1>1. /\ lane[l] = "open" /\ lane' = [lane EXCEPT ![l] = "done"] /\ log' = Append(log, e)
      /\ reply' = [reply EXCEPT ![l] = LatestSearchResult(l)]
      /\ \A c \in Calls : LaneOf[c] = l => ~Running(c)
      /\ UNCHANGED <<number, call>>
      /\ e.kind = "finished" /\ e.n = 0 /\ e.corr = l
  BY DEF Conclude, Idling, DispatchEvent, Event, searchVars
<1> HIDE DEF e
<1>2. LogInv(log')
  BY <1>0, <1>1, AppendOther
<1>3. /\ Len(log) \in Nat /\ Len(log') = Len(log) + 1 /\ log'[Len(log) + 1] = e
      /\ \A i \in 1..Len(log) : log'[i] = log[i]
  BY <1>0, <1>1, LogGrows DEF IsLog
<1>4. /\ lane' \in [Lanes -> {"new", "open", "done", "cut"}] /\ lane'[l] = "done"
      /\ DOMAIN reply' = Lanes /\ reply'[l] = LastOwn(log, l)
      /\ \A k \in Lanes : k # l => lane'[k] = lane[k] /\ reply'[k] = reply[k]
  BY <1>0, <1>1, LatestIsLastOwn DEF LanesInv
<1>6. ASSUME NEW k \in Lanes
      PROVE  /\ lane'[k] = "new" => \A i \in 1..Len(log') : log'[i].corr # k
             /\ lane'[k] # "new" => LaneSeen(log', k)
             /\ lane'[k] = "done" => reply'[k] = LastOwn(log', k)
  <2>1. lane'[k] = "new" => \A i \in 1..Len(log') : log'[i].corr # k
    BY <1>0, <1>1, <1>3, <1>4 DEF LanesInv
  <2>2. lane'[k] # "new" => lane[k] # "new"
    BY <1>1, <1>4
  <2>3. lane'[k] # "new" => LaneSeen(log', k)
    BY <1>0, <1>1, <2>2, LaneStays DEF LanesInv
  <2>4. ~Own(e, k)
    BY <1>1 DEF Own
  <2>5. lane'[k] = "done" => reply'[k] = LastOwn(log', k)
    BY <1>0, <1>1, <1>4, <2>4, OwnStays DEF LanesInv
  <2> QED
    BY <2>1, <2>3, <2>5
<1>7. LanesInv'
  BY <1>0, <1>1, <1>4, <1>6 DEF LanesInv
<1>8. ASSUME NEW d \in Calls, Running(d) PROVE RunningInv(d)'
  <2>1. RunningInv(d)
    BY <1>0, <1>8 DEF CallsInv
  <2>2. /\ Pends(Append(log, e), number[d])
        /\ InvokedAs(Append(log, e), number[d], Correlation(d), Platform[call[d].ask.scope])
    BY <1>1, <2>1, RunningStays
  <2>3. MaySearch(d)'
    BY <1>1, <1>4, <1>8, <2>1 DEF RunningInv, MaySearch, Open
  <2> QED
    BY <1>1, <2>2, <2>3 DEF RunningInv
<1>9. CallsInv'
  BY <1>0, <1>1, <1>8 DEF CallsInv, Running
<1> QED
  BY <1>2, <1>7, <1>9 DEF EvidenceInv

LEMMA CutKeeps ==
    ASSUME EvidenceAssumption, EvidenceInv, NEW l \in Lanes, Cut(l)
    PROVE  EvidenceInv'
<1>0. CallsInv /\ LanesInv /\ LogInv(log)
  BY DEF EvidenceInv
<1>1. /\ lane[l] = "open" /\ lane' = [lane EXCEPT ![l] = "cut"]
      /\ UNCHANGED <<log, reply, number>> /\ DOMAIN call' = Calls
      /\ \A c \in Calls : call'[c] = IF LaneOf[c] = l /\ Running(c)
                                THEN [call[c] EXCEPT !.phase = "failed", !.hurt = @ \cup {"timeout"}]
                                ELSE call[c]
  BY DEF Cut
<1>2. ASSUME NEW d \in Calls
      PROVE  /\ DOMAIN call'[d] = CallFields
             /\ Running(d)' => Running(d) /\ call'[d] = call[d] /\ LaneOf[d] # l
  <2>1. DOMAIN call[d] = CallFields
    BY <1>0 DEF CallsInv
  <2>2. CASE LaneOf[d] = l /\ Running(d)
    <3>1. call'[d] = [call[d] EXCEPT !.phase = "failed", !.hurt = @ \cup {"timeout"}]
      BY <1>1, <2>2
    <3>2. call'[d].phase = "failed" /\ DOMAIN call'[d] = CallFields
      BY <2>1, <3>1 DEF CallFields
    <3> QED
      BY <3>2 DEF Running
  <2>3. CASE ~(LaneOf[d] = l /\ Running(d))
    <3>1. call'[d] = call[d]
      BY <1>1, <2>3
    <3> QED
      BY <2>1, <2>3, <3>1 DEF Running
  <2> QED
    BY <2>2, <2>3
<1>3. LanesInv'
  <2>1. /\ lane' \in [Lanes -> {"new", "open", "done", "cut"}] /\ lane'[l] = "cut"
        /\ \A k \in Lanes : k # l => lane'[k] = lane[k]
    BY <1>0, <1>1 DEF LanesInv
  <2>2. ASSUME NEW k \in Lanes
        PROVE  /\ lane'[k] = "new" => \A i \in 1..Len(log) : log[i].corr # k
               /\ lane'[k] # "new" => LaneSeen(log, k)
               /\ lane'[k] = "done" => reply[k] = LastOwn(log, k)
    BY <1>0, <1>1, <2>1 DEF LanesInv
  <2> QED
    BY <1>0, <1>1, <2>1, <2>2 DEF LanesInv
<1>4. ASSUME NEW d \in Calls, Running(d)' PROVE RunningInv(d)'
  <2>1. Running(d) /\ call'[d] = call[d] /\ LaneOf[d] # l /\ RunningInv(d)
    BY <1>0, <1>2, <1>4 DEF CallsInv
  <2>2. MaySearch(d)'
    BY <1>0, <1>1, <2>1 DEF RunningInv, MaySearch, Open, LanesInv
  <2> QED
    BY <1>1, <2>1, <2>2 DEF RunningInv
<1>5. CallsInv'
  BY <1>0, <1>1, <1>2, <1>4 DEF CallsInv
<1> QED
  BY <1>0, <1>1, <1>3, <1>5 DEF EvidenceInv

\* One step of the turn, or the server's start.
EvidenceStep ==
    \/ EvidenceNext
    \/ \E products \in SUBSET Products, indexed \in [Scopes -> SUBSET Products] :
          ServerStarts(products, indexed)

LEMMA EvidenceKept ==
    EvidenceAssumption /\ EvidenceInv /\ [EvidenceStep]_evidenceVars => EvidenceInv'
<1> SUFFICES ASSUME EvidenceAssumption, EvidenceInv, [EvidenceStep]_evidenceVars PROVE EvidenceInv'
  OBVIOUS
<1>1. ASSUME UNCHANGED <<log, lane, reply, number, call>> PROVE EvidenceInv'
  <2>1. LogInv(log)' /\ LanesInv'
    BY <1>1 DEF EvidenceInv, LanesInv
  <2>2. CallsInv'
    BY <1>1 DEF EvidenceInv, CallsInv, Running, RunningInv, MaySearch, Open
  <2> QED
    BY <2>1, <2>2 DEF EvidenceInv
<1>2. CASE UNCHANGED evidenceVars
  BY <1>1, <1>2 DEF evidenceVars, searchVars
<1>3. ASSUME NEW products, NEW indexed, ServerStarts(products, indexed) PROVE EvidenceInv'
  BY <1>1, <1>3 DEF ServerStarts, StartUp
<1>4. CASE EvidenceNext
  BY <1>4, ProceedKeeps, ShortCircuitKeeps, SearchKeeps, DispatchKeeps, ConcludeKeeps, CutKeeps DEF EvidenceNext
<1> QED
  BY <1>2, <1>3, <1>4 DEF EvidenceStep

\* The invariant is kept by every step of a turn.
THEOREM EvidenceInvariant == EvidenceSpec => []EvidenceInv
<1>1. EvidenceInv /\ [EvidenceStep]_evidenceVars => EvidenceInv'
  BY EvidenceAssumption, EvidenceKept
<1> QED
  BY EvidenceStarts, <1>1, PTL DEF EvidenceSpec, EvidenceStep

LEMMA FirstIsFirst ==
    ASSUME NEW S \in SUBSET Nat, NEW i \in S, \A j \in S : j = i
    PROVE  Earliest(S) = i
<1>1. \A j \in S : i <= j
  OBVIOUS
<1> QED
  BY <1>1 DEF Earliest

\* The last result of the lane's own is the last of its searches that ended.
LEMMA LastOwnAnswers == EvidenceInv => DispatchAnswersItself
<1> SUFFICES ASSUME EvidenceInv, NEW l \in Lanes, lane[l] = "done",
             NEW mine, mine = {n \in 1..Searches : log[InvokeAt(n)].corr = l /\ EndedOk(n)}
             PROVE  IF mine = {} THEN reply[l] = 0
                    ELSE /\ reply[l] \in mine
                         /\ \A n \in mine : Earliest(EndsOf(n)) <= Earliest(EndsOf(reply[l]))
  BY DEF DispatchAnswersItself
<1>0. LogInv(log) /\ IsLog(log) /\ Len(log) \in Nat /\ reply[l] = LastOwn(log, l) /\ Searches = Begun(log)
  BY DEF EvidenceInv, LogInv, LanesInv, IsLog, Searches, Begun, Of
<1>1. ASSUME NEW i \in Of(log, "invoke") PROVE InvokeAt(log[i].n) = i
  <2>1. i \in 1..Len(log) /\ log[i].kind = "invoke"
    BY DEF Of
  <2>2. InvokeAt(log[i].n) \in Of(log, "invoke") /\ log[InvokeAt(log[i].n)].n = log[i].n
    BY <2>1 DEF InvokeAt, Of
  <2> QED
    BY <1>0, <2>2 DEF LogInv
<1>2. ASSUME NEW i \in OwnIn(log, l)
      PROVE  i \in EndsOf(log[i].n) /\ log[i].n \in mine /\ Earliest(EndsOf(log[i].n)) = i
  <2>1. /\ i \in 1..Len(log) /\ i \in Of(log, "result") /\ log[i].status = "ok" /\ log[i].corr = l
    BY DEF OwnIn, Own, Of
  <2>2. log[i].n > 0 /\ log[i].n \in 1..Begun(log)
    BY <1>0, <2>1, BegunIsNat DEF LogInv
  <2>3. PICK j \in Of(log, "invoke") : log[j].n = log[i].n /\ log[i].corr = log[j].corr
    BY <1>0, <2>1, <2>2 DEF LogInv
  <2>4. log[InvokeAt(log[i].n)].corr = l
    BY <1>1, <2>1, <2>3
  <2>5. i \in EndsOf(log[i].n) /\ EndedOk(log[i].n)
    BY <2>1 DEF EndsOf, EndedOk, Of
  <2>6. \A k \in EndsOf(log[i].n) : k = i
    BY <1>0, <2>1, <2>2 DEF LogInv, EndsOf, Of
  <2>7. EndsOf(log[i].n) \in SUBSET Nat
    BY DEF EndsOf
  <2>8. Earliest(EndsOf(log[i].n)) = i
    BY <2>5, <2>6, <2>7, FirstIsFirst
  <2> QED
    BY <1>0, <2>2, <2>4, <2>5, <2>8
<1>3. ASSUME NEW n \in mine PROVE \E i \in OwnIn(log, l) : log[i].n = n
  <2>1. n \in 1..Begun(log) /\ log[InvokeAt(n)].corr = l
    BY <1>0
  <2>2. PICK i \in EndsOf(n) : log[i].status = "ok"
    BY DEF EndedOk
  <2>3. i \in Of(log, "result") /\ log[i].n = n /\ i \in 1..Len(log)
    BY <2>2 DEF EndsOf, Of
  <2>4. log[i].n > 0
    BY <2>1, <2>3
  <2>5. PICK j \in Of(log, "invoke") : /\ log[j].n = n /\ log[i].corr = log[j].corr
                                       /\ log[i].platform = log[j].platform
    BY <1>0, <2>2, <2>3, <2>4 DEF LogInv
  <2>6. log[j].corr = l
    BY <1>1, <2>1, <2>5
  <2>7. log[j].platform = Platform[Fixed[l]]
    BY <1>0, <2>5, <2>6 DEF LogInv
  <2> QED
    BY <2>2, <2>3, <2>5, <2>6, <2>7 DEF OwnIn, Own, Of
<1>4. CASE mine = {}
  <2>1. OwnIn(log, l) = {}
    BY <1>2, <1>4
  <2> QED
    BY <1>0, <1>4, <2>1 DEF LastOwn
<1>5. CASE mine # {}
  <2>1. OwnIn(log, l) # {} /\ OwnIn(log, l) \in SUBSET (0..Len(log))
    BY <1>3, <1>5 DEF OwnIn
  <2>2. PICK last \in OwnIn(log, l) : last = LastOf(OwnIn(log, l)) /\ \A y \in OwnIn(log, l) : y <= last
    BY <1>0, <2>1, LastIsLast
  <2>3. reply[l] = log[last].n
    BY <1>0, <2>1, <2>2 DEF LastOwn
  <2>4. ASSUME NEW n \in mine PROVE Earliest(EndsOf(n)) <= Earliest(EndsOf(reply[l]))
    <3>1. PICK i \in OwnIn(log, l) : log[i].n = n
      BY <1>3
    <3> QED
      BY <1>2, <2>2, <2>3, <3>1
  <2> QED
    BY <1>2, <1>5, <2>2, <2>3, <2>4
<1> QED
  BY <1>4, <1>5

\* A finished dispatch answers with the last search its own SearchAgent
\* brought to an end.
THEOREM DispatchesAnswerThemselves == EvidenceSpec => []DispatchAnswersItself
BY EvidenceInvariant, LastOwnAnswers, PTL
=============================================================================
