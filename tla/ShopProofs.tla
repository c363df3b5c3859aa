----------------------------- MODULE ShopProofs -----------------------------
(***************************************************************************)
(* What the shop keeps: its orders and its catalogue.                      *)
(*                                                                         *)
(* Order numbers, for every number of calls and processes and any number   *)
(* of failures, timeouts and restarts.                                     *)
(*                                                                         *)
(* The stock, for every number of calls in one process: a ledger of what   *)
(* the calls took and put back, and a placement of its own for every       *)
(* confirmed order and every saved cancellation.  Calls that follow each   *)
(* other keep the promise of the order book.                               *)
(*                                                                         *)
(* However many catalogues are built and however often the index builder   *)
(* is started, reset and killed, a published catalogue is never lost and   *)
(* no checkpoint runs ahead of its index.  Two arguments: a writer that    *)
(* dies after it has moved the old catalogue aside leaves a whole new one  *)
(* behind, which no later one touches; and what a builder writes replaces  *)
(* only documents of its own partition, whose rows it sends as the         *)
(* checkpoint has them, since an id tells its partition and a partition    *)
(* has it once.                                                            *)
(***************************************************************************)
EXTENDS Orders, ProductIndex, FiniteSetTheorems, SequenceTheorems, WellFoundedInduction, TLAPS

----------------------------------------------------------------------------
(* Sums over finite sets: what MapThenSumSet() gives, whichever element it *)
(* chooses first.                                                          *)

\* A least set among subsets of a finite set.
LEMMA LeastSet ==
    ASSUME NEW S, IsFiniteSet(S), NEW T \in SUBSET SUBSET S, T # {}
    PROVE  \E s \in T : \A r \in T : r \subseteq s => r = s
<1>1. IsWellFoundedOn(StrictSubsetOrdering(S), FiniteSubsetsOf(S))
  BY FS_StrictSubsetOrderingWellFounded
<1>2. T \subseteq FiniteSubsetsOf(S)
  BY FS_Subset DEF FiniteSubsetsOf
<1>3. \E s \in T : \A r \in T : ~(<<r, s>> \in StrictSubsetOrdering(S))
  <2>1. \A Q, N, U : IsWellFoundedOn(Q, N) /\ U \subseteq N /\ U # {} =>
                        \E x \in U : \A y \in U : ~(<<y, x>> \in Q)
    BY ONLY WFMin
  <2> QED
    BY ONLY <1>1, <1>2, <2>1, T # {}
<1>4. PICK s \in T : \A r \in T : ~(<<r, s>> \in StrictSubsetOrdering(S))
  BY <1>3
<1>5. ASSUME NEW r \in T, r \subseteq s PROVE r = s
  BY <1>4, <1>5 DEF StrictSubsetOrdering
<1>6. QED
  BY <1>5

\* One step of a sum, and a function that takes these steps on every subset.
Adding(w, g, s) ==
    IF s = {} THEN 0 ELSE w[CHOOSE x \in s : TRUE] + g[s \ {CHOOSE x \in s : TRUE}]

Adds(w, g) == g = [s \in SUBSET DOMAIN w |-> Adding(w, g, s)]

\* The sum of the values of a function.
SumOf(w) == MapThenSumSet(LAMBDA i : w[i], DOMAIN w)

LEMMA SumIs == ASSUME NEW w PROVE SumOf(w) = (CHOOSE g : Adds(w, g))[DOMAIN w]
  BY DEF SumOf, MapThenSumSet, MapThenFoldSet, Adds, Adding

LEMMA OneLess ==
    ASSUME NEW S, IsFiniteSet(S), NEW s \in SUBSET S, NEW x \in s
    PROVE  /\ s \ {x} \in SUBSET S
           /\ Cardinality(s \ {x}) = Cardinality(s) - 1
           /\ Cardinality(s) \in Nat /\ Cardinality(s) # 0
<1>1. IsFiniteSet(s)
  BY FS_Subset
<1>2. Cardinality(s) \in Nat /\ Cardinality(s \ {x}) = Cardinality(s) - 1
  BY <1>1, FS_CardinalityType, FS_RemoveElement
<1>3. Cardinality(s) # 0
  BY <1>1, FS_EmptySet
<1>4. QED
  BY <1>2, <1>3

\* There is such a function: taking the steps n times is enough for the
\* subsets of at most n elements.
LEMMA AddsExists ==
    ASSUME NEW D, IsFiniteSet(D), NEW w \in [D -> Int]
    PROVE  \E g \in [SUBSET D -> Int] : Adds(w, g)
<1> DEFINE Done(n) == \E g \in [SUBSET D -> Int] :
                         \A s \in SUBSET D : Cardinality(s) <= n => g[s] = Adding(w, g, s)
           Bad == {n \in Nat : ~Done(n)}
<1>0. \A s \in SUBSET D : s # {} => (CHOOSE x \in s : TRUE) \in s
  OBVIOUS
<1>1. Done(0)
  <2> DEFINE g == [s \in SUBSET D |-> 0]
  <2>1. ASSUME NEW s \in SUBSET D, Cardinality(s) <= 0 PROVE s = {}
    <3>1. \A x \in s : Cardinality(s) \in Nat /\ Cardinality(s) # 0
      BY OneLess
    <3>2. QED
      BY <2>1, <3>1
  <2>2. \A s \in SUBSET D : Cardinality(s) <= 0 => g[s] = Adding(w, g, s)
    BY <2>1 DEF Adding
  <2>3. g \in [SUBSET D -> Int]
    OBVIOUS
  <2>4. QED
    BY <2>2, <2>3
<1>2. ASSUME NEW n \in Nat, Done(n) PROVE Done(n + 1)
  <2>1. PICK g \in [SUBSET D -> Int] :
            \A s \in SUBSET D : Cardinality(s) <= n => g[s] = Adding(w, g, s)
    BY <1>2
  <2> DEFINE h == [s \in SUBSET D |-> Adding(w, g, s)]
  <2>2. \A s \in SUBSET D : Adding(w, g, s) \in Int
    BY <1>0 DEF Adding
  <2>3. h \in [SUBSET D -> Int]
    BY <2>2
  <2>4. ASSUME NEW s \in SUBSET D, Cardinality(s) <= n + 1 PROVE h[s] = Adding(w, h, s)
    <3>1. CASE s = {}
      BY <3>1 DEF Adding
    <3>2. CASE s # {}
      <4> DEFINE r == s \ {CHOOSE x \in s : TRUE}
      <4>1. r \in SUBSET D /\ Cardinality(r) <= n
        <5>1. PICK x \in s : x = CHOOSE y \in s : TRUE
          BY <3>2
        <5>2. r = s \ {x}
          BY <5>1
        <5>3. Cardinality(s \ {x}) = Cardinality(s) - 1 /\ Cardinality(s) \in Nat
          BY OneLess
        <5>4. Cardinality(r) = Cardinality(s) - 1
          BY <5>2, <5>3
        <5> HIDE DEF r
        <5>5. Cardinality(r) <= n
          BY <2>4, <5>3, <5>4
        <5>6. QED
          BY <5>5 DEF r
      <4>2. g[r] = Adding(w, g, r)
        BY <2>1, <4>1
      <4>3. h[r] = g[r]
        BY <4>1, <4>2
      <4> HIDE DEF h
      <4>4. Adding(w, g, s) = Adding(w, h, s)
        BY <4>3 DEF Adding
      <4>5. QED
        BY <4>4 DEF h
    <3>3. QED
      BY <3>1, <3>2
  <2> HIDE DEF h
  <2>5. QED
    BY <2>3, <2>4
<1> HIDE DEF Done
<1>3. \A n \in Nat : Done(n)
  <2>1. SUFFICES ASSUME Bad # {} PROVE FALSE
    OBVIOUS
  <2>2. PICK n \in Bad : \A m \in Bad : ~(<<m, n>> \in OpToRel(<, Nat))
    <3>1. \A Q, N, U : IsWellFoundedOn(Q, N) /\ U \subseteq N /\ U # {} =>
                          \E x \in U : \A y \in U : ~(<<y, x>> \in Q)
      BY ONLY WFMin
    <3>2. Bad \subseteq Nat
      OBVIOUS
    <3> HIDE DEF Bad
    <3>3. QED
      BY <2>1, <3>1, <3>2, NatLessThanWellFounded
  <2>3. \A m \in Bad : ~(m < n)
    BY <2>2 DEF OpToRel
  <2>4. n # 0 /\ n - 1 \in Nat
    BY <1>1
  <2>5. Done(n - 1)
    BY <2>3, <2>4
  <2>6. Done(n)
    BY <1>2, <2>4, <2>5
  <2>7. QED
    BY <2>6
<1>4. Cardinality(D) \in Nat /\ \A s \in SUBSET D : Cardinality(s) <= Cardinality(D)
  BY FS_CardinalityType, FS_Subset
<1>5. PICK g \in [SUBSET D -> Int] :
          \A s \in SUBSET D : Cardinality(s) <= Cardinality(D) => g[s] = Adding(w, g, s)
  BY <1>3, <1>4 DEF Done
<1>6. g = [s \in SUBSET D |-> Adding(w, g, s)]
  BY <1>4, <1>5
<1>7. QED
  BY <1>6 DEF Adds

\* Whichever element is taken first, the sum is the same.
InAnyOrder(D, w, g) ==
    /\ g[{}] = 0
    /\ \A s \in SUBSET D : \A x \in s : g[s] = w[x] + g[s \ {x}]

LEMMA AddsAny ==
    ASSUME NEW D, IsFiniteSet(D), NEW w \in [D -> Int], NEW g \in [SUBSET D -> Int], Adds(w, g)
    PROVE  InAnyOrder(D, w, g)
<1> DEFINE Bad == {s \in SUBSET D : \E x \in s : g[s] # w[x] + g[s \ {x}]}
<1>1. \A s \in SUBSET D : g[s] = Adding(w, g, s)
  BY DEF Adds
<1>2. g[{}] = 0
  BY <1>1 DEF Adding
<1>3. Bad = {}
  <2>1. SUFFICES ASSUME Bad # {} PROVE FALSE
    OBVIOUS
  <2>2. PICK s \in Bad : \A r \in Bad : r \subseteq s => r = s
    <3>1. Bad \in SUBSET SUBSET D
      OBVIOUS
    <3> HIDE DEF Bad
    <3>2. QED
      BY <2>1, <3>1, LeastSet
  <2>3. PICK x \in s : g[s] # w[x] + g[s \ {x}]
    OBVIOUS
  <2>4. PICK c \in s : c = CHOOSE y \in s : TRUE
    BY <2>3
  <2>5. g[s] = w[c] + g[s \ {c}]
    BY <1>1, <2>3, <2>4 DEF Adding
  <2>6. c # x /\ c \in s \ {x} /\ x \in s \ {c}
    BY <2>3, <2>5
  <2>7. s \ {c} \in SUBSET D /\ s \ {c} \notin Bad /\ s \ {x} \in SUBSET D /\ s \ {x} \notin Bad
    <3>1. s \ {c} # s /\ s \ {x} # s /\ s \ {c} \subseteq s /\ s \ {x} \subseteq s
      BY <2>6
    <3> HIDE DEF Bad
    <3>2. s \ {c} \notin Bad /\ s \ {x} \notin Bad
      BY <2>2, <3>1
    <3>3. s \in SUBSET D
      BY DEF Bad
    <3>4. QED
      BY <3>2, <3>3
  <2>8. g[s \ {c}] = w[x] + g[(s \ {c}) \ {x}] /\ g[s \ {x}] = w[c] + g[(s \ {x}) \ {c}]
    BY <2>6, <2>7
  <2>9. (s \ {c}) \ {x} = (s \ {x}) \ {c} /\ (s \ {c}) \ {x} \in SUBSET D
    OBVIOUS
  <2>10. g[s \ {c}] \in Int /\ g[s \ {x}] \in Int /\ g[(s \ {c}) \ {x}] \in Int /\ w[x] \in Int /\ w[c] \in Int
    BY <2>7, <2>9
  <2>11. g[s] = w[x] + g[s \ {x}]
    <3>1. \A a, b, e \in Int : a + (b + e) = b + (a + e)
      OBVIOUS
    <3>2. g[s] = w[c] + (w[x] + g[(s \ {c}) \ {x}])
      BY <2>5, <2>8
    <3>3. w[x] + g[s \ {x}] = w[x] + (w[c] + g[(s \ {c}) \ {x}])
      BY <2>8, <2>9
    <3>4. QED
      BY <2>10, <3>1, <3>2, <3>3
  <2>12. QED
    BY <2>3, <2>11
<1>4. QED
  BY <1>2, <1>3 DEF InAnyOrder

\* Sums of functions that agree on a set agree on it.
LEMMA SumsAgree ==
    ASSUME NEW D, NEW w, NEW g, InAnyOrder(D, w, g), NEW E \in SUBSET D, IsFiniteSet(E),
           NEW v, NEW h, InAnyOrder(E, v, h), \A x \in E : w[x] = v[x]
    PROVE  g[E] = h[E]
<1> DEFINE Bad == {s \in SUBSET E : g[s] # h[s]}
<1>1. SUFFICES ASSUME Bad # {} PROVE FALSE
  OBVIOUS
<1>2. PICK s \in Bad : \A r \in Bad : r \subseteq s => r = s
  <2>1. Bad \in SUBSET SUBSET E
    OBVIOUS
  <2> HIDE DEF Bad
  <2>2. QED
    BY <1>1, <2>1, LeastSet
<1>3. s \in SUBSET D /\ s \in SUBSET E /\ g[s] # h[s]
  OBVIOUS
<1>4. PICK x \in s : TRUE
  BY <1>3 DEF InAnyOrder
<1>5. g[s \ {x}] = h[s \ {x}]
  <2>1. s \ {x} \subseteq s /\ s \ {x} # s /\ s \ {x} \in SUBSET E
    OBVIOUS
  <2>2. s \ {x} \notin Bad
    BY <1>2, <2>1
  <2>3. QED
    BY <2>1, <2>2
<1>6. g[s] = w[x] + g[s \ {x}] /\ h[s] = v[x] + h[s \ {x}] /\ w[x] = v[x]
  BY <1>3 DEF InAnyOrder
<1>7. QED
  BY <1>3, <1>5, <1>6

\* A sum over a finite set, by way of one function on its subsets.
SumsUp(D, w, g) ==
    /\ g \in [SUBSET D -> Int]
    /\ InAnyOrder(D, w, g)
    /\ g[D] = SumOf(w)
    /\ \A s \in SUBSET D : g[s] = SumOf([x \in s |-> w[x]])

LEMMA SumFinds ==
    ASSUME NEW D, IsFiniteSet(D), NEW w \in [D -> Int]
    PROVE  \E g : SumsUp(D, w, g)
<1>1. ASSUME NEW E, IsFiniteSet(E), NEW v \in [E -> Int]
      PROVE  \E h \in [SUBSET E -> Int] : Adds(v, h) /\ h[E] = SumOf(v)
  <2> DEFINE h == CHOOSE g : Adds(v, g)
  <2>1. Adds(v, h)
    BY <1>1, AddsExists
  <2>2. PICK g \in [SUBSET E -> Int] : Adds(v, g)
    BY <1>1, AddsExists
  <2>3. h[E] = SumOf(v)
    BY <1>1, SumIs
  <2> HIDE DEF h
  <2>4. h = [s \in SUBSET E |-> Adding(v, h, s)]
    BY <2>1 DEF Adds
  <2>5. h \in [SUBSET E -> Int]
    <3> DEFINE Bad == {s \in SUBSET E : h[s] \notin Int}
    <3>1. SUFFICES ASSUME Bad # {} PROVE FALSE
      BY <2>4
    <3>2. PICK s \in Bad : \A r \in Bad : r \subseteq s => r = s
      <4>1. Bad \in SUBSET SUBSET E
        OBVIOUS
      <4> HIDE DEF Bad
      <4>2. QED
        BY <1>1, <3>1, <4>1, LeastSet
    <3>3. h[s] = Adding(v, h, s)
      BY <2>4
    <3>4. s # {}
      BY <3>3 DEF Adding
    <3>5. PICK x \in s : x = CHOOSE y \in s : TRUE
      BY <3>4
    <3>6. s \ {x} \in SUBSET E /\ s \ {x} # s
      OBVIOUS
    <3>7. h[s \ {x}] \in Int
      BY <3>2, <3>6
    <3>8. h[s] = v[x] + h[s \ {x}]
      BY <3>3, <3>4, <3>5 DEF Adding
    <3>9. QED
      BY <3>7, <3>8
  <2>6. QED
    BY <2>1, <2>3, <2>5
<1>2. PICK g \in [SUBSET D -> Int] : Adds(w, g) /\ g[D] = SumOf(w)
  BY <1>1
<1>3. ASSUME NEW s \in SUBSET D PROVE g[s] = SumOf([x \in s |-> w[x]])
  <2> DEFINE v == [x \in s |-> w[x]]
  <2>1. IsFiniteSet(s) /\ v \in [s -> Int] /\ \A x \in s : w[x] = v[x]
    BY FS_Subset
  <2> HIDE DEF v
  <2>2. PICK h \in [SUBSET s -> Int] : Adds(v, h) /\ h[s] = SumOf(v)
    BY <1>1, <2>1
  <2>3. g[s] = h[s]
    <3>1. InAnyOrder(D, w, g)
      BY <1>2, AddsAny
    <3>2. InAnyOrder(s, v, h)
      BY <2>1, <2>2, AddsAny
    <3>3. QED
      BY <2>1, <3>1, <3>2, SumsAgree
  <2>4. QED
    BY <2>2, <2>3 DEF v
<1>4. InAnyOrder(D, w, g)
  BY <1>2, AddsAny
<1>5. QED
  BY <1>2, <1>3, <1>4 DEF SumsUp

\* A function that takes the steps of a sum gives it.
LEMMA SumAs ==
    ASSUME NEW D, IsFiniteSet(D), NEW w \in [D -> Int], NEW h, Adds(w, h)
    PROVE  h[D] = SumOf(w)
<1>1. ASSUME NEW v, Adds(w, v) PROVE v \in [SUBSET D -> Int]
  <2> DEFINE Bad == {s \in SUBSET D : v[s] \notin Int}
  <2>1. v = [s \in SUBSET D |-> Adding(w, v, s)]
    BY <1>1 DEF Adds
  <2>2. SUFFICES ASSUME Bad # {} PROVE FALSE
    BY <2>1
  <2>3. PICK s \in Bad : \A r \in Bad : r \subseteq s => r = s
    <3>1. Bad \in SUBSET SUBSET D
      OBVIOUS
    <3> HIDE DEF Bad
    <3>2. QED
      BY <2>2, <3>1, LeastSet
  <2>4. v[s] = Adding(w, v, s)
    BY <2>1
  <2>5. s # {}
    BY <2>4 DEF Adding
  <2>6. PICK x \in s : x = CHOOSE y \in s : TRUE
    BY <2>5
  <2>7. s \ {x} \in SUBSET D /\ s \ {x} # s
    OBVIOUS
  <2>8. v[s \ {x}] \in Int
    BY <2>3, <2>7
  <2>9. v[s] = w[x] + v[s \ {x}]
    BY <2>4, <2>5, <2>6 DEF Adding
  <2>10. QED
    BY <2>8, <2>9
<1> DEFINE g == CHOOSE v : Adds(w, v)
<1>2. Adds(w, g)
  OBVIOUS
<1>3. SumOf(w) = g[D]
  BY SumIs
<1> HIDE DEF g
<1>4. InAnyOrder(D, w, g) /\ InAnyOrder(D, w, h)
  BY <1>1, <1>2, AddsAny
<1>5. g[D] = h[D]
  BY <1>4, SumsAgree
<1>6. QED
  BY <1>3, <1>5

LEMMA SumInt ==
    ASSUME NEW D, IsFiniteSet(D), NEW w \in [D -> Int]
    PROVE  SumOf(w) \in Int
<1>1. PICK g : SumsUp(D, w, g)
  BY SumFinds
<1>2. QED
  BY <1>1 DEF SumsUp

LEMMA SumEmpty ==
    ASSUME NEW w \in [{} -> Int]
    PROVE  SumOf(w) = 0
<1>1. PICK g : SumsUp({}, w, g)
  BY FS_EmptySet, SumFinds
<1>2. QED
  BY <1>1 DEF SumsUp, InAnyOrder

\* A change of one value changes the sum by as much.
LEMMA SumChanges ==
    ASSUME NEW D, IsFiniteSet(D), NEW w \in [D -> Int], NEW v \in [D -> Int], NEW x \in D,
           \A y \in D : y # x => v[y] = w[y]
    PROVE  SumOf(v) = SumOf(w) + (v[x] - w[x])
<1> DEFINE r == [y \in D \ {x} |-> w[y]]
           q == [y \in D \ {x} |-> v[y]]
<1>1. r = q
  OBVIOUS
<1>2. ASSUME NEW u \in [D -> Int]
      PROVE  SumOf(u) = u[x] + SumOf([y \in D \ {x} |-> u[y]])
  <2>1. PICK g : SumsUp(D, u, g)
    BY SumFinds
  <2>2. D \in SUBSET D /\ D \ {x} \in SUBSET D
    OBVIOUS
  <2>3. g[D] = u[x] + g[D \ {x}]
    BY <2>1, <2>2 DEF SumsUp, InAnyOrder
  <2>4. g[D \ {x}] = SumOf([y \in D \ {x} |-> u[y]])
    BY <2>1, <2>2 DEF SumsUp
  <2>5. QED
    BY <2>1, <2>3, <2>4 DEF SumsUp
<1>3. SumOf(w) = w[x] + SumOf(r) /\ SumOf(v) = v[x] + SumOf(q)
  BY <1>2
<1>4. IsFiniteSet(D \ {x}) /\ r \in [D \ {x} -> Int]
  BY FS_Subset
<1> HIDE DEF r, q
<1>5. SumOf(r) \in Int /\ v[x] \in Int /\ w[x] \in Int
  BY <1>4, SumInt
<1>6. QED
  BY <1>1, <1>3, <1>5

\* Sums add up value by value.
LEMMA SumAdds ==
    ASSUME NEW D, IsFiniteSet(D), NEW w \in [D -> Int], NEW v \in [D -> Int],
           NEW u \in [D -> Int], \A x \in D : u[x] = w[x] + v[x]
    PROVE  SumOf(u) = SumOf(w) + SumOf(v)
<1>1. PICK g : SumsUp(D, w, g)
  BY SumFinds
<1>2. PICK h : SumsUp(D, v, h)
  BY SumFinds
<1>3. PICK k : SumsUp(D, u, k)
  BY SumFinds
<1> DEFINE Bad == {s \in SUBSET D : k[s] # g[s] + h[s]}
<1>4. Bad = {}
  <2>1. SUFFICES ASSUME Bad # {} PROVE FALSE
    OBVIOUS
  <2>2. PICK s \in Bad : \A r \in Bad : r \subseteq s => r = s
    <3>1. Bad \in SUBSET SUBSET D
      OBVIOUS
    <3> HIDE DEF Bad
    <3>2. QED
      BY <2>1, <3>1, LeastSet
  <2>3. s \in SUBSET D /\ k[s] # g[s] + h[s]
    OBVIOUS
  <2>4. k[{}] = 0 /\ g[{}] = 0 /\ h[{}] = 0
    BY <1>1, <1>2, <1>3 DEF SumsUp, InAnyOrder
  <2>5. s # {}
    <3>1. k[{}] = g[{}] + h[{}]
      BY <2>4
    <3>2. QED
      BY <2>3, <3>1
  <2>6. PICK x \in s : TRUE
    BY <2>5
  <2>7. s \ {x} \in SUBSET D /\ s \ {x} \subseteq s /\ s \ {x} # s
    OBVIOUS
  <2>8. k[s \ {x}] = g[s \ {x}] + h[s \ {x}]
    BY <2>2, <2>7
  <2>9. /\ k[s] = u[x] + k[s \ {x}]
        /\ g[s] = w[x] + g[s \ {x}] /\ h[s] = v[x] + h[s \ {x}]
    BY <1>1, <1>2, <1>3, <2>3 DEF SumsUp, InAnyOrder
  <2>10. u[x] = w[x] + v[x] /\ w[x] \in Int /\ v[x] \in Int
    BY <2>3
  <2>11. g[s \ {x}] \in Int /\ h[s \ {x}] \in Int
    BY <1>1, <1>2, <2>7 DEF SumsUp
  <2>12. \A a, b, c, d \in Int : (a + b) + (c + d) = (a + c) + (b + d)
    OBVIOUS
  <2>13. QED
    BY <2>3, <2>8, <2>9, <2>10, <2>11, <2>12
<1>5. D \in SUBSET D
  OBVIOUS
<1>6. k[D] = g[D] + h[D]
  BY <1>4, <1>5
<1>7. QED
  BY <1>1, <1>2, <1>3, <1>6 DEF SumsUp

\* The elements left out of a sum count as zero.
LEMMA SumWithin ==
    ASSUME NEW D, IsFiniteSet(D), NEW A \in SUBSET D, NEW w \in [A -> Int],
           NEW v \in [D -> Int], \A x \in D : v[x] = IF x \in A THEN w[x] ELSE 0
    PROVE  SumOf(w) = SumOf(v)
<1>1. PICK h : SumsUp(D, v, h)
  BY SumFinds
<1>2. h[A] = SumOf(w)
  <2>1. [x \in A |-> v[x]] = w
    OBVIOUS
  <2>2. QED
    BY <1>1, <2>1 DEF SumsUp
<1> DEFINE Bad == {s \in SUBSET D : A \subseteq s /\ h[s] # h[A]}
<1>3. Bad = {}
  <2>1. SUFFICES ASSUME Bad # {} PROVE FALSE
    OBVIOUS
  <2>2. PICK s \in Bad : \A r \in Bad : r \subseteq s => r = s
    <3>1. Bad \in SUBSET SUBSET D
      OBVIOUS
    <3> HIDE DEF Bad
    <3>2. QED
      BY <2>1, <3>1, LeastSet
  <2>3. s \in SUBSET D /\ A \subseteq s /\ h[s] # h[A]
    OBVIOUS
  <2>4. PICK x \in s : x \notin A
    BY <2>3
  <2>5. s \ {x} \in SUBSET D /\ s \ {x} # s /\ s \ {x} \subseteq s /\ A \subseteq s \ {x}
    BY <2>3, <2>4
  <2>6. h[s \ {x}] = h[A]
    BY <2>2, <2>5
  <2>7. h[s] = v[x] + h[s \ {x}] /\ v[x] = 0 /\ h[s \ {x}] \in Int
    BY <1>1, <2>3, <2>4, <2>5 DEF SumsUp, InAnyOrder
  <2>8. QED
    BY <2>3, <2>6, <2>7
<1>4. D \in SUBSET D
  OBVIOUS
<1>5. h[D] = h[A]
  BY <1>3, <1>4
<1>6. QED
  BY <1>1, <1>2, <1>5 DEF SumsUp

\* A sum of values that are not negative is no less than any part of it.
LEMMA SumPart ==
    ASSUME NEW D, IsFiniteSet(D), NEW w \in [D -> Nat], NEW A \in SUBSET D
    PROVE  0 <= SumOf([x \in A |-> w[x]]) /\ SumOf([x \in A |-> w[x]]) <= SumOf(w)
<1>1. PICK h : SumsUp(D, w, h)
  <2>1. w \in [D -> Int]
    OBVIOUS
  <2>2. QED
    BY <2>1, SumFinds
<1> DEFINE Bad == {s \in SUBSET D : ~(h[s] >= 0 /\ (A \subseteq s => h[A] <= h[s]))}
<1>2. Bad = {}
  <2>1. SUFFICES ASSUME Bad # {} PROVE FALSE
    OBVIOUS
  <2>2. PICK s \in Bad : \A r \in Bad : r \subseteq s => r = s
    <3>1. Bad \in SUBSET SUBSET D
      OBVIOUS
    <3> HIDE DEF Bad
    <3>2. QED
      BY <2>1, <3>1, LeastSet
  <2>3. s \in SUBSET D /\ h[s] \in Int /\ h[A] \in Int /\ h[{}] = 0
    BY <1>1 DEF SumsUp, InAnyOrder
  <2>4. PICK x \in s : A \subseteq s /\ A # s => x \notin A
    BY <2>3
  <2>5. s \ {x} \in SUBSET D /\ s \ {x} # s /\ s \ {x} \subseteq s
    OBVIOUS
  <2>6. h[s \ {x}] >= 0 /\ (A \subseteq s \ {x} => h[A] <= h[s \ {x}])
    BY <2>2, <2>5
  <2>7. h[s] = w[x] + h[s \ {x}] /\ w[x] \in Nat /\ h[s \ {x}] \in Int
    BY <1>1, <2>3, <2>5 DEF SumsUp, InAnyOrder
  <2>8. h[s] >= 0 /\ h[s \ {x}] <= h[s]
    BY <2>6, <2>7
  <2>9. A \subseteq s => h[A] <= h[s]
    <3>1. CASE A = s
      BY <2>3, <3>1
    <3>2. CASE A # s
      BY <2>3, <2>4, <2>6, <2>7, <2>8, <3>2
    <3>3. QED
      BY <3>1, <3>2
  <2>10. QED
    BY <2>8, <2>9
<1>3. A \in SUBSET D /\ D \in SUBSET D
  OBVIOUS
<1>4. h[A] >= 0 /\ h[A] <= h[D]
  BY <1>2, <1>3
<1>5. QED
  BY <1>1, <1>3, <1>4 DEF SumsUp

\* Values that are carried over one to one add up to the same.
LEMMA SumImage ==
    ASSUME NEW A, IsFiniteSet(A), NEW w \in [A -> Int],
           NEW D, IsFiniteSet(D), NEW v \in [D -> Int], NEW f \in [A -> D],
           \A a, b \in A : f[a] = f[b] => a = b, \A a \in A : w[a] = v[f[a]]
    PROVE  SumOf(w) = SumOf([y \in {f[a] : a \in A} |-> v[y]])
<1>1. PICK g : SumsUp(A, w, g)
  BY SumFinds
<1>2. PICK h : SumsUp(D, v, h)
  BY SumFinds
<1> DEFINE Im(s) == {f[a] : a \in s}
           Bad == {s \in SUBSET A : g[s] # h[Im(s)]}
<1>3. Bad = {}
  <2>1. SUFFICES ASSUME Bad # {} PROVE FALSE
    OBVIOUS
  <2>2. PICK s \in Bad : \A r \in Bad : r \subseteq s => r = s
    <3>1. Bad \in SUBSET SUBSET A
      OBVIOUS
    <3> HIDE DEF Bad
    <3>2. QED
      BY <2>1, <3>1, LeastSet
  <2>3. s \in SUBSET A /\ g[s] # h[Im(s)]
    OBVIOUS
  <2>4. g[{}] = 0 /\ h[{}] = 0 /\ Im({}) = {}
    BY <1>1, <1>2 DEF SumsUp, InAnyOrder
  <2>5. s # {}
    BY <2>3, <2>4
  <2>6. PICK x \in s : TRUE
    BY <2>5
  <2>7. s \ {x} \in SUBSET A /\ s \ {x} \subseteq s /\ s \ {x} # s
    OBVIOUS
  <2>8. g[s \ {x}] = h[Im(s \ {x})]
    BY <2>2, <2>7
  <2>9. Im(s) \in SUBSET D /\ f[x] \in Im(s) /\ Im(s \ {x}) = Im(s) \ {f[x]}
    OBVIOUS
  <2> HIDE DEF Im
  <2>10. g[s] = w[x] + g[s \ {x}] /\ h[Im(s)] = v[f[x]] + h[Im(s) \ {f[x]}]
    BY <1>1, <1>2, <2>3, <2>9 DEF SumsUp, InAnyOrder
  <2>11. QED
    BY <2>3, <2>8, <2>9, <2>10
<1>4. A \in SUBSET A /\ Im(A) \in SUBSET D
  OBVIOUS
<1>5. g[A] = h[Im(A)]
  BY <1>3, <1>4
<1> HIDE DEF Im
<1>6. h[Im(A)] = SumOf([y \in Im(A) |-> v[y]])
  BY <1>2, <1>4 DEF SumsUp
<1>7. QED
  BY <1>1, <1>5, <1>6 DEF SumsUp, Im

\* Two parts of a sum that share nothing are no more than the whole.
LEMMA SumParts ==
    ASSUME NEW D, IsFiniteSet(D), NEW w \in [D -> Nat],
           NEW A \in SUBSET D, NEW B \in SUBSET D, A \cap B = {}
    PROVE  /\ SumOf([x \in A |-> w[x]]) + SumOf([x \in B |-> w[x]]) <= SumOf(w)
           /\ SumOf([x \in A |-> w[x]]) \in Int /\ SumOf([x \in B |-> w[x]]) \in Int
<1> DEFINE wa == [x \in A |-> w[x]]
           wb == [x \in B |-> w[x]]
           a == [x \in D |-> IF x \in A THEN w[x] ELSE 0]
           b == [x \in D |-> IF x \in B THEN w[x] ELSE 0]
           u == [x \in D |-> a[x] + b[x]]
           r == [x \in D |-> w[x] - u[x]]
<1>1. w \in [D -> Int] /\ wa \in [A -> Int] /\ wb \in [B -> Int]
  OBVIOUS
<1>2. \A x \in D : /\ a[x] = IF x \in A THEN w[x] ELSE 0
                   /\ b[x] = IF x \in B THEN w[x] ELSE 0
  OBVIOUS
<1>3. \A x \in D : a[x] \in Nat /\ b[x] \in Nat /\ a[x] + b[x] <= w[x]
  OBVIOUS
<1>4. a \in [D -> Int] /\ b \in [D -> Int]
  OBVIOUS
<1>5. \A x \in A : a[x] = wa[x]
  OBVIOUS
<1>6. \A x \in B : b[x] = wb[x]
  OBVIOUS
<1>7. \A x \in D : u[x] = a[x] + b[x]
  OBVIOUS
<1> HIDE DEF a, b
<1>8. u \in [D -> Int]
  BY <1>3
<1>9. r \in [D -> Nat] /\ \A x \in D : w[x] = u[x] + r[x]
  <2>1. \A x \in D : r[x] = w[x] - u[x] /\ u[x] \in Nat /\ u[x] <= w[x] /\ w[x] \in Nat
    BY <1>3
  <2>2. DOMAIN r = D /\ r = [x \in D |-> r[x]]
    OBVIOUS
  <2> HIDE DEF r, u
  <2>3. \A x \in D : r[x] \in Nat /\ w[x] = u[x] + r[x]
    BY <2>1
  <2>4. QED
    BY <2>2, <2>3
<1>10. \A x \in D : a[x] = IF x \in A THEN wa[x] ELSE 0
  BY <1>2
<1>11. \A x \in D : b[x] = IF x \in B THEN wb[x] ELSE 0
  BY <1>2
<1>12. IsFiniteSet(A) /\ IsFiniteSet(B)
  BY FS_Subset
<1> HIDE DEF wa, wb, u, r
<1>13. SumOf(wa) = SumOf(a) /\ SumOf(wb) = SumOf(b)
  BY <1>1, <1>4, <1>10, <1>11, SumWithin
<1>14. SumOf(u) = SumOf(a) + SumOf(b)
  BY <1>4, <1>7, <1>8, SumAdds
<1>15. r \in [D -> Int]
  BY <1>9
<1>16. SumOf(w) = SumOf(u) + SumOf(r)
  BY <1>1, <1>8, <1>9, <1>15, SumAdds
<1>17. SumOf(r) >= 0
  <2>1. SumOf([x \in D |-> r[x]]) >= 0 /\ [x \in D |-> r[x]] = r
    BY <1>9, SumPart
  <2>2. QED
    BY <2>1
<1>18. SumOf(wa) \in Int /\ SumOf(wb) \in Int /\ SumOf(r) \in Int
  BY <1>1, <1>12, <1>15, SumInt
<1>19. QED
  BY <1>13, <1>14, <1>16, <1>17, <1>18 DEF wa, wb

----------------------------------------------------------------------------
(* Order numbers. *)

\* The part of the type invariant the argument about numbers needs.
RecordsOK ==
    /\ rows \in [Numbers -> Rows \cup {NoRow}]
    /\ place \in [ShopCalls -> {"idle"} \cup Underway \cup Ended]
    /\ oid \in [ShopCalls -> Nat]
    /\ mine \in [ShopCalls -> Rows \cup {NoRow}]
    /\ seen \in [ShopCalls -> Rows \cup {NoRow}]

\* There are finitely many placements, numbers and stored orders.
LEMMA FinitelyMany ==
    /\ IsFiniteSet(Placing) /\ Cardinality(Placing) \in Nat
    /\ IsFiniteSet(Stored) /\ Cardinality(Stored) \in Nat
    /\ IsFiniteSet(Finished) /\ Cardinality(Finished) \in Nat
    /\ IsFiniteSet(Stored') /\ Cardinality(Stored') \in Nat
    /\ IsFiniteSet(Finished') /\ Cardinality(Finished') \in Nat
<1>1. IsFiniteSet(Placing)
  BY OrdersAssumption, FS_Subset DEF ShopCalls
<1>2. Cardinality(Placing) \in Nat
  BY <1>1, FS_CardinalityType
<1>3. IsFiniteSet(Numbers)
  BY <1>2, FS_Interval DEF Numbers
<1>4. Stored \subseteq Numbers /\ Stored' \subseteq Numbers
  BY DEF Stored
<1>5. Finished \subseteq Placing /\ Finished' \subseteq Placing
  BY DEF Finished
<1>6. QED
  BY <1>1, <1>2, <1>3, <1>4, <1>5, FS_Subset, FS_CardinalityType

\* The call that draws a number has not finished, so there is a number left.
LEMMA NumberLeft ==
    ASSUME NumbersInv, NEW c \in Placing, place[c] \notin Ended
    PROVE  Cardinality(Stored) + 1 \in Numbers
<1>1. c \notin Finished /\ Finished \cup {c} \subseteq Placing
  BY DEF Finished
<1>2. Cardinality(Finished \cup {c}) = Cardinality(Finished) + 1
  BY <1>1, FinitelyMany, FS_AddElement
<1>3. Cardinality(Finished \cup {c}) <= Cardinality(Placing)
  BY <1>1, FinitelyMany, FS_Subset
<1>4. Cardinality(Stored) <= Cardinality(Finished)
  BY DEF NumbersInv
<1>5. QED
  BY <1>2, <1>3, <1>4, FinitelyMany DEF Numbers

\* What UPDATE leaves in the row is an order.
LEMMA MergedIsRow ==
    ASSUME RecordsOK, NEW c \in ShopCalls, mine[c] # NoRow, seen[c] # NoRow,
           oid[c] \in Stored
    PROVE  Rewritten(c) \in Rows
<1>1. mine[c] \in Rows /\ seen[c] \in Rows
  BY DEF RecordsOK
<1>2. rows[oid[c]] \in Rows
  BY DEF RecordsOK, Stored
<1>3. QED
  BY <1>1, <1>2 DEF Rewritten, Rows

\* A write stores the next number, for a placement, or no new one.
LEMMA WriteExtends ==
    ASSUME RecordsOK, NumbersInv, NEW c \in ShopCalls, place[c] = "commit", Write(c)
    PROVE  /\ rows' \in [Numbers -> Rows \cup {NoRow}]
           /\ Stored' = 1..Cardinality(Stored')
           /\ \/ Stored' = Stored
              \/ /\ c \in Placing
                 /\ Stored \subseteq Stored'
                 /\ Cardinality(Stored') = Cardinality(Stored) + 1
<1> DEFINE k == Cardinality(Stored)
<1>1. k \in Nat /\ Stored = 1..k /\ mine[c] \in Rows
  BY FinitelyMany DEF NumbersInv, NumbersDense, RecordsOK
<1>2. CASE seen[c] = NoRow /\ rows[oid[c]] = NoRow /\ rows' = [rows EXCEPT ![oid[c]] = mine[c]]
  <2>1. rows' \in [Numbers -> Rows \cup {NoRow}]
    BY <1>1, <1>2 DEF RecordsOK
  <2>2. oid[c] \notin Stored
    BY <1>2 DEF Stored
  <2>3. c \in Placing
    BY <2>2 DEF NumbersInv, ShopCalls
  <2>4. oid[c] \in Numbers /\ oid[c] <= k + 1
    BY <2>3 DEF NumbersInv
  <2>5. oid[c] = k + 1
    BY <1>1, <2>2, <2>4 DEF Numbers
  <2>6. Stored' = Stored \cup {oid[c]}
    BY <1>1, <1>2, <2>4, OrdersAssumption DEF Stored, RecordsOK
  <2>7. Stored' = 1..(k + 1)
    BY <1>1, <2>5, <2>6
  <2>8. Cardinality(Stored') = k + 1
    BY <1>1, <2>7, FS_Interval
  <2>9. QED
    BY <2>1, <2>3, <2>6, <2>7, <2>8
<1>3. CASE seen[c] # NoRow /\ rows' = [rows EXCEPT ![oid[c]] = Rewritten(c)]
  <2>1. mine[c] # NoRow
    BY DEF NumbersInv
  <2>2. oid[c] \in Stored
    BY <1>3 DEF NumbersInv
  <2>3. Rewritten(c) \in Rows
    BY <1>3, <2>1, <2>2, MergedIsRow
  <2>4. rows' \in [Numbers -> Rows \cup {NoRow}]
    BY <1>3, <2>3 DEF RecordsOK
  <2>5. Stored' = Stored
    BY <1>3, <2>2, <2>3, OrdersAssumption DEF Stored, RecordsOK
  <2>6. QED
    BY <1>1, <2>4, <2>5
<1>4. QED
  BY <1>2, <1>3 DEF Write

\* A write by a call that ends with it keeps the invariant.
LEMMA WriteStep ==
    ASSUME RecordsOK, NumbersInv, NEW c \in ShopCalls, NEW p \in Ended,
           place[c] = "commit", place' = [place EXCEPT ![c] = p], Write(c),
           UNCHANGED <<oid, mine, seen>>
    PROVE  RecordsOK' /\ NumbersInv'
<1>1. /\ rows' \in [Numbers -> Rows \cup {NoRow}]
      /\ Stored' = 1..Cardinality(Stored')
      /\ \/ Stored' = Stored
         \/ /\ c \in Placing
            /\ Stored \subseteq Stored'
            /\ Cardinality(Stored') = Cardinality(Stored) + 1
  BY WriteExtends
<1>2. RecordsOK'
  BY <1>1 DEF RecordsOK
<1>3. place'[c] = p /\ \A d \in ShopCalls : d # c => place'[d] = place[d]
  BY DEF RecordsOK
<1>4. Finished' = IF c \in Placing THEN Finished \cup {c} ELSE Finished
  BY <1>3 DEF Finished, ShopCalls
<1>5. Cardinality(Stored') <= Cardinality(Finished')
  <2>1. CASE c \in Placing
    <3>1. c \notin Finished
      BY DEF Finished, Ended
    <3>2. Cardinality(Finished') = Cardinality(Finished) + 1
      BY <1>4, <2>1, <3>1, FinitelyMany, FS_AddElement
    <3>3. QED
      BY <1>1, <3>2, FinitelyMany DEF NumbersInv
  <2>2. CASE c \notin Placing
    BY <1>1, <1>4, <2>2 DEF NumbersInv
  <2>3. QED
    BY <2>1, <2>2
<1>6. \A d \in ShopCalls : place'[d] \in Underway => d # c /\ place'[d] = place[d]
  BY <1>3 DEF Underway, Ended
<1>7. Stored \subseteq Stored' /\ Cardinality(Stored) <= Cardinality(Stored')
  BY <1>1, FinitelyMany
<1>8. \A d \in Placing : place'[d] \in {"look", "commit"} =>
        oid'[d] \in Numbers /\ oid'[d] <= Cardinality(Stored') + 1
  <2> SUFFICES ASSUME NEW d \in Placing, place'[d] \in {"look", "commit"}
               PROVE  oid[d] \in Numbers /\ oid[d] <= Cardinality(Stored') + 1
    OBVIOUS
  <2>1. oid[d] \in Numbers /\ oid[d] <= Cardinality(Stored) + 1
    BY <1>6 DEF NumbersInv, Underway, ShopCalls
  <2>2. oid[d] \in Nat
    BY DEF RecordsOK, ShopCalls
  <2>3. QED
    BY <1>7, <2>1, <2>2, FinitelyMany
<1>9. NumbersInv'
  BY <1>1, <1>5, <1>6, <1>7, <1>8 DEF NumbersInv, NumbersDense, Underway, ShopCalls
<1>10. QED
  BY <1>2, <1>9

\* A step that only moves calls to places at which they have ended.
LEMMA QuietStep ==
    ASSUME RecordsOK, NumbersInv, UNCHANGED <<rows, oid, mine, seen>>,
           place' \in [ShopCalls -> {"idle"} \cup Underway \cup Ended],
           \A c \in ShopCalls : place'[c] = place[c] \/ place'[c] \in Ended
    PROVE  RecordsOK' /\ NumbersInv'
<1>1. Stored' = Stored
  BY DEF Stored
<1>2. RecordsOK'
  BY DEF RecordsOK
<1>3. \A c \in ShopCalls : place'[c] \in Underway => place'[c] = place[c]
  BY DEF Underway, Ended
<1>4. Finished \subseteq Finished'
  BY DEF Finished, ShopCalls
<1>5. Cardinality(Finished) <= Cardinality(Finished')
  BY <1>4, FinitelyMany, FS_Subset
<1>6. Cardinality(Stored') <= Cardinality(Finished')
  BY <1>1, <1>5, FinitelyMany DEF NumbersInv
<1>7. NumbersInv'
  BY <1>1, <1>3, <1>6 DEF NumbersInv, NumbersDense, Underway, ShopCalls
<1>8. QED
  BY <1>2, <1>7

\* A step of one call that stores nothing and goes on to another await.
LEMMA OwnStep ==
    ASSUME RecordsOK, NumbersInv, NEW c \in ShopCalls, NEW p \in Underway,
           place[c] \notin Ended,
           place' = [place EXCEPT ![c] = p],
           UNCHANGED rows,
           oid' \in [ShopCalls -> Nat], mine' \in [ShopCalls -> Rows \cup {NoRow}],
           seen' \in [ShopCalls -> Rows \cup {NoRow}],
           \A d \in ShopCalls : d # c =>
             oid'[d] = oid[d] /\ mine'[d] = mine[d] /\ seen'[d] = seen[d],
           c \in Placing /\ p \in {"look", "commit"} =>
             oid'[c] \in Numbers /\ oid'[c] <= Cardinality(Stored) + 1,
           c \in Cancelling /\ p \in {"find", "lines", "found"} => oid'[c] \in Numbers,
           c \in Cancelling
             /\ (p \in {"look", "commit"} \/ (p \in {"lines", "found"} /\ mine'[c] # NoRow)) =>
             oid'[c] \in Stored,
           p = "commit" /\ seen'[c] # NoRow => oid'[c] \in Stored,
           p \in {"draw", "lines", "look", "commit"} => mine'[c] # NoRow
    PROVE  RecordsOK' /\ NumbersInv'
<1>1. Stored' = Stored
  BY DEF Stored
<1>2. RecordsOK'
  BY DEF RecordsOK
<1>3. place'[c] = p /\ \A d \in ShopCalls : d # c => place'[d] = place[d]
  BY DEF RecordsOK
<1>4. Finished' = Finished
  BY <1>3 DEF Finished, ShopCalls, Underway, Ended
<1>5. \A d \in ShopCalls :
        /\ d \in Placing /\ place'[d] \in {"look", "commit"} =>
             oid'[d] \in Numbers /\ oid'[d] <= Cardinality(Stored) + 1
        /\ d \in Cancelling /\ place'[d] \in {"find", "lines", "found"} => oid'[d] \in Numbers
        /\ d \in Cancelling /\ (\/ place'[d] \in {"look", "commit"}
                                \/ (place'[d] \in {"lines", "found"} /\ mine'[d] # NoRow))
             => oid'[d] \in Stored
        /\ place'[d] = "commit" /\ seen'[d] # NoRow => oid'[d] \in Stored
        /\ place'[d] \in {"draw", "lines", "look", "commit"} => mine'[d] # NoRow
  <2> SUFFICES ASSUME NEW d \in ShopCalls
               PROVE  /\ d \in Placing /\ place'[d] \in {"look", "commit"} =>
                           oid'[d] \in Numbers /\ oid'[d] <= Cardinality(Stored) + 1
                      /\ d \in Cancelling /\ place'[d] \in {"find", "lines", "found"} =>
                           oid'[d] \in Numbers
                      /\ d \in Cancelling /\ (\/ place'[d] \in {"look", "commit"}
                                              \/ (place'[d] \in {"lines", "found"} /\ mine'[d] # NoRow))
                           => oid'[d] \in Stored
                      /\ place'[d] = "commit" /\ seen'[d] # NoRow => oid'[d] \in Stored
                      /\ place'[d] \in {"draw", "lines", "look", "commit"} => mine'[d] # NoRow
    OBVIOUS
  <2>1. CASE d = c
    BY <1>3, <2>1
  <2>2. CASE d # c
    BY <1>3, <2>2 DEF NumbersInv
  <2>3. QED
    BY <2>1, <2>2
<1>6. NumbersInv'
  BY <1>1, <1>4, <1>5 DEF NumbersInv, NumbersDense, ShopCalls
<1>7. QED
  BY <1>2, <1>6

\* Every step keeps the invariant.
LEMMA NumbersStep ==
    ASSUME RecordsOK, NumbersInv, [OrdersNext]_vars
    PROVE  RecordsOK' /\ NumbersInv'
<1>1. Placing \subseteq ShopCalls /\ Cancelling \subseteq ShopCalls
  BY DEF ShopCalls
<1>2. CASE UNCHANGED vars
  BY <1>2, QuietStep DEF vars, callVars, RecordsOK
<1>3. ASSUME NEW c \in ShopCalls, NEW p \in Ended, place' = [place EXCEPT ![c] = p],
             UNCHANGED <<rows, oid, mine, seen>>
      PROVE  RecordsOK' /\ NumbersInv'
  BY <1>3, QuietStep DEF RecordsOK
<1>4. ASSUME NEW c \in Placing, NEW p \in Procs, NEW cart \in Carts,
             PlaceBegin(c, p, cart) \/ PlaceRefused(c, p, cart)
      PROVE  RecordsOK' /\ NumbersInv'
  <2>1. CASE PlaceBegin(c, p, cart)
    <3>1. [buyer |-> BuyerOf[c], lines |-> cart, status |-> "CONFIRMED"] \in Rows
      BY <1>1 DEF Rows
    <3>2. /\ mine' \in [ShopCalls -> Rows \cup {NoRow}] /\ mine'[c] \in Rows
          /\ \A d \in ShopCalls : d # c => mine'[d] = mine[d]
          /\ UNCHANGED <<rows, oid, seen>>
      BY <1>1, <2>1, <3>1 DEF PlaceBegin, RecordsOK
    <3>3. place[c] = "idle" /\ place' = [place EXCEPT ![c] = "draw"]
      BY <2>1 DEF PlaceBegin, MoveTo
    <3>4. QED
      BY <1>1, <3>2, <3>3, OwnStep, OrdersAssumption DEF Underway, Ended, RecordsOK
  <2>2. CASE PlaceRefused(c, p, cart)
    BY <1>1, <1>3, <2>2 DEF PlaceRefused, MoveTo, Ended
  <2>3. QED
    BY <1>4, <2>1, <2>2
<1>5. ASSUME NEW c \in Placing, DrawNumber(c)
      PROVE  RecordsOK' /\ NumbersInv'
  <2>1. place[c] = "draw" /\ place' = [place EXCEPT ![c] = "look"] /\ UNCHANGED <<rows, mine, seen>>
    BY <1>5 DEF DrawNumber, MoveTo
  <2>2. Cardinality(Stored) + 1 \in Numbers /\ Cardinality(Stored) \in Nat
    BY <2>1, NumberLeft, FinitelyMany DEF Ended
  <2>3. /\ oid' \in [ShopCalls -> Nat] /\ oid'[c] = Cardinality(Stored) + 1
        /\ \A d \in ShopCalls : d # c => oid'[d] = oid[d]
    BY <1>1, <1>5, <2>2 DEF DrawNumber, RecordsOK
  <2>4. mine[c] # NoRow
    BY <1>1, <2>1 DEF NumbersInv
  <2>5. c \in ShopCalls /\ c \notin Cancelling /\ place[c] \notin Ended
    BY <1>1, <2>1, OrdersAssumption DEF Ended
  <2>6. /\ mine' \in [ShopCalls -> Rows \cup {NoRow}] /\ seen' \in [ShopCalls -> Rows \cup {NoRow}]
        /\ \A d \in ShopCalls : d # c =>
             oid'[d] = oid[d] /\ mine'[d] = mine[d] /\ seen'[d] = seen[d]
    BY <2>1, <2>3 DEF RecordsOK
  <2>7. oid'[c] \in Numbers /\ oid'[c] <= Cardinality(Stored) + 1 /\ mine'[c] # NoRow
    BY <2>1, <2>2, <2>3, <2>4
  <2>8. QED
    BY <2>1, <2>3, <2>5, <2>6, <2>7, OwnStep DEF Underway
<1>6. ASSUME NEW c \in ShopCalls, LookUp(c)
      PROVE  RecordsOK' /\ NumbersInv'
  <2>1. place[c] = "look" /\ place' = [place EXCEPT ![c] = "commit"] /\ UNCHANGED <<rows, mine, oid>>
    BY <1>6 DEF LookUp, MoveTo
  <2>2. oid[c] \in Numbers /\ mine[c] # NoRow
    BY <2>1 DEF NumbersInv, ShopCalls, Stored
  <2>3. /\ seen' \in [ShopCalls -> Rows \cup {NoRow}] /\ seen'[c] = rows[oid[c]]
        /\ \A d \in ShopCalls : d # c => seen'[d] = seen[d]
    BY <1>6, <2>2 DEF LookUp, RecordsOK
  <2>4. seen'[c] # NoRow => oid[c] \in Stored
    BY <2>2, <2>3 DEF Stored
  <2>5. /\ c \in Placing => oid[c] <= Cardinality(Stored) + 1
        /\ c \in Cancelling => oid[c] \in Stored
    BY <2>1 DEF NumbersInv
  <2>6. QED
    BY <2>1, <2>2, <2>3, <2>4, <2>5, OwnStep DEF Underway, Ended, RecordsOK
<1>7. ASSUME NEW c \in Cancelling, NEW p \in Procs, NEW n \in Numbers, CancelBegin(c, p, n)
      PROVE  RecordsOK' /\ NumbersInv'
  <2>1. place[c] = "idle" /\ place' = [place EXCEPT ![c] = "find"] /\ UNCHANGED <<rows, mine, seen>>
    BY <1>7 DEF CancelBegin, MoveTo
  <2>2. /\ oid' \in [ShopCalls -> Nat] /\ oid'[c] = n
        /\ \A d \in ShopCalls : d # c => oid'[d] = oid[d]
    BY <1>1, <1>7 DEF CancelBegin, RecordsOK, Numbers
  <2>3. QED
    BY <1>1, <2>1, <2>2, OwnStep, OrdersAssumption DEF Underway, Ended, RecordsOK
<1>8. ASSUME NEW c \in Cancelling, FindOrder(c)
      PROVE  RecordsOK' /\ NumbersInv'
  <2> DEFINE to == IF rows[oid[c]] = NoRow THEN "found" ELSE "lines"
  <2>1. place[c] = "find" /\ place' = [place EXCEPT ![c] = to] /\ UNCHANGED <<rows, oid, seen>>
    BY <1>8 DEF FindOrder, MoveTo
  <2>2. oid[c] \in Numbers
    BY <2>1 DEF NumbersInv
  <2>3. /\ mine' \in [ShopCalls -> Rows \cup {NoRow}] /\ mine'[c] = rows[oid[c]]
        /\ \A d \in ShopCalls : d # c => mine'[d] = mine[d]
    BY <1>1, <1>8, <2>2 DEF FindOrder, RecordsOK
  <2>4. mine'[c] # NoRow => oid[c] \in Stored
    BY <2>2, <2>3 DEF Stored
  <2>5. to \in {"lines", "found"} /\ (to = "lines" => mine'[c] # NoRow)
    BY <2>3
  <2> HIDE DEF to
  <2>6. QED
    BY <1>1, <2>1, <2>2, <2>3, <2>4, <2>5, OwnStep, OrdersAssumption
       DEF Underway, Ended, RecordsOK
<1>9. ASSUME NEW c \in Cancelling, FindLines(c)
       PROVE  RecordsOK' /\ NumbersInv'
  <2>1. place[c] = "lines" /\ place' = [place EXCEPT ![c] = "found"] /\ UNCHANGED <<rows, oid, seen>>
    BY <1>9 DEF FindLines, MoveTo
  <2>2. oid[c] \in Stored /\ mine[c] \in Rows
    BY <1>1, <2>1 DEF NumbersInv, RecordsOK
  <2>3. oid[c] \in Numbers /\ rows[oid[c]] \in Rows
    BY <2>2 DEF Stored, RecordsOK
  <2>4. [mine[c] EXCEPT !.lines = rows[oid[c]].lines] \in Rows
    BY <2>2, <2>3 DEF Rows
  <2>5. /\ mine' \in [ShopCalls -> Rows \cup {NoRow}] /\ mine'[c] \in Rows
        /\ \A d \in ShopCalls : d # c => mine'[d] = mine[d]
    BY <1>1, <1>9, <2>4 DEF FindLines, RecordsOK
  <2>6. QED
    BY <1>1, <2>1, <2>2, <2>3, <2>5, OwnStep, OrdersAssumption DEF Underway, Ended, RecordsOK
<1>10. ASSUME NEW c \in Cancelling, CancelRestores(c)
      PROVE  RecordsOK' /\ NumbersInv'
  <2>1. place[c] = "found" /\ place' = [place EXCEPT ![c] = "look"] /\ UNCHANGED <<rows, oid, seen>>
    BY <1>10 DEF CancelRestores, MoveTo
  <2>2. mine[c] \in Rows
    BY <1>1, <1>10 DEF CancelRestores, MayCancel, RecordsOK
  <2>3. [mine[c] EXCEPT !.status = "CANCELLED"] \in Rows
    BY <2>2 DEF Rows
  <2>4. /\ mine' \in [ShopCalls -> Rows \cup {NoRow}] /\ mine'[c] \in Rows
        /\ \A d \in ShopCalls : d # c => mine'[d] = mine[d]
    BY <1>1, <1>10, <2>3 DEF CancelRestores, RecordsOK
  <2>5. oid[c] \in Stored
    BY <2>1, <2>2, OrdersAssumption DEF NumbersInv
  <2>6. QED
    BY <1>1, <2>1, <2>4, <2>5, OwnStep, OrdersAssumption DEF Underway, Ended, RecordsOK
<1>11. ASSUME NEW c \in ShopCalls, Commit(c)
       PROVE  RecordsOK' /\ NumbersInv'
  BY <1>11, WriteStep DEF Commit, MoveTo, Ended
<1>12. ASSUME NEW c \in ShopCalls, Cancelled(c)
       PROVE  RecordsOK' /\ NumbersInv'
  <2>1. place' = [place EXCEPT ![c] = "timedout"] /\ UNCHANGED <<oid, mine, seen>>
    BY <1>12 DEF Cancelled
  <2>2. CASE UNCHANGED rows
    BY <1>3, <2>1, <2>2 DEF Ended
  <2>3. CASE place[c] = "commit" /\ Write(c)
    BY <2>1, <2>3, WriteStep DEF Ended
  <2>4. QED
    BY <1>12, <2>2, <2>3 DEF Cancelled
<1>13. ASSUME NEW c \in ShopCalls, InsertFails(c) \/ DatabaseFails(c)
       PROVE  RecordsOK' /\ NumbersInv'
  BY <1>3, <1>13 DEF InsertFails, DatabaseFails, GiveBack, Ended
<1>14. ASSUME NEW c \in ShopCalls, PlaceInvalid(c) \/ FindFails(c) \/ CancelRefused(c)
       PROVE  RecordsOK' /\ NumbersInv'
  BY <1>3, <1>14 DEF PlaceInvalid, FindFails, CancelRefused, MoveTo, Ended
<1>15. ASSUME NEW p \in Procs, Respawn(p)
       PROVE  RecordsOK' /\ NumbersInv'
  BY <1>15, QuietStep DEF Respawn, RecordsOK, Ended
<1>16. QED
  BY <1>1, <1>2, <1>4, <1>5, <1>6, <1>7, <1>8, <1>9, <1>10, <1>11, <1>12, <1>13, <1>14, <1>15
     DEF OrdersNext, PlaceStep, CancelStep, SaveStep

LEMMA NumbersInit == OrdersInit => RecordsOK /\ NumbersInv
<1> SUFFICES ASSUME OrdersInit PROVE RecordsOK /\ NumbersInv
  OBVIOUS
<1>1. RecordsOK
  BY DEF OrdersInit, RecordsOK
<1>2. Stored = {} /\ Finished = {}
  BY DEF OrdersInit, Stored, Finished, ShopCalls, Ended
<1>3. Cardinality({}) = 0 /\ 1..0 = {}
  BY FS_EmptySet
<1>4. NumbersInv
  BY <1>2, <1>3 DEF OrdersInit, NumbersInv, NumbersDense, ShopCalls
<1>5. QED
  BY <1>1, <1>4

\* The numbers of the stored orders have no gap, so a number drawn while no
\* other placement is under way is free: only overlapping calls collide.
THEOREM NumbersHaveNoGap == OrdersSpec => []NumbersDense
<1>1. RecordsOK /\ NumbersInv /\ [OrdersNext]_vars => RecordsOK' /\ NumbersInv'
  BY NumbersStep
<1>2. NumbersInv => NumbersDense
  BY DEF NumbersInv
<1>3. QED
  BY NumbersInit, <1>1, <1>2, PTL DEF OrdersSpec

----------------------------------------------------------------------------
(* How many pieces lines ask for. *)

Lines(Wares) == Seq([sku : Wares, qty : Nat])
ItemsOf(lines, s) == {i \in DOMAIN lines : lines[i].sku = s}
Quantities(lines, s) == [i \in ItemsOf(lines, s) |-> lines[i].qty]

LEMMA LineIs ==
    ASSUME NEW Wares, NEW lines \in Lines(Wares), NEW i \in DOMAIN lines
    PROVE  lines[i] \in [sku : Wares, qty : Nat] /\ lines[i].qty \in Nat
<1> DEFINE S == [sku : Wares, qty : Nat]
<1>1. lines \in Seq(S)
  BY DEF Lines
<1> HIDE DEF S
<1>2. lines \in [1..Len(lines) -> S] /\ i \in 1..Len(lines)
  BY <1>1
<1>3. lines[i] \in S
  BY <1>2
<1>4. QED
  BY <1>3 DEF S

LEMMA NeedIs ==
    ASSUME NEW Wares, NEW lines \in Lines(Wares), NEW s
    PROVE  /\ Need(lines, s) = SumOf(Quantities(lines, s))
           /\ Need(lines, s) \in Nat
           /\ ItemsOf(lines, s) = {} => Need(lines, s) = 0
<1> DEFINE S == ItemsOf(lines, s)
           w == Quantities(lines, s)
           Is(g) == g = [t \in SUBSET S |-> IF t = {} THEN 0
                           ELSE lines[CHOOSE x \in t : TRUE].qty + g[t \ {CHOOSE x \in t : TRUE}]]
<1>1. w \in [S -> Nat] /\ IsFiniteSet(S)
  <2>1. IsFiniteSet(DOMAIN lines)
    <3>1. DOMAIN lines = 1..Len(lines) /\ Len(lines) \in Nat
      BY DEF Lines
    <3>2. QED
      BY <3>1, FS_Interval
  <2>2. \A i \in DOMAIN lines : lines[i].qty \in Nat
    BY LineIs
  <2>3. QED
    BY <2>1, <2>2, FS_Subset DEF ItemsOf, Quantities
<1>2. Need(lines, s) = (CHOOSE g : Is(g))[S]
  BY DEF Need, MapThenSumSet, MapThenFoldSet, ItemsOf
<1>3. ASSUME NEW g PROVE Is(g) <=> Adds(w, g)
  <2>1. DOMAIN w = S
    BY DEF Quantities
  <2>2. \A t \in SUBSET S : t # {} => w[CHOOSE x \in t : TRUE] = lines[CHOOSE x \in t : TRUE].qty
    BY DEF Quantities
  <2>3. [t \in SUBSET S |-> IF t = {} THEN 0
           ELSE lines[CHOOSE x \in t : TRUE].qty + g[t \ {CHOOSE x \in t : TRUE}]]
        = [t \in SUBSET S |-> Adding(w, g, t)]
    BY <2>2 DEF Adding
  <2>4. QED
    BY <2>1, <2>3 DEF Adds
<1>4. w \in [S -> Int]
  BY <1>1
<1>5. PICK h : Adds(w, h)
  BY <1>1, <1>4, AddsExists
<1>6. Is(h)
  BY <1>3, <1>5
<1>7. Is(CHOOSE g : Is(g))
  <2> HIDE DEF Is
  <2> QED
    BY <1>6
<1> DEFINE k == CHOOSE g : Is(g)
<1>8. Adds(w, k)
  <2> HIDE DEF Is
  <2> QED
    BY <1>3, <1>7
<1> HIDE DEF k, Is, w, S
<1>9. k[S] = SumOf(w)
  BY <1>1, <1>4, <1>8, SumAs
<1>10. Need(lines, s) = SumOf(w)
  BY <1>2, <1>9 DEF k
<1>11. SumOf(w) \in Nat
  <2>1. SumOf([x \in S |-> w[x]]) >= 0
    BY <1>1, SumPart
  <2>2. [x \in S |-> w[x]] = w
    BY <1>1
  <2>3. SumOf(w) \in Int
    BY <1>1, <1>4, SumInt
  <2>4. QED
    BY <2>1, <2>2, <2>3
<1>12. S = {} => SumOf(w) = 0
  BY <1>4, SumEmpty
<1>13. QED
  BY <1>10, <1>11, <1>12 DEF S, w

LEMMA LeastNumber ==
    ASSUME NEW T \in SUBSET Nat, T # {}
    PROVE  \E n \in T : \A m \in T : n <= m
<1>1. \A Q, N, U : IsWellFoundedOn(Q, N) /\ U \subseteq N /\ U # {} =>
                      \E x \in U : \A y \in U : ~(<<y, x>> \in Q)
  BY ONLY WFMin
<1>2. PICK n \in T : \A m \in T : ~(<<m, n>> \in OpToRel(<, Nat))
  BY <1>1, NatLessThanWellFounded
<1>3. \A m \in T : ~(m < n)
  BY <1>2 DEF OpToRel
<1>4. QED
  BY <1>3

\* A loop that refuses no item finds enough for all of them.
LEMMA NoneRefusedFits ==
    ASSUME NEW Wares, NEW cart \in Lines(Wares), NEW st \in [Skus -> Nat],
           Refused(cart, st) = {}
    PROVE  Fits(cart, st)
<1> SUFFICES ASSUME NEW s \in Skus PROVE Need(cart, s) <= st[s]
  BY DEF Fits
<1>0. Len(cart) \in Nat /\ DOMAIN cart = 1..Len(cart)
  BY DEF Lines
<1> DEFINE K == {k \in Nat : \A i \in ItemsOf(cart, s) : i <= k}
<1>1. Len(cart) \in K
  BY <1>0 DEF ItemsOf
<1>2. PICK k \in K : \A m \in K : k <= m
  BY <1>1, LeastNumber
<1>3. CASE ItemsOf(cart, s) = {}
  BY <1>3, NeedIs
<1>4. CASE ItemsOf(cart, s) # {}
  <2>1. PICK j \in ItemsOf(cart, s) : TRUE
    BY <1>4
  <2>2. k \in Nat /\ j \in 1..Len(cart) /\ j <= k
    BY <1>0, <2>1 DEF ItemsOf
  <2>3. k - 1 \in Nat /\ k - 1 \notin K
    BY <1>2, <2>2
  <2>4. PICK i \in ItemsOf(cart, s) : ~(i <= k - 1)
    BY <2>3
  <2>5. i = k /\ k \in 1..Len(cart) /\ cart[k].sku = s
    BY <1>0, <2>2, <2>4 DEF ItemsOf
  <2> DEFINE front == SubSeq(cart, 1, k)
  <2>6. front \in Lines(Wares) /\ DOMAIN front = 1..k /\ \A m \in 1..k : front[m] = cart[m]
    <3>1. \A m \in 1..k : cart[m] \in [sku : Wares, qty : Nat]
      BY <1>0, <2>5, LineIs
    <3>2. front = [m \in 1..k |-> cart[m]]
      BY <1>0, <2>5 DEF Lines
    <3>3. QED
      BY <2>2, <3>1, <3>2 DEF Lines
  <2> HIDE DEF front
  <2>7. ItemsOf(front, s) = ItemsOf(cart, s)
    BY <1>0, <1>2, <2>2, <2>5, <2>6 DEF ItemsOf
  <2>8. Quantities(front, s) = Quantities(cart, s)
    BY <2>6, <2>7 DEF Quantities, ItemsOf
  <2>9. Need(front, s) = Need(cart, s)
    BY <2>6, <2>8, NeedIs
  <2>10. Need(front, cart[k].sku) <= st[cart[k].sku]
    <3>1. ~(Need(front, cart[k].sku) > st[cart[k].sku])
      BY <1>0, <2>5 DEF Refused, front
    <3>2. Need(front, s) \in Nat /\ st[s] \in Nat
      BY <2>6, NeedIs
    <3>3. QED
      BY <2>5, <3>1, <3>2
  <2>11. QED
    BY <2>5, <2>9, <2>10
<1>5. QED
  BY <1>3, <1>4

\* No line asks for less than nothing, so the refused placement leaves the
\* stock as it was.
LEMMA RefusedLeaves ==
    ASSUME NEW Wares, NEW cart \in Lines(Wares), NEW st, Refused(cart, st) # {}
    PROVE  ~(cart[Min(Refused(cart, st))].qty < 0)
<1>0. Len(cart) \in Nat /\ DOMAIN cart = 1..Len(cart)
  BY DEF Lines
<1>1. Refused(cart, st) \in SUBSET Nat /\ Refused(cart, st) \subseteq DOMAIN cart
  BY <1>0 DEF Refused
<1>2. PICK n \in Refused(cart, st) : \A m \in Refused(cart, st) : n <= m
  BY <1>1, LeastNumber
<1>3. Min(Refused(cart, st)) \in Refused(cart, st)
  BY <1>2 DEF Min
<1>4. cart[Min(Refused(cart, st))].qty \in Nat
  BY <1>1, <1>3, LineIs
<1>5. QED
  BY <1>4

----------------------------------------------------------------------------
(* The stock covers what is confirmed.  While a placement or a             *)
(* cancellation is whole, the stock is what there was less what placements *)
(* took and cancellations put back.  Against that, every confirmed order   *)
(* and every saved cancellation has a placement of its own, ended and      *)
(* never given back, that took the same pieces.                            *)

\* What call c has taken off the stock for good (or, below zero, put back),
\* once it has ended, and what it holds while it is under way.
Gone(c, s) ==
    IF c \in Placing
      THEN IF place[c] \in {"placed", "timedout"} THEN Need(mine[c].lines, s) ELSE 0
      ELSE IF place[c] = "cancelled" THEN 0 - Need(mine[c].lines, s) ELSE 0

Away(c, s) ==
    IF place[c] \in {"draw", "look", "commit"}
      THEN IF c \in Placing THEN Need(mine[c].lines, s) ELSE 0 - Need(mine[c].lines, s)
      ELSE 0

AllGone(s) == [c \in ShopCalls |-> Gone(c, s)]
AllAway(s) == [c \in ShopCalls |-> Away(c, s)]
AllTaken(s) == [c \in ShopCalls |-> Gone(c, s) + Away(c, s)]

IsConfirmed(row) == row # NoRow /\ row.status = "CONFIRMED"
InRow(n, s) == IF IsConfirmed(rows[n]) THEN Need(rows[n].lines, s) ELSE 0
InRows(s) == [n \in Numbers |-> InRow(n, s)]

Saving == {"look", "commit"}

\* Each kind of call goes its own way, with an aggregate when it needs one.
KindsOK ==
    /\ stock \in [Procs -> [Skus -> Nat]]
    /\ proc \in [ShopCalls -> Procs \cup {NoRow}] /\ restarts \in Nat
    /\ \A c \in Placing :
         /\ place[c] \notin {"find", "lines", "found", "cancelled"}
         /\ place[c] \in {"draw", "look", "commit", "placed", "timedout"} => IsConfirmed(mine[c])
    /\ \A x \in Cancelling :
         /\ place[x] \notin {"draw", "placed"}
         /\ place[x] \in {"idle", "find"} => mine[x] = NoRow
         /\ place[x] \in {"look", "commit", "cancelled"} =>
              oid[x] \in Numbers /\ mine[x] # NoRow /\ mine[x].status = "CANCELLED"
    /\ \A c \in ShopCalls : place[c] \in Underway => proc[c] \in Procs

\* The stock is what there was less what the calls took.
Counted == oneByOne \/ (restarts = 0 /\ CancelsWhole)

Ledger ==
    Counted =>
        \A p \in Procs, s \in Skus : stock[p][s] = Initial[s] - SumOf(AllTaken(s))

\* One call at a time: a placement finds its number free, a cancellation its
\* order unchanged and, should it fail, the pieces it put back.
Alone == \A c, d \in ShopCalls : place[c] \in Underway /\ place[d] \in Underway => c = d

PlacesFresh ==
    \A c \in Placing :
        /\ place[c] \in Saving => rows[oid[c]] = NoRow
        /\ place[c] = "commit" => seen[c] = NoRow

CancelsSame ==
    \A x \in Cancelling :
        /\ place[x] \in {"lines", "found"} => mine[x] = rows[oid[x]]
        /\ place[x] \in Saving =>
             /\ IsConfirmed(rows[oid[x]]) /\ mine[x].buyer = rows[oid[x]].buyer
             /\ mine[x].lines = rows[oid[x]].lines
             /\ \A p \in Procs : Fits(mine[x].lines, stock[p])
        /\ place[x] = "commit" => seen[x] = rows[oid[x]]

Balanced == \A s \in Skus : SumOf(InRows(s)) = SumOf(AllGone(s))

TurnsOK == oneByOne => Alone /\ PlacesFresh /\ CancelsSame /\ Balanced

\* A placement that ended and gave nothing back, and took what lines ask for.
Source(q, n, lines) ==
    /\ place[q] \in {"placed", "timedout"}
    /\ oid[q] = n /\ mine[q].lines = lines

RowsCovered ==
    \A n \in Numbers : rows[n] # NoRow => \E q \in Placing : Source(q, n, rows[n].lines)

CancelsCovered ==
    \A x \in Cancelling :
        \/ place[x] \in {"look", "commit", "cancelled"}
        \/ place[x] = "found" /\ IsConfirmed(mine[x])
        => \E q \in Placing : Source(q, oid[x], mine[x].lines)

\* An order confirmed again under the number of a cancelled one was placed
\* by another placement.
CoveredTwice ==
    \A x \in Cancelling :
        place[x] = "cancelled" /\ IsConfirmed(rows[oid[x]]) =>
            \E q, r \in Placing :
                /\ q # r
                /\ Source(q, oid[x], rows[oid[x]].lines) /\ Source(r, oid[x], mine[x].lines)

CancelledOnce ==
    /\ \A n \in Numbers : rows[n] # NoRow /\ rows[n].status = "CANCELLED" =>
         \E x \in Cancelling : place[x] = "cancelled" /\ oid[x] = n
    /\ \A x \in Cancelling : place[x] = "commit" => IsConfirmed(seen[x])

OverlapOK ==
    restarts = 0 /\ CancelsWhole =>
        RowsCovered /\ CancelsCovered /\ CoveredTwice /\ CancelledOnce

StockInv == KindsOK /\ Ledger /\ TurnsOK /\ OverlapOK

----------------------------------------------------------------------------
(* The sums of the model, taken over all numbers and over all calls. *)

CallQuantities(A, s) == [c \in A |-> Need(mine[c].lines, s)]
CallSum(A, s) == MapThenSumSet(LAMBDA c : Need(mine[c].lines, s), A)

LEMMA RowNeeds ==
    ASSUME NEW Wares, Carts \subseteq Lines(Wares), NEW row \in Rows, NEW s
    PROVE  Need(row.lines, s) \in Nat
<1>1. row.lines \in Lines(Wares)
  BY DEF Rows
<1>2. QED
  BY <1>1, NeedIs

LEMMA CallSumIs ==
    ASSUME NEW Wares, Carts \subseteq Lines(Wares), NEW A, IsFiniteSet(A), NEW s,
           \A c \in A : mine[c] \in Rows
    PROVE  CallSum(A, s) = SumOf(CallQuantities(A, s)) /\ CallQuantities(A, s) \in [A -> Nat]
<1> DEFINE w == CallQuantities(A, s)
           Is(g) == g = [t \in SUBSET A |-> IF t = {} THEN 0
                           ELSE Need(mine[CHOOSE x \in t : TRUE].lines, s)
                                  + g[t \ {CHOOSE x \in t : TRUE}]]
<1>1. w \in [A -> Nat] /\ w \in [A -> Int]
  BY RowNeeds DEF CallQuantities
<1>2. CallSum(A, s) = (CHOOSE g : Is(g))[A]
  BY DEF CallSum, MapThenSumSet, MapThenFoldSet
<1>3. ASSUME NEW g PROVE Is(g) <=> Adds(w, g)
  <2>1. DOMAIN w = A
    BY DEF CallQuantities
  <2>2. \A t \in SUBSET A : t # {} =>
            w[CHOOSE x \in t : TRUE] = Need(mine[CHOOSE x \in t : TRUE].lines, s)
    BY DEF CallQuantities
  <2>3. [t \in SUBSET A |-> IF t = {} THEN 0
           ELSE Need(mine[CHOOSE x \in t : TRUE].lines, s) + g[t \ {CHOOSE x \in t : TRUE}]]
        = [t \in SUBSET A |-> Adding(w, g, t)]
    BY <2>2 DEF Adding
  <2>4. QED
    BY <2>1, <2>3 DEF Adds
<1>4. PICK h : Adds(w, h)
  BY <1>1, AddsExists
<1>5. Is(h)
  BY <1>3, <1>4
<1> DEFINE k == CHOOSE g : Is(g)
<1> HIDE DEF Is
<1>6. Is(k)
  BY <1>5
<1>7. Adds(w, k)
  BY <1>3, <1>6
<1> HIDE DEF k, w
<1>8. k[A] = SumOf(w)
  BY <1>1, <1>7, SumAs
<1>9. QED
  BY <1>1, <1>2, <1>8 DEF k, w

LEMMA SoldIs ==
    ASSUME NEW Wares, Carts \subseteq Lines(Wares), RecordsOK, NEW s
    PROVE  Sold(s) = SumOf(InRows(s)) /\ InRows(s) \in [Numbers -> Nat]
<1> DEFINE A == {n \in Stored : rows[n].status = "CONFIRMED"}
           w == [n \in A |-> Need(rows[n].lines, s)]
           Is(g) == g = [t \in SUBSET A |-> IF t = {} THEN 0
                           ELSE Need(rows[CHOOSE x \in t : TRUE].lines, s)
                                  + g[t \ {CHOOSE x \in t : TRUE}]]
<1>0. \A n \in Stored : n \in Numbers /\ rows[n] \in Rows
  BY DEF Stored, RecordsOK
<1>1. w \in [A -> Nat] /\ w \in [A -> Int]
  BY <1>0, RowNeeds
<1>2. Sold(s) = (CHOOSE g : Is(g))[A]
  BY DEF Sold, MapThenSumSet, MapThenFoldSet
<1>3. ASSUME NEW g PROVE Is(g) <=> Adds(w, g)
  <2>1. DOMAIN w = A
    OBVIOUS
  <2>2. \A t \in SUBSET A : t # {} =>
            w[CHOOSE x \in t : TRUE] = Need(rows[CHOOSE x \in t : TRUE].lines, s)
    OBVIOUS
  <2> HIDE DEF w
  <2>3. [t \in SUBSET A |-> IF t = {} THEN 0
           ELSE Need(rows[CHOOSE x \in t : TRUE].lines, s) + g[t \ {CHOOSE x \in t : TRUE}]]
        = [t \in SUBSET A |-> Adding(w, g, t)]
    BY <2>2 DEF Adding
  <2>4. QED
    BY <2>1, <2>3 DEF Adds
<1>4. IsFiniteSet(A) /\ A \subseteq Numbers /\ IsFiniteSet(Numbers)
  <2>1. IsFiniteSet(Numbers)
    BY FinitelyMany, FS_Interval DEF Numbers
  <2>2. A \subseteq Numbers
    BY <1>0
  <2>3. QED
    BY <2>1, <2>2, FS_Subset
<1>5. PICK h : Adds(w, h)
  <2> HIDE DEF A, w, Is
  <2> QED
    BY <1>1, <1>4, AddsExists
<1>6. Is(h)
  BY <1>3, <1>5
<1> DEFINE k == CHOOSE g : Is(g)
<1> HIDE DEF Is
<1>7. Is(k)
  BY <1>6
<1>8. Adds(w, k)
  BY <1>3, <1>7
<1>9. \A n \in Numbers : InRows(s)[n] = IF n \in A THEN w[n] ELSE 0
  BY DEF InRows, InRow, IsConfirmed, Stored
<1>10. InRows(s) \in [Numbers -> Nat]
  <2>1. \A n \in Numbers : n \in A => w[n] \in Nat
    BY <1>1
  <2> HIDE DEF w, A
  <2>2. \A n \in Numbers : InRows(s)[n] \in Nat
    BY <1>9, <2>1
  <2>3. QED
    BY <2>2 DEF InRows
<1> HIDE DEF k, w, A
<1>11. k[A] = SumOf(w)
  BY <1>1, <1>4, <1>8, SumAs
<1>12. InRows(s) \in [Numbers -> Int]
  BY <1>10
<1>13. SumOf(w) = SumOf(InRows(s))
  BY <1>1, <1>4, <1>9, <1>12, SumWithin
<1>14. QED
  BY <1>2, <1>10, <1>11, <1>13 DEF k

\* What calls took, and what they hold, are whole numbers.
LEMMA CallsCount ==
    ASSUME NEW Wares, Carts \subseteq Lines(Wares), RecordsOK, KindsOK, NEW s
    PROVE  /\ IsFiniteSet(ShopCalls)
           /\ AllGone(s) \in [ShopCalls -> Int] /\ AllAway(s) \in [ShopCalls -> Int]
           /\ AllTaken(s) \in [ShopCalls -> Int]
           /\ SumOf(AllGone(s)) \in Int /\ SumOf(AllAway(s)) \in Int
           /\ SumOf(AllTaken(s)) = SumOf(AllGone(s)) + SumOf(AllAway(s))
<1>1. \A c \in ShopCalls : mine[c] # NoRow => Need(mine[c].lines, s) \in Nat
  BY RowNeeds DEF RecordsOK
<1>2. ASSUME NEW c \in ShopCalls PROVE Gone(c, s) \in Int /\ Away(c, s) \in Int
  BY <1>1 DEF KindsOK, IsConfirmed, Gone, Away, ShopCalls
<1>3. /\ IsFiniteSet(ShopCalls)
      /\ AllGone(s) \in [ShopCalls -> Int] /\ AllAway(s) \in [ShopCalls -> Int]
      /\ AllTaken(s) \in [ShopCalls -> Int]
      /\ \A c \in ShopCalls : AllTaken(s)[c] = AllGone(s)[c] + AllAway(s)[c]
  BY <1>2, OrdersAssumption DEF AllGone, AllAway, AllTaken
<1>4. QED
  BY <1>3, SumInt, SumAdds

LEMMA HeldIs ==
    ASSUME NEW Wares, Carts \subseteq Lines(Wares), RecordsOK, KindsOK, NEW s
    PROVE  Held(s) = SumOf(AllAway(s))
<1> DEFINE moving == {c \in ShopCalls : place[c] \in {"draw", "look", "commit"}}
           P == moving \cap Placing
           X == moving \cap Cancelling
           w == [c \in ShopCalls |-> IF c \in P THEN CallQuantities(P, s)[c] ELSE 0]
           v == [c \in ShopCalls |-> IF c \in X THEN CallQuantities(X, s)[c] ELSE 0]
<1>1. Held(s) = CallSum(P, s) - CallSum(X, s)
  BY DEF Held, CallSum, MapThenSumSet, MapThenFoldSet
<1>2. \A c \in moving : mine[c] \in Rows
  BY DEF KindsOK, IsConfirmed, RecordsOK, ShopCalls
<1>3. P \in SUBSET ShopCalls /\ X \in SUBSET ShopCalls /\ IsFiniteSet(ShopCalls) /\ IsFiniteSet(P) /\ IsFiniteSet(X)
  BY OrdersAssumption, FS_Subset
<1>4. /\ CallSum(P, s) = SumOf(CallQuantities(P, s)) /\ CallQuantities(P, s) \in [P -> Nat]
      /\ CallSum(X, s) = SumOf(CallQuantities(X, s)) /\ CallQuantities(X, s) \in [X -> Nat]
  <2>1. (\A c \in P : mine[c] \in Rows) /\ (\A c \in X : mine[c] \in Rows)
    BY <1>2
  <2> HIDE DEF P, X
  <2>2. QED
    BY <1>3, <2>1, CallSumIs
<1>5. w \in [ShopCalls -> Int] /\ v \in [ShopCalls -> Int]
  BY <1>4
<1>6. AllAway(s) \in [ShopCalls -> Int]
  BY CallsCount
<1>7. \A c \in ShopCalls : w[c] = AllAway(s)[c] + v[c]
  <2>1. \A c \in ShopCalls : c \in Placing \/ c \in Cancelling
    BY DEF ShopCalls
  <2>2. \A c \in moving : Need(mine[c].lines, s) \in Nat
    BY <1>2, RowNeeds
  <2>3. QED
    BY <2>1, <2>2, OrdersAssumption DEF AllAway, Away, CallQuantities
<1>8. \A c \in ShopCalls : /\ w[c] = IF c \in P THEN CallQuantities(P, s)[c] ELSE 0
                           /\ v[c] = IF c \in X THEN CallQuantities(X, s)[c] ELSE 0
  OBVIOUS
<1> HIDE DEF w, v, P, X
<1>9. SumOf(w) = CallSum(P, s) /\ SumOf(v) = CallSum(X, s)
  <2>1. CallQuantities(P, s) \in [P -> Int] /\ CallQuantities(X, s) \in [X -> Int]
    BY <1>4
  <2>2. QED
    BY <1>3, <1>4, <1>5, <1>8, <2>1, SumWithin
<1>10. SumOf(w) = SumOf(AllAway(s)) + SumOf(v)
  BY <1>3, <1>5, <1>6, <1>7, SumAdds
<1>11. SumOf(AllAway(s)) \in Int /\ SumOf(v) \in Int
  BY <1>3, <1>5, <1>6, SumInt
<1>12. QED
  BY <1>1, <1>9, <1>10, <1>11

----------------------------------------------------------------------------
(* What a step does to the stock. *)

\* One process, and carts that ask for no negative number of pieces.
PlainShop(Wares) ==
    /\ \E p : Procs = {p}
    /\ Carts \subseteq Lines(Wares)

Counts == [Skus -> Nat]

LEMMA PlusMinus ==
    ASSUME NEW Wares, NEW lines \in Lines(Wares), NEW st \in Counts
    PROVE  /\ Plus(st, lines) \in Counts
           /\ Fits(lines, st) => Minus(st, lines) \in Counts
           /\ Fits(lines, Plus(st, lines))
<1>1. \A s \in Skus : Need(lines, s) \in Nat /\ st[s] \in Nat
  BY NeedIs DEF Counts
<1>2. QED
  BY <1>1 DEF Plus, Minus, Fits, Counts

\* A cancellation that failed takes what it can; all of it, if it is there.
LEMMA CompensateIs ==
    ASSUME NEW Wares, NEW c \in ShopCalls, mine[c].lines \in Lines(Wares), stock[proc[c]] \in Counts
    PROVE  /\ Compensate(c) \in Counts
           /\ c \in Placing => Compensate(c) = Plus(stock[proc[c]], mine[c].lines)
           /\ c \notin Placing /\ Fits(mine[c].lines, stock[proc[c]]) =>
                Compensate(c) = Minus(stock[proc[c]], mine[c].lines)
<1> DEFINE st == stock[proc[c]]
           lines == mine[c].lines
           From(i) == SubSeq(lines, i, Len(lines))
           T == {i \in 1..Len(lines) + 1 : Fits(From(i), st)}
<1>1. lines \in Lines(Wares) /\ st \in Counts /\ Len(lines) \in Nat
  BY DEF Lines
<1>2. Compensate(c) = IF c \in Placing THEN Plus(st, lines) ELSE Minus(st, From(Min(T)))
  BY DEF Compensate, IsPlacement
<1> HIDE DEF lines, st
<1>3. ASSUME NEW i \in 1..Len(lines) + 1 PROVE From(i) \in Lines(Wares)
  <2> DEFINE S == [sku : Wares, qty : Nat]
  <2>1. lines \in Seq(S)
    BY <1>1 DEF Lines
  <2> HIDE DEF S
  <2>2. From(i) \in Seq(S)
    BY <2>1, <1>1
  <2>3. QED
    BY <2>2 DEF S, Lines
<1>4. Len(lines) + 1 \in T
  <2> DEFINE none == From(Len(lines) + 1)
  <2>1. DOMAIN none = {} /\ none \in Lines(Wares)
    BY <1>1, <1>3
  <2> HIDE DEF none
  <2>2. \A s \in Skus : Need(none, s) = 0
    BY <2>1, NeedIs DEF ItemsOf
  <2>3. Fits(none, st)
    BY <1>1, <2>2 DEF Fits, Counts
  <2>4. QED
    BY <1>1, <2>3 DEF none
<1>5. T \in SUBSET Nat /\ T # {}
  BY <1>1, <1>4
<1>6. PICK n \in T : \A m \in T : n <= m
  BY <1>5, LeastNumber
<1> HIDE DEF T
<1>7. Min(T) \in T /\ \A m \in T : Min(T) <= m
  BY <1>6 DEF Min
<1>8. Minus(st, From(Min(T))) \in Counts
  BY <1>1, <1>3, <1>7, PlusMinus DEF T
<1>9. Fits(lines, st) => Min(T) = 1
  <2>1. From(1) = lines
    BY <1>1 DEF Lines
  <2>2. Fits(lines, st) => 1 \in T
    <3>1. 1 \in 1..Len(lines) + 1
      BY <1>1
    <3> HIDE DEF From
    <3>2. QED
      BY <2>1, <3>1 DEF T
  <2>3. Min(T) \in Nat /\ Min(T) >= 1
    BY <1>1, <1>7 DEF T
  <2>4. QED
    BY <1>7, <2>2, <2>3
<1>10. From(1) = lines
  BY <1>1 DEF Lines
<1>11. Plus(st, lines) \in Counts
  BY <1>1, PlusMinus
<1>12. QED
  BY <1>2, <1>8, <1>9, <1>10, <1>11 DEF st, lines

CallStep(c) ==
    \/ c \in Placing /\ PlaceStep(c)
    \/ c \in Cancelling /\ CancelStep(c)
    \/ SaveStep(c) \/ Cancelled(c)

LEMMA NextIs ==
    ASSUME OrdersNext
    PROVE  /\ oneByOne' = oneByOne
           /\ (\E c \in ShopCalls : CallStep(c)) \/ (\E p \in Procs : Respawn(p))
  BY DEF OrdersNext, CallStep, ShopCalls

\* A call's step touches the call alone.
LEMMA OthersStay ==
    ASSUME RecordsOK, KindsOK, NEW c \in ShopCalls, CallStep(c)
    PROVE  /\ restarts' = restarts
           /\ place[c] = "idle" \/ place[c] \in Underway
           /\ \A d \in ShopCalls : d # c =>
                /\ place'[d] = place[d] /\ proc'[d] = proc[d] /\ oid'[d] = oid[d]
                /\ mine'[d] = mine[d] /\ seen'[d] = seen[d]
<1>0. proc \in [ShopCalls -> Procs \cup {NoRow}]
  BY DEF KindsOK
<1>1. CASE c \in Placing /\ PlaceStep(c)
  <2>1. ASSUME NEW p \in Procs, NEW cart \in Carts, PlaceBegin(c, p, cart)
        PROVE  /\ restarts' = restarts
               /\ place[c] = "idle" \/ place[c] \in Underway
               /\ \A d \in ShopCalls : d # c =>
                    /\ place'[d] = place[d] /\ proc'[d] = proc[d] /\ oid'[d] = oid[d]
                    /\ mine'[d] = mine[d] /\ seen'[d] = seen[d]
    BY <1>0, <2>1 DEF PlaceBegin, MoveTo, allowance, RecordsOK
  <2>2. ASSUME NEW p \in Procs, NEW cart \in Carts, PlaceRefused(c, p, cart)
        PROVE  /\ restarts' = restarts
               /\ place[c] = "idle" \/ place[c] \in Underway
               /\ \A d \in ShopCalls : d # c =>
                    /\ place'[d] = place[d] /\ proc'[d] = proc[d] /\ oid'[d] = oid[d]
                    /\ mine'[d] = mine[d] /\ seen'[d] = seen[d]
    BY <2>2 DEF PlaceRefused, MoveTo, allowance, RecordsOK
  <2>3. CASE DrawNumber(c) \/ PlaceInvalid(c)
    BY <2>3 DEF DrawNumber, PlaceInvalid, MoveTo, allowance, RecordsOK, Underway
  <2>4. QED
    BY <1>1, <2>1, <2>2, <2>3 DEF PlaceStep
<1>2. CASE c \in Cancelling /\ CancelStep(c)
  <2>1. ASSUME NEW p \in Procs, NEW n \in Numbers, CancelBegin(c, p, n)
        PROVE  /\ restarts' = restarts
               /\ place[c] = "idle" \/ place[c] \in Underway
               /\ \A d \in ShopCalls : d # c =>
                    /\ place'[d] = place[d] /\ proc'[d] = proc[d] /\ oid'[d] = oid[d]
                    /\ mine'[d] = mine[d] /\ seen'[d] = seen[d]
    BY <1>0, <2>1 DEF CancelBegin, MoveTo, allowance, RecordsOK
  <2>2. CASE FindOrder(c) \/ FindLines(c) \/ FindFails(c) \/ CancelRefused(c)
    BY <2>2 DEF FindOrder, FindLines, FindFails, CancelRefused, MoveTo, allowance, RecordsOK,
                Underway
  <2>3. CASE CancelRestores(c)
    BY <2>3 DEF CancelRestores, MoveTo, allowance, RecordsOK, Underway
  <2>4. QED
    BY <1>2, <2>1, <2>2, <2>3 DEF CancelStep
<1>3. CASE SaveStep(c)
  BY <1>3 DEF SaveStep, LookUp, Commit, InsertFails, DatabaseFails, GiveBack, MoveTo, allowance,
              RecordsOK, Underway
<1>4. CASE Cancelled(c)
  BY <1>4 DEF Cancelled, RecordsOK, Underway
<1>5. QED
  BY <1>1, <1>2, <1>3, <1>4 DEF CallStep

\* The kinds of calls, call by call.
KindOK(c) ==
    /\ c \in Placing =>
         /\ place[c] \notin {"find", "lines", "found", "cancelled"}
         /\ place[c] \in {"draw", "look", "commit", "placed", "timedout"} => IsConfirmed(mine[c])
    /\ c \in Cancelling =>
         /\ place[c] \notin {"draw", "placed"}
         /\ place[c] \in {"idle", "find"} => mine[c] = NoRow
         /\ place[c] \in {"look", "commit", "cancelled"} =>
              oid[c] \in Numbers /\ mine[c] # NoRow /\ mine[c].status = "CANCELLED"
    /\ place[c] \in Underway => proc[c] \in Procs

LEMMA KindsAre ==
    KindsOK <=> /\ stock \in [Procs -> Counts]
                /\ proc \in [ShopCalls -> Procs \cup {NoRow}] /\ restarts \in Nat
                /\ \A c \in ShopCalls : KindOK(c)
  BY DEF KindsOK, KindOK, Counts, ShopCalls

LEMMA KindsStep ==
    ASSUME NEW Wares, PlainShop(Wares), RecordsOK, RecordsOK', NumbersInv, KindsOK,
           NEW c \in ShopCalls, CallStep(c)
    PROVE  KindsOK'
<1>0. /\ stock \in [Procs -> Counts] /\ proc \in [ShopCalls -> Procs \cup {NoRow}]
      /\ \A d \in ShopCalls : KindOK(d)
  BY KindsAre
<1>1. Placing \cap Cancelling = {} /\ Placing \cup Cancelling = ShopCalls
  BY OrdersAssumption DEF ShopCalls
<1>2. SUFFICES /\ stock' \in [Procs -> Counts] /\ proc' \in [ShopCalls -> Procs \cup {NoRow}]
               /\ KindOK(c)'
  <2>1. \A d \in ShopCalls : d # c => KindOK(d)'
    BY <1>0, OthersStay DEF KindOK, IsConfirmed
  <2>2. restarts' \in Nat
    BY OthersStay DEF KindsOK
  <2>3. QED
    BY <2>1, <2>2 DEF KindsOK, KindOK, Counts, ShopCalls
<1>3. mine[c] # NoRow => mine[c].lines \in Lines(Wares)
  BY DEF RecordsOK, Rows, PlainShop
<1>4. place[c] \in {"draw", "look", "commit"} => mine[c] # NoRow
  BY DEF NumbersInv
<1>5. ASSUME NEW p \in Procs, NEW cart \in Carts, c \in Placing, PlaceBegin(c, p, cart)
      PROVE  stock' \in [Procs -> Counts] /\ proc' \in [ShopCalls -> Procs \cup {NoRow}] /\ KindOK(c)'
  <2>1. cart \in Lines(Wares) /\ stock[p] \in Counts
    BY <1>0 DEF PlainShop
  <2>2. Minus(stock[p], cart) \in Counts
    BY <1>5, <2>1, NoneRefusedFits, PlusMinus DEF PlaceBegin, Counts
  <2>3. stock' = [stock EXCEPT ![p] = Minus(stock[p], cart)] /\ proc' = [proc EXCEPT ![c] = p]
    BY <1>5 DEF PlaceBegin
  <2>4. place'[c] = "draw" /\ mine'[c] = [buyer |-> BuyerOf[c], lines |-> cart, status |-> "CONFIRMED"]
    BY <1>5 DEF PlaceBegin, MoveTo, RecordsOK
  <2>5. mine'[c] # NoRow
    <3>1. mine'[c] \in Rows
      BY <2>4 DEF Rows
    <3>2. QED
      BY <3>1, OrdersAssumption
  <2>6. KindOK(c)'
    BY <1>0, <1>1, <1>5, <2>3, <2>4, <2>5 DEF KindOK, IsConfirmed
  <2>7. QED
    BY <1>0, <2>2, <2>3, <2>6
<1>6. ASSUME NEW p \in Procs, NEW cart \in Carts, c \in Placing, PlaceRefused(c, p, cart)
      PROVE  stock' \in [Procs -> Counts] /\ proc' \in [ShopCalls -> Procs \cup {NoRow}] /\ KindOK(c)'
  <2>1. cart \in Lines(Wares)
    BY DEF PlainShop
  <2>2. ~(cart[Min(Refused(cart, stock[p]))].qty < 0)
    BY <1>6, <2>1, RefusedLeaves DEF PlaceRefused
  <2>3. stock' = stock /\ proc' = proc /\ place'[c] = "refused"
    BY <1>6, <2>2 DEF PlaceRefused, MoveTo, RecordsOK
  <2>4. QED
    BY <1>0, <1>1, <1>6, <2>3 DEF KindOK, Underway
<1>7. CASE DrawNumber(c) \/ FindOrder(c) \/ FindLines(c) \/ FindFails(c) \/ CancelRefused(c)
           \/ LookUp(c)
  <2>1. stock' = stock /\ proc' = proc
    BY <1>7 DEF DrawNumber, FindOrder, FindLines, FindFails, CancelRefused, LookUp
  <2>2. CASE DrawNumber(c) /\ c \in Placing
    BY <1>0, <1>1, <2>2 DEF DrawNumber, MoveTo, KindOK, Underway, RecordsOK, IsConfirmed
  <2>3. CASE FindOrder(c) /\ c \in Cancelling
    BY <1>0, <1>1, <2>3 DEF FindOrder, MoveTo, KindOK, Underway, RecordsOK
  <2>4. CASE (FindLines(c) \/ FindFails(c) \/ CancelRefused(c)) /\ c \in Cancelling
    BY <1>0, <1>1, <2>4 DEF FindLines, FindFails, CancelRefused, MoveTo, KindOK, Underway,
                            RecordsOK
  <2>5. CASE LookUp(c)
    BY <1>0, <1>1, <2>5 DEF LookUp, MoveTo, KindOK, Underway, RecordsOK, IsConfirmed
  <2>6. DrawNumber(c) => c \in Placing
    BY <1>0, <1>1 DEF DrawNumber, MoveTo, KindOK
  <2>7. FindOrder(c) \/ FindLines(c) \/ FindFails(c) \/ CancelRefused(c) => c \in Cancelling
    BY <1>0, <1>1 DEF FindOrder, FindLines, FindFails, CancelRefused, MoveTo, KindOK
  <2>8. KindOK(c)'
    BY <1>7, <2>2, <2>3, <2>4, <2>5, <2>6, <2>7
  <2>9. QED
    BY <1>0, <2>1, <2>8
<1>8. CASE c \in Placing /\ PlaceInvalid(c)
  <2>1. Plus(stock[proc[c]], mine[c].lines) \in Counts
    BY <1>0, <1>3, <1>4, <1>8, PlusMinus DEF PlaceInvalid, MoveTo, KindOK, Underway
  <2>2. /\ stock' = [stock EXCEPT ![proc[c]] = Plus(stock[proc[c]], mine[c].lines)]
        /\ proc' = proc /\ place'[c] = "refused"
    BY <1>8 DEF PlaceInvalid, MoveTo, RecordsOK
  <2>3. KindOK(c)'
    BY <1>0, <1>1, <1>8, <2>2 DEF KindOK, Underway
  <2>4. QED
    BY <1>0, <2>1, <2>2, <2>3
<1>9. CASE c \in Cancelling /\ \E p \in Procs, n \in Numbers : CancelBegin(c, p, n)
  BY <1>0, <1>1, <1>9 DEF CancelBegin, MoveTo, KindOK, Underway, RecordsOK
<1>10. CASE c \in Cancelling /\ CancelRestores(c)
  <2>1. Plus(stock[proc[c]], mine[c].lines) \in Counts
    BY <1>0, <1>3, <1>10, PlusMinus DEF CancelRestores, MayCancel, MoveTo, KindOK, Underway
  <2>2. /\ stock' = [stock EXCEPT ![proc[c]] = Plus(stock[proc[c]], mine[c].lines)]
        /\ proc' = proc /\ oid' = oid /\ place[c] = "found" /\ place'[c] = "look"
        /\ mine' = [mine EXCEPT ![c].status = "CANCELLED"] /\ mine[c] # NoRow
    BY <1>10 DEF CancelRestores, MayCancel, MoveTo, RecordsOK
  <2>3. mine'[c].status = "CANCELLED" /\ mine'[c] # NoRow
    <3>1. mine[c] \in Rows
      BY <1>10 DEF CancelRestores, MayCancel, RecordsOK
    <3>2. mine'[c] = [mine[c] EXCEPT !.status = "CANCELLED"]
      BY <2>2 DEF RecordsOK
    <3>3. mine'[c] \in Rows /\ mine'[c].status = "CANCELLED"
      BY <3>1, <3>2 DEF Rows
    <3>4. QED
      BY <3>3, OrdersAssumption
  <2>4. KindOK(c)'
    BY <1>0, <1>1, <1>10, <2>2, <2>3 DEF KindOK, Underway, NumbersInv, Stored
  <2>5. QED
    BY <1>0, <2>1, <2>2, <2>4
<1>11. CASE Commit(c)
  BY <1>0, <1>1, <1>11 DEF Commit, MoveTo, IsPlacement, KindOK, Underway, RecordsOK, IsConfirmed
<1>12. CASE InsertFails(c) \/ DatabaseFails(c)
  <2>1. place[c] \in {"draw", "look", "commit"} /\ GiveBack(c)
    BY <1>12 DEF InsertFails, DatabaseFails
  <2>2. Compensate(c) \in Counts
    BY <1>0, <1>3, <1>4, <2>1, CompensateIs DEF KindOK, Underway
  <2>3. /\ stock' = [stock EXCEPT ![proc[c]] = Compensate(c)]
        /\ proc' = proc /\ place'[c] = "refused"
    BY <2>1 DEF GiveBack, RecordsOK
  <2>4. KindOK(c)'
    BY <1>0, <1>1, <2>1, <2>3 DEF KindOK, Underway
  <2>5. QED
    BY <1>0, <2>2, <2>3, <2>4
<1>13. CASE Cancelled(c)
  BY <1>0, <1>1, <1>13 DEF Cancelled, KindOK, Underway, RecordsOK, IsConfirmed
<1>14. QED
  BY <1>5, <1>6, <1>7, <1>8, <1>9, <1>10, <1>11, <1>12, <1>13
     DEF CallStep, PlaceStep, CancelStep, SaveStep

\* Reading the lines leaves the rest of the aggregate as it was read.
LEMMA LinesRead ==
    ASSUME RecordsOK, NumbersInv, NEW c \in Cancelling, FindLines(c)
    PROVE  /\ place[c] = "lines" /\ place'[c] = "found" /\ oid' = oid /\ rows' = rows
           /\ oid[c] \in Numbers /\ rows[oid[c]] \in Rows /\ mine[c] \in Rows
           /\ mine'[c] \in Rows /\ mine'[c] # NoRow
           /\ mine'[c].lines = rows[oid[c]].lines
           /\ mine'[c].status = mine[c].status /\ mine'[c].buyer = mine[c].buyer
           /\ mine[c] = rows[oid[c]] => mine'[c] = mine[c]
<1>1. c \in ShopCalls /\ place[c] = "lines" /\ place'[c] = "found" /\ oid' = oid /\ rows' = rows
  BY DEF FindLines, MoveTo, RecordsOK, ShopCalls
<1>2. oid[c] \in Stored /\ mine[c] \in Rows
  BY <1>1 DEF NumbersInv, RecordsOK
<1>3. oid[c] \in Numbers /\ rows[oid[c]] \in Rows
  BY <1>2 DEF Stored, RecordsOK
<1>4. mine'[c] = [mine[c] EXCEPT !.lines = rows[oid[c]].lines]
  BY <1>1 DEF FindLines, RecordsOK
<1>5. /\ mine'[c] \in Rows /\ mine'[c].lines = rows[oid[c]].lines
      /\ mine'[c].status = mine[c].status /\ mine'[c].buyer = mine[c].buyer
      /\ mine[c] = rows[oid[c]] => mine'[c] = mine[c]
  BY <1>2, <1>3, <1>4 DEF Rows
<1>6. QED
  BY <1>1, <1>2, <1>3, <1>5, OrdersAssumption

\* A cancellation that was not whole never becomes so.
LEMMA WholeStays ==
    ASSUME RecordsOK, NumbersInv, KindsOK, NEW c \in ShopCalls, CallStep(c), CancelsWhole'
    PROVE  CancelsWhole
<1>0. \A d \in ShopCalls : KindOK(d)
  BY KindsAre
<1>1. ASSUME NEW x \in Undoing PROVE x \in Undoing' /\ oid'[x] = oid[x]
  <2>1. x \in Cancelling /\ x \in ShopCalls /\ x \notin Placing /\ mine[x] # NoRow
        /\ mine[x].status = "CANCELLED"
    BY OrdersAssumption DEF Undoing, ShopCalls
  <2>2. place[x] \notin {"idle", "find"}
    BY <1>0, <2>1 DEF KindOK
  <2>3. CASE x # c
    BY <2>1, <2>3, OthersStay DEF Undoing
  <2>4. CASE x = c
    <3>1. UNCHANGED <<mine, oid>> \/ CancelRestores(c) \/ FindLines(c)
      BY <2>1, <2>2, <2>4 DEF CallStep, CancelStep, CancelBegin, FindOrder, FindFails,
           CancelRefused, SaveStep, LookUp, Commit, InsertFails, DatabaseFails, GiveBack,
           Cancelled, MoveTo
    <3>2. ~CancelRestores(c)
      BY <2>1, <2>4 DEF CancelRestores, MayCancel
    <3>3. FindLines(c) => oid'[c] = oid[c] /\ mine'[c] # NoRow /\ mine'[c].status = "CANCELLED"
      BY <2>1, <2>4, LinesRead
    <3>4. QED
      BY <2>1, <2>4, <3>1, <3>2, <3>3 DEF Undoing
  <2>5. QED
    BY <2>3, <2>4
<1>2. ASSUME NEW x \in Undoing PROVE place[x] \notin {"refused", "timedout", "lost"}
  <2>1. x \in ShopCalls /\ place'[x] \notin {"refused", "timedout", "lost"}
    BY <1>1 DEF CancelsWhole, Undoing, ShopCalls
  <2>2. x # c => place'[x] = place[x]
    BY <2>1, OthersStay
  <2>3. place[c] = "idle" \/ place[c] \in Underway
    BY OthersStay
  <2>4. QED
    BY <2>1, <2>2, <2>3 DEF Underway
<1>3. \A x, y \in Undoing : oid[x] = oid[y] => x = y
  BY <1>1 DEF CancelsWhole
<1>4. QED
  BY <1>2, <1>3 DEF CancelsWhole

\* What was put back and not saved makes a cancellation less than whole.
LEMMA SavingGoesOn ==
    ASSUME KindsOK, NEW c \in Cancelling, place[c] \in Saving, mine' = mine, CancelsWhole'
    PROVE  place'[c] \notin {"refused", "timedout", "lost"}
<1>1. mine[c] # NoRow /\ mine[c].status = "CANCELLED"
  BY DEF KindsOK, Saving
<1>2. c \in Undoing'
  BY <1>1 DEF Undoing
<1>3. QED
  BY <1>2 DEF CancelsWhole

Taken(c, s) == Gone(c, s) + Away(c, s)

\* What a call takes off the stock, and what it puts back, it accounts for.
LEMMA StockStep ==
    ASSUME NEW Wares, PlainShop(Wares), RecordsOK, NumbersInv, KindsOK, TurnsOK,
           NEW c \in ShopCalls, CallStep(c), oneByOne' = oneByOne, Counted',
           NEW p \in Procs, NEW s \in Skus
    PROVE  stock'[p][s] = stock[p][s] + (Taken(c, s) - Taken(c, s)')
<1>0. /\ stock \in [Procs -> Counts] /\ proc \in [ShopCalls -> Procs \cup {NoRow}]
      /\ KindOK(c)
  BY KindsAre
<1>1. Placing \cap Cancelling = {} /\ Placing \cup Cancelling = ShopCalls
  BY OrdersAssumption DEF ShopCalls
<1>2. stock[p][s] \in Nat /\ \A n \in Int : stock[p][s] + n - n = stock[p][s]
  BY <1>0 DEF Counts
<1>3. /\ mine[c] # NoRow => Need(mine[c].lines, s) \in Nat
      /\ mine[c] # NoRow => mine[c].lines \in Lines(Wares)
  <2>1. mine[c] # NoRow => mine[c] \in Rows
    BY DEF RecordsOK
  <2>2. QED
    BY <2>1, RowNeeds DEF Rows, PlainShop
<1>4. place[c] \in {"draw", "look", "commit"} => mine[c] # NoRow
  BY DEF NumbersInv
<1>5. \A q \in Procs : q = p
  BY DEF PlainShop
<1>6. ASSUME NEW q \in Procs, NEW cart \in Carts, c \in Placing, PlaceBegin(c, q, cart)
      PROVE  stock'[p][s] = stock[p][s] + (Taken(c, s) - Taken(c, s)')
  <2>1. cart \in Lines(Wares) /\ Need(cart, s) \in Nat
    BY NeedIs DEF PlainShop
  <2>2. stock'[p][s] = stock[p][s] - Need(cart, s)
    BY <1>0, <1>5, <1>6 DEF PlaceBegin, Minus
  <2>3. place[c] = "idle" /\ place'[c] = "draw" /\ mine'[c].lines = cart
    BY <1>6 DEF PlaceBegin, MoveTo, RecordsOK
  <2>4. Taken(c, s) = 0 /\ Taken(c, s)' = Need(cart, s)
    BY <1>6, <2>1, <2>3 DEF Taken, Gone, Away
  <2>5. QED
    BY <1>2, <2>1, <2>2, <2>4
<1>7. ASSUME NEW q \in Procs, NEW cart \in Carts, c \in Placing, PlaceRefused(c, q, cart)
      PROVE  stock'[p][s] = stock[p][s] + (Taken(c, s) - Taken(c, s)')
  <2>1. cart \in Lines(Wares)
    BY DEF PlainShop
  <2>2. ~(cart[Min(Refused(cart, stock[q]))].qty < 0)
    BY <1>7, <2>1, RefusedLeaves DEF PlaceRefused
  <2>3. stock' = stock /\ place[c] = "idle" /\ place'[c] = "refused"
    BY <1>7, <2>2 DEF PlaceRefused, MoveTo, RecordsOK
  <2>4. Taken(c, s) = 0 /\ Taken(c, s)' = 0
    BY <1>7, <2>3 DEF Taken, Gone, Away
  <2>5. QED
    BY <1>2, <2>3, <2>4
<1>8. CASE c \in Placing /\ DrawNumber(c)
  <2>1. stock' = stock /\ mine' = mine /\ place[c] = "draw" /\ place'[c] = "look"
    BY <1>8 DEF DrawNumber, MoveTo, RecordsOK
  <2>2. Taken(c, s)' = Taken(c, s) /\ Taken(c, s) \in Int
    BY <1>3, <1>4, <1>8, <2>1 DEF Taken, Gone, Away
  <2>3. QED
    BY <1>2, <2>1, <2>2
<1>9. CASE c \in Cancelling /\ (FindOrder(c) \/ FindLines(c) \/ FindFails(c) \/ CancelRefused(c))
  <2>1. /\ stock' = stock /\ place[c] \in {"find", "lines", "found"}
        /\ place'[c] \in {"lines", "found", "refused"}
    BY <1>9 DEF FindOrder, FindLines, FindFails, CancelRefused, MoveTo, RecordsOK
  <2>2. Taken(c, s) = 0 /\ Taken(c, s)' = 0
    BY <1>1, <1>9, <2>1 DEF Taken, Gone, Away
  <2>3. QED
    BY <1>2, <2>1, <2>2
<1>10. ASSUME NEW q \in Procs, NEW n \in Numbers, c \in Cancelling, CancelBegin(c, q, n)
       PROVE  stock'[p][s] = stock[p][s] + (Taken(c, s) - Taken(c, s)')
  <2>1. stock' = stock /\ place[c] = "idle" /\ place'[c] = "find"
    BY <1>10 DEF CancelBegin, MoveTo, RecordsOK
  <2>2. Taken(c, s) = 0 /\ Taken(c, s)' = 0
    BY <1>1, <1>10, <2>1 DEF Taken, Gone, Away
  <2>3. QED
    BY <1>2, <2>1, <2>2
<1>11. CASE c \in Cancelling /\ CancelRestores(c)
  <2>1. mine[c] # NoRow /\ place[c] = "found" /\ place'[c] = "look"
    BY <1>11 DEF CancelRestores, MayCancel, MoveTo, RecordsOK
  <2>2. mine'[c].lines = mine[c].lines
    <3>1. mine[c] \in Rows /\ mine'[c] = [mine[c] EXCEPT !.status = "CANCELLED"]
      BY <1>11, <2>1 DEF CancelRestores, RecordsOK
    <3>2. QED
      BY <3>1 DEF Rows
  <2>3. stock'[p][s] = stock[p][s] + Need(mine[c].lines, s)
    BY <1>0, <1>5, <1>11, <2>1 DEF CancelRestores, Plus, KindOK, Underway
  <2>4. Taken(c, s) = 0 /\ Taken(c, s)' = 0 - Need(mine[c].lines, s)
    BY <1>1, <1>3, <1>11, <2>1, <2>2 DEF Taken, Gone, Away
  <2>5. QED
    BY <1>2, <1>3, <2>1, <2>3, <2>4
<1>12. CASE LookUp(c) \/ Commit(c)
  <2>1. /\ stock' = stock /\ mine' = mine
        /\ \/ place[c] = "look" /\ place'[c] = "commit"
           \/ place[c] = "commit" /\ place'[c] = IF c \in Placing THEN "placed" ELSE "cancelled"
    BY <1>12 DEF LookUp, Commit, MoveTo, IsPlacement, RecordsOK
  <2>2. Taken(c, s)' = Taken(c, s) /\ Taken(c, s) \in Int
    BY <1>3, <1>4, <2>1 DEF Taken, Gone, Away
  <2>3. QED
    BY <1>2, <2>1, <2>2
<1>13. CASE c \in Placing /\ (PlaceInvalid(c) \/ InsertFails(c) \/ DatabaseFails(c))
  <2>1. /\ place[c] \in {"draw", "look", "commit"} /\ place'[c] = "refused"
        /\ PlaceInvalid(c) \/ GiveBack(c)
    BY <1>13 DEF PlaceInvalid, InsertFails, DatabaseFails, GiveBack, MoveTo, RecordsOK
  <2>2. proc[c] \in Procs /\ mine[c].lines \in Lines(Wares)
    BY <1>0, <1>3, <1>4, <2>1 DEF KindOK, Underway
  <2>3. Compensate(c) = Plus(stock[proc[c]], mine[c].lines)
    BY <1>0, <1>13, <2>2, CompensateIs
  <2>4. stock' = [stock EXCEPT ![proc[c]] = Plus(stock[proc[c]], mine[c].lines)]
    BY <2>1, <2>3 DEF PlaceInvalid, GiveBack
  <2>5. stock'[p][s] = stock[p][s] + Need(mine[c].lines, s)
    BY <1>0, <1>5, <2>2, <2>4 DEF Plus
  <2>6. Taken(c, s) = Need(mine[c].lines, s) /\ Taken(c, s)' = 0
    BY <1>3, <1>4, <1>13, <2>1 DEF Taken, Gone, Away
  <2>7. QED
    BY <1>2, <1>3, <1>4, <2>1, <2>5, <2>6
<1>14. CASE c \in Cancelling /\ (InsertFails(c) \/ DatabaseFails(c))
  <2>1. /\ place[c] \in {"draw", "look", "commit"} /\ place'[c] = "refused" /\ mine' = mine
        /\ GiveBack(c)
    BY <1>14 DEF InsertFails, DatabaseFails, GiveBack, RecordsOK
  <2>2. place[c] \in Saving
    BY <1>0, <1>14, <2>1 DEF KindOK, Saving
  <2>3. oneByOne
    BY <1>14, <2>1, <2>2, SavingGoesOn DEF Counted
  <2>4. proc[c] \in Procs /\ mine[c].lines \in Lines(Wares)
    BY <1>0, <1>3, <1>4, <2>1 DEF KindOK, Underway
  <2>5. Fits(mine[c].lines, stock[proc[c]])
    BY <1>14, <2>2, <2>3, <2>4 DEF TurnsOK, CancelsSame
  <2>6. Compensate(c) = Minus(stock[proc[c]], mine[c].lines)
    BY <1>0, <1>1, <1>14, <2>4, <2>5, CompensateIs
  <2>7. stock'[p][s] = stock[p][s] - Need(mine[c].lines, s)
    BY <1>0, <1>5, <2>1, <2>4, <2>6 DEF Minus, GiveBack
  <2>8. Taken(c, s) = 0 - Need(mine[c].lines, s) /\ Taken(c, s)' = 0
    BY <1>1, <1>3, <1>4, <1>14, <2>1, <2>2 DEF Taken, Gone, Away, Saving
  <2>9. QED
    BY <1>2, <1>3, <1>4, <2>1, <2>7, <2>8
<1>15. CASE Cancelled(c)
  <2>1. stock' = stock /\ mine' = mine /\ place[c] \in Underway /\ place'[c] = "timedout" /\ ~oneByOne
    BY <1>15 DEF Cancelled, RecordsOK
  <2>2. c \in Cancelling => place[c] \notin Saving
    BY <2>1, SavingGoesOn DEF Counted
  <2>3. Taken(c, s)' = Taken(c, s) /\ Taken(c, s) \in Int
    BY <1>0, <1>1, <1>3, <1>4, <2>1, <2>2 DEF Taken, Gone, Away, KindOK, Underway, Saving
  <2>4. QED
    BY <1>2, <2>1, <2>3
<1>16. QED
  BY <1>1, <1>6, <1>7, <1>8, <1>9, <1>10, <1>11, <1>12, <1>13, <1>14, <1>15, <1>0
     DEF CallStep, PlaceStep, CancelStep, SaveStep

\* What a call does to the sums over all calls.
LEMMA SumsMove ==
    ASSUME NEW Wares, PlainShop(Wares), RecordsOK, RecordsOK', KindsOK, KindsOK',
           NEW c \in ShopCalls, CallStep(c), NEW s
    PROVE  /\ SumOf(AllTaken(s)') = SumOf(AllTaken(s)) + (Taken(c, s)' - Taken(c, s))
           /\ SumOf(AllGone(s)') = SumOf(AllGone(s)) + (Gone(c, s)' - Gone(c, s))
           /\ Gone(c, s) \in Int /\ Gone(c, s)' \in Int
           /\ Taken(c, s) \in Int /\ Taken(c, s)' \in Int
           /\ SumOf(AllTaken(s)) \in Int /\ SumOf(AllGone(s)) \in Int
<1>1. /\ IsFiniteSet(ShopCalls)
      /\ AllGone(s) \in [ShopCalls -> Int] /\ AllTaken(s) \in [ShopCalls -> Int]
      /\ SumOf(AllGone(s)) \in Int
  BY CallsCount DEF PlainShop
<1>2. ASSUME NEW d \in ShopCalls PROVE Gone(d, s)' \in Int /\ Away(d, s)' \in Int
  <2>1. mine'[d] # NoRow => Need(mine'[d].lines, s) \in Nat
    BY RowNeeds DEF RecordsOK, PlainShop
  <2>2. QED
    BY <2>1 DEF KindsOK, IsConfirmed, Gone, Away, ShopCalls
<1>3. AllGone(s)' \in [ShopCalls -> Int] /\ AllTaken(s)' \in [ShopCalls -> Int]
  BY <1>2 DEF AllGone, AllTaken
<1>4. \A d \in ShopCalls : d # c => Gone(d, s)' = Gone(d, s) /\ Away(d, s)' = Away(d, s)
  BY OthersStay DEF Gone, Away
<1>5. \A d \in ShopCalls : d # c => AllGone(s)'[d] = AllGone(s)[d] /\ AllTaken(s)'[d] = AllTaken(s)[d]
  BY <1>4 DEF AllGone, AllTaken
<1>6. /\ SumOf(AllGone(s)') = SumOf(AllGone(s)) + (AllGone(s)'[c] - AllGone(s)[c])
      /\ SumOf(AllTaken(s)') = SumOf(AllTaken(s)) + (AllTaken(s)'[c] - AllTaken(s)[c])
  BY <1>1, <1>3, <1>5, SumChanges
<1>7. /\ AllGone(s)[c] = Gone(c, s) /\ AllGone(s)'[c] = Gone(c, s)'
      /\ AllTaken(s)[c] = Taken(c, s) /\ AllTaken(s)'[c] = Taken(c, s)'
  BY DEF AllGone, AllTaken, Taken
<1>8. SumOf(AllTaken(s)) \in Int
  BY <1>1, SumInt
<1>9. QED
  BY <1>1, <1>3, <1>6, <1>7, <1>8

LEMMA LedgerStep ==
    ASSUME NEW Wares, PlainShop(Wares), RecordsOK, RecordsOK', NumbersInv, KindsOK, KindsOK',
           TurnsOK, Ledger, NEW c \in ShopCalls, CallStep(c), oneByOne' = oneByOne
    PROVE  Ledger'
<1> SUFFICES ASSUME Counted', NEW p \in Procs, NEW s \in Skus
             PROVE  stock'[p][s] = Initial[s] - SumOf(AllTaken(s)')
  BY DEF Ledger
<1>1. Counted
  BY WholeStays, OthersStay DEF Counted
<1>2. stock[p][s] = Initial[s] - SumOf(AllTaken(s))
  BY <1>1 DEF Ledger
<1>3. stock'[p][s] = stock[p][s] + (Taken(c, s) - Taken(c, s)')
  BY StockStep
<1>4. Initial[s] \in Nat
  BY OrdersAssumption
<1>5. QED
  BY <1>2, <1>3, <1>4, SumsMove

----------------------------------------------------------------------------
(* One call after the other. *)

TurnOK(c) ==
    /\ c \in Placing =>
         /\ place[c] \in Saving => rows[oid[c]] = NoRow
         /\ place[c] = "commit" => seen[c] = NoRow
    /\ c \in Cancelling =>
         /\ place[c] \in {"lines", "found"} => mine[c] = rows[oid[c]]
         /\ place[c] \in Saving =>
              /\ IsConfirmed(rows[oid[c]]) /\ mine[c].buyer = rows[oid[c]].buyer
              /\ mine[c].lines = rows[oid[c]].lines
              /\ \A p \in Procs : Fits(mine[c].lines, stock[p])
         /\ place[c] = "commit" => seen[c] = rows[oid[c]]

LEMMA TurnsAre ==
    TurnsOK <=> (oneByOne => Alone /\ Balanced /\ \A c \in ShopCalls : TurnOK(c))
  BY DEF TurnsOK, TurnOK, PlacesFresh, CancelsSame, ShopCalls

\* No other call is under way when one starts or goes on.
LEMMA OnItsOwn ==
    ASSUME RecordsOK, TurnsOK, oneByOne, NEW c \in ShopCalls, CallStep(c),
           place[c] \in Underway \/ place'[c] \in Underway, NEW d \in ShopCalls, d # c
    PROVE  place[d] \notin Underway
<1>1. CASE place[c] \in Underway
  BY <1>1 DEF TurnsOK, Alone
<1>2. CASE place[c] \notin Underway
  <2>1. Room
    BY <1>2 DEF CallStep, PlaceStep, PlaceBegin, PlaceRefused, DrawNumber, PlaceInvalid,
         CancelStep, CancelBegin, FindOrder, FindLines, FindFails, CancelRefused, CancelRestores,
         SaveStep, LookUp, Commit, InsertFails, DatabaseFails, Cancelled, MoveTo, Underway,
         RecordsOK
  <2>2. Cardinality(Busy) < 1
    BY <2>1 DEF Room
  <2>3. IsFiniteSet(Busy)
    BY OrdersAssumption, FS_Subset DEF Busy
  <2>4. Busy = {}
    BY <2>2, <2>3, FS_CardinalityType, FS_EmptySet
  <2>5. QED
    BY <2>4 DEF Busy
<1>3. QED
  BY <1>1, <1>2

LEMMA TurnsKept ==
    ASSUME RecordsOK, KindsOK, TurnsOK, oneByOne, oneByOne', NEW c \in ShopCalls, CallStep(c),
           TurnOK(c)', Balanced',
           (rows' = rows /\ stock' = stock) \/ place[c] \in Underway \/ place'[c] \in Underway
    PROVE  TurnsOK'
<1>1. \A d \in ShopCalls : d # c =>
        place'[d] = place[d] /\ oid'[d] = oid[d] /\ mine'[d] = mine[d] /\ seen'[d] = seen[d]
  BY OthersStay
<1>2. Alone'
  <2> SUFFICES ASSUME NEW a \in ShopCalls, NEW b \in ShopCalls, place'[a] \in Underway, place'[b] \in Underway
               PROVE  a = b
    BY DEF Alone
  <2>1. a # c /\ b # c => a = b
    BY <1>1 DEF TurnsOK, Alone
  <2>2. \A d \in ShopCalls : d # c /\ place'[c] \in Underway => place'[d] \notin Underway
    BY <1>1, OnItsOwn
  <2>3. QED
    BY <2>1, <2>2
<1>3. ASSUME NEW d \in ShopCalls, d # c PROVE TurnOK(d)'
  <2>1. TurnOK(d) /\ Underway = {"draw", "find", "lines", "found", "look", "commit"}
    BY TurnsAre DEF Underway
  <2>2. CASE rows' = rows /\ stock' = stock
    BY <1>1, <1>3, <2>1, <2>2 DEF TurnOK
  <2>3. CASE place[c] \in Underway \/ place'[c] \in Underway
    <3>1. place'[d] \notin Underway
      BY <1>1, <1>3, <2>3, OnItsOwn
    <3>2. QED
      BY <3>1 DEF TurnOK, Saving, Underway
  <2>4. QED
    BY <2>2, <2>3
<1>4. QED
  BY <1>2, <1>3, TurnsAre DEF TurnsOK, TurnOK, PlacesFresh, CancelsSame, ShopCalls

\* A step that stores nothing and ends no call in success leaves the balance.
LEMMA BalanceStays ==
    ASSUME NEW Wares, PlainShop(Wares), RecordsOK, RecordsOK', KindsOK, KindsOK', Balanced,
           NEW c \in ShopCalls, CallStep(c), rows' = rows,
           \A s \in Skus : Gone(c, s)' = Gone(c, s)
    PROVE  Balanced'
<1> SUFFICES ASSUME NEW s \in Skus PROVE SumOf(InRows(s)') = SumOf(AllGone(s)')
  BY DEF Balanced
<1>1. InRows(s)' = InRows(s)
  BY DEF InRows, InRow
<1>2. SumOf(AllGone(s)') = SumOf(AllGone(s))
  BY SumsMove
<1>3. QED
  BY <1>1, <1>2 DEF Balanced

\* A save sells what the placement took, or takes the sale back.
LEMMA BalanceMoves ==
    ASSUME NEW Wares, PlainShop(Wares), RecordsOK, RecordsOK', NumbersInv, KindsOK, KindsOK',
           oneByOne, TurnsOK, NEW c \in ShopCalls, Commit(c)
    PROVE  Balanced'
<1> SUFFICES ASSUME NEW s \in Skus PROVE SumOf(InRows(s)') = SumOf(AllGone(s)')
  BY DEF Balanced
<1> DEFINE n == oid[c]
<1>0. Placing \cap Cancelling = {} /\ Placing \cup Cancelling = ShopCalls
  BY OrdersAssumption DEF ShopCalls
<1>1. /\ place[c] = "commit" /\ place'[c] = IF c \in Placing THEN "placed" ELSE "cancelled"
      /\ mine' = mine /\ oid' = oid /\ Write(c)
  BY DEF Commit, MoveTo, IsPlacement, RecordsOK
<1>2. n \in Numbers /\ mine[c] # NoRow /\ mine[c] \in Rows
  <2>1. c \in Placing => n \in Numbers
    BY <1>1 DEF NumbersInv
  <2>2. c \in Cancelling => n \in Stored
    BY <1>1 DEF NumbersInv
  <2>3. mine[c] # NoRow
    BY <1>1 DEF NumbersInv
  <2>4. QED
    BY <1>0, <2>1, <2>2, <2>3 DEF Stored, RecordsOK
<1>3. Need(mine[c].lines, s) \in Nat
  BY <1>2, RowNeeds DEF PlainShop
<1>4. Gone(c, s) = 0 /\ Gone(c, s)' =
        IF c \in Placing THEN Need(mine[c].lines, s) ELSE 0 - Need(mine[c].lines, s)
  BY <1>1 DEF Gone
<1>5. CallStep(c)
  BY DEF CallStep, SaveStep
<1>6. SumOf(AllGone(s)') = SumOf(AllGone(s)) + Gone(c, s)'
  BY <1>3, <1>4, <1>5, SumsMove
<1>7. /\ InRows(s) \in [Numbers -> Int] /\ InRows(s)' \in [Numbers -> Int]
      /\ IsFiniteSet(Numbers)
  <2>1. InRows(s) \in [Numbers -> Nat]
    BY SoldIs DEF PlainShop
  <2>2. \A m \in Numbers : InRow(m, s)' \in Nat
    BY RowNeeds DEF InRow, IsConfirmed, RecordsOK, PlainShop
  <2>3. InRows(s)' \in [Numbers -> Nat]
    BY <2>2 DEF InRows
  <2>4. IsFiniteSet(Numbers)
    BY FinitelyMany, FS_Interval DEF Numbers
  <2>5. QED
    BY <2>1, <2>3, <2>4
<1>8. TurnOK(c) /\ KindOK(c) /\ Saving = {"look", "commit"}
  BY TurnsAre, KindsAre DEF Saving
<1>9. rows' = [rows EXCEPT ![n] = rows'[n]]
  BY <1>1 DEF Write, RecordsOK
<1>10. \A m \in Numbers : m # n => InRows(s)'[m] = InRows(s)[m]
  BY <1>9 DEF InRows, InRow, RecordsOK
<1>11. SumOf(InRows(s)') = SumOf(InRows(s)) + (InRows(s)'[n] - InRows(s)[n])
  BY <1>2, <1>7, <1>10, SumChanges
<1>12. InRows(s)'[n] = InRow(n, s)' /\ InRows(s)[n] = InRow(n, s)
  BY <1>1, <1>2 DEF InRows
<1>13. InRow(n, s)' - InRow(n, s) = Gone(c, s)'
  <2>1. CASE c \in Placing
    <3>1. rows[n] = NoRow /\ seen[c] = NoRow /\ IsConfirmed(mine[c])
      BY <1>1, <1>8, <2>1 DEF TurnOK, KindOK
    <3>2. rows'[n] = mine[c]
      BY <1>1, <1>2, <3>1 DEF Write, RecordsOK
    <3>3. InRow(n, s) = 0 /\ InRow(n, s)' = Need(mine[c].lines, s)
      BY <1>1, <3>1, <3>2 DEF InRow, IsConfirmed
    <3>4. QED
      BY <1>3, <1>4, <2>1, <3>3
  <2>2. CASE c \in Cancelling
    <3>1. /\ IsConfirmed(rows[n]) /\ mine[c].lines = rows[n].lines
          /\ seen[c] = rows[n] /\ mine[c].status = "CANCELLED"
      BY <1>1, <1>8, <2>2 DEF TurnOK, KindOK
    <3>2. rows'[n] = Rewritten(c) /\ Rewritten(c).status = "CANCELLED"
      <4>1. seen[c] # NoRow /\ seen[c].status = "CONFIRMED"
        BY <3>1 DEF IsConfirmed
      <4>2. rows' = [rows EXCEPT ![n] = Rewritten(c)]
        BY <1>1, <4>1 DEF Write
      <4>3. rows'[n] = Rewritten(c)
        BY <1>2, <4>2 DEF RecordsOK
      <4>4. Rewritten(c).status = "CANCELLED"
        BY <3>1, <4>1 DEF Rewritten
      <4>5. QED
        BY <4>3, <4>4
    <3>3. InRow(n, s) = Need(mine[c].lines, s) /\ InRow(n, s)' = 0
      BY <1>1, <3>1, <3>2 DEF InRow, IsConfirmed
    <3>4. QED
      BY <1>0, <1>3, <1>4, <2>2, <3>3
  <2>3. QED
    BY <1>0, <2>1, <2>2
<1>14. SumOf(InRows(s)) = SumOf(AllGone(s))
  BY DEF TurnsOK, Balanced
<1>15. QED
  BY <1>6, <1>11, <1>12, <1>13, <1>14

LEMMA TurnsStep ==
    ASSUME NEW Wares, PlainShop(Wares), RecordsOK, RecordsOK', NumbersInv, KindsOK, KindsOK',
           TurnsOK, NEW c \in ShopCalls, CallStep(c), oneByOne' = oneByOne
    PROVE  TurnsOK'
<1> SUFFICES ASSUME oneByOne, oneByOne' PROVE TurnsOK'
  BY DEF TurnsOK
<1>0. TurnOK(c) /\ KindOK(c) /\ Balanced /\ stock \in [Procs -> Counts]
  BY TurnsAre, KindsAre
<1>1. Placing \cap Cancelling = {} /\ Placing \cup Cancelling = ShopCalls
  BY OrdersAssumption DEF ShopCalls
<1>2. Saving = {"look", "commit"} /\ Underway = {"draw", "find", "lines", "found", "look", "commit"}
  BY DEF Saving, Underway
<1>3. ASSUME rows' = rows, \A s \in Skus : Gone(c, s)' = Gone(c, s), TurnOK(c)',
             stock' = stock \/ place[c] \in Underway \/ place'[c] \in Underway
      PROVE  TurnsOK'
  BY <1>0, <1>3, BalanceStays, TurnsKept
<1>4. ASSUME NEW p \in Procs, NEW cart \in Carts, c \in Placing, PlaceBegin(c, p, cart)
      PROVE  TurnsOK'
  <2>1. rows' = rows /\ place[c] = "idle" /\ place'[c] = "draw"
    BY <1>4 DEF PlaceBegin, MoveTo, RecordsOK
  <2>2. TurnOK(c)'
    BY <1>1, <1>2, <1>4, <2>1 DEF TurnOK
  <2>3. \A s \in Skus : Gone(c, s)' = Gone(c, s)
    BY <1>4, <2>1 DEF Gone
  <2>4. QED
    BY <1>2, <1>3, <2>1, <2>2, <2>3
<1>5. ASSUME NEW p \in Procs, NEW cart \in Carts, c \in Placing, PlaceRefused(c, p, cart)
      PROVE  TurnsOK'
  <2>1. cart \in Lines(Wares)
    BY DEF PlainShop
  <2>2. ~(cart[Min(Refused(cart, stock[p]))].qty < 0)
    BY <1>5, <2>1, RefusedLeaves DEF PlaceRefused
  <2>3. stock' = stock /\ rows' = rows /\ place[c] = "idle" /\ place'[c] = "refused"
    BY <1>5, <2>2 DEF PlaceRefused, MoveTo, RecordsOK
  <2>4. TurnOK(c)'
    BY <1>1, <1>2, <1>5, <2>3 DEF TurnOK
  <2>5. \A s \in Skus : Gone(c, s)' = Gone(c, s)
    BY <1>5, <2>3 DEF Gone
  <2>6. QED
    BY <1>3, <2>3, <2>4, <2>5
<1>6. CASE c \in Placing /\ DrawNumber(c)
  <2>1. /\ rows' = rows /\ place[c] = "draw" /\ place'[c] = "look"
        /\ oid'[c] = Cardinality(Stored) + 1
    BY <1>6 DEF DrawNumber, MoveTo, RecordsOK
  <2>2. Cardinality(Stored) + 1 \in Numbers /\ Cardinality(Stored) \in Nat
    BY <1>6, <2>1, NumberLeft, FinitelyMany DEF Ended
  <2>3. Stored = 1..Cardinality(Stored)
    BY DEF NumbersInv, NumbersDense
  <2>4. rows[oid'[c]] = NoRow
    BY <2>1, <2>2, <2>3 DEF Stored
  <2>5. TurnOK(c)'
    BY <1>1, <1>2, <1>6, <2>1, <2>4 DEF TurnOK
  <2>6. \A s \in Skus : Gone(c, s)' = Gone(c, s)
    BY <1>6, <2>1 DEF Gone
  <2>7. QED
    BY <1>2, <1>3, <2>1, <2>5, <2>6
<1>7. CASE PlaceInvalid(c) \/ InsertFails(c) \/ DatabaseFails(c)
  <2>1. rows' = rows /\ place[c] \in {"draw", "look", "commit"} /\ place'[c] = "refused"
    BY <1>7 DEF PlaceInvalid, InsertFails, DatabaseFails, GiveBack, MoveTo, RecordsOK
  <2>2. TurnOK(c)'
    BY <1>2, <2>1 DEF TurnOK
  <2>3. \A s \in Skus : Gone(c, s)' = Gone(c, s)
    BY <2>1 DEF Gone
  <2>4. QED
    BY <1>2, <1>3, <2>1, <2>2, <2>3
<1>8. ASSUME NEW p \in Procs, NEW n \in Numbers, CancelBegin(c, p, n) PROVE TurnsOK'
  <2>1. rows' = rows /\ place[c] = "idle" /\ place'[c] = "find"
    BY <1>8 DEF CancelBegin, MoveTo, RecordsOK
  <2>2. TurnOK(c)'
    BY <1>2, <2>1 DEF TurnOK
  <2>3. \A s \in Skus : Gone(c, s)' = Gone(c, s)
    BY <2>1 DEF Gone
  <2>4. QED
    BY <1>2, <1>3, <2>1, <2>2, <2>3
<1>9. CASE c \in Cancelling /\ (FindOrder(c) \/ FindLines(c) \/ FindFails(c) \/ CancelRefused(c))
  <2>1. /\ rows' = rows /\ place[c] \in {"find", "lines", "found"}
        /\ \/ place'[c] = "refused"
           \/ place'[c] \in {"lines", "found"} /\ mine'[c] = rows'[oid'[c]]
    <3>1. CASE FindLines(c)
      BY <1>0, <1>9, <3>1, LinesRead DEF TurnOK
    <3>2. CASE FindOrder(c) \/ FindFails(c) \/ CancelRefused(c)
      BY <1>9, <3>2 DEF FindOrder, FindFails, CancelRefused, MoveTo, RecordsOK
    <3>3. QED
      BY <1>9, <3>1, <3>2
  <2>2. TurnOK(c)'
    BY <1>1, <1>2, <1>9, <2>1 DEF TurnOK
  <2>3. \A s \in Skus : Gone(c, s)' = Gone(c, s)
    BY <1>1, <1>9, <2>1 DEF Gone
  <2>4. QED
    BY <1>2, <1>3, <2>1, <2>2, <2>3
<1>10. CASE c \in Cancelling /\ CancelRestores(c)
  <2>1. /\ rows' = rows /\ oid' = oid /\ place[c] = "found" /\ place'[c] = "look"
        /\ IsConfirmed(mine[c]) /\ mine[c] = rows[oid[c]] /\ mine[c] \in Rows
    BY <1>0, <1>10 DEF CancelRestores, MayCancel, MoveTo, TurnOK, IsConfirmed, RecordsOK
  <2>2. /\ mine'[c].lines = mine[c].lines /\ mine'[c].buyer = mine[c].buyer
        /\ mine[c].lines \in Lines(Wares)
    <3>1. mine'[c] = [mine[c] EXCEPT !.status = "CANCELLED"]
      BY <1>10 DEF CancelRestores, RecordsOK
    <3>2. QED
      BY <2>1, <3>1 DEF Rows, PlainShop
  <2>3. ASSUME NEW p \in Procs PROVE Fits(mine'[c].lines, stock'[p])
    <3>1. p = proc[c] /\ stock[p] \in Counts
      BY <1>0, <1>2, <2>1 DEF KindOK, PlainShop
    <3>2. stock'[p] = Plus(stock[p], mine[c].lines)
      BY <1>0, <1>10, <3>1 DEF CancelRestores
    <3>3. QED
      BY <2>2, <3>1, <3>2, PlusMinus
  <2>4. TurnOK(c)'
    <3>1. /\ IsConfirmed(rows'[oid'[c]]) /\ mine'[c].buyer = rows'[oid'[c]].buyer
          /\ mine'[c].lines = rows'[oid'[c]].lines
      BY <2>1, <2>2
    <3>2. \A p \in Procs : Fits(mine'[c].lines, stock'[p])
      BY <2>3
    <3>3. QED
      BY <1>1, <1>2, <1>10, <2>1, <3>1, <3>2 DEF TurnOK, IsConfirmed, Fits
  <2>5. \A s \in Skus : Gone(c, s)' = Gone(c, s)
    BY <1>1, <1>10, <2>1 DEF Gone
  <2>6. QED
    BY <1>2, <1>3, <2>1, <2>4, <2>5
<1>11. CASE LookUp(c)
  <2>1. /\ rows' = rows /\ oid' = oid /\ mine' = mine /\ stock' = stock
        /\ place[c] = "look" /\ place'[c] = "commit" /\ seen'[c] = rows[oid[c]]
    BY <1>11 DEF LookUp, MoveTo, RecordsOK
  <2>2. TurnOK(c)'
    BY <1>0, <1>1, <1>2, <2>1 DEF TurnOK, IsConfirmed
  <2>3. \A s \in Skus : Gone(c, s)' = Gone(c, s)
    BY <2>1 DEF Gone
  <2>4. QED
    BY <1>2, <1>3, <2>1, <2>2, <2>3
<1>12. CASE Commit(c)
  <2>1. Balanced'
    BY <1>12, BalanceMoves
  <2>2. place[c] = "commit" /\ place'[c] \in {"placed", "cancelled"}
    BY <1>12 DEF Commit, MoveTo, RecordsOK
  <2>3. TurnOK(c)'
    BY <1>2, <2>2 DEF TurnOK
  <2>4. QED
    BY <1>2, <2>1, <2>2, <2>3, TurnsKept
<1>13. ~Cancelled(c)
  BY DEF Cancelled
<1>14. FindOrder(c) \/ FindLines(c) \/ FindFails(c) \/ CancelRefused(c) \/ CancelRestores(c) =>
         c \in Cancelling
  BY <1>0, <1>1 DEF FindOrder, FindLines, FindFails, CancelRefused, CancelRestores, MoveTo, KindOK
<1>15. QED
  BY <1>4, <1>5, <1>6, <1>7, <1>8, <1>9, <1>10, <1>11, <1>12, <1>13, <1>14
     DEF CallStep, PlaceStep, CancelStep, SaveStep

----------------------------------------------------------------------------
(* Calls that overlap. *)

\* A save leaves the lines of the aggregate in the row; a placement leaves a
\* cancelled order only where one was.
LEMMA WriteIs ==
    ASSUME RecordsOK, NumbersInv, KindsOK, NEW c \in ShopCalls, place[c] = "commit", Write(c)
    PROVE  /\ oid[c] \in Numbers
           /\ \A m \in Numbers : m # oid[c] => rows'[m] = rows[m]
           /\ rows'[oid[c]].lines = mine[c].lines
           /\ c \in Placing /\ rows'[oid[c]].status = "CANCELLED" =>
                rows[oid[c]] # NoRow /\ rows[oid[c]].status = "CANCELLED"
           /\ c \in Cancelling /\ IsConfirmed(seen[c]) => rows'[oid[c]].status = "CANCELLED"
<1>1. KindOK(c) /\ Placing \cap Cancelling = {} /\ Placing \cup Cancelling = ShopCalls
  BY KindsAre, OrdersAssumption DEF ShopCalls
<1>2. oid[c] \in Numbers
  <2>1. c \in Placing => oid[c] \in Numbers
    BY DEF NumbersInv
  <2>2. c \in Cancelling => oid[c] \in Stored
    BY DEF NumbersInv
  <2>3. QED
    BY <1>1, <2>1, <2>2 DEF Stored
<1>3. CASE seen[c] = NoRow /\ rows[oid[c]] = NoRow /\ rows' = [rows EXCEPT ![oid[c]] = mine[c]]
  BY <1>1, <1>2, <1>3 DEF RecordsOK, KindOK, IsConfirmed
<1>4. CASE seen[c] # NoRow /\ rows' = [rows EXCEPT ![oid[c]] = Rewritten(c)]
  <2>1. rows'[oid[c]] = Rewritten(c) /\ \A m \in Numbers : m # oid[c] => rows'[m] = rows[m]
    BY <1>2, <1>4 DEF RecordsOK
  <2>2. rows[oid[c]] # NoRow
    BY <1>4 DEF NumbersInv, Stored
  <2>3. c \in Placing => mine[c].status = "CONFIRMED"
    BY <1>1 DEF KindOK, IsConfirmed
  <2>4. c \in Cancelling => mine[c].status = "CANCELLED"
    BY <1>1 DEF KindOK
  <2>5. QED
    BY <1>2, <2>1, <2>2, <2>3, <2>4 DEF Rewritten, IsConfirmed
<1>5. QED
  BY <1>3, <1>4 DEF Write

\* What has ended stays as it is.
LEMMA SourceStays ==
    ASSUME RecordsOK, KindsOK, NEW c \in ShopCalls, CallStep(c),
           NEW q \in Placing, NEW n, NEW lines, Source(q, n, lines)
    PROVE  q # c /\ Source(q, n, lines)'
<1>1. q \in ShopCalls
  BY DEF ShopCalls
<1>2. q # c
  BY OthersStay DEF Source, Underway
<1>3. QED
  BY <1>1, <1>2, OthersStay DEF Source

\* A step writes the call's row, at its end and as it should, or none.
LEMMA StoresOrNot ==
    ASSUME RecordsOK, KindsOK, NEW c \in ShopCalls, CallStep(c), CancelsWhole'
    PROVE  \/ rows' = rows
           \/ /\ place[c] = "commit" /\ Write(c) /\ mine' = mine /\ oid' = oid
              /\ c \in Placing => place'[c] \in {"placed", "timedout"}
              /\ c \in Cancelling => place'[c] = "cancelled"
<1>1. Placing \cap Cancelling = {} /\ Placing \cup Cancelling = ShopCalls
  BY OrdersAssumption DEF ShopCalls
<1>2. CASE Commit(c)
  BY <1>1, <1>2 DEF Commit, MoveTo, IsPlacement, RecordsOK
<1>3. CASE Cancelled(c)
  <2>1. mine' = mine /\ oid' = oid /\ place'[c] = "timedout"
    BY <1>3 DEF Cancelled, RecordsOK
  <2>2. place[c] = "commit" => c \notin Cancelling
    BY <2>1, SavingGoesOn DEF Saving
  <2>3. QED
    BY <1>3, <2>1, <2>2 DEF Cancelled
<1>4. CASE ~Commit(c) /\ ~Cancelled(c)
  BY <1>4 DEF CallStep, PlaceStep, PlaceBegin, PlaceRefused, DrawNumber, PlaceInvalid,
       CancelStep, CancelBegin, FindOrder, FindLines, FindFails, CancelRefused, CancelRestores,
       SaveStep, LookUp, InsertFails, DatabaseFails, GiveBack
<1>5. QED
  BY <1>2, <1>3, <1>4

\* A cancellation comes upon a confirmed order, and stays with it.
LEMMA CancelGoes ==
    ASSUME RecordsOK, NumbersInv, KindsOK, NEW c \in Cancelling, CallStep(c), CancelsWhole'
    PROVE  /\ place'[c] = "found" /\ IsConfirmed(mine'[c]) =>
                /\ oid'[c] = oid[c] /\ oid[c] \in Numbers /\ rows[oid[c]] # NoRow
                /\ mine'[c].lines = rows[oid[c]].lines
           /\ place'[c] \in {"look", "commit", "cancelled"} =>
                /\ oid'[c] = oid[c] /\ mine'[c].lines = mine[c].lines
                /\ place[c] \in Saving \/ (place[c] = "found" /\ IsConfirmed(mine[c]))
           /\ place'[c] = "commit" => place[c] = "look" /\ seen'[c] = rows[oid[c]]
<1>1. c \notin Placing /\ c \in ShopCalls /\ KindOK(c)
  BY KindsAre, OrdersAssumption DEF ShopCalls
<1>2. CASE CancelRestores(c)
  <2>1. /\ place'[c] = "look" /\ oid' = oid /\ place[c] = "found" /\ IsConfirmed(mine[c])
        /\ mine[c] \in Rows /\ mine'[c] = [mine[c] EXCEPT !.status = "CANCELLED"]
    BY <1>1, <1>2 DEF CancelRestores, MayCancel, MoveTo, RecordsOK, IsConfirmed
  <2>2. mine'[c].lines = mine[c].lines
    BY <2>1 DEF Rows
  <2>3. QED
    BY <2>1, <2>2
<1>3. CASE LookUp(c) \/ Commit(c)
  BY <1>1, <1>3 DEF LookUp, Commit, MoveTo, IsPlacement, RecordsOK, Saving
<1>4. CASE FindOrder(c) \/ FindLines(c)
  <2>1. CASE FindOrder(c)
    BY <1>1, <2>1 DEF FindOrder, MoveTo, RecordsOK, NumbersInv, IsConfirmed
  <2>2. CASE FindLines(c)
    BY <1>1, <2>2, LinesRead, OrdersAssumption
  <2>3. QED
    BY <1>4, <2>1, <2>2
<1>5. CASE CancelStep(c) /\ ~FindOrder(c) /\ ~FindLines(c) /\ ~CancelRestores(c)
  BY <1>1, <1>5 DEF CancelStep, CancelBegin, FindFails, CancelRefused, MoveTo, RecordsOK
<1>6. CASE InsertFails(c) \/ DatabaseFails(c) \/ Cancelled(c)
  BY <1>1, <1>6 DEF InsertFails, DatabaseFails, GiveBack, Cancelled, RecordsOK
<1>7. QED
  BY <1>1, <1>2, <1>3, <1>4, <1>5, <1>6 DEF CallStep, SaveStep

LEMMA OverlapStep ==
    ASSUME RecordsOK, RecordsOK', NumbersInv, KindsOK, KindsOK', OverlapOK,
           NEW c \in ShopCalls, CallStep(c)
    PROVE  OverlapOK'
<1> SUFFICES ASSUME restarts' = 0, CancelsWhole'
             PROVE  RowsCovered' /\ CancelsCovered' /\ CoveredTwice' /\ CancelledOnce'
  BY DEF OverlapOK
<1>0. RowsCovered /\ CancelsCovered /\ CoveredTwice /\ CancelledOnce /\ CancelsWhole
  BY WholeStays, OthersStay DEF OverlapOK
<1>1. Placing \cap Cancelling = {} /\ Placing \cup Cancelling = ShopCalls
  BY OrdersAssumption DEF ShopCalls
<1>2. \A q \in Placing : \A n, lines :
        Source(q, n, lines) => q # c /\ Source(q, n, lines)'
  BY SourceStays
<1>3. /\ place[c] = "idle" \/ place[c] \in Underway
      /\ \A d \in ShopCalls : d # c =>
           place'[d] = place[d] /\ oid'[d] = oid[d] /\ mine'[d] = mine[d] /\ seen'[d] = seen[d]
  BY OthersStay
<1> DEFINE Stores == /\ place[c] = "commit" /\ Write(c) /\ mine' = mine /\ oid' = oid
                     /\ c \in Placing => place'[c] \in {"placed", "timedout"}
                     /\ c \in Cancelling => place'[c] = "cancelled"
<1>4. rows' = rows \/ Stores
  BY StoresOrNot
<1>5. Stores =>
        /\ oid[c] \in Numbers
        /\ \A m \in Numbers : m # oid[c] => rows'[m] = rows[m]
        /\ rows'[oid[c]].lines = mine[c].lines
        /\ c \in Placing /\ rows'[oid[c]].status = "CANCELLED" =>
             rows[oid[c]] # NoRow /\ rows[oid[c]].status = "CANCELLED"
        /\ c \in Cancelling => rows'[oid[c]].status = "CANCELLED"
  BY <1>0, WriteIs DEF CancelledOnce
<1>6. Stores /\ c \in Placing => Source(c, oid[c], mine[c].lines)'
  BY DEF Source
<1> HIDE DEF Stores
<1>7. RowsCovered'
  <2> SUFFICES ASSUME NEW n \in Numbers, rows'[n] # NoRow
               PROVE  \E q \in Placing : Source(q, n, rows[n].lines)'
    BY DEF RowsCovered
  <2>1. CASE rows'[n] = rows[n]
    BY <1>0, <1>2, <2>1 DEF RowsCovered
  <2>2. CASE rows'[n] # rows[n]
    <3>1. Stores /\ n = oid[c]
      BY <1>4, <1>5, <2>2
    <3>2. CASE c \in Placing
      BY <1>5, <1>6, <3>1, <3>2 DEF Source, Stores
    <3>3. CASE c \in Cancelling
      <4>1. PICK q \in Placing : Source(q, oid[c], mine[c].lines)
        BY <1>0, <3>1, <3>3 DEF CancelsCovered, Stores
      <4>2. rows'[n].lines = mine[c].lines
        BY <1>5, <3>1
      <4>3. QED
        BY <1>2, <3>1, <4>1, <4>2 DEF Source
    <3>4. QED
      BY <1>1, <3>2, <3>3
  <2>3. QED
    BY <2>1, <2>2
<1>8. CancelsCovered'
  <2> SUFFICES ASSUME NEW x \in Cancelling,
                      \/ place'[x] \in {"look", "commit", "cancelled"}
                      \/ place'[x] = "found" /\ IsConfirmed(mine'[x])
               PROVE  \E q \in Placing : Source(q, oid[x], mine[x].lines)'
    BY DEF CancelsCovered, IsConfirmed
  <2>1. CASE x # c
    <3>1. place'[x] = place[x] /\ oid'[x] = oid[x] /\ mine'[x] = mine[x]
      BY <1>1, <1>3, <2>1
    <3>2. PICK q \in Placing : Source(q, oid[x], mine[x].lines)
      BY <1>0, <3>1 DEF CancelsCovered
    <3>3. Source(q, oid[x], mine[x].lines)'
      BY <1>1, <1>3, <1>2, <3>1, <3>2 DEF Source
    <3>4. QED
      BY <3>3
  <2>2. CASE x = c
    <3>1. \E q \in Placing : Source(q, oid'[c], mine'[c].lines)
      <4>1. CASE place'[c] = "found"
        <5>1. /\ oid'[c] = oid[c] /\ oid[c] \in Numbers /\ rows[oid[c]] # NoRow
              /\ mine'[c].lines = rows[oid[c]].lines
          BY <2>2, <4>1, CancelGoes
        <5>2. QED
          BY <1>0, <2>2, <4>1, <5>1 DEF RowsCovered
      <4>2. CASE place'[c] # "found"
        <5>1. /\ oid'[c] = oid[c] /\ mine'[c].lines = mine[c].lines
              /\ place[c] \in Saving \/ (place[c] = "found" /\ IsConfirmed(mine[c]))
          BY <2>2, <4>2, CancelGoes
        <5>2. QED
          BY <1>0, <2>2, <5>1 DEF CancelsCovered, Saving
      <4>3. QED
        BY <4>1, <4>2
    <3>2. PICK q \in Placing : Source(q, oid'[c], mine'[c].lines)
      BY <3>1
    <3>3. q # c /\ q \in ShopCalls
      BY <1>1, <1>2, <3>2
    <3>4. Source(q, oid[c], mine[c].lines)'
      BY <1>3, <3>2, <3>3 DEF Source
    <3>5. QED
      BY <2>2, <3>4
  <2>3. QED
    BY <2>1, <2>2
<1>9. CoveredTwice'
  <2> SUFFICES ASSUME NEW x \in Cancelling, place'[x] = "cancelled", IsConfirmed(rows'[oid'[x]])
               PROVE  \E q, r \in Placing :
                         /\ q # r
                         /\ Source(q, oid[x], rows[oid[x]].lines)'
                         /\ Source(r, oid[x], mine[x].lines)'
    BY DEF CoveredTwice, IsConfirmed
  <2>1. PICK r \in Placing : Source(r, oid[x], mine[x].lines)'
    BY <1>8 DEF CancelsCovered
  <2>2. CASE x = c
    <3>1. Stores => FALSE
      BY <1>1, <1>5, <2>2 DEF Stores, IsConfirmed
    <3>2. rows' = rows
      BY <1>4, <3>1
    <3>3. Commit(c)
      BY <1>1, <1>3, <2>2 DEF CallStep, CancelStep, CancelBegin, FindOrder, FindLines, FindFails,
           CancelRefused, CancelRestores, SaveStep, LookUp, InsertFails, DatabaseFails, GiveBack,
           Cancelled, MoveTo, RecordsOK, Underway
    <3>4. place[c] = "commit" /\ Write(c) /\ mine' = mine /\ oid' = oid
      BY <3>3 DEF Commit, MoveTo
    <3>5. Stores
      BY <1>1, <2>2, <3>4 DEF Stores
    <3>6. QED
      BY <3>1, <3>5
  <2>3. CASE x # c /\ rows'[oid[x]] = rows[oid[x]]
    <3>1. place'[x] = place[x] /\ oid'[x] = oid[x] /\ mine'[x] = mine[x]
      BY <1>1, <1>3, <2>3
    <3>2. PICK q, p \in Placing : /\ q # p
                                  /\ Source(q, oid[x], rows[oid[x]].lines)
                                  /\ Source(p, oid[x], mine[x].lines)
      BY <1>0, <2>3, <3>1 DEF CoveredTwice
    <3>3. q # c /\ p # c /\ q \in ShopCalls /\ p \in ShopCalls
      BY <1>1, <1>2, <3>2
    <3>4. Source(q, oid[x], rows[oid[x]].lines)' /\ Source(p, oid[x], mine[x].lines)'
      BY <1>3, <2>3, <3>1, <3>2, <3>3 DEF Source
    <3>5. QED
      BY <3>2, <3>4
  <2>4. CASE x # c /\ rows'[oid[x]] # rows[oid[x]]
    <3>1. place[x] = "cancelled" /\ oid'[x] = oid[x] /\ mine'[x] = mine[x]
      BY <1>1, <1>3, <2>4
    <3>2. Stores
      BY <1>4, <2>4
    <3>3. PICK p \in Placing : Source(p, oid[x], mine[x].lines)
      BY <1>0, <3>1 DEF CancelsCovered
    <3>4. p # c /\ p \in ShopCalls
      BY <1>1, <1>2, <3>3
    <3>5. Source(p, oid[x], mine[x].lines)'
      BY <1>3, <3>1, <3>3, <3>4 DEF Source
    <3>6. oid[x] \in Numbers
      BY <3>1 DEF KindsOK
    <3>7. oid[x] = oid[c]
      BY <1>5, <2>4, <3>2, <3>6
    <3>8. c \in Placing
      BY <1>1, <1>5, <3>1, <3>2, <3>7 DEF IsConfirmed
    <3>9. Source(c, oid[x], rows[oid[x]].lines)'
      BY <1>5, <1>6, <3>1, <3>2, <3>7, <3>8 DEF Source, Stores
    <3>10. QED
      BY <3>4, <3>5, <3>8, <3>9
  <2>5. QED
    BY <2>2, <2>3, <2>4
<1>10. CancelledOnce'
  <2>1. ASSUME NEW n \in Numbers, rows'[n] # NoRow, rows'[n].status = "CANCELLED"
        PROVE  \E x \in Cancelling : place'[x] = "cancelled" /\ oid'[x] = n
    <3>1. CASE Stores /\ c \in Cancelling /\ n = oid[c]
      BY <3>1 DEF Stores
    <3>2. CASE ~(Stores /\ c \in Cancelling /\ n = oid[c])
      <4>1. rows[n] # NoRow /\ rows[n].status = "CANCELLED"
        BY <1>1, <1>4, <1>5, <2>1, <3>2
      <4>2. PICK x \in Cancelling : place[x] = "cancelled" /\ oid[x] = n
        BY <1>0, <4>1 DEF CancelledOnce
      <4>3. x # c /\ x \in ShopCalls
        BY <1>1, <1>3, <4>2 DEF Underway
      <4>4. QED
        BY <1>3, <4>2, <4>3
    <3>3. QED
      BY <3>1, <3>2
  <2>2. ASSUME NEW x \in Cancelling, place'[x] = "commit" PROVE IsConfirmed(seen'[x])
    <3>1. CASE x # c
      BY <1>0, <1>1, <1>3, <2>2, <3>1 DEF CancelledOnce
    <3>2. CASE x = c
      <4>1. place[c] = "look" /\ seen'[c] = rows[oid[c]]
        BY <2>2, <3>2, CancelGoes
      <4>2. oid[c] \in Stored
        BY <3>2, <4>1 DEF NumbersInv
      <4>3. oid[c] \in Numbers /\ rows[oid[c]] # NoRow /\ rows[oid[c]] \in Rows
        BY <4>2 DEF Stored, RecordsOK
      <4>4. rows[oid[c]].status # "CANCELLED"
        <5>1. SUFFICES ASSUME rows[oid[c]].status = "CANCELLED" PROVE FALSE
          OBVIOUS
        <5>2. PICK y \in Cancelling : place[y] = "cancelled" /\ oid[y] = oid[c]
          BY <1>0, <4>3, <5>1 DEF CancelledOnce
        <5>3. y \in Undoing /\ c \in Undoing
          BY <3>2, <4>1, <5>2 DEF KindsOK, Undoing
        <5>4. y = c
          BY <1>0, <5>2, <5>3 DEF CancelsWhole
        <5>5. QED
          BY <4>1, <5>2, <5>4
      <4>5. rows[oid[c]].status = "CONFIRMED"
        BY <4>3, <4>4 DEF Rows
      <4>6. QED
        BY <3>2, <4>1, <4>3, <4>5 DEF IsConfirmed
    <3>3. QED
      BY <3>1, <3>2
  <2>3. QED
    BY <2>1, <2>2 DEF CancelledOnce, IsConfirmed
<1>11. QED
  BY <1>7, <1>8, <1>9, <1>10

\* Confirmed orders and saved cancellations have placements of their own.
LEMMA SoldCovered ==
    ASSUME NEW Wares, PlainShop(Wares), RecordsOK, NumbersInv, KindsOK,
           RowsCovered, CancelsCovered, CoveredTwice, CancelsWhole, NEW s
    PROVE  Sold(s) <= SumOf(AllGone(s))
<1> DEFINE E == {c \in Placing : place[c] \in {"placed", "timedout"}}
           X == {x \in Cancelling : place[x] = "cancelled"}
           N == {n \in Numbers : IsConfirmed(rows[n])}
           v == CallQuantities(E, s)
           w == CallQuantities(X, s)
           u == [n \in N |-> Need(rows[n].lines, s)]
           Own(q, n) == /\ Source(q, n, rows[n].lines)
                        /\ \A x \in X : oid[x] = n =>
                             \E r \in E : r # q /\ Source(r, n, mine[x].lines)
           f == [n \in N |-> CHOOSE q \in E : Own(q, n)]
           Other(r, x) == /\ Source(r, oid[x], mine[x].lines)
                          /\ oid[x] \in N => r # f[oid[x]]
           g == [x \in X |-> CHOOSE r \in E : Other(r, x)]
<1>0. Placing \cap Cancelling = {} /\ Placing \cup Cancelling = ShopCalls /\ IsFiniteSet(ShopCalls)
  BY OrdersAssumption DEF ShopCalls
<1>1. /\ IsFiniteSet(E) /\ IsFiniteSet(X) /\ IsFiniteSet(N) /\ IsFiniteSet(Numbers)
      /\ E \in SUBSET ShopCalls /\ X \in SUBSET ShopCalls /\ N \in SUBSET Numbers
  <2>1. IsFiniteSet(Numbers)
    BY FinitelyMany, FS_Interval DEF Numbers
  <2>2. E \subseteq ShopCalls /\ X \subseteq ShopCalls /\ N \subseteq Numbers
    BY <1>0
  <2>3. QED
    BY <1>0, <2>1, <2>2, FS_Subset
<1>2. /\ \A c \in E : mine[c] \in Rows
      /\ \A x \in X : mine[x] \in Rows /\ x \in Undoing /\ oid[x] \in Numbers
      /\ \A n \in N : rows[n] \in Rows
  BY <1>0 DEF KindsOK, IsConfirmed, RecordsOK, Undoing
<1>3. v \in [E -> Nat] /\ w \in [X -> Nat] /\ u \in [N -> Nat]
  <2>1. \A n \in N : Need(rows[n].lines, s) \in Nat
    BY <1>2, RowNeeds DEF PlainShop
  <2> HIDE DEF E, X
  <2>2. v \in [E -> Nat] /\ w \in [X -> Nat]
    BY <1>1, <1>2, CallSumIs DEF PlainShop
  <2>3. QED
    BY <2>1, <2>2
<1>4. ASSUME NEW n \in N PROVE \E q \in E : Own(q, n)
  <2>1. CASE \E x \in X : oid[x] = n
    <3>1. PICK x \in X : oid[x] = n
      BY <2>1
    <3>2. PICK q, r \in Placing : /\ q # r
                                  /\ Source(q, n, rows[n].lines) /\ Source(r, n, mine[x].lines)
      BY <3>1 DEF CoveredTwice
    <3>3. \A y \in X : oid[y] = n => y = x
      BY <1>2, <3>1 DEF CancelsWhole
    <3>4. q \in E /\ r \in E
      BY <3>2 DEF Source
    <3>5. QED
      BY <3>2, <3>3, <3>4
  <2>2. CASE ~\E x \in X : oid[x] = n
    <3>1. PICK q \in Placing : Source(q, n, rows[n].lines)
      BY DEF RowsCovered, IsConfirmed
    <3>2. q \in E
      BY <3>1 DEF Source
    <3>3. QED
      BY <2>2, <3>1, <3>2
  <2>3. QED
    BY <2>1, <2>2
<1>5. \A n \in N : f[n] \in E /\ Own(f[n], n)
  <2> HIDE DEF Own, E, N
  <2>1. QED
    BY <1>4
<1>6. ASSUME NEW x \in X PROVE \E r \in E : Other(r, x)
  <2> HIDE DEF f
  <2>1. CASE oid[x] \in N
    <3>1. Own(f[oid[x]], oid[x])
      BY <1>5, <2>1
    <3>2. QED
      BY <2>1, <3>1
  <2>2. CASE oid[x] \notin N
    <3>1. PICK q \in Placing : Source(q, oid[x], mine[x].lines)
      BY DEF CancelsCovered
    <3>2. q \in E
      BY <3>1 DEF Source
    <3>3. QED
      BY <2>2, <3>1, <3>2
  <2>3. QED
    BY <2>1, <2>2
<1>7. \A x \in X : g[x] \in E /\ Other(g[x], x)
  <2> HIDE DEF Other, E, X
  <2>1. QED
    BY <1>6
<1>8. f \in [N -> E] /\ g \in [X -> E]
  <2> HIDE DEF Own, Other, E, X, N
  <2>1. \A n \in N : (CHOOSE q \in E : Own(q, n)) \in E
    BY <1>4
  <2>2. \A x \in X : (CHOOSE r \in E : Other(r, x)) \in E
    BY <1>6
  <2>3. QED
    BY <2>1, <2>2
<1> HIDE DEF f, g
<1>9. /\ \A n \in N : oid[f[n]] = n /\ mine[f[n]].lines = rows[n].lines
      /\ \A x \in X : oid[g[x]] = oid[x] /\ mine[g[x]].lines = mine[x].lines
  BY <1>5, <1>7 DEF Source
<1>10. /\ \A n, m \in N : f[n] = f[m] => n = m
       /\ \A x, y \in X : g[x] = g[y] => x = y
       /\ \A n \in N, x \in X : f[n] # g[x]
  <2>1. \A n, m \in N : f[n] = f[m] => n = m
    BY <1>9
  <2>2. ASSUME NEW x \in X, NEW y \in X, g[x] = g[y] PROVE x = y
    <3>1. oid[x] = oid[y]
      BY <1>9, <2>2
    <3>2. QED
      BY <1>2, <3>1 DEF CancelsWhole
  <2>3. ASSUME NEW n \in N, NEW x \in X, f[n] = g[x] PROVE FALSE
    <3>1. oid[x] = n
      BY <1>9, <2>3
    <3>2. g[x] # f[n]
      BY <1>7, <3>1
    <3>3. QED
      BY <2>3, <3>2
  <2>4. QED
    BY <2>1, <2>2, <2>3
<1>11. /\ \A n \in N : u[n] = v[f[n]]
       /\ \A x \in X : w[x] = v[g[x]]
  <2>1. \A n \in N : v[f[n]] = Need(mine[f[n]].lines, s)
    BY <1>5 DEF CallQuantities
  <2>2. \A x \in X : v[g[x]] = Need(mine[g[x]].lines, s) /\ w[x] = Need(mine[x].lines, s)
    BY <1>7 DEF CallQuantities
  <2>3. \A n \in N : u[n] = Need(rows[n].lines, s)
    OBVIOUS
  <2> HIDE DEF E, X, N, u, v, w
  <2>4. QED
    BY <1>9, <2>1, <2>2, <2>3
<1> DEFINE F == {f[n] : n \in N}
           G == {g[x] : x \in X}
           padded(A, z) == [c \in ShopCalls |-> IF c \in A THEN z[c] ELSE 0]
<1>12. F \in SUBSET E /\ G \in SUBSET E /\ F \cap G = {}
  BY <1>5, <1>7, <1>10
<1>13. \A n \in Numbers : InRows(s)[n] = IF n \in N THEN u[n] ELSE 0
  BY DEF InRows, InRow
<1>14. \A c \in ShopCalls : padded(E, v)[c] = AllGone(s)[c] + padded(X, w)[c]
  <2>1. \A c \in ShopCalls : AllGone(s)[c] =
            IF c \in E THEN Need(mine[c].lines, s)
            ELSE IF c \in X THEN 0 - Need(mine[c].lines, s) ELSE 0
    BY <1>0 DEF AllGone, Gone
  <2>2. /\ \A c \in E : v[c] = Need(mine[c].lines, s) /\ v[c] \in Nat
        /\ \A c \in X : w[c] = Need(mine[c].lines, s) /\ w[c] \in Nat
    BY <1>3 DEF CallQuantities
  <2>3. E \cap X = {}
    BY <1>0
  <2> HIDE DEF E, X, v, w
  <2>4. QED
    BY <2>1, <2>2, <2>3
<1> HIDE DEF E, X, N, v, w, u
<1>15. SumOf(u) = SumOf([c \in F |-> v[c]]) /\ SumOf(w) = SumOf([c \in G |-> v[c]])
  <2>1. v \in [E -> Int] /\ w \in [X -> Int] /\ u \in [N -> Int]
    BY <1>3
  <2>2. QED
    BY <1>1, <1>8, <1>10, <1>11, <2>1, SumImage
<1> HIDE DEF F, G
<1>16. SumOf([c \in F |-> v[c]]) + SumOf([c \in G |-> v[c]]) <= SumOf(v)
  BY <1>1, <1>3, <1>12, SumParts
<1>17. SumOf(u) = Sold(s)
  <2>1. Sold(s) = SumOf(InRows(s)) /\ InRows(s) \in [Numbers -> Nat]
    BY SoldIs DEF PlainShop
  <2>2. InRows(s) \in [Numbers -> Int] /\ u \in [N -> Int]
    BY <1>3, <2>1
  <2>3. SumOf(u) = SumOf(InRows(s))
    BY <1>1, <1>13, <2>2, SumWithin
  <2>4. QED
    BY <2>1, <2>3
<1>18. SumOf(v) = SumOf(AllGone(s)) + SumOf(w)
  <2> DEFINE pv == padded(E, v)
             pw == padded(X, w)
  <2>1. \A c \in ShopCalls : /\ pv[c] = IF c \in E THEN v[c] ELSE 0
                             /\ pw[c] = IF c \in X THEN w[c] ELSE 0
    OBVIOUS
  <2>2. pv \in [ShopCalls -> Int] /\ pw \in [ShopCalls -> Int] /\ v \in [E -> Int] /\ w \in [X -> Int]
    BY <1>3
  <2>3. \A c \in ShopCalls : pv[c] = AllGone(s)[c] + pw[c]
    BY <1>14
  <2> HIDE DEF pv, pw
  <2>4. SumOf(v) = SumOf(pv) /\ SumOf(w) = SumOf(pw)
    BY <1>0, <1>1, <2>1, <2>2, SumWithin
  <2>5. AllGone(s) \in [ShopCalls -> Int]
    BY CallsCount DEF PlainShop
  <2>6. SumOf(pv) = SumOf(AllGone(s)) + SumOf(pw)
    BY <1>0, <2>2, <2>3, <2>5, SumAdds
  <2>7. QED
    BY <2>4, <2>6
<1>19. SumOf(w) \in Int /\ SumOf(AllGone(s)) \in Int /\ SumOf(u) \in Int
  <2>1. w \in [X -> Int] /\ u \in [N -> Int]
    BY <1>3
  <2>2. QED
    BY <1>1, <2>1, SumInt, CallsCount DEF PlainShop
<1>20. QED
  BY <1>15, <1>16, <1>17, <1>18, <1>19

\* The invariant says what the stock covers.
LEMMA InvCovers ==
    ASSUME NEW Wares, PlainShop(Wares), RecordsOK, NumbersInv, StockInv
    PROVE  StockCovers
<1> USE DEF StockInv
<1>1. ASSUME Counted, NEW p \in Procs, NEW s \in Skus
      PROVE  /\ stock[p][s] + Sold(s) + Held(s) = Initial[s] + (Sold(s) - SumOf(AllGone(s)))
             /\ Sold(s) \in Int /\ SumOf(AllGone(s)) \in Int /\ Initial[s] \in Nat
             /\ stock[p][s] \in Nat /\ Held(s) \in Int
  <2>1. stock[p][s] = Initial[s] - SumOf(AllTaken(s)) /\ stock[p][s] \in Nat
    BY <1>1 DEF Ledger, KindsOK
  <2>2. /\ SumOf(AllTaken(s)) = SumOf(AllGone(s)) + SumOf(AllAway(s))
        /\ SumOf(AllGone(s)) \in Int /\ SumOf(AllAway(s)) \in Int
    BY CallsCount DEF PlainShop
  <2>3. Held(s) = SumOf(AllAway(s))
    BY HeldIs DEF PlainShop
  <2>4. Sold(s) \in Int
    <3>1. Sold(s) = SumOf(InRows(s)) /\ InRows(s) \in [Numbers -> Nat]
      BY SoldIs DEF PlainShop
    <3>2. InRows(s) \in [Numbers -> Int] /\ IsFiniteSet(Numbers)
      BY <3>1, FinitelyMany, FS_Interval DEF Numbers
    <3>3. QED
      BY <3>1, <3>2, SumInt
  <2>5. Initial[s] \in Nat
    BY OrdersAssumption
  <2>6. QED
    BY <2>1, <2>2, <2>3, <2>4, <2>5
<1>2. StockAccounted
  <2> SUFFICES ASSUME oneByOne, NEW p \in Procs, NEW s \in Skus
               PROVE  stock[p][s] + Sold(s) + Held(s) = Initial[s]
    BY DEF StockAccounted
  <2>1. Counted
    BY DEF Counted
  <2>2. Sold(s) = SumOf(AllGone(s))
    BY SoldIs DEF PlainShop, TurnsOK, Balanced
  <2>3. QED
    BY <1>1, <2>1, <2>2
<1>3. NoOversell
  <2> SUFFICES ASSUME restarts = 0, CancelsWhole, NEW p \in Procs, NEW s \in Skus
               PROVE  stock[p][s] + Sold(s) + Held(s) <= Initial[s]
    BY DEF NoOversell
  <2>1. Counted
    BY DEF Counted
  <2>2. Sold(s) <= SumOf(AllGone(s))
    BY SoldCovered DEF OverlapOK
  <2>3. QED
    BY <1>1, <2>1, <2>2
<1>4. QED
  BY <1>2, <1>3 DEF StockCovers

LEMMA SumsStart ==
    ASSUME OrdersInit, NEW s
    PROVE  SumOf(AllTaken(s)) = 0 /\ SumOf(AllGone(s)) = 0 /\ SumOf(InRows(s)) = 0
<1>1. /\ \A c \in ShopCalls : place[c] = "idle" /\ mine[c] = NoRow
      /\ \A n \in Numbers : rows[n] = NoRow
  BY DEF OrdersInit
<1>2. \A D : IsFiniteSet(D) => SumOf([x \in D |-> 0]) = 0
  <2> SUFFICES ASSUME NEW D, IsFiniteSet(D) PROVE SumOf([x \in D |-> 0]) = 0
    OBVIOUS
  <2> DEFINE z == [x \in D |-> 0]
  <2>1. z \in [D -> Int] /\ \A x \in D : z[x] = z[x] + z[x]
    OBVIOUS
  <2> HIDE DEF z
  <2>2. SumOf(z) = SumOf(z) + SumOf(z) /\ SumOf(z) \in Int
    BY <2>1, SumAdds, SumInt
  <2>3. SumOf(z) = 0
    <3>1. \A i \in Int : i = i + i => i = 0
      OBVIOUS
    <3>2. QED
      BY <2>2, <3>1
  <2>4. QED
    BY <2>3 DEF z
<1>3. AllTaken(s) = [c \in ShopCalls |-> 0] /\ AllGone(s) = [c \in ShopCalls |-> 0]
  BY <1>1 DEF AllTaken, AllGone, Gone, Away
<1>4. InRows(s) = [n \in Numbers |-> 0]
  BY <1>1 DEF InRows, InRow, IsConfirmed
<1>5. IsFiniteSet(Numbers) /\ IsFiniteSet(ShopCalls)
  BY FinitelyMany, FS_Interval, OrdersAssumption DEF Numbers
<1>6. QED
  BY <1>2, <1>3, <1>4, <1>5

LEMMA StockInit ==
    ASSUME NEW Wares, PlainShop(Wares), OrdersInit
    PROVE  StockInv
<1>0. Placing \cap Cancelling = {} /\ Placing \cup Cancelling = ShopCalls /\ IsFiniteSet(ShopCalls)
  BY OrdersAssumption DEF ShopCalls
<1>1. /\ \A c \in ShopCalls : place[c] = "idle" /\ mine[c] = NoRow
      /\ \A n \in Numbers : rows[n] = NoRow
      /\ \A p \in Procs : stock[p] = Initial
  BY DEF OrdersInit
<1>2. KindsOK
  BY <1>0, <1>1, OrdersAssumption DEF OrdersInit, KindsOK, Underway
<1>3. \A s : SumOf(AllTaken(s)) = 0 /\ SumOf(AllGone(s)) = 0 /\ SumOf(InRows(s)) = 0
  BY SumsStart
<1>4. Ledger
  BY <1>1, <1>3, OrdersAssumption DEF Ledger
<1>5. TurnsOK
  BY <1>0, <1>1, <1>3 DEF TurnsOK, Alone, PlacesFresh, CancelsSame, Balanced, Underway, Saving
<1>6. OverlapOK
  BY <1>0, <1>1 DEF OverlapOK, RowsCovered, CancelsCovered, CoveredTwice, CancelledOnce,
                    IsConfirmed
<1>7. QED
  BY <1>2, <1>4, <1>5, <1>6 DEF StockInv

LEMMA StockInvStep ==
    ASSUME NEW Wares, PlainShop(Wares), RecordsOK, RecordsOK', NumbersInv, StockInv,
           [OrdersNext]_vars
    PROVE  StockInv'
<1> USE DEF StockInv
<1>1. CASE UNCHANGED vars
  <2>1. UNCHANGED <<stock, rows, place, proc, oid, mine, seen, oneByOne, dbFaults, timeouts, restarts>>
    BY <1>1 DEF vars, callVars, allowance
  <2>2. KindsOK'
    BY <2>1 DEF KindsOK, IsConfirmed
  <2>3. Ledger'
    BY <2>1 DEF Ledger, Counted, CancelsWhole, Undoing, AllTaken, Gone, Away
  <2>4. TurnsOK'
    BY <2>1 DEF TurnsOK, Alone, PlacesFresh, CancelsSame, Balanced, InRows, InRow, AllGone, Gone,
                IsConfirmed
  <2>5. OverlapOK'
    BY <2>1 DEF OverlapOK, CancelsWhole, Undoing, RowsCovered, CancelsCovered, CoveredTwice,
                CancelledOnce, Source, IsConfirmed
  <2>6. QED
    BY <2>2, <2>3, <2>4, <2>5
<1>2. ASSUME NEW c \in ShopCalls, CallStep(c), oneByOne' = oneByOne PROVE StockInv'
  <2>1. KindsOK'
    BY <1>2, KindsStep
  <2>2. Ledger'
    BY <1>2, <2>1, LedgerStep
  <2>3. TurnsOK'
    BY <1>2, <2>1, TurnsStep
  <2>4. OverlapOK'
    BY <1>2, <2>1, OverlapStep
  <2>5. QED
    BY <2>1, <2>2, <2>3, <2>4
<1>3. ASSUME NEW p \in Procs, Respawn(p), oneByOne' = oneByOne PROVE StockInv'
  <2>1. /\ ~oneByOne /\ restarts' = restarts + 1
        /\ stock' = [stock EXCEPT ![p] = Initial] /\ UNCHANGED <<rows, proc, oid, mine, seen>>
        /\ \A c \in ShopCalls : place'[c] = place[c] \/ place'[c] = "lost"
    BY <1>3 DEF Respawn
  <2>2. KindsOK'
    <3>1. ASSUME NEW c \in Placing
          PROVE  /\ place'[c] \notin {"find", "lines", "found", "cancelled"}
                 /\ place'[c] \in {"draw", "look", "commit", "placed", "timedout"} =>
                      IsConfirmed(mine'[c])
      BY <2>1 DEF KindsOK, IsConfirmed, ShopCalls
    <3>2. ASSUME NEW x \in Cancelling
          PROVE  /\ place'[x] \notin {"draw", "placed"}
                 /\ place'[x] \in {"idle", "find"} => mine'[x] = NoRow
                 /\ place'[x] \in {"look", "commit", "cancelled"} =>
                      oid'[x] \in Numbers /\ mine'[x] # NoRow /\ mine'[x].status = "CANCELLED"
      BY <2>1 DEF KindsOK, ShopCalls
    <3>3. \A c \in ShopCalls : place'[c] \in Underway => proc'[c] \in Procs
      BY <2>1 DEF KindsOK, Underway
    <3>4. /\ stock' \in [Procs -> [Skus -> Nat]]
          /\ proc' \in [ShopCalls -> Procs \cup {NoRow}] /\ restarts' \in Nat
      BY <2>1, OrdersAssumption DEF KindsOK
    <3>5. QED
      BY <3>1, <3>2, <3>3, <3>4 DEF KindsOK, IsConfirmed
  <2>3. restarts' # 0 /\ ~oneByOne'
    BY <1>3, <2>1 DEF KindsOK
  <2>4. QED
    BY <2>2, <2>3 DEF Ledger, Counted, TurnsOK, OverlapOK
<1>4. QED
  BY <1>1, <1>2, <1>3, NextIs

\* On carts that ask for no negative number of pieces, the stock of one
\* process covers what is confirmed: place and cancel calls that follow each
\* other lose and double no piece, and overlapping placements, with any
\* failures and timeouts, never sell more than there was while cancellations
\* are whole (StockCovers of Orders; order_usecases.py, order_repo.py).
THEOREM StockNeverOversold ==
    ASSUME NEW Wares, PlainShop(Wares)
    PROVE  OrdersSpec => []StockCovers
<1>1. OrdersInit => RecordsOK /\ NumbersInv /\ StockInv
  BY NumbersInit, StockInit
<1>2. RecordsOK /\ NumbersInv /\ StockInv /\ [OrdersNext]_vars
        => RecordsOK' /\ NumbersInv' /\ StockInv'
  BY NumbersStep, StockInvStep
<1>3. RecordsOK /\ NumbersInv /\ StockInv => StockCovers
  BY InvCovers
<1>4. QED
  BY <1>1, <1>2, <1>3, PTL DEF OrdersSpec

----------------------------------------------------------------------------
(* The promise to a buyer. *)

LEMMA PiecesAreNeed ==
    ASSUME NEW lines, NEW s
    PROVE  Atomic!Pieces(lines, s) = Need(lines, s)
  BY DEF Atomic!Pieces, Need, MapThenSumSet, MapThenFoldSet, Atomic!MapThenSumSet,
         Atomic!MapThenFoldSet

\* What is not sold is what is left and what calls hold.
LEMMA FreeIs ==
    ASSUME NEW Wares, PlainShop(Wares), RecordsOK, StockInv, oneByOne
    PROVE  /\ Free = [s \in Skus |-> Initial[s] - SumOf(AllGone(s))]
           /\ \A s \in Skus : Initial[s] \in Nat /\ SumOf(AllGone(s)) \in Int
<1>1. (CHOOSE p \in Procs : TRUE) \in Procs
  BY DEF PlainShop
<1>2. ASSUME NEW p \in Procs, NEW s \in Skus
      PROVE  /\ stock[p][s] + Held(s) = Initial[s] - SumOf(AllGone(s))
             /\ Initial[s] \in Nat /\ SumOf(AllGone(s)) \in Int
  <2>1. stock[p][s] = Initial[s] - SumOf(AllTaken(s))
    BY DEF StockInv, Ledger, Counted
  <2>2. /\ SumOf(AllTaken(s)) = SumOf(AllGone(s)) + SumOf(AllAway(s))
        /\ SumOf(AllGone(s)) \in Int /\ SumOf(AllAway(s)) \in Int
    BY CallsCount DEF PlainShop, StockInv
  <2>3. Held(s) = SumOf(AllAway(s))
    BY HeldIs DEF PlainShop, StockInv
  <2>4. Initial[s] \in Nat
    BY OrdersAssumption
  <2>5. QED
    BY <2>1, <2>2, <2>3, <2>4
<1>3. QED
  BY <1>1, <1>2 DEF Free

FreeIsUnsold == Free = [s \in Skus |-> Initial[s] - SumOf(AllGone(s))]

LEMMA FreeIsNext ==
    ASSUME NEW Wares, PlainShop(Wares)
    PROVE  RecordsOK' /\ StockInv' /\ oneByOne' => FreeIsUnsold'
<1>1. RecordsOK /\ StockInv /\ oneByOne => FreeIsUnsold
  BY FreeIs DEF FreeIsUnsold
<1>2. QED
  BY <1>1, PTL

\* After a save no call is under way, and nothing is held.
LEMMA NothingHeld ==
    ASSUME NEW Wares, PlainShop(Wares), RecordsOK, RecordsOK', StockInv, StockInv',
           oneByOne, oneByOne', NEW c \in ShopCalls, Commit(c)
    PROVE  \A s \in Skus : Initial[s] - SumOf(AllGone(s)') \in Nat
<1> SUFFICES ASSUME NEW s \in Skus PROVE Initial[s] - SumOf(AllGone(s)') \in Nat
  OBVIOUS
<1>1. CallStep(c) /\ place[c] = "commit" /\ place'[c] \in {"placed", "cancelled"}
  BY DEF CallStep, SaveStep, Commit, MoveTo, RecordsOK
<1>2. \A d \in ShopCalls : d # c => place'[d] = place[d] /\ place[d] \notin Underway
  BY <1>1, OthersStay, OnItsOwn DEF StockInv, Underway
<1>3. AllTaken(s)' = AllGone(s)'
  <2>1. \A d \in ShopCalls : Away(d, s)' = 0
    BY <1>1, <1>2 DEF Away, Underway
  <2>2. \A d \in ShopCalls : Gone(d, s)' \in Int
    <3>1. \A d \in ShopCalls : mine'[d] # NoRow => Need(mine'[d].lines, s) \in Nat
      BY RowNeeds DEF RecordsOK, PlainShop
    <3>2. QED
      BY <3>1 DEF StockInv, KindsOK, IsConfirmed, Gone, ShopCalls
  <2>3. QED
    BY <2>1, <2>2 DEF AllTaken, AllGone
<1>4. PICK p \in Procs : TRUE
  BY DEF PlainShop
<1>5. stock'[p][s] \in Nat /\ stock'[p][s] = Initial[s] - SumOf(AllTaken(s)')
  BY <1>4 DEF StockInv, KindsOK, Ledger, Counted
<1>6. QED
  BY <1>3, <1>5

\* A save is a placement or a cancellation of the book.
LEMMA CommitIsBook ==
    ASSUME NEW Wares, PlainShop(Wares), RecordsOK, RecordsOK', NumbersInv, StockInv, StockInv',
           oneByOne, oneByOne', NEW c \in ShopCalls, Commit(c)
    PROVE  Atomic!BookNext
<1> DEFINE n == oid[c]
           lines == mine[c].lines
<1>0. /\ Placing \cap Cancelling = {} /\ Placing \cup Cancelling = ShopCalls
      /\ TurnOK(c) /\ KindOK(c)
  BY TurnsAre, KindsAre, OrdersAssumption DEF ShopCalls, StockInv
<1>1. /\ place[c] = "commit" /\ place'[c] = IF c \in Placing THEN "placed" ELSE "cancelled"
      /\ mine' = mine /\ oid' = oid /\ Write(c) /\ CallStep(c)
  BY DEF Commit, MoveTo, IsPlacement, RecordsOK, CallStep, SaveStep
<1>2. n \in Numbers /\ mine[c] \in Rows
  <2>1. mine[c] # NoRow
    BY <1>1 DEF NumbersInv
  <2>2. c \in Placing => n \in Numbers
    BY <1>1 DEF NumbersInv
  <2>3. c \in Cancelling => n \in Numbers
    BY <1>0, <1>1 DEF KindOK
  <2>4. QED
    BY <1>0, <2>1, <2>2, <2>3 DEF RecordsOK
<1>3. /\ Free = [s \in Skus |-> Initial[s] - SumOf(AllGone(s))]
      /\ \A s \in Skus : Initial[s] \in Nat /\ SumOf(AllGone(s)) \in Int
  BY FreeIs
<1>4. Free' = [s \in Skus |-> Initial[s] - SumOf(AllGone(s)')]
  BY FreeIsNext DEF FreeIsUnsold
<1>5. \A s \in Skus : Initial[s] - SumOf(AllGone(s)') \in Nat
  BY NothingHeld
<1>6. ASSUME NEW s \in Skus
      PROVE  /\ Need(lines, s) \in Nat
             /\ SumOf(AllGone(s)') = SumOf(AllGone(s)) +
                  (IF c \in Placing THEN Need(lines, s) ELSE 0 - Need(lines, s))
  <2>1. Need(lines, s) \in Nat
    BY <1>2, RowNeeds DEF PlainShop
  <2>2. Gone(c, s) = 0 /\ Gone(c, s)' =
          IF c \in Placing THEN Need(lines, s) ELSE 0 - Need(lines, s)
    BY <1>1 DEF Gone
  <2>3. SumOf(AllGone(s)') = SumOf(AllGone(s)) + (Gone(c, s)' - Gone(c, s))
    BY <1>1, SumsMove DEF StockInv
  <2>4. QED
    BY <2>1, <2>2, <2>3
<1>7. CASE c \in Placing
  <2>1. /\ rows[n] = NoRow /\ rows' = [rows EXCEPT ![n] = mine[c]]
        /\ mine[c].status = "CONFIRMED"
    BY <1>0, <1>1, <1>7 DEF TurnOK, KindOK, Saving, Write, IsConfirmed
  <2>2. /\ mine[c] = [buyer |-> mine[c].buyer, lines |-> lines, status |-> "CONFIRMED"]
        /\ mine[c].buyer \in {BuyerOf[d] : d \in ShopCalls} /\ lines \in Carts
    BY <1>2, <2>1 DEF Rows
  <2>3. \A s \in Skus : Free[s] = Initial[s] - SumOf(AllGone(s)) /\ Need(lines, s) <= Free[s]
    BY <1>3, <1>5, <1>6, <1>7
  <2>4. Free' = [s \in Skus |-> Free[s] - Need(lines, s)]
    <3>1. \A s \in Skus : Initial[s] - SumOf(AllGone(s)') = Free[s] - Need(lines, s)
      BY <1>3, <1>6, <1>7, <2>3
    <3>2. QED
      BY <1>4, <3>1
  <2>5. Atomic!Place(n, mine[c].buyer, lines)
    <3>1. rows' = [rows EXCEPT ![n] = [buyer |-> mine[c].buyer, lines |-> lines,
                                        status |-> "CONFIRMED"]]
      BY <2>1, <2>2
    <3>2. \A s \in Skus : Atomic!Pieces(lines, s) <= Free[s]
      BY <2>3, PiecesAreNeed
    <3>3. Free' = [s \in Skus |-> Free[s] - Atomic!Pieces(lines, s)]
      BY <2>4, PiecesAreNeed
    <3> HIDE DEF n, lines
    <3>4. QED
      BY <2>1, <3>1, <3>2, <3>3 DEF Atomic!Place
  <2>6. QED
    BY <1>2, <2>2, <2>5 DEF Atomic!BookNext
<1>8. CASE c \in Cancelling
  <2>1. /\ IsConfirmed(rows[n]) /\ rows[n] \in Rows /\ seen[c] = rows[n]
        /\ mine[c].buyer = rows[n].buyer /\ lines = rows[n].lines
        /\ mine[c].status = "CANCELLED"
    BY <1>0, <1>1, <1>2, <1>8 DEF TurnOK, KindOK, Saving, IsConfirmed, RecordsOK
  <2>2. rows' = [rows EXCEPT ![n] = Rewritten(c)]
    BY <1>1, <2>1 DEF Write, IsConfirmed
  <2>3. Rewritten(c) = [rows[n] EXCEPT !.status = "CANCELLED"]
    <3>1. Rewritten(c) = [buyer |-> rows[n].buyer, status |-> "CANCELLED", lines |-> rows[n].lines]
      BY <2>1 DEF Rewritten, IsConfirmed
    <3>2. QED
      BY <2>1, <3>1 DEF Rows
  <2>4. Free' = [s \in Skus |-> Free[s] + Need(rows[n].lines, s)]
    <3>1. \A s \in Skus : Free[s] = Initial[s] - SumOf(AllGone(s))
      BY <1>3
    <3>2. \A s \in Skus : Initial[s] - SumOf(AllGone(s)') = Free[s] + Need(rows[n].lines, s)
      BY <1>0, <1>3, <1>6, <1>8, <2>1, <3>1
    <3>3. QED
      BY <1>4, <3>2
  <2>5. Atomic!Cancel(n)
    <3>1. rows' = [rows EXCEPT ![n].status = "CANCELLED"]
      BY <2>2, <2>3
    <3>2. Free' = [s \in Skus |-> Free[s] + Atomic!Pieces(rows[n].lines, s)]
      BY <2>4, PiecesAreNeed
    <3> HIDE DEF n, lines
    <3>3. QED
      BY <2>1, <3>1, <3>2 DEF Atomic!Cancel, IsConfirmed
  <2>6. QED
    BY <1>2, <2>5 DEF Atomic!BookNext
<1>9. QED
  BY <1>0, <1>7, <1>8

\* Any other step leaves the book as it was.
LEMMA OtherIsNoBook ==
    ASSUME NEW Wares, PlainShop(Wares), RecordsOK, RecordsOK', NumbersInv, StockInv, StockInv',
           oneByOne, oneByOne', NEW c \in ShopCalls, CallStep(c), ~Commit(c)
    PROVE  Free' = Free /\ rows' = rows
<1>0. Placing \cap Cancelling = {} /\ Placing \cup Cancelling = ShopCalls /\ KindOK(c) /\ KindOK(c)'
  BY KindsAre, OrdersAssumption DEF ShopCalls, StockInv, KindsOK, KindOK
<1>1. ~Cancelled(c)
  BY DEF Cancelled
<1>2. /\ rows' = rows
      /\ place[c] \in {"idle"} \cup Underway /\ place'[c] \in Underway \cup {"refused"}
  BY <1>1 DEF CallStep, PlaceStep, PlaceBegin, PlaceRefused, DrawNumber, PlaceInvalid,
       CancelStep, CancelBegin, FindOrder, FindLines, FindFails, CancelRefused, CancelRestores,
       SaveStep, LookUp, InsertFails, DatabaseFails, GiveBack, MoveTo, RecordsOK, Underway
<1>3. \A s \in Skus : Gone(c, s) = 0 /\ Gone(c, s)' = 0
  BY <1>2 DEF Gone, Underway
<1>4. \A s \in Skus : SumOf(AllGone(s)') = SumOf(AllGone(s))
  BY <1>3, SumsMove DEF StockInv
<1>5. /\ Free = [s \in Skus |-> Initial[s] - SumOf(AllGone(s))]
      /\ Free' = [s \in Skus |-> Initial[s] - SumOf(AllGone(s)')]
  BY FreeIs, FreeIsNext DEF FreeIsUnsold
<1>6. QED
  BY <1>2, <1>4, <1>5

\* Placing and cancelling keep the promise of the order book: in one process,
\* with calls that follow each other and any failures of the database, every
\* placement and cancellation happens at once or not at all (BookPromise of
\* Orders: order_usecases.py over SqlOrderRepository against the in-memory
\* repository).
THEOREM OrdersImplementBook ==
    ASSUME NEW Wares, PlainShop(Wares)
    PROVE  OrdersSpec => BookPromise
<1>1. OrdersInit => RecordsOK /\ NumbersInv /\ StockInv
  BY NumbersInit, StockInit
<1>2. RecordsOK /\ NumbersInv /\ StockInv /\ [OrdersNext]_vars
        => RecordsOK' /\ NumbersInv' /\ StockInv'
  BY NumbersStep, StockInvStep
<1>3. OrdersInit => Atomic!BookInit
  <2> SUFFICES ASSUME OrdersInit PROVE Atomic!BookInit
    OBVIOUS
  <2>1. RecordsOK /\ StockInv
    BY <1>1
  <2>2. \A s \in Skus : SumOf(AllGone(s)) = 0
    BY SumsStart
  <2>3. oneByOne => Free = Initial
    BY <2>1, <2>2, FreeIs, OrdersAssumption
  <2>4. QED
    BY <2>3 DEF OrdersInit, Atomic!BookInit
<1>4. RecordsOK /\ RecordsOK' /\ NumbersInv /\ StockInv /\ StockInv' /\ [OrdersNext]_vars
        => [Atomic!BookNext]_(Atomic!bookVars)
  <2> SUFFICES ASSUME RecordsOK, RecordsOK', NumbersInv, StockInv, StockInv', [OrdersNext]_vars
               PROVE  [Atomic!BookNext]_(Atomic!bookVars)
    OBVIOUS
  <2>1. CASE UNCHANGED vars
    <3>1. oneByOne' = oneByOne /\ rows' = rows /\ \A s : AllGone(s)' = AllGone(s)
      BY <2>1 DEF vars, callVars, AllGone, Gone
    <3>2. oneByOne => Free' = Free
      BY <3>1, FreeIs, FreeIsNext DEF FreeIsUnsold
    <3>3. QED
      BY <3>1, <3>2 DEF Atomic!bookVars
  <2>2. CASE ~oneByOne /\ oneByOne' = oneByOne
    BY <2>2 DEF Atomic!bookVars
  <2>3. CASE oneByOne /\ OrdersNext
    <3>1. oneByOne' /\ ((\E c \in ShopCalls : CallStep(c)) \/ (\E p \in Procs : Respawn(p)))
      BY <2>3, NextIs
    <3>2. ASSUME NEW c \in ShopCalls, Commit(c) PROVE Atomic!BookNext
      BY <2>3, <3>1, <3>2, CommitIsBook
    <3>3. ASSUME NEW c \in ShopCalls, CallStep(c), ~Commit(c) PROVE UNCHANGED Atomic!bookVars
      BY <2>3, <3>1, <3>3, OtherIsNoBook DEF Atomic!bookVars
    <3>4. ~\E p \in Procs : Respawn(p)
      BY <2>3 DEF Respawn
    <3>5. QED
      BY <3>1, <3>2, <3>3, <3>4
  <2>4. QED
    BY <2>1, <2>2, <2>3, NextIs
<1>5. QED
  BY <1>1, <1>2, <1>3, <1>4, PTL DEF OrdersSpec, BookPromise, Atomic!BookSpec

----------------------------------------------------------------------------
(* The catalogue. *)

----------------------------------------------------------------------------
(* Sequences. *)

LEMMA EmptyFile == ASSUME NEW S PROVE <<>> \in Seq(S)
  OBVIOUS

\* SetToSeq(): a finite set as a sequence.
LEMMA InOneSequence ==
    ASSUME NEW S, IsFiniteSet(S)
    PROVE  /\ SetToSeq(S) \in Seq(S) /\ ToSet(SetToSeq(S)) = S
           /\ S # {} => SetToSeq(S) # <<>>
<1> DEFINE n == Cardinality(S)
           f == SetToSeq(S)
<1>1. n \in Nat /\ ExistsBijection(1..n, S)
  BY FS_CardinalityType
<1>2. \E g \in [1..n -> S] : IsInjective(g)
  BY <1>1 DEF ExistsBijection, Bijection, Injection
<1>3. f \in [1..n -> S] /\ IsInjective(f)
  BY <1>2 DEF SetToSeq
<1>4. f \in Surjection(1..n, S)
  <2>1. Cardinality(1..n) = n /\ f \in Injection(1..n, S)
    BY <1>1, <1>3, FS_Interval DEF Injection
  <2> QED BY <2>1, FS_Injection
<1>5. f \in Seq(S) /\ DOMAIN f = 1..n
  BY <1>1, <1>3
<1>6. ToSet(f) = S
  BY <1>4, <1>5 DEF ToSet, Surjection
<1>7. S # {} => f # <<>>
  BY <1>6 DEF ToSet
<1> QED BY <1>5, <1>6, <1>7

LEMMA HeadAndTail ==
    ASSUME NEW S, NEW s \in Seq(S), s # <<>>
    PROVE  /\ Head(s) \in S /\ Tail(s) \in Seq(S) /\ ToSet(s) = {Head(s)} \cup ToSet(Tail(s))
           /\ Len(s) = 1 => Tail(s) = <<>>
           /\ Len(s) # 1 => Tail(s) # <<>>
<1>1. /\ Head(s) \in S /\ Tail(s) \in Seq(S) /\ Len(Tail(s)) = Len(s) - 1
      /\ \A i \in 1..Len(Tail(s)) : Tail(s)[i] = s[i + 1]
  BY HeadTailProperties
<1>2. Head(s) = s[1] /\ Len(s) \in Nat \ {0} /\ DOMAIN s = 1..Len(s) /\ DOMAIN Tail(s) = 1..Len(s) - 1
  BY <1>1
<1>3. \A i \in 1..Len(s) : i = 1 \/ (i - 1 \in 1..Len(s) - 1 /\ s[i] = Tail(s)[i - 1])
  BY <1>1, <1>2
<1>4. ASSUME NEW x \in ToSet(s) PROVE x \in {Head(s)} \cup ToSet(Tail(s))
  <2>1. PICK i \in 1..Len(s) : x = s[i]
    BY <1>2 DEF ToSet
  <2>2. CASE i = 1
    BY <1>2, <2>1, <2>2
  <2>3. CASE i # 1
    <3>1. i - 1 \in DOMAIN Tail(s) /\ x = Tail(s)[i - 1]
      BY <1>2, <1>3, <2>1, <2>3
    <3> QED BY <3>1 DEF ToSet
  <2> QED BY <2>2, <2>3
<1>5. {Head(s)} \cup ToSet(Tail(s)) \subseteq ToSet(s)
  <2>1. \A i \in 1..Len(s) - 1 : i + 1 \in 1..Len(s)
    BY <1>2
  <2>2. \A i \in DOMAIN Tail(s) : Tail(s)[i] \in ToSet(s)
    BY <1>1, <1>2, <2>1 DEF ToSet
  <2>3. Head(s) \in ToSet(s)
    BY <1>2 DEF ToSet
  <2>4. ASSUME NEW x \in ToSet(Tail(s)) PROVE x \in ToSet(s)
    <3>1. PICK i \in DOMAIN Tail(s) : x = Tail(s)[i]
      BY DEF ToSet
    <3> QED BY <2>2, <3>1
  <2> QED BY <2>3, <2>4
<1>6. ToSet(s) = {Head(s)} \cup ToSet(Tail(s))
  BY <1>4, <1>5
<1>7. Len(s) = 1 <=> Tail(s) = <<>>
  <2>1. Len(Tail(s)) = 0 <=> Tail(s) = <<>>
    BY <1>1, EmptySeq
  <2>2. Len(s) = 1 <=> Len(Tail(s)) = 0
    BY <1>1, <1>2
  <2> QED BY <2>1, <2>2
<1> QED BY <1>1, <1>6, <1>7

----------------------------------------------------------------------------
(* The constants. *)

LEMMA FinitelyManyIndexes ==
    IsFiniteSet(Indexes) /\ Indexes # {} /\ Parts # {} /\ \A p \in Parts : IndexOf[p] \in Indexes
<1>1. Partitions \in Seq(Parts) /\ Partitions # <<>> /\ Len(Partitions) \in Nat \ {0}
      /\ DOMAIN Partitions = 1..Len(Partitions)
  BY FilesAssumption
<1> DEFINE n == Len(Partitions)
           f == [i \in 1..n |-> IndexOf[Partitions[i]]]
<1>2. \A p \in Parts : \E i \in 1..n : Partitions[i] = p
  BY <1>1 DEF Parts, ToSet
<1>3. f \in Surjection(1..n, Indexes)
  BY <1>1, <1>2 DEF Indexes, Surjection
<1>4. IsFiniteSet(Indexes)
  BY <1>1, <1>3, FS_NatSurjection DEF ExistsSurjection
<1>5. Partitions[1] \in Parts
  BY <1>1
<1> QED BY <1>4, <1>5 DEF Indexes

\* What a build of the files makes of a staging area it accepts.
LEMMA MadeIsCatalogue ==
    ASSUME NEW staging \in Stagings, Validated(staging),
           Unique([p \in Parts |-> Converted(staging[p])])
    PROVE  LET made == [p \in Parts |-> Sorted([q \in Parts |-> Converted(staging[q])][p])]
           IN made \in Catalogues /\ made # NoFile
<1> DEFINE kept == [p \in Parts |-> Converted(staging[p])]
           made == [p \in Parts |-> Sorted(kept[p])]
<1>1. ASSUME NEW p \in Parts
      PROVE  made[p] \in Seq(DOMAIN Offers) /\ made[p] \in FileOf(p)
  <2>1. kept[p] \subseteq staging[p] /\ staging[p] \subseteq DOMAIN Offers /\ IsFiniteSet(staging[p])
    BY FilesAssumption DEF Converted
  <2>2. IsFiniteSet(kept[p])
    BY <2>1, FS_Subset
  <2>3. made[p] \in Seq(kept[p])
    BY <2>2, InOneSequence DEF Sorted
  <2>4. made[p] \in Seq(DOMAIN Offers) /\ \A n \in DOMAIN made[p] : made[p][n] \in kept[p]
    BY <2>1, <2>3
  <2>5. \A r \in kept[p] : PartOf[r.id] = p
    BY <2>1 DEF Validated
  <2>6. \A r, s \in kept[p] : r.id = s.id => r = s
    BY DEF Unique
  <2> QED BY <2>4, <2>5, <2>6 DEF FileOf
<1>2. made \in Catalogues
  BY <1>1 DEF Catalogues
<1>3. made # NoFile
  BY <1>1, FilesAssumption
<1> QED BY <1>2, <1>3

----------------------------------------------------------------------------
(* The files. *)

LEMMA InitFiles == FilesInit => FilesInv
  BY DEF FilesInit, FilesInv, AtRest, LeftBehind, Publishing

LEMMA FilesStep ==
    FilesInv /\ [FilesNext]_fileVars => FilesInv'
<1> SUFFICES ASSUME FilesInv, [FilesNext]_fileVars PROVE FilesInv'
  OBVIOUS
<1> USE DEF FilesInv, LeftBehind, Publishing
<1>1. CASE BuildInto
  <2>1. PICK staging \in Stagings :
          LET kept == [p \in Parts |-> Converted(staging[p])]
              made == [p \in Parts |-> Sorted(kept[p])]
          IN IF Validated(staging) /\ Unique(kept)
             THEN /\ writer' = [AtRest EXCEPT !.phase = "built", !.made = made]
                  /\ temps' = temps \cup {builds + 1}
             ELSE UNCHANGED <<writer, temps>>
    BY <1>1 DEF BuildInto
  <2>2. /\ writer.phase = "none" /\ builds' = builds + 1 /\ UNCHANGED <<output, backup, once>>
    BY <1>1 DEF BuildInto
  <2>3. CASE UNCHANGED <<writer, temps>>
    BY <2>2, <2>3
  <2>4. ASSUME NEW made \in Catalogues, made # NoFile, temps' = temps \cup {builds + 1},
               writer' = [AtRest EXCEPT !.phase = "built", !.made = made]
        PROVE  FilesInv'
    <3>1. /\ writer'.phase = "built" /\ writer'.made = made
          /\ writer' \in [phase : {"none", "built", "aside", "in", "tidy"},
                          made : Catalogues \cup {NoFile}, moved : BOOLEAN]
      BY <2>4 DEF AtRest
    <3>2. temps' \ {builds'} = temps /\ temps' \subseteq 1..builds' /\ builds' \in Nat /\ builds' \in temps'
      BY <2>2, <2>4
    <3> QED BY <2>2, <2>4, <3>1, <3>2
  <2> QED BY <2>1, <2>3, <2>4, MadeIsCatalogue
<1>2. CASE DropBackup
  BY <1>2 DEF DropBackup
<1>3. CASE MoveAside
  BY <1>3 DEF MoveAside
<1>4. CASE MoveIn
  BY <1>4 DEF MoveIn
<1>5. CASE MoveFails
  BY <1>5 DEF MoveFails, AtRest
<1>6. CASE DropMoved
  BY <1>6 DEF DropMoved, AtRest
<1>7. CASE KillWriter
  BY <1>7 DEF KillWriter, AtRest
<1>8. CASE UNCHANGED fileVars
  BY <1>8 DEF fileVars
<1> QED BY <1>1, <1>2, <1>3, <1>4, <1>5, <1>6, <1>7, <1>8 DEF FilesNext
----------------------------------------------------------------------------
(* The documents of an index and the rows that replace them. *)

\* A document stays when the rows written are of its own file, or of another
\* partition.
LEMMA StaysWritten ==
    ASSUME NEW index, NEW d \in index, NEW p \in Parts, NEW q \in Parts,
           NEW file \in FileOf(p), NEW sent, sent \subseteq ToSet(file),
           PartOf[d.id] = q, p = q => d \in ToSet(file)
    PROVE  d \in Written(index, sent)
<1>1. \A r \in ToSet(file) : PartOf[r.id] = p
  BY DEF FileOf, ToSet
<1>2. \A r, s \in ToSet(file) : r.id = s.id => r = s
  BY DEF FileOf, ToSet
<1>3. CASE \A r \in sent : r.id # d.id
  BY <1>3 DEF Written
<1>4. ASSUME NEW r \in sent, r.id = d.id PROVE d \in sent
  <2>1. p = q
    BY <1>1, <1>4
  <2> QED BY <1>2, <1>4, <2>1
<1> QED BY <1>3, <1>4 DEF Written

\* What a bulk takes.
LEMMA BatchIs ==
    ASSUME NEW S, NEW sent \in Seq(S), NEW next \in 0..Len(sent)
    PROVE  /\ Len(Batch(sent, next)) \in 0..Len(sent) - next
           /\ ToSet(Batch(sent, next)) \subseteq ToSet(sent)
           /\ \A n \in next + 1..next + Len(Batch(sent, next)) : sent[n] \in ToSet(Batch(sent, next))
<1> DEFINE last == IF Len(sent) < next + BulkSize THEN Len(sent) ELSE next + BulkSize
           batch == SubSeq(sent, next + 1, last)
<1>1. Batch(sent, next) = batch
  BY DEF Batch
<1>2. /\ next \in Nat /\ last \in next..Len(sent) /\ DOMAIN sent = 1..Len(sent) /\ Len(sent) \in Nat
      /\ \A i \in next + 1..last : sent[i] \in S
  BY IndexAssumption
<1>3. /\ batch \in Seq(S) /\ Len(batch) = last - next
      /\ \A i \in 1..last - next : batch[i] = sent[next + i]
  <2>1. /\ batch \in Seq(S)
        /\ Len(batch) = IF next + 1 <= last THEN last - (next + 1) + 1 ELSE 0
        /\ \A i \in 1..last - (next + 1) + 1 : batch[i] = sent[next + 1 + i - 1]
    BY <1>2, SubSeqProperties
  <2> QED BY <1>2, <2>1
<1>4. DOMAIN batch = 1..last - next
  BY <1>2, <1>3
<1>5. \A i \in 1..last - next : next + i \in 1..Len(sent)
  BY <1>2
<1>6. ToSet(batch) \subseteq ToSet(sent)
  BY <1>2, <1>3, <1>4, <1>5 DEF ToSet
<1>7. ASSUME NEW n \in next + 1..next + Len(batch) PROVE sent[n] \in ToSet(batch)
  <2> DEFINE k == n - next
  <2>1. k \in 1..last - next /\ next + k = n
    BY <1>2, <1>3
  <2>2. k \in DOMAIN batch /\ batch[k] = sent[n]
    BY <1>3, <1>4, <2>1
  <2> QED BY <2>2 DEF ToSet
<1> QED BY <1>1, <1>2, <1>3, <1>6, <1>7

----------------------------------------------------------------------------
(* The builder. *)

LEMMA InitIndex == IndexInit => IndexInv
<1> SUFFICES ASSUME IndexInit PROVE IndexInv
  OBVIOUS
<1>1. FilesInv
  BY InitFiles DEF IndexInit
<1>2. BuilderOK
  BY EmptyFile DEF IndexInit, BuilderOK, Stopped, BuilderPhases
<1> QED BY <1>1, <1>2 DEF IndexInit, IndexInv, SentSoFar, CheckpointIsTrue, Stopped

\* A builder that stops leaves nothing to be said of it.
LEMMA StoppedOK ==
    ASSUME IndexInv, builder' = Stopped
    PROVE  BuilderOK' /\ SentSoFar'
<1>1. builder'.phase = "none"
  BY DEF Stopped
<1>2. builder' \in [phase : BuilderPhases, reset : BOOLEAN, todo : Seq(Indexes),
                   selected : SUBSET Parts, parts : Seq(Parts), next : Nat]
  BY EmptyFile DEF Stopped, BuilderPhases
<1> QED BY <1>1, <1>2 DEF BuilderOK, SentSoFar

LEMMA OnwardOK ==
    ASSUME IndexInv, builder.phase \in {"open", "send"}, builder' = Onward(builder),
           DOMAIN docs' = DOMAIN docs, UNCHANGED writer
    PROVE  BuilderOK' /\ SentSoFar'
<1>1. /\ builder \in [phase : BuilderPhases, reset : BOOLEAN, todo : Seq(Indexes),
                      selected : SUBSET Parts, parts : Seq(Parts), next : Nat]
      /\ builder.parts # <<>> /\ writer.phase = "none" /\ Indexes \subseteq DOMAIN docs
  BY DEF IndexInv, BuilderOK
<1>2. SetToSeq(Indexes) \in Seq(Indexes) /\ SetToSeq(Indexes) # <<>>
  BY FinitelyManyIndexes, InOneSequence
<1>3. Tail(builder.parts) \in Seq(Parts) /\ (Len(builder.parts) # 1 => Tail(builder.parts) # <<>>)
  BY <1>1, HeadAndTail
<1>4. CASE Len(builder.parts) = 1
  <2>1. builder' = [builder EXCEPT !.parts = <<>>, !.phase = "finalize", !.todo = SetToSeq(Indexes)]
    BY <1>4 DEF Onward
  <2> QED BY <1>1, <1>2, <2>1, EmptyFile DEF BuilderOK, SentSoFar, BuilderPhases
<1>5. CASE Len(builder.parts) # 1
  <2>1. builder' = [builder EXCEPT !.parts = Tail(@), !.phase = "open"]
    BY <1>5 DEF Onward
  <2> QED BY <1>1, <1>3, <1>5, <2>1 DEF BuilderOK, SentSoFar, BuilderPhases
<1> QED BY <1>4, <1>5

\* What is sent and what is saved, in the same index.
LEMMA SentIsFile ==
    ASSUME IndexInv, builder.phase \in {"send", "note"}
    PROVE  LET p == PartIn(builder) IN
           /\ p \in Parts /\ IndexOf[p] \in Indexes /\ IndexOf[p] \in DOMAIN docs
           /\ output[p] \in FileOf(p) /\ output[p] \in Seq(DOMAIN Offers)
           /\ builder.next \in 0..Len(output[p])
           /\ saved[p] # NoFile => saved[p].sha = output[p]
<1> DEFINE p == PartIn(builder)
<1>1. p \in Parts
  BY HeadAndTail DEF IndexInv, BuilderOK, PartIn
<1>2. output \in Catalogues /\ builder.next <= Len(output[p]) /\ builder.next \in Nat
  BY DEF IndexInv, FilesInv, SentSoFar, BuilderOK
<1>3. output[p] \in FileOf(p) /\ output[p] \in Seq(DOMAIN Offers) /\ Len(output[p]) \in Nat
  BY <1>1, <1>2 DEF Catalogues
<1>4. IndexOf[p] \in Indexes /\ Indexes \subseteq DOMAIN docs
  BY <1>1, FinitelyManyIndexes DEF IndexInv, BuilderOK
<1>5. saved[p] # NoFile => saved[p].sha = output[p]
  BY DEF IndexInv, SentSoFar
<1> QED BY <1>1, <1>2, <1>3, <1>4, <1>5

\* Rows of the file that is being sent, written into its index, take the place
\* of nothing that a checkpoint counts or that was sent.
LEMMA WritingKeeps ==
    ASSUME IndexInv, builder.phase = "send",
           NEW sent, sent \subseteq ToSet(output[PartIn(builder)]),
           docs' = WithDocs(IndexOf[PartIn(builder)],
                            Written(docs[IndexOf[PartIn(builder)]], sent)),
           UNCHANGED <<saved, losses, output>>
    PROVE  /\ CheckpointIsTrue' /\ DOMAIN docs' = DOMAIN docs
           /\ losses = 0 => \A n \in 1..builder.next :
                output[PartIn(builder)][n] \in docs'[IndexOf[PartIn(builder)]]
           /\ sent \subseteq docs'[IndexOf[PartIn(builder)]]
<1> DEFINE p == PartIn(builder)
           i == IndexOf[p]
<1>1. /\ p \in Parts /\ i \in DOMAIN docs
      /\ output[p] \in FileOf(p) /\ output[p] \in Seq(DOMAIN Offers)
      /\ builder.next \in 0..Len(output[p])
      /\ saved[p] # NoFile => saved[p].sha = output[p]
  BY SentIsFile
<1>2. /\ DOMAIN docs' = DOMAIN docs /\ docs'[i] = Written(docs[i], sent)
      /\ \A j \in DOMAIN docs : j # i => docs'[j] = docs[j]
  BY <1>1 DEF WithDocs
<1>3. DOMAIN output[p] = 1..Len(output[p])
  BY <1>1
<1>4. ASSUME losses = 0, NEW n \in 1..builder.next PROVE output[p][n] \in docs'[i]
  <2>1. output[p][n] \in docs[i] /\ n \in DOMAIN output[p]
    BY <1>1, <1>3, <1>4 DEF IndexInv, SentSoFar
  <2>2. output[p][n] \in ToSet(output[p]) /\ PartOf[output[p][n].id] = p
    BY <1>1, <2>1 DEF ToSet, FileOf
  <2> QED BY <1>1, <1>2, <2>1, <2>2, StaysWritten
<1>5. ASSUME losses = 0, NEW q \in Parts, saved[q] # NoFile, NEW n \in 1..saved[q].next
      PROVE  IndexOf[q] \in DOMAIN docs' /\ saved[q].sha[n] \in docs'[IndexOf[q]]
  <2>1. IndexOf[q] \in DOMAIN docs /\ saved[q].sha[n] \in docs[IndexOf[q]]
    BY <1>5 DEF IndexInv, CheckpointIsTrue
  <2>2. CASE IndexOf[q] # i
    BY <1>2, <2>1, <2>2
  <2>3. CASE IndexOf[q] = i
    <3>1. saved[q].sha \in FileOf(q) /\ saved[q].next \in Nat /\ saved[q].next <= Len(saved[q].sha)
      BY <1>5 DEF IndexInv, Checkpoints
    <3>2. saved[q].sha \in Seq(DOMAIN Offers)
      BY <3>1 DEF FileOf
    <3>3. n \in DOMAIN saved[q].sha
      BY <3>1, <3>2
    <3>4. PartOf[saved[q].sha[n].id] = q
      BY <3>1, <3>3 DEF FileOf
    <3>5. p = q => saved[q].sha[n] \in ToSet(output[p])
      BY <1>1, <1>5, <3>3 DEF ToSet
    <3> QED BY <1>1, <1>2, <2>1, <2>3, <3>4, <3>5, StaysWritten
  <2> QED BY <2>2, <2>3
<1>6. CheckpointIsTrue'
  BY <1>5 DEF CheckpointIsTrue
<1>7. sent \subseteq docs'[i]
  BY <1>2 DEF Written
<1> QED BY <1>2, <1>4, <1>6, <1>7

\* The parts of the invariant a step of the builder leaves alone.
LEMMA BuilderKeeps ==
    ASSUME IndexInv, UNCHANGED <<fileVars, losses>>, DOMAIN saved' = DOMAIN saved,
           DOMAIN docs' \subseteq Indexes,
           \A p \in Parts : saved'[p] = saved[p] \/ saved'[p] = NoFile
               \/ (saved'[p] \in Checkpoints(p) /\ saved'[p].next <= Len(saved'[p].sha)),
           BuilderOK', SentSoFar', CheckpointIsTrue'
    PROVE  IndexInv'
<1>1. FilesInv'
  BY DEF IndexInv, FilesInv, fileVars, LeftBehind, Publishing
<1> QED BY <1>1 DEF IndexInv

LEMMA BulkStep ==
    ASSUME IndexInv, SendBulk \/ BulkRefused PROVE IndexInv'
<1> DEFINE p == PartIn(builder)
           sent == Batch(output[p], builder.next)
           i == IndexOf[p]
<1>1. /\ builder.phase = "send" /\ UNCHANGED <<fileVars, audited, runs, losses, saved>>
      /\ UNCHANGED <<output, writer>>
  BY DEF SendBulk, BulkRefused, BuilderStep, fileVars
<1>2. /\ p \in Parts /\ i \in Indexes /\ i \in DOMAIN docs
      /\ output[p] \in FileOf(p) /\ output[p] \in Seq(DOMAIN Offers)
      /\ builder.next \in 0..Len(output[p])
      /\ saved[p] # NoFile => saved[p].sha = output[p]
  BY <1>1, SentIsFile
<1>3. /\ Len(sent) \in 0..Len(output[p]) - builder.next
      /\ ToSet(sent) \subseteq ToSet(output[p])
      /\ \A n \in builder.next + 1..builder.next + Len(sent) : output[p][n] \in ToSet(sent)
  BY <1>2, BatchIs
<1>4. DOMAIN docs \subseteq Indexes /\ Len(output[p]) \in Nat
  BY <1>2 DEF IndexInv
<1>5. CASE BulkRefused
  <2>1. PICK part \in SUBSET ToSet(sent) : docs' = WithDocs(i, Written(docs[i], part))
    BY <1>5 DEF BulkRefused
  <2>2. CheckpointIsTrue' /\ DOMAIN docs' = DOMAIN docs
    BY <1>1, <1>3, <2>1, WritingKeeps
  <2>3. BuilderOK' /\ SentSoFar'
    BY <1>5, StoppedOK DEF BulkRefused
  <2> QED BY <1>1, <1>4, <2>2, <2>3, BuilderKeeps
<1>6. CASE SendBulk
  <2>1. /\ docs' = WithDocs(i, Written(docs[i], ToSet(sent)))
        /\ builder' = [builder EXCEPT !.phase = "note", !.next = @ + Len(sent)]
    BY <1>6 DEF SendBulk
  <2>2. /\ CheckpointIsTrue' /\ DOMAIN docs' = DOMAIN docs
        /\ losses = 0 => \A n \in 1..builder.next : output[p][n] \in docs'[i]
        /\ ToSet(sent) \subseteq docs'[i]
    BY <1>1, <1>3, <2>1, WritingKeeps
  <2> DEFINE there == builder.next + Len(sent)
  <2>3. builder \in [phase : BuilderPhases, reset : BOOLEAN, todo : Seq(Indexes),
                    selected : SUBSET Parts, parts : Seq(Parts), next : Nat]
    BY DEF IndexInv, BuilderOK
  <2>4. there \in Nat /\ there <= Len(output[p])
    BY <1>2, <1>3, <1>4
  <2>5. builder' = [builder EXCEPT !.phase = "note", !.next = there]
    BY <2>3, <2>1
  <2>6. /\ builder'.phase = "note" /\ builder'.next = there
        /\ builder'.parts = builder.parts /\ PartIn(builder') = p
        /\ there \in Nat /\ there <= Len(output[p])
        /\ builder' \in [phase : BuilderPhases, reset : BOOLEAN, todo : Seq(Indexes),
                         selected : SUBSET Parts, parts : Seq(Parts), next : Nat]
    <3> HIDE DEF there
    <3> QED BY <2>3, <2>4, <2>5 DEF PartIn, BuilderPhases
  <2>7. BuilderOK'
    BY <1>1, <2>2, <2>6 DEF IndexInv, BuilderOK
  <2>8. losses' = 0 => \A n \in 1..builder'.next : output[p][n] \in docs'[i]
    <3>1. \A n \in 1..builder'.next :
            n \in 1..builder.next \/ n \in builder.next + 1..builder.next + Len(sent)
      BY <1>2, <1>3, <1>4, <2>6
    <3> QED BY <1>1, <1>3, <2>2, <3>1
  <2>9. SentSoFar'
    BY <1>1, <1>2, <2>6, <2>8 DEF IndexInv, SentSoFar
  <2> QED BY <1>1, <1>4, <2>2, <2>7, <2>9, BuilderKeeps
<1> QED BY <1>5, <1>6

\* A builder takes the next step on its way to the first partition.
LEMMA PrepareStep ==
    ASSUME IndexInv,
           (\E reset \in BOOLEAN, selected \in SUBSET Parts \ {{}} : Launch(reset, selected))
             \/ ClearCheckpoints \/ DropIndex \/ EnsureIndex,
           writer.phase = "none"
    PROVE  IndexInv'
<1>0. /\ builder \in [phase : BuilderPhases, reset : BOOLEAN, todo : Seq(Indexes),
                      selected : SUBSET Parts, parts : Seq(Parts), next : Nat]
      /\ DOMAIN docs \subseteq Indexes /\ DOMAIN saved = Parts /\ losses \in Nat
  BY DEF IndexInv, BuilderOK
<1>1. ASSUME NEW reset \in BOOLEAN, NEW selected \in SUBSET Parts, Launch(reset, selected)
      PROVE  IndexInv'
  <2>1. /\ builder' = [phase |-> IF reset THEN "clear" ELSE "prepare", reset |-> reset,
                       todo |-> SetToSeq(Indexes), selected |-> selected,
                       parts |-> Partitions, next |-> 0]
        /\ UNCHANGED <<fileVars, saved, docs, losses, writer>>
    BY <1>1 DEF Launch, fileVars
  <2>2. /\ SetToSeq(Indexes) \in Seq(Indexes) /\ ToSet(SetToSeq(Indexes)) = Indexes
        /\ Partitions \in Seq(Parts) /\ Partitions # <<>>
    BY FinitelyManyIndexes, InOneSequence, FilesAssumption
  <2>3. BuilderOK'
    BY <2>1, <2>2 DEF BuilderOK, BuilderPhases
  <2>4. SentSoFar' /\ CheckpointIsTrue'
    BY <2>1 DEF IndexInv, SentSoFar, CheckpointIsTrue
  <2> QED BY <1>0, <2>1, <2>3, <2>4, BuilderKeeps
<1>2. CASE ClearCheckpoints
  <2>1. /\ builder.phase = "clear" /\ builder' = [builder EXCEPT !.phase = "prepare"]
        /\ saved' = [p \in Parts |-> NoFile]
        /\ UNCHANGED <<fileVars, docs, losses, writer>>
    BY <1>2 DEF ClearCheckpoints, BuilderStep, fileVars
  <2>2. BuilderOK'
    BY <1>0, <2>1 DEF IndexInv, BuilderOK, BuilderPhases
  <2>3. SentSoFar' /\ CheckpointIsTrue'
    BY <1>0, <2>1 DEF SentSoFar, CheckpointIsTrue
  <2> QED BY <1>0, <2>1, <2>2, <2>3, BuilderKeeps
<1>3. CASE DropIndex
  <2>1. /\ builder.phase = "prepare" /\ builder.reset /\ builder.todo # <<>>
        /\ docs' = [j \in DOMAIN docs \ {Head(builder.todo)} |-> docs[j]]
        /\ UNCHANGED <<fileVars, saved, builder, losses, writer>>
    BY <1>3 DEF DropIndex, BuilderStep, fileVars
  <2>2. \A p \in Parts : saved[p] = NoFile
    BY <2>1 DEF IndexInv, BuilderOK
  <2>3. DOMAIN docs' = DOMAIN docs \ {Head(builder.todo)} /\ Head(builder.todo) \in ToSet(builder.todo)
    BY <1>0, <2>1, HeadAndTail
  <2>4. BuilderOK'
    BY <2>1, <2>3 DEF IndexInv, BuilderOK
  <2>5. SentSoFar' /\ CheckpointIsTrue'
    BY <2>1, <2>2 DEF SentSoFar, CheckpointIsTrue
  <2> QED BY <1>0, <2>1, <2>3, <2>4, <2>5, BuilderKeeps
<1>4. CASE EnsureIndex
  <2> DEFINE i == Head(builder.todo)
  <2>1. /\ builder.phase = "prepare" /\ builder.todo # <<>>
        /\ docs' = IF i \in DOMAIN docs THEN docs ELSE WithDocs(i, {})
        /\ builder' = [builder EXCEPT !.todo = Tail(@),
                                      !.phase = IF Len(builder.todo) = 1 THEN "open" ELSE @]
        /\ UNCHANGED <<fileVars, saved, losses, writer>>
    BY <1>4 DEF EnsureIndex, BuilderStep, fileVars
  <2>2. /\ i \in Indexes /\ Tail(builder.todo) \in Seq(Indexes)
        /\ ToSet(builder.todo) = {i} \cup ToSet(Tail(builder.todo))
        /\ Len(builder.todo) = 1 => Tail(builder.todo) = <<>>
    BY <1>0, <2>1, HeadAndTail
  <2>3. DOMAIN docs' = DOMAIN docs \cup {i} /\ \A j \in DOMAIN docs : docs'[j] = docs[j]
    BY <2>1 DEF WithDocs
  <2>4. ToSet(<<>>) = {}
    BY DEF ToSet
  <2>5. BuilderOK'
    <3>1. CASE Len(builder.todo) = 1
      <4>1. builder' = [builder EXCEPT !.todo = Tail(builder.todo), !.phase = "open"]
        BY <1>0, <2>1, <3>1
      <4>2. Indexes \subseteq DOMAIN docs'
        BY <2>1, <2>2, <2>3, <2>4, <3>1 DEF IndexInv, BuilderOK
      <4> QED BY <1>0, <2>1, <2>2, <4>1, <4>2 DEF IndexInv, BuilderOK, BuilderPhases
    <3>2. CASE Len(builder.todo) # 1
      <4>1. builder' = [builder EXCEPT !.todo = Tail(builder.todo)]
        BY <1>0, <2>1, <3>2
      <4>2. Indexes \subseteq ToSet(Tail(builder.todo)) \cup DOMAIN docs'
        BY <2>1, <2>2, <2>3 DEF IndexInv, BuilderOK
      <4> QED BY <1>0, <2>1, <2>2, <4>1, <4>2 DEF IndexInv, BuilderOK
    <3> QED BY <3>1, <3>2
  <2>6. CheckpointIsTrue'
    BY <2>1, <2>3 DEF IndexInv, CheckpointIsTrue
  <2>7. SentSoFar'
    BY <1>0, <2>1 DEF SentSoFar
  <2> QED BY <1>0, <2>1, <2>2, <2>3, <2>5, <2>6, <2>7, BuilderKeeps
<1> QED BY <1>1, <1>2, <1>3, <1>4

LEMMA OpenStep ==
    ASSUME IndexInv, SkipPartition \/ OpenPartition PROVE IndexInv'
<1> DEFINE p == PartIn(builder)
           state == IF saved[p] = NoFile THEN FreshCheckpoint(output[p]) ELSE saved[p]
<1>0. /\ builder \in [phase : BuilderPhases, reset : BOOLEAN, todo : Seq(Indexes),
                      selected : SUBSET Parts, parts : Seq(Parts), next : Nat]
      /\ DOMAIN docs \subseteq Indexes /\ CheckpointIsTrue
      /\ builder.phase = "open" /\ UNCHANGED <<fileVars, saved, docs, losses>>
      /\ UNCHANGED <<writer, output>>
  BY DEF IndexInv, BuilderOK, SkipPartition, OpenPartition, BuilderStep, fileVars
<1>1. CheckpointIsTrue'
  BY <1>0 DEF CheckpointIsTrue
<1>2. BuilderOK' /\ SentSoFar'
  <2>1. CASE builder' = Stopped
    BY <2>1, StoppedOK
  <2>2. CASE builder' = Onward(builder)
    BY <1>0, <2>2, OnwardOK
  <2>3. CASE /\ output # NoFile /\ ContractHolds(state, output[p])
             /\ builder' = [builder EXCEPT !.phase = "send", !.next = state.next]
    <3>1. p \in Parts /\ output \in Catalogues /\ IndexOf[p] \in DOMAIN docs
      BY <1>0, <2>3, HeadAndTail, FinitelyManyIndexes DEF IndexInv, BuilderOK, FilesInv, PartIn
    <3>2. output[p] \in Seq(DOMAIN Offers)
      BY <3>1 DEF Catalogues
    <3>3. /\ state.next \in Nat /\ state.next <= Len(output[p])
          /\ losses = 0 => \A n \in 1..state.next : output[p][n] \in docs[IndexOf[p]]
      <4>1. CASE saved[p] = NoFile
        BY <3>2, <4>1 DEF FreshCheckpoint
      <4>2. CASE saved[p] # NoFile
        <5>1. state = saved[p] /\ saved[p].sha = output[p]
          BY <2>3, <4>2 DEF ContractHolds
        <5> QED BY <1>0, <3>1, <4>2, <5>1 DEF IndexInv, CheckpointIsTrue, Checkpoints
      <4> QED BY <4>1, <4>2
    <3>4. saved[p] # NoFile => saved[p].sha = output[p]
      BY <2>3 DEF ContractHolds
    <3> HIDE DEF state
    <3>5. /\ builder'.phase = "send" /\ builder'.next = state.next
          /\ builder'.parts = builder.parts /\ PartIn(builder') = p
          /\ builder' \in [phase : BuilderPhases, reset : BOOLEAN, todo : Seq(Indexes),
                           selected : SUBSET Parts, parts : Seq(Parts), next : Nat]
      BY <1>0, <2>3, <3>3 DEF PartIn, BuilderPhases
    <3>6. BuilderOK'
      BY <1>0, <3>5 DEF IndexInv, BuilderOK
    <3> QED BY <1>0, <2>3, <3>3, <3>4, <3>5, <3>6 DEF SentSoFar
  <2> QED BY <2>1, <2>2, <2>3 DEF SkipPartition, OpenPartition
<1> QED BY <1>0, <1>1, <1>2, BuilderKeeps

LEMMA NoteStep ==
    ASSUME IndexInv, NoteProgress \/ PartitionDone PROVE IndexInv'
<1> DEFINE p == PartIn(builder)
<1>0. /\ builder \in [phase : BuilderPhases, reset : BOOLEAN, todo : Seq(Indexes),
                      selected : SUBSET Parts, parts : Seq(Parts), next : Nat]
      /\ builder.phase \in {"send", "note"} /\ UNCHANGED <<fileVars, docs, losses>>
      /\ UNCHANGED <<writer, output>> /\ DOMAIN docs \subseteq Indexes /\ DOMAIN saved = Parts
  BY DEF IndexInv, BuilderOK, NoteProgress, PartitionDone, BuilderStep, fileVars
<1>1. /\ p \in Parts /\ IndexOf[p] \in DOMAIN docs
      /\ output[p] \in FileOf(p) /\ builder.next \in 0..Len(output[p])
  BY <1>0, SentIsFile
<1>2. losses = 0 => \A n \in 1..builder.next : output[p][n] \in docs[IndexOf[p]]
  BY <1>0 DEF IndexInv, SentSoFar
<1>3. PICK completed \in BOOLEAN :
        saved' = [saved EXCEPT ![p] = [sha |-> output[p], next |-> builder.next, completed |-> completed]]
  BY DEF NoteProgress, PartitionDone
<1>4. /\ saved'[p] = [sha |-> output[p], next |-> builder.next, completed |-> completed]
      /\ \A q \in Parts : q # p => saved'[q] = saved[q]
      /\ DOMAIN saved' = Parts
  BY <1>0, <1>1, <1>3
<1>5. saved'[p] \in Checkpoints(p) /\ saved'[p].next <= Len(saved'[p].sha)
  BY <1>0, <1>1, <1>4 DEF Checkpoints
<1>6. CheckpointIsTrue'
  BY <1>0, <1>1, <1>2, <1>4 DEF IndexInv, CheckpointIsTrue
<1>7. BuilderOK' /\ SentSoFar'
  <2>1. CASE builder' = Onward(builder) /\ builder.phase = "send"
    BY <1>0, <2>1, OnwardOK
  <2>2. CASE builder' = [builder EXCEPT !.phase = "send"]
    <3>1. BuilderOK'
      BY <1>0, <2>2 DEF IndexInv, BuilderOK, BuilderPhases
    <3>2. PartIn(builder') = p /\ builder'.next = builder.next
      BY <1>0, <2>2 DEF PartIn
    <3>3. output # NoFile
      BY <1>0 DEF IndexInv, SentSoFar
    <3> QED BY <1>0, <1>1, <1>2, <1>4, <3>1, <3>2, <3>3 DEF SentSoFar
  <2> QED BY <2>1, <2>2 DEF NoteProgress, PartitionDone, BuilderStep
<1> QED BY <1>0, <1>4, <1>5, <1>6, <1>7, BuilderKeeps

LEMMA LastStep ==
    ASSUME IndexInv, FinalizeIndex \/ Die PROVE IndexInv'
<1>0. /\ builder \in [phase : BuilderPhases, reset : BOOLEAN, todo : Seq(Indexes),
                      selected : SUBSET Parts, parts : Seq(Parts), next : Nat]
      /\ DOMAIN docs \subseteq Indexes /\ CheckpointIsTrue
      /\ UNCHANGED <<fileVars, saved, docs, losses>> /\ UNCHANGED <<writer, output>>
  BY DEF IndexInv, BuilderOK, FinalizeIndex, Die, BuilderStep, fileVars
<1>1. CheckpointIsTrue'
  BY <1>0 DEF CheckpointIsTrue
<1>2. BuilderOK' /\ SentSoFar'
  <2>1. CASE builder' = Stopped
    BY <2>1, StoppedOK
  <2>2. CASE /\ builder.phase = "finalize" /\ Len(builder.todo) # 1
             /\ builder' = [builder EXCEPT !.todo = Tail(@)]
    <3>1. builder.todo # <<>>
      BY <2>2 DEF IndexInv, BuilderOK
    <3>2. Tail(builder.todo) \in Seq(Indexes) /\ Tail(builder.todo) # <<>>
      BY <1>0, <2>2, <3>1, HeadAndTail
    <3> QED BY <1>0, <2>2, <3>2 DEF IndexInv, BuilderOK, SentSoFar
  <2> QED BY <2>1, <2>2 DEF FinalizeIndex, Die, BuilderStep
<1> QED BY <1>0, <1>1, <1>2, BuilderKeeps

\* What happens around a builder that is not running.
LEMMA AroundStep ==
    ASSUME IndexInv, WriteFiles \/ LoseIndex \/ Audit \/ UNCHANGED indexVars PROVE IndexInv'
<1>1. CASE WriteFiles
  <2>1. /\ builder.phase = "none" /\ FilesNext
        /\ UNCHANGED <<saved, docs, builder, losses>>
    BY <1>1 DEF WriteFiles
  <2>2. FilesInv'
    BY <2>1, FilesStep DEF IndexInv
  <2> QED BY <2>1, <2>2 DEF IndexInv, BuilderOK, SentSoFar, CheckpointIsTrue, Checkpoints
<1>2. CASE LoseIndex
  <2>1. /\ builder.phase = "none" /\ losses' = losses + 1
        /\ UNCHANGED <<fileVars, saved, builder, writer>>
        /\ DOMAIN docs' \subseteq DOMAIN docs
    BY <1>2 DEF LoseIndex, fileVars
  <2>2. losses \in Nat /\ FilesInv
    BY DEF IndexInv
  <2>3. FilesInv'
    BY <2>1, <2>2 DEF FilesInv, fileVars, LeftBehind, Publishing
  <2> QED BY <2>1, <2>2, <2>3 DEF IndexInv, BuilderOK, SentSoFar, CheckpointIsTrue, Checkpoints
<1>3. CASE Audit \/ UNCHANGED indexVars
  <2>1. UNCHANGED <<fileVars, saved, docs, builder, losses, writer, output>>
    BY <1>3 DEF Audit, indexVars, fileVars
  <2>2. FilesInv'
    BY <2>1 DEF IndexInv, FilesInv, fileVars, LeftBehind, Publishing
  <2> QED BY <2>1, <2>2 DEF IndexInv, BuilderOK, SentSoFar, CheckpointIsTrue, Checkpoints
<1> QED BY <1>1, <1>2, <1>3

----------------------------------------------------------------------------
(* The theorems. *)

\* The inductive invariant of the files and of the indexes built from them.
THEOREM IndexInvariant == IndexSpec => []IndexInv
<1>1. IndexInv /\ [IndexNext]_indexVars => IndexInv'
  BY PrepareStep, OpenStep, BulkStep, NoteStep, LastStep, AroundStep DEF IndexNext, BuilderNext
<1> QED BY <1>1, InitIndex, PTL DEF IndexSpec

\* For any number of partitions, indexes, builds, starts and kills: once a
\* catalogue was published a whole one is on the disk (_publish()), and while
\* the search engine keeps its indexes the rows a checkpoint names are in them,
\* however often the builder was reset (main(), build_partition()).
THEOREM CrashesSurvived == IndexSpec => []SurvivesCrashes
<1>1. IndexInv => SurvivesCrashes
  BY DEF IndexInv, FilesInv, SurvivesCrashes, NeverLost, LeftBehind
<1> QED BY <1>1, IndexInvariant, PTL

=============================================================================
