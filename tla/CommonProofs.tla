----------------------------- MODULE CommonProofs ------------------------------
(***************************************************************************)
(* What the proofs about several components rest on: what every component  *)
(* with handlers in flight knows of them, whatever a request carries; that *)
(* a set of numbers that is not empty has a least element; and what sums   *)
(* over finite sets are, by the least set for which it would be otherwise. *)
(***************************************************************************)
EXTENDS Handlers, Integers, Functions, FiniteSetTheorems, WellFoundedInduction, TLAPS

-----------------------------------------------------------------------------
(* Handlers in flight.                                                     *)

\* A request is a record, whatever it carries.
IsRequest(k) ==
  /\ k = [x \in DOMAIN k |-> k[x]]
  /\ {"op", "reads", "fresh"} \subseteq DOMAIN k
  /\ k.fresh \in BOOLEAN

\* So are all that are in flight.
AllRequests == request = [r \in Requests |-> request[r]] /\ \A r \in Requests : IsRequest(request[r])

LEMMA FreeIsRequest == IsRequest(Free)
  BY DEF IsRequest, Free

\* A request that loses its freshness is otherwise the same.
LEMMA Refreshed ==
  ASSUME NEW k, IsRequest(k), NEW f \in BOOLEAN
  PROVE  LET j == [k EXCEPT !.fresh = f] IN
         /\ IsRequest(j)
         /\ j.op = k.op /\ j.reads = k.reads /\ j.fresh = f
         /\ DOMAIN j = DOMAIN k /\ \A x \in DOMAIN k \ {"fresh"} : j[x] = k[x]
         /\ f = k.fresh => j = k
  <1> DEFINE j == [k EXCEPT !.fresh = f]
  <1>1. j = [x \in DOMAIN k |-> IF x = "fresh" THEN f ELSE k[x]]
    BY DEF IsRequest
  <1> QED
    BY <1>1 DEF IsRequest

\* A request that goes on with another operation.
LEMMA OtherOp ==
  ASSUME NEW k, IsRequest(k), NEW op
  PROVE  LET j == [k EXCEPT !.op = op] IN
         /\ IsRequest(j) /\ j.op = op /\ j.fresh = k.fresh /\ DOMAIN j = DOMAIN k
         /\ \A x \in DOMAIN k \ {"op"} : j[x] = k[x]
  <1> DEFINE j == [k EXCEPT !.op = op]
  <1>1. j = [x \in DOMAIN k |-> IF x = "op" THEN op ELSE k[x]]
    BY DEF IsRequest
  <1> QED
    BY <1>1 DEF IsRequest

\* A handler that goes on as k.
LEMMA GoesOn ==
  ASSUME AllRequests, NEW r \in Requests, NEW k, IsRequest(k), Goes(r, k)
  PROVE  /\ AllRequests'
         /\ request'[r] = k
         /\ \A q \in Requests \ {r} : request'[q] = request[q]
         /\ overtaken' = overtaken
  BY DEF AllRequests, Goes

LEMMA EndsHere ==
  ASSUME AllRequests, NEW r \in Requests, NEW halfway, Ends(r, halfway)
  PROVE  /\ AllRequests'
         /\ request'[r] = Free
         /\ \A q \in Requests \ {r} : request'[q] = request[q]
         /\ overtaken' = overtaken
  BY FreeIsRequest DEF AllRequests, Ends

\* After a write of W, a handler that is still fresh is as it was and has
\* read nothing of W; the others are about to do the same as before.
LEMMA WroteOver ==
  ASSUME AllRequests, NEW r \in Requests, NEW W, NEW k, IsRequest(k), Wrote(r, W, k)
  PROVE  /\ AllRequests'
         /\ request'[r] = k
         /\ \A q \in Requests \ {r} :
              /\ request'[q].op = request[q].op
              /\ request'[q].reads = request[q].reads
              /\ DOMAIN request'[q] = DOMAIN request[q]
              /\ \A x \in DOMAIN request[q] \ {"fresh"} : request'[q][x] = request[q][x]
              /\ request'[q].fresh =>
                   request'[q] = request[q] /\ request[q].fresh /\ request[q].reads \intersect W = {}
         /\ ~overtaken' => ~overtaken /\ request[r].fresh
  <1>1. request' = [q \in Requests |-> request'[q]] /\ request'[r] = k
    BY DEF Wrote
  <1>2. ASSUME NEW q \in Requests \ {r}
        PROVE  /\ IsRequest(request'[q])
               /\ request'[q].op = request[q].op
               /\ request'[q].reads = request[q].reads
               /\ DOMAIN request'[q] = DOMAIN request[q]
               /\ \A x \in DOMAIN request[q] \ {"fresh"} : request'[q][x] = request[q][x]
               /\ request'[q].fresh =>
                    request'[q] = request[q] /\ request[q].fresh /\ request[q].reads \intersect W = {}
    <2> DEFINE f == request[q].fresh /\ request[q].reads \intersect W = {}
    <2>1. request'[q] = [request[q] EXCEPT !.fresh = f]
      BY DEF Wrote
    <2>2. IsRequest(request[q]) /\ f \in BOOLEAN
      BY DEF AllRequests
    <2>3. f => f = request[q].fresh
      BY <2>2 DEF IsRequest
    <2> HIDE DEF f
    <2>4. /\ IsRequest(request'[q])
          /\ request'[q].op = request[q].op
          /\ request'[q].reads = request[q].reads
          /\ request'[q].fresh = f
          /\ DOMAIN request'[q] = DOMAIN request[q]
          /\ \A x \in DOMAIN request[q] \ {"fresh"} : request'[q][x] = request[q][x]
          /\ f = request[q].fresh => request'[q] = request[q]
      BY <2>1, <2>2, Refreshed
    <2> QED
      BY <2>3, <2>4 DEF f
  <1>3. ~overtaken' => ~overtaken /\ request[r].fresh
    BY DEF Wrote
  <1> QED
    BY <1>1, <1>2, <1>3 DEF AllRequests

-----------------------------------------------------------------------------
(* Numbers and sums.                                                       *)

\* A set of numbers that is not empty has a least element.
LEMMA Least ==
  ASSUME NEW S \in SUBSET Nat, S # {}
  PROVE  \E n \in S : \A m \in S : n <= m
  <1>1. \A m, n \in Nat : m < n => <<m, n>> \in OpToRel(<, Nat)
    <2> TAKE m, n \in Nat
    <2>1. <<m, n>> \in Nat \X Nat /\ <<m, n>>[1] = m /\ <<m, n>>[2] = n
      OBVIOUS
    <2> QED
      BY <2>1 DEF OpToRel
  <1>2. PICK R : IsWellFoundedOn(R, Nat) /\ \A m, n \in Nat : m < n => <<m, n>> \in R
    BY <1>1, NatLessThanWellFounded
  <1>3. PICK n \in S : \A m \in S : <<m, n>> \notin R
    <2>1. S \subseteq Nat /\ IsWellFoundedOn(R, Nat)
      BY <1>2
    <2> QED
      BY <2>1, WFMin
  <1>4. ASSUME NEW m \in S PROVE n <= m
    <2>1. m \in Nat /\ n \in Nat /\ ~(m < n)
      BY <1>2, <1>3
    <2> QED
      BY <2>1
  <1> QED
    BY <1>4

\* A bounded set of numbers that is not empty has a greatest one.
LEMMA Greatest ==
  ASSUME NEW S \in SUBSET Nat, S # {}, NEW bound \in Nat, \A n \in S : n <= bound
  PROVE  \E n \in S : \A m \in S : m <= n
  <1>1. PICK n \in {bound - m : m \in S} : \A m \in {bound - m : m \in S} : n <= m
    <2> DEFINE D == {bound - m : m \in S}
    <2>1. D \in SUBSET Nat /\ D # {}
      <3>1. ASSUME NEW m \in S PROVE bound - m \in Nat
        BY m <= bound
      <3>2. PICK m \in S : TRUE
        OBVIOUS
      <3>3. bound - m \in D
        OBVIOUS
      <3> QED
        BY <3>1, <3>3
    <2> HIDE DEF D
    <2>2. \E n \in D : \A m \in D : n <= m
      BY <2>1, Least
    <2> QED
      BY <2>2 DEF D
  <1>2. PICK x \in S : n = bound - x
    BY <1>1
  <1>3. ASSUME NEW m \in S PROVE m <= x
    <2>1. n <= bound - m /\ m \in Nat /\ x \in Nat
      BY <1>1
    <2> QED
      BY <1>2, <2>1
  <1> QED
    BY <1>3

-----------------------------------------------------------------------------
\* g[s] is the sum of f over s, for every subset s of S.
Sums(g, f, S) ==
  /\ g \in [SUBSET S -> Int]
  /\ g[{}] = 0
  /\ \A s \in SUBSET S : \A x \in s : g[s] = f[x] + g[s \ {x}]

\* Every finite set has the sums of a function on it: a smallest set without
\* them has an element to add to those of the others.
LEMMA SumsExist ==
  ASSUME NEW S, IsFiniteSet(S), NEW f, \A x \in S : f[x] \in Int
  PROVE  \E g : Sums(g, f, S)
  <1> DEFINE without == {n \in Nat : \E T \in SUBSET S : Cardinality(T) = n /\ ~ \E g : Sums(g, f, T)}
  <1> SUFFICES ASSUME ~ \E g : Sums(g, f, S) PROVE FALSE
    OBVIOUS
  <1>1. without \in SUBSET Nat /\ without # {}
    <2>1. Cardinality(S) \in without
      BY FS_CardinalityType
    <2> QED
      BY <2>1
  <1> HIDE DEF without
  <1>2. PICK n \in without : \A m \in without : n <= m
    BY <1>1, Least
  <1>3. PICK T \in SUBSET S : Cardinality(T) = n /\ ~ \E g : Sums(g, f, T)
    BY <1>2 DEF without
  <1>4. IsFiniteSet(T)
    BY FS_Subset
  <1>5. T # {}
    <2>1. Sums([s \in SUBSET {} |-> 0], f, {})
      BY DEF Sums
    <2> QED
      BY <1>3, <2>1
  <1>6. PICK t \in T : TRUE
    BY <1>5
  <1> DEFINE U == T \ {t}
  <1>7. IsFiniteSet(U) /\ Cardinality(U) = n - 1 /\ U \in SUBSET S /\ n \in Nat
    BY <1>2, <1>1, <1>3, <1>4, <1>6, FS_RemoveElement
  <1>8. Cardinality(U) \in Nat
    BY <1>7, FS_CardinalityType
  <1>9. PICK g : Sums(g, f, U)
    <2>1. ~(n <= Cardinality(U))
      BY <1>7
    <2>2. Cardinality(U) \notin without
      BY <1>2, <2>1
    <2> QED
      BY <1>7, <1>8, <2>2 DEF without
  <1> DEFINE h == [s \in SUBSET T |-> IF t \in s THEN f[t] + g[s \ {t}] ELSE g[s]]
  <1>10. Sums(h, f, T)
    <2>1. \A s \in SUBSET T : s \ {t} \in SUBSET U /\ (t \notin s => s \in SUBSET U)
      OBVIOUS
    <2>2. f[t] \in Int /\ \A x \in T : f[x] \in Int
      BY <1>6
    <2>3. h \in [SUBSET T -> Int]
      <3> SUFFICES ASSUME NEW s \in SUBSET T PROVE h[s] \in Int
        OBVIOUS
      <3>1. g[s \ {t}] \in Int /\ (t \notin s => g[s] \in Int)
        BY <1>9, <2>1 DEF Sums
      <3> QED
        BY <2>2, <3>1
    <2>4. h[{}] = 0
      BY <1>9 DEF Sums
    <2>5. ASSUME NEW s \in SUBSET T, NEW x \in s PROVE h[s] = f[x] + h[s \ {x}]
      <3>1. CASE x = t
        <4>1. t \notin s \ {t} /\ s \ {t} \in SUBSET T
          OBVIOUS
        <4>2. h[s \ {t}] = g[s \ {t}]
          BY <4>1
        <4> QED
          BY <3>1, <4>2
      <3>2. CASE x # t /\ t \notin s
        <4>1. s \in SUBSET U /\ t \notin s \ {x} /\ s \ {x} \in SUBSET T
          BY <3>2
        <4>2. g[s] = f[x] + g[s \ {x}]
          BY <1>9, <4>1 DEF Sums
        <4> QED
          BY <3>2, <4>1, <4>2
      <3>3. CASE x # t /\ t \in s
        <4>1. s \ {t} \in SUBSET U /\ x \in s \ {t} /\ t \in s \ {x} /\ s \ {x} \in SUBSET T
          BY <3>3
        <4>2. g[s \ {t}] = f[x] + g[(s \ {t}) \ {x}] /\ (s \ {t}) \ {x} \in SUBSET U
          BY <1>9, <4>1 DEF Sums
        <4>3. (s \ {t}) \ {x} = (s \ {x}) \ {t}
          OBVIOUS
        <4>4. h[s] = f[t] + g[s \ {t}] /\ h[s \ {x}] = f[t] + g[(s \ {x}) \ {t}]
          BY <3>3, <4>1
        <4>5. g[(s \ {x}) \ {t}] \in Int
          BY <1>9, <4>2, <4>3 DEF Sums
        <4>6. f[t] \in Int /\ f[x] \in Int
          BY <2>2
        <4> HIDE DEF h
        <4>7. h[s] = f[t] + (f[x] + g[(s \ {x}) \ {t}]) /\ h[s \ {x}] = f[t] + g[(s \ {x}) \ {t}]
          BY <4>2, <4>3, <4>4
        <4> QED
          BY <4>5, <4>6, <4>7
      <3> QED
        BY <3>1, <3>2, <3>3
    <2> HIDE DEF h
    <2> QED
      BY <2>3, <2>4, <2>5 DEF Sums
  <1> QED
    BY <1>3, <1>10

\* Sums are unique.
LEMMA SumsUnique ==
  ASSUME NEW S, IsFiniteSet(S), NEW f, NEW g, Sums(g, f, S), NEW h,
         h[{}] = 0, \A s \in SUBSET S : s # {} => \E x \in s : h[s] = f[x] + h[s \ {x}]
  PROVE  \A s \in SUBSET S : h[s] = g[s]
  <1> DEFINE differ == {n \in Nat : \E T \in SUBSET S : Cardinality(T) = n /\ h[T] # g[T]}
  <1> SUFFICES ASSUME NEW T \in SUBSET S, h[T] # g[T] PROVE FALSE
    OBVIOUS
  <1>1. differ \in SUBSET Nat /\ differ # {}
    <2>1. Cardinality(T) \in differ
      BY FS_Subset, FS_CardinalityType
    <2> QED
      BY <2>1
  <1> HIDE DEF differ
  <1>2. PICK n \in differ : \A m \in differ : n <= m
    BY <1>1, Least
  <1>3. PICK s \in SUBSET S : Cardinality(s) = n /\ h[s] # g[s]
    BY <1>2 DEF differ
  <1>4. s # {}
    BY <1>3 DEF Sums
  <1>5. PICK x \in s : h[s] = f[x] + h[s \ {x}]
    BY <1>4
  <1>6. g[s] = f[x] + g[s \ {x}]
    BY DEF Sums
  <1>7. IsFiniteSet(s \ {x}) /\ Cardinality(s \ {x}) = n - 1 /\ Cardinality(s \ {x}) \in Nat /\ n \in Nat
    BY <1>3, <1>2, <1>1, FS_Subset, FS_RemoveElement, FS_CardinalityType
  <1>8. h[s \ {x}] = g[s \ {x}]
    <2>1. ~(n <= Cardinality(s \ {x}))
      BY <1>7
    <2>2. Cardinality(s \ {x}) \notin differ
      BY <1>2, <2>1
    <2> QED
      BY <1>7, <2>2 DEF differ
  <1> QED
    BY <1>3, <1>5, <1>6, <1>8

\* The fold is the sum.
LEMMA FoldIsSum ==
  ASSUME NEW S, IsFiniteSet(S), NEW f, NEW g, Sums(g, f, S)
  PROVE  FoldFunctionOnSet(+, 0, f, S) = g[S]
  <1> DEFINE Step(h) == [s \in SUBSET S |->
                IF s = {} THEN 0 ELSE f[CHOOSE x \in s : TRUE] + h[s \ {CHOOSE x \in s : TRUE}]]
             iter == CHOOSE h : h = Step(h)
  <1>1. FoldFunctionOnSet(+, 0, f, S) = iter[S]
    BY DEF FoldFunctionOnSet, MapThenFoldSet
  <1>2. g = Step(g)
    <2>1. ASSUME NEW s \in SUBSET S, s # {}
          PROVE  g[s] = f[CHOOSE x \in s : TRUE] + g[s \ {CHOOSE x \in s : TRUE}]
      <3>1. (CHOOSE x \in s : TRUE) \in s
        BY <2>1
      <3> QED
        BY <3>1 DEF Sums
    <2> QED
      BY <2>1 DEF Sums
  <1>3. iter = Step(iter)
    BY <1>2
  <1> HIDE DEF iter
  <1>4. iter[{}] = 0
    BY <1>3
  <1>5. ASSUME NEW s \in SUBSET S, s # {} PROVE \E x \in s : iter[s] = f[x] + iter[s \ {x}]
    <2>1. (CHOOSE x \in s : TRUE) \in s
      BY <1>5
    <2>2. iter[s] = f[CHOOSE x \in s : TRUE] + iter[s \ {CHOOSE x \in s : TRUE}]
      BY <1>3, <1>5
    <2> QED
      BY <2>1, <2>2
  <1>6. iter[S] = g[S]
    <2>1. \A s \in SUBSET S : s # {} => \E x \in s : iter[s] = f[x] + iter[s \ {x}]
      BY <1>5
    <2>2. PICK h : h = iter
      OBVIOUS
    <2>3. h[{}] = 0 /\ \A s \in SUBSET S : s # {} => \E x \in s : h[s] = f[x] + h[s \ {x}]
      BY <1>4, <2>1, <2>2
    <2> HIDE DEF Step
    <2>4. \A s \in SUBSET S : h[s] = g[s]
      BY <2>3, SumsUnique
    <2> QED
      BY <2>2, <2>4
  <1> QED
    BY <1>1, <1>6

\* The sum of f over S, as the fold that the models use.
Sum(f, S) == FoldFunctionOnSet(+, 0, f, S)

LEMMA SumIs ==
  ASSUME NEW S, IsFiniteSet(S), NEW f, \A x \in S : f[x] \in Int
  PROVE  \E g : Sums(g, f, S) /\ Sum(f, S) = g[S]
  BY SumsExist, FoldIsSum DEF Sum

LEMMA SumInt ==
  ASSUME NEW S, IsFiniteSet(S), NEW f, \A x \in S : f[x] \in Int
  PROVE  Sum(f, S) \in Int
  <1>1. PICK g : Sums(g, f, S) /\ Sum(f, S) = g[S]
    BY SumIs
  <1> QED
    BY <1>1 DEF Sums

LEMMA SumOfNone == ASSUME NEW f PROVE Sum(f, {}) = 0
  <1>1. PICK g : Sums(g, f, {}) /\ Sum(f, {}) = g[{}]
    BY SumIs, FS_EmptySet
  <1> QED
    BY <1>1 DEF Sums

LEMMA SumOfPart ==
  ASSUME NEW S, IsFiniteSet(S), NEW f, NEW g, Sums(g, f, S), NEW T \in SUBSET S
  PROVE  Sum(f, T) = g[T]
  <1> DEFINE h == [s \in SUBSET T |-> g[s]]
  <1>1. Sums(h, f, T)
    <2>1. h \in [SUBSET T -> Int] /\ h[{}] = 0
      BY DEF Sums
    <2>2. ASSUME NEW s \in SUBSET T, NEW x \in s PROVE h[s] = f[x] + h[s \ {x}]
      BY DEF Sums
    <2> HIDE DEF h
    <2> QED
      BY <2>1, <2>2 DEF Sums
  <1>2. IsFiniteSet(T) /\ h[T] = g[T]
    BY FS_Subset
  <1> HIDE DEF h
  <1> QED
    BY <1>1, <1>2, FoldIsSum DEF Sum

LEMMA SumSplits ==
  ASSUME NEW S, IsFiniteSet(S), NEW f, \A x \in S : f[x] \in Int, NEW x \in S
  PROVE  Sum(f, S) = f[x] + Sum(f, S \ {x})
  <1>1. PICK g : Sums(g, f, S)
    BY SumsExist
  <1>2. Sum(f, S) = g[S] /\ Sum(f, S \ {x}) = g[S \ {x}]
    BY <1>1, SumOfPart
  <1> QED
    BY <1>1, <1>2 DEF Sums

LEMMA SumSame ==
  ASSUME NEW S, IsFiniteSet(S), NEW f, \A x \in S : f[x] \in Int, NEW h, \A x \in S : h[x] = f[x]
  PROVE  Sum(h, S) = Sum(f, S)
  <1>1. PICK g : Sums(g, f, S)
    BY SumsExist
  <1>2. Sums(g, h, S)
    BY <1>1 DEF Sums
  <1> QED
    BY <1>1, <1>2, FoldIsSum DEF Sum

LEMMA SumPlus ==
  ASSUME NEW S, IsFiniteSet(S), NEW f, \A x \in S : f[x] \in Int, NEW e, \A x \in S : e[x] \in Int,
         NEW h, \A x \in S : h[x] = f[x] + e[x]
  PROVE  Sum(h, S) = Sum(f, S) + Sum(e, S)
  <1>1. PICK g, d : Sums(g, f, S) /\ Sums(d, e, S)
    BY SumsExist
  <1> DEFINE a == [s \in SUBSET S |-> g[s] + d[s]]
  <1>2. Sums(a, h, S)
    <2>1. a \in [SUBSET S -> Int] /\ a[{}] = 0
      BY <1>1 DEF Sums
    <2>2. ASSUME NEW s \in SUBSET S, NEW x \in s PROVE a[s] = h[x] + a[s \ {x}]
      <3>1. g[s] = f[x] + g[s \ {x}] /\ d[s] = e[x] + d[s \ {x}]
        BY <1>1 DEF Sums
      <3>2. g[s \ {x}] \in Int /\ d[s \ {x}] \in Int /\ f[x] \in Int /\ e[x] \in Int /\ h[x] = f[x] + e[x]
        BY <1>1 DEF Sums
      <3>3. a[s] = g[s] + d[s] /\ a[s \ {x}] = g[s \ {x}] + d[s \ {x}]
        OBVIOUS
      <3> HIDE DEF a
      <3> QED
        BY <3>1, <3>2, <3>3
    <2> HIDE DEF a
    <2> QED
      BY <2>1, <2>2 DEF Sums
  <1>3. Sum(h, S) = a[S] /\ Sum(f, S) = g[S] /\ Sum(e, S) = d[S]
    BY <1>1, <1>2, FoldIsSum DEF Sum
  <1> QED
    BY <1>3

\* The same to each of some.
LEMMA SumOfEqual ==
  ASSUME NEW S, IsFiniteSet(S), NEW T \in SUBSET S, NEW c \in Int, NEW f,
         \A x \in S : f[x] = IF x \in T THEN c ELSE 0
  PROVE  Sum(f, S) = c * Cardinality(T)
  <1>1. PICK a \in [SUBSET S -> Nat] : \A s \in SUBSET S : a[s] = Cardinality(s \intersect T)
    <2> DEFINE n == [s \in SUBSET S |-> Cardinality(s \intersect T)]
    <2>1. \A s \in SUBSET S : Cardinality(s \intersect T) \in Nat
      <3> TAKE s \in SUBSET S
      <3>1. s \intersect T \in SUBSET S
        OBVIOUS
      <3> QED
        BY <3>1, FS_Subset, FS_CardinalityType
    <2>2. n \in [SUBSET S -> Nat] /\ \A s \in SUBSET S : n[s] = Cardinality(s \intersect T)
      BY <2>1
    <2> QED
      BY <2>2
  <1> DEFINE g == [s \in SUBSET S |-> c * a[s]]
  <1>2. Sums(g, f, S)
    <2>1. g \in [SUBSET S -> Int]
      <3>1. \A s \in SUBSET S : c * a[s] \in Int
        BY <1>1
      <3> QED
        BY <3>1
    <2>2. g[{}] = 0
      <3>1. {} \intersect T = {} /\ Cardinality({}) = 0
        BY FS_EmptySet
      <3>2. a[{}] = 0
        BY <1>1, <3>1
      <3> QED
        BY <3>2
    <2>3. ASSUME NEW s \in SUBSET S, NEW x \in s PROVE g[s] = f[x] + g[s \ {x}]
      <3>1. g[s] = c * a[s] /\ g[s \ {x}] = c * a[s \ {x}] /\ a[s] \in Nat /\ a[s \ {x}] \in Nat
        BY <1>1
      <3> HIDE DEF g
      <3>2. CASE x \in T
        <4>1. (s \ {x}) \intersect T = (s \intersect T) \ {x} /\ x \in s \intersect T
          BY <3>2
        <4>2. s \intersect T \in SUBSET S
          OBVIOUS
        <4>3. IsFiniteSet(s \intersect T)
          BY <4>2, FS_Subset
        <4>4. Cardinality((s \intersect T) \ {x}) = Cardinality(s \intersect T) - 1
          BY <4>1, <4>3, FS_RemoveElement
        <4>5. a[s \ {x}] = a[s] - 1 /\ f[x] = c
          BY <1>1, <3>2, <4>1, <4>4
        <4>6. g[s \ {x}] = c * (a[s] - 1)
          BY <3>1, <4>5
        <4>7. c * (a[s] - 1) = c * a[s] - c
          BY <3>1
        <4> QED
          BY <3>1, <4>5, <4>6, <4>7
      <3>3. CASE x \notin T
        <4>1. (s \ {x}) \intersect T = s \intersect T /\ f[x] = 0
          BY <3>3
        <4>2. a[s \ {x}] = a[s]
          BY <1>1, <4>1
        <4>3. c * a[s] \in Int
          BY <3>1
        <4> QED
          BY <3>1, <4>1, <4>2, <4>3
      <3> QED
        BY <3>2, <3>3
    <2> HIDE DEF g
    <2> QED
      BY <2>1, <2>2, <2>3 DEF Sums
  <1>3. g[S] = c * Cardinality(T)
    <2>1. S \intersect T = T
      OBVIOUS
    <2> QED
      BY <1>1, <2>1
  <1> HIDE DEF g
  <1> QED
    BY <1>2, <1>3, FoldIsSum DEF Sum

================================================================================
