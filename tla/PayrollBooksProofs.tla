------------------------- MODULE PayrollBooksProofs -------------------------
(***************************************************************************)
(* Proofs about PayrollBooks for any number of days, rows, tariffs, rules   *)
(* and requests.                                                            *)
(***************************************************************************)
EXTENDS PayrollBooks, FiniteSetTheorems, WellFoundedInduction, TLAPS

-----------------------------------------------------------------------------
(* Sums over finite sets.                                                   *)

(* A nonempty set of naturals has a least element.                          *)
LEMMA LeastNatural ==
  ASSUME NEW S, S \subseteq Nat, S # {}
  PROVE  \E n \in S : \A m \in S : n <= m
<1> DEFINE Less == OpToRel(<, Nat)
<1>1. IsWellFoundedOn(Less, Nat)
  BY NatLessThanWellFounded
<1>2. \A x, y \in Nat : <<y, x>> \in Less <=> y < x
  BY DEF OpToRel
<1> HIDE DEF Less
<1>3. PICK x \in S : \A y \in S : ~ (<<y, x>> \in Less)
  BY <1>1, WFMin
<1>4. ASSUME NEW y \in S PROVE x <= y
  <2>1. x \in Nat /\ y \in Nat /\ ~ (<<y, x>> \in Less)
    BY <1>3
  <2>2. ~ (y < x)
    BY <1>2, <2>1
  <2> QED BY <2>1, <2>2
<1> QED BY <1>4

\* f adds up the weights of every subset of S, one chosen element at a time: the
\* function MapThenSumSet recurs with.
First(s) == CHOOSE x \in s : TRUE
Adds(f, w, S) ==
  f = [s \in SUBSET S |-> IF s = {} THEN 0 ELSE w[First(s)] + f[s \ {First(s)}]]

(* Taking an element from a finite set makes it smaller.                    *)
LEMMA Smaller ==
  ASSUME NEW s, IsFiniteSet(s), NEW y \in s
  PROVE  /\ IsFiniteSet(s \ {y}) /\ Cardinality(s \ {y}) = Cardinality(s) - 1
         /\ Cardinality(s) \in Nat /\ Cardinality(s) > 0
<1>1. Cardinality(s) \in Nat /\ (Cardinality(s) = 0 <=> s = {})
  BY FS_CardinalityType, FS_EmptySet
<1>2. IsFiniteSet(s \ {y}) /\ Cardinality(s \ {y}) = Cardinality(s) - 1
  BY FS_RemoveElement
<1> QED BY <1>1, <1>2

(* A set of subsets with the empty one, and with every subset all of whose  *)
(* smaller neighbours it has, has the whole set.                            *)
LEMMA SubsetInduction ==
  ASSUME NEW S, IsFiniteSet(S), NEW G, {} \in G,
         \A T \in SUBSET S : T # {} /\ (\A y \in T : T \ {y} \in G) => T \in G
  PROVE  S \in G
<1> DEFINE Bad == {Cardinality(T) : T \in (SUBSET S) \ G}
<1>1. \A T \in SUBSET S : IsFiniteSet(T) /\ Cardinality(T) \in Nat
  BY FS_Subset, FS_CardinalityType
<1>2. ASSUME Bad # {} PROVE FALSE
  <2>1. PICK n \in Bad : \A m \in Bad : n <= m
    <3>1. Bad \subseteq Nat
      BY <1>1
    <3> HIDE DEF Bad
    <3> QED BY <1>2, <3>1, LeastNatural
  <2>2. PICK T \in SUBSET S : T \notin G /\ Cardinality(T) = n
    BY <2>1
  <2>3. ASSUME NEW y \in T PROVE T \ {y} \in G
    <3>1. Cardinality(T \ {y}) = Cardinality(T) - 1 /\ Cardinality(T) \in Nat
      BY <1>1, Smaller
    <3>2. ~ (n <= Cardinality(T \ {y}))
      BY <2>2, <3>1
    <3> QED BY <2>1, <3>2
  <2> QED BY <2>2, <2>3
<1> QED BY <1>2

(* Such a function exists for every finite set of natural weights.          *)
LEMMA AddsExists ==
  ASSUME NEW S, IsFiniteSet(S), NEW w, \A x \in S : w[x] \in Nat
  PROVE  \E f : Adds(f, w, S)
<1> DEFINE Upto(n) == {s \in SUBSET S : Cardinality(s) <= n}
           P(n) == \E g : \A s \in Upto(n) :
                     g[s] = IF s = {} THEN 0 ELSE w[First(s)] + g[s \ {First(s)}]
           Bad == {n \in Nat : ~P(n)}
<1>1. \A s \in SUBSET S : IsFiniteSet(s) /\ Cardinality(s) \in Nat
  BY FS_Subset, FS_CardinalityType
<1>2. \A s \in SUBSET S : s # {} => First(s) \in s
  BY DEF First
<1>3. ASSUME Bad # {} PROVE FALSE
  <2> HIDE DEF P
  <2>1. PICK n \in Bad : \A m \in Bad : n <= m
    <3>1. Bad \subseteq Nat
      OBVIOUS
    <3> HIDE DEF Bad
    <3> QED BY <1>3, <3>1, LeastNatural
  <2>2. n \in Nat /\ ~P(n)
    BY <2>1
  <2>3. CASE n = 0
    <3> DEFINE g == [s \in Upto(0) |-> 0]
    <3>1. ASSUME NEW s \in Upto(0) PROVE s = {}
      BY <1>1, <3>1, FS_EmptySet
    <3>2. \A s \in Upto(0) : g[s] = IF s = {} THEN 0 ELSE w[First(s)] + g[s \ {First(s)}]
      <4> TAKE s \in Upto(0)
      <4>1. s = {} /\ g[s] = 0
        BY <3>1
      <4> QED BY <4>1
    <3>3. P(0)
      <4> HIDE DEF g
      <4> QED BY <3>2 DEF P
    <3> QED BY <2>2, <2>3, <3>3
  <2>4. CASE n > 0
    <3>1. n - 1 \in Nat /\ P(n - 1)
      BY <2>1, <2>2, <2>4
    <3>2. PICK g : \A s \in Upto(n - 1) :
             g[s] = IF s = {} THEN 0 ELSE w[First(s)] + g[s \ {First(s)}]
      BY <3>1 DEF P
    <3> DEFINE h == [s \in Upto(n) |->
                      IF s = {} THEN 0 ELSE w[First(s)] + g[s \ {First(s)}]]
    <3>3. ASSUME NEW s \in Upto(n), s # {}
          PROVE  s \ {First(s)} \in Upto(n - 1) /\ s \ {First(s)} \in Upto(n)
      <4>1. First(s) \in s /\ s \in SUBSET S /\ Cardinality(s) <= n
        BY <1>2, <3>3
      <4>2. Cardinality(s \ {First(s)}) = Cardinality(s) - 1 /\ Cardinality(s) \in Nat
        BY <1>1, <4>1, Smaller
      <4> QED BY <2>2, <4>1, <4>2
    <3>4. \A s \in Upto(n) : h[s] = IF s = {} THEN 0 ELSE w[First(s)] + h[s \ {First(s)}]
      <4> TAKE s \in Upto(n)
      <4>1. CASE s = {}
        BY <4>1
      <4>2. CASE s # {}
        <5> DEFINE t == s \ {First(s)}
        <5>1. t \in Upto(n - 1) /\ t \in Upto(n)
          BY <3>3, <4>2
        <5> HIDE DEF t
        <5>2. h[t] = g[t]
          BY <3>2, <5>1
        <5> QED BY <4>2, <5>2 DEF t
      <4> QED BY <4>1, <4>2
    <3>5. P(n)
      <4> HIDE DEF h
      <4> QED BY <3>4 DEF P
    <3> QED BY <2>2, <3>5
  <2> QED BY <2>2, <2>3, <2>4
<1>4. P(Cardinality(S))
  <2> HIDE DEF P
  <2> QED BY <1>1, <1>3
<1>5. PICK g : \A s \in Upto(Cardinality(S)) :
         g[s] = IF s = {} THEN 0 ELSE w[First(s)] + g[s \ {First(s)}]
  BY <1>4
<1>6. ASSUME NEW s \in SUBSET S PROVE s \in Upto(Cardinality(S))
  BY FS_Subset
<1> DEFINE f == [s \in SUBSET S |-> g[s]]
<1>7. \A s \in SUBSET S : f[s] = IF s = {} THEN 0 ELSE w[First(s)] + f[s \ {First(s)}]
  <2> HIDE DEF Upto
  <2> QED BY <1>5, <1>6
<1>8. f = [s \in SUBSET S |-> IF s = {} THEN 0 ELSE w[First(s)] + f[s \ {First(s)}]]
  <2>1. f = [s \in SUBSET S |-> f[s]]
    OBVIOUS
  <2> HIDE DEF f
  <2> QED BY <1>7, <2>1
<1> QED BY <1>8 DEF Adds

(* It adds natural numbers, and the element taken first does not matter.    *)
LEMMA AddsStep ==
  ASSUME NEW S, IsFiniteSet(S), NEW w, \A x \in S : w[x] \in Nat, NEW f, Adds(f, w, S)
  PROVE  /\ f[{}] = 0
         /\ \A s \in SUBSET S : f[s] \in Nat
         /\ \A s \in SUBSET S : \A y \in s : f[s] = w[y] + f[s \ {y}]
<1>1. \A s \in SUBSET S : f[s] = IF s = {} THEN 0 ELSE w[First(s)] + f[s \ {First(s)}]
  BY DEF Adds
<1>2. \A s \in SUBSET S : IsFiniteSet(s) /\ Cardinality(s) \in Nat
  BY FS_Subset, FS_CardinalityType
<1>3. \A s \in SUBSET S : s # {} => First(s) \in s
  BY DEF First
<1>6. f[{}] = 0
  BY <1>1
<1> DEFINE Good(s) == f[s] \in Nat /\ \A y \in s : f[s] = w[y] + f[s \ {y}]
           Bad == {Cardinality(s) : s \in {t \in SUBSET S : ~Good(t)}}
<1>4. ASSUME Bad # {} PROVE FALSE
  <2> HIDE DEF Good
  <2>1. PICK n \in Bad : \A m \in Bad : n <= m
    <3>1. Bad \subseteq Nat
      BY <1>2
    <3> HIDE DEF Bad
    <3> QED BY <1>4, <3>1, LeastNatural
  <2>2. PICK s \in SUBSET S : ~Good(s) /\ Cardinality(s) = n
    BY <2>1
  <2>3. ASSUME NEW t \in SUBSET s, t # s PROVE Good(t)
    <3>1. Cardinality(t) < Cardinality(s) /\ Cardinality(s) \in Nat /\ Cardinality(t) \in Nat
      BY <1>2, <2>3, FS_Subset
    <3>2. t \in SUBSET S
      OBVIOUS
    <3> QED BY <2>1, <2>2, <3>1, <3>2
  <2>4. CASE s = {}
    BY <1>6, <2>2, <2>4 DEF Good
  <2>5. CASE s # {}
    <3> DEFINE x == First(s)
    <3>1. x \in s /\ f[s] = w[x] + f[s \ {x}] /\ w[x] \in Nat /\ f[s \ {x}] \in Nat
      BY <1>1, <1>3, <2>3, <2>5 DEF Good
    <3> HIDE DEF x
    <3>2. ASSUME NEW y \in s PROVE f[s] = w[y] + f[s \ {y}]
      <4>1. CASE y = x
        BY <3>1, <4>1
      <4>2. CASE y # x
        <5>1. x \in s \ {y} /\ y \in s \ {x}
          BY <3>1, <4>2
        <5> DEFINE rest == (s \ {x}) \ {y}
        <5>2. f[s \ {x}] = w[y] + f[rest]
          BY <2>3, <3>1, <5>1 DEF Good
        <5>3. f[s \ {y}] = w[x] + f[rest]
          <6>1. (s \ {y}) \ {x} = rest
            OBVIOUS
          <6>2. Good(s \ {y})
            BY <2>3
          <6> HIDE DEF rest
          <6> QED BY <5>1, <6>1, <6>2 DEF Good
        <5>4. f[rest] \in Nat /\ w[y] \in Nat
          <6>1. Good(rest)
            BY <2>3, <3>1
          <6> QED BY <6>1 DEF Good
        <5> HIDE DEF rest
        <5> QED BY <3>1, <5>2, <5>3, <5>4
      <4> QED BY <4>1, <4>2
    <3>3. f[s] \in Nat
      BY <3>1
    <3> QED BY <2>2, <3>2, <3>3 DEF Good
  <2> QED BY <2>4, <2>5
<1>5. \A s \in SUBSET S : Good(s)
  <2> HIDE DEF Good
  <2> QED BY <1>4
<1> QED BY <1>5, <1>6

(* Two such functions agree where their sets and weights do.                *)
LEMMA AddsAgree ==
  ASSUME NEW T, IsFiniteSet(T), NEW S \in SUBSET T, NEW w, NEW v,
         \A x \in T : v[x] \in Nat, \A x \in S : w[x] = v[x],
         NEW f, Adds(f, w, S), NEW g, Adds(g, v, T)
  PROVE  f[S] = g[S]
<1>1. IsFiniteSet(S) /\ \A x \in S : w[x] \in Nat
  BY FS_Subset
<1>2. /\ f[{}] = 0 /\ g[{}] = 0
      /\ \A s \in SUBSET S : \A y \in s : f[s] = w[y] + f[s \ {y}]
      /\ \A s \in SUBSET T : \A y \in s : g[s] = v[y] + g[s \ {y}]
  <2>1. f[{}] = 0 /\ \A s \in SUBSET S : \A y \in s : f[s] = w[y] + f[s \ {y}]
    BY <1>1, AddsStep
  <2>2. g[{}] = 0
    BY AddsStep
  <2>3. ASSUME NEW s \in SUBSET T, NEW y \in s PROVE g[s] = v[y] + g[s \ {y}]
    BY AddsStep
  <2> QED BY <2>1, <2>2, <2>3
<1> DEFINE G == {s \in SUBSET S : f[s] = g[s]}
<1>3. {} \in G
  BY <1>2
<1>4. ASSUME NEW s \in SUBSET S, s # {}, \A y \in s : s \ {y} \in G PROVE s \in G
  <2>1. PICK y \in s : f[s \ {y}] = g[s \ {y}] /\ w[y] = v[y]
    BY <1>4
  <2>2. f[s] = w[y] + f[s \ {y}]
    BY <1>2
  <2>3. g[s] = v[y] + g[s \ {y}]
    BY <1>2
  <2> QED BY <2>1, <2>2, <2>3
<1>5. S \in G
  <2> HIDE DEF G
  <2> QED BY <1>1, <1>3, <1>4, SubsetInduction
<1> QED BY <1>5

Sum(w, S) == (CHOOSE f : Adds(f, w, S))[S]

(* A sum is a natural number, zero for the empty set, and any element may   *)
(* be counted first.                                                        *)
LEMMA SumSteps ==
  ASSUME NEW S, IsFiniteSet(S), NEW w, \A x \in S : w[x] \in Nat
  PROVE  /\ Sum(w, S) \in Nat /\ (S = {} => Sum(w, S) = 0)
         /\ \A y \in S : Sum(w, S) = w[y] + Sum(w, S \ {y})
<1> DEFINE f == CHOOSE h : Adds(h, w, S)
<1>1. Adds(f, w, S)
  BY AddsExists
<1>2. Sum(w, S) = f[S]
  BY DEF Sum
<1> HIDE DEF f
<1>3. /\ f[{}] = 0 /\ f[S] \in Nat /\ \A y \in S : f[S] = w[y] + f[S \ {y}]
  BY <1>1, AddsStep
<1>4. ASSUME NEW y \in S PROVE Sum(w, S \ {y}) = f[S \ {y}]
  <2> DEFINE R == S \ {y}
             g == CHOOSE h : Adds(h, w, R)
  <2>1. IsFiniteSet(R) /\ R \in SUBSET S
    BY FS_Subset
  <2>2. \A x \in R : w[x] \in Nat
    OBVIOUS
  <2> HIDE DEF R
  <2>3. Adds(g, w, R)
    BY <2>1, <2>2, AddsExists
  <2>4. Sum(w, R) = g[R]
    BY DEF Sum
  <2> HIDE DEF g
  <2>5. g[R] = f[R]
    BY <1>1, <2>1, <2>2, <2>3, AddsAgree
  <2> QED BY <2>4, <2>5 DEF R
<1> QED BY <1>2, <1>3, <1>4

(* Only the weights of the members count.                                   *)
LEMMA SumOfMembers ==
  ASSUME NEW S, IsFiniteSet(S), NEW w, NEW v, \A x \in S : w[x] \in Nat /\ w[x] = v[x],
         NEW f, Adds(f, v, S)
  PROVE  f[S] = Sum(w, S)
<1> DEFINE g == CHOOSE h : Adds(h, w, S)
<1>1. Adds(g, w, S)
  BY AddsExists
<1>2. Sum(w, S) = g[S]
  BY DEF Sum
<1> HIDE DEF g
<1>3. \A x \in S : v[x] \in Nat /\ v[x] = w[x]
  OBVIOUS
<1>4. g[S] = f[S]
  BY <1>1, <1>3, AddsAgree
<1> QED BY <1>2, <1>4

(* What MapThenSumSet sums.                                                 *)
LEMMA TotalIsSum ==
  ASSUME NEW S, IsFiniteSet(S), \A x \in S : x.amount \in Nat
  PROVE  Total(S) = Sum([x \in S |-> x.amount], S)
<1> DEFINE w == [x \in S |-> x.amount]
           G(f) == [s \in SUBSET S |-> IF s = {} THEN 0
                                       ELSE First(s).amount + f[s \ {First(s)}]]
           f0 == CHOOSE f : f = G(f)
<1>1. Total(S) = f0[S]
  BY DEF Total, MapThenSumSet, MapThenFoldSet, First
<1>2. \A x \in S : w[x] = x.amount /\ w[x] \in Nat
  OBVIOUS
<1> HIDE DEF w
<1>3. ASSUME NEW f PROVE Adds(f, w, S) <=> f = G(f)
  <2>1. \A s \in SUBSET S : s # {} => w[First(s)] = First(s).amount
    BY <1>2 DEF First
  <2>2. [s \in SUBSET S |-> IF s = {} THEN 0 ELSE w[First(s)] + f[s \ {First(s)}]] = G(f)
    BY <2>1
  <2> QED BY <2>2 DEF Adds
<1>4. \E f : f = G(f)
  BY <1>2, <1>3, AddsExists
<1>5. f0 = G(f0)
  <2> HIDE DEF G
  <2> QED BY <1>4
<1>6. Adds(f0, w, S)
  BY <1>3, <1>5
<1> HIDE DEF f0, G
<1>7. f0[S] = Sum(w, S)
  BY <1>2, <1>6, SumOfMembers
<1> QED BY <1>1, <1>7 DEF w


(* The half hours at the first rate are such a sum,                         *)
LEMMA Hours1IsSum ==
  ASSUME NEW att, IsFiniteSet(Normal(att)),
         \A i \in Normal(att) : Ot1(att[i]) \in Nat
  PROVE  Hours1(att) = Sum([i \in Normal(att) |-> Ot1(att[i])], Normal(att))
<1> DEFINE S == Normal(att)
           w == [i \in S |-> Ot1(att[i])]
           G(f) == [s \in SUBSET S |-> IF s = {} THEN 0
                      ELSE Ot1(att[First(s)]) + f[s \ {First(s)}]]
           f0 == CHOOSE f : f = G(f)
<1>1. Hours1(att) = f0[S]
  BY DEF Hours1, MapThenSumSet, MapThenFoldSet, First
<1>2. \A i \in S : w[i] = Ot1(att[i]) /\ w[i] \in Nat
  OBVIOUS
<1> HIDE DEF w, S
<1>3. ASSUME NEW f PROVE Adds(f, w, S) <=> f = G(f)
  <2>1. \A s \in SUBSET S : s # {} => w[First(s)] = Ot1(att[First(s)])
    BY <1>2 DEF First
  <2>2. [s \in SUBSET S |-> IF s = {} THEN 0 ELSE w[First(s)] + f[s \ {First(s)}]] = G(f)
    BY <2>1
  <2> QED BY <2>2 DEF Adds
<1>4. IsFiniteSet(S)
  BY DEF S
<1>5. \E f : f = G(f)
  BY <1>2, <1>3, <1>4, AddsExists
<1>6. f0 = G(f0)
  <2> HIDE DEF G
  <2> QED BY <1>5
<1>7. Adds(f0, w, S)
  BY <1>3, <1>6
<1> HIDE DEF f0, G
<1>8. f0[S] = Sum(w, S)
  BY <1>2, <1>4, <1>7, SumOfMembers
<1> QED BY <1>1, <1>8 DEF w, S

(* those at the second rate,                                                *)
LEMMA Hours2IsSum ==
  ASSUME NEW att, IsFiniteSet(Normal(att)),
         \A i \in Normal(att) : Ot2(att[i]) \in Nat
  PROVE  Hours2(att) = Sum([i \in Normal(att) |-> Ot2(att[i])], Normal(att))
<1> DEFINE S == Normal(att)
           w == [i \in S |-> Ot2(att[i])]
           G(f) == [s \in SUBSET S |-> IF s = {} THEN 0
                      ELSE Ot2(att[First(s)]) + f[s \ {First(s)}]]
           f0 == CHOOSE f : f = G(f)
<1>1. Hours2(att) = f0[S]
  BY DEF Hours2, MapThenSumSet, MapThenFoldSet, First
<1>2. \A i \in S : w[i] = Ot2(att[i]) /\ w[i] \in Nat
  OBVIOUS
<1> HIDE DEF w, S
<1>3. ASSUME NEW f PROVE Adds(f, w, S) <=> f = G(f)
  <2>1. \A s \in SUBSET S : s # {} => w[First(s)] = Ot2(att[First(s)])
    BY <1>2 DEF First
  <2>2. [s \in SUBSET S |-> IF s = {} THEN 0 ELSE w[First(s)] + f[s \ {First(s)}]] = G(f)
    BY <2>1
  <2> QED BY <2>2 DEF Adds
<1>4. IsFiniteSet(S)
  BY DEF S
<1>5. \E f : f = G(f)
  BY <1>2, <1>3, <1>4, AddsExists
<1>6. f0 = G(f0)
  <2> HIDE DEF G
  <2> QED BY <1>5
<1>7. Adds(f0, w, S)
  BY <1>3, <1>6
<1> HIDE DEF f0, G
<1>8. f0[S] = Sum(w, S)
  BY <1>2, <1>4, <1>7, SumOfMembers
<1> QED BY <1>1, <1>8 DEF w, S

(* and the page's overtime pay.                                             *)
LEMMA PageOvertimeIsSum ==
  ASSUME NEW att, NEW rate, IsFiniteSet(Normal(att)),
         \A i \in Normal(att) : OvertimePay(Ot1(att[i]), Ot2(att[i]), rate) \in Nat
  PROVE  PageOvertimePay(att, rate) = Sum([i \in Normal(att) |-> OvertimePay(Ot1(att[i]), Ot2(att[i]), rate)], Normal(att))
<1> DEFINE S == Normal(att)
           w == [i \in S |-> OvertimePay(Ot1(att[i]), Ot2(att[i]), rate)]
           G(f) == [s \in SUBSET S |-> IF s = {} THEN 0
                      ELSE OvertimePay(Ot1(att[First(s)]), Ot2(att[First(s)]), rate) + f[s \ {First(s)}]]
           f0 == CHOOSE f : f = G(f)
<1>1. PageOvertimePay(att, rate) = f0[S]
  BY DEF PageOvertimePay, MapThenSumSet, MapThenFoldSet, First
<1>2. \A i \in S : w[i] = OvertimePay(Ot1(att[i]), Ot2(att[i]), rate) /\ w[i] \in Nat
  OBVIOUS
<1> HIDE DEF w, S
<1>3. ASSUME NEW f PROVE Adds(f, w, S) <=> f = G(f)
  <2>1. \A s \in SUBSET S : s # {} => w[First(s)] = OvertimePay(Ot1(att[First(s)]), Ot2(att[First(s)]), rate)
    BY <1>2 DEF First
  <2>2. [s \in SUBSET S |-> IF s = {} THEN 0 ELSE w[First(s)] + f[s \ {First(s)}]] = G(f)
    BY <2>1
  <2> QED BY <2>2 DEF Adds
<1>4. IsFiniteSet(S)
  BY DEF S
<1>5. \E f : f = G(f)
  BY <1>2, <1>3, <1>4, AddsExists
<1>6. f0 = G(f0)
  <2> HIDE DEF G
  <2> QED BY <1>5
<1>7. Adds(f0, w, S)
  BY <1>3, <1>6
<1> HIDE DEF f0, G
<1>8. f0[S] = Sum(w, S)
  BY <1>2, <1>4, <1>7, SumOfMembers
<1> QED BY <1>1, <1>8 DEF w, S

-----------------------------------------------------------------------------
(* The amounts are amounts.                                                 *)

LEMMA NatProduct ==
  ASSUME NEW a \in Nat, NEW b \in Nat
  PROVE  a * b \in Nat
OBVIOUS

(* Every quotient the code rounds is a natural number.                      *)
LEMMA RoundedAmounts ==
  ASSUME NEW a \in Nat
  PROVE  /\ RoundDiv(a, 2) \in Nat /\ RoundDiv(a, 30) \in Nat /\ RoundDiv(a, 60) \in Nat
         /\ RoundDiv(a, 200) \in Nat /\ RoundDiv(a, 14400) \in Nat
         /\ RoundDiv(a, 28800) \in Nat /\ CeilDiv(a, 30) \in Nat
BY DEF RoundDiv, CeilDiv

LEMMA MaxWithZero ==
  ASSUME NEW a \in Int
  PROVE  Max({0, a}) \in Nat /\ (a >= 0 => Max({0, a}) = a) /\ (a < 0 => Max({0, a}) = 0)
<1>1. \E x \in {0, a} : \A y \in {0, a} : x >= y
  OBVIOUS
<1> DEFINE m == Max({0, a})
<1>2. m \in {0, a} /\ \A y \in {0, a} : m >= y
  BY <1>1 DEF Max
<1> HIDE DEF m
<1>3. m \in {0, a} /\ m >= 0 /\ m >= a
  BY <1>2
<1> QED BY <1>3 DEF m

LEMMA MinutesType ==
  ASSUME NEW r \in Row
  PROVE  WorkedMinutes(r) \in Nat /\ Missed(r) \in Nat
<1>1. r.in \in Int /\ r.out \in Int
  BY DEF Row
<1> DEFINE start == Max({r.in, WorkStart})
<1>2. start \in Int
  <2>1. WorkStart \in Int
    BY DEF WorkStart
  <2>2. \E x \in {r.in, WorkStart} : \A y \in {r.in, WorkStart} : x >= y
    BY <1>1, <2>1
  <2>3. start \in {r.in, WorkStart}
    BY <2>2 DEF Max
  <2> QED BY <1>1, <2>1, <2>3
<1>3. r.out - start \in Int
  BY <1>1, <1>2
<1>4. WorkedMinutes(r) \in Nat
  <2>1. Max({0, r.out - start}) \in Nat
    BY <1>3, MaxWithZero
  <2> QED BY <2>1 DEF WorkedMinutes
<1>5. Missed(r) \in Nat
  <2>1. 480 - WorkedMinutes(r) \in Int
    BY <1>4
  <2> QED BY <2>1, MaxWithZero DEF Missed
<1> QED BY <1>4, <1>5

LEMMA OvertimeTypes ==
  ASSUME NEW r \in Row
  PROVE  Ot1(r) \in Nat /\ Ot2(r) \in Nat
<1>1. r.in \in Int /\ r.out \in Int
  BY DEF Row
<1>2. Ot1(r) \in Nat
  <2> DEFINE H == {t \in {9, 35, 70, 95} : r.out - StandardEnd > t}
  <2>1. IsFiniteSet({9, 35, 70, 95})
    <3> DEFINE steps == {9, 35, 70, 95}
    <3>1. steps \in SUBSET Nat /\ \A s \in steps : s <= 95
      OBVIOUS
    <3> HIDE DEF steps
    <3>2. IsFiniteSet(steps)
      BY <3>1, FS_BoundedSetOfNaturals
    <3> QED BY <3>2 DEF steps
  <2>2. Cardinality(H) \in Nat
    BY <2>1, FS_Subset, FS_CardinalityType
  <2> QED BY <2>2 DEF Ot1
<1>3. Ot2(r) \in Nat
  BY <1>1 DEF Ot2, CeilDiv, StandardEnd
<1> QED BY <1>2, <1>3

LEMMA OvertimePayType ==
  ASSUME NEW h1 \in Nat, NEW h2 \in Nat, NEW rate \in Nat
  PROVE  OvertimePay(h1, h2, rate) \in Nat
<1> DEFINE a == h1 * rate * Ot1Multiplier
           b == h2 * rate * Ot2Multiplier
<1>1. a \in Nat /\ b \in Nat
  BY NatProduct DEF Ot1Multiplier, Ot2Multiplier
<1>2. OvertimePay(h1, h2, rate) = RoundDiv(a, 200) + RoundDiv(b, 200)
  BY DEF OvertimePay
<1> HIDE DEF a, b
<1>3. RoundDiv(a, 200) \in Nat /\ RoundDiv(b, 200) \in Nat
  BY <1>1, RoundedAmounts
<1> QED BY <1>2, <1>3

LEMMA LeaveAmountTypes ==
  ASSUME NEW r \in Row, NEW base \in Nat
  PROVE  LeaveAmount(r, base) \in Nat /\ PageLeaveAmount(r, base) \in Nat
<1>1. Missed(r) * base \in Nat
  BY MinutesType, NatProduct
<1>2. LeaveAmount(r, base) \in Nat
  BY <1>1, RoundedAmounts DEF LeaveAmount
<1>3. PageLeaveAmount(r, base) \in Nat
  BY RoundedAmounts DEF PageLeaveAmount
<1> QED BY <1>2, <1>3

-----------------------------------------------------------------------------
(* The tables, the items and the records.                                   *)

Tables == UNION {[D -> Row] : D \in SUBSET Int}
Types == HolidayTypes \cup {"none"}
Item == [row : Int, name : {"page", "server"} \X Types \X Days \X Nat, amount : Nat]
SalaryRecord ==
  [base : Nat, basis : Nat, welfare : Nat, cash : Nat, h1 : Nat, h2 : Nat, otPay : Nat,
   holidayDays : Nat, holidayPay : Nat, custom : Nat, leave : SUBSET Item,
   totalDeductions : Nat, gross : Int, net : Int, att : Tables, revision : Nat,
   corrected : BOOLEAN, by : {"desk", "run"}, ruled : BOOLEAN, touched : BOOLEAN,
   settledAtt : Tables, settledPay : Nat]

(* A table that holds a month.                                              *)
Table(att) == att \in Tables /\ IsFiniteSet(DOMAIN att)

LEMMA TableFacts ==
  ASSUME NEW att, Table(att)
  PROVE  /\ DOMAIN att \subseteq Int /\ att = [i \in DOMAIN att |-> att[i]]
         /\ \A i \in DOMAIN att : att[i] \in Row
         /\ \A S \in SUBSET DOMAIN att : IsFiniteSet(S) /\ Cardinality(S) \in Nat
<1>1. PICK D \in SUBSET Int : att \in [D -> Row]
  BY DEF Table, Tables
<1>2. ASSUME NEW S \in SUBSET DOMAIN att PROVE IsFiniteSet(S) /\ Cardinality(S) \in Nat
  BY FS_Subset, FS_CardinalityType DEF Table
<1> QED BY <1>1, <1>2

LEMMA TableIntro ==
  ASSUME NEW D \in SUBSET Int, IsFiniteSet(D), NEW att \in [D -> Row]
  PROVE  Table(att)
BY DEF Table, Tables

(* The overtime of a table.                                                 *)
LEMMA HoursTypes ==
  ASSUME NEW att, Table(att), NEW rate \in Nat
  PROVE  Hours1(att) \in Nat /\ Hours2(att) \in Nat /\ PageOvertimePay(att, rate) \in Nat
<1> DEFINE S == Normal(att)
<1>1. IsFiniteSet(S) /\ \A i \in S : att[i] \in Row
  BY TableFacts DEF Normal
<1>2. \A i \in S : Ot1(att[i]) \in Nat /\ Ot2(att[i]) \in Nat
  BY <1>1, OvertimeTypes
<1>3. \A i \in S : OvertimePay(Ot1(att[i]), Ot2(att[i]), rate) \in Nat
  BY <1>2, OvertimePayType
<1> DEFINE w1 == [i \in S |-> Ot1(att[i])]
           w2 == [i \in S |-> Ot2(att[i])]
           w3 == [i \in S |-> OvertimePay(Ot1(att[i]), Ot2(att[i]), rate)]
<1>4. Hours1(att) = Sum(w1, S)
  BY <1>1, <1>2, Hours1IsSum
<1>5. Hours2(att) = Sum(w2, S)
  BY <1>1, <1>2, Hours2IsSum
<1>6. PageOvertimePay(att, rate) = Sum(w3, S)
  BY <1>1, <1>3, PageOvertimeIsSum
<1>7. \A i \in S : w1[i] \in Nat /\ w2[i] \in Nat /\ w3[i] \in Nat
  BY <1>2, <1>3
<1> HIDE DEF w1, w2, w3, S
<1> QED BY <1>1, <1>4, <1>5, <1>6, <1>7, SumSteps

LEMMA TotalType ==
  ASSUME NEW S, IsFiniteSet(S), S \subseteq Item
  PROVE  Total(S) \in Nat
<1>1. \A x \in S : x.amount \in Nat
  BY DEF Item
<1> DEFINE w == [x \in S |-> x.amount]
<1>2. Total(S) = Sum(w, S) /\ \A x \in S : w[x] \in Nat
  BY <1>1, TotalIsSum
<1> HIDE DEF w
<1> QED BY <1>2, SumSteps

(* The leave items of a table, the server's and the page's.                 *)
LEMMA LeaveItemsType ==
  ASSUME NEW att, Table(att), NEW base \in Nat
  PROVE  /\ LeaveItems(att, base) \subseteq Item /\ IsFiniteSet(LeaveItems(att, base))
         /\ PageLeaveItems(att, base) \subseteq Item /\ IsFiniteSet(PageLeaveItems(att, base))
<1> DEFINE D == {j \in DOMAIN att : LeaveAmount(att[j], base) > 0}
           E == {j \in DOMAIN att : PageLeaveAmount(att[j], base) > 0}
           item(i) == [row |-> i, name |-> ItemName(att[i]),
                       amount |-> LeaveAmount(att[i], base)]
           page(i) == [row |-> i, name |-> <<"page", att[i].type, att[i].day, 0>>,
                       amount |-> PageLeaveAmount(att[i], base)]
<1>1. IsFiniteSet(D) /\ IsFiniteSet(E)
  BY TableFacts
<1>2. ASSUME NEW i \in DOMAIN att PROVE item(i) \in Item /\ page(i) \in Item
  <2>1. i \in Int /\ att[i] \in Row
    BY TableFacts
  <2>2. att[i].type \in Types /\ att[i].day \in Days
    BY <2>1 DEF Row, Types
  <2>3. Missed(att[i]) \in Nat
    BY <2>1, MinutesType
  <2>4. LeaveAmount(att[i], base) \in Nat /\ PageLeaveAmount(att[i], base) \in Nat
    BY <2>1, LeaveAmountTypes
  <2>5. ItemName(att[i]) \in {"page", "server"} \X Types \X Days \X Nat
    BY <2>2, <2>3 DEF ItemName
  <2>6. <<"page", att[i].type, att[i].day, 0>> \in {"page", "server"} \X Types \X Days \X Nat
    BY <2>2
  <2> QED BY <2>1, <2>4, <2>5, <2>6 DEF Item
<1>3. LeaveItems(att, base) = {item(i) : i \in D}
  BY DEF LeaveItems
<1>4. PageLeaveItems(att, base) = {page(i) : i \in E}
  BY DEF PageLeaveItems
<1>5. D \subseteq DOMAIN att /\ E \subseteq DOMAIN att
  OBVIOUS
<1> HIDE DEF D, E, item, page
<1>6. IsFiniteSet({item(i) : i \in D})
  <2>1. [i \in D |-> item(i)] \in Surjection(D, {item(i) : i \in D})
    BY DEF Surjection
  <2> QED BY <1>1, <2>1, FS_Surjection
<1>7. IsFiniteSet({page(i) : i \in E})
  <2>1. [i \in E |-> page(i)] \in Surjection(E, {page(i) : i \in E})
    BY DEF Surjection
  <2> QED BY <1>1, <2>1, FS_Surjection
<1> QED BY <1>2, <1>3, <1>4, <1>5, <1>6, <1>7

(* The worked holidays of a table and what they pay.                        *)
LEMMA WorkedTypes ==
  ASSUME NEW att, Table(att), NEW base \in Nat
  PROVE  WorkedDays(att) \in Nat /\ WorkedHolidayPay(att, base) \in Nat
         /\ Cardinality(HolidayWork(att)) \in Nat
<1>1. WorkedDays(att) \in Nat /\ Cardinality(HolidayWork(att)) \in Nat
  BY TableFacts DEF WorkedDays, HolidayWork
<1>2. RoundDiv(base, 30) \in Nat
  BY RoundedAmounts
<1> QED BY <1>1, <1>2, NatProduct DEF WorkedHolidayPay

(* No day of the table has a leave and another row.                         *)
OneClaimADay(att) ==
  \A i, j \in DOMAIN att : i # j /\ att[i].day = att[j].day => att[i].type = "none"

(* What holds of every record and file: its leave is that of its snapshot   *)
(* unless edited by hand, its holiday pay differs from the settled one by   *)
(* what the snapshots differ in, and it adds up.                            *)
SnapshotSound(r) ==
  /\ r \in SalaryRecord /\ Table(r.att) /\ Table(r.settledAtt) /\ IsFiniteSet(r.leave)
  /\ ~r.touched => r.leave = LeaveItems(r.att, r.basis)
  /\ r.by = "desk" => OneClaimADay(r.att)
  /\ r.holidayPay - r.settledPay
        = WorkedHolidayPay(r.att, r.basis) - WorkedHolidayPay(r.settledAtt, r.basis)
TotalsSound(r) ==
  /\ r.custom + Total(r.leave) = r.totalDeductions
  /\ ~r.ruled =>
        /\ r.gross = GrossSalary(r.base, r.otPay, r.holidayPay, r.welfare) + r.cash
        /\ r.net = r.gross - r.totalDeductions
RecordSound(r) == SnapshotSound(r) /\ TotalsSound(r)

(* What the page posts and what the run drafts.                             *)
DraftSound(d) ==
  /\ Table(d.att) /\ d.by \in {"desk", "run"}
  /\ d.base \in Nat /\ d.welfare \in Nat /\ d.cash \in Nat /\ d.h1 \in Nat /\ d.h2 \in Nat
  /\ d.holidayDays \in Nat /\ d.holidayPay \in Nat /\ d.custom \in Nat
  /\ \A x \in d.leave : x.name[1] = "page"
  /\ d.by = "desk" => OneClaimADay(d.att)

LEMMA CalculatedSound ==
  ASSUME rules \subseteq Rules, NEW d, DraftSound(d), NEW t \in Tariffs, NEW s \in Special(d)
  PROVE  RecordSound(Calculated(d, t, s)) /\ Calculated(d, t, s).corrected = FALSE
<1> DEFINE r == Calculated(d, t, s)
           leave == LeaveItems(d.att, d.base)
           pay == HolidayPay(d, d.att, d.base)
           plain == OvertimePay(d.h1, d.h2, t.rate)
           total == d.custom + Total(leave)
           gross == GrossSalary(d.base, plain, pay, d.welfare)
           rule == CHOOSE x \in s : TRUE
<1>1. leave \subseteq Item /\ IsFiniteSet(leave) /\ Total(leave) \in Nat
  BY LeaveItemsType, TotalType DEF DraftSound
<1>2. MergeDeductions(d.leave, leave) = leave
  BY DEF MergeDeductions, DraftSound
<1>3. pay \in Nat
  BY WorkedTypes DEF HolidayPay, DraftSound
<1>4. t.rate \in Nat
  BY AmountsAssumption
<1>5. plain \in Nat
  BY <1>4, OvertimePayType DEF DraftSound
<1>6. total \in Nat /\ gross \in Nat
  BY <1>1, <1>3, <1>5 DEF DraftSound, GrossSalary
<1>7. s = {} \/ rule \in Rules
  BY DEF Special
<1>8. s # {} => rule.otPay \in Nat /\ rule.gross \in Int /\ rule.net \in Int
  BY <1>7, AmountsAssumption
<1> DEFINE ot == IF s # {} THEN rule.otPay ELSE plain
           grossPaid == d.cash + (IF s # {} THEN rule.gross ELSE gross)
           netPaid == d.cash + (IF s # {} THEN rule.net ELSE gross - total)
<1>9. r = [base |-> d.base, basis |-> d.base, welfare |-> d.welfare,
           cash |-> d.cash, h1 |-> d.h1, h2 |-> d.h2, otPay |-> ot,
           holidayDays |-> d.holidayDays, holidayPay |-> pay,
           custom |-> d.custom, leave |-> leave, totalDeductions |-> total,
           gross |-> grossPaid, net |-> netPaid,
           att |-> d.att, revision |-> 0, corrected |-> FALSE,
           by |-> d.by, ruled |-> s # {}, touched |-> FALSE,
           settledAtt |-> d.att, settledPay |-> pay]
  BY <1>2 DEF Calculated
<1>10. ot \in Nat /\ grossPaid \in Int /\ netPaid \in Int
  BY <1>5, <1>6, <1>8 DEF DraftSound
<1>11. s = {} => /\ ot = plain /\ grossPaid = gross + d.cash
                 /\ netPaid = grossPaid - total
  BY <1>6 DEF DraftSound
<1>12. d.att \in Tables /\ WorkedHolidayPay(d.att, d.base) \in Nat
  BY WorkedTypes DEF DraftSound, Table
<1> HIDE DEF r, leave, pay, plain, total, ot, grossPaid, netPaid
<1>13. r \in SalaryRecord
  BY <1>1, <1>3, <1>6, <1>9, <1>10, <1>12 DEF SalaryRecord, DraftSound
<1>14. /\ r.custom + Total(r.leave) = r.totalDeductions
       /\ r.leave = LeaveItems(r.att, r.basis) /\ IsFiniteSet(r.leave)
       /\ Table(r.att) /\ Table(r.settledAtt) /\ r.corrected = FALSE
  BY <1>1, <1>9 DEF leave, total, DraftSound
<1>15. ~r.ruled => /\ r.gross = GrossSalary(r.base, r.otPay, r.holidayPay, r.welfare) + r.cash
                   /\ r.net = r.gross - r.totalDeductions
  BY <1>9, <1>11 DEF pay, plain
<1>16. r.by = "desk" => OneClaimADay(r.att)
  BY <1>9 DEF DraftSound
<1>17. r.holidayPay - r.settledPay
         = WorkedHolidayPay(r.att, r.basis) - WorkedHolidayPay(r.settledAtt, r.basis)
  BY <1>3, <1>9, <1>12
<1> QED BY <1>13, <1>14, <1>15, <1>16, <1>17 DEF RecordSound, SnapshotSound, TotalsSound, r

(* The draft of the run, and the page's result once the route accepts it.   *)
LEMMA CashType ==
  ASSUME NEW t \in Tariffs
  PROVE  /\ t.base \in Nat /\ t.rate \in Nat /\ t.welfare \in Nat /\ t.fee \in Nat
         /\ Cash(t) \in Nat
<1>1. t.base \in Nat /\ t.rate \in Nat /\ t.welfare \in Nat /\ t.fee \in Nat
  BY AmountsAssumption
<1>2. \A a \in Nat : RoundDiv(a, 30) \in Nat
  BY RoundedAmounts
<1>3. RoundDiv(t.base, 30) \in Nat
  BY <1>1, <1>2
<1> QED BY <1>1, <1>3, NatProduct, BooksAssumption DEF Cash

LEMMA RunDraftSound ==
  ASSUME Table(rows), tariff \in Tariffs
  PROVE  DraftSound(RunDraft)
<1> DEFINE d == RunDraft
           cash == Cash(tariff)
           h1 == Hours1(rows)
           h2 == Hours2(rows)
           days == WorkedDays(rows)
<1>1. d = [by |-> "run", att |-> rows, base |-> tariff.base, welfare |-> tariff.welfare,
           cash |-> cash, h1 |-> h1, h2 |-> h2, holidayDays |-> days, holidayPay |-> 0,
           custom |-> tariff.fee, leave |-> {}]
  BY DEF RunDraft
<1>2. /\ tariff.base \in Nat /\ tariff.welfare \in Nat /\ tariff.fee \in Nat /\ cash \in Nat
      /\ tariff.rate \in Nat
  BY CashType
<1>3. h1 \in Nat /\ h2 \in Nat /\ days \in Nat
  BY <1>2, HoursTypes, WorkedTypes
<1> HIDE DEF d, cash, h1, h2, days
<1>4. DraftSound(d)
  BY <1>1, <1>2, <1>3 DEF DraftSound
<1> QED BY <1>4 DEF d

LEMMA PageResultSound ==
  ASSUME NEW att, Table(att), NEW t \in Tariffs
  PROVE  /\ PageResult(att, t).att = att /\ PageResult(att, t).tariff = t
         /\ Acceptable(att) => DraftSound(PageResult(att, t))
<1> DEFINE d == PageResult(att, t)
           leave == PageLeaveItems(att, t.base)
           worked == Cardinality(HolidayWork(att))
           cash == Cash(t)
           h1 == Hours1(att)
           h2 == Hours2(att)
           pay == worked * CeilDiv(t.base, 30)
           gross == GrossSalary(t.base, PageOvertimePay(att, t.rate), pay, t.welfare) + cash
           net == gross - t.fee - Total(leave)
<1>1. d = [by |-> "desk", att |-> att, tariff |-> t, base |-> t.base, welfare |-> t.welfare,
           cash |-> cash, h1 |-> h1, h2 |-> h2, holidayDays |-> worked, holidayPay |-> pay,
           custom |-> t.fee, leave |-> leave, gross |-> gross, net |-> net]
  BY DEF PageResult
<1>2. /\ t.base \in Nat /\ t.welfare \in Nat /\ t.fee \in Nat /\ cash \in Nat
      /\ t.rate \in Nat
  BY CashType
<1>3. h1 \in Nat /\ h2 \in Nat /\ worked \in Nat
  BY <1>2, HoursTypes, WorkedTypes
<1>4. pay \in Nat
  <2>1. \A a \in Nat : CeilDiv(a, 30) \in Nat
    BY RoundedAmounts
  <2>2. CeilDiv(t.base, 30) \in Nat
    BY <1>2, <2>1
  <2> QED BY <1>3, <2>2, NatProduct
<1>5. \A x \in leave : x.name[1] = "page"
  BY DEF PageLeaveItems
<1>6. Acceptable(att) => OneClaimADay(att)
  BY DEF Acceptable, OneClaimADay, NormalShift
<1> HIDE DEF d, leave, worked, cash, h1, h2, pay, gross, net
<1>7. d.att = att /\ d.tariff = t
  BY <1>1
<1>8. Acceptable(att) => DraftSound(d)
  BY <1>1, <1>2, <1>3, <1>4, <1>5, <1>6 DEF DraftSound
<1> QED BY <1>7, <1>8 DEF d

(* A finite set of integers has a least element.                            *)
LEMMA LeastInteger ==
  ASSUME NEW S, IsFiniteSet(S), S \subseteq Int, S # {}
  PROVE  Min(S) \in S /\ \A y \in S : Min(S) <= y
<1> DEFINE G == {T \in SUBSET S : T # {} => \E x \in T : \A y \in T : x <= y}
<1>1. {} \in G
  OBVIOUS
<1>2. ASSUME NEW T \in SUBSET S, T # {}, \A y \in T : T \ {y} \in G PROVE T \in G
  <2>1. PICK z \in T : T \ {z} \in G
    BY <1>2
  <2>2. CASE T \ {z} = {}
    <3>1. \A y \in T : z <= y
      BY <2>2
    <3> QED BY <3>1
  <2>3. CASE T \ {z} # {}
    <3>1. PICK x \in T \ {z} : \A y \in T \ {z} : x <= y
      BY <2>1, <2>3
    <3>2. \A y \in T : y = z \/ y \in T \ {z}
      OBVIOUS
    <3>3. x \in Int /\ z \in Int /\ (x <= z \/ z <= x)
      OBVIOUS
    <3>4. CASE x <= z
      <4>1. \A y \in T : x <= y
        BY <3>1, <3>2, <3>4
      <4> QED BY <4>1
    <3>5. CASE z <= x
      <4>1. \A y \in T : z <= y
        BY <3>1, <3>2, <3>3, <3>5
      <4> QED BY <4>1
    <3> QED BY <3>3, <3>4, <3>5
  <2> QED BY <2>2, <2>3
<1>3. S \in G
  <2> HIDE DEF G
  <2> QED BY <1>1, <1>2, SubsetInduction
<1> QED BY <1>3 DEF Min

(* The snapshots a correction gives.                                        *)
LEMMA AddedTable ==
  ASSUME NEW att, Table(att), NEW d \in Days, NEW type \in CorrTypes
  PROVE  Table(Added(att, d, type))
<1> DEFINE i == Min({0} \cup DOMAIN att) - 1
           row == [day |-> d, in |-> NoTime, out |-> NoTime, type |-> type, flag |-> TRUE]
           D == DOMAIN att \cup {i}
<1>1. DOMAIN att \subseteq Int /\ IsFiniteSet(DOMAIN att)
  BY TableFacts
<1>2. i \in Int
  <2> DEFINE S == {0} \cup DOMAIN att
  <2>1. IsFiniteSet(S)
    BY <1>1, FS_AddElement
  <2>2. S \subseteq Int /\ S # {}
    BY <1>1
  <2>3. Min(S) \in Int
    <3> HIDE DEF S
    <3> QED BY <2>1, <2>2, LeastInteger
  <2> QED BY <2>3
<1>3. row \in Row
  BY BooksAssumption DEF Row, NoTime
<1>4. Added(att, d, type) = [j \in D |-> IF j = i THEN row ELSE att[j]]
  BY DEF Added
<1> HIDE DEF i, row
<1>5. D \in SUBSET Int /\ IsFiniteSet(D)
  BY <1>1, <1>2, FS_AddElement
<1>6. Added(att, d, type) \in [D -> Row]
  BY <1>3, <1>4, TableFacts
<1> QED BY <1>5, <1>6, TableIntro

LEMMA ReplacedTable ==
  ASSUME NEW att, Table(att), NEW i \in DOMAIN att, NEW type \in CorrTypes, NEW flag \in BOOLEAN
  PROVE  Table([att EXCEPT ![i].type = type, ![i].flag = flag])
<1>1. att[i] \in Row /\ att = [j \in DOMAIN att |-> att[j]]
      /\ \A j \in DOMAIN att : att[j] \in Row
  BY TableFacts
<1> DEFINE row == [[att[i] EXCEPT !.type = type] EXCEPT !.flag = flag]
<1>2. row \in Row
  BY <1>1, BooksAssumption DEF Row
<1>3. [att EXCEPT ![i].type = type, ![i].flag = flag]
        = [j \in DOMAIN att |-> IF j = i THEN row ELSE att[j]]
  BY <1>1
<1> HIDE DEF row
<1>4. [att EXCEPT ![i].type = type, ![i].flag = flag] \in [DOMAIN att -> Row]
  BY <1>1, <1>2, <1>3
<1>5. DOMAIN att \in SUBSET Int /\ IsFiniteSet(DOMAIN att)
  BY TableFacts
<1> QED BY <1>4, <1>5, TableIntro

(* A correction keeps a record sound: it moves every total by the           *)
(* difference of the two snapshots.                                         *)
LEMMA CorrectedSound ==
  ASSUME NEW r, RecordSound(r), NEW att, Table(att), PayCovers(r),
         Consistent(CorrectedTo(r, att)), OneClaimADay(att)
  PROVE  RecordSound([CorrectedTo(r, att) EXCEPT !.revision = @ + 1, !.corrected = TRUE])
<1> DEFINE new == LeaveItems(att, r.basis)
           pay == WorkedHolidayPay(att, r.basis)
           paid == WorkedHolidayPay(r.att, r.basis)
           less == Total(new) - Total(LeaveItems(r.att, r.basis))
           leave == IF SameAdjustments(r, att) THEN r.leave ELSE new
           c == CorrectedTo(r, att)
           a == [c EXCEPT !.revision = @ + 1, !.corrected = TRUE]
<1>1. r \in SalaryRecord /\ Table(r.att) /\ IsFiniteSet(r.leave) /\ r.basis \in Nat
  BY DEF RecordSound, SnapshotSound, SalaryRecord
<1>2. new \subseteq Item /\ IsFiniteSet(new) /\ Total(new) \in Nat
  BY <1>1, LeaveItemsType, TotalType
<1>3. Total(LeaveItems(r.att, r.basis)) \in Nat
  BY <1>1, LeaveItemsType, TotalType
<1>4. /\ pay \in Nat /\ paid \in Nat
      /\ WorkedDays(att) \in Nat /\ WorkedDays(r.att) \in Nat
  BY <1>1, WorkedTypes
<1>5. leave \subseteq Item /\ IsFiniteSet(leave) /\ Total(leave) \in Nat
  BY <1>1, <1>2, TotalType DEF SalaryRecord
<1>6. r.holidayPay >= paid /\ r.holidayDays >= WorkedDays(r.att)
  BY DEF PayCovers
<1>7. ~r.touched => leave = new
  BY DEF RecordSound, SnapshotSound, SameAdjustments
<1>8. c = [r EXCEPT !.att = att, !.leave = leave,
             !.holidayDays = @ + WorkedDays(att) - WorkedDays(r.att),
             !.holidayPay = @ + (pay - paid), !.totalDeductions = @ + less,
             !.gross = @ + (pay - paid), !.net = @ + (pay - paid) - less]
  BY DEF CorrectedTo
<1> HIDE DEF new, pay, paid, leave, c
<1>9. less \in Int
  BY <1>2, <1>3
<1> HIDE DEF less
<1> DEFINE days == r.holidayDays + WorkedDays(att) - WorkedDays(r.att)
           holidayPay == r.holidayPay + (pay - paid)
           total == r.totalDeductions + less
           gross == r.gross + (pay - paid)
           net == r.net + (pay - paid) - less
<1>10. /\ c.att = att /\ c.leave = leave /\ c.holidayDays = days /\ c.holidayPay = holidayPay
       /\ c.totalDeductions = total /\ c.gross = gross /\ c.net = net
       /\ c.base = r.base /\ c.basis = r.basis /\ c.welfare = r.welfare /\ c.cash = r.cash
       /\ c.h1 = r.h1 /\ c.h2 = r.h2 /\ c.otPay = r.otPay /\ c.custom = r.custom
       /\ c.revision = r.revision /\ c.by = r.by /\ c.ruled = r.ruled /\ c.touched = r.touched
       /\ c.settledAtt = r.settledAtt /\ c.settledPay = r.settledPay
  BY <1>1, <1>8 DEF SalaryRecord
<1>11. /\ r.holidayDays \in Nat /\ r.holidayPay \in Nat /\ r.totalDeductions \in Nat
       /\ r.gross \in Int /\ r.net \in Int /\ r.custom \in Nat /\ r.revision \in Nat
       /\ r.base \in Nat /\ r.otPay \in Nat /\ r.welfare \in Nat /\ r.cash \in Nat
       /\ r.settledPay \in Nat
  BY <1>1 DEF SalaryRecord
<1>12. c.custom + Total(c.leave) = c.totalDeductions
  BY DEF Consistent, c
<1>13. days \in Nat /\ holidayPay \in Nat /\ gross \in Int /\ net \in Int
  BY <1>4, <1>6, <1>9, <1>11
<1>14. total \in Nat
  BY <1>5, <1>10, <1>11, <1>12
<1> HIDE DEF days, holidayPay, total, gross, net
<1>15. c = [r EXCEPT !.att = att, !.leave = leave, !.holidayDays = days,
              !.holidayPay = holidayPay, !.totalDeductions = total,
              !.gross = gross, !.net = net]
  BY <1>1, <1>8 DEF SalaryRecord, days, holidayPay, total, gross, net
<1>16. att \in Tables
  BY DEF Table
<1>17. c \in SalaryRecord
  BY <1>1, <1>5, <1>13, <1>14, <1>15, <1>16 DEF SalaryRecord
<1>18. a \in SalaryRecord
  <2> DEFINE n == c.revision + 1
  <2>1. n \in Nat /\ a = [c EXCEPT !.revision = n, !.corrected = TRUE]
    BY <1>10, <1>11, <1>17 DEF SalaryRecord
  <2> HIDE DEF n, a
  <2> QED BY <1>17, <2>1 DEF SalaryRecord
<1>19. /\ a.att = att /\ a.leave = leave /\ a.holidayDays = days /\ a.holidayPay = holidayPay
       /\ a.totalDeductions = total /\ a.gross = gross /\ a.net = net
       /\ a.base = r.base /\ a.basis = r.basis /\ a.welfare = r.welfare /\ a.cash = r.cash
       /\ a.otPay = r.otPay /\ a.custom = r.custom /\ a.by = r.by /\ a.ruled = r.ruled
       /\ a.touched = r.touched /\ a.settledAtt = r.settledAtt
       /\ a.settledPay = r.settledPay
  BY <1>10, <1>17 DEF SalaryRecord
<1> HIDE DEF a
<1>20. a.custom + Total(a.leave) = a.totalDeductions
  BY <1>10, <1>12, <1>19
<1>21. ASSUME ~r.ruled
       PROVE  /\ gross = GrossSalary(r.base, r.otPay, holidayPay, r.welfare) + r.cash
              /\ net = gross - total
  <2>1. /\ r.gross = r.base + r.otPay + r.holidayPay + r.welfare + r.cash
        /\ r.net = r.gross - r.totalDeductions
    BY <1>21 DEF RecordSound, TotalsSound, GrossSalary
  <2> QED BY <1>4, <1>9, <1>11, <2>1 DEF GrossSalary, gross, net, holidayPay, total
<1>22. holidayPay - r.settledPay = pay - WorkedHolidayPay(r.settledAtt, r.basis)
  <2>1. r.holidayPay - r.settledPay = paid - WorkedHolidayPay(r.settledAtt, r.basis)
    BY DEF RecordSound, SnapshotSound, paid
  <2>2. WorkedHolidayPay(r.settledAtt, r.basis) \in Nat
    BY <1>1, WorkedTypes DEF RecordSound, SnapshotSound
  <2> QED BY <1>4, <1>11, <2>1, <2>2 DEF holidayPay
<1>23. TotalsSound(a)
  BY <1>19, <1>20, <1>21 DEF TotalsSound
<1>24. ~a.touched => a.leave = LeaveItems(a.att, a.basis)
  BY <1>7, <1>19 DEF new
<1>25. a.holidayPay - a.settledPay
         = WorkedHolidayPay(a.att, a.basis) - WorkedHolidayPay(a.settledAtt, a.basis)
  BY <1>19, <1>22 DEF pay
<1>26. Table(a.att) /\ Table(a.settledAtt) /\ IsFiniteSet(a.leave) /\ OneClaimADay(a.att)
  BY <1>5, <1>19 DEF RecordSound, SnapshotSound
<1>27. SnapshotSound(a)
  BY <1>18, <1>24, <1>25, <1>26 DEF SnapshotSound
<1> QED BY <1>23, <1>27 DEF RecordSound, a, c

(* An edit by hand leaves the snapshots and the holiday pay as they were,   *)
(* and computes the totals anew.                                            *)
LEMMA EditedSound ==
  ASSUME RecordSound(record), NEW r \in Edits
  PROVE  RecordSound([EditedTotals(r) EXCEPT !.revision = @ + 1, !.corrected = TRUE])
<1>1. record \in SalaryRecord /\ SnapshotSound(record)
  BY DEF RecordSound, SnapshotSound
<1>2. SnapshotSound(r)
  <2>1. CASE \E t \in Tariffs : r = [record EXCEPT !.base = t.base]
    <3>1. PICK b \in Nat : r = [record EXCEPT !.base = b]
      BY <2>1, CashType
    <3>2. r \in SalaryRecord
      BY <1>1, <3>1 DEF SalaryRecord
    <3>3. /\ r.att = record.att /\ r.settledAtt = record.settledAtt /\ r.leave = record.leave
          /\ r.touched = record.touched /\ r.basis = record.basis /\ r.by = record.by
          /\ r.holidayPay = record.holidayPay /\ r.settledPay = record.settledPay
      BY <1>1, <3>1 DEF SalaryRecord
    <3> QED BY <1>1, <3>2, <3>3 DEF SnapshotSound
  <2>2. CASE \E t \in Tariffs : r = [record EXCEPT !.welfare = t.welfare]
    <3>1. PICK b \in Nat : r = [record EXCEPT !.welfare = b]
      BY <2>2, CashType
    <3>2. r \in SalaryRecord
      BY <1>1, <3>1 DEF SalaryRecord
    <3>3. /\ r.att = record.att /\ r.settledAtt = record.settledAtt /\ r.leave = record.leave
          /\ r.touched = record.touched /\ r.basis = record.basis /\ r.by = record.by
          /\ r.holidayPay = record.holidayPay /\ r.settledPay = record.settledPay
      BY <1>1, <3>1 DEF SalaryRecord
    <3> QED BY <1>1, <3>2, <3>3 DEF SnapshotSound
  <2>3. CASE \E f \in Fees : r = [record EXCEPT !.custom = f]
    <3>1. PICK b \in Nat : r = [record EXCEPT !.custom = b]
      BY <2>3, AmountsAssumption
    <3>2. r \in SalaryRecord
      BY <1>1, <3>1 DEF SalaryRecord
    <3>3. /\ r.att = record.att /\ r.settledAtt = record.settledAtt /\ r.leave = record.leave
          /\ r.touched = record.touched /\ r.basis = record.basis /\ r.by = record.by
          /\ r.holidayPay = record.holidayPay /\ r.settledPay = record.settledPay
      BY <1>1, <3>1 DEF SalaryRecord
    <3> QED BY <1>1, <3>2, <3>3 DEF SnapshotSound
  <2>4. CASE \E x \in record.leave : r = [record EXCEPT !.leave = @ \ {x}, !.touched = TRUE]
    <3>1. PICK x \in record.leave :
            r = [record EXCEPT !.leave = record.leave \ {x}, !.touched = TRUE]
      BY <1>1, <2>4 DEF SalaryRecord
    <3> DEFINE rest == record.leave \ {x}
    <3>2. IsFiniteSet(rest) /\ rest \subseteq Item
      BY <1>1, FS_RemoveElement DEF SalaryRecord, SnapshotSound
    <3> HIDE DEF rest
    <3>3. r = [record EXCEPT !.leave = rest, !.touched = TRUE]
      BY <3>1 DEF rest
    <3>4. r \in SalaryRecord
      BY <1>1, <3>2, <3>3 DEF SalaryRecord
    <3>5. /\ r.att = record.att /\ r.settledAtt = record.settledAtt /\ r.leave = rest
          /\ r.touched = TRUE /\ r.basis = record.basis /\ r.by = record.by
          /\ r.holidayPay = record.holidayPay /\ r.settledPay = record.settledPay
      BY <1>1, <3>3 DEF SalaryRecord
    <3> QED BY <1>1, <3>2, <3>4, <3>5 DEF SnapshotSound
  <2> QED BY <2>1, <2>2, <2>3, <2>4 DEF Edits
<1>3. r \in SalaryRecord /\ IsFiniteSet(r.leave) /\ r.leave \subseteq Item
  BY <1>2 DEF SnapshotSound, SalaryRecord
<1> DEFINE total == r.custom + Total(r.leave)
           gross == GrossSalary(r.base, r.otPay, r.holidayPay, r.welfare) + r.cash
           net == gross - total
           e == [r EXCEPT !.totalDeductions = total, !.gross = gross, !.net = net,
                          !.ruled = FALSE]
           a == [e EXCEPT !.revision = @ + 1, !.corrected = TRUE]
<1>4. e = EditedTotals(r)
  BY DEF EditedTotals
<1>5. Total(r.leave) \in Nat
  BY <1>3, TotalType
<1>6. total \in Nat /\ gross \in Int /\ net \in Int
  BY <1>3, <1>5 DEF SalaryRecord, GrossSalary
<1> HIDE DEF total, gross, net
<1>7. e \in SalaryRecord
  BY <1>3, <1>6 DEF SalaryRecord
<1>8. a \in SalaryRecord
  <2> DEFINE n == r.revision + 1
  <2>1. n \in Nat /\ a = [e EXCEPT !.revision = n, !.corrected = TRUE]
    BY <1>3, <1>7 DEF SalaryRecord
  <2> HIDE DEF n, a, e
  <2> QED BY <1>7, <2>1 DEF SalaryRecord
<1>9. /\ a.att = r.att /\ a.settledAtt = r.settledAtt /\ a.leave = r.leave
      /\ a.touched = r.touched /\ a.basis = r.basis /\ a.by = r.by
      /\ a.holidayPay = r.holidayPay /\ a.settledPay = r.settledPay
      /\ a.base = r.base /\ a.otPay = r.otPay /\ a.welfare = r.welfare /\ a.cash = r.cash
      /\ a.custom = r.custom /\ a.totalDeductions = total /\ a.gross = gross /\ a.net = net
  BY <1>3, <1>7 DEF SalaryRecord
<1> HIDE DEF a, e
<1>10. SnapshotSound(a)
  BY <1>2, <1>8, <1>9 DEF SnapshotSound
<1>11. TotalsSound(a)
  BY <1>9 DEF TotalsSound, total, gross, net
<1> QED BY <1>4, <1>10, <1>11 DEF RecordSound, a

-----------------------------------------------------------------------------
(* Sums compared: what rounding day by day may cost.                        *)

LEMMA SumZero ==
  ASSUME NEW S, IsFiniteSet(S), NEW w, \A x \in S : w[x] = 0
  PROVE  Sum(w, S) = 0
<1> DEFINE G == {T \in SUBSET S : Sum(w, T) = 0}
<1>1. \A T \in SUBSET S : IsFiniteSet(T) /\ \A x \in T : w[x] \in Nat
  BY FS_Subset
<1>2. {} \in G
  BY <1>1, SumSteps
<1>3. ASSUME NEW T \in SUBSET S, T # {}, \A y \in T : T \ {y} \in G PROVE T \in G
  <2>1. PICK y \in T : Sum(w, T \ {y}) = 0 /\ w[y] = 0
    BY <1>3
  <2>2. Sum(w, T) = w[y] + Sum(w, T \ {y})
    BY <1>1, SumSteps
  <2> QED BY <2>1, <2>2
<1>4. S \in G
  <2> HIDE DEF G
  <2> QED BY <1>2, <1>3, SubsetInduction
<1> QED BY <1>4

LEMMA SumScale ==
  ASSUME NEW S, IsFiniteSet(S), NEW w, \A x \in S : w[x] \in Nat, NEW k \in Nat,
         NEW v, \A x \in S : v[x] = k * w[x]
  PROVE  Sum(v, S) = k * Sum(w, S)
<1> DEFINE G == {T \in SUBSET S : Sum(v, T) = k * Sum(w, T)}
<1>1. \A T \in SUBSET S : IsFiniteSet(T) /\ \A x \in T : w[x] \in Nat /\ v[x] \in Nat
  BY FS_Subset, NatProduct
<1>2. {} \in G
  <2>1. Sum(v, {}) = 0 /\ Sum(w, {}) = 0
    BY <1>1, SumSteps
  <2> QED BY <2>1
<1>3. ASSUME NEW T \in SUBSET S, T # {}, \A y \in T : T \ {y} \in G PROVE T \in G
  <2>1. PICK y \in T : Sum(v, T \ {y}) = k * Sum(w, T \ {y})
    BY <1>3
  <2>2. Sum(v, T) = v[y] + Sum(v, T \ {y})
    BY <1>1, SumSteps
  <2>3. Sum(w, T) = w[y] + Sum(w, T \ {y})
    BY <1>1, SumSteps
  <2>4. Sum(w, T \ {y}) \in Nat
    BY <1>1, SumSteps
  <2> DEFINE a == w[y]
             b == Sum(w, T \ {y})
  <2>5. v[y] = k * a /\ a \in Nat /\ b \in Nat
    BY <2>4
  <2>6. k * (a + b) = k * a + k * b
    <3> HIDE DEF a, b
    <3> QED BY <2>5
  <2> QED BY <2>1, <2>2, <2>3, <2>5, <2>6
<1>4. S \in G
  <2> HIDE DEF G
  <2> QED BY <1>2, <1>3, SubsetInduction
<1> QED BY <1>4

(* What holds of every weight holds of the sums.                            *)
LEMMA SumCompare ==
  ASSUME NEW S, IsFiniteSet(S), NEW p, NEW q, NEW a, NEW b, NEW e,
         \A x \in S : /\ p[x] \in Nat /\ q[x] \in Nat
                      /\ a[x] \in Nat /\ b[x] \in Nat /\ e[x] \in Nat
                      /\ p[x] + q[x] <= a[x] + b[x] + e[x]
  PROVE  Sum(p, S) + Sum(q, S) <= Sum(a, S) + Sum(b, S) + Sum(e, S)
<1> DEFINE G == {T \in SUBSET S : Sum(p, T) + Sum(q, T) <= Sum(a, T) + Sum(b, T) + Sum(e, T)}
<1>1. \A T \in SUBSET S : IsFiniteSet(T)
  BY FS_Subset
<1>2. {} \in G
  <2>1. /\ Sum(p, {}) = 0 /\ Sum(q, {}) = 0
        /\ Sum(a, {}) = 0 /\ Sum(b, {}) = 0 /\ Sum(e, {}) = 0
    BY <1>1, SumSteps
  <2> QED BY <2>1
<1>3. ASSUME NEW T \in SUBSET S, T # {}, \A y \in T : T \ {y} \in G PROVE T \in G
  <2>1. PICK y \in T : T \ {y} \in G
    BY <1>3
  <2> DEFINE R == T \ {y}
  <2>2. /\ Sum(p, R) + Sum(q, R) <= Sum(a, R) + Sum(b, R) + Sum(e, R)
        /\ p[y] + q[y] <= a[y] + b[y] + e[y]
        /\ p[y] \in Nat /\ q[y] \in Nat /\ a[y] \in Nat /\ b[y] \in Nat /\ e[y] \in Nat
    BY <2>1
  <2>3. IsFiniteSet(T) /\ IsFiniteSet(R)
    BY <1>1
  <2>4. Sum(p, T) = p[y] + Sum(p, R) /\ Sum(p, R) \in Nat
    BY <2>3, SumSteps
  <2>5. Sum(q, T) = q[y] + Sum(q, R) /\ Sum(q, R) \in Nat
    BY <2>3, SumSteps
  <2>6. Sum(a, T) = a[y] + Sum(a, R) /\ Sum(a, R) \in Nat
    BY <2>3, SumSteps
  <2>7. Sum(b, T) = b[y] + Sum(b, R) /\ Sum(b, R) \in Nat
    BY <2>3, SumSteps
  <2>8. Sum(e, T) = e[y] + Sum(e, R) /\ Sum(e, R) \in Nat
    BY <2>3, SumSteps
  <2> HIDE DEF R
  <2>9. Sum(p, T) + Sum(q, T) <= Sum(a, T) + Sum(b, T) + Sum(e, T)
    BY <2>2, <2>4, <2>5, <2>6, <2>7, <2>8
  <2> QED BY <2>9
<1>4. S \in G
  <2> HIDE DEF G
  <2> QED BY <1>2, <1>3, SubsetInduction
<1> QED BY <1>4

(* Counting members one by one.                                             *)
LEMMA SumCounts ==
  ASSUME NEW S, IsFiniteSet(S), NEW M \in SUBSET S,
         NEW e, \A x \in S : e[x] = IF x \in M THEN 1 ELSE 0
  PROVE  Sum(e, S) = Cardinality(M)
<1> DEFINE G == {T \in SUBSET S : Sum(e, T) = Cardinality(M \cap T)}
<1>1. \A T \in SUBSET S : IsFiniteSet(T) /\ IsFiniteSet(M \cap T) /\ \A x \in T : e[x] \in Nat
  BY FS_Subset
<1>2. {} \in G
  <2>1. Sum(e, {}) = 0
    BY <1>1, SumSteps
  <2>2. Cardinality(M \cap {}) = 0
    BY FS_EmptySet
  <2> QED BY <2>1, <2>2
<1>3. ASSUME NEW T \in SUBSET S, T # {}, \A y \in T : T \ {y} \in G PROVE T \in G
  <2>1. PICK y \in T : Sum(e, T \ {y}) = Cardinality(M \cap (T \ {y}))
    BY <1>3
  <2>2. Sum(e, T) = e[y] + Sum(e, T \ {y})
    BY <1>1, SumSteps
  <2>3. M \cap (T \ {y}) = (M \cap T) \ {y}
    OBVIOUS
  <2>4. Cardinality((M \cap T) \ {y})
          = IF y \in M \cap T THEN Cardinality(M \cap T) - 1 ELSE Cardinality(M \cap T)
    BY <1>1, FS_RemoveElement
  <2>5. Cardinality(M \cap T) \in Nat
    BY <1>1, FS_CardinalityType
  <2>6. Sum(e, T) = Cardinality(M \cap T)
    <3>1. CASE y \in M
      <4>1. e[y] = 1 /\ Cardinality((M \cap T) \ {y}) = Cardinality(M \cap T) - 1
        BY <2>4, <3>1
      <4> QED BY <2>1, <2>2, <2>3, <2>5, <4>1
    <3>2. CASE y \notin M
      <4>1. e[y] = 0 /\ Cardinality((M \cap T) \ {y}) = Cardinality(M \cap T)
        BY <2>4, <3>2
      <4> QED BY <2>1, <2>2, <2>3, <2>5, <4>1
    <3> QED BY <3>1, <3>2
  <2> QED BY <2>6
<1>4. S \in G
  <2> HIDE DEF G
  <2> QED BY <1>2, <1>3, SubsetInduction
<1>5. M \cap S = M
  OBVIOUS
<1> QED BY <1>4, <1>5

(* Items of different rows may be summed row by row, those of amount zero   *)
(* left out.                                                                *)
LEMMA SumByRow ==
  ASSUME NEW D, IsFiniteSet(D), NEW amt, \A i \in D : amt[i] \in Nat,
         NEW item, \A i, j \in D : item[i] = item[j] => i = j,
         NEW w, \A i \in D : amt[i] > 0 => w[item[i]] = amt[i]
  PROVE  Sum(w, {item[i] : i \in {j \in D : amt[j] > 0}}) = Sum(amt, D)
<1> DEFINE Items(T) == {item[i] : i \in {j \in T : amt[j] > 0}}
           G == {T \in SUBSET D : Sum(w, Items(T)) = Sum(amt, T)}
<1>1. \A T \in SUBSET D : IsFiniteSet(T) /\ \A x \in T : amt[x] \in Nat
  BY FS_Subset
<1>2. \A T \in SUBSET D : IsFiniteSet(Items(T)) /\ \A x \in Items(T) : w[x] \in Nat
  <2> TAKE T \in SUBSET D
  <2> DEFINE P == {j \in T : amt[j] > 0}
  <2>1. IsFiniteSet(P)
    BY <1>1, FS_Subset
  <2>2. [i \in P |-> item[i]] \in Surjection(P, Items(T))
    BY DEF Surjection
  <2>3. IsFiniteSet(Items(T))
    <3> HIDE DEF P, Items
    <3> QED BY <2>1, <2>2, FS_Surjection
  <2> QED BY <2>3
<1>3. {} \in G
  <2>1. Items({}) = {}
    OBVIOUS
  <2>2. Sum(amt, {}) = 0
    BY <1>1, SumSteps
  <2>3. Sum(w, {}) = 0
    BY FS_EmptySet, SumSteps
  <2> QED BY <2>1, <2>2, <2>3
<1>4. ASSUME NEW T \in SUBSET D, T # {}, \A y \in T : T \ {y} \in G PROVE T \in G
  <2>1. PICK y \in T : Sum(w, Items(T \ {y})) = Sum(amt, T \ {y})
    BY <1>4
  <2>2. Sum(amt, T) = amt[y] + Sum(amt, T \ {y}) /\ Sum(amt, T \ {y}) \in Nat
    BY <1>1, SumSteps
  <2>3. CASE amt[y] > 0
    <3>1. item[y] \in Items(T) /\ Items(T) \ {item[y]} = Items(T \ {y})
      BY <2>3
    <3>2. Sum(w, Items(T)) = w[item[y]] + Sum(w, Items(T) \ {item[y]})
      <4> HIDE DEF Items
      <4> QED BY <1>2, <3>1, SumSteps
    <3>3. Sum(w, Items(T)) = Sum(amt, T)
      <4> HIDE DEF Items
      <4> QED BY <2>1, <2>2, <2>3, <3>1, <3>2
    <3> QED BY <3>3
  <2>4. CASE ~ (amt[y] > 0)
    <3>1. Items(T) = Items(T \ {y})
      BY <2>4
    <3>2. amt[y] = 0
      BY <2>4
    <3>3. Sum(w, Items(T)) = Sum(amt, T)
      <4> HIDE DEF Items
      <4> QED BY <2>1, <2>2, <3>1, <3>2
    <3> QED BY <3>3
  <2> QED BY <2>3, <2>4
<1>5. D \in G
  <2> HIDE DEF G
  <2> QED BY <1>3, <1>4, SubsetInduction
<1> QED BY <1>5

(* Rounding to 200ths.                                                      *)
LEMMA RoundBounds ==
  /\ \A c \in Nat : /\ 200 * RoundDiv(2 * c, 200) <= 2 * c + 100
                    /\ 2 * c <= 200 * RoundDiv(2 * c, 200) + 98
  /\ \A b \in Nat : /\ 200 * RoundDiv(b, 200) <= b + 100
                    /\ b <= 200 * RoundDiv(b, 200) + 99
BY DEF RoundDiv

(* One day's overtime pay, or a month's, is its exact value in 200ths but   *)
(* for the two roundings.                                                   *)
LEMMA OvertimePayBounds ==
  ASSUME NEW h1 \in Nat, NEW h2 \in Nat, NEW rate \in Nat
  PROVE  /\ 200 * OvertimePay(h1, h2, rate) <= (134 * rate) * h1 + (167 * rate) * h2 + 200
         /\ (134 * rate) * h1 + (167 * rate) * h2 <= 200 * OvertimePay(h1, h2, rate) + 197
<1> DEFINE c == 67 * (rate * h1)
           b == 167 * (rate * h2)
<1>1. rate * h1 \in Nat /\ rate * h2 \in Nat
  BY NatProduct
<1>2. c \in Nat /\ b \in Nat
  BY <1>1
<1>3. h1 * rate * Ot1Multiplier = 2 * c /\ h2 * rate * Ot2Multiplier = b
  BY DEF Ot1Multiplier, Ot2Multiplier
<1>4. (134 * rate) * h1 = 2 * c /\ (167 * rate) * h2 = b
  OBVIOUS
<1>5. OvertimePay(h1, h2, rate) = RoundDiv(2 * c, 200) + RoundDiv(b, 200)
  BY <1>3 DEF OvertimePay
<1> HIDE DEF c, b
<1>6. RoundDiv(2 * c, 200) \in Nat /\ RoundDiv(b, 200) \in Nat
  <2>1. 2 * c \in Nat
    BY <1>2
  <2> QED BY <1>2, <2>1, RoundedAmounts
<1>7. /\ 200 * RoundDiv(2 * c, 200) <= 2 * c + 100
      /\ 2 * c <= 200 * RoundDiv(2 * c, 200) + 98
      /\ 200 * RoundDiv(b, 200) <= b + 100
      /\ b <= 200 * RoundDiv(b, 200) + 99
  BY <1>2, RoundBounds
<1> QED BY <1>2, <1>4, <1>5, <1>6, <1>7

(* Overtime rounded day by day differs from overtime rounded once by at     *)
(* most one unit for every day that has clock times.                        *)
LEMMA OvertimeRounding ==
  ASSUME NEW att, Table(att), NEW rate \in Nat
  PROVE  LET once == OvertimePay(Hours1(att), Hours2(att), rate)
             daily == PageOvertimePay(att, rate)
             n == Cardinality({i \in Normal(att) : Timed(att[i])})
         IN  daily - once <= n /\ once - daily <= n
<1> DEFINE S == Normal(att)
           N == {i \in S : Timed(att[i])}
           n == Cardinality(N)
           once == OvertimePay(Hours1(att), Hours2(att), rate)
           daily == PageOvertimePay(att, rate)
           k1 == 134 * rate
           k2 == 167 * rate
           u == [i \in S |-> Ot1(att[i])]
           v == [i \in S |-> Ot2(att[i])]
           w == [i \in S |-> OvertimePay(Ot1(att[i]), Ot2(att[i]), rate)]
           a == [i \in S |-> k1 * u[i]]
           b == [i \in S |-> k2 * v[i]]
           p == [i \in S |-> 200 * w[i]]
           z == [i \in S |-> 0]
           e == [i \in S |-> IF i \in N THEN 1 ELSE 0]
           e1 == [i \in S |-> 200 * e[i]]
           e2 == [i \in S |-> 197 * e[i]]
<1>1. IsFiniteSet(S) /\ \A i \in S : att[i] \in Row
  BY TableFacts DEF Normal
<1>2. \A i \in S : Ot1(att[i]) \in Nat /\ Ot2(att[i]) \in Nat
  BY <1>1, OvertimeTypes
<1>3. \A i \in S : OvertimePay(Ot1(att[i]), Ot2(att[i]), rate) \in Nat
  BY <1>2, OvertimePayType
<1>4. Hours1(att) = Sum(u, S)
  BY <1>1, <1>2, Hours1IsSum
<1>5. Hours2(att) = Sum(v, S)
  BY <1>1, <1>2, Hours2IsSum
<1>6. daily = Sum(w, S)
  BY <1>1, <1>3, PageOvertimeIsSum
<1>7. k1 \in Nat /\ k2 \in Nat
  OBVIOUS
<1>8. \A i \in S : /\ u[i] = Ot1(att[i]) /\ v[i] = Ot2(att[i])
                  /\ w[i] = OvertimePay(u[i], v[i], rate)
                  /\ u[i] \in Nat /\ v[i] \in Nat /\ w[i] \in Nat
                  /\ e[i] = (IF i \in N THEN 1 ELSE 0)
  BY <1>2, <1>3
<1>9. \A i \in S : p[i] = 200 * w[i] /\ e1[i] = 200 * e[i] /\ e2[i] = 197 * e[i] /\ z[i] = 0
  OBVIOUS
<1>10. \A i \in S : a[i] = k1 * u[i] /\ b[i] = k2 * v[i]
  OBVIOUS
<1>11. N \in SUBSET S
  OBVIOUS
<1>0. OvertimePay(0, 0, rate) = 0
  <2>1. 0 * rate * Ot1Multiplier = 0 /\ 0 * rate * Ot2Multiplier = 0
    BY DEF Ot1Multiplier, Ot2Multiplier
  <2>2. RoundDiv(0, 200) = 0
    BY DEF RoundDiv
  <2> QED BY <2>1, <2>2 DEF OvertimePay
<1>12. ASSUME NEW i \in S, i \notin N PROVE u[i] = 0 /\ v[i] = 0 /\ w[i] = 0
  <2>1. ~Timed(att[i])
    BY <1>12
  <2>2. Ot1(att[i]) = 0 /\ Ot2(att[i]) = 0
    BY <2>1 DEF Ot1, Ot2
  <2> QED BY <1>0, <1>8, <2>2
<1>13. once = OvertimePay(Sum(u, S), Sum(v, S), rate)
  BY <1>4, <1>5
<1>14. once \in Nat /\ daily \in Nat
  BY HoursTypes, OvertimePayType
<1> HIDE DEF S, N, once, daily, k1, k2, u, v, w, a, b, p, z, e, e1, e2
<1>15. \A i \in S : a[i] \in Nat /\ b[i] \in Nat
  <2> TAKE i \in S
  <2>1. u[i] \in Nat /\ v[i] \in Nat
    BY <1>8
  <2>2. k1 * u[i] \in Nat /\ k2 * v[i] \in Nat
    BY <1>7, <2>1, NatProduct
  <2> QED BY <1>10, <2>2
<1>16. \A i \in S : /\ p[i] \in Nat /\ z[i] \in Nat
                   /\ e[i] \in Nat /\ e1[i] \in Nat /\ e2[i] \in Nat
  BY <1>8, <1>9
<1>17. \A i \in S : /\ p[i] + z[i] <= a[i] + b[i] + e1[i]
                   /\ a[i] + b[i] <= p[i] + z[i] + e2[i]
  <2> TAKE i \in S
  <2>1. CASE i \in N
    <3>1. u[i] \in Nat /\ v[i] \in Nat /\ w[i] = OvertimePay(u[i], v[i], rate) /\ e[i] = 1
      BY <1>8, <2>1
    <3> DEFINE h1 == u[i]
               h2 == v[i]
               pay == OvertimePay(h1, h2, rate)
    <3>2. /\ 200 * w[i] <= k1 * u[i] + k2 * v[i] + 200
          /\ k1 * u[i] + k2 * v[i] <= 200 * w[i] + 197
      <4>1. h1 \in Nat /\ h2 \in Nat /\ w[i] = pay
        BY <3>1
      <4> HIDE DEF h1, h2
      <4>2. /\ 200 * pay <= (134 * rate) * h1 + (167 * rate) * h2 + 200
            /\ (134 * rate) * h1 + (167 * rate) * h2 <= 200 * pay + 197
        BY <4>1, OvertimePayBounds
      <4> HIDE DEF pay
      <4> QED BY <4>1, <4>2 DEF k1, k2, h1, h2
    <3>3. p[i] <= a[i] + b[i] + 200 /\ a[i] + b[i] <= p[i] + 197
      BY <1>9, <1>10, <3>2
    <3>4. z[i] = 0 /\ e1[i] = 200 /\ e2[i] = 197
      BY <1>9, <3>1
    <3> QED BY <1>15, <1>16, <3>3, <3>4
  <2>2. CASE i \notin N
    <3>1. w[i] = 0 /\ e[i] = 0
      BY <1>8, <1>12, <2>2
    <3>2. p[i] = 0 /\ z[i] = 0
      BY <1>9, <3>1
    <3>3. e1[i] = 0 /\ e2[i] = 0
      BY <1>9, <3>1
    <3>4. a[i] = 0 /\ b[i] = 0
      BY <1>7, <1>10, <1>12, <2>2
    <3> QED BY <3>2, <3>3, <3>4
  <2> QED BY <2>1, <2>2
<1> DEFINE A == Sum(a, S)
           B == Sum(b, S)
<1>18. Sum(p, S) + Sum(z, S) <= A + B + Sum(e1, S)
  BY <1>1, <1>15, <1>16, <1>17, SumCompare
<1>19. A + B <= Sum(p, S) + Sum(z, S) + Sum(e2, S)
  BY <1>1, <1>15, <1>16, <1>17, SumCompare
<1>20. Sum(p, S) = 200 * Sum(w, S) /\ Sum(z, S) = 0
  <2>1. Sum(p, S) = 200 * Sum(w, S)
    BY <1>1, <1>8, <1>9, SumScale
  <2>2. Sum(z, S) = 0
    BY <1>1, <1>9, SumZero
  <2> QED BY <2>1, <2>2
<1>21. Sum(e, S) = n
  BY <1>1, <1>8, <1>11, SumCounts
<1>22. Sum(e1, S) = 200 * n /\ Sum(e2, S) = 197 * n
  <2>1. Sum(e1, S) = 200 * Sum(e, S)
    BY <1>1, <1>9, <1>16, SumScale
  <2>2. Sum(e2, S) = 197 * Sum(e, S)
    BY <1>1, <1>9, <1>16, SumScale
  <2> QED BY <1>21, <2>1, <2>2
<1>23. A = k1 * Sum(u, S) /\ B = k2 * Sum(v, S)
  <2>1. A = k1 * Sum(u, S)
    BY <1>1, <1>7, <1>8, <1>10, SumScale
  <2>2. B = k2 * Sum(v, S)
    BY <1>1, <1>7, <1>8, <1>10, SumScale
  <2> QED BY <2>1, <2>2
<1>24. Sum(u, S) \in Nat /\ Sum(v, S) \in Nat
  <2>1. Sum(u, S) \in Nat
    BY <1>1, <1>8, SumSteps
  <2>2. Sum(v, S) \in Nat
    BY <1>1, <1>8, SumSteps
  <2> QED BY <2>1, <2>2
<1>25. 200 * once <= A + B + 200 /\ A + B <= 200 * once + 197
  <2> DEFINE h1 == Sum(u, S)
             h2 == Sum(v, S)
             pay == OvertimePay(h1, h2, rate)
  <2>1. h1 \in Nat /\ h2 \in Nat /\ once = pay /\ A = k1 * h1 /\ B = k2 * h2
    BY <1>13, <1>23, <1>24
  <2> HIDE DEF h1, h2
  <2>2. /\ 200 * pay <= (134 * rate) * h1 + (167 * rate) * h2 + 200
        /\ (134 * rate) * h1 + (167 * rate) * h2 <= 200 * pay + 197
    BY <2>1, OvertimePayBounds
  <2> HIDE DEF pay, A, B
  <2> QED BY <2>1, <2>2 DEF k1, k2
<1>26. A \in Nat /\ B \in Nat
  BY <1>7, <1>23, <1>24, NatProduct
<1>27. n \in Nat /\ (n = 0 => N = {})
  <2>1. IsFiniteSet(N)
    BY <1>1, <1>11, FS_Subset
  <2> QED BY <2>1, FS_CardinalityType, FS_EmptySet
<1> HIDE DEF A, B, n
<1>28. 200 * daily <= A + B + 200 * n /\ A + B <= 200 * daily + 197 * n
  <2>1. Sum(p, S) = 200 * daily /\ Sum(z, S) = 0
    BY <1>6, <1>20
  <2>2. 200 * daily + 0 <= A + B + 200 * n
    BY <1>18, <1>22, <2>1
  <2>3. A + B <= 200 * daily + 0 + 197 * n
    BY <1>19, <1>22, <2>1
  <2> QED BY <1>14, <1>26, <1>27, <2>2, <2>3
<1>29. CASE n > 0
  BY <1>14, <1>25, <1>26, <1>27, <1>28, <1>29 DEF n, once, daily, N, S
<1>30. CASE n = 0
  <2>1. \A i \in S : u[i] = 0 /\ v[i] = 0
    BY <1>12, <1>27, <1>30
  <2>2. Sum(u, S) = 0 /\ Sum(v, S) = 0
    <3>1. Sum(u, S) = 0
      BY <1>1, <2>1, SumZero
    <3>2. Sum(v, S) = 0
      BY <1>1, <2>1, SumZero
    <3> QED BY <3>1, <3>2
  <2>3. A = 0 /\ B = 0
    BY <1>7, <1>23, <2>2
  <2>4. once = 0
    BY <1>0, <1>13, <2>2
  <2>5. daily = 0
    BY <1>14, <1>28, <1>30, <2>3
  <2> QED BY <1>30, <2>4, <2>5 DEF n, once, daily, N, S
<1> QED BY <1>27, <1>29, <1>30

(* The server's leave items add up row by row,                              *)
LEMMA LeaveByRow ==
  ASSUME NEW att, Table(att), NEW base \in Nat
  PROVE  Total(LeaveItems(att, base))
           = Sum([i \in DOMAIN att |-> LeaveAmount(att[i], base)], DOMAIN att)
<1> DEFINE D == DOMAIN att
           amt == [i \in D |-> LeaveAmount(att[i], base)]
           item == [i \in D |-> [row |-> i, name |-> ItemName(att[i]), amount |-> LeaveAmount(att[i], base)]]
           items == LeaveItems(att, base)
           w == [x \in items |-> x.amount]
<1>1. IsFiniteSet(D) /\ \A i \in D : amt[i] \in Nat
  BY TableFacts, LeaveAmountTypes
<1>2. items = {item[i] : i \in {j \in D : amt[j] > 0}}
  BY DEF LeaveItems
<1>3. \A i \in D : item[i].row = i /\ item[i].amount = amt[i]
  OBVIOUS
<1>4. IsFiniteSet(items) /\ \A x \in items : x.amount \in Nat
  BY LeaveItemsType DEF Item
<1>5. Total(items) = Sum(w, items)
  BY <1>4, TotalIsSum
<1>6. \A x \in items : w[x] = x.amount
  OBVIOUS
<1> HIDE DEF D, amt, item, items, w
<1>7. \A i \in D : amt[i] > 0 => w[item[i]] = amt[i]
  BY <1>2, <1>3, <1>6
<1>8. \A i, j \in D : item[i] = item[j] => i = j
  BY <1>3
<1>9. Sum(w, items) = Sum(amt, D)
  BY <1>1, <1>2, <1>7, <1>8, SumByRow
<1> QED BY <1>5, <1>9 DEF items, amt, D

(* and so do the page's.                                                    *)
LEMMA PageLeaveByRow ==
  ASSUME NEW att, Table(att), NEW base \in Nat
  PROVE  Total(PageLeaveItems(att, base))
           = Sum([i \in DOMAIN att |-> PageLeaveAmount(att[i], base)], DOMAIN att)
<1> DEFINE D == DOMAIN att
           amt == [i \in D |-> PageLeaveAmount(att[i], base)]
           item == [i \in D |-> [row |-> i, name |-> <<"page", att[i].type, att[i].day, 0>>, amount |-> PageLeaveAmount(att[i], base)]]
           items == PageLeaveItems(att, base)
           w == [x \in items |-> x.amount]
<1>1. IsFiniteSet(D) /\ \A i \in D : amt[i] \in Nat
  BY TableFacts, LeaveAmountTypes
<1>2. items = {item[i] : i \in {j \in D : amt[j] > 0}}
  BY DEF PageLeaveItems
<1>3. \A i \in D : item[i].row = i /\ item[i].amount = amt[i]
  OBVIOUS
<1>4. IsFiniteSet(items) /\ \A x \in items : x.amount \in Nat
  BY LeaveItemsType DEF Item
<1>5. Total(items) = Sum(w, items)
  BY <1>4, TotalIsSum
<1>6. \A x \in items : w[x] = x.amount
  OBVIOUS
<1> HIDE DEF D, amt, item, items, w
<1>7. \A i \in D : amt[i] > 0 => w[item[i]] = amt[i]
  BY <1>2, <1>3, <1>6
<1>8. \A i, j \in D : item[i] = item[j] => i = j
  BY <1>3
<1>9. Sum(w, items) = Sum(amt, D)
  BY <1>1, <1>2, <1>7, <1>8, SumByRow
<1> QED BY <1>5, <1>9 DEF items, amt, D

(* When no leave covers part of a day, the page and the server disagree     *)
(* about a sick leave only, by at most one unit.                            *)
LEMMA LeaveRounding ==
  ASSUME NEW att, Table(att), NEW base \in Nat, ~PartDay(att)
  PROVE  LET page == Total(PageLeaveItems(att, base))
             server == Total(LeaveItems(att, base))
             n == Cardinality({i \in DOMAIN att : ~Timed(att[i])})
         IN  page - server <= n /\ server - page <= n
<1> DEFINE D == DOMAIN att
           M == {i \in D : ~Timed(att[i])}
           n == Cardinality(M)
           page == Total(PageLeaveItems(att, base))
           server == Total(LeaveItems(att, base))
           p == [i \in D |-> PageLeaveAmount(att[i], base)]
           s == [i \in D |-> LeaveAmount(att[i], base)]
           e == [i \in D |-> IF i \in M THEN 1 ELSE 0]
           z == [i \in D |-> 0]
<1>1. IsFiniteSet(D) /\ \A i \in D : att[i] \in Row
  BY TableFacts
<1>2. page = Sum(p, D) /\ server = Sum(s, D)
  BY LeaveByRow, PageLeaveByRow
<1>3. ASSUME NEW i \in D
      PROVE  /\ p[i] \in Nat /\ s[i] \in Nat /\ e[i] \in Nat /\ z[i] = 0
             /\ p[i] <= s[i] + e[i] /\ s[i] <= p[i] + e[i]
  <2> DEFINE r == att[i]
             daily == RoundDiv(base, 30)
  <2>1. r \in Row /\ p[i] = PageLeaveAmount(r, base) /\ s[i] = LeaveAmount(r, base)
        /\ e[i] = (IF Timed(r) THEN 0 ELSE 1) /\ z[i] = 0
    BY <1>1
  <2>2. p[i] \in Nat /\ s[i] \in Nat
    BY <2>1, LeaveAmountTypes
  <2>3. r.type \in {"sick_leave", "personal_leave"} => ~Timed(r)
    BY DEF PartDay
  <2>4. ~Timed(r) => FullDay(r)
    BY DEF FullDay, WorkedMinutes
  <2> HIDE DEF r, p, s, e, z, M, D
  <2>5. CASE r.type = "sick_leave"
    <3>1. ~Timed(r) /\ FullDay(r)
      BY <2>3, <2>4, <2>5
    <3>2. p[i] = RoundDiv(RoundDiv(base, 30), 2) /\ s[i] = RoundDiv(base, 60) /\ e[i] = 1
      BY <2>1, <2>5, <3>1 DEF PageLeaveAmount, LeaveAmount
    <3>3. /\ RoundDiv(RoundDiv(base, 30), 2) <= RoundDiv(base, 60) + 1
          /\ RoundDiv(base, 60) <= RoundDiv(RoundDiv(base, 30), 2) + 1
      BY DEF RoundDiv
    <3> QED BY <2>1, <2>2, <3>2, <3>3
  <2>6. CASE r.type # "sick_leave"
    <3>1. p[i] = s[i]
      <4>1. CASE r.type = "personal_leave"
        BY <2>1, <2>3, <2>4, <4>1 DEF PageLeaveAmount, LeaveAmount
      <4>2. CASE r.type \in {"typhoon_leave", "temporary_stop_work_and_classes"}
        BY <2>1, <4>2 DEF PageLeaveAmount, LeaveAmount
      <4>3. CASE r.type \notin {"sick_leave", "personal_leave", "typhoon_leave",
                               "temporary_stop_work_and_classes"}
        BY <2>1, <4>3 DEF PageLeaveAmount, LeaveAmount
      <4> QED BY <2>6, <4>1, <4>2, <4>3
    <3>2. e[i] \in Nat
      BY <2>1
    <3> QED BY <2>1, <2>2, <3>1, <3>2
  <2> QED BY <2>5, <2>6
<1>4. \A i \in D : e[i] = IF i \in M THEN 1 ELSE 0
  OBVIOUS
<1>5. M \in SUBSET D
  OBVIOUS
<1> HIDE DEF D, M, p, s, e, z, n, page, server
<1>6. Sum(p, D) + Sum(z, D) <= Sum(s, D) + Sum(z, D) + Sum(e, D)
  <2>1. \A i \in D : /\ p[i] \in Nat /\ z[i] \in Nat /\ s[i] \in Nat /\ e[i] \in Nat
                    /\ p[i] + z[i] <= s[i] + z[i] + e[i]
    BY <1>3
  <2> QED BY <1>1, <2>1, SumCompare
<1>7. Sum(s, D) + Sum(z, D) <= Sum(p, D) + Sum(z, D) + Sum(e, D)
  <2>1. \A i \in D : /\ p[i] \in Nat /\ z[i] \in Nat /\ s[i] \in Nat /\ e[i] \in Nat
                    /\ s[i] + z[i] <= p[i] + z[i] + e[i]
    BY <1>3
  <2> QED BY <1>1, <2>1, SumCompare
<1>8. Sum(z, D) = 0
  BY <1>1, <1>3, SumZero
<1>9. Sum(e, D) = n
  BY <1>1, <1>4, <1>5, SumCounts DEF n
<1>10. page \in Nat /\ server \in Nat
  BY LeaveItemsType, TotalType DEF page, server
<1>11. n \in Nat
  BY <1>1, <1>5, FS_Subset, FS_CardinalityType DEF n
<1>12. page - server <= n /\ server - page <= n
  BY <1>2, <1>6, <1>7, <1>8, <1>9, <1>10, <1>11
<1> QED BY <1>12 DEF page, server, n, M, D

-----------------------------------------------------------------------------
(* The inductive invariant.                                                 *)

(* A preview shows the page's calculation.                                  *)
PreviewSound(pv) ==
  /\ Table(pv.att) /\ pv.tariff \in Tariffs
  /\ pv = PageResult(pv.att, pv.tariff)

BooksInv ==
  /\ Table(rows) /\ tariff \in Tariffs
  /\ preview # NoPreview => PreviewSound(preview)
  /\ record # NoRecord => RecordSound(record)
  /\ file # NoFile => RecordSound(file)

(* While no reload overlapped another or failed, one request at a time is   *)
(* between clearing the rules and registering the new ones, and what it     *)
(* fetched is current unless a later change is about to clear them again.   *)
Reloading == {"fetch", "register"}
ChangePending == \E p \in Requests : reload[p].at = "clear"
ReloadsInTurn ==
  /\ \A p, q \in Requests : reload[p].at \in Reloading /\ reload[q].at \in Reloading => p = q
  /\ \A q \in Requests : reload[q].at \in Reloading => rules = {}
  /\ \A q \in Requests : reload[q].at = "register" =>
        reload[q].found = dbRules \/ ChangePending
  /\ (\A q \in Requests : reload[q].at \notin Reloading) => rules = dbRules \/ ChangePending
Reload == {Idle, [at |-> "clear"], [at |-> "fetch"]} \cup [at : {"register"}, found : SUBSET Rules]
RulesInv ==
  /\ dbRules \subseteq Rules /\ rules \subseteq Rules
  /\ reload \in [Requests -> Reload]
  /\ ~doubtful => ReloadsInTurn

LEMMA RulesInit == Init => RulesInv
BY DEF Init, RulesInv, Reload, Idle, ReloadsInTurn, Reloading

LEMMA RulesStep ==
  ASSUME RulesInv, [Next]_vars
  PROVE  RulesInv'
<1>1. CASE UNCHANGED ruleVars
  BY <1>1 DEF RulesInv, ruleVars, ReloadsInTurn, ChangePending
<1>2. ASSUME NEW q \in Requests, NEW S \in SUBSET Rules, ChangeRule(q, S)
      PROVE  RulesInv'
  <2>1. reload' \in [Requests -> Reload] /\ reload'[q].at = "clear"
        /\ \A p \in Requests \ {q} : reload'[p] = reload[p]
    BY <1>2 DEF ChangeRule, RulesInv, Reload
  <2>2. rules' = rules /\ doubtful' = doubtful /\ dbRules' = S /\ ChangePending'
    BY <1>2, <2>1 DEF ChangeRule, ChangePending
  <2>3. ReloadsInTurn => ReloadsInTurn'
    <3>1. \A p \in Requests : reload'[p].at \in Reloading =>
             reload[p].at \in Reloading
      BY <2>1 DEF Reloading
    <3> QED BY <2>2, <3>1 DEF ReloadsInTurn
  <2> QED BY <2>1, <2>2, <2>3 DEF RulesInv
<1>3. ASSUME NEW q \in Requests, ClearRules(q) PROVE RulesInv'
  <2>1. reload' \in [Requests -> Reload] /\ reload'[q].at = "fetch"
        /\ \A p \in Requests \ {q} : reload'[p] = reload[p]
    BY <1>3 DEF ClearRules, RulesInv, Reload
  <2>2. rules' = {} /\ dbRules' = dbRules
        /\ (~doubtful' => \A p \in Requests \ {q} : reload[p].at \notin Reloading)
    BY <1>3 DEF ClearRules, Reloading
  <2>3. ~doubtful' => ReloadsInTurn'
    BY <2>1, <2>2 DEF ReloadsInTurn, Reloading
  <2> QED BY <2>1, <2>2, <2>3 DEF RulesInv
<1>4. ASSUME NEW q \in Requests, FetchRules(q) PROVE RulesInv'
  <2>1. /\ reload' \in [Requests -> Reload]
        /\ reload'[q].at = "register" /\ reload'[q].found = dbRules
        /\ \A p \in Requests \ {q} : reload'[p] = reload[p]
        /\ reload[q].at = "fetch"
    BY <1>4 DEF FetchRules, RulesInv, Reload
  <2>2. rules' = rules /\ dbRules' = dbRules /\ doubtful' = doubtful
    BY <1>4 DEF FetchRules
  <2>3. ChangePending => ChangePending'
    BY <2>1 DEF ChangePending
  <2>4. ReloadsInTurn => ReloadsInTurn'
    <3>1. \A p \in Requests : reload'[p].at \in Reloading <=> reload[p].at \in Reloading
      BY <2>1 DEF Reloading
    <3>2. ASSUME ReloadsInTurn, NEW p \in Requests, reload'[p].at = "register"
          PROVE  reload'[p].found = dbRules' \/ ChangePending'
      BY <2>1, <2>2, <2>3, <3>2 DEF ReloadsInTurn
    <3> QED BY <2>1, <2>2, <3>1, <3>2 DEF ReloadsInTurn, Reloading
  <2> QED BY <2>1, <2>2, <2>4 DEF RulesInv
<1>5. ASSUME NEW q \in Requests, FetchRulesFails(q) PROVE RulesInv'
  BY <1>5 DEF FetchRulesFails, RulesInv, Reload
<1>6. ASSUME NEW q \in Requests, RegisterRules(q) PROVE RulesInv'
  <2>1. /\ reload' \in [Requests -> Reload] /\ reload'[q] = Idle
        /\ \A p \in Requests \ {q} : reload'[p] = reload[p]
        /\ reload[q].at = "register" /\ reload[q].found \subseteq Rules
    BY <1>6 DEF RegisterRules, RulesInv, Reload, Idle
  <2>2. /\ dbRules' = dbRules /\ doubtful' = doubtful
        /\ rules' = {r \in rules : ~ \E x \in reload[q].found : SameCase(r, x)}
                      \cup reload[q].found
    BY <1>6 DEF RegisterRules
  <2>3. ChangePending => ChangePending'
    BY <2>1 DEF ChangePending
  <2>4. ASSUME ReloadsInTurn PROVE ReloadsInTurn'
    <3>1. rules = {} /\ \A p \in Requests \ {q} : reload[p].at \notin Reloading
      BY <2>1, <2>4 DEF ReloadsInTurn, Reloading
    <3>2. rules' = reload[q].found
      BY <2>2, <3>1
    <3>3. rules' = dbRules' \/ ChangePending'
      BY <2>1, <2>2, <2>3, <2>4, <3>2 DEF ReloadsInTurn
    <3>4. \A p \in Requests : reload'[p].at \notin Reloading
      BY <2>1, <3>1 DEF Idle, Reloading
    <3> QED BY <3>3, <3>4 DEF ReloadsInTurn, Reloading
  <2>5. rules' \subseteq Rules
    BY <2>1, <2>2 DEF RulesInv
  <2> QED BY <2>1, <2>2, <2>4, <2>5 DEF RulesInv
<1>7. ASSUME NEW loaded \in BOOLEAN, Restart(loaded) PROVE RulesInv'
  <2>1. /\ reload' \in [Requests -> Reload] /\ \A p \in Requests : reload'[p].at = "idle"
        /\ rules' \subseteq Rules /\ dbRules' = dbRules
        /\ (~doubtful' => rules' = dbRules')
    BY <1>7 DEF Restart, RulesInv, Reload, Idle
  <2>2. ~doubtful' => ReloadsInTurn'
    BY <2>1 DEF ReloadsInTurn, Reloading
  <2> QED BY <2>1, <2>2 DEF RulesInv
<1>8. \/ UNCHANGED ruleVars
      \/ \E q \in Requests :
            \/ \E S \in SUBSET Rules : ChangeRule(q, S)
            \/ ClearRules(q) \/ FetchRules(q) \/ FetchRulesFails(q) \/ RegisterRules(q)
      \/ \E loaded \in BOOLEAN : Restart(loaded)
  BY DEF Next, vars, AddAttendance, DeleteAttendance, UpdateHolidayType, SaveSettings,
         CalculateSalary, ClosePreview, Finalize, RunSettles, RunResettles, AddHoliday,
         ReplaceHoliday, Correct, EditRecord, DeleteRecord, ExportRecord, ImportRecord
<1> QED BY <1>1, <1>2, <1>3, <1>4, <1>5, <1>6, <1>7, <1>8

LEMMA BooksInit == Init => BooksInv
<1> SUFFICES ASSUME Init PROVE BooksInv
  OBVIOUS
<1>1. rows = << >> /\ preview = NoPreview /\ record = NoRecord /\ file = NoFile
      /\ tariff = FirstTariff
  BY DEF Init
<1>2. Table(rows)
  <2>1. DOMAIN rows = {} /\ rows = [i \in {} |-> rows[i]]
    BY <1>1
  <2>2. rows \in [{} -> Row]
    BY <2>1
  <2>3. IsFiniteSet({})
    BY FS_EmptySet
  <2> QED BY <2>2, <2>3, TableIntro
<1> QED BY <1>1, <1>2, BooksAssumption DEF BooksInv

(* The rows stay a table.                                                   *)
LEMMA RowsStep ==
  ASSUME Table(rows), [Next]_vars
  PROVE  Table(rows')
<1>1. ASSUME NEW d \in Days, NEW s \in Shifts, AddAttendance(d, s) PROVE Table(rows')
  <2> DEFINE row == [day |-> d, in |-> s.in, out |-> s.out, type |-> s.type, flag |-> s.flag]
  <2>1. PICK i \in 1 .. MaxRows :
          rows' = [j \in DOMAIN rows \cup {i} |-> IF j = i THEN row ELSE rows[j]]
    BY <1>1 DEF AddAttendance
  <2>2. row \in Row
    BY BooksAssumption DEF Row
  <2> HIDE DEF row
  <2> DEFINE D == DOMAIN rows \cup {i}
  <2>3. D \in SUBSET Int /\ IsFiniteSet(D)
    BY TableFacts, FS_AddElement
  <2>4. rows' \in [D -> Row]
    BY <2>1, <2>2, TableFacts
  <2> QED BY <2>3, <2>4, TableIntro
<1>2. ASSUME NEW i \in DOMAIN rows, DeleteAttendance(i) PROVE Table(rows')
  <2> DEFINE D == DOMAIN rows \ {i}
  <2>1. rows' = [j \in D |-> rows[j]]
    BY <1>2 DEF DeleteAttendance, Restrict
  <2>2. D \in SUBSET Int /\ IsFiniteSet(D)
    BY TableFacts
  <2>3. rows' \in [D -> Row]
    BY <2>1, TableFacts
  <2> QED BY <2>2, <2>3, TableIntro
<1>3. ASSUME NEW i \in DOMAIN rows, NEW type \in CorrTypes, UpdateHolidayType(i, type)
      PROVE  Table(rows')
  <2>1. rows' = [rows EXCEPT ![i].type = type, ![i].flag = (type # "none")]
    BY <1>3 DEF UpdateHolidayType
  <2>2. (type # "none") \in BOOLEAN
    OBVIOUS
  <2> QED BY <2>1, <2>2, ReplacedTable
<1>4. CASE rows' = rows
  BY <1>4
<1>5. \/ rows' = rows
      \/ \E d \in Days, s \in Shifts : AddAttendance(d, s)
      \/ \E i \in DOMAIN rows :
            DeleteAttendance(i) \/ \E type \in CorrTypes : UpdateHolidayType(i, type)
  BY DEF Next, vars, deskVars, SaveSettings,
         CalculateSalary, ClosePreview, Finalize, RunSettles, RunResettles, AddHoliday,
         ReplaceHoliday, Correct, EditRecord, DeleteRecord, ExportRecord, ImportRecord,
         ChangeRule, ClearRules, FetchRules, FetchRulesFails, RegisterRules, Restart
<1> QED BY <1>1, <1>2, <1>3, <1>4, <1>5

LEMMA PreviewStep ==
  ASSUME Table(rows), tariff \in Tariffs, preview # NoPreview => PreviewSound(preview),
         [Next]_vars
  PROVE  preview' # NoPreview => PreviewSound(preview')
<1>1. CASE CalculateSalary
  <2>1. preview' = PageResult(rows, tariff)
    BY <1>1 DEF CalculateSalary
  <2>2. preview'.att = rows /\ preview'.tariff = tariff
    BY <2>1, PageResultSound
  <2> QED BY <2>1, <2>2 DEF PreviewSound
<1>2. CASE preview' = preview \/ preview' = NoPreview
  BY <1>2
<1>3. preview' = preview \/ preview' = NoPreview \/ CalculateSalary
  BY DEF Next, vars, deskVars, AddAttendance, DeleteAttendance, UpdateHolidayType, SaveSettings,
         ClosePreview, Finalize, RunSettles, RunResettles, AddHoliday,
         ReplaceHoliday, Correct, EditRecord, DeleteRecord, ExportRecord, ImportRecord,
         ChangeRule, ClearRules, FetchRules, FetchRulesFails, RegisterRules, Restart
<1> QED BY <1>1, <1>2, <1>3

(* The number of revisions is no part of what makes a record sound.         *)
LEMMA RevisedSound ==
  ASSUME NEW r, RecordSound(r), NEW n \in Nat
  PROVE  RecordSound([r EXCEPT !.revision = n])
<1> DEFINE a == [r EXCEPT !.revision = n]
<1>1. r \in SalaryRecord
  BY DEF RecordSound, SnapshotSound
<1>2. a \in SalaryRecord
  BY <1>1 DEF SalaryRecord
<1>3. /\ a.att = r.att /\ a.settledAtt = r.settledAtt /\ a.leave = r.leave
      /\ a.touched = r.touched /\ a.basis = r.basis /\ a.by = r.by /\ a.ruled = r.ruled
      /\ a.holidayPay = r.holidayPay /\ a.settledPay = r.settledPay
      /\ a.base = r.base /\ a.otPay = r.otPay /\ a.welfare = r.welfare /\ a.cash = r.cash
      /\ a.custom = r.custom /\ a.totalDeductions = r.totalDeductions
      /\ a.gross = r.gross /\ a.net = r.net
  BY <1>1 DEF SalaryRecord
<1> HIDE DEF a
<1>4. SnapshotSound(a) /\ TotalsSound(a)
  BY <1>2, <1>3 DEF RecordSound, SnapshotSound, TotalsSound
<1> QED BY <1>4 DEF RecordSound, a

(* A correction asks for one row a day before it adds or re-marks a day.    *)
LEMMA OneClaimAfterCorrection ==
  ASSUME NEW att, Table(att), Classified(att)
  PROVE  /\ \A d \in Days, type \in CorrTypes :
               (\A i \in DOMAIN att : att[i].day # d) => OneClaimADay(Added(att, d, type))
         /\ \A i \in DOMAIN att, type \in CorrTypes : OneClaimADay(Replaced(att, i, type))
<1>1. \A i, j \in DOMAIN att : att[i].day = att[j].day => i = j
  BY DEF Classified
<1>2. ASSUME NEW d \in Days, NEW type \in CorrTypes, \A i \in DOMAIN att : att[i].day # d
      PROVE  OneClaimADay(Added(att, d, type))
  <2> DEFINE n == Min({0} \cup DOMAIN att) - 1
             new == Added(att, d, type)
  <2>1. new = [j \in DOMAIN att \cup {n} |->
                IF j = n THEN [day |-> d, in |-> NoTime, out |-> NoTime, type |-> type,
                               flag |-> TRUE]
                ELSE att[j]]
    BY DEF Added
  <2> HIDE DEF n, new
  <2>2. DOMAIN new = DOMAIN att \cup {n} /\ new[n].day = d
        /\ \A j \in DOMAIN new \ {n} : j \in DOMAIN att /\ new[j].day = att[j].day
    BY <2>1
  <2>3. \A i, j \in DOMAIN new : new[i].day = new[j].day => i = j
    BY <1>1, <1>2, <2>2
  <2> QED BY <2>3 DEF OneClaimADay, new
<1>3. ASSUME NEW i \in DOMAIN att, NEW type \in CorrTypes
      PROVE  OneClaimADay(Replaced(att, i, type))
  <2> DEFINE new == Replaced(att, i, type)
  <2>1. DOMAIN new = DOMAIN att /\ \A j \in DOMAIN att : new[j].day = att[j].day
    <3>1. att[i] \in Row
      BY TableFacts
    <3> QED BY <3>1, TableFacts DEF Replaced, Row
  <2> HIDE DEF new
  <2>2. \A j, k \in DOMAIN new : new[j].day = new[k].day => j = k
    BY <1>1, <2>1
  <2> QED BY <2>2 DEF OneClaimADay, new
<1> QED BY <1>2, <1>3

LEMMA RecordStep ==
  ASSUME Table(rows), tariff \in Tariffs, rules \subseteq Rules,
         preview # NoPreview => PreviewSound(preview),
         record # NoRecord => RecordSound(record),
         file # NoFile => RecordSound(file),
         [Next]_vars
  PROVE  record' # NoRecord => RecordSound(record')
<1>1. CASE Finalize
  <2>1. PICK s \in Special(preview) : record' = Calculated(preview, tariff, s)
    BY <1>1 DEF Finalize
  <2>2. PreviewSound(preview) /\ Acceptable(preview.att)
    BY <1>1 DEF Finalize
  <2>3. DraftSound(preview)
    BY <2>2, PageResultSound DEF PreviewSound
  <2> QED BY <2>1, <2>3, CalculatedSound
<1>2. CASE RunSettles
  <2>1. PICK s \in Special(RunDraft) : record' = Calculated(RunDraft, tariff, s)
    BY <1>2 DEF RunSettles
  <2> QED BY <2>1, RunDraftSound, CalculatedSound
<1>3. CASE RunResettles
  <2>1. PICK s \in Special(RunDraft) :
          record' = [Calculated(RunDraft, tariff, s) EXCEPT !.revision = record.revision + 1]
    BY <1>3 DEF RunResettles
  <2>2. RecordSound(Calculated(RunDraft, tariff, s))
    BY RunDraftSound, CalculatedSound
  <2>3. record.revision + 1 \in Nat
    BY <1>3 DEF RunResettles, Settled, RecordSound, SnapshotSound, SalaryRecord
  <2> QED BY <2>1, <2>2, <2>3, RevisedSound
<1>4. ASSUME Settled, NEW att, Table(att), OneClaimADay(att), Correct(att)
      PROVE  RecordSound(record')
  <2>1. /\ RecordSound(record) /\ PayCovers(record)
        /\ Consistent(CorrectedTo(record, att))
        /\ record' = [CorrectedTo(record, att) EXCEPT !.revision = @ + 1, !.corrected = TRUE]
    BY <1>4 DEF Correct, Settled
  <2> QED BY <1>4, <2>1, CorrectedSound
<1>5. ASSUME NEW type \in CorrTypes, NEW d \in Days, AddHoliday(d, type)
      PROVE  RecordSound(record')
  <2>1. /\ Settled /\ RecordSound(record) /\ Classified(record.att)
        /\ \A i \in DOMAIN record.att : record.att[i].day # d
        /\ Correct(Added(record.att, d, type))
    BY <1>5 DEF AddHoliday, Correct, Settled
  <2>2. Table(record.att)
    BY <2>1 DEF RecordSound, SnapshotSound
  <2>3. Table(Added(record.att, d, type)) /\ OneClaimADay(Added(record.att, d, type))
    BY <2>1, <2>2, AddedTable, OneClaimAfterCorrection
  <2> QED BY <1>4, <2>1, <2>3
<1>6. ASSUME NEW type \in CorrTypes, Settled, NEW i \in DOMAIN record.att,
             ReplaceHoliday(i, type)
      PROVE  RecordSound(record')
  <2>1. /\ RecordSound(record) /\ Classified(record.att)
        /\ Correct(Replaced(record.att, i, type))
    BY <1>6 DEF ReplaceHoliday, Correct, Settled
  <2>2. Table(record.att)
    BY <2>1 DEF RecordSound, SnapshotSound
  <2>3. Table(Replaced(record.att, i, type))
    BY <2>2, ReplacedTable DEF Replaced
  <2>4. OneClaimADay(Replaced(record.att, i, type))
    BY <2>1, <2>2, OneClaimAfterCorrection
  <2> QED BY <1>4, <1>6, <2>1, <2>3, <2>4
<1>7. CASE EditRecord
  <2>1. Settled /\ \E r \in Edits :
          record' = [EditedTotals(r) EXCEPT !.revision = @ + 1, !.corrected = TRUE]
    BY <1>7 DEF EditRecord
  <2> QED BY <2>1, EditedSound DEF Settled
<1>8. CASE ImportRecord
  BY <1>8 DEF ImportRecord
<1>9. CASE record' = record \/ record' = NoRecord
  BY <1>9
<1>10. \/ record' = record \/ record' = NoRecord
       \/ Finalize \/ RunSettles \/ RunResettles \/ EditRecord \/ ImportRecord
       \/ \E type \in CorrTypes :
             \/ \E d \in Days : AddHoliday(d, type)
             \/ Settled /\ \E i \in DOMAIN record.att : ReplaceHoliday(i, type)
  BY DEF Next, vars, bookVars, AddAttendance, DeleteAttendance, UpdateHolidayType,
         SaveSettings, CalculateSalary, ClosePreview, DeleteRecord, ExportRecord,
         ChangeRule, ClearRules, FetchRules, FetchRulesFails, RegisterRules, Restart
<1> QED BY <1>1, <1>2, <1>3, <1>5, <1>6, <1>7, <1>8, <1>9, <1>10

LEMMA FileStep ==
  ASSUME record # NoRecord => RecordSound(record), file # NoFile => RecordSound(file),
         [Next]_vars
  PROVE  file' # NoFile => RecordSound(file')
<1>1. file' = file \/ (file' = record /\ Settled)
  BY DEF Next, vars, bookVars, AddAttendance, DeleteAttendance, UpdateHolidayType,
         SaveSettings, CalculateSalary, ClosePreview, Finalize, RunSettles, RunResettles,
         AddHoliday, ReplaceHoliday, Correct, EditRecord, DeleteRecord, ExportRecord,
         ImportRecord, ChangeRule, ClearRules, FetchRules, FetchRulesFails, RegisterRules,
         Restart
<1> QED BY <1>1 DEF Settled

LEMMA TariffStep ==
  ASSUME tariff \in Tariffs, [Next]_vars
  PROVE  tariff' \in Tariffs
BY DEF Next, vars, AddAttendance, DeleteAttendance, UpdateHolidayType,
       SaveSettings, CalculateSalary, ClosePreview, Finalize, RunSettles, RunResettles,
       AddHoliday, ReplaceHoliday, Correct, EditRecord, DeleteRecord, ExportRecord,
       ImportRecord, ChangeRule, ClearRules, FetchRules, FetchRulesFails, RegisterRules, Restart

-----------------------------------------------------------------------------
(* The theorems.                                                            *)

(* In every reachable state the tables, records and files are sound and the *)
(* reloads of the special rules take turns unless one of them is in doubt.  *)
THEOREM BooksInvariant == Spec => [](BooksInv /\ RulesInv)
<1>1. Init => BooksInv /\ RulesInv
  BY BooksInit, RulesInit
<1>2. BooksInv /\ RulesInv /\ [Next]_vars => (BooksInv /\ RulesInv)'
  <2> SUFFICES ASSUME BooksInv, RulesInv, [Next]_vars
               PROVE  BooksInv' /\ RulesInv'
    OBVIOUS
  <2>1. RulesInv'
    BY RulesStep
  <2>2. Table(rows') /\ tariff' \in Tariffs
    BY RowsStep, TariffStep DEF BooksInv
  <2>3. preview' # NoPreview => PreviewSound(preview')
    BY PreviewStep DEF BooksInv
  <2>4. record' # NoRecord => RecordSound(record')
    BY RecordStep DEF BooksInv, RulesInv
  <2>5. file' # NoFile => RecordSound(file')
    BY FileStep DEF BooksInv
  <2>6. BooksInv'
    BY <2>2, <2>3, <2>4, <2>5 DEF BooksInv, NoPreview, NoRecord, NoFile
  <2> QED BY <2>1, <2>6
<1> QED BY <1>1, <1>2, PTL DEF Spec

(* Every stored record passes the financial snapshot check and adds up,     *)
(* however it was settled, corrected, edited or imported, and the rules in  *)
(* memory are those of the database once the reloads are over.              *)
THEOREM BooksAreSound == Spec => []BooksSound
<1>1. BooksInv /\ RulesInv => BooksSound
  <2> SUFFICES ASSUME BooksInv, RulesInv PROVE BooksSound
    OBVIOUS
  <2>1. TypeOK
    <3>1. \A i \in DOMAIN rows : rows[i] \in Row
      BY TableFacts DEF BooksInv
    <3>2. Settled => RecordSound(record)
      BY DEF BooksInv, Settled
    <3>3. Settled => record \in SalaryRecord /\ \A i \in DOMAIN record.att : record.att[i] \in Row
      BY <3>2, TableFacts DEF RecordSound, SnapshotSound
    <3> QED BY <3>1, <3>3 DEF TypeOK, BooksInv, RulesInv, SalaryRecord
  <2>2. RulesInEffect
    BY DEF RulesInv, RulesInEffect, ReloadsInTurn, ChangePending, Idle, Reloading
  <2>3. BooksBalance
    BY DEF BooksInv, BooksBalance, Settled, RecordSound, TotalsSound
  <2> QED BY <2>1, <2>2, <2>3 DEF BooksSound
<1> QED BY <1>1, BooksInvariant, PTL

(* A leave is deducted once and at the rate of the settlement.              *)
THEOREM LeaveIsAccounted == Spec => []LeaveAccounted
<1>1. BooksInv => LeaveAccounted
  <2> SUFFICES ASSUME BooksInv, Settled, ~record.touched PROVE
        /\ record.leave = LeaveItems(record.att, record.basis)
        /\ record.by = "desk" => \A x, y \in record.leave : x.name[3] = y.name[3] => x = y
    BY DEF LeaveAccounted
  <2>1. RecordSound(record)
    BY DEF BooksInv, Settled
  <2>2. record.leave = LeaveItems(record.att, record.basis)
    BY <2>1 DEF RecordSound, SnapshotSound
  <2>3. ASSUME record.by = "desk", NEW x \in record.leave, NEW y \in record.leave,
               x.name[3] = y.name[3]
        PROVE  x = y
    <3> DEFINE att == record.att
               b == record.basis
               item(i) == [row |-> i, name |-> ItemName(att[i]), amount |-> LeaveAmount(att[i], b)]
    <3>1. OneClaimADay(att)
      BY <2>1, <2>3 DEF RecordSound, SnapshotSound
    <3>2. PICK i \in DOMAIN att : LeaveAmount(att[i], b) > 0 /\ x = item(i)
      BY <2>2 DEF LeaveItems
    <3>3. PICK j \in DOMAIN att : LeaveAmount(att[j], b) > 0 /\ y = item(j)
      BY <2>2 DEF LeaveItems
    <3>4. att[i].day = att[j].day
      BY <2>3, <3>2, <3>3 DEF ItemName
    <3>5. att[i].type # "none"
      BY <3>2 DEF LeaveAmount
    <3>6. i = j
      BY <3>1, <3>4, <3>5 DEF OneClaimADay
    <3> QED BY <3>2, <3>3, <3>6
  <2> QED BY <2>2, <2>3
<1> QED BY <1>1, BooksInvariant, PTL

(* However often days are re-marked and the base is edited, the holiday pay *)
(* depends on the settled and the present snapshot only.                    *)
THEOREM CorrectionsAreDifferences == Spec => []PathIndependent
<1>1. BooksInv => PathIndependent
  BY DEF BooksInv, PathIndependent, Settled, RecordSound, SnapshotSound
<1> QED BY <1>1, BooksInvariant, PTL

(* What the administrator confirmed is what is stored, but for rounding: at *)
(* most one unit for each row of the month.                                 *)
THEOREM StoredAsPreviewed == Spec => SettledAsPreviewed
<1>1. BooksInv /\ RulesInv /\ [Next]_vars =>
        [Finalize /\ preview.tariff = tariff /\ ~record'.ruled /\ ~PartDay(preview.att)
           => LET d == record'.net - preview.net
              IN  Max({d, -d}) <= Cardinality(DOMAIN preview.att)]_vars
  <2> SUFFICES ASSUME BooksInv, RulesInv, Finalize, preview.tariff = tariff, ~record'.ruled,
                      ~PartDay(preview.att)
               PROVE  LET d == record'.net - preview.net
                      IN  Max({d, -d}) <= Cardinality(DOMAIN preview.att)
    OBVIOUS
  <2> DEFINE t == tariff
             att == preview.att
             S == {i \in Normal(att) : Timed(att[i])}
             M == {i \in DOMAIN att : ~Timed(att[i])}
             once == OvertimePay(Hours1(att), Hours2(att), t.rate)
             daily == PageOvertimePay(att, t.rate)
             page == Total(PageLeaveItems(att, t.base))
             server == Total(LeaveItems(att, t.base))
             pay == Cardinality(HolidayWork(att)) * CeilDiv(t.base, 30)
             d == record'.net - preview.net
  <2>1. Table(att) /\ preview = PageResult(att, t) /\ t \in Tariffs
    BY DEF Finalize, BooksInv, PreviewSound
  <2>2. PICK s \in Special(preview) : record' = Calculated(preview, t, s)
    BY DEF Finalize
  <2>3. s = {}
    BY <2>2 DEF Calculated
  <2>4. /\ t.base \in Nat /\ t.rate \in Nat /\ t.welfare \in Nat /\ t.fee \in Nat
        /\ Cash(t) \in Nat
    BY <2>1, CashType
  <2>5. /\ preview.by = "desk" /\ preview.base = t.base /\ preview.welfare = t.welfare
        /\ preview.cash = Cash(t) /\ preview.h1 = Hours1(att) /\ preview.h2 = Hours2(att)
        /\ preview.holidayPay = pay /\ preview.custom = t.fee
        /\ preview.leave = PageLeaveItems(att, t.base)
        /\ preview.net = (t.base + daily + pay + t.welfare + Cash(t)) - t.fee - page
    BY <2>1 DEF PageResult, GrossSalary
  <2>6. MergeDeductions(preview.leave, LeaveItems(att, t.base)) = LeaveItems(att, t.base)
    <3>1. \A x \in preview.leave : x.name[1] = "page"
      BY <2>5 DEF PageLeaveItems
    <3> QED BY <3>1 DEF MergeDeductions
  <2>7. record'.net = Cash(t) + ((t.base + once + pay + t.welfare) - (t.fee + server))
    BY <2>2, <2>3, <2>5, <2>6 DEF Calculated, HolidayPay, GrossSalary
  <2>8. once \in Nat /\ daily \in Nat /\ page \in Nat /\ server \in Nat /\ pay \in Nat
    <3>1. once \in Nat /\ daily \in Nat
      BY <2>1, <2>4, HoursTypes, OvertimePayType
    <3>2. page \in Nat /\ server \in Nat
      BY <2>1, <2>4, LeaveItemsType, TotalType
    <3>3. pay \in Nat
      <4>1. \A a \in Nat : CeilDiv(a, 30) \in Nat
        BY RoundedAmounts
      <4>2. Cardinality(HolidayWork(att)) \in Nat /\ CeilDiv(t.base, 30) \in Nat
        BY <2>1, <2>4, <4>1, WorkedTypes
      <4> QED BY <4>2, NatProduct
    <3> QED BY <3>1, <3>2, <3>3
  <2>9. daily - once <= Cardinality(S) /\ once - daily <= Cardinality(S)
    BY <2>1, <2>4, OvertimeRounding
  <2>10. page - server <= Cardinality(M) /\ server - page <= Cardinality(M)
    BY <2>1, <2>4, LeaveRounding
  <2>11. Cardinality(S) + Cardinality(M) <= Cardinality(DOMAIN att)
         /\ Cardinality(S) \in Nat /\ Cardinality(M) \in Nat
         /\ Cardinality(DOMAIN att) \in Nat
    <3>1. S \in SUBSET DOMAIN att /\ M \in SUBSET DOMAIN att /\ S \cap M = {}
          /\ S \cup M \in SUBSET DOMAIN att
      BY DEF Normal
    <3> HIDE DEF S, M
    <3>2. IsFiniteSet(DOMAIN att) /\ IsFiniteSet(S) /\ IsFiniteSet(M)
      BY <2>1, <3>1, TableFacts
    <3>3. Cardinality(S \cup M) = Cardinality(S) + Cardinality(M)
      BY <3>1, <3>2, FS_Union, FS_EmptySet, FS_CardinalityType
    <3>4. Cardinality(S \cup M) <= Cardinality(DOMAIN att)
      BY <3>1, <3>2, FS_Subset
    <3> QED BY <3>2, <3>3, <3>4, FS_CardinalityType
  <2>12. d = (once - daily) + (page - server)
    <3> DEFINE cash == Cash(t)
    <3>1. cash \in Nat
      BY <2>4
    <3> HIDE DEF cash, once, daily, page, server, pay, t
    <3>2. record'.net = cash + ((t.base + once + pay + t.welfare) - (t.fee + server))
      BY <2>7 DEF cash
    <3>3. preview.net = (t.base + daily + pay + t.welfare + cash) - t.fee - page
      BY <2>5 DEF cash
    <3> QED BY <2>4, <2>8, <3>1, <3>2, <3>3
  <2>13. d \in Int /\ d <= Cardinality(DOMAIN att) /\ -d <= Cardinality(DOMAIN att)
    <3> HIDE DEF d, once, daily, page, server, S, M
    <3> QED BY <2>8, <2>9, <2>10, <2>11, <2>12
  <2>14. Max({d, -d}) <= Cardinality(DOMAIN att)
    <3>1. \E x \in {d, -d} : \A y \in {d, -d} : x >= y
      <4> HIDE DEF d
      <4> QED BY <2>13
    <3>2. Max({d, -d}) \in {d, -d}
      <4> HIDE DEF d
      <4> QED BY <3>1 DEF Max
    <3> HIDE DEF d
    <3> QED BY <2>13, <3>2
  <2> QED BY <2>14
<1> QED BY <1>1, BooksInvariant, PTL DEF Spec, SettledAsPreviewed
=============================================================================
