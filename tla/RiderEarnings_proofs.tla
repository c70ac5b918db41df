------------------------ MODULE RiderEarnings_proofs ------------------------
(***************************************************************************)
(* Theorems about a rider's earnings: the accounts of the money agree      *)
(* (BooksBalance), no delivery pays out more than its share                *)
(* (NeverOverpaid), and what was paid out stays paid out (PaidOutIsFinal). *)
(*                                                                         *)
(* The accounts are sums.  Total(h, K) is what the numbers h add up to     *)
(* over K, and the first part shows what the others need of it: that it    *)
(* exists, how it changes, and that the model's folds compute it.          *)
(***************************************************************************)
EXTENDS RiderEarnings, FiniteSetTheorems, SequenceTheorems, WellFoundedInduction, TLAPS

(* The sums of the numbers h over the sets of their indices.               *)
Adds(h, g) ==
    /\ g \in [SUBSET DOMAIN h -> Int]
    /\ g[{}] = 0
    /\ \A T \in SUBSET DOMAIN h : \A x \in T : g[T] = g[T \ {x}] + h[x]

Total(h, K) == (CHOOSE g : Adds(h, g))[K]

(* Numbers that can be added up.                                           *)
Numbers(h) == IsFiniteSet(DOMAIN h) /\ h \in [DOMAIN h -> Int]

(* A non-empty set of finite sets has a smallest one: the way around the   *)
(* library's induction over finite sets, which takes an operator.          *)
LEMMA SmallestSet ==
    ASSUME NEW F, F # {}, \A A \in F : IsFiniteSet(A)
    PROVE  \E A \in F : \A B \in F : B \subseteq A => B = A
<1> DEFINE U == UNION F
<1>1. F \subseteq FiniteSubsetsOf(U)
  BY DEF FiniteSubsetsOf
<1>2. PICK A \in F : \A B \in F : <<B, A>> \notin StrictSubsetOrdering(U)
  BY <1>1, WFMin, FS_StrictSubsetOrderingWellFounded
<1> QED
  BY <1>2 DEF StrictSubsetOrdering

(* Any numbers have sums: take one away, add the rest up, and add it.      *)
LEMMA SumsExist ==
    ASSUME NEW h, Numbers(h)
    PROVE  \E g : Adds(h, g)
<1> DEFINE D == DOMAIN h
           Sums(S, g) == /\ g \in [SUBSET S -> Int]
                         /\ g[{}] = 0
                         /\ \A T \in SUBSET S : \A x \in T : g[T] = g[T \ {x}] + h[x]
           F == {S \in SUBSET D : ~ \E g : Sums(S, g)}
<1>1. SUFFICES ASSUME F # {} PROVE FALSE
  <2>1. ASSUME F = {} PROVE \E g : Sums(D, g)
    BY <2>1
  <2> QED
    BY <2>1 DEF Adds
<1>2. \A S \in F : IsFiniteSet(S)
  BY FS_Subset DEF Numbers
<1>3. PICK S \in F : \A B \in F : B \subseteq S => B = S
  <2> HIDE DEF F
  <2> QED
    BY <1>1, <1>2, SmallestSet
<1>4. S # {}
  <2>1. SUFFICES ASSUME S = {} PROVE Sums(S, [T \in {{}} |-> 0])
    BY <1>3
  <2> QED
    BY <2>1
<1>5. PICK a \in S : TRUE
  BY <1>4
<1>6. S \ {a} \in SUBSET D /\ S \ {a} \notin F
  <2>1. S \in SUBSET D
    BY <1>3
  <2>2. S \ {a} \subseteq S /\ S \ {a} # S
    BY <1>5
  <2> HIDE DEF F
  <2> QED
    BY <1>3, <2>1, <2>2
<1>7. PICK g : Sums(S \ {a}, g)
  BY <1>6
<1> DEFINE k == [T \in SUBSET S |-> IF a \in T THEN g[T \ {a}] + h[a] ELSE g[T]]
<1>8. h[a] \in Int /\ a \in D
  BY <1>3, <1>5 DEF Numbers
<1>9. \A T \in SUBSET S : T \ {a} \in SUBSET (S \ {a}) /\ (a \notin T => T \in SUBSET (S \ {a}))
  OBVIOUS
<1>10. \A T \in SUBSET S : T \ {a} \in DOMAIN g /\ g[T \ {a}] \in Int /\ (a \notin T => g[T] \in Int)
  BY <1>7, <1>9
<1>11. k \in [SUBSET S -> Int] /\ k[{}] = 0
  BY <1>7, <1>8, <1>10
<1>12. ASSUME NEW T \in SUBSET S, NEW x \in T PROVE k[T] = k[T \ {x}] + h[x]
  <2>1. T \ {x} \in SUBSET S
    OBVIOUS
  <2>2. CASE x = a
    <3>1. k[T] = g[T \ {a}] + h[a] /\ k[T \ {x}] = g[T \ {a}]
      BY <2>2, <2>1
    <3> QED
      BY <3>1, <2>2
  <2>3. CASE x # a /\ a \in T
    <3>1. x \in T \ {a} /\ (T \ {x}) \ {a} = (T \ {a}) \ {x} /\ a \in T \ {x}
      BY <2>3
    <3>2. g[T \ {a}] = g[(T \ {a}) \ {x}] + h[x]
      BY <1>7, <1>9, <3>1
    <3>3. k[T] = g[T \ {a}] + h[a] /\ k[T \ {x}] = g[(T \ {a}) \ {x}] + h[a]
      BY <2>1, <2>3, <3>1
    <3>4. g[(T \ {a}) \ {x}] \in Int /\ h[x] \in Int
      BY <1>10, <2>1, <3>1 DEF Numbers
    <3> QED
      BY <3>2, <3>3, <3>4, <1>8
  <2>4. CASE x # a /\ a \notin T
    <3>1. k[T] = g[T] /\ k[T \ {x}] = g[T \ {x}]
      BY <2>1, <2>4
    <3>2. g[T] = g[T \ {x}] + h[x]
      BY <1>7, <1>9, <2>4
    <3> QED
      BY <3>1, <3>2
  <2> QED
    BY <2>2, <2>3, <2>4
<1>13. Sums(S, k)
  <2> HIDE DEF k
  <2> QED
    BY <1>11, <1>12
<1>14. ~ \E f : Sums(S, f)
  BY <1>3
<1> QED
  <2> HIDE DEF Sums, k
  <2> QED
    BY <1>13, <1>14

(* Total is a sum.                                                         *)
LEMMA TotalAdds ==
    ASSUME NEW h, Numbers(h)
    PROVE  /\ Total(h, {}) = 0
           /\ \A T \in SUBSET DOMAIN h : Total(h, T) \in Int
           /\ \A T \in SUBSET DOMAIN h : \A x \in T : Total(h, T) = Total(h, T \ {x}) + h[x]
<1> DEFINE g == CHOOSE f : Adds(h, f)
<1>1. Adds(h, g)
  BY SumsExist
<1>2. \A T : Total(h, T) = g[T]
  BY DEF Total
<1> HIDE DEF g
<1> QED
  BY <1>1, <1>2 DEF Adds

(* Whatever adds the numbers up, one after the other in any order, is      *)
(* their total.                                                            *)
LEMMA TotalOnly ==
    ASSUME NEW h, Numbers(h), NEW D \in SUBSET DOMAIN h, NEW it, it[{}] = 0,
           \A T \in SUBSET D : T # {} => \E x \in T : it[T] = it[T \ {x}] + h[x]
    PROVE  it[D] = Total(h, D)
<1> DEFINE F == {T \in SUBSET D : it[T] # Total(h, T)}
<1>1. SUFFICES ASSUME it[D] # Total(h, D) PROVE FALSE
  OBVIOUS
<1>2. F # {}
  BY <1>1
<1>3. \A T \in F : IsFiniteSet(T)
  BY FS_Subset DEF Numbers
<1>4. PICK T \in F : \A B \in F : B \subseteq T => B = T
  <2> HIDE DEF F
  <2> QED
    BY <1>2, <1>3, SmallestSet
<1>5. T # {}
  BY <1>4, TotalAdds
<1>6. PICK x \in T : it[T] = it[T \ {x}] + h[x]
  BY <1>4, <1>5
<1>7. T \ {x} \in SUBSET D /\ T \ {x} \notin F
  BY <1>4, <1>6
<1>8. it[T \ {x}] = Total(h, T \ {x})
  BY <1>7
<1>9. Total(h, T) = Total(h, T \ {x}) + h[x]
  BY <1>4, <1>6, TotalAdds
<1> QED
  BY <1>4, <1>6, <1>8, <1>9
(* The total depends on nothing but the numbers that are added.            *)
LEMMA TotalSame ==
    ASSUME NEW h, Numbers(h), NEW k, Numbers(k), NEW K,
           K \subseteq DOMAIN h, K \subseteq DOMAIN k, \A x \in K : h[x] = k[x]
    PROVE  Total(h, K) = Total(k, K)
<1> DEFINE it == [T \in SUBSET K |-> Total(h, T)]
<1>1. it[{}] = 0
  BY TotalAdds
<1>2. ASSUME NEW T \in SUBSET K, T # {}
      PROVE  \E x \in T : it[T] = it[T \ {x}] + k[x]
  <2>1. PICK x \in T : TRUE
    BY <1>2
  <2>2. T \ {x} \in SUBSET K /\ T \in SUBSET DOMAIN h
    OBVIOUS
  <2>3. Total(h, T) = Total(h, T \ {x}) + h[x]
    BY <2>2, TotalAdds
  <2>4. h[x] = k[x] /\ it[T] = Total(h, T) /\ it[T \ {x}] = Total(h, T \ {x})
    BY <2>2
  <2> QED
    BY <2>3, <2>4
<1>3. it[K] = Total(k, K)
  <2> HIDE DEF it
  <2>1. K \in SUBSET DOMAIN k
    OBVIOUS
  <2> QED
    BY <1>1, <1>2, <2>1, TotalOnly
<1> QED
  BY <1>3

(* Numbers that are the sums of others have the sum of their totals.       *)
LEMMA TotalOfSums ==
    ASSUME NEW h, Numbers(h), NEW k, Numbers(k), NEW l, Numbers(l), NEW K,
           K \subseteq DOMAIN h, K \subseteq DOMAIN k, K \subseteq DOMAIN l,
           \A x \in K : l[x] = h[x] + k[x]
    PROVE  Total(l, K) = Total(h, K) + Total(k, K)
<1> DEFINE it == [T \in SUBSET K |-> Total(h, T) + Total(k, T)]
<1>1. it[{}] = 0
  BY TotalAdds
<1>2. ASSUME NEW T \in SUBSET K, T # {}
      PROVE  \E x \in T : it[T] = it[T \ {x}] + l[x]
  <2>1. PICK x \in T : TRUE
    BY <1>2
  <2>2. T \ {x} \in SUBSET K /\ T \in SUBSET DOMAIN h /\ T \in SUBSET DOMAIN k
    OBVIOUS
  <2>3. /\ Total(h, T) = Total(h, T \ {x}) + h[x]
        /\ Total(k, T) = Total(k, T \ {x}) + k[x]
        /\ Total(h, T \ {x}) \in Int /\ Total(k, T \ {x}) \in Int
        /\ h[x] \in Int /\ k[x] \in Int
    BY <2>2, TotalAdds DEF Numbers
  <2>4. l[x] = h[x] + k[x]
    BY <1>2
  <2>5. it[T] = Total(h, T) + Total(k, T) /\ it[T \ {x}] = Total(h, T \ {x}) + Total(k, T \ {x})
    BY <2>2
  <2>6. \A a, b, c, d \in Int : (a + c) + (b + d) = (a + b) + (c + d)
    OBVIOUS
  <2>7. it[T] = it[T \ {x}] + l[x]
    <3> HIDE DEF it
    <3> QED
      BY <2>3, <2>4, <2>5, <2>6
  <2> QED
    BY <2>7
<1>3. it[K] = Total(l, K)
  <2> HIDE DEF it
  <2>1. K \in SUBSET DOMAIN l
    OBVIOUS
  <2> QED
    BY <1>1, <1>2, <2>1, TotalOnly
<1> QED
  BY <1>3

LEMMA TotalOfZeros ==
    ASSUME NEW h, Numbers(h), NEW K \in SUBSET DOMAIN h, \A x \in K : h[x] = 0
    PROVE  Total(h, K) = 0
<1> DEFINE it == [T \in SUBSET K |-> 0]
<1>1. it[{}] = 0
  OBVIOUS
<1>2. ASSUME NEW T \in SUBSET K, T # {}
      PROVE  \E x \in T : it[T] = it[T \ {x}] + h[x]
  <2>1. PICK x \in T : TRUE
    BY <1>2
  <2>2. h[x] = 0 /\ it[T] = 0 /\ it[T \ {x}] = 0
    OBVIOUS
  <2> QED
    BY <2>2
<1>3. it[K] = Total(h, K)
  <2> HIDE DEF it
  <2> QED
    BY <1>1, <1>2, TotalOnly
<1> QED
  BY <1>3

(* Two sets that have nothing in common.                                   *)
LEMMA TotalOfUnion ==
    ASSUME NEW h, Numbers(h), NEW K, NEW L, K \cup L \subseteq DOMAIN h, K \cap L = {}
    PROVE  Total(h, K \cup L) = Total(h, K) + Total(h, L)
<1> DEFINE D == DOMAIN h
           a == [x \in D |-> IF x \in K THEN h[x] ELSE 0]
           b == [x \in D |-> IF x \in L THEN h[x] ELSE 0]
           M == K \cup L
<1>1. Numbers(a) /\ Numbers(b) /\ DOMAIN a = D /\ DOMAIN b = D
  BY DEF Numbers
<1>2. /\ \A x \in K : a[x] = h[x] /\ b[x] = 0
      /\ \A x \in L : b[x] = h[x] /\ a[x] = 0
      /\ \A x \in M : h[x] = a[x] + b[x]
  BY DEF Numbers
<1>3. /\ M \in SUBSET D /\ K \in SUBSET D /\ L \in SUBSET D
  OBVIOUS
<1> HIDE DEF a, b
<1>4. Total(h, M) = Total(a, M) + Total(b, M)
  <2> HIDE DEF M
  <2> QED
    BY <1>1, <1>2, <1>3, TotalOfSums
<1>5. Total(a, K) = Total(h, K) /\ Total(b, L) = Total(h, L)
  BY <1>1, <1>2, <1>3, TotalSame
<1>6. ASSUME NEW c, Numbers(c), DOMAIN c = D, NEW S \in SUBSET D, NEW T \in SUBSET S,
             \A x \in S \ T : c[x] = 0
      PROVE  Total(c, S) = Total(c, T)
  <2> DEFINE F == {R \in SUBSET S : T \subseteq R /\ Total(c, R) # Total(c, T)}
  <2>1. SUFFICES ASSUME Total(c, S) # Total(c, T) PROVE FALSE
    OBVIOUS
  <2>2. F # {} /\ \A R \in F : IsFiniteSet(R)
    BY <1>6, <2>1, FS_Subset DEF Numbers
  <2>3. PICK R \in F : \A B \in F : B \subseteq R => B = R
    <3> HIDE DEF F
    <3> QED
      BY <2>2, SmallestSet
  <2>4. PICK x \in R \ T : TRUE
    <3>1. T \subseteq R /\ R # T
      BY <2>3
    <3> QED
      BY <3>1
  <2>5. R \ {x} \in SUBSET S /\ T \subseteq R \ {x} /\ R \ {x} \notin F
    BY <2>3, <2>4
  <2>6. Total(c, R) = Total(c, R \ {x}) + 0 /\ Total(c, R \ {x}) = Total(c, T)
    BY <1>6, <2>3, <2>4, <2>5, TotalAdds
  <2>7. Total(c, T) \in Int
    BY <1>6, TotalAdds
  <2> QED
    BY <2>3, <2>6, <2>7
<1>7. Total(a, M) = Total(a, K)
  BY <1>1, <1>2, <1>3, <1>6
<1>8. Total(b, M) = Total(b, L)
  BY <1>1, <1>2, <1>3, <1>6
<1> QED
  BY <1>4, <1>5, <1>7, <1>8

(* Nothing is negative: a part is no more than the whole.                  *)
LEMMA TotalOfPart ==
    ASSUME NEW h, Numbers(h), NEW K, K \subseteq DOMAIN h, \A x \in K : h[x] >= 0
    PROVE  /\ Total(h, K) >= 0
           /\ \A L \in SUBSET K : Total(h, L) <= Total(h, K)
           /\ \A x \in K : h[x] <= Total(h, K)
<1>1. ASSUME NEW L \in SUBSET K PROVE Total(h, L) >= 0
  <2> DEFINE F == {T \in SUBSET K : ~ (Total(h, T) >= 0)}
  <2>1. SUFFICES ASSUME F # {} PROVE FALSE
    OBVIOUS
  <2>2. \A T \in F : IsFiniteSet(T)
    BY FS_Subset DEF Numbers
  <2>3. PICK T \in F : \A B \in F : B \subseteq T => B = T
    <3> HIDE DEF F
    <3> QED
      BY <2>1, <2>2, SmallestSet
  <2>4. PICK x \in T : TRUE
    <3>1. Total(h, {}) = 0
      BY TotalAdds
    <3>2. ~ (Total(h, T) >= 0)
      BY <2>3
    <3>3. T # {}
      BY <3>1, <3>2
    <3> QED
      BY <3>3
  <2>5. T \ {x} \in SUBSET K /\ T \ {x} \notin F
    BY <2>3, <2>4
  <2>6. T \in SUBSET DOMAIN h /\ T \ {x} \in SUBSET DOMAIN h
    BY <2>3
  <2>7. /\ Total(h, T) = Total(h, T \ {x}) + h[x]
        /\ Total(h, T \ {x}) \in Int /\ h[x] \in Int
    BY <2>4, <2>6, TotalAdds DEF Numbers
  <2>8. Total(h, T \ {x}) >= 0 /\ h[x] >= 0
    BY <2>4, <2>5, <2>3
  <2>9. Total(h, T) >= 0
    BY <2>7, <2>8
  <2> QED
    BY <2>3, <2>9
<1>2. ASSUME NEW L \in SUBSET K PROVE Total(h, L) <= Total(h, K)
  <2>1. K = L \cup (K \ L) /\ L \cap (K \ L) = {} /\ K \ L \in SUBSET K
    OBVIOUS
  <2>2. Total(h, K) = Total(h, L) + Total(h, K \ L)
    BY <2>1, TotalOfUnion
  <2>3. Total(h, K \ L) >= 0
    BY <2>1, <1>1
  <2>4. Total(h, L) \in Int /\ Total(h, K \ L) \in Int
    BY <2>1, TotalAdds
  <2> QED
    BY <2>2, <2>3, <2>4
<1>3. ASSUME NEW x \in K PROVE h[x] <= Total(h, K)
  <2>1. Total(h, {x}) = Total(h, {x} \ {x}) + h[x] /\ {x} \ {x} = {}
    BY TotalAdds
  <2>2. Total(h, {x}) = h[x]
    BY <2>1, TotalAdds DEF Numbers
  <2> QED
    BY <2>2, <1>2
<1> QED
  BY <1>1, <1>2, <1>3

(* One of the numbers changes.                                             *)
LEMMA TotalChanges ==
    ASSUME NEW h, Numbers(h), NEW k, Numbers(k), NEW K, NEW x \in K,
           K \subseteq DOMAIN h, K \subseteq DOMAIN k, \A y \in K \ {x} : h[y] = k[y]
    PROVE  Total(k, K) = Total(h, K) - h[x] + k[x]
<1>1. Total(h, K \ {x}) = Total(k, K \ {x})
  BY TotalSame
<1>2. /\ Total(h, K) = Total(h, K \ {x}) + h[x]
      /\ Total(k, K) = Total(k, K \ {x}) + k[x]
  BY TotalAdds
<1>3. Total(h, K \ {x}) \in Int /\ h[x] \in Int /\ k[x] \in Int
  BY TotalAdds DEF Numbers
<1> QED
  BY <1>1, <1>2, <1>3

-----------------------------------------------------------------------------
(* What the model's folds compute. *)

LEMMA HasLargest ==
    ASSUME NEW S \in SUBSET Int, IsFiniteSet(S), S # {}
    PROVE  Max(S) \in S /\ \A y \in S : Max(S) >= y
<1> DEFINE HasMax(T) == \E x \in T : \A y \in T : x >= y
           F == {T \in SUBSET S : T # {} /\ ~HasMax(T)}
<1>1. SUFFICES ASSUME F # {} PROVE FALSE
  <2>1. ASSUME F = {} PROVE Max(S) \in S /\ \A y \in S : Max(S) >= y
    <3>1. HasMax(S)
      BY <2>1
    <3> QED
      BY <3>1 DEF Max
  <2> QED
    BY <2>1
<1>2. \A T \in F : IsFiniteSet(T)
  BY FS_Subset
<1>3. PICK T \in F : \A B \in F : B \subseteq T => B = T
  <2> HIDE DEF F
  <2> QED
    BY <1>1, <1>2, SmallestSet
<1>4. PICK x \in T : TRUE
  BY <1>3
<1>5. T \in SUBSET Int /\ ~HasMax(T) /\ T \in SUBSET S
  BY <1>3
<1>6. CASE T \ {x} = {}
  <2>1. \A y \in T : x >= y
    BY <1>4, <1>5, <1>6
  <2> QED
    BY <2>1, <1>4, <1>5
<1>7. CASE T \ {x} # {}
  <2>1. T \ {x} \in SUBSET S /\ T \ {x} # T
    BY <1>4, <1>5
  <2>2. HasMax(T \ {x})
    BY <2>1, <1>3, <1>7
  <2>3. PICK m \in T \ {x} : \A y \in T \ {x} : m >= y
    BY <2>2
  <2>4. CASE m >= x
    <3>1. \A y \in T : m >= y
      BY <2>3, <2>4
    <3> QED
      BY <3>1, <1>5
  <2>5. CASE ~ (m >= x)
    <3>1. x \in Int /\ m \in Int /\ x >= m
      BY <1>4, <1>5, <2>3, <2>5
    <3>2. \A y \in T : x >= y
      BY <2>3, <3>1, <1>5
    <3> QED
      BY <3>2, <1>4, <1>5
  <2> QED
    BY <2>4, <2>5
<1> QED
  BY <1>6, <1>7

(* The amounts of the records, and what some of them add up to.            *)
Worth(r) == [i \in DOMAIN r |-> r[i].amount]

LEMMA WorthNumbers ==
    ASSUME NEW r \in Seq(EarningType)
    PROVE  /\ Numbers(Worth(r)) /\ DOMAIN Worth(r) = DOMAIN r
           /\ DOMAIN r = 1..Len(r) /\ Len(r) \in Nat
           /\ \A i \in DOMAIN r : Worth(r)[i] = r[i].amount /\ Worth(r)[i] \in Nat \ {0}
<1>1. Len(r) \in Nat /\ DOMAIN r = 1..Len(r) /\ r \in [1..Len(r) -> EarningType]
  OBVIOUS
<1>2. IsFiniteSet(1..Len(r))
  BY <1>1, FS_Interval
<1>3. \A i \in 1..Len(r) : r[i].amount \in Nat \ {0}
  BY <1>1 DEF EarningType
<1> QED
  BY <1>1, <1>2, <1>3 DEF Worth, Numbers

(* A fold over the records r that adds the amounts of those in W.          *)
Folds(r, W, it) ==
    it = [s \in SUBSET DOMAIN r |->
            IF s = {} THEN 0
            ELSE IF Max(s) \in W THEN it[s \ {Max(s)}] + r[Max(s)].amount
                                 ELSE it[s \ {Max(s)}]]

LEMMA FoldIsTotal ==
    ASSUME NEW r \in Seq(EarningType), NEW W, W \subseteq DOMAIN r
    PROVE  /\ \E it : Folds(r, W, it)
           /\ \A it : Folds(r, W, it) => it[DOMAIN r] = Total(Worth(r), W)
<1> DEFINE D == DOMAIN r
           h == [i \in D |-> IF i \in W THEN r[i].amount ELSE 0]
<1>1. /\ Numbers(Worth(r)) /\ DOMAIN Worth(r) = D /\ D \subseteq Int /\ IsFiniteSet(D)
      /\ \A i \in D : Worth(r)[i] = r[i].amount /\ r[i].amount \in Int
  <2>1. D \subseteq Int
    BY WorthNumbers
  <2> QED
    BY <2>1, WorthNumbers DEF Numbers
<1>2. Numbers(h) /\ DOMAIN h = D
  BY <1>1 DEF Numbers
<1>3. \A s \in SUBSET D : s # {} => Max(s) \in s /\ Max(s) \in D /\ s \ {Max(s)} \in SUBSET D
  <2>1. ASSUME NEW s \in SUBSET D, s # {} PROVE Max(s) \in s
    BY <2>1, <1>1, FS_Subset, HasLargest
  <2> QED
    BY <2>1
<1>4. Total(h, D) = Total(Worth(r), W)
  <2>1. D = W \cup (D \ W) /\ W \cap (D \ W) = {}
    OBVIOUS
  <2>2. Total(h, D) = Total(h, W) + Total(h, D \ W)
    <3> HIDE DEF h
    <3> QED
      BY <2>1, <1>2, TotalOfUnion
  <2>3. Total(h, W) = Total(Worth(r), W)
    <3>1. \A x \in W : h[x] = Worth(r)[x]
      BY <1>1
    <3> HIDE DEF h
    <3> QED
      BY <3>1, <1>1, <1>2, TotalSame
  <2>4. Total(h, D \ W) = 0
    <3>1. \A x \in D \ W : h[x] = 0
      OBVIOUS
    <3> HIDE DEF h
    <3> QED
      BY <3>1, <1>2, TotalOfZeros
  <2>5. Total(h, W) \in Int
    <3> HIDE DEF h
    <3> QED
      BY <1>2, TotalAdds
  <2> QED
    BY <2>2, <2>3, <2>4, <2>5
<1>5. ASSUME NEW it, Folds(r, W, it) PROVE it[D] = Total(Worth(r), W)
  <2>1. it[{}] = 0
    BY <1>5 DEF Folds
  <2>2. ASSUME NEW T \in SUBSET D, T # {}, it[T \ {Max(T)}] \in Int PROVE it[T] = it[T \ {Max(T)}] + h[Max(T)]
    <3>1. \A s \in SUBSET D : it[s] = IF s = {} THEN 0
              ELSE IF Max(s) \in W THEN it[s \ {Max(s)}] + r[Max(s)].amount ELSE it[s \ {Max(s)}]
      BY <1>5 DEF Folds
    <3>2. PICK m : m = Max(T)
      OBVIOUS
    <3>3. it[T] = (IF m \in W THEN it[T \ {m}] + r[m].amount ELSE it[T \ {m}]) /\ m \in D
      BY <2>2, <3>1, <3>2, <1>3
    <3>4. h[m] = IF m \in W THEN r[m].amount ELSE 0
      BY <3>3
    <3> HIDE DEF h
    <3>5. it[T \ {m}] \in Int
      BY <2>2, <3>2
    <3> QED
      BY <3>2, <3>3, <3>4, <3>5
  <2>3. ASSUME NEW T \in SUBSET D PROVE it[T] \in Int
    <3> DEFINE F == {R \in SUBSET D : it[R] \notin Int}
    <3>1. SUFFICES ASSUME F # {} PROVE FALSE
      OBVIOUS
    <3>2. \A R \in F : IsFiniteSet(R)
      BY <1>1, FS_Subset
    <3>3. PICK R \in F : \A B \in F : B \subseteq R => B = R
      <4> HIDE DEF F
      <4> QED
        BY <3>1, <3>2, SmallestSet
    <3>4. R # {} /\ R \in SUBSET D /\ it[R] \notin Int
      <4>1. R \in SUBSET D /\ it[R] \notin Int
        BY <3>3
      <4>2. R # {}
        <5>1. SUFFICES ASSUME R = {} PROVE FALSE
          OBVIOUS
        <5>2. it[R] = 0
          BY <5>1, <2>1
        <5> QED
          BY <5>2, <4>1
      <4> QED
        BY <4>1, <4>2
    <3>5. R \ {Max(R)} \notin F
      BY <3>3, <3>4, <1>3
    <3>6. it[R \ {Max(R)}] \in Int
      BY <3>4, <3>5, <1>3
    <3>7. it[R] = it[R \ {Max(R)}] + h[Max(R)] /\ h[Max(R)] \in Int
      BY <2>2, <3>4, <3>6, <1>3, <1>2 DEF Numbers
    <3> QED
      BY <3>4, <3>6, <3>7
  <2>4. \A T \in SUBSET D : T # {} => \E x \in T : it[T] = it[T \ {x}] + h[x]
    BY <2>2, <2>3, <1>3
  <2>5. it[D] = Total(h, D)
    <3>1. D \in SUBSET DOMAIN h
      BY <1>2
    <3> HIDE DEF h, D
    <3> QED
      BY <3>1, <2>1, <2>4, <1>2, TotalOnly
  <2> QED
    BY <2>5, <1>4
<1>6. \E it : Folds(r, W, it)
  <2> DEFINE it == [s \in SUBSET D |-> Total(h, s)]
  <2>1. \A s \in SUBSET D : it[s] = Total(h, s)
    OBVIOUS
  <2>2. Total(h, {}) = 0 /\ \A s \in SUBSET D : Total(h, s) \in Int
    <3> HIDE DEF h
    <3> QED
      BY <1>2, TotalAdds
  <2>3. ASSUME NEW s \in SUBSET D, s # {}
        PROVE  it[s] = IF Max(s) \in W THEN it[s \ {Max(s)}] + r[Max(s)].amount
                                       ELSE it[s \ {Max(s)}]
    <3>1. Total(h, s) = Total(h, s \ {Max(s)}) + h[Max(s)]
      <4> HIDE DEF h
      <4> QED
        BY <1>2, <1>3, <2>3, TotalAdds
    <3>2. h[Max(s)] = (IF Max(s) \in W THEN r[Max(s)].amount ELSE 0) /\ s \ {Max(s)} \in SUBSET D
      BY <1>3, <2>3
    <3>3. Total(h, s \ {Max(s)}) \in Int
      BY <3>2, <2>2
    <3> HIDE DEF h
    <3> QED
      BY <3>1, <3>2, <3>3
  <2>4. Folds(r, W, it)
    BY <2>2, <2>3 DEF Folds
  <2> QED
    BY <2>4
<1> QED
  BY <1>5, <1>6

(* The largest of some records is one of them.                             *)
LEMMA LargestRecord ==
    ASSUME NEW r \in Seq(EarningType), NEW s \in SUBSET DOMAIN r, s # {}
    PROVE  Max(s) \in DOMAIN r
<1>1. DOMAIN r \subseteq Int /\ IsFiniteSet(DOMAIN r)
  BY WorthNumbers DEF Numbers
<1>2. IsFiniteSet(s) /\ s \in SUBSET Int
  BY <1>1, FS_Subset
<1> QED
  BY <1>2, HasLargest

(* The records that a status, a withdrawal or a delivery has.              *)
With(r, s)       == {i \in DOMAIN r : r[i].status = s}
ForWhat(r, w, s) == {i \in DOMAIN r : r[i].status = s /\ r[i].ref = w}
OfDelivery(r, d) == {i \in DOMAIN r : r[i].del = d}

LEMMA AvailableIsTotal ==
    ASSUME records \in Seq(EarningType)
    PROVE  SumOf(Available) = Total(Worth(records), With(records, "available"))
<1> DEFINE D == DOMAIN records
           W == With(records, "available")
           It(it) == it = [s \in SUBSET D |->
                             IF s = {} THEN 0
                             ELSE IF records[Max(s)].status = "available" THEN it[s \ {Max(s)}] + records[Max(s)].amount
                                  ELSE it[s \ {Max(s)}]]
           f == CHOOSE it : It(it)
<1>1. SumOf(Available) = f[D]
  BY Zenon DEF SumOf, Available, FoldLeft, MapThenFoldSet
<1>2. W \subseteq D /\ \A i \in D : i \in W <=> records[i].status = "available"
  BY DEF With
<1>3. \A s \in SUBSET D : s # {} => (Max(s) \in W <=> records[Max(s)].status = "available")
  <2> HIDE DEF W
  <2> QED
    BY <1>2, LargestRecord
<1>4. ASSUME NEW it PROVE It(it) <=> Folds(records, W, it)
  <2> HIDE DEF W
  <2> QED
    BY <1>3 DEF Folds
<1> HIDE DEF W, It
<1>5. \E it : It(it)
  BY <1>2, <1>4, FoldIsTotal
<1>6. It(f)
  BY <1>5
<1> QED
  BY <1>1, <1>2, <1>4, <1>6, FoldIsTotal DEF W

LEMMA HeldIsTotal ==
    ASSUME records \in Seq(EarningType)
    PROVE  SumOf(Held) = Total(Worth(records), With(records, "held"))
<1> DEFINE D == DOMAIN records
           W == With(records, "held")
           It(it) == it = [s \in SUBSET D |->
                             IF s = {} THEN 0
                             ELSE IF records[Max(s)].status = "held" THEN it[s \ {Max(s)}] + records[Max(s)].amount
                                  ELSE it[s \ {Max(s)}]]
           f == CHOOSE it : It(it)
<1>1. SumOf(Held) = f[D]
  BY Zenon DEF SumOf, Held, FoldLeft, MapThenFoldSet
<1>2. W \subseteq D /\ \A i \in D : i \in W <=> records[i].status = "held"
  BY DEF With
<1>3. \A s \in SUBSET D : s # {} => (Max(s) \in W <=> records[Max(s)].status = "held")
  <2> HIDE DEF W
  <2> QED
    BY <1>2, LargestRecord
<1>4. ASSUME NEW it PROVE It(it) <=> Folds(records, W, it)
  <2> HIDE DEF W
  <2> QED
    BY <1>3 DEF Folds
<1> HIDE DEF W, It
<1>5. \E it : It(it)
  BY <1>2, <1>4, FoldIsTotal
<1>6. It(f)
  BY <1>5
<1> QED
  BY <1>1, <1>2, <1>4, <1>6, FoldIsTotal DEF W

LEMMA WithdrawnIsTotal ==
    ASSUME records \in Seq(EarningType)
    PROVE  SumOf(Withdrawn) = Total(Worth(records), With(records, "withdrawn"))
<1> DEFINE D == DOMAIN records
           W == With(records, "withdrawn")
           It(it) == it = [s \in SUBSET D |->
                             IF s = {} THEN 0
                             ELSE IF records[Max(s)].status = "withdrawn" THEN it[s \ {Max(s)}] + records[Max(s)].amount
                                  ELSE it[s \ {Max(s)}]]
           f == CHOOSE it : It(it)
<1>1. SumOf(Withdrawn) = f[D]
  BY Zenon DEF SumOf, Withdrawn, FoldLeft, MapThenFoldSet
<1>2. W \subseteq D /\ \A i \in D : i \in W <=> records[i].status = "withdrawn"
  BY DEF With
<1>3. \A s \in SUBSET D : s # {} => (Max(s) \in W <=> records[Max(s)].status = "withdrawn")
  <2> HIDE DEF W
  <2> QED
    BY <1>2, LargestRecord
<1>4. ASSUME NEW it PROVE It(it) <=> Folds(records, W, it)
  <2> HIDE DEF W
  <2> QED
    BY <1>3 DEF Folds
<1> HIDE DEF W, It
<1>5. \E it : It(it)
  BY <1>2, <1>4, FoldIsTotal
<1>6. It(f)
  BY <1>5
<1> QED
  BY <1>1, <1>2, <1>4, <1>6, FoldIsTotal DEF W

LEMMA ReferenceIsTotal ==
    ASSUME NEW w, NEW t, records \in Seq(EarningType)
    PROVE  OfReference(w, t) = Total(Worth(records), ForWhat(records, w, t))
<1> DEFINE D == DOMAIN records
           W == ForWhat(records, w, t)
           It(it) == it = [s \in SUBSET D |->
                             IF s = {} THEN 0
                             ELSE IF records[Max(s)].ref = w /\ records[Max(s)].status = t THEN it[s \ {Max(s)}] + records[Max(s)].amount
                                  ELSE it[s \ {Max(s)}]]
           f == CHOOSE it : It(it)
<1>1. OfReference(w, t) = f[D]
  BY Zenon DEF SumOf, OfReference, FoldLeft, MapThenFoldSet
<1>2. W \subseteq D /\ \A i \in D : i \in W <=> records[i].ref = w /\ records[i].status = t
  BY DEF ForWhat
<1>3. \A s \in SUBSET D : s # {} => (Max(s) \in W <=> records[Max(s)].ref = w /\ records[Max(s)].status = t)
  <2> HIDE DEF W
  <2> QED
    BY <1>2, LargestRecord
<1>4. ASSUME NEW it PROVE It(it) <=> Folds(records, W, it)
  <2> HIDE DEF W
  <2> QED
    BY <1>3 DEF Folds
<1> HIDE DEF W, It
<1>5. \E it : It(it)
  BY <1>2, <1>4, FoldIsTotal
<1>6. It(f)
  BY <1>5
<1> QED
  BY <1>1, <1>2, <1>4, <1>6, FoldIsTotal DEF W

LEMMA DeliveryIsTotal ==
    ASSUME NEW d, records \in Seq(EarningType)
    PROVE  SumOf(LAMBDA e : e.del = d) = Total(Worth(records), OfDelivery(records, d))
<1> DEFINE D == DOMAIN records
           W == OfDelivery(records, d)
           It(it) == it = [s \in SUBSET D |->
                             IF s = {} THEN 0
                             ELSE IF records[Max(s)].del = d THEN it[s \ {Max(s)}] + records[Max(s)].amount
                                  ELSE it[s \ {Max(s)}]]
           f == CHOOSE it : It(it)
<1>1. SumOf(LAMBDA e : e.del = d) = f[D]
  BY Zenon DEF SumOf, FoldLeft, MapThenFoldSet
<1>2. W \subseteq D /\ \A i \in D : i \in W <=> records[i].del = d
  BY DEF OfDelivery
<1>3. \A s \in SUBSET D : s # {} => (Max(s) \in W <=> records[Max(s)].del = d)
  <2> HIDE DEF W
  <2> QED
    BY <1>2, LargestRecord
<1>4. ASSUME NEW it PROVE It(it) <=> Folds(records, W, it)
  <2> HIDE DEF W
  <2> QED
    BY <1>3 DEF Folds
<1> HIDE DEF W, It
<1>5. \E it : It(it)
  BY <1>2, <1>4, FoldIsTotal
<1>6. It(f)
  BY <1>5
<1> QED
  BY <1>1, <1>2, <1>4, <1>6, FoldIsTotal DEF W

LEMMA AllIsTotal ==
    ASSUME records \in Seq(EarningType)
    PROVE  SumOf(LAMBDA e : TRUE) = Total(Worth(records), DOMAIN records)
<1> DEFINE D == DOMAIN records
           W == DOMAIN records
           It(it) == it = [s \in SUBSET D |->
                             IF s = {} THEN 0
                             ELSE IF TRUE THEN it[s \ {Max(s)}] + records[Max(s)].amount
                                  ELSE it[s \ {Max(s)}]]
           f == CHOOSE it : It(it)
<1>1. SumOf(LAMBDA e : TRUE) = f[D]
  BY Zenon DEF SumOf, FoldLeft, MapThenFoldSet
<1>2. W \subseteq D /\ \A i \in D : i \in W <=> TRUE
  OBVIOUS
<1>3. \A s \in SUBSET D : s # {} => (Max(s) \in W <=> TRUE)
  <2> HIDE DEF W
  <2> QED
    BY <1>2, LargestRecord
<1>4. ASSUME NEW it PROVE It(it) <=> Folds(records, W, it)
  <2> HIDE DEF W
  <2> QED
    BY <1>3 DEF Folds
<1> HIDE DEF W, It
<1>5. \E it : It(it)
  BY <1>2, <1>4, FoldIsTotal
<1>6. It(f)
  BY <1>5
<1> QED
  BY <1>1, <1>2, <1>4, <1>6, FoldIsTotal DEF W

(* A fold over a set, which takes the elements as CHOOSE has it.           *)
AnyOf(s) == CHOOSE x \in s : TRUE

SetFolds(h, W, it) ==
    it = [s \in SUBSET W |-> IF s = {} THEN 0 ELSE it[s \ {AnyOf(s)}] + h[AnyOf(s)]]

LEMMA SetFoldIsTotal ==
    ASSUME NEW h, Numbers(h), NEW W, W \subseteq DOMAIN h
    PROVE  /\ \E it : SetFolds(h, W, it)
           /\ \A it : SetFolds(h, W, it) => it[W] = Total(h, W)
<1>1. \A s \in SUBSET W : s # {} => AnyOf(s) \in s /\ s \ {AnyOf(s)} \in SUBSET W
  BY DEF AnyOf
<1>2. ASSUME NEW it, SetFolds(h, W, it) PROVE it[W] = Total(h, W)
  <2>1. \A s \in SUBSET W : it[s] = IF s = {} THEN 0 ELSE it[s \ {AnyOf(s)}] + h[AnyOf(s)]
    BY <1>2 DEF SetFolds
  <2>2. it[{}] = 0
    BY <2>1
  <2>3. \A T \in SUBSET W : T # {} => \E x \in T : it[T] = it[T \ {x}] + h[x]
    BY <1>1, <2>1
  <2> QED
    BY <2>2, <2>3, TotalOnly
<1>3. \E it : SetFolds(h, W, it)
  <2> DEFINE it == [s \in SUBSET W |-> Total(h, s)]
  <2>1. Total(h, {}) = 0
    BY TotalAdds
  <2>2. ASSUME NEW s \in SUBSET W, s # {}
        PROVE  it[s] = it[s \ {AnyOf(s)}] + h[AnyOf(s)]
    <3>1. s \in SUBSET DOMAIN h /\ AnyOf(s) \in s /\ s \ {AnyOf(s)} \in SUBSET W
      BY <1>1, <2>2
    <3>2. Total(h, s) = Total(h, s \ {AnyOf(s)}) + h[AnyOf(s)]
      BY <3>1, TotalAdds
    <3> QED
      BY <3>1, <3>2
  <2>3. it[{}] = 0
    BY <2>1
  <2>4. SetFolds(h, W, it)
    BY <2>2, <2>3 DEF SetFolds
  <2> QED
    BY <2>4
<1> QED
  BY <1>2, <1>3

LEMMA AmountNumbers ==
    ASSUME amount \in [References -> Nat]
    PROVE  Numbers(amount) /\ DOMAIN amount = References
  BY EarningsAssumption DEF Numbers

(* The sum that the admins are shown for the requests of a status.         *)
LEMMA StatsAreTotal ==
    ASSUME NEW t, amount \in [References -> Nat]
    PROVE  WithdrawalStats(t).amount = Total(amount, {w \in References : filed[w] = t})
<1> DEFINE W == {w \in References : filed[w] = t}
           It(it) == it = [s \in SUBSET W |->
                             IF s = {} THEN 0
                             ELSE it[s \ {CHOOSE x \in s : TRUE}] + amount[CHOOSE x \in s : TRUE]]
           f == CHOOSE it : It(it)
<1>1. WithdrawalStats(t).amount = f[W]
  <2>1. WithdrawalStats(t).amount = FoldSet(LAMBDA w, n : n + amount[w], 0, W)
    BY DEF WithdrawalStats
  <2>2. FoldSet(LAMBDA w, n : n + amount[w], 0, W) = f[W]
    BY Zenon DEF FoldSet, MapThenFoldSet
  <2> QED
    BY <2>1, <2>2
<1>2. \A it : It(it) <=> SetFolds(amount, W, it)
  BY DEF SetFolds, AnyOf
<1>3. Numbers(amount) /\ W \subseteq DOMAIN amount
  BY AmountNumbers
<1> HIDE DEF W, It
<1>4. \E it : It(it)
  BY <1>2, <1>3, SetFoldIsTotal
<1>5. It(f)
  BY <1>4
<1> QED
  BY <1>1, <1>2, <1>3, <1>5, SetFoldIsTotal DEF W

(* What the platform says that it earned, less its commission, is what the *)
(* riders' shares of its records add up to.                                *)
Shares(p) == [d \in Deliveries |-> p[d] * Payout(d)]

LEMMA PayoutType ==
    ASSUME NEW d \in Deliveries
    PROVE  Payout(d) \in Nat \ {0} /\ Price[d] \in Nat
<1>1. Price[d] \in Nat /\ Percentage \in Nat /\ MinimumPayout \in Nat \ {0}
  BY EarningsAssumption
<1>2. PICK n \in Nat : n = Price[d] * Percentage + 50
  BY <1>1
<1>3. n \div 100 \in Nat
  BY <1>2
<1>4. CASE n \div 100 < MinimumPayout
  BY <1>1, <1>2, <1>4 DEF Payout
<1>5. CASE ~ (n \div 100 < MinimumPayout)
  <2>1. n \div 100 \in Nat \ {0}
    BY <1>1, <1>3, <1>5
  <2> QED
    BY <1>1, <1>2, <1>5, <2>1 DEF Payout
<1> QED
  BY <1>4, <1>5

LEMMA SharesNumbers ==
    ASSUME NEW p \in [Deliveries -> Nat]
    PROVE  /\ Numbers(Shares(p)) /\ DOMAIN Shares(p) = Deliveries
           /\ \A d \in Deliveries : Shares(p)[d] = p[d] * Payout(d)
<1>1. \A d \in Deliveries : p[d] * Payout(d) \in Int
  BY PayoutType
<1> QED
  BY <1>1, EarningsAssumption DEF Shares, Numbers

LEMMA EarningsAreTotal ==
    ASSUME platform \in [Deliveries -> Nat]
    PROVE  EarningsStats.totalEarnings - EarningsStats.platformCommission
             = Total(Shares(platform), Deliveries)
<1> DEFINE a == [d \in Deliveries |-> platform[d] * Price[d]]
           b == [d \in Deliveries |-> platform[d] * (Price[d] - Payout(d))]
           A(it) == it = [s \in SUBSET Deliveries |->
                            IF s = {} THEN 0
                            ELSE it[s \ {CHOOSE x \in s : TRUE}]
                                 + platform[CHOOSE x \in s : TRUE]
                                     * PlatformEarning(CHOOSE x \in s : TRUE)["totalDeliveryPrice"]]
           B(it) == it = [s \in SUBSET Deliveries |->
                            IF s = {} THEN 0
                            ELSE it[s \ {CHOOSE x \in s : TRUE}]
                                 + platform[CHOOSE x \in s : TRUE]
                                     * PlatformEarning(CHOOSE x \in s : TRUE)["platformCommission"]]
           f == CHOOSE it : A(it)
           g == CHOOSE it : B(it)
<1>1. EarningsStats.totalEarnings = f[Deliveries] /\ EarningsStats.platformCommission = g[Deliveries]
  <2>1. /\ EarningsStats.totalEarnings =
             FoldSet(LAMBDA d, n : n + platform[d] * PlatformEarning(d)["totalDeliveryPrice"], 0, Deliveries)
        /\ EarningsStats.platformCommission =
             FoldSet(LAMBDA d, n : n + platform[d] * PlatformEarning(d)["platformCommission"], 0, Deliveries)
    BY DEF EarningsStats
  <2>2. FoldSet(LAMBDA d, n : n + platform[d] * PlatformEarning(d)["totalDeliveryPrice"], 0, Deliveries)
          = f[Deliveries]
    BY Zenon DEF FoldSet, MapThenFoldSet
  <2>3. FoldSet(LAMBDA d, n : n + platform[d] * PlatformEarning(d)["platformCommission"], 0, Deliveries)
          = g[Deliveries]
    BY Zenon DEF FoldSet, MapThenFoldSet
  <2> QED
    BY <2>1, <2>2, <2>3
<1>2. /\ Numbers(a) /\ Numbers(b) /\ Numbers(Shares(platform))
      /\ DOMAIN a = Deliveries /\ DOMAIN b = Deliveries /\ DOMAIN Shares(platform) = Deliveries
      /\ IsFiniteSet(Deliveries)
  <2>1. \A d \in Deliveries : platform[d] * Price[d] \in Int /\ platform[d] * (Price[d] - Payout(d)) \in Int
    BY PayoutType
  <2> QED
    BY <2>1, SharesNumbers, EarningsAssumption DEF Numbers
<1>3. \A d \in Deliveries : a[d] = Shares(platform)[d] + b[d]
  <2> TAKE d \in Deliveries
  <2>1. platform[d] \in Int /\ Price[d] \in Int /\ Payout(d) \in Int
    BY PayoutType
  <2>2. \A x, y, z \in Int : x * y = x * z + x * (y - z)
    OBVIOUS
  <2>3. platform[d] * Price[d] = platform[d] * Payout(d) + platform[d] * (Price[d] - Payout(d))
    BY <2>1, <2>2
  <2> QED
    BY <2>3, SharesNumbers
<1>4. \A d \in Deliveries :
         /\ PlatformEarning(d)["totalDeliveryPrice"] = Price[d]
         /\ PlatformEarning(d)["platformCommission"] = Price[d] - Payout(d)
  BY DEF PlatformEarning
<1>5. \A s \in SUBSET Deliveries : s # {} => (CHOOSE x \in s : TRUE) \in Deliveries
  OBVIOUS
<1>6. \A it : A(it) <=> SetFolds(a, Deliveries, it)
  <2>1. ASSUME NEW s \in SUBSET Deliveries, s # {}
        PROVE  a[AnyOf(s)] = platform[AnyOf(s)] * PlatformEarning(AnyOf(s))["totalDeliveryPrice"]
    <3>1. PICK d \in Deliveries : d = AnyOf(s)
      BY <2>1, <1>5 DEF AnyOf
    <3> QED
      BY <3>1, <1>4
  <2> HIDE DEF a
  <2> QED
    BY <2>1 DEF SetFolds, AnyOf
<1>7. \A it : B(it) <=> SetFolds(b, Deliveries, it)
  <2>1. ASSUME NEW s \in SUBSET Deliveries, s # {}
        PROVE  b[AnyOf(s)] = platform[AnyOf(s)] * PlatformEarning(AnyOf(s))["platformCommission"]
    <3>1. PICK d \in Deliveries : d = AnyOf(s)
      BY <2>1, <1>5 DEF AnyOf
    <3> QED
      BY <3>1, <1>4
  <2> HIDE DEF b
  <2> QED
    BY <2>1 DEF SetFolds, AnyOf
<1> HIDE DEF a, b, A, B
<1>8. (\E it : A(it)) /\ (\E it : B(it))
  BY <1>2, <1>6, <1>7, SetFoldIsTotal
<1>9. A(f) /\ B(g)
  BY <1>8
<1>10. f[Deliveries] = Total(a, Deliveries) /\ g[Deliveries] = Total(b, Deliveries)
  BY <1>2, <1>6, <1>7, <1>9, SetFoldIsTotal
<1>11. Total(a, Deliveries) = Total(Shares(platform), Deliveries) + Total(b, Deliveries)
  BY <1>2, <1>3, TotalOfSums
<1>12. Total(Shares(platform), Deliveries) \in Int /\ Total(b, Deliveries) \in Int
  BY <1>2, TotalAdds
<1> QED
  BY <1>1, <1>10, <1>11, <1>12

-----------------------------------------------------------------------------
(* How records change. *)

Added(r, k, e) ==
    /\ k \in Seq(EarningType)
    /\ Len(r) + 1 \notin DOMAIN r /\ DOMAIN k = DOMAIN r \union {Len(r) + 1}
    /\ k[Len(r) + 1] = e
    /\ \A i \in DOMAIN r : k[i] = r[i]

Altered(r, k, i, e) ==
    /\ k \in Seq(EarningType)
    /\ i \in DOMAIN r /\ DOMAIN k = DOMAIN r
    /\ k[i] = e
    /\ \A j \in DOMAIN r \ {i} : k[j] = r[j]

Updated(r, k, w, s, v) ==
    /\ k \in Seq(EarningType)
    /\ DOMAIN k = DOMAIN r
    /\ \A i \in DOMAIN r :
          k[i] = IF r[i].status = "held" /\ r[i].ref = w
                 THEN [r[i] EXCEPT !.status = s, !.ref = v] ELSE r[i]

LEMMA RecordTyped ==
    ASSUME NEW r \in Seq(EarningType), NEW i \in DOMAIN r
    PROVE  /\ r[i] \in EarningType
           /\ r[i].del \in Deliveries /\ r[i].amount \in Nat \ {0}
           /\ r[i].status \in {"available", "held", "withdrawn"}
           /\ r[i].ref \in References \union {NoReference}
<1>1. r[i] \in EarningType
  OBVIOUS
<1> QED
  BY <1>1 DEF EarningType

LEMMA AppendAdds ==
    ASSUME NEW r \in Seq(EarningType), NEW e \in EarningType
    PROVE  Added(r, Append(r, e), e)
<1>1. Len(r) \in Nat /\ DOMAIN r = 1..Len(r)
  OBVIOUS
<1>2. /\ Append(r, e) \in Seq(EarningType) /\ Len(Append(r, e)) = Len(r) + 1
      /\ \A i \in 1..Len(r) : Append(r, e)[i] = r[i]
      /\ Append(r, e)[Len(r) + 1] = e
  OBVIOUS
<1>3. DOMAIN Append(r, e) = 1..(Len(r) + 1)
  BY <1>2
<1>4. 1..(Len(r) + 1) = 1..Len(r) \union {Len(r) + 1} /\ Len(r) + 1 \notin 1..Len(r)
  BY <1>1
<1> QED
  BY <1>1, <1>2, <1>3, <1>4 DEF Added

LEMMA ExceptAlters ==
    ASSUME NEW r \in Seq(EarningType), NEW i \in DOMAIN r, NEW e \in EarningType,
           NEW k, k = [r EXCEPT ![i] = e]
    PROVE  Altered(r, k, i, e)
<1>1. Len(r) \in Nat /\ DOMAIN r = 1..Len(r) /\ r \in [1..Len(r) -> EarningType]
  OBVIOUS
<1>2. k \in [1..Len(r) -> EarningType] /\ k[i] = e /\ \A j \in DOMAIN r \ {i} : k[j] = r[j]
  BY <1>1
<1>3. k \in Seq(EarningType)
  BY <1>1, <1>2
<1> QED
  BY <1>1, <1>2, <1>3 DEF Altered

LEMMA UpdateUpdates ==
    ASSUME records \in Seq(EarningType), NEW w, NEW s \in {"available", "held", "withdrawn"},
           NEW v \in References \union {NoReference}, UpdateHeld(w, s, v)
    PROVE  Updated(records, records', w, s, v)
<1>1. Len(records) \in Nat /\ DOMAIN records = 1..Len(records)
  OBVIOUS
<1>2. DOMAIN records' = DOMAIN records
  BY DEF UpdateHeld
<1>3. ASSUME NEW i \in DOMAIN records PROVE [records[i] EXCEPT !.status = s, !.ref = v] \in EarningType
  <2>1. records[i] \in EarningType
    OBVIOUS
  <2> QED
    BY <2>1 DEF EarningType
<1>4. \A i \in DOMAIN records : records'[i] \in EarningType
  BY <1>3, RecordTyped DEF UpdateHeld
<1>5. records' \in [1..Len(records) -> EarningType]
  BY <1>1, <1>2, <1>4 DEF UpdateHeld
<1>6. records' \in Seq(EarningType)
  BY <1>1, <1>5
<1> QED
  BY <1>2, <1>6 DEF Updated, UpdateHeld

-----------------------------------------------------------------------------
(* How requests change. *)

Deciding == Approving \union Rejecting
Labels   == {"idle"} \union Crediting \union Withdrawing \union Deciding

LEMMA LabelSets ==
    /\ Crediting = {"create", "increment", "commission"}
    /\ Withdrawing = {"balance", "find", "hold", "split", "deduct", "file"}
    /\ Deciding = {"payOut", "approve", "release", "restore", "reject"}
    /\ Labels = {"idle", "create", "increment", "commission",
                 "balance", "find", "hold", "split", "deduct", "file",
                 "payOut", "approve", "release", "restore", "reject"}
  BY DEF Crediting, Withdrawing, Deciding, Approving, Rejecting, Labels

RequestType ==
    [at : Labels, del : Deliveries \union {NoDelivery}, ref : References \union {NoReference},
     sum : Nat, left : Nat, todo : SUBSET [index : Nat, amount : Nat \ {0}]]

(* A request knows the delivery it credits, or the withdrawal it is about; *)
(* the earnings it found are among the records r; one that splits an       *)
(* earning has something to take of it.                                    *)
Fits(x, r) ==
    /\ x \in RequestType
    /\ x.at \in Crediting <=> x.del \in Deliveries
    /\ x.at \in Withdrawing \union Deciding <=> x.ref \in References
    /\ \A f \in x.todo : f.index \in DOMAIN r
    /\ x.at = "split" => x.todo # {} /\ x.left > 0

Base ==
    /\ TypeOK
    /\ DOMAIN req = Requests /\ req = [q \in Requests |-> req[q]]
    /\ \A q \in Requests : Fits(req[q], records)

(* Request q goes on as x, and the others stay. *)
Becomes(q, x) ==
    /\ DOMAIN req' = Requests /\ req' = [p \in Requests |-> req'[p]]
    /\ req'[q] = x
    /\ \A p \in Requests \ {q} : req'[p] = req[p]

LEMMA GoesOn ==
    ASSUME Base, NEW q \in Requests, NEW x, req' = [req EXCEPT ![q] = x]
    PROVE  Becomes(q, x)
  BY DEF Base, Becomes

LEMMA GoesTo ==
    ASSUME Base, NEW q \in Requests, NEW l, Goto(q, l)
    PROVE  Becomes(q, [req[q] EXCEPT !.at = l])
<1>1. req' = [req EXCEPT ![q] = [req[q] EXCEPT !.at = l]]
  BY DEF Goto, Base
<1> QED
  BY <1>1, GoesOn

LEMMA Finishes ==
    ASSUME Base, NEW q \in Requests, Finish(q)
    PROVE  Becomes(q, Idle)
  BY GoesOn DEF Finish

LEMMA RequestTyped ==
    ASSUME NEW x, NEW r, Fits(x, r)
    PROVE  /\ x.at \in Labels /\ x.del \in Deliveries \union {NoDelivery}
           /\ x.ref \in References \union {NoReference} /\ x.sum \in Nat /\ x.left \in Nat
           /\ \A f \in x.todo : f.index \in Nat /\ f.amount \in Nat \ {0}
  BY DEF Fits, RequestType

LEMMA IdleFits == \A r : Fits(Idle, r)
<1>1. /\ Idle.at = "idle" /\ Idle.del = NoDelivery /\ Idle.ref = NoReference
      /\ Idle.todo = {} /\ Idle \in RequestType
  BY LabelSets DEF Idle, RequestType
<1>2. "idle" \notin Crediting /\ "idle" \notin Withdrawing \union Deciding
  BY LabelSets
<1> QED
  BY <1>1, <1>2, EarningsAssumption DEF Fits

(* A request that goes to a label of the same kind still fits.             *)
LEMMA StillFits ==
    ASSUME NEW x, NEW r, Fits(x, r), NEW k, DOMAIN r \subseteq DOMAIN k, NEW l \in Labels,
           l \in Crediting <=> x.at \in Crediting,
           l \in Withdrawing \union Deciding <=> x.at \in Withdrawing \union Deciding,
           l = "split" => x.todo # {} /\ x.left > 0,
           NEW y, y = [x EXCEPT !.at = l]
    PROVE  /\ Fits(y, k) /\ y.at = l /\ y.del = x.del /\ y.ref = x.ref
           /\ y.sum = x.sum /\ y.left = x.left /\ y.todo = x.todo
<1>1. /\ y \in RequestType /\ y.at = l /\ y.del = x.del /\ y.ref = x.ref
      /\ y.sum = x.sum /\ y.left = x.left /\ y.todo = x.todo
  BY DEF Fits, RequestType
<1> QED
  BY <1>1 DEF Fits

(* The earning that the loop takes next is one of those that were found.   *)
LEMMA FoundIsFirst ==
    ASSUME NEW r \in Seq(EarningType), NEW q, Fits(req[q], r), req[q].todo # {}
    PROVE  /\ Found(q) \in req[q].todo
           /\ Found(q).index \in DOMAIN r /\ Found(q).index \in Nat /\ Found(q).amount \in Nat \ {0}
<1> DEFINE T == req[q].todo
           N == {f.index : f \in T}
           M == {Len(r) - n : n \in N}
<1>1. T \subseteq [index : Nat, amount : Nat \ {0}] /\ N \subseteq DOMAIN r
  BY DEF Fits, RequestType
<1>2. /\ Len(r) \in Nat /\ DOMAIN r = 1..Len(r)
      /\ N \subseteq 1..Len(r) /\ M \subseteq 0..Len(r) /\ M # {}
  <2>1. Len(r) \in Nat /\ DOMAIN r = 1..Len(r)
    OBVIOUS
  <2>2. N \subseteq 1..Len(r) /\ N # {}
    BY <1>1, <2>1
  <2>3. \A n \in 1..Len(r) : Len(r) - n \in 0..Len(r)
    BY <2>1
  <2>4. M \subseteq 0..Len(r) /\ M # {}
    <3> HIDE DEF N
    <3> QED
      BY <2>2, <2>3
  <2> QED
    BY <2>1, <2>2, <2>4
<1>3. Max(M) \in M /\ \A y \in M : Max(M) >= y
  <2>1. IsFiniteSet(M) /\ M \in SUBSET Int
    <3>1. IsFiniteSet(0..Len(r)) /\ 0..Len(r) \subseteq Int
      BY <1>2, FS_Interval
    <3> HIDE DEF M
    <3> QED
      BY <1>2, <3>1, FS_Subset
  <2> HIDE DEF M
  <2> QED
    BY <1>2, <2>1, HasLargest
<1>4. PICK n \in N : \A m \in N : n <= m
  <2>1. PICK n \in N : Len(r) - n = Max(M)
    BY <1>3
  <2>2. \A m \in N : Len(r) - m \in M
    OBVIOUS
  <2> HIDE DEF M, N
  <2>3. ASSUME NEW m \in N PROVE n <= m
    <3>1. Max(M) >= Len(r) - m
      BY <1>3, <2>2
    <3>2. m \in Int /\ n \in Int /\ Len(r) \in Int
      BY <1>2
    <3>3. Len(r) - n >= Len(r) - m
      BY <2>1, <3>1
    <3> QED
      BY <3>2, <3>3
  <2> QED
    BY <2>3
<1>5. PICK f \in T : f.index = n
  BY <1>4
<1>6. f \in T /\ \A g \in T : f.index <= g.index
  BY <1>4, <1>5
<1>7. Found(q) \in T
  BY <1>6 DEF Found
<1> QED
  BY <1>7, <1>1 DEF Fits

-----------------------------------------------------------------------------
(* What each action does, and that it keeps Base.                          *)

LEMMA BaseKeeps ==
    ASSUME Base, NEW q \in Requests, NEW x, Becomes(q, x), Fits(x, records'),
           records' \in Seq(EarningType), DOMAIN records \subseteq DOMAIN records',
           balance' \in Int, earned' \in Nat, platform' \in [Deliveries -> Nat],
           filed' \in [References -> {"none", "pending", "approved", "rejected"}],
           amount' \in [References -> Nat], reported' \in [Deliveries -> 0..MaxCredits],
           started' \subseteq References, faults' \in 0..MaxFaults,
           raced' \subseteq Deliveries, overlapped' \in BOOLEAN
    PROVE  Base'
<1>1. ASSUME NEW p \in Requests PROVE Fits(req'[p], records')
  <2>1. CASE p = q
    BY <2>1 DEF Becomes
  <2>2. CASE p # q
    <3>1. Fits(req[p], records) /\ req'[p] = req[p]
      BY <2>2 DEF Base, Becomes
    <3> QED
      BY <3>1 DEF Fits
  <2> QED
    BY <2>1, <2>2
<1>2. \A p \in Requests : req'[p].left \in Nat /\ req'[p].sum \in Nat
  BY <1>1, RequestTyped
<1>3. TypeOK'
  BY <1>2 DEF TypeOK
<1> QED
  BY <1>1, <1>3 DEF Base, Becomes

(* A request goes to another label, and keeps what it knows.               *)
Moves(q, l) ==
    /\ Becomes(q, req'[q])
    /\ req'[q].at = l
    /\ req'[q].del = req[q].del /\ req'[q].ref = req[q].ref /\ req'[q].sum = req[q].sum
    /\ req'[q].left = req[q].left /\ req'[q].todo = req[q].todo

LEMMA MovesOn ==
    ASSUME Base, NEW q \in Requests, NEW l \in Labels, Goto(q, l),
           l \in Crediting <=> req[q].at \in Crediting,
           l \in Withdrawing \union Deciding <=> req[q].at \in Withdrawing \union Deciding,
           l = "split" => req[q].todo # {} /\ req[q].left > 0,
           DOMAIN records \subseteq DOMAIN records'
    PROVE  Moves(q, l) /\ Fits(req'[q], records')
<1>1. Becomes(q, [req[q] EXCEPT !.at = l])
  BY GoesTo
<1>2. PICK y : y = [req[q] EXCEPT !.at = l]
  OBVIOUS
<1>3. Fits(req[q], records) /\ req'[q] = y /\ Becomes(q, y)
  BY <1>1, <1>2 DEF Base, Becomes
<1>4. /\ Fits(y, records') /\ y.at = l /\ y.del = req[q].del /\ y.ref = req[q].ref
      /\ y.sum = req[q].sum /\ y.left = req[q].left /\ y.todo = req[q].todo
  BY <1>2, <1>3, StillFits
<1> QED
  BY <1>3, <1>4 DEF Moves

(* What a step leaves alone.                                               *)
LEMMA BaseTypes ==
    ASSUME Base
    PROVE  /\ records \in Seq(EarningType)
           /\ balance \in Int /\ earned \in Nat /\ platform \in [Deliveries -> Nat]
           /\ filed \in [References -> {"none", "pending", "approved", "rejected"}]
           /\ amount \in [References -> Nat] /\ reported \in [Deliveries -> 0..MaxCredits]
           /\ started \subseteq References /\ faults \in 0..MaxFaults
           /\ raced \subseteq Deliveries /\ overlapped \in BOOLEAN
  BY DEF Base, TypeOK

LEMMA IncrementDoes ==
    ASSUME Base, NEW q \in Requests, IncrementBalance(q)
    PROVE  /\ Base' /\ At(q, "increment") /\ Moves(q, "commission")
           /\ balance' = balance + Payout(req[q].del) /\ earned' = earned + Payout(req[q].del)
           /\ UNCHANGED <<records, platform, filed, amount, reported, started, faults, raced, overlapped>>
<1>1. /\ req[q].at = "increment" /\ Fits(req[q], records) /\ Goto(q, "commission")
      /\ UNCHANGED <<records, platform, filed, amount, reported, started, faults, raced, overlapped>>
  BY DEF IncrementBalance, At, Base, history
<1>2. Moves(q, "commission") /\ Fits(req'[q], records')
  BY <1>1, LabelSets, MovesOn
<1>3. Becomes(q, req'[q])
  BY <1>2 DEF Moves
<1>4. req[q].del \in Deliveries /\ Payout(req[q].del) \in Nat
  BY <1>1, LabelSets, PayoutType DEF Fits
<1>5. balance' = balance + Payout(req[q].del) /\ earned' = earned + Payout(req[q].del)
  BY DEF IncrementBalance
<1>6. balance' \in Int /\ earned' \in Nat
  BY <1>4, <1>5, BaseTypes
<1>7. Base'
  BY <1>1, <1>2, <1>3, <1>6, BaseTypes, BaseKeeps
<1> QED
  BY <1>1, <1>2, <1>5, <1>7 DEF At

LEMMA CreateDoes ==
    ASSUME Base, NEW q \in Requests, CreateEarning(q)
    PROVE  /\ Base' /\ At(q, "create") /\ Moves(q, "increment") /\ req[q].del \in Deliveries
           /\ Added(records, records', Earning(req[q].del, Payout(req[q].del), "available", NoReference))
           /\ UNCHANGED <<balance, earned, platform, filed, amount, reported, started, faults, raced, overlapped>>
<1>1. /\ req[q].at = "create" /\ Fits(req[q], records) /\ Goto(q, "increment")
      /\ UNCHANGED <<balance, earned, platform, filed, amount, reported, started, faults, raced, overlapped>>
  BY DEF CreateEarning, At, Base, history
<1>2. req[q].del \in Deliveries /\ Payout(req[q].del) \in Nat \ {0}
  BY <1>1, LabelSets, PayoutType DEF Fits
<1>3. PICK e : e = Earning(req[q].del, Payout(req[q].del), "available", NoReference)
  OBVIOUS
<1>4. e \in EarningType /\ records' = Append(records, e)
  BY <1>2, <1>3 DEF CreateEarning, Earning, EarningType
<1>5. Added(records, records', e)
  BY <1>4, BaseTypes, AppendAdds
<1>6. records' \in Seq(EarningType) /\ DOMAIN records \subseteq DOMAIN records'
  BY <1>5 DEF Added
<1>7. Moves(q, "increment") /\ Fits(req'[q], records')
  BY <1>1, <1>6, LabelSets, MovesOn
<1>8. Base'
  <2>1. Becomes(q, req'[q])
    BY <1>7 DEF Moves
  <2> QED
    BY <1>1, <1>6, <1>7, <2>1, BaseTypes, BaseKeeps
<1> QED
  BY <1>1, <1>2, <1>3, <1>5, <1>7, <1>8 DEF At

LEMMA CommissionDoes ==
    ASSUME Base, NEW q \in Requests, CreateCommission(q)
    PROVE  /\ Base' /\ At(q, "commission") /\ Becomes(q, Idle) /\ req[q].del \in Deliveries
           /\ platform' = [platform EXCEPT ![req[q].del] = @ + 1]
           /\ UNCHANGED <<records, balance, earned, filed, amount, reported, started, faults, raced, overlapped>>
<1>1. /\ req[q].at = "commission" /\ Fits(req[q], records) /\ Finish(q)
      /\ platform' = [platform EXCEPT ![req[q].del] = @ + 1]
      /\ UNCHANGED <<records, balance, earned, filed, amount, reported, started, faults, raced, overlapped>>
  BY DEF CreateCommission, At, Base, history
<1>2. req[q].del \in Deliveries
  BY <1>1, LabelSets DEF Fits
<1>3. Becomes(q, Idle) /\ Fits(Idle, records')
  BY <1>1, Finishes, IdleFits
<1>4. platform' \in [Deliveries -> Nat]
  BY <1>1, <1>2, BaseTypes
<1>5. Base'
  BY <1>1, <1>3, <1>4, BaseTypes, BaseKeeps
<1> QED
  BY <1>1, <1>2, <1>3, <1>5 DEF At

(* A delivery that is credited already is left alone.                      *)
LEMMA StartCreditDoes ==
    ASSUME Base, NEW q \in Requests, NEW d \in Deliveries, StartCredit(q, d)
    PROVE  /\ Base' /\ At(q, "idle")
           /\ raced' = IF \E p \in Requests : req[p].del = d THEN raced \union {d} ELSE raced
           /\ \/ UNCHANGED req
              \/ /\ OfDelivery(records, d) = {}
                 /\ Becomes(q, req'[q]) /\ req'[q] = [Idle EXCEPT !.at = "create", !.del = d]
           /\ UNCHANGED <<records, balance, earned, platform, filed, amount, started, faults, overlapped>>
<1>1. /\ req[q].at = "idle" /\ Fits(req[q], records) /\ reported[d] < MaxCredits
      /\ reported' = [reported EXCEPT ![d] = @ + 1]
      /\ raced' = IF \E p \in Requests : req[p].del = d THEN raced \union {d} ELSE raced
      /\ UNCHANGED <<records, balance, earned, platform, filed, amount, started, faults, overlapped>>
  BY DEF StartCredit, Begin, At, Base, books
<1>2. reported' \in [Deliveries -> 0..MaxCredits] /\ raced' \subseteq Deliveries
  <2>1. reported \in [Deliveries -> 0..MaxCredits] /\ raced \subseteq Deliveries
    BY BaseTypes
  <2>2. reported[d] + 1 \in 0..MaxCredits
    <3>1. MaxCredits \in Nat /\ reported[d] \in 0..MaxCredits
      BY <2>1, EarningsAssumption
    <3> QED
      BY <1>1, <3>1
  <2>3. reported' \in [Deliveries -> 0..MaxCredits]
    BY <1>1, <2>1, <2>2
  <2>4. raced' \subseteq Deliveries
    BY <1>1, <2>1
  <2> QED
    BY <2>3, <2>4
<1>3. CASE \E i \in DOMAIN records : records[i].del = d
  <2>1. UNCHANGED req
    BY <1>3 DEF StartCredit
  <2>2. Becomes(q, req[q])
    BY <2>1 DEF Becomes, Base
  <2>3. Base'
    BY <1>1, <1>2, <2>2, BaseTypes, BaseKeeps
  <2> QED
    BY <1>1, <2>1, <2>3 DEF At
<1>4. CASE ~ \E i \in DOMAIN records : records[i].del = d
  <2> DEFINE x == [Idle EXCEPT !.at = "create", !.del = d]
  <2>1. req' = [req EXCEPT ![q] = x]
    BY <1>4 DEF StartCredit, Begin
  <2>2. Becomes(q, x)
    <3> HIDE DEF x
    <3> QED
      BY <2>1, GoesOn
  <2>3. /\ x \in RequestType /\ x.at = "create" /\ x.del = d /\ x.ref = NoReference /\ x.todo = {}
    BY LabelSets DEF RequestType, Idle
  <2>4. Fits(x, records')
    <3> HIDE DEF x
    <3> QED
      BY <2>3, LabelSets, EarningsAssumption DEF Fits
  <2>5. Base'
    <3> HIDE DEF x
    <3> QED
      BY <1>1, <1>2, <2>2, <2>4, BaseTypes, BaseKeeps
  <2>6. OfDelivery(records, d) = {}
    BY <1>4 DEF OfDelivery
  <2>7. req'[q] = x
    BY <2>2 DEF Becomes
  <2> QED
    BY <1>1, <2>2, <2>5, <2>6, <2>7 DEF At
<1> QED
  BY <1>3, <1>4

LEMMA StartWithdrawalDoes ==
    ASSUME Base, NEW q \in Requests, NEW w \in References, NEW n \in Amounts, StartWithdrawal(q, w, n)
    PROVE  /\ Base' /\ At(q, "idle") /\ Becomes(q, req'[q])
           /\ req'[q].at = "balance" /\ req'[q].ref = w /\ req'[q].sum = n /\ req'[q].left = n
           /\ req'[q].del = NoDelivery
           /\ w \notin started /\ \A v \in References : filed[v] # "pending"
           /\ started' = started \union {w}
           /\ overlapped' = (overlapped \/ Busy(Withdrawing))
           /\ UNCHANGED <<records, balance, earned, platform, filed, amount, reported, faults, raced>>
<1>1. /\ req[q].at = "idle" /\ started' = started \union {w}
      /\ overlapped' = (overlapped \/ Busy(Withdrawing))
      /\ w \notin started /\ \A v \in References : filed[v] # "pending"
      /\ UNCHANGED <<records, balance, earned, platform, filed, amount, reported, faults, raced>>
  BY DEF StartWithdrawal, Begin, At, books
<1>2. started' \subseteq References /\ overlapped' \in BOOLEAN
  BY <1>1, BaseTypes DEF Busy
<1> DEFINE x == [Idle EXCEPT !.at = "balance", !.ref = w, !.sum = n, !.left = n]
<1>3. req' = [req EXCEPT ![q] = x]
  BY DEF StartWithdrawal, Begin
<1>4. /\ x \in RequestType /\ x.at = "balance" /\ x.del = NoDelivery /\ x.ref = w /\ x.todo = {}
  BY LabelSets, EarningsAssumption DEF RequestType, Idle
<1>5. Becomes(q, x) /\ Fits(x, records')
  <2> HIDE DEF x
  <2> QED
    BY <1>3, <1>4, GoesOn, LabelSets, EarningsAssumption DEF Fits
<1>6. Base'
  <2> HIDE DEF x
  <2> QED
    BY <1>1, <1>2, <1>5, BaseTypes, BaseKeeps
<1>7. req'[q] = x
  BY <1>5 DEF Becomes
<1>8. x.sum = n /\ x.left = n
  BY DEF Idle
<1> HIDE DEF x
<1>9. /\ req'[q].at = "balance" /\ req'[q].ref = w /\ req'[q].sum = n /\ req'[q].left = n
      /\ req'[q].del = NoDelivery /\ Becomes(q, req'[q])
  BY <1>4, <1>5, <1>7, <1>8
<1> QED
  BY <1>1, <1>6, <1>9 DEF At

LEMMA CheckDoes ==
    ASSUME Base, NEW q \in Requests, CheckBalance(q)
    PROVE  /\ Base' /\ At(q, "balance") /\ req[q].ref \in References
           /\ \/ /\ Moves(q, "find")
                 /\ req[q].sum <= SumOf(Available) /\ req[q].sum >= MinimumAmount
              \/ Becomes(q, Idle)
           /\ UNCHANGED <<records, balance, earned, platform, filed, amount, reported, started, faults, raced, overlapped>>
<1>1. /\ req[q].at = "balance" /\ Fits(req[q], records)
      /\ UNCHANGED <<records, balance, earned, platform, filed, amount, reported, started, faults, raced, overlapped>>
  BY DEF CheckBalance, At, Base, history, books
<1>2. req[q].ref \in References
  BY <1>1, LabelSets DEF Fits
<1>3. CASE req[q].sum <= SumOf(Available) /\ req[q].sum >= MinimumAmount
  <2>1. Goto(q, "find")
    BY <1>3 DEF CheckBalance
  <2>2. Moves(q, "find") /\ Fits(req'[q], records')
    BY <1>1, <2>1, LabelSets, MovesOn
  <2>3. Becomes(q, req'[q])
    BY <2>2 DEF Moves
  <2>4. Base'
    BY <1>1, <2>2, <2>3, BaseTypes, BaseKeeps
  <2> QED
    BY <1>1, <1>2, <1>3, <2>2, <2>4 DEF At
<1>4. CASE ~ (req[q].sum <= SumOf(Available) /\ req[q].sum >= MinimumAmount)
  <2>1. Finish(q)
    BY <1>4 DEF CheckBalance
  <2>2. Becomes(q, Idle) /\ Fits(Idle, records')
    BY <2>1, Finishes, IdleFits
  <2>3. Base'
    BY <1>1, <2>2, BaseTypes, BaseKeeps
  <2> QED
    BY <1>1, <1>2, <2>2, <2>3 DEF At
<1> QED
  BY <1>3, <1>4

LEMMA FindDoes ==
    ASSUME Base, NEW q \in Requests, FindEarnings(q)
    PROVE  /\ Base' /\ At(q, "find") /\ req[q].ref \in References
           /\ Becomes(q, req'[q]) /\ req'[q].at = "hold"
           /\ req'[q].del = req[q].del /\ req'[q].ref = req[q].ref
           /\ req'[q].sum = req[q].sum /\ req'[q].left = req[q].left
           /\ req'[q].todo = {[index |-> i, amount |-> records[i].amount] : i \in With(records, "available")}
           /\ UNCHANGED <<records, balance, earned, platform, filed, amount, reported, started, faults, raced, overlapped>>
<1>1. /\ req[q].at = "find" /\ Fits(req[q], records)
      /\ UNCHANGED <<records, balance, earned, platform, filed, amount, reported, started, faults, raced, overlapped>>
  BY DEF FindEarnings, At, Base, history, books
<1>2. req[q].ref \in References
  BY <1>1, LabelSets DEF Fits
<1>3. PICK t : t = {[index |-> i, amount |-> records[i].amount] : i \in With(records, "available")}
  OBVIOUS
<1>4. Where(Available) = With(records, "available")
  BY DEF Where, Available, With
<1> DEFINE x == [req[q] EXCEPT !.at = "hold", !.todo = t]
<1>5. req' = [req EXCEPT ![q].at = "hold", ![q].todo = t]
  BY <1>3, <1>4 DEF FindEarnings
<1>6. req' = [req EXCEPT ![q] = x]
  BY <1>5 DEF Base
<1>7. /\ t \subseteq [index : Nat, amount : Nat \ {0}] /\ \A f \in t : f.index \in DOMAIN records
  <2>1. \A i \in With(records, "available") :
           i \in DOMAIN records /\ i \in Nat /\ records[i].amount \in Nat \ {0}
    BY BaseTypes, WorthNumbers, RecordTyped DEF With
  <2> QED
    BY <1>3, <2>1
<1>8. /\ x \in RequestType /\ x.at = "hold" /\ x.del = req[q].del /\ x.ref = req[q].ref
      /\ x.sum = req[q].sum /\ x.left = req[q].left /\ x.todo = t
  BY <1>1, <1>7, LabelSets DEF RequestType, Fits
<1>9. Becomes(q, x) /\ Fits(x, records')
  <2> HIDE DEF x
  <2> QED
    BY <1>1, <1>6, <1>7, <1>8, GoesOn, LabelSets DEF Fits
<1>10. Base'
  <2> HIDE DEF x
  <2> QED
    BY <1>1, <1>9, BaseTypes, BaseKeeps
<1>11. req'[q] = x
  BY <1>9 DEF Becomes
<1> QED
  <2> HIDE DEF x
  <2> QED
    BY <1>1, <1>2, <1>3, <1>8, <1>9, <1>10, <1>11 DEF At

LEMMA HoldWholeDoes ==
    ASSUME Base, NEW q \in Requests, HoldWhole(q)
    PROVE  /\ Base' /\ At(q, "hold") /\ req[q].ref \in References /\ req[q].todo # {}
           /\ Found(q).amount <= req[q].left
           /\ Altered(records, records', Found(q).index,
                      [records[Found(q).index] EXCEPT !.status = "held", !.ref = req[q].ref])
           /\ Becomes(q, req'[q]) /\ req'[q].at = "hold"
           /\ req'[q].del = req[q].del /\ req'[q].ref = req[q].ref /\ req'[q].sum = req[q].sum
           /\ req'[q].left = req[q].left - Found(q).amount
           /\ req'[q].todo = req[q].todo \ {Found(q)}
           /\ UNCHANGED <<balance, earned, platform, filed, amount, reported, started, faults, raced, overlapped>>
<1>1. /\ req[q].at = "hold" /\ Fits(req[q], records) /\ req[q].todo # {}
      /\ Found(q).amount <= req[q].left
      /\ UNCHANGED <<balance, earned, platform, filed, amount, reported, started, faults, raced, overlapped>>
  BY DEF HoldWhole, At, Base, history
<1>2. req[q].ref \in References
  BY <1>1, LabelSets DEF Fits
<1>3. PICK f : f = Found(q)
  OBVIOUS
<1>4. /\ f \in req[q].todo /\ f.index \in DOMAIN records /\ f.index \in Nat /\ f.amount \in Nat \ {0}
  BY <1>1, <1>3, BaseTypes, FoundIsFirst
<1>5. PICK e : e = [records[f.index] EXCEPT !.status = "held", !.ref = req[q].ref]
  OBVIOUS
<1>6. e \in EarningType
  <2>1. records[f.index] \in EarningType
    BY <1>4, BaseTypes, RecordTyped
  <2> QED
    BY <1>2, <1>5, <2>1 DEF EarningType
<1>7. records' = [records EXCEPT ![f.index] = e]
  <2>1. records' = [records EXCEPT ![f.index].status = "held", ![f.index].ref = req[q].ref]
    BY <1>3 DEF HoldWhole
  <2> QED
    BY <1>4, <1>5, <2>1, BaseTypes
<1>8. Altered(records, records', f.index, e)
  BY <1>4, <1>6, <1>7, BaseTypes, ExceptAlters
<1>9. records' \in Seq(EarningType) /\ DOMAIN records' = DOMAIN records
  BY <1>8 DEF Altered
<1> DEFINE x == [req[q] EXCEPT !.todo = req[q].todo \ {f}, !.left = req[q].left - f.amount]
<1>10. req' = [req EXCEPT ![q] = x]
  BY <1>3 DEF Base, HoldWhole
<1>11. req[q].left - f.amount \in Nat
  <2>1. req[q].left \in Nat /\ f.amount <= req[q].left
    BY <1>1, <1>3, RequestTyped
  <2> QED
    BY <1>4, <2>1
<1>12. /\ x \in RequestType /\ x.at = "hold" /\ x.del = req[q].del /\ x.ref = req[q].ref
      /\ x.sum = req[q].sum /\ x.left = req[q].left - f.amount /\ x.todo = req[q].todo \ {f}
  BY <1>1, <1>11 DEF RequestType, Fits
<1> HIDE DEF x
<1>13. Becomes(q, x) /\ Fits(x, records')
  BY <1>1, <1>9, <1>10, <1>12, GoesOn, LabelSets DEF Fits
<1>14. Base'
  BY <1>1, <1>9, <1>13, BaseTypes, BaseKeeps
<1>15. req'[q] = x
  BY <1>13 DEF Becomes
<1> QED
  BY <1>1, <1>2, <1>3, <1>5, <1>8, <1>12, <1>13, <1>14, <1>15 DEF At

LEMMA HoldPartDoes ==
    ASSUME Base, NEW q \in Requests, HoldPart(q)
    PROVE  /\ Base' /\ At(q, "hold") /\ req[q].ref \in References /\ req[q].todo # {}
           /\ Found(q).amount > req[q].left /\ req[q].left > 0
           /\ Altered(records, records', Found(q).index,
                      [records[Found(q).index] EXCEPT !.amount = Found(q).amount - req[q].left])
           /\ Moves(q, "split")
           /\ UNCHANGED <<balance, earned, platform, filed, amount, reported, started, faults, raced, overlapped>>
<1>1. /\ req[q].at = "hold" /\ Fits(req[q], records) /\ req[q].todo # {} /\ Goto(q, "split")
      /\ Found(q).amount > req[q].left /\ req[q].left > 0
      /\ UNCHANGED <<balance, earned, platform, filed, amount, reported, started, faults, raced, overlapped>>
  BY DEF HoldPart, At, Base, history
<1>2. req[q].ref \in References
  BY <1>1, LabelSets DEF Fits
<1>3. PICK f : f = Found(q)
  OBVIOUS
<1>4. /\ f \in req[q].todo /\ f.index \in DOMAIN records /\ f.amount \in Nat \ {0}
  BY <1>1, <1>3, BaseTypes, FoundIsFirst
<1>5. f.amount - req[q].left \in Nat \ {0}
  <2>1. req[q].left \in Nat /\ f.amount > req[q].left
    BY <1>1, <1>3, RequestTyped
  <2> QED
    BY <1>4, <2>1
<1>6. PICK e : e = [records[f.index] EXCEPT !.amount = f.amount - req[q].left]
  OBVIOUS
<1>7. e \in EarningType
  <2>1. records[f.index] \in EarningType
    BY <1>4, BaseTypes, RecordTyped
  <2> QED
    BY <1>5, <1>6, <2>1 DEF EarningType
<1>8. records' = [records EXCEPT ![f.index] = e]
  <2>1. records' = [records EXCEPT ![f.index].amount = f.amount - req[q].left]
    BY <1>3 DEF HoldPart
  <2> QED
    BY <1>4, <1>6, <2>1, BaseTypes
<1>9. Altered(records, records', f.index, e)
  BY <1>4, <1>7, <1>8, BaseTypes, ExceptAlters
<1>10. records' \in Seq(EarningType) /\ DOMAIN records' = DOMAIN records
  BY <1>9 DEF Altered
<1>11. Moves(q, "split") /\ Fits(req'[q], records')
  BY <1>1, <1>10, LabelSets, MovesOn
<1>12. Becomes(q, req'[q])
  BY <1>11 DEF Moves
<1>13. Base'
  BY <1>1, <1>10, <1>11, <1>12, BaseTypes, BaseKeeps
<1> QED
  BY <1>1, <1>2, <1>3, <1>6, <1>9, <1>11, <1>13 DEF At

LEMMA CreateHeldDoes ==
    ASSUME Base, NEW q \in Requests, CreateHeld(q)
    PROVE  /\ Base' /\ At(q, "split") /\ req[q].ref \in References
           /\ req[q].todo # {} /\ req[q].left > 0 /\ Found(q).index \in DOMAIN records
           /\ Added(records, records',
                    Earning(records[Found(q).index].del, req[q].left, "held", req[q].ref))
           /\ Becomes(q, req'[q]) /\ req'[q].at = "deduct"
           /\ req'[q].del = req[q].del /\ req'[q].ref = req[q].ref /\ req'[q].sum = req[q].sum
           /\ req'[q].left = 0
           /\ UNCHANGED <<balance, earned, platform, filed, amount, reported, started, faults, raced, overlapped>>
<1>1. /\ req[q].at = "split" /\ Fits(req[q], records)
      /\ UNCHANGED <<balance, earned, platform, filed, amount, reported, started, faults, raced, overlapped>>
  BY DEF CreateHeld, At, Base, history
<1>2. req[q].ref \in References /\ req[q].todo # {} /\ req[q].left > 0 /\ req[q].left \in Nat
  BY <1>1, LabelSets, RequestTyped DEF Fits
<1>3. Found(q).index \in DOMAIN records
  BY <1>1, <1>2, BaseTypes, FoundIsFirst
<1>4. PICK e : e = Earning(records[Found(q).index].del, req[q].left, "held", req[q].ref)
  OBVIOUS
<1>5. e \in EarningType /\ records' = Append(records, e)
  <2>1. records[Found(q).index].del \in Deliveries
    BY <1>3, BaseTypes, RecordTyped
  <2>2. req[q].left \in Nat \ {0}
    BY <1>2
  <2> QED
    BY <1>2, <1>4, <2>1, <2>2 DEF CreateHeld, Earning, EarningType
<1>6. Added(records, records', e)
  BY <1>5, BaseTypes, AppendAdds
<1>7. records' \in Seq(EarningType) /\ DOMAIN records \subseteq DOMAIN records'
  BY <1>6 DEF Added
<1> DEFINE x == [req[q] EXCEPT !.at = "deduct", !.left = 0]
<1>8. req' = [req EXCEPT ![q] = x]
  BY DEF Base, CreateHeld
<1>9. /\ x \in RequestType /\ x.at = "deduct" /\ x.del = req[q].del /\ x.ref = req[q].ref
      /\ x.sum = req[q].sum /\ x.left = 0 /\ x.todo = req[q].todo
  BY <1>1, LabelSets DEF RequestType, Fits
<1> HIDE DEF x
<1>10. Becomes(q, x) /\ Fits(x, records')
  BY <1>1, <1>7, <1>8, <1>9, GoesOn, LabelSets DEF Fits
<1>11. Base'
  BY <1>1, <1>7, <1>10, BaseTypes, BaseKeeps
<1>12. req'[q] = x
  BY <1>10 DEF Becomes
<1> QED
  BY <1>1, <1>2, <1>3, <1>4, <1>6, <1>9, <1>10, <1>11, <1>12 DEF At

LEMMA HeldAllDoes ==
    ASSUME Base, NEW q \in Requests, HeldAll(q)
    PROVE  /\ Base' /\ At(q, "hold") /\ Moves(q, "deduct") /\ req[q].ref \in References
           /\ req[q].todo = {} \/ req[q].left = 0
           /\ UNCHANGED <<records, balance, earned, platform, filed, amount, reported, started, faults, raced, overlapped>>
<1>1. /\ req[q].at = "hold" /\ Fits(req[q], records) /\ Goto(q, "deduct")
      /\ req[q].todo = {} \/ req[q].left = 0
      /\ UNCHANGED <<records, balance, earned, platform, filed, amount, reported, started, faults, raced, overlapped>>
  BY DEF HeldAll, At, Base, history, books
<1>2. req[q].ref \in References
  BY <1>1, LabelSets DEF Fits
<1>3. Moves(q, "deduct") /\ Fits(req'[q], records')
  BY <1>1, LabelSets, MovesOn
<1>4. Becomes(q, req'[q])
  BY <1>3 DEF Moves
<1>5. Base'
  BY <1>1, <1>3, <1>4, BaseTypes, BaseKeeps
<1> QED
  BY <1>1, <1>2, <1>3, <1>5 DEF At

LEMMA DeductDoes ==
    ASSUME Base, NEW q \in Requests, DeductBalance(q)
    PROVE  /\ Base' /\ At(q, "deduct") /\ Moves(q, "file") /\ req[q].ref \in References
           /\ balance' = balance - req[q].sum
           /\ UNCHANGED <<records, earned, platform, filed, amount, reported, started, faults, raced, overlapped>>
<1>1. /\ req[q].at = "deduct" /\ Fits(req[q], records) /\ Goto(q, "file")
      /\ balance' = balance - req[q].sum
      /\ UNCHANGED <<records, earned, platform, filed, amount, reported, started, faults, raced, overlapped>>
  BY DEF DeductBalance, At, Base, history
<1>2. req[q].ref \in References
  BY <1>1, LabelSets DEF Fits
<1>3. Moves(q, "file") /\ Fits(req'[q], records')
  BY <1>1, LabelSets, MovesOn
<1>4. Becomes(q, req'[q])
  BY <1>3 DEF Moves
<1>5. balance' \in Int
  BY <1>1, BaseTypes, RequestTyped
<1>6. Base'
  BY <1>1, <1>3, <1>4, <1>5, BaseTypes, BaseKeeps
<1> QED
  BY <1>1, <1>2, <1>3, <1>6 DEF At

LEMMA FileDoes ==
    ASSUME Base, NEW q \in Requests, FileRequest(q)
    PROVE  /\ Base' /\ At(q, "file") /\ Becomes(q, Idle) /\ req[q].ref \in References
           /\ filed' = [filed EXCEPT ![req[q].ref] = "pending"]
           /\ amount' = [amount EXCEPT ![req[q].ref] = req[q].sum]
           /\ UNCHANGED <<records, balance, earned, platform, reported, started, faults, raced, overlapped>>
<1>1. /\ req[q].at = "file" /\ Fits(req[q], records) /\ Finish(q)
      /\ filed' = [filed EXCEPT ![req[q].ref] = "pending"]
      /\ amount' = [amount EXCEPT ![req[q].ref] = req[q].sum]
      /\ UNCHANGED <<records, balance, earned, platform, reported, started, faults, raced, overlapped>>
  BY DEF FileRequest, At, Base, history
<1>2. req[q].ref \in References
  BY <1>1, LabelSets DEF Fits
<1>3. Becomes(q, Idle) /\ Fits(Idle, records')
  BY <1>1, Finishes, IdleFits
<1>4. /\ filed' \in [References -> {"none", "pending", "approved", "rejected"}]
      /\ amount' \in [References -> Nat]
  BY <1>1, <1>2, BaseTypes, RequestTyped
<1>5. Base'
  BY <1>1, <1>3, <1>4, BaseTypes, BaseKeeps
<1> QED
  BY <1>1, <1>2, <1>3, <1>5 DEF At

(* An admin decides. *)
LEMMA DecideDoes ==
    ASSUME Base, NEW q \in Requests, NEW w \in References, NEW l,
           l = "payOut" \/ l = "release", Decide(q, w, l)
    PROVE  /\ Base' /\ At(q, "idle") /\ Becomes(q, req'[q])
           /\ req'[q].at = l /\ req'[q].ref = w /\ req'[q].del = NoDelivery
           /\ filed[w] = "pending"
           /\ overlapped' = (overlapped \/ Busy(Deciding))
           /\ UNCHANGED <<records, balance, earned, platform, filed, amount, reported, started, faults, raced>>
<1>1. /\ req[q].at = "idle" /\ filed[w] = "pending"
      /\ overlapped' = (overlapped \/ Busy(Deciding))
      /\ UNCHANGED <<records, balance, earned, platform, filed, amount, reported, started, faults, raced>>
  BY DEF Decide, Begin, At, books, Deciding
<1>2. overlapped' \in BOOLEAN
  BY <1>1, BaseTypes DEF Busy
<1> DEFINE x == [Idle EXCEPT !.at = l, !.ref = w]
<1>3. req' = [req EXCEPT ![q] = x]
  BY DEF Decide, Begin
<1>4. /\ x \in RequestType /\ x.at = l /\ x.del = NoDelivery /\ x.ref = w /\ x.todo = {}
  BY LabelSets, EarningsAssumption DEF RequestType, Idle
<1>5. Becomes(q, x) /\ Fits(x, records')
  <2> HIDE DEF x
  <2> QED
    BY <1>3, <1>4, GoesOn, LabelSets, EarningsAssumption DEF Fits
<1>6. Base'
  <2> HIDE DEF x
  <2> QED
    BY <1>1, <1>2, <1>5, BaseTypes, BaseKeeps
<1>7. req'[q] = x
  BY <1>5 DEF Becomes
<1> HIDE DEF x
<1>8. /\ req'[q].at = l /\ req'[q].ref = w /\ req'[q].del = NoDelivery
      /\ Becomes(q, req'[q])
  BY <1>4, <1>5, <1>7
<1> QED
  BY <1>1, <1>6, <1>8 DEF At

LEMMA PayOutDoes ==
    ASSUME Base, NEW q \in Requests, PayOut(q)
    PROVE  /\ Base' /\ At(q, "payOut") /\ Moves(q, "approve") /\ req[q].ref \in References
           /\ Updated(records, records', req[q].ref, "withdrawn", req[q].ref)
           /\ UNCHANGED <<balance, earned, platform, filed, amount, reported, started, faults, raced, overlapped>>
<1>1. /\ req[q].at = "payOut" /\ Fits(req[q], records) /\ Goto(q, "approve")
      /\ UpdateHeld(req[q].ref, "withdrawn", req[q].ref)
      /\ UNCHANGED <<balance, earned, platform, filed, amount, reported, started, faults, raced, overlapped>>
  BY DEF PayOut, At, Base, history
<1>2. req[q].ref \in References
  BY <1>1, LabelSets DEF Fits
<1>3. Updated(records, records', req[q].ref, "withdrawn", req[q].ref)
  <2>1. PICK w \in References : w = req[q].ref
    BY <1>2
  <2> QED
    BY <1>1, <2>1, BaseTypes, UpdateUpdates
<1>4. records' \in Seq(EarningType) /\ DOMAIN records' = DOMAIN records
  BY <1>3 DEF Updated
<1>5. Moves(q, "approve") /\ Fits(req'[q], records')
  BY <1>1, <1>4, LabelSets, MovesOn
<1>6. Becomes(q, req'[q])
  BY <1>5 DEF Moves
<1>7. Base'
  BY <1>1, <1>4, <1>5, <1>6, BaseTypes, BaseKeeps
<1> QED
  BY <1>1, <1>2, <1>3, <1>5, <1>7 DEF At

LEMMA ApproveDoes ==
    ASSUME Base, NEW q \in Requests, Approve(q)
    PROVE  /\ Base' /\ At(q, "approve") /\ Becomes(q, Idle) /\ req[q].ref \in References
           /\ filed' = [filed EXCEPT ![req[q].ref] = "approved"]
           /\ UNCHANGED <<records, balance, earned, platform, amount, reported, started, faults, raced, overlapped>>
<1>1. /\ req[q].at = "approve" /\ Fits(req[q], records) /\ Finish(q)
      /\ filed' = [filed EXCEPT ![req[q].ref] = "approved"]
      /\ UNCHANGED <<records, balance, earned, platform, amount, reported, started, faults, raced, overlapped>>
  BY DEF Approve, At, Base, history
<1>2. req[q].ref \in References
  BY <1>1, LabelSets DEF Fits
<1>3. Becomes(q, Idle) /\ Fits(Idle, records')
  BY <1>1, Finishes, IdleFits
<1>4. filed' \in [References -> {"none", "pending", "approved", "rejected"}]
  BY <1>1, <1>2, BaseTypes
<1>5. Base'
  BY <1>1, <1>3, <1>4, BaseTypes, BaseKeeps
<1> QED
  BY <1>1, <1>2, <1>3, <1>5 DEF At

LEMMA ReleaseDoes ==
    ASSUME Base, NEW q \in Requests, ReleaseHeld(q)
    PROVE  /\ Base' /\ At(q, "release") /\ Moves(q, "restore") /\ req[q].ref \in References
           /\ Updated(records, records', req[q].ref, "available", NoReference)
           /\ UNCHANGED <<balance, earned, platform, filed, amount, reported, started, faults, raced, overlapped>>
<1>1. /\ req[q].at = "release" /\ Fits(req[q], records) /\ Goto(q, "restore")
      /\ UpdateHeld(req[q].ref, "available", NoReference)
      /\ UNCHANGED <<balance, earned, platform, filed, amount, reported, started, faults, raced, overlapped>>
  BY DEF ReleaseHeld, At, Base, history
<1>2. req[q].ref \in References
  BY <1>1, LabelSets DEF Fits
<1>3. Updated(records, records', req[q].ref, "available", NoReference)
  <2>1. PICK w \in References : w = req[q].ref
    BY <1>2
  <2> QED
    BY <1>1, <2>1, BaseTypes, UpdateUpdates
<1>4. records' \in Seq(EarningType) /\ DOMAIN records' = DOMAIN records
  BY <1>3 DEF Updated
<1>5. Moves(q, "restore") /\ Fits(req'[q], records')
  BY <1>1, <1>4, LabelSets, MovesOn
<1>6. Becomes(q, req'[q])
  BY <1>5 DEF Moves
<1>7. Base'
  BY <1>1, <1>4, <1>5, <1>6, BaseTypes, BaseKeeps
<1> QED
  BY <1>1, <1>2, <1>3, <1>5, <1>7 DEF At

LEMMA RestoreDoes ==
    ASSUME Base, NEW q \in Requests, RestoreBalance(q)
    PROVE  /\ Base' /\ At(q, "restore") /\ Moves(q, "reject") /\ req[q].ref \in References
           /\ balance' = balance + amount[req[q].ref]
           /\ UNCHANGED <<records, earned, platform, filed, amount, reported, started, faults, raced, overlapped>>
<1>1. /\ req[q].at = "restore" /\ Fits(req[q], records) /\ Goto(q, "reject")
      /\ balance' = balance + amount[req[q].ref]
      /\ UNCHANGED <<records, earned, platform, filed, amount, reported, started, faults, raced, overlapped>>
  BY DEF RestoreBalance, At, Base, history
<1>2. req[q].ref \in References
  BY <1>1, LabelSets DEF Fits
<1>3. Moves(q, "reject") /\ Fits(req'[q], records')
  BY <1>1, LabelSets, MovesOn
<1>4. Becomes(q, req'[q])
  BY <1>3 DEF Moves
<1>5. balance' \in Int
  BY <1>1, <1>2, BaseTypes
<1>6. Base'
  BY <1>1, <1>3, <1>4, <1>5, BaseTypes, BaseKeeps
<1> QED
  BY <1>1, <1>2, <1>3, <1>6 DEF At

LEMMA RejectDoes ==
    ASSUME Base, NEW q \in Requests, Reject(q)
    PROVE  /\ Base' /\ At(q, "reject") /\ Becomes(q, Idle) /\ req[q].ref \in References
           /\ filed' = [filed EXCEPT ![req[q].ref] = "rejected"]
           /\ UNCHANGED <<records, balance, earned, platform, amount, reported, started, faults, raced, overlapped>>
<1>1. /\ req[q].at = "reject" /\ Fits(req[q], records) /\ Finish(q)
      /\ filed' = [filed EXCEPT ![req[q].ref] = "rejected"]
      /\ UNCHANGED <<records, balance, earned, platform, amount, reported, started, faults, raced, overlapped>>
  BY DEF Reject, At, Base, history
<1>2. req[q].ref \in References
  BY <1>1, LabelSets DEF Fits
<1>3. Becomes(q, Idle) /\ Fits(Idle, records')
  BY <1>1, Finishes, IdleFits
<1>4. filed' \in [References -> {"none", "pending", "approved", "rejected"}]
  BY <1>1, <1>2, BaseTypes
<1>5. Base'
  BY <1>1, <1>3, <1>4, BaseTypes, BaseKeeps
<1> QED
  BY <1>1, <1>2, <1>3, <1>5 DEF At

LEMMA FailDoes ==
    ASSUME Base, NEW q \in Requests, Fail(q)
    PROVE  /\ Base' /\ Becomes(q, Idle) /\ faults' = faults + 1 /\ faults \in Nat
           /\ UNCHANGED <<records, balance, earned, platform, filed, amount, reported, started, raced, overlapped>>
<1>1. /\ Finish(q) /\ faults' = faults + 1 /\ faults < MaxFaults
      /\ UNCHANGED <<records, balance, earned, platform, filed, amount, reported, started, raced, overlapped>>
  BY DEF Fail, books
<1>2. Becomes(q, Idle) /\ Fits(Idle, records')
  BY <1>1, Finishes, IdleFits
<1>3. faults \in Nat /\ faults' \in 0..MaxFaults
  BY <1>1, BaseTypes, EarningsAssumption
<1>4. Base'
  BY <1>1, <1>2, <1>3, BaseTypes, BaseKeeps
<1> QED
  BY <1>1, <1>2, <1>3, <1>4

-----------------------------------------------------------------------------
(* Types. *)

LEMMA BaseInit == Init => Base
<1> SUFFICES ASSUME Init PROVE Base
  OBVIOUS
<1>1. \A q \in Requests : req[q] = Idle
  BY DEF Init
<1>2. \A q \in Requests : Fits(req[q], records) /\ req[q].left \in Nat /\ req[q].sum \in Nat
  BY <1>1, IdleFits DEF Idle
<1>3. DOMAIN req = Requests /\ req = [q \in Requests |-> req[q]]
  BY DEF Init
<1>4. /\ records = <<>> /\ balance = 0 /\ earned = 0 /\ started = {} /\ faults = 0 /\ raced = {}
      /\ overlapped = FALSE /\ filed = [w \in References |-> "none"]
      /\ platform = [d \in Deliveries |-> 0] /\ amount = [w \in References |-> 0]
      /\ reported = [d \in Deliveries |-> 0]
  BY DEF Init
<1>5. MaxCredits \in Nat /\ MaxFaults \in Nat
  BY EarningsAssumption
<1>6. TypeOK
  <2>1. records \in Seq(EarningType)
    BY <1>4
  <2>2. /\ balance \in Int /\ earned \in Nat /\ platform \in [Deliveries -> Nat]
        /\ amount \in [References -> Nat] /\ started \subseteq References /\ raced \subseteq Deliveries
        /\ filed \in [References -> {"none", "pending", "approved", "rejected"}]
    BY <1>4
  <2>3. reported \in [Deliveries -> 0..MaxCredits] /\ faults \in 0..MaxFaults
    BY <1>4, <1>5
  <2>4. overlapped \in BOOLEAN
    BY <1>4
  <2> QED
    BY <1>2, <2>1, <2>2, <2>3, <2>4 DEF TypeOK
<1> QED
  BY <1>2, <1>3, <1>6 DEF Base

LEMMA BaseStep == Base /\ [Next]_vars => Base'
<1> SUFFICES ASSUME Base, [Next]_vars PROVE Base'
  OBVIOUS
<1>1. CASE UNCHANGED vars
  BY <1>1 DEF vars, books, history, Base, TypeOK
<1>2. ASSUME NEW q \in Requests, Credit(q) PROVE Base'
  BY <1>2, CreateDoes, IncrementDoes, CommissionDoes DEF Credit
<1>3. ASSUME NEW q \in Requests, Withdraw(q) PROVE Base'
  BY <1>3, CheckDoes, FindDoes, HoldWholeDoes, HoldPartDoes, CreateHeldDoes, HeldAllDoes, DeductDoes,
     FileDoes DEF Withdraw
<1>4. ASSUME NEW q \in Requests, Settle(q) PROVE Base'
  BY <1>4, PayOutDoes, ApproveDoes, ReleaseDoes, RestoreDoes, RejectDoes DEF Settle
<1>5. ASSUME NEW q \in Requests, Fail(q) PROVE Base'
  BY <1>5, FailDoes
<1>6. ASSUME NEW q \in Requests, NEW d \in Deliveries, StartCredit(q, d) PROVE Base'
  BY <1>6, StartCreditDoes
<1>7. ASSUME NEW q \in Requests, NEW w \in References, NEW n \in Amounts, StartWithdrawal(q, w, n)
      PROVE  Base'
  BY <1>7, StartWithdrawalDoes
<1>8. ASSUME NEW q \in Requests, NEW w \in References, StartApproval(q, w) \/ StartRejection(q, w)
      PROVE  Base'
  BY <1>8, DecideDoes DEF StartApproval, StartRejection
<1> QED
  BY <1>1, <1>2, <1>3, <1>4, <1>5, <1>6, <1>7, <1>8 DEF Next, Step

(* Every variable has its type, and every request knows what it needs.     *)
THEOREM EarningsTyped == Spec => []TypeOK
<1>1. Spec => []Base
  BY BaseInit, BaseStep, PTL DEF Spec
<1>2. Base => TypeOK
  BY DEF Base
<1> QED
  BY <1>1, <1>2, PTL

-----------------------------------------------------------------------------
(* One withdrawal at a time. *)

OneWithdrawal ==
    \A p, q \in Requests :
        req[p].at \in Withdrawing /\ req[q].at \in Withdrawing => p = q

(* What the only withdrawal found is still available, and, until it takes  *)
(* a part of one, still of the amount that it read.                        *)
FoundStill(q) ==
    req[q].at \in {"hold", "split"} =>
        \A f \in req[q].todo :
            /\ records[f.index].status = "available"
            /\ req[q].at = "hold" => records[f.index].amount = f.amount
            /\ \A g \in req[q].todo : f.index = g.index => f = g

AloneInv == ~overlapped => OneWithdrawal /\ \A q \in Requests : FoundStill(q)

(* A step after which nobody withdraws who did not, and that leaves what   *)
(* is available as it is.                                                  *)
LEMMA AloneKeeps ==
    ASSUME Base, AloneInv, NEW q \in Requests, Becomes(q, req'[q]), overlapped => overlapped',
           req'[q].at \in Withdrawing => req[q].at \in Withdrawing,
           req'[q].at \in {"hold", "split"} => req'[q].at = req[q].at /\ req'[q].todo = req[q].todo,
           \A i \in DOMAIN records : records[i].status = "available" => records'[i] = records[i]
    PROVE  AloneInv'
<1> SUFFICES ASSUME ~overlapped PROVE OneWithdrawal' /\ \A p \in Requests : FoundStill(p)'
  BY DEF AloneInv
<1>1. OneWithdrawal /\ \A p \in Requests : FoundStill(p)
  BY DEF AloneInv
<1>2. OneWithdrawal'
  BY <1>1 DEF OneWithdrawal, Becomes
<1>3. ASSUME NEW p \in Requests, req'[p].at \in {"hold", "split"}
      PROVE  FoundStill(p)'
  <2>1. req'[p].at = req[p].at /\ req'[p].todo = req[p].todo
    BY <1>3 DEF Becomes
  <2>2. \A f \in req[p].todo : f.index \in DOMAIN records
    BY DEF Base, Fits
  <2> QED
    BY <1>1, <1>3, <2>1, <2>2 DEF FoundStill
<1> QED
  BY <1>2, <1>3 DEF FoundStill

LEMMA AloneInit == Init => AloneInv
  BY LabelSets DEF Init, Idle, AloneInv, OneWithdrawal, FoundStill

LEMMA AloneCredit ==
    ASSUME Base, AloneInv, NEW q \in Requests, Credit(q)
    PROVE  AloneInv'
<1>1. CASE CreateEarning(q)
  <2>1. Moves(q, "increment") /\ overlapped' = overlapped /\ \A i \in DOMAIN records : records'[i] = records[i]
    BY <1>1, CreateDoes DEF Added
  <2> QED
    BY <2>1, LabelSets, AloneKeeps DEF Moves
<1>2. CASE IncrementBalance(q)
  <2>1. Moves(q, "commission") /\ overlapped' = overlapped /\ records' = records
    BY <1>2, IncrementDoes
  <2> QED
    BY <2>1, LabelSets, AloneKeeps DEF Moves
<1>3. CASE CreateCommission(q)
  <2>1. Becomes(q, Idle) /\ overlapped' = overlapped /\ records' = records
    BY <1>3, CommissionDoes
  <2>2. Becomes(q, req'[q]) /\ req'[q].at = "idle"
    BY <2>1 DEF Becomes, Idle
  <2> QED
    BY <2>1, <2>2, LabelSets, AloneKeeps
<1> QED
  BY <1>1, <1>2, <1>3 DEF Credit

LEMMA AloneWithdraw ==
    ASSUME Base, AloneInv, NEW q \in Requests, Withdraw(q)
    PROVE  AloneInv'
<1>1. CASE CheckBalance(q)
  <2>1. req[q].at = "balance" /\ overlapped' = overlapped /\ records' = records
    BY <1>1, CheckDoes DEF At
  <2>2. Becomes(q, req'[q]) /\ req'[q].at \in {"find", "idle"}
    BY <1>1, CheckDoes DEF Becomes, Moves, Idle
  <2> QED
    BY <2>1, <2>2, LabelSets, AloneKeeps
<1>2. CASE FindEarnings(q)
  <2>1. /\ req[q].at = "find" /\ Becomes(q, req'[q]) /\ req'[q].at = "hold"
        /\ req'[q].todo = {[index |-> i, amount |-> records[i].amount] : i \in With(records, "available")}
        /\ overlapped' = overlapped /\ records' = records
    BY <1>2, FindDoes DEF At
  <2> SUFFICES ASSUME ~overlapped PROVE OneWithdrawal' /\ \A p \in Requests : FoundStill(p)'
    BY <2>1 DEF AloneInv
  <2>2. OneWithdrawal
    BY DEF AloneInv
  <2>3. OneWithdrawal'
    BY <2>1, <2>2, LabelSets DEF OneWithdrawal, Becomes
  <2>4. ASSUME NEW p \in Requests \ {q} PROVE FoundStill(p)'
    BY <2>1, <2>2, LabelSets DEF OneWithdrawal, Becomes, FoundStill
  <2>5. FoundStill(q)'
    <3>1. ASSUME NEW f \in req'[q].todo
          PROVE  /\ records'[f.index].status = "available" /\ records'[f.index].amount = f.amount
                 /\ f = [index |-> f.index, amount |-> records[f.index].amount]
      BY <2>1 DEF With
    <3>2. \A f, g \in req'[q].todo : f.index = g.index => f = g
      BY <3>1
    <3> QED
      BY <2>1, <3>1, <3>2 DEF FoundStill
  <2> QED
    BY <2>3, <2>4, <2>5
<1>3. CASE HoldWhole(q)
  <2>1. /\ req[q].at = "hold" /\ Becomes(q, req'[q]) /\ req'[q].at = "hold" /\ req[q].todo # {}
        /\ req'[q].todo = req[q].todo \ {Found(q)} /\ overlapped' = overlapped
        /\ \A i \in DOMAIN records \ {Found(q).index} : records'[i] = records[i]
    BY <1>3, HoldWholeDoes DEF At, Altered
  <2> SUFFICES ASSUME ~overlapped PROVE OneWithdrawal' /\ \A p \in Requests : FoundStill(p)'
    BY <2>1 DEF AloneInv
  <2>2. OneWithdrawal /\ FoundStill(q)
    BY DEF AloneInv
  <2>3. OneWithdrawal'
    BY <2>1, <2>2, LabelSets DEF OneWithdrawal, Becomes
  <2>4. ASSUME NEW p \in Requests \ {q} PROVE FoundStill(p)'
    BY <2>1, <2>2, LabelSets DEF OneWithdrawal, Becomes, FoundStill
  <2>5. FoundStill(q)'
    <3>1. Found(q) \in req[q].todo /\ \A f \in req[q].todo : f.index \in DOMAIN records
      BY <2>1, BaseTypes, FoundIsFirst DEF Base, Fits
    <3>2. ASSUME NEW f \in req'[q].todo
          PROVE  f \in req[q].todo /\ f.index # Found(q).index /\ records'[f.index] = records[f.index]
      <4>1. f \in req[q].todo /\ f # Found(q)
        BY <2>1
      <4>2. f.index # Found(q).index
        BY <2>1, <2>2, <3>1, <4>1 DEF FoundStill
      <4> QED
        BY <2>1, <3>1, <4>1, <4>2
    <3> QED
      BY <2>1, <2>2, <3>2 DEF FoundStill
  <2> QED
    BY <2>3, <2>4, <2>5
<1>4. CASE HoldPart(q)
  <2>1. /\ req[q].at = "hold" /\ Becomes(q, req'[q]) /\ req'[q].at = "split" /\ req[q].todo # {}
        /\ req'[q].todo = req[q].todo /\ overlapped' = overlapped
    BY <1>4, HoldPartDoes DEF At, Moves
  <2>2. \A i \in DOMAIN records : records'[i].status = records[i].status
    <3>1. PICK e : e = [records[Found(q).index] EXCEPT !.amount = Found(q).amount - req[q].left]
      OBVIOUS
    <3>2. Altered(records, records', Found(q).index, e)
      BY <1>4, <3>1, HoldPartDoes
    <3>3. e.status = records[Found(q).index].status
      <4>1. records[Found(q).index] \in EarningType
        BY <3>2, BaseTypes, RecordTyped DEF Altered
      <4> QED
        BY <3>1, <4>1 DEF EarningType
    <3> QED
      BY <3>2, <3>3 DEF Altered
  <2> SUFFICES ASSUME ~overlapped PROVE OneWithdrawal' /\ \A p \in Requests : FoundStill(p)'
    BY <2>1 DEF AloneInv
  <2>3. OneWithdrawal /\ FoundStill(q)
    BY DEF AloneInv
  <2>4. OneWithdrawal'
    BY <2>1, <2>3, LabelSets DEF OneWithdrawal, Becomes
  <2>5. ASSUME NEW p \in Requests \ {q} PROVE FoundStill(p)'
    BY <2>1, <2>3, LabelSets DEF OneWithdrawal, Becomes, FoundStill
  <2>6. FoundStill(q)'
    <3>1. \A f \in req[q].todo : f.index \in DOMAIN records
      BY DEF Base, Fits
    <3> QED
      BY <2>1, <2>2, <2>3, <3>1 DEF FoundStill
  <2> QED
    BY <2>4, <2>5, <2>6
<1>5. CASE CreateHeld(q)
  <2>1. /\ req[q].at = "split" /\ Becomes(q, req'[q]) /\ req'[q].at = "deduct" /\ overlapped' = overlapped
        /\ \A i \in DOMAIN records : records'[i] = records[i]
    BY <1>5, CreateHeldDoes DEF At, Added
  <2> QED
    BY <2>1, LabelSets, AloneKeeps
<1>6. CASE HeldAll(q)
  <2>1. req[q].at = "hold" /\ Moves(q, "deduct") /\ overlapped' = overlapped /\ records' = records
    BY <1>6, HeldAllDoes DEF At
  <2> QED
    BY <2>1, LabelSets, AloneKeeps DEF Moves
<1>7. CASE DeductBalance(q)
  <2>1. req[q].at = "deduct" /\ Moves(q, "file") /\ overlapped' = overlapped /\ records' = records
    BY <1>7, DeductDoes DEF At
  <2> QED
    BY <2>1, LabelSets, AloneKeeps DEF Moves
<1>8. CASE FileRequest(q)
  <2>1. Becomes(q, Idle) /\ overlapped' = overlapped /\ records' = records
    BY <1>8, FileDoes
  <2>2. Becomes(q, req'[q]) /\ req'[q].at = "idle"
    BY <2>1 DEF Becomes, Idle
  <2> QED
    BY <2>1, <2>2, LabelSets, AloneKeeps
<1> QED
  BY <1>1, <1>2, <1>3, <1>4, <1>5, <1>6, <1>7, <1>8 DEF Withdraw

LEMMA AloneSettle ==
    ASSUME Base, AloneInv, NEW q \in Requests, Settle(q)
    PROVE  AloneInv'
<1>1. CASE PayOut(q) \/ ReleaseHeld(q)
  <2>1. /\ Moves(q, "approve") \/ Moves(q, "restore")
        /\ overlapped' = overlapped
        /\ \A i \in DOMAIN records : records[i].status = "available" => records'[i] = records[i]
    BY <1>1, PayOutDoes, ReleaseDoes DEF Updated
  <2> QED
    BY <2>1, LabelSets, AloneKeeps DEF Moves
<1>2. CASE RestoreBalance(q)
  <2>1. Moves(q, "reject") /\ overlapped' = overlapped /\ records' = records
    BY <1>2, RestoreDoes
  <2> QED
    BY <2>1, LabelSets, AloneKeeps DEF Moves
<1>3. CASE Approve(q) \/ Reject(q)
  <2>1. Becomes(q, Idle) /\ overlapped' = overlapped /\ records' = records
    BY <1>3, ApproveDoes, RejectDoes
  <2>2. Becomes(q, req'[q]) /\ req'[q].at = "idle"
    BY <2>1 DEF Becomes, Idle
  <2> QED
    BY <2>1, <2>2, LabelSets, AloneKeeps
<1> QED
  BY <1>1, <1>2, <1>3 DEF Settle

LEMMA AloneStep == Base /\ AloneInv /\ [Next]_vars => AloneInv'
<1> SUFFICES ASSUME Base, AloneInv, [Next]_vars PROVE AloneInv'
  OBVIOUS
<1>1. CASE UNCHANGED vars
  BY <1>1 DEF vars, books, history, AloneInv, OneWithdrawal, FoundStill
<1>2. ASSUME NEW q \in Requests, Fail(q) PROVE AloneInv'
  <2>1. Becomes(q, Idle) /\ overlapped' = overlapped /\ records' = records
    BY <1>2, FailDoes
  <2>2. Becomes(q, req'[q]) /\ req'[q].at = "idle"
    BY <2>1 DEF Becomes, Idle
  <2> QED
    BY <2>1, <2>2, LabelSets, AloneKeeps
<1>3. ASSUME NEW q \in Requests, NEW d \in Deliveries, StartCredit(q, d) PROVE AloneInv'
  <2>1. overlapped' = overlapped /\ records' = records
    BY <1>3, StartCreditDoes
  <2>2. CASE UNCHANGED req
    BY <2>1, <2>2 DEF AloneInv, OneWithdrawal, FoundStill
  <2>3. CASE Becomes(q, req'[q]) /\ req'[q] = [Idle EXCEPT !.at = "create", !.del = d]
    <3>1. req'[q].at = "create"
      BY <2>3 DEF Idle
    <3> QED
      BY <2>1, <2>3, <3>1, LabelSets, AloneKeeps
  <2> QED
    BY <1>3, <2>2, <2>3, StartCreditDoes
<1>4. ASSUME NEW q \in Requests, NEW w \in References, NEW n \in Amounts, StartWithdrawal(q, w, n)
      PROVE  AloneInv'
  <2>0. /\ Becomes(q, req'[q]) /\ records' = records
        /\ req'[q].at = "balance"
        /\ overlapped' = (overlapped \/ Busy(Withdrawing))
    BY <1>4, StartWithdrawalDoes
  <2>1. /\ Becomes(q, req'[q]) /\ req'[q].at = "balance" /\ records' = records
        /\ overlapped' = (overlapped \/ Busy(Withdrawing))
    BY <2>0 DEF Idle
  <2> SUFFICES ASSUME ~overlapped, ~Busy(Withdrawing) PROVE OneWithdrawal' /\ \A p \in Requests : FoundStill(p)'
    BY <2>1 DEF AloneInv
  <2>2. \A p \in Requests : req[p].at \notin Withdrawing
    BY DEF Busy
  <2>3. \A p \in Requests \ {q} : req'[p].at \notin Withdrawing
    BY <2>1, <2>2 DEF Becomes
  <2> QED
    BY <2>1, <2>3, LabelSets DEF OneWithdrawal, FoundStill
<1>5. ASSUME NEW q \in Requests, NEW w \in References, StartApproval(q, w) \/ StartRejection(q, w)
      PROVE  AloneInv'
  <2>1. PICK l : (l = "payOut" \/ l = "release") /\ Decide(q, w, l)
    BY <1>5 DEF StartApproval, StartRejection
  <2>2. /\ Becomes(q, req'[q]) /\ req'[q].at = l
        /\ records' = records /\ overlapped' = (overlapped \/ Busy(Deciding))
    BY <2>1, DecideDoes
  <2>3. req'[q].at = l /\ (overlapped => overlapped')
    BY <2>2 DEF Idle
  <2>4. req'[q].at \notin Withdrawing /\ req'[q].at \notin {"hold", "split"}
    BY <2>1, <2>3, LabelSets
  <2>5. \A i \in DOMAIN records : records[i].status = "available" => records'[i] = records[i]
    BY <2>2
  <2> QED
    BY <2>2, <2>3, <2>4, <2>5, AloneKeeps
<1> QED
  BY <1>1, <1>2, <1>3, <1>4, <1>5, AloneCredit, AloneWithdraw, AloneSettle DEF Next, Step

LEMMA AloneAlways == Spec => [](Base /\ AloneInv)
  BY BaseInit, BaseStep, AloneInit, AloneStep, PTL DEF Spec

-----------------------------------------------------------------------------
(* What was paid out stays paid out. *)

LEMMA PaidOutStays ==
    Base /\ AloneInv /\ [Next]_vars =>
        [~overlapped' => \A i \in DOMAIN records :
             records[i].status = "withdrawn" => records'[i] = records[i]]_vars
<1> SUFFICES ASSUME Base, AloneInv, Next, ~overlapped', NEW i \in DOMAIN records,
                    records[i].status = "withdrawn"
             PROVE  records'[i] = records[i]
  OBVIOUS
<1>1. ASSUME NEW q \in Requests, HoldWhole(q) \/ HoldPart(q) PROVE records'[i] = records[i]
  <2>1. /\ req[q].at = "hold" /\ req[q].todo # {} /\ overlapped' = overlapped
        /\ \A j \in DOMAIN records \ {Found(q).index} : records'[j] = records[j]
    BY <1>1, HoldWholeDoes, HoldPartDoes DEF At, Altered
  <2>2. FoundStill(q)
    BY <2>1 DEF AloneInv
  <2>3. Found(q) \in req[q].todo
    BY <2>1, BaseTypes, FoundIsFirst DEF Base
  <2>4. records[Found(q).index].status = "available"
    BY <2>1, <2>2, <2>3 DEF FoundStill
  <2> QED
    BY <2>1, <2>4
<1>2. ASSUME NEW q \in Requests, PayOut(q) \/ ReleaseHeld(q) PROVE records'[i] = records[i]
  BY <1>2, PayOutDoes, ReleaseDoes DEF Updated
<1>3. ASSUME NEW q \in Requests, CreateEarning(q) \/ CreateHeld(q) PROVE records'[i] = records[i]
  BY <1>3, CreateDoes, CreateHeldDoes DEF Added
<1>4. ASSUME NEW q \in Requests, Credit(q) PROVE records'[i] = records[i]
  BY <1>3, <1>4, IncrementDoes, CommissionDoes DEF Credit
<1>5. ASSUME NEW q \in Requests, Withdraw(q) PROVE records'[i] = records[i]
  BY <1>1, <1>3, <1>5, CheckDoes, FindDoes, HeldAllDoes, DeductDoes, FileDoes DEF Withdraw
<1>6. ASSUME NEW q \in Requests, Settle(q) PROVE records'[i] = records[i]
  BY <1>2, <1>6, ApproveDoes, RestoreDoes, RejectDoes DEF Settle
<1>7. ASSUME NEW q \in Requests, Fail(q) PROVE records'[i] = records[i]
  BY <1>7, FailDoes
<1>8. ASSUME NEW q \in Requests, NEW d \in Deliveries, StartCredit(q, d) PROVE records'[i] = records[i]
  BY <1>8, StartCreditDoes
<1>9. ASSUME NEW q \in Requests, NEW w \in References, NEW n \in Amounts, StartWithdrawal(q, w, n)
      PROVE  records'[i] = records[i]
  BY <1>9, StartWithdrawalDoes
<1>10. ASSUME NEW q \in Requests, NEW w \in References, StartApproval(q, w) \/ StartRejection(q, w)
       PROVE  records'[i] = records[i]
  BY <1>10, DecideDoes DEF StartApproval, StartRejection
<1> QED
  BY <1>4, <1>5, <1>6, <1>7, <1>8, <1>9, <1>10 DEF Next, Step

(* As long as no two withdrawals, or decisions, ran at once, nothing       *)
(* changes an earning that was paid out: neither a later decision nor a    *)
(* withdrawal that found it when it was available.                         *)
THEOREM PaidOutIsFinalHolds == Spec => PaidOutIsFinal
  BY AloneAlways, PaidOutStays, PTL DEF Spec, PaidOutIsFinal

-----------------------------------------------------------------------------
(* What a change of the records does to their sums. *)

LEMMA SameWorth ==
    ASSUME NEW r \in Seq(EarningType), NEW k \in Seq(EarningType), NEW K,
           K \subseteq DOMAIN r, K \subseteq DOMAIN k, \A i \in K : k[i].amount = r[i].amount
    PROVE  Total(Worth(k), K) = Total(Worth(r), K)
<1>1. /\ Numbers(Worth(r)) /\ Numbers(Worth(k)) /\ DOMAIN Worth(r) = DOMAIN r /\ DOMAIN Worth(k) = DOMAIN k
      /\ \A i \in K : Worth(k)[i] = Worth(r)[i]
  <2>1. \A i \in K : Worth(k)[i] = k[i].amount /\ Worth(r)[i] = r[i].amount
    BY DEF Worth
  <2> QED
    BY <2>1, WorthNumbers
<1> QED
  BY <1>1, TotalSame

LEMMA TotalTyped ==
    ASSUME NEW r \in Seq(EarningType), NEW K, K \subseteq DOMAIN r
    PROVE  Total(Worth(r), K) \in Nat
<1>1. Numbers(Worth(r)) /\ DOMAIN Worth(r) = DOMAIN r /\ \A x \in K : Worth(r)[x] >= 0
  BY WorthNumbers
<1>2. Total(Worth(r), K) \in Int
  BY <1>1, TotalAdds
<1>3. Total(Worth(r), K) >= 0
  BY <1>1, TotalOfPart
<1> QED
  BY <1>2, <1>3

LEMMA AddedLeaves ==
    ASSUME NEW r \in Seq(EarningType), NEW k, NEW e, Added(r, k, e), NEW K, K \subseteq DOMAIN r
    PROVE  Total(Worth(k), K) = Total(Worth(r), K)
<1>1. k \in Seq(EarningType) /\ K \subseteq DOMAIN k
  BY DEF Added
<1> QED
  BY <1>1, SameWorth DEF Added

LEMMA AddedWorth ==
    ASSUME NEW r \in Seq(EarningType), NEW k, NEW e, Added(r, k, e), NEW K, K \subseteq DOMAIN r
    PROVE  Total(Worth(k), K \union {Len(r) + 1}) = Total(Worth(r), K) + e.amount
<1>1. k \in Seq(EarningType) /\ K \subseteq DOMAIN k
  BY DEF Added
<1>2. Total(Worth(k), K) = Total(Worth(r), K)
  BY AddedLeaves
<1> DEFINE L == K \union {Len(r) + 1}
<1>3. L \in SUBSET DOMAIN Worth(k) /\ Len(r) + 1 \in L /\ L \ {Len(r) + 1} = K /\ Numbers(Worth(k))
  BY <1>1, WorthNumbers DEF Added
<1>4. Worth(k)[Len(r) + 1] = e.amount
  BY DEF Added, Worth
<1> HIDE DEF L
<1>5. Total(Worth(k), L) = Total(Worth(k), K) + e.amount
  BY <1>3, <1>4, TotalAdds
<1> QED
  BY <1>2, <1>5 DEF L

LEMMA AlteredWorth ==
    ASSUME NEW r \in Seq(EarningType), NEW k, NEW i \in DOMAIN r, NEW e, Altered(r, k, i, e),
           NEW K, K \subseteq DOMAIN r, i \in K
    PROVE  Total(Worth(k), K) = Total(Worth(r), K) - r[i].amount + e.amount
<1>1. k \in Seq(EarningType) /\ DOMAIN k = DOMAIN r
  BY DEF Altered
<1>2. /\ Numbers(Worth(r)) /\ Numbers(Worth(k)) /\ DOMAIN Worth(r) = DOMAIN r /\ DOMAIN Worth(k) = DOMAIN r
      /\ Worth(r)[i] = r[i].amount /\ Worth(k)[i] = e.amount
      /\ \A j \in K \ {i} : Worth(r)[j] = Worth(k)[j]
  <2>1. \A j \in DOMAIN r : Worth(k)[j] = k[j].amount /\ Worth(r)[j] = r[j].amount
    BY <1>1 DEF Worth
  <2>2. /\ Numbers(Worth(r)) /\ Numbers(Worth(k))
        /\ DOMAIN Worth(r) = DOMAIN r /\ DOMAIN Worth(k) = DOMAIN r
    BY <1>1, WorthNumbers
  <2>3. k[i] = e /\ \A j \in DOMAIN r \ {i} : k[j] = r[j]
    BY DEF Altered
  <2> QED
    BY <2>1, <2>2, <2>3
<1> QED
  BY <1>2, TotalChanges

-----------------------------------------------------------------------------
(* A delivery is credited once. *)

(* Found(q), as an expression in what q has still to do.                   *)
First(T) == CHOOSE f \in T : \A g \in T : f.index <= g.index

LEMMA FoundFirst == \A q : Found(q) = First(req[q].todo)
  BY DEF Found, First

LEMMA FoundNext == \A q : Found(q)' = First(req'[q].todo)
  BY DEF Found, First

OneCredit(d) == \A p, q \in Requests : req[p].del = d /\ req[q].del = d => p = q

CreditIsFirst(d) ==
    \A q \in Requests : req[q].at = "create" /\ req[q].del = d => OfDelivery(records, d) = {}

(* A withdrawal that has reduced an earning has still to write down what   *)
(* it took.                                                                *)
Paid(d) == Total(Worth(records), OfDelivery(records, d))

ShareKept(d) ==
    /\ Paid(d) <= Payout(d)
    /\ \A q \in Requests : req[q].at = "split" /\ records[Found(q).index].del = d =>
          Paid(d) + req[q].left <= Payout(d)

CreditInv ==
    \A d \in Deliveries \ raced :
        OneCredit(d) /\ CreditIsFirst(d) /\ (~overlapped => ShareKept(d))

LEMMA CreditInit == Init => CreditInv
<1> SUFFICES ASSUME Init, NEW d \in Deliveries PROVE OneCredit(d) /\ CreditIsFirst(d) /\ ShareKept(d)
  BY DEF CreditInv
<1>1. \A q \in Requests : req[q].at = "idle" /\ req[q].del = NoDelivery
  BY DEF Init, Idle
<1>2. OfDelivery(records, d) = {} /\ records \in Seq(EarningType)
  BY DEF Init, OfDelivery
<1>3. Paid(d) = 0
  BY <1>2, WorthNumbers, TotalAdds DEF Paid
<1> QED
  BY <1>1, <1>3, PayoutType, EarningsAssumption DEF OneCredit, CreditIsFirst, ShareKept

LEMMA PaidTyped ==
    ASSUME Base, NEW d
    PROVE  Paid(d) \in Nat /\ OfDelivery(records, d) \subseteq DOMAIN records
  BY BaseTypes, TotalTyped DEF Paid, OfDelivery

(* A step that does not start a credit of d, nor adds to what d is paid.   *)
LEMMA CreditKeeps ==
    ASSUME Base, Base', NEW d \in Deliveries, NEW q \in Requests, Becomes(q, req'[q]),
           OneCredit(d), CreditIsFirst(d), ~overlapped => ShareKept(d),
           overlapped => overlapped',
           req'[q].del = d => req[q].del = d,
           req'[q].at = "create" => req[q].at = "create",
           req'[q].at # "split",
           \A i \in DOMAIN records : i \in DOMAIN records' /\ records'[i].del = records[i].del,
           \A i \in DOMAIN records' \ DOMAIN records : records'[i].del = d => OfDelivery(records, d) # {},
           Paid(d)' <= Paid(d)
    PROVE  OneCredit(d)' /\ CreditIsFirst(d)' /\ (~overlapped' => ShareKept(d)')
<1>1. OneCredit(d)'
  BY DEF OneCredit, Becomes
<1>2. CreditIsFirst(d)'
  <2> SUFFICES ASSUME NEW p \in Requests, req'[p].at = "create", req'[p].del = d
               PROVE  OfDelivery(records', d) = {}
    BY DEF CreditIsFirst
  <2>1. OfDelivery(records, d) = {}
    BY DEF CreditIsFirst, Becomes
  <2> QED
    BY <2>1 DEF OfDelivery
<1>3. ASSUME ~overlapped' PROVE ShareKept(d)'
  <2>1. ShareKept(d)
    BY <1>3
  <2>2. Paid(d) \in Nat /\ Paid(d)' \in Nat /\ Payout(d) \in Nat /\ Paid(d)' <= Paid(d)
    <3>1. Paid(d) \in Nat
      BY PaidTyped
    <3>2. Paid(d)' \in Nat
      BY BaseTypes, TotalTyped DEF Base, TypeOK, Paid, OfDelivery
    <3> QED
      BY <3>1, <3>2, PayoutType
  <2>3. ASSUME NEW p \in Requests, req'[p].at = "split", records'[First(req'[p].todo).index].del = d
        PROVE  Paid(d)' + req'[p].left <= Payout(d)
    <3>1. req[p] = req'[p]
      BY <2>3 DEF Becomes
    <3>2. Found(p) = First(req'[p].todo) /\ Found(p).index \in DOMAIN records
      <4>1. Fits(req[p], records) /\ req[p].todo # {}
        BY <3>1, <2>3 DEF Base, Fits
      <4> QED
        BY <3>1, <4>1, BaseTypes, FoundIsFirst, FoundFirst
    <3>3. records[Found(p).index].del = d
      BY <2>3, <3>2
    <3>4. Paid(d) + req[p].left <= Payout(d) /\ req[p].left \in Nat
      <4>1. req[p].left \in Nat
        BY RequestTyped DEF Base
      <4> QED
        BY <2>1, <2>3, <3>1, <3>3, <4>1 DEF ShareKept
    <3> QED
      BY <2>2, <3>1, <3>4
  <2>4. Paid(d)' <= Payout(d)
    BY <2>1, <2>2 DEF ShareKept
  <2> QED
    BY <2>3, <2>4, FoundNext DEF ShareKept
<1> QED
  BY <1>1, <1>2, <1>3

(* Changes of status leave what a delivery is paid.                        *)
LEMMA PaidSame ==
    ASSUME Base, NEW d, records' \in Seq(EarningType), DOMAIN records' = DOMAIN records,
           \A i \in DOMAIN records : records'[i].del = records[i].del /\ records'[i].amount = records[i].amount
    PROVE  Paid(d)' = Paid(d)
<1>1. OfDelivery(records', d) = OfDelivery(records, d)
  BY DEF OfDelivery
<1>2. PICK K : K = OfDelivery(records, d)
  OBVIOUS
<1>3. K \subseteq DOMAIN records /\ \A i \in K : records'[i].amount = records[i].amount
  BY <1>2 DEF OfDelivery
<1>4. Total(Worth(records'), K) = Total(Worth(records), K)
  BY <1>3, BaseTypes, SameWorth
<1> QED
  BY <1>1, <1>2, <1>4 DEF Paid

LEMMA UpdatedSame ==
    ASSUME Base, NEW w, NEW s, NEW v, Updated(records, records', w, s, v)
    PROVE  /\ records' \in Seq(EarningType) /\ DOMAIN records' = DOMAIN records
           /\ \A i \in DOMAIN records : records'[i].del = records[i].del /\ records'[i].amount = records[i].amount
<1>1. ASSUME NEW i \in DOMAIN records
      PROVE  records'[i].del = records[i].del /\ records'[i].amount = records[i].amount
  <2>1. records[i] \in EarningType
    BY BaseTypes, RecordTyped
  <2>2. PICK e : e = [records[i] EXCEPT !.status = s, !.ref = v]
    OBVIOUS
  <2>3. e.del = records[i].del /\ e.amount = records[i].amount
    BY <2>1, <2>2 DEF EarningType
  <2>4. records'[i] = e \/ records'[i] = records[i]
    BY <2>2 DEF Updated
  <2> QED
    BY <2>3, <2>4
<1> QED
  BY <1>1 DEF Updated

(* The generic case, for a step that moves one request and leaves what     *)
(* each delivery is paid.                                                  *)
Tame(q) ==
    /\ Becomes(q, req'[q])
    /\ req'[q].del \in {req[q].del, NoDelivery}
    /\ req'[q].at \notin {"create", "split"}
    /\ raced' = raced
    /\ overlapped => overlapped'
    /\ records' \in Seq(EarningType) /\ DOMAIN records' = DOMAIN records
    /\ \A i \in DOMAIN records : records'[i].del = records[i].del /\ records'[i].amount = records[i].amount

LEMMA CreditTame ==
    ASSUME Base, Base', CreditInv, NEW q \in Requests, Tame(q)
    PROVE  CreditInv'
<1> SUFFICES ASSUME NEW d \in Deliveries \ raced
             PROVE  OneCredit(d)' /\ CreditIsFirst(d)' /\ (~overlapped' => ShareKept(d)')
  BY DEF CreditInv, Tame
<1>1. OneCredit(d) /\ CreditIsFirst(d) /\ (~overlapped => ShareKept(d))
  BY DEF CreditInv
<1>2. Paid(d)' = Paid(d) /\ Paid(d) \in Nat
  BY PaidSame, PaidTyped DEF Tame
<1>3. Paid(d)' <= Paid(d)
  BY <1>2
<1>4. req'[q].del = d => req[q].del = d
  BY EarningsAssumption DEF Tame
<1>5. /\ Becomes(q, req'[q]) /\ req'[q].at # "split" /\ req'[q].at # "create"
      /\ \A i \in DOMAIN records : i \in DOMAIN records' /\ records'[i].del = records[i].del
      /\ \A i \in DOMAIN records' \ DOMAIN records : records'[i].del = d => OfDelivery(records, d) # {}
  BY DEF Tame
<1>6. overlapped => overlapped'
  BY DEF Tame
<1> QED
  BY <1>1, <1>3, <1>4, <1>5, <1>6, CreditKeeps

LEMMA RecordsStay ==
    ASSUME Base, records' = records
    PROVE  /\ records' \in Seq(EarningType) /\ DOMAIN records' = DOMAIN records
           /\ \A i \in DOMAIN records : records'[i].del = records[i].del /\ records'[i].amount = records[i].amount
  BY BaseTypes

LEMMA MovesTamely ==
    ASSUME Base, NEW q \in Requests, NEW l, Moves(q, l), l \notin {"create", "split"},
           raced' = raced, overlapped' = overlapped, records' = records
    PROVE  Tame(q)
  BY RecordsStay DEF Moves, Tame

LEMMA FinishesTamely ==
    ASSUME Base, NEW q \in Requests, Becomes(q, Idle),
           raced' = raced, overlapped' = overlapped, records' = records
    PROVE  Tame(q)
<1>1. req'[q] = Idle /\ Becomes(q, req'[q])
  BY DEF Becomes
<1> QED
  BY <1>1, RecordsStay DEF Tame, Idle

LEMMA CreditCreates ==
    ASSUME Base, Base', CreditInv, NEW q \in Requests, CreateEarning(q)
    PROVE  CreditInv'
<1> DEFINE c == req[q].del
<1>1. /\ req[q].at = "create" /\ Moves(q, "increment") /\ c \in Deliveries
      /\ raced' = raced /\ overlapped' = overlapped
  BY CreateDoes DEF At
<1>2. PICK e : e = Earning(c, Payout(c), "available", NoReference)
  OBVIOUS
<1>3. /\ e \in EarningType /\ e.del = c /\ e.amount = Payout(c)
  BY <1>1, <1>2, PayoutType DEF Earning, EarningType
<1>4. Added(records, records', e)
  BY <1>2, CreateDoes
<1> SUFFICES ASSUME NEW d \in Deliveries \ raced
             PROVE  OneCredit(d)' /\ CreditIsFirst(d)' /\ (~overlapped' => ShareKept(d)')
  BY <1>1 DEF CreditInv
<1>5. OneCredit(d) /\ CreditIsFirst(d) /\ (~overlapped => ShareKept(d))
  BY DEF CreditInv
<1>6. /\ Becomes(q, req'[q]) /\ req'[q].at = "increment" /\ req'[q].del = c
  BY <1>1 DEF Moves
<1>7. PICK K : K = OfDelivery(records, d) /\ K \subseteq DOMAIN records
  BY DEF OfDelivery
<1>8. CASE c # d
  <2>1. OfDelivery(records', d) = K
    BY <1>3, <1>4, <1>7, <1>8 DEF Added, OfDelivery
  <2>2. Paid(d)' = Paid(d) /\ Paid(d) \in Nat
    <3>1. Total(Worth(records'), K) = Total(Worth(records), K)
      <4>1. records \in Seq(EarningType)
        BY BaseTypes
      <4> QED
        BY <1>4, <1>7, <4>1, AddedLeaves
    <3> QED
      BY <1>7, <2>1, <3>1, PaidTyped DEF Paid
  <2>3. Paid(d)' <= Paid(d)
    BY <2>2
  <2>4. /\ \A i \in DOMAIN records : i \in DOMAIN records' /\ records'[i].del = records[i].del
        /\ \A i \in DOMAIN records' \ DOMAIN records : records'[i].del = d => OfDelivery(records, d) # {}
    BY <1>3, <1>4, <1>8 DEF Added
  <2> QED
    BY <1>1, <1>5, <1>6, <2>3, <2>4, CreditKeeps
<1>9. CASE c = d
  <2>1. K = {} /\ OfDelivery(records', d) = {Len(records) + 1}
    <3>1. K = {}
      BY <1>1, <1>5, <1>7, <1>9 DEF CreditIsFirst
    <3> QED
      BY <3>1, <1>3, <1>4, <1>7, <1>9 DEF Added, OfDelivery
  <2>2. Paid(d)' = Payout(d)
    <3>1. Total(Worth(records'), K \union {Len(records) + 1}) = Total(Worth(records), K) + e.amount
      <4>1. records \in Seq(EarningType)
        BY BaseTypes
      <4> QED
        BY <1>4, <1>7, <4>1, AddedWorth
    <3>2. Total(Worth(records), K) = 0
      BY <2>1, BaseTypes, WorthNumbers, TotalAdds
    <3>3. K \union {Len(records) + 1} = OfDelivery(records', d)
      BY <2>1
    <3>4. Total(Worth(records'), OfDelivery(records', d)) = 0 + Payout(d)
      BY <1>3, <1>9, <3>1, <3>2, <3>3
    <3> QED
      BY <3>4, PayoutType DEF Paid
  <2>3. OneCredit(d)'
    BY <1>5, <1>6, <1>9 DEF OneCredit, Becomes
  <2>4. CreditIsFirst(d)'
    BY <1>5, <1>6, <1>9 DEF OneCredit, CreditIsFirst, Becomes
  <2>5. ASSUME NEW p \in Requests, req'[p].at = "split", records'[First(req'[p].todo).index].del = d
        PROVE  FALSE
    <3>1. req'[p] = req[p] /\ req[p].todo # {}
      BY <1>6, <2>5 DEF Becomes, Base, Fits
    <3>2. First(req'[p].todo).index \in DOMAIN records
      BY <3>1, BaseTypes, FoundIsFirst, FoundFirst DEF Base
    <3>3. First(req'[p].todo).index \in K
      BY <1>4, <1>7, <2>5, <3>2 DEF Added, OfDelivery
    <3> QED
      BY <2>1, <3>3
  <2>6. ShareKept(d)'
    BY <2>2, <2>5, FoundNext, PayoutType DEF ShareKept
  <2> QED
    BY <2>3, <2>4, <2>6
<1> QED
  BY <1>8, <1>9

LEMMA CreditSplits ==
    ASSUME Base, Base', AloneInv, CreditInv, NEW q \in Requests, HoldPart(q)
    PROVE  CreditInv'
<1> DEFINE i == Found(q).index
<1>1. /\ req[q].at = "hold" /\ Moves(q, "split") /\ req[q].todo # {}
      /\ raced' = raced /\ overlapped' = overlapped
  BY HoldPartDoes DEF At
<1>2. PICK e : e = [records[i] EXCEPT !.amount = Found(q).amount - req[q].left]
  OBVIOUS
<1>3. Altered(records, records', i, e) /\ Found(q).amount > req[q].left
  BY <1>2, HoldPartDoes
<1>4. i \in DOMAIN records /\ records[i] \in EarningType
  BY <1>3, BaseTypes, RecordTyped DEF Altered
<1>5. e.del = records[i].del /\ e.amount = Found(q).amount - req[q].left
  BY <1>2, <1>4 DEF EarningType
<1>6. /\ Becomes(q, req'[q]) /\ req'[q].at = "split" /\ req'[q].del = req[q].del
      /\ req'[q].todo = req[q].todo /\ req'[q].left = req[q].left
  BY <1>1 DEF Moves
<1>7. /\ DOMAIN records' = DOMAIN records /\ records' \in Seq(EarningType)
      /\ \A j \in DOMAIN records : records'[j].del = records[j].del
  BY <1>3, <1>5 DEF Altered
<1> SUFFICES ASSUME NEW d \in Deliveries \ raced
             PROVE  OneCredit(d)' /\ CreditIsFirst(d)' /\ (~overlapped' => ShareKept(d)')
  BY <1>1 DEF CreditInv
<1>8. OneCredit(d) /\ CreditIsFirst(d) /\ (~overlapped => ShareKept(d))
  BY DEF CreditInv
<1>9. PICK K : K = OfDelivery(records, d) /\ K \subseteq DOMAIN records
  BY DEF OfDelivery
<1>10. OfDelivery(records', d) = K
  BY <1>7, <1>9 DEF OfDelivery
<1>11. OneCredit(d)'
  BY <1>6, <1>8 DEF OneCredit, Becomes
<1>12. CreditIsFirst(d)'
  BY <1>6, <1>8, <1>9, <1>10 DEF CreditIsFirst, Becomes
<1>13. ASSUME ~overlapped' PROVE ShareKept(d)'
  <2>1. OneWithdrawal /\ FoundStill(q) /\ ShareKept(d)
    BY <1>1, <1>8, <1>13 DEF AloneInv
  <2>2. Found(q) \in req[q].todo /\ Found(q).amount \in Nat
    BY <1>1, BaseTypes, FoundIsFirst DEF Base
  <2>3. records[i].amount = Found(q).amount
    BY <1>1, <2>1, <2>2 DEF FoundStill
  <2>4. req[q].left \in Nat /\ Payout(d) \in Nat /\ Total(Worth(records), K) \in Nat
        /\ Total(Worth(records), K) <= Payout(d)
    <3>1. req[q].left \in Nat
      BY RequestTyped DEF Base
    <3> QED
      BY <1>9, <2>1, <3>1, PayoutType, PaidTyped DEF Paid, ShareKept
  <2>5. CASE i \in K
    <3>1. Total(Worth(records'), K) = Total(Worth(records), K) - records[i].amount + e.amount
      <4>1. PICK j \in DOMAIN records : j = i
        BY <1>4
      <4>2. records \in Seq(EarningType)
        BY BaseTypes
      <4> QED
        BY <1>3, <1>9, <2>5, <4>1, <4>2, AlteredWorth
    <3>2. Total(Worth(records'), K) = Total(Worth(records), K) - req[q].left
      BY <1>5, <2>2, <2>3, <2>4, <3>1
    <3>3. Paid(d)' <= Payout(d) /\ Paid(d)' + req[q].left <= Payout(d)
      BY <1>10, <2>4, <3>2 DEF Paid
    <3>4. ASSUME NEW p \in Requests, req'[p].at = "split" PROVE Paid(d)' + req'[p].left <= Payout(d)
      <4>1. p = q
        BY <1>1, <1>6, <2>1, <3>4, LabelSets DEF OneWithdrawal, Becomes
      <4> QED
        BY <1>6, <3>3, <4>1
    <3> QED
      BY <3>3, <3>4 DEF ShareKept
  <2>6. CASE i \notin K
    <3>1. \A j \in K : records'[j].amount = records[j].amount
      BY <1>3, <1>9, <2>6 DEF Altered
    <3>2. Total(Worth(records'), K) = Total(Worth(records), K)
      BY <1>7, <1>9, <3>1, BaseTypes, SameWorth
    <3>3. Paid(d)' <= Payout(d)
      BY <1>10, <2>4, <3>2 DEF Paid
    <3>4. ASSUME NEW p \in Requests, req'[p].at = "split", records'[First(req'[p].todo).index].del = d PROVE FALSE
      <4>1. p = q
        BY <1>1, <1>6, <2>1, <3>4, LabelSets DEF OneWithdrawal, Becomes
      <4>2. First(req'[p].todo).index = i
        BY <1>6, <4>1, FoundFirst
      <4> QED
        BY <1>4, <1>7, <1>9, <2>6, <3>4, <4>2 DEF OfDelivery
    <3> QED
      BY <3>3, <3>4, FoundNext DEF ShareKept
  <2> QED
    BY <2>5, <2>6
<1> QED
  BY <1>11, <1>12, <1>13

LEMMA CreditHeld ==
    ASSUME Base, Base', AloneInv, CreditInv, NEW q \in Requests, CreateHeld(q)
    PROVE  CreditInv'
<1> DEFINE i == Found(q).index
<1>1. /\ req[q].at = "split" /\ i \in DOMAIN records /\ req[q].left > 0 /\ req[q].ref \in References
      /\ Becomes(q, req'[q]) /\ req'[q].at = "deduct" /\ req'[q].del = req[q].del
      /\ raced' = raced /\ overlapped' = overlapped
  BY CreateHeldDoes DEF At
<1>2. PICK e : e = Earning(records[i].del, req[q].left, "held", req[q].ref)
  OBVIOUS
<1>3. records[i].del \in Deliveries /\ req[q].left \in Nat \ {0}
  <2>1. req[q].left \in Nat
    BY RequestTyped DEF Base
  <2> QED
    BY <1>1, <2>1, BaseTypes, RecordTyped
<1>4. e \in EarningType /\ e.del = records[i].del /\ e.amount = req[q].left
  BY <1>1, <1>2, <1>3 DEF Earning, EarningType
<1>5. Added(records, records', e)
  BY <1>2, CreateHeldDoes
<1> SUFFICES ASSUME NEW d \in Deliveries \ raced
             PROVE  OneCredit(d)' /\ CreditIsFirst(d)' /\ (~overlapped' => ShareKept(d)')
  BY <1>1 DEF CreditInv
<1>6. OneCredit(d) /\ CreditIsFirst(d) /\ (~overlapped => ShareKept(d))
  BY DEF CreditInv
<1>7. PICK K : K = OfDelivery(records, d) /\ K \subseteq DOMAIN records
  BY DEF OfDelivery
<1>8. CASE records[i].del # d
  <2>1. OfDelivery(records', d) = K
    BY <1>4, <1>5, <1>7, <1>8 DEF Added, OfDelivery
  <2>2. Paid(d)' = Paid(d) /\ Paid(d) \in Nat
    <3>1. Total(Worth(records'), K) = Total(Worth(records), K)
      <4>1. records \in Seq(EarningType)
        BY BaseTypes
      <4> QED
        BY <1>5, <1>7, <4>1, AddedLeaves
    <3> QED
      BY <1>7, <2>1, <3>1, PaidTyped DEF Paid
  <2>3. Paid(d)' <= Paid(d)
    BY <2>2
  <2>4. /\ \A j \in DOMAIN records : j \in DOMAIN records' /\ records'[j].del = records[j].del
        /\ \A j \in DOMAIN records' \ DOMAIN records : records'[j].del = d => OfDelivery(records, d) # {}
    BY <1>4, <1>5, <1>8 DEF Added
  <2> QED
    BY <1>1, <1>6, <2>3, <2>4, CreditKeeps
<1>9. CASE records[i].del = d
  <2>1. i \in K /\ OfDelivery(records', d) = K \union {Len(records) + 1}
    BY <1>1, <1>4, <1>5, <1>7, <1>9 DEF Added, OfDelivery
  <2>2. OneCredit(d)'
    BY <1>1, <1>6 DEF OneCredit, Becomes
  <2>3. CreditIsFirst(d)'
    BY <1>1, <1>6, <1>7, <2>1 DEF CreditIsFirst, Becomes
  <2>4. ASSUME ~overlapped' PROVE ShareKept(d)'
    <3>1. OneWithdrawal /\ ShareKept(d)
      BY <1>1, <1>6, <2>4 DEF AloneInv
    <3>2. Paid(d) + req[q].left <= Payout(d)
      BY <1>1, <1>9, <3>1 DEF ShareKept
    <3>3. Paid(d)' = Paid(d) + req[q].left
      <4>1. records \in Seq(EarningType)
        BY BaseTypes
      <4>2. Total(Worth(records'), K \union {Len(records) + 1}) = Total(Worth(records), K) + e.amount
        BY <1>5, <1>7, <4>1, AddedWorth
      <4> QED
        BY <1>4, <1>7, <2>1, <4>2 DEF Paid
    <3>4. \A p \in Requests : req'[p].at # "split"
      BY <1>1, <3>1, LabelSets DEF OneWithdrawal, Becomes
    <3> QED
      BY <3>2, <3>3, <3>4 DEF ShareKept
  <2> QED
    BY <2>2, <2>3, <2>4
<1> QED
  BY <1>8, <1>9

LEMMA CreditStarts ==
    ASSUME Base, Base', CreditInv, NEW q \in Requests, NEW c \in Deliveries, StartCredit(q, c)
    PROVE  CreditInv'
<1>1. /\ req[q].at = "idle" /\ records' = records /\ overlapped' = overlapped
      /\ raced' = IF \E p \in Requests : req[p].del = c THEN raced \union {c} ELSE raced
  BY StartCreditDoes DEF At
<1>2. raced \subseteq raced'
  BY <1>1
<1>3. CASE UNCHANGED req
  BY <1>1, <1>2, <1>3 DEF CreditInv, OneCredit, CreditIsFirst, ShareKept, Paid, Found
<1>4. CASE /\ OfDelivery(records, c) = {}
           /\ Becomes(q, req'[q]) /\ req'[q] = [Idle EXCEPT !.at = "create", !.del = c]
  <2>1. req'[q].at = "create" /\ req'[q].del = c
    BY <1>4 DEF Idle
  <2>2. ASSUME NEW d \in Deliveries, d \notin raced'
        PROVE  OneCredit(d)' /\ CreditIsFirst(d)' /\ (~overlapped' => ShareKept(d)')
    <3>1. d \notin raced /\ (d = c => \A p \in Requests : req[p].del # d)
      BY <1>1, <1>2, <2>2
    <3>2. OneCredit(d) /\ CreditIsFirst(d) /\ (~overlapped => ShareKept(d))
      BY <3>1 DEF CreditInv
    <3>3. OneCredit(d)'
      <4>1. \A p \in Requests \ {q} : req'[p].del = d => req[p].del = d
        BY <1>4 DEF Becomes
      <4>2. CASE c = d
        BY <3>1, <4>1, <4>2 DEF OneCredit
      <4>3. CASE c # d
        BY <2>1, <3>2, <4>1, <4>3 DEF OneCredit
      <4> QED
        BY <4>2, <4>3
    <3>4. CreditIsFirst(d)'
      <4>1. ASSUME NEW p \in Requests, req'[p].at = "create", req'[p].del = d
            PROVE  OfDelivery(records, d) = {}
        <5>1. CASE p = q
          BY <1>4, <2>1, <4>1, <5>1
        <5>2. CASE p # q
          BY <1>4, <3>2, <4>1, <5>2 DEF CreditIsFirst, Becomes
        <5> QED
          BY <5>1, <5>2
      <4> QED
        BY <1>1, <4>1 DEF CreditIsFirst
    <3>5. ASSUME ~overlapped' PROVE ShareKept(d)'
      <4>1. ShareKept(d) /\ Paid(d)' = Paid(d)
        BY <1>1, <3>2, <3>5 DEF Paid
      <4>2. ASSUME NEW p \in Requests, req'[p].at = "split", records'[First(req'[p].todo).index].del = d
            PROVE  Paid(d)' + req'[p].left <= Payout(d)
        <5>1. req'[p] = req[p]
          BY <1>4, <2>1, <4>2 DEF Becomes
        <5>2. Found(p) = First(req'[p].todo)
          BY <5>1, FoundFirst
        <5> QED
          BY <1>1, <4>1, <4>2, <5>1, <5>2 DEF ShareKept
      <4> QED
        BY <4>1, <4>2, FoundNext DEF ShareKept
    <3> QED
      BY <3>3, <3>4, <3>5
  <2> QED
    BY <2>2 DEF CreditInv
<1> QED
  BY <1>3, <1>4, StartCreditDoes

(* Nothing but a new credit, and the splits of earnings, touches them.     *)
LEMMA CreditStep == Base /\ Base' /\ AloneInv /\ CreditInv /\ [Next]_vars => CreditInv'
<1> SUFFICES ASSUME Base, Base', AloneInv, CreditInv, [Next]_vars PROVE CreditInv'
  OBVIOUS
<1>1. CASE UNCHANGED vars
  BY <1>1 DEF vars, books, history, CreditInv, OneCredit, CreditIsFirst, ShareKept, Paid, Found
<1>2. ASSUME NEW q \in Requests, Credit(q) PROVE CreditInv'
  <2>1. CASE IncrementBalance(q)
    <3>1. Moves(q, "commission") /\ raced' = raced /\ overlapped' = overlapped /\ records' = records
      BY <2>1, IncrementDoes
    <3> QED
      BY <3>1, MovesTamely, CreditTame
  <2>2. CASE CreateCommission(q)
    <3>1. Becomes(q, Idle) /\ raced' = raced /\ overlapped' = overlapped /\ records' = records
      BY <2>2, CommissionDoes
    <3> QED
      BY <3>1, FinishesTamely, CreditTame
  <2> QED
    BY <1>2, <2>1, <2>2, CreditCreates DEF Credit
<1>3. ASSUME NEW q \in Requests, Withdraw(q) PROVE CreditInv'
  <2>1. CASE CheckBalance(q)
    <3>1. /\ Moves(q, "find") \/ Becomes(q, Idle)
          /\ raced' = raced /\ overlapped' = overlapped /\ records' = records
      BY <2>1, CheckDoes
    <3> QED
      BY <3>1, MovesTamely, FinishesTamely, CreditTame
  <2>2. CASE FindEarnings(q)
    <3>1. /\ Becomes(q, req'[q]) /\ req'[q].at = "hold" /\ req'[q].del = req[q].del
          /\ raced' = raced /\ overlapped' = overlapped /\ records' = records
      BY <2>2, FindDoes
    <3>2. Tame(q)
      BY <3>1, RecordsStay DEF Tame
    <3> QED
      BY <3>2, CreditTame
  <2>3. CASE HoldWhole(q)
    <3>1. /\ Becomes(q, req'[q]) /\ req'[q].at = "hold" /\ req'[q].del = req[q].del
          /\ raced' = raced /\ overlapped' = overlapped
          /\ Altered(records, records', Found(q).index,
                     [records[Found(q).index] EXCEPT !.status = "held", !.ref = req[q].ref])
      BY <2>3, HoldWholeDoes
    <3>2. PICK e : e = [records[Found(q).index] EXCEPT !.status = "held", !.ref = req[q].ref]
      OBVIOUS
    <3>3. Altered(records, records', Found(q).index, e)
      BY <3>1, <3>2
    <3>4. records[Found(q).index] \in EarningType
      BY <3>3, BaseTypes, RecordTyped DEF Altered
    <3>5. e.del = records[Found(q).index].del /\ e.amount = records[Found(q).index].amount
      BY <3>2, <3>4 DEF EarningType
    <3>6. /\ records' \in Seq(EarningType) /\ DOMAIN records' = DOMAIN records
          /\ \A i \in DOMAIN records : records'[i].del = records[i].del /\ records'[i].amount = records[i].amount
      BY <3>3, <3>5 DEF Altered
    <3>7. Tame(q)
      BY <3>1, <3>6 DEF Tame
    <3> QED
      BY <3>7, CreditTame
  <2>4. CASE HeldAll(q)
    <3>1. Moves(q, "deduct") /\ raced' = raced /\ overlapped' = overlapped /\ records' = records
      BY <2>4, HeldAllDoes
    <3> QED
      BY <3>1, MovesTamely, CreditTame
  <2>5. CASE DeductBalance(q)
    <3>1. Moves(q, "file") /\ raced' = raced /\ overlapped' = overlapped /\ records' = records
      BY <2>5, DeductDoes
    <3> QED
      BY <3>1, MovesTamely, CreditTame
  <2>6. CASE FileRequest(q)
    <3>1. Becomes(q, Idle) /\ raced' = raced /\ overlapped' = overlapped /\ records' = records
      BY <2>6, FileDoes
    <3> QED
      BY <3>1, FinishesTamely, CreditTame
  <2> QED
    BY <1>3, <2>1, <2>2, <2>3, <2>4, <2>5, <2>6, CreditSplits, CreditHeld DEF Withdraw
<1>4. ASSUME NEW q \in Requests, Settle(q) PROVE CreditInv'
  <2>1. CASE PayOut(q)
    <3>1. /\ Moves(q, "approve") /\ Updated(records, records', req[q].ref, "withdrawn", req[q].ref)
          /\ raced' = raced /\ overlapped' = overlapped
      BY <2>1, PayOutDoes
    <3>2. PICK w : w = req[q].ref
      OBVIOUS
    <3>3. Tame(q)
      BY <3>1, <3>2, UpdatedSame DEF Tame, Moves
    <3> QED
      BY <3>3, CreditTame
  <2>2. CASE ReleaseHeld(q)
    <3>1. /\ Moves(q, "restore") /\ Updated(records, records', req[q].ref, "available", NoReference)
          /\ raced' = raced /\ overlapped' = overlapped
      BY <2>2, ReleaseDoes
    <3>2. PICK w : w = req[q].ref
      OBVIOUS
    <3>3. Tame(q)
      BY <3>1, <3>2, UpdatedSame DEF Tame, Moves
    <3> QED
      BY <3>3, CreditTame
  <2>3. CASE RestoreBalance(q)
    <3>1. Moves(q, "reject") /\ raced' = raced /\ overlapped' = overlapped /\ records' = records
      BY <2>3, RestoreDoes
    <3> QED
      BY <3>1, MovesTamely, CreditTame
  <2>4. CASE Approve(q) \/ Reject(q)
    <3>1. Becomes(q, Idle) /\ raced' = raced /\ overlapped' = overlapped /\ records' = records
      BY <2>4, ApproveDoes, RejectDoes
    <3> QED
      BY <3>1, FinishesTamely, CreditTame
  <2> QED
    BY <1>4, <2>1, <2>2, <2>3, <2>4 DEF Settle
<1>5. ASSUME NEW q \in Requests, Fail(q) PROVE CreditInv'
  <2>1. Becomes(q, Idle) /\ raced' = raced /\ overlapped' = overlapped /\ records' = records
    BY <1>5, FailDoes
  <2> QED
    BY <2>1, FinishesTamely, CreditTame
<1>6. ASSUME NEW q \in Requests, NEW w \in References, NEW n \in Amounts, StartWithdrawal(q, w, n)
      PROVE  CreditInv'
  <2>1. /\ Becomes(q, req'[q]) /\ records' = records /\ raced' = raced
        /\ req'[q].at = "balance" /\ req'[q].del = NoDelivery
        /\ overlapped' = (overlapped \/ Busy(Withdrawing))
    BY <1>6, StartWithdrawalDoes
  <2>2. req'[q].at = "balance" /\ req'[q].del = NoDelivery
    BY <2>1 DEF Idle
  <2>3. Tame(q)
    BY <2>1, <2>2, RecordsStay DEF Tame
  <2> QED
    BY <2>3, CreditTame
<1>7. ASSUME NEW q \in Requests, NEW w \in References, StartApproval(q, w) \/ StartRejection(q, w)
      PROVE  CreditInv'
  <2>1. PICK l : (l = "payOut" \/ l = "release") /\ Decide(q, w, l)
    BY <1>7 DEF StartApproval, StartRejection
  <2>2. /\ Becomes(q, req'[q]) /\ req'[q].at = l /\ req'[q].del = NoDelivery
        /\ records' = records /\ raced' = raced /\ overlapped' = (overlapped \/ Busy(Deciding))
    BY <2>1, DecideDoes
  <2>3. req'[q].at = l /\ req'[q].del = NoDelivery
    BY <2>2 DEF Idle
  <2>4. Tame(q)
    BY <2>1, <2>2, <2>3, RecordsStay DEF Tame
  <2> QED
    BY <2>4, CreditTame
<1> QED
  BY <1>1, <1>2, <1>3, <1>4, <1>5, <1>6, <1>7, CreditStarts DEF Next, Step

LEMMA SharesKept == Base /\ CreditInv => NeverOverpaid
<1> SUFFICES ASSUME Base, CreditInv, NEW d \in Deliveries \ raced, ~overlapped
             PROVE  SumOf(LAMBDA e : e.del = d) <= Payout(d)
  BY Zenon DEF NeverOverpaid
<1>1. Paid(d) <= Payout(d)
  BY DEF CreditInv, ShareKept
<1>2. SumOf(LAMBDA e : e.del = d) = Paid(d)
  BY BaseTypes, DeliveryIsTotal DEF Paid
<1> QED
  BY <1>1, <1>2

LEMMA CreditAlways == Spec => [](Base /\ AloneInv /\ CreditInv)
  BY BaseInit, BaseStep, AloneInit, AloneStep, CreditInit, CreditStep, PTL DEF Spec

(* Unless two credits of it ran at once, the earnings of a delivery never  *)
(* add up to more than the rider's share of its price: no second report    *)
(* credits it again, and no split of an earning makes more of it.          *)
THEOREM NeverOverpaidHolds == Spec => []NeverOverpaid
  BY CreditAlways, SharesKept, PTL

-----------------------------------------------------------------------------
(* What the records add up to: all of them, those of a status, and those   *)
(* of a withdrawal.                                                        *)
Whole(r)      == Total(Worth(r), DOMAIN r)
Sum(r, s)     == Total(Worth(r), With(r, s))
Have(r, w, s) == Total(Worth(r), ForWhat(r, w, s))

LEMMA SumsTyped ==
    ASSUME NEW r \in Seq(EarningType)
    PROVE  /\ Whole(r) \in Nat
           /\ \A s : Sum(r, s) \in Nat
           /\ \A w, s : Have(r, w, s) \in Nat
  BY TotalTyped DEF Whole, Sum, Have, With, ForWhat

(* Nothing is held for a withdrawal that has no record, and the other way  *)
(* round.                                                                  *)
LEMMA NothingHeld ==
    ASSUME NEW r \in Seq(EarningType), NEW w, NEW s
    PROVE  Have(r, w, s) = 0 <=> ForWhat(r, w, s) = {}
<1> DEFINE K == ForWhat(r, w, s)
<1>1. K \subseteq DOMAIN r
  BY DEF ForWhat
<1>2. /\ Numbers(Worth(r)) /\ DOMAIN Worth(r) = DOMAIN r
      /\ \A i \in K : Worth(r)[i] \in Nat \ {0}
  BY <1>1, WorthNumbers
<1>3. ASSUME K = {} PROVE Total(Worth(r), K) = 0
  BY <1>2, <1>3, TotalAdds
<1>4. ASSUME NEW i \in K PROVE Total(Worth(r), K) # 0
  <2>1. Worth(r)[i] <= Total(Worth(r), K) /\ Total(Worth(r), K) >= 0
    BY <1>1, <1>2, TotalOfPart
  <2>2. Total(Worth(r), K) \in Nat
    BY <1>1, TotalTyped
  <2> QED
    BY <1>2, <2>1, <2>2
<1> QED
  BY <1>3, <1>4 DEF Have

LEMMA AddedSums ==
    ASSUME NEW r \in Seq(EarningType), NEW k, NEW e, Added(r, k, e)
    PROVE  /\ Whole(k) = Whole(r) + e.amount
           /\ \A s : Sum(k, s) = IF e.status = s THEN Sum(r, s) + e.amount ELSE Sum(r, s)
           /\ \A w, s : Have(k, w, s) = IF e.status = s /\ e.ref = w
                                        THEN Have(r, w, s) + e.amount ELSE Have(r, w, s)
<1> DEFINE n == Len(r) + 1
<1>1. Whole(k) = Whole(r) + e.amount
  <2>1. PICK K : K = DOMAIN r
    OBVIOUS
  <2>2. Total(Worth(k), K \union {n}) = Total(Worth(r), K) + e.amount
    BY <2>1, AddedWorth
  <2> QED
    BY <2>1, <2>2 DEF Whole, Added
<1>2. ASSUME NEW s PROVE Sum(k, s) = IF e.status = s THEN Sum(r, s) + e.amount ELSE Sum(r, s)
  <2>1. PICK K : K = With(r, s) /\ K \subseteq DOMAIN r
    BY DEF With
  <2>2. With(k, s) = IF e.status = s THEN K \union {n} ELSE K
    BY <2>1 DEF Added, With
  <2>3. /\ Total(Worth(k), K \union {n}) = Total(Worth(r), K) + e.amount
        /\ Total(Worth(k), K) = Total(Worth(r), K)
    BY <2>1, AddedWorth, AddedLeaves
  <2> QED
    BY <2>1, <2>2, <2>3 DEF Sum
<1>3. ASSUME NEW w, NEW s
      PROVE  Have(k, w, s) = IF e.status = s /\ e.ref = w THEN Have(r, w, s) + e.amount ELSE Have(r, w, s)
  <2>1. PICK K : K = ForWhat(r, w, s) /\ K \subseteq DOMAIN r
    BY DEF ForWhat
  <2>2. ForWhat(k, w, s) = IF e.status = s /\ e.ref = w THEN K \union {n} ELSE K
    BY <2>1 DEF Added, ForWhat
  <2>3. /\ Total(Worth(k), K \union {n}) = Total(Worth(r), K) + e.amount
        /\ Total(Worth(k), K) = Total(Worth(r), K)
    BY <2>1, AddedWorth, AddedLeaves
  <2> QED
    BY <2>1, <2>2, <2>3 DEF Have
<1> QED
  BY <1>1, <1>2, <1>3

(* A record that changes leaves one set of records and joins another.      *)
LEMMA AlteredTotal ==
    ASSUME NEW r \in Seq(EarningType), NEW k, NEW i, NEW e, Altered(r, k, i, e),
           NEW K, NEW L, K \subseteq DOMAIN r, L \subseteq DOMAIN r, K \ {i} = L \ {i}
    PROVE  Total(Worth(k), L) = Total(Worth(r), K) - (IF i \in K THEN r[i].amount ELSE 0)
                                                   + (IF i \in L THEN e.amount ELSE 0)
<1> DEFINE M == K \ {i}
<1>1. M \subseteq DOMAIN r /\ M \subseteq DOMAIN k /\ k \in Seq(EarningType) /\ i \in DOMAIN r
      /\ k[i] = e /\ DOMAIN k = DOMAIN r
  BY DEF Altered
<1>2. Total(Worth(k), M) = Total(Worth(r), M)
  <2>1. \A j \in M : k[j].amount = r[j].amount
    BY <1>1 DEF Altered
  <2> HIDE DEF M
  <2> QED
    BY <1>1, <2>1, SameWorth
<1>3. /\ Total(Worth(r), M) \in Int
      /\ r[i].amount \in Int /\ Worth(r)[i] = r[i].amount
      /\ e.amount \in Int /\ Worth(k)[i] = e.amount
  <2>1. Total(Worth(r), M) \in Nat
    BY <1>1, TotalTyped
  <2>2. Worth(r)[i] = r[i].amount /\ Worth(r)[i] \in Nat
    BY <1>1, WorthNumbers
  <2>3. Worth(k)[i] = k[i].amount /\ Worth(k)[i] \in Nat
    BY <1>1, WorthNumbers
  <2> QED
    BY <1>1, <2>1, <2>2, <2>3
<1>4. Total(Worth(r), K) = Total(Worth(r), M) + (IF i \in K THEN r[i].amount ELSE 0)
  <2>1. CASE i \in K
    <3>1. K \in SUBSET DOMAIN Worth(r) /\ Numbers(Worth(r))
      BY WorthNumbers
    <3>2. Total(Worth(r), K) = Total(Worth(r), K \ {i}) + Worth(r)[i]
      BY <2>1, <3>1, TotalAdds
    <3> QED
      BY <1>3, <2>1, <3>2
  <2>2. CASE i \notin K
    <3>1. M = K
      BY <2>2
    <3> HIDE DEF M
    <3> QED
      BY <1>3, <2>2, <3>1
  <2> QED
    BY <2>1, <2>2
<1>5. Total(Worth(k), L) = Total(Worth(k), M) + (IF i \in L THEN e.amount ELSE 0)
  <2>1. CASE i \in L
    <3>1. L \in SUBSET DOMAIN Worth(k) /\ Numbers(Worth(k))
      BY <1>1, WorthNumbers
    <3>2. Total(Worth(k), L) = Total(Worth(k), L \ {i}) + Worth(k)[i]
      BY <2>1, <3>1, TotalAdds
    <3>3. L \ {i} = M
      OBVIOUS
    <3>4. Total(Worth(k), L) = Total(Worth(k), M) + e.amount
      BY <1>3, <3>2, <3>3
    <3> QED
      BY <2>1, <3>4
  <2>2. CASE i \notin L
    <3>1. M = L
      BY <2>2
    <3> HIDE DEF M
    <3> QED
      BY <1>2, <1>3, <2>2, <3>1
  <2> QED
    BY <2>1, <2>2
<1> QED
  BY <1>2, <1>3, <1>4, <1>5

LEMMA AlteredSums ==
    ASSUME NEW r \in Seq(EarningType), NEW k, NEW i, NEW e, Altered(r, k, i, e)
    PROVE  /\ Whole(k) = Whole(r) - r[i].amount + e.amount
           /\ \A s : Sum(k, s) = Sum(r, s) - (IF r[i].status = s THEN r[i].amount ELSE 0)
                                           + (IF e.status = s THEN e.amount ELSE 0)
           /\ \A w, s : Have(k, w, s) =
                 Have(r, w, s) - (IF r[i].status = s /\ r[i].ref = w THEN r[i].amount ELSE 0)
                               + (IF e.status = s /\ e.ref = w THEN e.amount ELSE 0)
<1>1. Whole(k) = Whole(r) - r[i].amount + e.amount
  <2>1. PICK K : K = DOMAIN r
    OBVIOUS
  <2>2. i \in K /\ DOMAIN k = K
    BY <2>1 DEF Altered
  <2>3. Total(Worth(k), K) = Total(Worth(r), K) - (IF i \in K THEN r[i].amount ELSE 0)
                                                + (IF i \in K THEN e.amount ELSE 0)
    BY <2>1, AlteredTotal
  <2> QED
    BY <2>1, <2>2, <2>3 DEF Whole
<1>2. ASSUME NEW s
      PROVE  Sum(k, s) = Sum(r, s) - (IF r[i].status = s THEN r[i].amount ELSE 0)
                                   + (IF e.status = s THEN e.amount ELSE 0)
  <2>1. PICK K, L : K = With(r, s) /\ L = With(k, s)
    OBVIOUS
  <2>2. /\ K \subseteq DOMAIN r /\ L \subseteq DOMAIN r /\ K \ {i} = L \ {i}
        /\ i \in K <=> r[i].status = s
        /\ i \in L <=> e.status = s
    BY <2>1 DEF Altered, With
  <2>3. Total(Worth(k), L) = Total(Worth(r), K) - (IF i \in K THEN r[i].amount ELSE 0)
                                                + (IF i \in L THEN e.amount ELSE 0)
    BY <2>2, AlteredTotal
  <2> QED
    BY <2>1, <2>2, <2>3 DEF Sum
<1>3. ASSUME NEW w, NEW s
      PROVE  Have(k, w, s) =
                 Have(r, w, s) - (IF r[i].status = s /\ r[i].ref = w THEN r[i].amount ELSE 0)
                               + (IF e.status = s /\ e.ref = w THEN e.amount ELSE 0)
  <2>1. PICK K, L : K = ForWhat(r, w, s) /\ L = ForWhat(k, w, s)
    OBVIOUS
  <2>2. /\ K \subseteq DOMAIN r /\ L \subseteq DOMAIN r /\ K \ {i} = L \ {i}
        /\ i \in K <=> r[i].status = s /\ r[i].ref = w
        /\ i \in L <=> e.status = s /\ e.ref = w
    BY <2>1 DEF Altered, ForWhat
  <2>3. Total(Worth(k), L) = Total(Worth(r), K) - (IF i \in K THEN r[i].amount ELSE 0)
                                                + (IF i \in L THEN e.amount ELSE 0)
    BY <2>2, AlteredTotal
  <2> QED
    BY <2>1, <2>2, <2>3 DEF Have
<1> QED
  BY <1>1, <1>2, <1>3

(* All that is held for w goes to another status.                          *)
LEMMA UpdatedSums ==
    ASSUME NEW r \in Seq(EarningType), NEW k, NEW w, NEW s \in {"available", "withdrawn"}, NEW v,
           Updated(r, k, w, s, v)
    PROVE  /\ Whole(k) = Whole(r)
           /\ Sum(k, s) = Sum(r, s) + Have(r, w, "held")
           /\ \A t : t \notin {s, "held"} => Sum(k, t) = Sum(r, t)
           /\ Have(k, w, "held") = 0
           /\ \A u : u # w => Have(k, u, "held") = Have(r, u, "held")
           /\ Have(k, v, s) = Have(r, v, s) + Have(r, w, "held")
           /\ \A u, t : t # "held" /\ (t # s \/ u # v) => Have(k, u, t) = Have(r, u, t)
<1> DEFINE H == ForWhat(r, w, "held")
<1>0. /\ k \in Seq(EarningType) /\ DOMAIN k = DOMAIN r /\ H \subseteq DOMAIN r
      /\ \A i \in DOMAIN r : (i \in H => r[i].status = "held" /\ r[i].ref = w) /\ (r[i].status = "held" /\ r[i].ref = w => i \in H)
  BY DEF Updated, ForWhat
<1>1. ASSUME NEW i \in DOMAIN r
      PROVE  /\ k[i].amount = r[i].amount
             /\ i \in H => k[i].status = s /\ k[i].ref = v
             /\ i \notin H => k[i] = r[i]
  <2>1. r[i] \in EarningType
    BY RecordTyped
  <2>2. PICK e : e = [r[i] EXCEPT !.status = s, !.ref = v]
    OBVIOUS
  <2>3. e.amount = r[i].amount /\ e.status = s /\ e.ref = v
    BY <2>1, <2>2 DEF EarningType
  <2>4. k[i] = IF r[i].status = "held" /\ r[i].ref = w THEN e ELSE r[i]
    BY <2>2 DEF Updated
  <2> QED
    BY <1>0, <2>3, <2>4
<1> HIDE DEF H
<1>2. ASSUME NEW K, K \subseteq DOMAIN r PROVE Total(Worth(k), K) = Total(Worth(r), K)
  BY <1>0, <1>1, <1>2, SameWorth
<1>3. ASSUME NEW K, K \subseteq DOMAIN r, K \cap H = {}
      PROVE  Total(Worth(k), K \union H) = Total(Worth(r), K) + Total(Worth(r), H)
  <2>1. Total(Worth(k), K \union H) = Total(Worth(r), K \union H)
    BY <1>0, <1>2, <1>3
  <2>2. Numbers(Worth(r)) /\ DOMAIN Worth(r) = DOMAIN r
    BY WorthNumbers
  <2>3. Total(Worth(r), K \union H) = Total(Worth(r), K) + Total(Worth(r), H)
    BY <1>0, <1>3, <2>2, TotalOfUnion
  <2> QED
    BY <2>1, <2>3
<1>4. Whole(k) = Whole(r)
  BY <1>0, <1>2 DEF Whole
<1>5. Sum(k, s) = Sum(r, s) + Have(r, w, "held")
  <2>1. With(k, s) = With(r, s) \union H /\ With(r, s) \cap H = {} /\ With(r, s) \subseteq DOMAIN r
    BY <1>0, <1>1 DEF With
  <2>2. PICK K : K = With(r, s)
    OBVIOUS
  <2> QED
    BY <1>3, <2>1, <2>2 DEF Sum, Have, H
<1>6. ASSUME NEW t, t \notin {s, "held"} PROVE Sum(k, t) = Sum(r, t)
  <2>1. With(k, t) = With(r, t) /\ With(r, t) \subseteq DOMAIN r
    BY <1>0, <1>1, <1>6 DEF With
  <2>2. PICK K : K = With(r, t)
    OBVIOUS
  <2> QED
    BY <1>2, <2>1, <2>2 DEF Sum
<1>7. Have(k, w, "held") = 0
  <2>1. ForWhat(k, w, "held") = {}
    BY <1>0, <1>1 DEF ForWhat
  <2> QED
    BY <1>0, <2>1, NothingHeld
<1>8. ASSUME NEW u, u # w PROVE Have(k, u, "held") = Have(r, u, "held")
  <2>1. ForWhat(k, u, "held") = ForWhat(r, u, "held") /\ ForWhat(r, u, "held") \subseteq DOMAIN r
    BY <1>0, <1>1, <1>8 DEF ForWhat
  <2>2. PICK K : K = ForWhat(r, u, "held")
    OBVIOUS
  <2> QED
    BY <1>2, <2>1, <2>2 DEF Have
<1>9. Have(k, v, s) = Have(r, v, s) + Have(r, w, "held")
  <2>1. ForWhat(k, v, s) = ForWhat(r, v, s) \union H /\ ForWhat(r, v, s) \cap H = {}
        /\ ForWhat(r, v, s) \subseteq DOMAIN r
    BY <1>0, <1>1 DEF ForWhat
  <2>2. PICK K : K = ForWhat(r, v, s)
    OBVIOUS
  <2> QED
    BY <1>3, <2>1, <2>2 DEF Have, H
<1>10. ASSUME NEW u, NEW t, t # "held", t # s \/ u # v PROVE Have(k, u, t) = Have(r, u, t)
  <2>1. ForWhat(k, u, t) = ForWhat(r, u, t) /\ ForWhat(r, u, t) \subseteq DOMAIN r
    BY <1>0, <1>1, <1>10 DEF ForWhat
  <2>2. PICK K : K = ForWhat(r, u, t)
    OBVIOUS
  <2> QED
    BY <1>2, <2>1, <2>2 DEF Have
<1> QED
  BY <1>4, <1>5, <1>6, <1>7, <1>8, <1>9, <1>10

-----------------------------------------------------------------------------
(* At most one withdrawal is under way, filed or being decided.            *)

Calm == faults = 0 /\ ~overlapped

OneDecision ==
    \A p, q \in Requests : req[p].at \in Deciding /\ req[q].at \in Deciding => p = q

OnePending == \A v, w \in References : filed[v] = "pending" /\ filed[w] = "pending" => v = w

KnownRefs == \A w \in References : filed[w] # "none" => w \in started

(* A withdrawal is under way before it is filed, and no other is filed     *)
(* meanwhile; what is being decided is filed.                              *)
InTurn(q) ==
    /\ req[q].at \in Withdrawing =>
          /\ req[q].ref \in started /\ filed[req[q].ref] = "none"
          /\ \A v \in References : filed[v] # "pending"
    /\ req[q].at \in Deciding => filed[req[q].ref] = "pending"

OneAtATime == OneDecision /\ OnePending /\ KnownRefs /\ \A q \in Requests : InTurn(q)

(* Paying out what was held leaves the whole and what is available.        *)
LEMMA PaidOutSums ==
    ASSUME NEW r \in Seq(EarningType), NEW k, NEW w, Updated(r, k, w, "withdrawn", w)
    PROVE  Whole(k) = Whole(r) /\ Sum(k, "available") = Sum(r, "available")
<1>1. PICK s \in {"available", "withdrawn"} : s = "withdrawn"
  OBVIOUS
<1>2. Updated(r, k, w, s, w)
  BY <1>1
<1>3. Whole(k) = Whole(r) /\ \A t : t \notin {s, "held"} => Sum(k, t) = Sum(r, t)
  BY <1>2, UpdatedSums
<1> QED
  BY <1>1, <1>3

OneInv == Calm => OneAtATime

LEMMA KindsDiffer ==
    /\ \A l \in Withdrawing : l \notin Deciding /\ l \notin Crediting /\ l # "idle"
    /\ \A l \in Deciding : l \notin Withdrawing /\ l \notin Crediting /\ l # "idle"
  BY LabelSets

LEMMA CalmBefore ==
    ASSUME Base, [Next]_vars, Calm'
    PROVE  Calm
<1> USE DEF Calm
<1>1. CASE UNCHANGED vars
  BY <1>1 DEF vars, history
<1>2. ASSUME NEW q \in Requests, Fail(q) PROVE FALSE
  BY <1>2, FailDoes
<1>3. ASSUME NEW q \in Requests, Credit(q) PROVE Calm
  BY <1>3, CreateDoes, IncrementDoes, CommissionDoes DEF Credit
<1>4. ASSUME NEW q \in Requests, Withdraw(q) PROVE Calm
  BY <1>4, CheckDoes, FindDoes, HoldWholeDoes, HoldPartDoes, CreateHeldDoes, HeldAllDoes, DeductDoes,
     FileDoes DEF Withdraw
<1>5. ASSUME NEW q \in Requests, Settle(q) PROVE Calm
  BY <1>5, PayOutDoes, ApproveDoes, ReleaseDoes, RestoreDoes, RejectDoes DEF Settle
<1>6. ASSUME NEW q \in Requests, NEW d \in Deliveries, StartCredit(q, d) PROVE Calm
  BY <1>6, StartCreditDoes
<1>7. ASSUME NEW q \in Requests, NEW w \in References, NEW n \in Amounts, StartWithdrawal(q, w, n)
      PROVE  Calm
  BY <1>7, StartWithdrawalDoes
<1>8. ASSUME NEW q \in Requests, NEW w \in References, StartApproval(q, w) \/ StartRejection(q, w)
      PROVE  Calm
  BY <1>8, DecideDoes DEF StartApproval, StartRejection
<1> QED
  BY <1>1, <1>2, <1>3, <1>4, <1>5, <1>6, <1>7, <1>8 DEF Next, Step

LEMMA OneInit == Init => OneInv
<1> SUFFICES ASSUME Init PROVE OneAtATime
  BY DEF OneInv
<1>1. \A q \in Requests : req[q].at = "idle"
  BY DEF Init, Idle
<1> QED
  BY <1>1, KindsDiffer DEF Init, OneAtATime, OneDecision, OnePending, KnownRefs, InTurn

(* A step that neither starts, files, nor decides a withdrawal.            *)
LEMMA OneKeeps ==
    ASSUME OneAtATime, NEW q \in Requests, Becomes(q, req'[q]), filed' = filed, started' = started,
           req'[q].at \in Withdrawing => req[q].at \in Withdrawing /\ req'[q].ref = req[q].ref,
           req'[q].at \in Deciding => req[q].at \in Deciding /\ req'[q].ref = req[q].ref
    PROVE  OneAtATime'
<1>1. OneDecision'
  BY DEF OneAtATime, OneDecision, Becomes
<1>2. OnePending' /\ KnownRefs'
  BY DEF OneAtATime, OnePending, KnownRefs
<1>3. ASSUME NEW p \in Requests PROVE InTurn(p)'
  <2>1. InTurn(p)
    BY DEF OneAtATime
  <2>2. CASE p = q
    BY <2>1, <2>2 DEF InTurn
  <2>3. CASE p # q
    BY <2>1, <2>3 DEF InTurn, Becomes
  <2> QED
    BY <2>2, <2>3
<1> QED
  BY <1>1, <1>2, <1>3 DEF OneAtATime

LEMMA OneMoves ==
    ASSUME OneAtATime, NEW q \in Requests, NEW l, Moves(q, l), filed' = filed, started' = started,
           l \in Withdrawing => req[q].at \in Withdrawing,
           l \in Deciding => req[q].at \in Deciding
    PROVE  OneAtATime'
  BY OneKeeps DEF Moves

LEMMA OneFinishes ==
    ASSUME OneAtATime, NEW q \in Requests, Becomes(q, Idle), filed' = filed, started' = started
    PROVE  OneAtATime'
<1>1. Becomes(q, req'[q]) /\ req'[q].at = "idle"
  BY DEF Becomes, Idle
<1> QED
  BY <1>1, KindsDiffer, OneKeeps

LEMMA OneStarts ==
    ASSUME Base, OneAtATime, NEW q \in Requests, NEW w \in References, NEW n \in Amounts,
           StartWithdrawal(q, w, n)
    PROVE  OneAtATime'
<1>1. /\ Becomes(q, req'[q]) /\ filed' = filed /\ started' = started \union {w}
      /\ req'[q].at = "balance" /\ req'[q].ref = w
      /\ w \notin started /\ \A v \in References : filed[v] # "pending"
  BY StartWithdrawalDoes
<1>2. req'[q].at = "balance" /\ req'[q].ref = w /\ "balance" \notin Deciding
  BY <1>1, LabelSets DEF Idle
<1>3. filed[w] = "none"
  BY <1>1 DEF OneAtATime, KnownRefs
<1>4. OneDecision' /\ OnePending' /\ KnownRefs'
  <2>1. \A p \in Requests : req'[p].at \in Deciding => req[p].at \in Deciding
    BY <1>1, <1>2 DEF Becomes
  <2>2. OneDecision'
    BY <2>1 DEF OneAtATime, OneDecision
  <2>3. OnePending' /\ KnownRefs'
    BY <1>1 DEF OneAtATime, OnePending, KnownRefs
  <2> QED
    BY <2>2, <2>3
<1>5. ASSUME NEW p \in Requests PROVE InTurn(p)'
  <2>1. InTurn(p)
    BY DEF OneAtATime
  <2>2. CASE p = q
    BY <1>1, <1>2, <1>3, <2>2 DEF InTurn
  <2>3. CASE p # q
    BY <1>1, <2>1, <2>3 DEF InTurn, Becomes
  <2> QED
    BY <2>2, <2>3
<1> QED
  BY <1>4, <1>5 DEF OneAtATime

LEMMA OneDecides ==
    ASSUME Base, OneAtATime, NEW q \in Requests, NEW w \in References, NEW l,
           l = "payOut" \/ l = "release", Decide(q, w, l), ~overlapped'
    PROVE  OneAtATime'
<1>1. /\ Becomes(q, req'[q]) /\ filed' = filed /\ started' = started /\ filed[w] = "pending"
      /\ req'[q].at = l /\ req'[q].ref = w /\ ~Busy(Deciding)
  BY DecideDoes
<1>2. req'[q].at = l /\ req'[q].ref = w /\ l \notin Withdrawing
  BY <1>1, LabelSets DEF Idle
<1>3. \A p \in Requests : req[p].at \notin Deciding
  BY <1>1 DEF Busy
<1>4. OneDecision' /\ OnePending' /\ KnownRefs'
  BY <1>1, <1>2, <1>3 DEF OneAtATime, OneDecision, OnePending, KnownRefs, Becomes
<1>5. ASSUME NEW p \in Requests PROVE InTurn(p)'
  <2>1. InTurn(p)
    BY DEF OneAtATime
  <2>2. CASE p = q
    BY <1>1, <1>2, <2>2 DEF InTurn
  <2>3. CASE p # q
    BY <1>1, <2>1, <2>3 DEF InTurn, Becomes
  <2> QED
    BY <2>2, <2>3
<1> QED
  BY <1>4, <1>5 DEF OneAtATime

LEMMA OneFiles ==
    ASSUME Base, OneWithdrawal, OneAtATime, NEW q \in Requests, FileRequest(q)
    PROVE  OneAtATime'
<1>1. /\ req[q].at = "file" /\ Becomes(q, Idle) /\ started' = started /\ req[q].ref \in References
      /\ filed' = [filed EXCEPT ![req[q].ref] = "pending"]
  BY FileDoes DEF At
<1>2. PICK w \in References : w = req[q].ref
  BY <1>1
<1>3. w \in started /\ filed[w] = "none" /\ \A v \in References : filed[v] # "pending"
  BY <1>1, <1>2, LabelSets DEF OneAtATime, InTurn
<1>4. filed'[w] = "pending" /\ \A v \in References \ {w} : filed'[v] = filed[v]
  BY <1>1, <1>2, BaseTypes
<1>5. req'[q].at = "idle" /\ \A p \in Requests \ {q} : req'[p] = req[p]
  BY <1>1 DEF Becomes, Idle
<1>6. ASSUME NEW p \in Requests PROVE req'[p].at \notin Withdrawing /\ req'[p].at \notin Deciding
  <2>1. CASE p = q
    BY <1>5, <2>1, KindsDiffer
  <2>2. CASE p # q
    <3>1. req[p].at \notin Withdrawing
      BY <1>1, <2>2, LabelSets DEF OneWithdrawal
    <3>2. req[p].at \notin Deciding
      <4>1. SUFFICES ASSUME req[p].at \in Deciding PROVE FALSE
        OBVIOUS
      <4>2. req[p].ref \in References /\ filed[req[p].ref] = "pending"
        BY <4>1 DEF Base, Fits, OneAtATime, InTurn
      <4> QED
        BY <1>3, <4>2
    <3> QED
      BY <1>5, <2>2, <3>1, <3>2
  <2> QED
    BY <2>1, <2>2
<1>7. OneDecision' /\ OnePending' /\ KnownRefs'
  BY <1>1, <1>3, <1>4, <1>6 DEF OneAtATime, OneDecision, OnePending, KnownRefs
<1> QED
  BY <1>6, <1>7 DEF OneAtATime, InTurn

LEMMA OneDecided ==
    ASSUME Base, OneAtATime, NEW q \in Requests, NEW s \in {"approved", "rejected"},
           req[q].at \in Deciding, Becomes(q, Idle), started' = started,
           filed' = [filed EXCEPT ![req[q].ref] = s]
    PROVE  OneAtATime'
<1>1. PICK w \in References : w = req[q].ref
  BY DEF Base, Fits
<1>2. filed[w] = "pending" /\ w \in started
  BY <1>1 DEF OneAtATime, InTurn, KnownRefs
<1>3. filed'[w] = s /\ \A v \in References \ {w} : filed'[v] = filed[v] /\ filed[v] # "pending"
  BY <1>1, <1>2, BaseTypes DEF OneAtATime, OnePending
<1>4. req'[q].at = "idle" /\ \A p \in Requests \ {q} : req'[p] = req[p] /\ req[p].at \notin Deciding
  BY DEF Becomes, Idle, OneAtATime, OneDecision
<1>5. ASSUME NEW p \in Requests PROVE req'[p].at \notin Withdrawing /\ req'[p].at \notin Deciding
  <2>1. CASE p = q
    BY <1>4, <2>1, KindsDiffer
  <2>2. CASE p # q
    <3>1. req[p].at \notin Withdrawing
      BY <1>2 DEF OneAtATime, InTurn
    <3> QED
      BY <1>4, <2>2, <3>1
  <2> QED
    BY <2>1, <2>2
<1>6. OneDecision' /\ OnePending' /\ KnownRefs'
  BY <1>2, <1>3, <1>5 DEF OneAtATime, OneDecision, OnePending, KnownRefs
<1> QED
  BY <1>5, <1>6 DEF OneAtATime, InTurn

LEMMA OneStep == Base /\ AloneInv /\ OneInv /\ [Next]_vars => OneInv'
<1> SUFFICES ASSUME Base, AloneInv, OneInv, [Next]_vars, Calm' PROVE OneAtATime'
  BY DEF OneInv
<1>0. OneAtATime /\ OneWithdrawal /\ ~overlapped'
  BY CalmBefore DEF OneInv, AloneInv, Calm
<1>1. CASE UNCHANGED vars
  BY <1>0, <1>1 DEF vars, books, history, OneAtATime, OneDecision, OnePending, KnownRefs, InTurn
<1>2. ASSUME NEW q \in Requests, Credit(q) PROVE OneAtATime'
  <2>1. /\ Moves(q, "increment") \/ Moves(q, "commission") \/ Becomes(q, Idle)
        /\ filed' = filed /\ started' = started
    BY <1>2, CreateDoes, IncrementDoes, CommissionDoes DEF Credit
  <2> QED
    BY <1>0, <2>1, LabelSets, OneMoves, OneFinishes
<1>3. ASSUME NEW q \in Requests, Withdraw(q) PROVE OneAtATime'
  <2>1. CASE CheckBalance(q)
    <3>1. req[q].at = "balance" /\ (Moves(q, "find") \/ Becomes(q, Idle)) /\ filed' = filed /\ started' = started
      BY <2>1, CheckDoes DEF At
    <3> QED
      BY <1>0, <3>1, LabelSets, OneMoves, OneFinishes
  <2>2. CASE FindEarnings(q) \/ HoldWhole(q) \/ CreateHeld(q)
    <3>1. /\ req[q].at \in {"find", "hold", "split"} /\ Becomes(q, req'[q]) /\ req'[q].ref = req[q].ref
          /\ req'[q].at \in {"hold", "deduct"} /\ filed' = filed /\ started' = started
      BY <2>2, FindDoes, HoldWholeDoes, CreateHeldDoes DEF At
    <3> QED
      BY <1>0, <3>1, LabelSets, OneKeeps
  <2>3. CASE HoldPart(q) \/ HeldAll(q) \/ DeductBalance(q)
    <3>1. /\ req[q].at \in {"hold", "deduct"} /\ (Moves(q, "split") \/ Moves(q, "deduct") \/ Moves(q, "file"))
          /\ filed' = filed /\ started' = started
      BY <2>3, HoldPartDoes, HeldAllDoes, DeductDoes DEF At
    <3> QED
      BY <1>0, <3>1, LabelSets, OneMoves
  <2> QED
    BY <1>0, <1>3, <2>1, <2>2, <2>3, OneFiles DEF Withdraw
<1>4. ASSUME NEW q \in Requests, Settle(q) PROVE OneAtATime'
  <2>1. CASE PayOut(q) \/ ReleaseHeld(q) \/ RestoreBalance(q)
    <3>1. /\ req[q].at \in {"payOut", "release", "restore"}
          /\ Moves(q, "approve") \/ Moves(q, "restore") \/ Moves(q, "reject")
          /\ filed' = filed /\ started' = started
      BY <2>1, PayOutDoes, ReleaseDoes, RestoreDoes DEF At
    <3> QED
      BY <1>0, <3>1, LabelSets, OneMoves
  <2>2. CASE Approve(q)
    <3>1. /\ req[q].at = "approve" /\ Becomes(q, Idle) /\ started' = started
          /\ filed' = [filed EXCEPT ![req[q].ref] = "approved"]
      BY <2>2, ApproveDoes DEF At
    <3> QED
      BY <1>0, <3>1, LabelSets, OneDecided
  <2>3. CASE Reject(q)
    <3>1. /\ req[q].at = "reject" /\ Becomes(q, Idle) /\ started' = started
          /\ filed' = [filed EXCEPT ![req[q].ref] = "rejected"]
      BY <2>3, RejectDoes DEF At
    <3> QED
      BY <1>0, <3>1, LabelSets, OneDecided
  <2> QED
    BY <1>4, <2>1, <2>2, <2>3 DEF Settle
<1>5. ASSUME NEW q \in Requests, Fail(q) PROVE OneAtATime'
  BY <1>5, FailDoes DEF Calm
<1>6. ASSUME NEW q \in Requests, NEW d \in Deliveries, StartCredit(q, d) PROVE OneAtATime'
  <2>1. filed' = filed /\ started' = started
    BY <1>6, StartCreditDoes
  <2>2. CASE UNCHANGED req
    BY <1>0, <2>1, <2>2 DEF OneAtATime, OneDecision, OnePending, KnownRefs, InTurn
  <2>3. CASE Becomes(q, req'[q]) /\ req'[q] = [Idle EXCEPT !.at = "create", !.del = d]
    <3>1. req'[q].at = "create"
      BY <2>3 DEF Idle
    <3> QED
      BY <1>0, <2>1, <2>3, <3>1, LabelSets, OneKeeps
  <2> QED
    BY <1>6, <2>2, <2>3, StartCreditDoes
<1>7. ASSUME NEW q \in Requests, NEW w \in References, NEW n \in Amounts, StartWithdrawal(q, w, n)
      PROVE  OneAtATime'
  BY <1>0, <1>7, OneStarts
<1>8. ASSUME NEW q \in Requests, NEW w \in References, StartApproval(q, w) \/ StartRejection(q, w)
      PROVE  OneAtATime'
  <2>1. PICK l : (l = "payOut" \/ l = "release") /\ Decide(q, w, l)
    BY <1>8 DEF StartApproval, StartRejection
  <2> QED
    BY <1>0, <2>1, OneDecides
<1> QED
  BY <1>1, <1>2, <1>3, <1>4, <1>5, <1>6, <1>7, <1>8 DEF Next, Step

-----------------------------------------------------------------------------
(* What is held for a withdrawal, and what was paid out for it.            *)

(* A decision has moved what was held for w, and is not finished.          *)
Emptied(w) == \E q \in Requests : req[q].at \in {"approve", "restore", "reject"} /\ req[q].ref = w
PaidNow(w) == \E q \in Requests : req[q].at = "approve" /\ req[q].ref = w
Taking(w)  == \E q \in Requests : req[q].at \in Withdrawing /\ req[q].ref = w

KnownHolders ==
    \A i \in DOMAIN records : records[i].status \in {"held", "withdrawn"} => records[i].ref \in References

RefOK(w) ==
    /\ filed[w] = "pending" /\ ~Emptied(w) => Have(records, w, "held") = amount[w]
    /\ ~Taking(w) /\ (filed[w] # "pending" \/ Emptied(w)) => Have(records, w, "held") = 0
    /\ filed[w] = "approved" \/ PaidNow(w) => Have(records, w, "withdrawn") = amount[w]
    /\ ~(filed[w] = "approved" \/ PaidNow(w)) => Have(records, w, "withdrawn") = 0
    /\ filed[w] \in {"pending", "approved"} => amount[w] > 0

(* A withdrawal holds what it does not have to find any more, and the      *)
(* earnings it found are enough.                                           *)
Findable(q) == Total(Worth(records), {f.index : f \in req[q].todo})

TakeOK(q) ==
    /\ req[q].at \in Withdrawing => Have(records, req[q].ref, "held") = req[q].sum - req[q].left
    /\ req[q].at \in {"balance", "find"} => req[q].left = req[q].sum
    /\ req[q].at \in {"deduct", "file"} => req[q].left = 0
    /\ req[q].at \in Withdrawing \ {"balance"} => req[q].sum > 0
    /\ req[q].at = "find" => req[q].left <= Sum(records, "available")
    /\ req[q].at = "hold" => req[q].left <= Findable(q)

HeldOK == KnownHolders /\ (\A w \in References : RefOK(w)) /\ (\A q \in Requests : TakeOK(q))

HeldInv == Calm => HeldOK

LEMMA HeldInit == Init => HeldInv
<1> SUFFICES ASSUME Init PROVE HeldOK
  BY DEF HeldInv
<1>1. \A q \in Requests : req[q].at = "idle"
  BY DEF Init, Idle
<1>2. records = <<>> /\ records \in Seq(EarningType) /\ KnownHolders
  BY DEF Init, KnownHolders
<1>3. ASSUME NEW w, NEW s PROVE Have(records, w, s) = 0
  <2>1. ForWhat(records, w, s) = {}
    BY <1>2 DEF ForWhat
  <2> QED
    BY <1>2, <2>1, NothingHeld
<1>4. \A w \in References : RefOK(w)
  <2> TAKE w \in References
  <2>1. filed[w] = "none" /\ ~Emptied(w) /\ ~PaidNow(w) /\ ~Taking(w)
    BY <1>1, KindsDiffer DEF Init, Emptied, PaidNow, Taking
  <2> QED
    BY <1>3, <2>1 DEF RefOK
<1>5. \A q \in Requests : TakeOK(q)
  BY <1>1, LabelSets DEF TakeOK
<1> QED
  BY <1>2, <1>4, <1>5 DEF HeldOK

(* No other request is about the withdrawal.                               *)
Mine(q, w) == \A p \in Requests \ {q} : req[p].at \in Withdrawing \union Deciding => req[p].ref # w

LEMMA MyOwn ==
    ASSUME OneWithdrawal, OneAtATime, NEW q \in Requests, req[q].at \in Withdrawing \union Deciding
    PROVE  Mine(q, req[q].ref)
<1> SUFFICES ASSUME NEW p \in Requests \ {q}, req[p].at \in Withdrawing \union Deciding,
                    req[p].ref = req[q].ref
             PROVE  FALSE
  BY DEF Mine
<1>1. InTurn(p) /\ InTurn(q)
  BY DEF OneAtATime
<1>2. CASE req[q].at \in Withdrawing
  <2>1. req[p].at \in Deciding
    BY <1>2 DEF OneWithdrawal
  <2> QED
    BY <1>1, <1>2, <2>1 DEF InTurn
<1>3. CASE req[q].at \in Deciding
  <2>1. req[p].at \in Withdrawing
    BY <1>3 DEF OneAtATime, OneDecision
  <2> QED
    BY <1>1, <1>3, <2>1 DEF InTurn
<1> QED
  BY <1>2, <1>3

(* How the references are used, when q is or gets busy with w.             *)
About(q, w) ==
    /\ Becomes(q, req'[q]) /\ Mine(q, w)
    /\ req[q].at \in Withdrawing \union Deciding => req[q].ref = w
    /\ req'[q].at \in Withdrawing \union Deciding => req'[q].ref = w

LEMMA Uses ==
    ASSUME NEW q \in Requests, NEW w, About(q, w)
    PROVE  /\ Emptied(w) <=> req[q].at \in {"approve", "restore", "reject"}
           /\ PaidNow(w) <=> req[q].at = "approve"
           /\ Taking(w) <=> req[q].at \in Withdrawing
           /\ Emptied(w)' <=> req'[q].at \in {"approve", "restore", "reject"}
           /\ PaidNow(w)' <=> req'[q].at = "approve"
           /\ Taking(w)' <=> req'[q].at \in Withdrawing
<1>1. \A p \in Requests \ {q} : req'[p] = req[p] /\ (req[p].at \in Withdrawing \union Deciding => req[p].ref # w)
  BY DEF About, Becomes, Mine
<1>2. \A l \in {"approve", "restore", "reject"} : l \in Deciding
  BY LabelSets
<1>3. Emptied(w) <=> req[q].at \in {"approve", "restore", "reject"}
  BY <1>1, <1>2 DEF About, Emptied
<1>4. PaidNow(w) <=> req[q].at = "approve"
  BY <1>1, <1>2 DEF About, PaidNow
<1>5. Taking(w) <=> req[q].at \in Withdrawing
  BY <1>1 DEF About, Taking
<1>6. Emptied(w)' <=> req'[q].at \in {"approve", "restore", "reject"}
  BY <1>1, <1>2 DEF About, Emptied
<1>7. PaidNow(w)' <=> req'[q].at = "approve"
  BY <1>1, <1>2 DEF About, PaidNow
<1>8. Taking(w)' <=> req'[q].at \in Withdrawing
  BY <1>1 DEF About, Taking
<1> QED
  BY <1>3, <1>4, <1>5, <1>6, <1>7, <1>8

SameUse(v) == (Emptied(v)' <=> Emptied(v)) /\ (PaidNow(v)' <=> PaidNow(v)) /\ (Taking(v)' <=> Taking(v))

LEMMA OtherUses ==
    ASSUME NEW q \in Requests, Becomes(q, req'[q]), NEW v,
           req[q].at \in Withdrawing \union Deciding => req[q].ref # v,
           req'[q].at \in Withdrawing \union Deciding => req'[q].ref # v
    PROVE  SameUse(v)
<1>1. \A p \in Requests \ {q} : req'[p] = req[p]
  BY DEF Becomes
<1>2. \A l \in {"approve", "restore", "reject"} : l \in Deciding
  BY LabelSets
<1>3. Emptied(v)' <=> Emptied(v)
  BY <1>1, <1>2 DEF Emptied
<1>4. PaidNow(v)' <=> PaidNow(v)
  BY <1>1, <1>2 DEF PaidNow
<1>5. Taking(v)' <=> Taking(v)
  BY <1>1 DEF Taking
<1> QED
  BY <1>3, <1>4, <1>5 DEF SameUse

SameHave(v) ==
    /\ Have(records', v, "held") = Have(records, v, "held")
    /\ Have(records', v, "withdrawn") = Have(records, v, "withdrawn")

LEMMA RefSame ==
    ASSUME NEW v, RefOK(v), SameUse(v), SameHave(v), filed'[v] = filed[v], amount'[v] = amount[v]
    PROVE  RefOK(v)'
  BY DEF RefOK, SameUse, SameHave

(* The withdrawals that a step is not about.                               *)
LEMMA RefOthers ==
    ASSUME HeldOK, NEW q \in Requests, NEW w, About(q, w),
           \A v \in References \ {w} : SameHave(v) /\ filed'[v] = filed[v] /\ amount'[v] = amount[v]
    PROVE  \A v \in References \ {w} : RefOK(v)'
<1> TAKE v \in References \ {w}
<1>1. SameUse(v)
  BY OtherUses DEF About
<1> QED
  BY <1>1, RefSame DEF HeldOK

(* A step that is about no withdrawal at all.                              *)
LEMMA RefAll ==
    ASSUME HeldOK, NEW q \in Requests, Becomes(q, req'[q]), \A v \in References : SameHave(v),
           filed' = filed, amount' = amount,
           req[q].at \notin Withdrawing \union Deciding, req'[q].at \notin Withdrawing \union Deciding
    PROVE  \A v \in References : RefOK(v)'
<1> TAKE v \in References
<1>1. SameUse(v)
  BY OtherUses
<1> QED
  BY <1>1, RefSame DEF HeldOK

(* While a withdrawal is under way, nothing is paid out for it.            *)
LEMMA RefTaking ==
    ASSUME Base, OneAtATime, HeldOK, NEW q \in Requests, NEW w \in References, About(q, w),
           req[q].at \in Withdrawing, req'[q].at \in Withdrawing, filed' = filed,
           Have(records', w, "withdrawn") = Have(records, w, "withdrawn")
    PROVE  RefOK(w)'
<1>1. filed[w] = "none" /\ ~Emptied(w) /\ ~PaidNow(w)
  BY Uses, LabelSets DEF About, OneAtATime, InTurn
<1>2. ~Emptied(w)' /\ ~PaidNow(w)' /\ Taking(w)'
  BY Uses, LabelSets
<1>3. RefOK(w)
  BY DEF HeldOK
<1> QED
  BY <1>1, <1>2, <1>3 DEF RefOK

(* Requests that a step leaves alone.                                      *)
LEMMA TakeKeeps ==
    ASSUME Base, NEW p \in Requests, TakeOK(p), req'[p] = req[p], records' \in Seq(EarningType),
           req[p].at \in Withdrawing =>
              Have(records', req[p].ref, "held") = Have(records, req[p].ref, "held"),
           Sum(records, "available") <= Sum(records', "available"),
           \A i \in DOMAIN records : i \in DOMAIN records' /\ records'[i].amount = records[i].amount
    PROVE  TakeOK(p)'
<1>1. req[p].left \in Nat /\ Sum(records, "available") \in Nat /\ Sum(records', "available") \in Nat
  BY RequestTyped, BaseTypes, SumsTyped DEF Base
<1>2. Findable(p)' = Findable(p)
  <2>1. PICK K : K = {f.index : f \in req[p].todo}
    OBVIOUS
  <2>2. K \subseteq DOMAIN records /\ K \subseteq DOMAIN records'
    BY <2>1 DEF Base, Fits
  <2>3. Total(Worth(records'), K) = Total(Worth(records), K)
    BY <2>2, BaseTypes, SameWorth
  <2> QED
    BY <2>1, <2>3 DEF Findable
<1>3. req[p].left <= Sum(records, "available") => req[p].left <= Sum(records', "available")
  BY <1>1
<1> QED
  BY <1>2, <1>3 DEF TakeOK

LEMMA TakeVacuous ==
    ASSUME NEW p \in Requests, req'[p].at \notin Withdrawing
    PROVE  TakeOK(p)'
  BY LabelSets DEF TakeOK

(* The others, when q withdraws.                                           *)
LEMMA TakeOthers ==
    ASSUME OneWithdrawal, NEW q \in Requests, req[q].at \in Withdrawing, Becomes(q, req'[q])
    PROVE  \A p \in Requests \ {q} : TakeOK(p)'
<1> TAKE p \in Requests \ {q}
<1>1. req'[p].at \notin Withdrawing
  BY DEF OneWithdrawal, Becomes
<1> QED
  BY <1>1, TakeVacuous

LEMMA SameRecords ==
    ASSUME Base, HeldOK, records' = records
    PROVE  /\ KnownHolders' /\ (\A v : SameHave(v))
           /\ records' \in Seq(EarningType) /\ Sum(records, "available") <= Sum(records', "available")
           /\ \A i \in DOMAIN records : i \in DOMAIN records' /\ records'[i].amount = records[i].amount
<1>1. Sum(records, "available") \in Nat
  BY BaseTypes, SumsTyped
<1> QED
  BY <1>1, BaseTypes DEF HeldOK, KnownHolders, SameHave

(* A step that has nothing to do with withdrawals.                         *)
LEMMA HeldQuiet ==
    ASSUME Base, HeldOK, NEW q \in Requests, Becomes(q, req'[q]), filed' = filed, amount' = amount,
           req[q].at \notin Withdrawing \union Deciding, req'[q].at \notin Withdrawing \union Deciding,
           KnownHolders', \A v : SameHave(v), records' \in Seq(EarningType),
           Sum(records, "available") <= Sum(records', "available"),
           \A i \in DOMAIN records : i \in DOMAIN records' /\ records'[i].amount = records[i].amount
    PROVE  HeldOK'
<1>1. \A v \in References : RefOK(v)'
  BY RefAll
<1>2. ASSUME NEW p \in Requests PROVE TakeOK(p)'
  <2>1. CASE p = q
    BY <2>1, TakeVacuous
  <2>2. CASE p # q
    <3>1. TakeOK(p) /\ req'[p] = req[p]
      BY <2>2 DEF HeldOK, Becomes
    <3>2. Have(records', req[p].ref, "held") = Have(records, req[p].ref, "held")
      BY DEF SameHave
    <3> QED
      BY <3>1, <3>2, TakeKeeps
  <2> QED
    BY <2>1, <2>2
<1> QED
  BY <1>1, <1>2 DEF HeldOK

(* A step of the withdrawal that is under way.                             *)
LEMMA HeldTakes ==
    ASSUME Base, OneWithdrawal, OneAtATime, HeldOK, NEW q \in Requests, NEW w \in References,
           req[q].at \in Withdrawing, req[q].ref = w, Becomes(q, req'[q]),
           req'[q].at \in Withdrawing, req'[q].ref = w, filed' = filed, amount' = amount, KnownHolders',
           Have(records', w, "withdrawn") = Have(records, w, "withdrawn"),
           \A v \in References \ {w} : SameHave(v), TakeOK(q)'
    PROVE  HeldOK'
<1>1. About(q, w)
  BY MyOwn DEF About
<1>2. \A v \in References \ {w} : RefOK(v)'
  BY <1>1, RefOthers
<1>3. RefOK(w)'
  BY <1>1, RefTaking
<1>4. \A p \in Requests \ {q} : TakeOK(p)'
  BY TakeOthers
<1> QED
  BY <1>2, <1>3, <1>4 DEF HeldOK

(* A step of the decision that is under way.                               *)
LEMMA HeldSettles ==
    ASSUME Base, OneWithdrawal, OneAtATime, HeldOK, NEW q \in Requests, NEW w \in References,
           req[q].at \in Deciding, req[q].ref = w, Becomes(q, req'[q]),
           req'[q].at \notin Withdrawing, req'[q].at \in Deciding => req'[q].ref = w,
           \A v \in References \ {w} : filed'[v] = filed[v], amount' = amount, KnownHolders',
           \A v \in References \ {w} : SameHave(v), RefOK(w)'
    PROVE  HeldOK'
<1>1. About(q, w)
  BY MyOwn DEF About
<1>2. \A v \in References \ {w} : RefOK(v)'
  BY <1>1, RefOthers
<1>3. filed[w] = "pending"
  BY DEF OneAtATime, InTurn
<1>4. ASSUME NEW p \in Requests PROVE TakeOK(p)'
  <2>1. req[p].at \notin Withdrawing
    BY <1>3 DEF OneAtATime, InTurn
  <2>2. req'[p].at \notin Withdrawing
    BY <2>1 DEF Becomes
  <2> QED
    BY <2>2, TakeVacuous
<1> QED
  BY <1>2, <1>4 DEF HeldOK

-----------------------------------------------------------------------------
(* What each action does to what is held: credits first.                   *)

LEMMA HeldCredits ==
    ASSUME Base, Base', HeldOK, NEW q \in Requests, Credit(q)
    PROVE  HeldOK'
<1>1. CASE CreateEarning(q)
  <2>1. /\ req[q].at = "create" /\ Moves(q, "increment") /\ filed' = filed /\ amount' = amount
        /\ Added(records, records', Earning(req[q].del, Payout(req[q].del), "available", NoReference))
        /\ req[q].del \in Deliveries
    BY <1>1, CreateDoes DEF At
  <2>2. PICK e : e = Earning(req[q].del, Payout(req[q].del), "available", NoReference)
    OBVIOUS
  <2>3. e.status = "available" /\ e.ref = NoReference /\ e.amount \in Nat
    BY <2>1, <2>2, PayoutType DEF Earning
  <2>4. Added(records, records', e)
    BY <2>1, <2>2
  <2>5. /\ Sum(records', "available") = Sum(records, "available") + e.amount
        /\ \A v, s : Have(records', v, s) = IF e.status = s /\ e.ref = v
                                            THEN Have(records, v, s) + e.amount ELSE Have(records, v, s)
    BY <2>3, <2>4, BaseTypes, AddedSums
  <2>6. \A v : SameHave(v)
    BY <2>3, <2>5 DEF SameHave
  <2>7. Sum(records, "available") <= Sum(records', "available")
    <3>1. Sum(records, "available") \in Nat
      BY BaseTypes, SumsTyped
    <3> QED
      BY <2>3, <2>5, <3>1
  <2>8. /\ KnownHolders' /\ records' \in Seq(EarningType)
        /\ \A i \in DOMAIN records : i \in DOMAIN records' /\ records'[i].amount = records[i].amount
    BY <2>3, <2>4 DEF HeldOK, KnownHolders, Added
  <2>9. /\ Becomes(q, req'[q]) /\ req[q].at \notin Withdrawing \union Deciding
        /\ req'[q].at \notin Withdrawing \union Deciding
    BY <2>1, LabelSets DEF Moves
  <2> QED
    BY <2>1, <2>6, <2>7, <2>8, <2>9, HeldQuiet
<1>2. CASE IncrementBalance(q)
  <2>1. /\ req[q].at = "increment" /\ Moves(q, "commission") /\ filed' = filed /\ amount' = amount
        /\ records' = records
    BY <1>2, IncrementDoes DEF At
  <2>2. /\ Becomes(q, req'[q]) /\ req[q].at \notin Withdrawing \union Deciding
        /\ req'[q].at \notin Withdrawing \union Deciding
    BY <2>1, LabelSets DEF Moves
  <2> QED
    BY <2>1, <2>2, SameRecords, HeldQuiet
<1>3. CASE CreateCommission(q)
  <2>1. /\ req[q].at = "commission" /\ Becomes(q, Idle) /\ filed' = filed /\ amount' = amount
        /\ records' = records
    BY <1>3, CommissionDoes DEF At
  <2>2. req'[q].at = "idle" /\ Becomes(q, req'[q])
    BY <2>1 DEF Becomes, Idle
  <2>3. req[q].at \notin Withdrawing \union Deciding /\ req'[q].at \notin Withdrawing \union Deciding
    BY <2>1, <2>2, LabelSets
  <2> QED
    BY <2>1, <2>2, <2>3, SameRecords, HeldQuiet
<1> QED
  BY <1>1, <1>2, <1>3 DEF Credit

LEMMA HeldStartsCredit ==
    ASSUME Base, HeldOK, NEW q \in Requests, NEW d \in Deliveries, StartCredit(q, d)
    PROVE  HeldOK'
<1>1. req[q].at = "idle" /\ records' = records /\ filed' = filed /\ amount' = amount
  BY StartCreditDoes DEF At
<1>2. CASE UNCHANGED req
  BY <1>1, <1>2 DEF HeldOK, KnownHolders, RefOK, TakeOK, Findable, Emptied, PaidNow, Taking
<1>3. CASE Becomes(q, req'[q]) /\ req'[q] = [Idle EXCEPT !.at = "create", !.del = d]
  <2>1. req'[q].at = "create"
    BY <1>3 DEF Idle
  <2>2. req[q].at \notin Withdrawing \union Deciding /\ req'[q].at \notin Withdrawing \union Deciding
    BY <1>1, <2>1, LabelSets
  <2> QED
    BY <1>1, <1>3, <2>2, SameRecords, HeldQuiet
<1> QED
  BY <1>2, <1>3, StartCreditDoes

LEMMA HeldStarts ==
    ASSUME Base, OneAtATime, HeldOK, NEW q \in Requests, NEW w \in References,
           NEW n \in Amounts, StartWithdrawal(q, w, n)
    PROVE  HeldOK'
<1>1. /\ req[q].at = "idle" /\ Becomes(q, req'[q]) /\ records' = records
      /\ filed' = filed /\ amount' = amount
      /\ req'[q].at = "balance" /\ req'[q].ref = w /\ req'[q].sum = n /\ req'[q].left = n
      /\ w \notin started /\ \A v \in References : filed[v] # "pending"
  BY StartWithdrawalDoes DEF At
<1>2. req'[q].at = "balance" /\ req'[q].ref = w /\ req'[q].sum = n /\ req'[q].left = n
  BY <1>1 DEF Idle
<1>3. n \in Nat
  BY EarningsAssumption
<1>4. filed[w] = "none"
  BY <1>1 DEF OneAtATime, KnownRefs
<1>5. Mine(q, w)
  BY <1>1 DEF Mine, OneAtATime, InTurn, Base, Fits
<1>6. About(q, w)
  BY <1>1, <1>2, <1>5, LabelSets DEF About
<1>7. ~Taking(w) /\ ~Emptied(w) /\ ~PaidNow(w) /\ Taking(w)' /\ ~Emptied(w)' /\ ~PaidNow(w)'
  BY <1>1, <1>2, <1>6, Uses, LabelSets
<1>8. RefOK(w) /\ SameHave(w)
  BY <1>1, SameRecords DEF HeldOK
<1>9. Have(records, w, "held") = 0 /\ Have(records, w, "withdrawn") = 0
  BY <1>4, <1>7, <1>8 DEF RefOK
<1>10. RefOK(w)'
  BY <1>1, <1>4, <1>7, <1>9 DEF RefOK
<1>11. \A v \in References \ {w} : RefOK(v)'
  BY <1>1, <1>6, SameRecords, RefOthers
<1>12. ASSUME NEW p \in Requests PROVE TakeOK(p)'
  <2>1. CASE p = q
    <3>1. Have(records', w, "held") = n - n
      BY <1>1, <1>3, <1>9
    <3> QED
      BY <1>2, <2>1, <3>1 DEF TakeOK
  <2>2. CASE p # q
    <3>1. TakeOK(p) /\ req'[p] = req[p]
      BY <1>1, <2>2 DEF HeldOK, Becomes
    <3> QED
      BY <1>1, <3>1, SameRecords, TakeKeeps DEF SameHave
  <2> QED
    BY <2>1, <2>2
<1> QED
  BY <1>1, <1>10, <1>11, <1>12, SameRecords DEF HeldOK

LEMMA HeldDecides ==
    ASSUME Base, OneAtATime, HeldOK, NEW q \in Requests, NEW w \in References, NEW l,
           l = "payOut" \/ l = "release", Decide(q, w, l), ~overlapped'
    PROVE  HeldOK'
<1>1. /\ req[q].at = "idle" /\ Becomes(q, req'[q]) /\ records' = records /\ filed[w] = "pending"
      /\ filed' = filed /\ amount' = amount
      /\ req'[q].at = l /\ req'[q].ref = w /\ ~Busy(Deciding)
  <2>1. /\ At(q, "idle") /\ Becomes(q, req'[q]) /\ records' = records /\ filed[w] = "pending"
        /\ filed' = filed /\ amount' = amount
        /\ req'[q].at = l /\ req'[q].ref = w /\ ~Busy(Deciding)
    BY DecideDoes
  <2> QED
    BY <2>1 DEF At
<1>2. req'[q].at = l /\ req'[q].ref = w
  BY <1>1 DEF Idle
<1>3. \A p \in Requests : req[p].at \notin Withdrawing \union Deciding
  <2> TAKE p \in Requests
  <2>1. req[p].at \notin Deciding
    BY <1>1 DEF Busy
  <2>2. req[p].at \notin Withdrawing
    BY <1>1 DEF OneAtATime, InTurn
  <2> QED
    BY <2>1, <2>2
<1>4. About(q, w)
  BY <1>1, <1>2, <1>3 DEF About, Mine
<1>5. ~Taking(w) /\ ~Emptied(w) /\ ~PaidNow(w) /\ ~Taking(w)' /\ ~Emptied(w)' /\ ~PaidNow(w)'
  BY <1>1, <1>2, <1>4, Uses, LabelSets
<1>6. RefOK(w) /\ SameHave(w)
  BY <1>1, SameRecords DEF HeldOK
<1>7. SameUse(w)
  BY <1>5 DEF SameUse
<1>8. RefOK(w)'
  BY <1>1, <1>6, <1>7, RefSame
<1>9. \A v \in References \ {w} : RefOK(v)'
  BY <1>1, <1>4, SameRecords, RefOthers
<1>10. ASSUME NEW p \in Requests PROVE TakeOK(p)'
  <2>1. req'[p].at \notin Withdrawing
    BY <1>1, <1>2, <1>3, LabelSets DEF Becomes
  <2> QED
    BY <2>1, TakeVacuous
<1> QED
  BY <1>1, <1>8, <1>9, <1>10, SameRecords DEF HeldOK

-----------------------------------------------------------------------------
(* Then the steps of a withdrawal.                                         *)

(* The numbers of a withdrawal under way.                                  *)
LEMMA TakeTyped ==
    ASSUME Base, HeldOK, NEW q \in Requests, req[q].at \in Withdrawing
    PROVE  /\ req[q].ref \in References /\ req[q].sum \in Nat /\ req[q].left \in Nat
           /\ Have(records, req[q].ref, "held") = req[q].sum - req[q].left
           /\ Have(records, req[q].ref, "held") \in Nat
           /\ TakeOK(q)
<1>1. Fits(req[q], records)
  BY DEF Base
<1>2. req[q].ref \in References /\ req[q].sum \in Nat /\ req[q].left \in Nat
  BY <1>1, RequestTyped DEF Fits
<1>3. TakeOK(q)
  BY DEF HeldOK
<1>4. Have(records, req[q].ref, "held") \in Nat
  BY BaseTypes, SumsTyped
<1> QED
  BY <1>2, <1>3, <1>4 DEF TakeOK

(* A withdrawal goes on, and no record changes.                            *)
LEMMA HeldTakesOn ==
    ASSUME Base, OneWithdrawal, OneAtATime, HeldOK, NEW q \in Requests,
           req[q].at \in Withdrawing, Becomes(q, req'[q]), req'[q].at \in Withdrawing,
           req'[q].ref = req[q].ref, filed' = filed, amount' = amount, records' = records, TakeOK(q)'
    PROVE  HeldOK'
<1>1. PICK w \in References : w = req[q].ref
  BY TakeTyped
<1>2. KnownHolders' /\ \A v : SameHave(v)
  BY SameRecords
<1>3. Have(records', w, "withdrawn") = Have(records, w, "withdrawn")
  BY <1>2 DEF SameHave
<1> QED
  BY <1>1, <1>2, <1>3, HeldTakes

LEMMA HeldChecks ==
    ASSUME Base, OneWithdrawal, OneAtATime, HeldOK, NEW q \in Requests, CheckBalance(q)
    PROVE  HeldOK'
<1>1. /\ req[q].at = "balance" /\ records' = records /\ filed' = filed /\ amount' = amount
      /\ \/ Moves(q, "find") /\ req[q].sum <= SumOf(Available) /\ req[q].sum >= MinimumAmount
         \/ Becomes(q, Idle)
  BY CheckDoes DEF At
<1>2. req[q].at \in Withdrawing
  BY <1>1, LabelSets
<1>3. req[q].left = req[q].sum /\ Have(records, req[q].ref, "held") = 0
  BY <1>1, <1>2, TakeTyped DEF TakeOK
<1>4. CASE Moves(q, "find") /\ req[q].sum <= SumOf(Available) /\ req[q].sum >= MinimumAmount
  <2>1. /\ Becomes(q, req'[q]) /\ req'[q].at = "find" /\ req'[q].ref = req[q].ref
        /\ req'[q].sum = req[q].sum /\ req'[q].left = req[q].left
    BY <1>4 DEF Moves
  <2>2. req[q].sum > 0 /\ req[q].sum <= Sum(records, "available")
    <3>1. MinimumAmount \in Nat /\ MinimumAmount > 0 /\ req[q].sum \in Nat
      BY <1>2, TakeTyped, EarningsAssumption
    <3>2. SumOf(Available) = Sum(records, "available")
      BY BaseTypes, AvailableIsTotal DEF Sum
    <3> QED
      BY <1>4, <3>1, <3>2
  <2>3. TakeOK(q)'
    BY <1>1, <1>2, <1>3, <2>1, <2>2, TakeTyped DEF TakeOK
  <2> QED
    BY <1>1, <1>2, <2>1, <2>3, LabelSets, HeldTakesOn
<1>5. CASE Becomes(q, Idle)
  <2>1. Becomes(q, req'[q]) /\ req'[q].at = "idle" /\ req'[q].at \notin Withdrawing \union Deciding
    BY <1>5, LabelSets DEF Becomes, Idle
  <2>2. PICK w \in References : w = req[q].ref
    BY <1>2, TakeTyped
  <2>3. About(q, w)
    BY <1>2, <2>1, <2>2, MyOwn DEF About
  <2>4. /\ filed[w] = "none" /\ ~Emptied(w)' /\ ~PaidNow(w)' /\ ~Taking(w)'
        /\ ~Emptied(w) /\ ~PaidNow(w)
    BY <1>1, <1>2, <2>1, <2>2, <2>3, Uses, LabelSets DEF OneAtATime, InTurn
  <2>5. RefOK(w)'
    <3>1. RefOK(w)
      BY DEF HeldOK
    <3> QED
      BY <1>1, <1>3, <2>2, <2>4, <3>1 DEF RefOK
  <2>6. \A v \in References \ {w} : RefOK(v)'
    BY <1>1, <2>3, SameRecords, RefOthers
  <2>7. TakeOK(q)' /\ \A p \in Requests \ {q} : TakeOK(p)'
    BY <1>2, <2>1, TakeVacuous, TakeOthers
  <2> QED
    BY <1>1, <2>5, <2>6, <2>7, SameRecords DEF HeldOK
<1> QED
  BY <1>1, <1>4, <1>5

LEMMA HeldFinds ==
    ASSUME Base, OneWithdrawal, OneAtATime, HeldOK, NEW q \in Requests, FindEarnings(q)
    PROVE  HeldOK'
<1>1. /\ req[q].at = "find" /\ records' = records /\ filed' = filed /\ amount' = amount
      /\ Becomes(q, req'[q]) /\ req'[q].at = "hold" /\ req'[q].ref = req[q].ref
      /\ req'[q].sum = req[q].sum /\ req'[q].left = req[q].left
      /\ req'[q].todo = {[index |-> i, amount |-> records[i].amount] : i \in With(records, "available")}
  BY FindDoes DEF At
<1>2. req[q].at \in Withdrawing /\ req'[q].at \in Withdrawing
  BY <1>1, LabelSets
<1>3. {f.index : f \in req'[q].todo} = With(records, "available")
  <2>1. PICK W, T : W = With(records, "available") /\ T = req'[q].todo
    OBVIOUS
  <2>2. T = {[index |-> i, amount |-> records[i].amount] : i \in W}
    BY <1>1, <2>1
  <2>3. \A f \in T : f.index \in W
    BY <2>2
  <2>4. ASSUME NEW i \in W PROVE \E f \in T : f.index = i
    <3>1. [index |-> i, amount |-> records[i].amount] \in T
      BY <2>2
    <3> QED
      BY <3>1
  <2> QED
    BY <2>1, <2>3, <2>4
<1>4. Findable(q)' = Sum(records, "available")
  BY <1>1, <1>3 DEF Findable, Sum
<1>5. /\ Have(records, req[q].ref, "held") = req[q].sum - req[q].left
      /\ req[q].sum > 0 /\ req[q].left <= Sum(records, "available")
  BY <1>1, <1>2, TakeTyped DEF TakeOK
<1>6. TakeOK(q)'
  <2>1. Have(records', req'[q].ref, "held") = req'[q].sum - req'[q].left
    BY <1>1, <1>5
  <2>2. req'[q].left <= Findable(q)' /\ req'[q].sum > 0
    BY <1>1, <1>4, <1>5
  <2> QED
    BY <1>1, <2>1, <2>2 DEF TakeOK
<1> QED
  BY <1>1, <1>2, <1>6, HeldTakesOn

LEMMA HeldHoldsWhole ==
    ASSUME Base, AloneInv, OneWithdrawal, OneAtATime, HeldOK, NEW q \in Requests, HoldWhole(q), ~overlapped
    PROVE  HeldOK'
<1>1. PICK f : f = Found(q)
  OBVIOUS
<1>2. PICK e : e = [records[f.index] EXCEPT !.status = "held", !.ref = req[q].ref]
  OBVIOUS
<1>3. /\ req[q].at = "hold" /\ filed' = filed /\ amount' = amount /\ req[q].todo # {}
      /\ f.amount <= req[q].left /\ Altered(records, records', f.index, e)
      /\ Becomes(q, req'[q]) /\ req'[q].at = "hold" /\ req'[q].ref = req[q].ref /\ req'[q].sum = req[q].sum
      /\ req'[q].left = req[q].left - f.amount /\ req'[q].todo = req[q].todo \ {f}
  BY <1>1, <1>2, HoldWholeDoes DEF At
<1>4. PICK i \in DOMAIN records : i = f.index
  BY <1>3 DEF Altered
<1>5. req[q].at \in Withdrawing /\ req'[q].at \in Withdrawing
  BY <1>3, LabelSets
<1>6. PICK w \in References : w = req[q].ref
  BY <1>5, TakeTyped
<1>7. /\ f \in req[q].todo /\ f.amount \in Nat
      /\ records[i].status = "available" /\ records[i].amount = f.amount
      /\ \A g \in req[q].todo : g.index = i => g = f
  <2>1. f \in req[q].todo /\ f.amount \in Nat
    BY <1>1, <1>3, BaseTypes, FoundIsFirst DEF Base
  <2>2. FoundStill(q)
    BY DEF AloneInv
  <2> QED
    BY <1>3, <1>4, <2>1, <2>2 DEF FoundStill
<1>8. e.status = "held" /\ e.ref = w /\ e.amount = f.amount
  <2>1. records[i] \in EarningType
    BY BaseTypes, RecordTyped
  <2> QED
    BY <1>2, <1>4, <1>6, <1>7, <2>1 DEF EarningType
<1>9. \A v, s : Have(records', v, s) =
          Have(records, v, s) - (IF records[i].status = s /\ records[i].ref = v THEN records[i].amount ELSE 0)
                              + (IF e.status = s /\ e.ref = v THEN e.amount ELSE 0)
  BY <1>3, <1>4, BaseTypes, AlteredSums
<1>10. \A v, s : Have(records, v, s) \in Nat
  BY BaseTypes, SumsTyped
<1>11. /\ Have(records', w, "withdrawn") = Have(records, w, "withdrawn")
       /\ Have(records', w, "held") = Have(records, w, "held") + f.amount
       /\ \A v \in References \ {w} : SameHave(v)
  BY <1>7, <1>8, <1>9, <1>10 DEF SameHave
<1>12. KnownHolders'
  BY <1>3, <1>4, <1>6, <1>8 DEF Altered, HeldOK, KnownHolders
<1>13. req'[q].left <= Findable(q)'
  <2>1. PICK K : K = {g.index : g \in req[q].todo}
    OBVIOUS
  <2>2. {g.index : g \in req'[q].todo} = K \ {i}
    BY <1>3, <1>4, <1>7, <2>1
  <2>3. K \subseteq DOMAIN records /\ K \ {i} \subseteq DOMAIN records /\ i \in K
    BY <1>4, <1>7, <2>1 DEF Base, Fits
  <2>4. Total(Worth(records), K) = Total(Worth(records), K \ {i}) + f.amount
    <3>1. Numbers(Worth(records)) /\ DOMAIN Worth(records) = DOMAIN records /\ Worth(records)[i] = records[i].amount
      BY BaseTypes, WorthNumbers
    <3> QED
      BY <1>7, <2>3, <3>1, TotalAdds
  <2>5. Total(Worth(records'), K \ {i}) = Total(Worth(records), K \ {i})
    <3>1. /\ records' \in Seq(EarningType) /\ K \ {i} \subseteq DOMAIN records'
          /\ \A j \in K \ {i} : records'[j].amount = records[j].amount
      BY <1>3, <1>4, <2>3 DEF Altered
    <3> QED
      BY <2>3, <3>1, BaseTypes, SameWorth
  <2>6. req[q].left <= Total(Worth(records), K)
    BY <1>3, <2>1 DEF HeldOK, TakeOK, Findable
  <2>7. req[q].left \in Nat /\ Total(Worth(records), K) \in Nat /\ Total(Worth(records), K \ {i}) \in Nat
    BY <1>5, <2>3, BaseTypes, TakeTyped, TotalTyped
  <2>8. req'[q].left <= Total(Worth(records'), K \ {i})
    BY <1>3, <1>7, <2>4, <2>5, <2>6, <2>7
  <2> QED
    BY <2>2, <2>8 DEF Findable
<1>14. TakeOK(q)'
  <2>1. req[q].sum \in Nat /\ req[q].left \in Nat /\ Have(records, w, "held") = req[q].sum - req[q].left
    BY <1>5, <1>6, TakeTyped
  <2>2. req[q].sum > 0
    BY <1>3, <1>5 DEF HeldOK, TakeOK
  <2>3. Have(records', req'[q].ref, "held") = req'[q].sum - req'[q].left
    BY <1>3, <1>6, <1>7, <1>11, <2>1
  <2> QED
    BY <1>3, <1>13, <2>2, <2>3 DEF TakeOK
<1> QED
  BY <1>3, <1>5, <1>6, <1>11, <1>12, <1>14, HeldTakes

LEMMA HeldHoldsPart ==
    ASSUME Base, AloneInv, OneWithdrawal, OneAtATime, HeldOK, NEW q \in Requests, HoldPart(q), ~overlapped
    PROVE  HeldOK'
<1>1. PICK f : f = Found(q)
  OBVIOUS
<1>2. PICK e : e = [records[f.index] EXCEPT !.amount = f.amount - req[q].left]
  OBVIOUS
<1>3. /\ req[q].at = "hold" /\ filed' = filed /\ amount' = amount /\ req[q].todo # {}
      /\ Altered(records, records', f.index, e)
      /\ Becomes(q, req'[q]) /\ req'[q].at = "split" /\ req'[q].ref = req[q].ref /\ req'[q].sum = req[q].sum
      /\ req'[q].left = req[q].left
  BY <1>1, <1>2, HoldPartDoes DEF At, Moves
<1>4. PICK i \in DOMAIN records : i = f.index
  BY <1>3 DEF Altered
<1>5. req[q].at \in Withdrawing /\ req'[q].at \in Withdrawing
  BY <1>3, LabelSets
<1>6. PICK w \in References : w = req[q].ref
  BY <1>5, TakeTyped
<1>7. records[i].status = "available"
  <2>1. f \in req[q].todo
    BY <1>1, <1>3, BaseTypes, FoundIsFirst DEF Base
  <2>2. FoundStill(q)
    BY DEF AloneInv
  <2> QED
    BY <1>3, <1>4, <2>1, <2>2 DEF FoundStill
<1>8. e.status = "available"
  <2>1. records[i] \in EarningType
    BY BaseTypes, RecordTyped
  <2> QED
    BY <1>2, <1>4, <1>7, <2>1 DEF EarningType
<1>9. \A v, s : Have(records', v, s) =
          Have(records, v, s) - (IF records[i].status = s /\ records[i].ref = v THEN records[i].amount ELSE 0)
                              + (IF e.status = s /\ e.ref = v THEN e.amount ELSE 0)
  BY <1>3, <1>4, BaseTypes, AlteredSums
<1>10. \A v, s : Have(records, v, s) \in Nat
  BY BaseTypes, SumsTyped
<1>11. \A v : SameHave(v)
  BY <1>7, <1>8, <1>9, <1>10 DEF SameHave
<1>12. KnownHolders'
  BY <1>3, <1>4, <1>8 DEF Altered, HeldOK, KnownHolders
<1>13. TakeOK(q)'
  BY <1>3, <1>5, <1>11, TakeTyped DEF TakeOK, SameHave
<1>14. Have(records', w, "withdrawn") = Have(records, w, "withdrawn")
  BY <1>11 DEF SameHave
<1> QED
  BY <1>3, <1>5, <1>6, <1>11, <1>12, <1>13, <1>14, HeldTakes

LEMMA HeldCreatesHeld ==
    ASSUME Base, OneWithdrawal, OneAtATime, HeldOK, NEW q \in Requests, CreateHeld(q)
    PROVE  HeldOK'
<1>1. PICK e : e = Earning(records[Found(q).index].del, req[q].left, "held", req[q].ref)
  OBVIOUS
<1>2. /\ req[q].at = "split" /\ filed' = filed /\ amount' = amount /\ Added(records, records', e)
      /\ Becomes(q, req'[q]) /\ req'[q].at = "deduct" /\ req'[q].ref = req[q].ref /\ req'[q].sum = req[q].sum
      /\ req'[q].left = 0
  BY <1>1, CreateHeldDoes DEF At
<1>3. req[q].at \in Withdrawing /\ req'[q].at \in Withdrawing
  BY <1>2, LabelSets
<1>4. PICK w \in References : w = req[q].ref
  BY <1>3, TakeTyped
<1>5. e.status = "held" /\ e.ref = w /\ e.amount = req[q].left
  BY <1>1, <1>4 DEF Earning
<1>6. \A v, s : Have(records', v, s) = IF e.status = s /\ e.ref = v
                                       THEN Have(records, v, s) + e.amount ELSE Have(records, v, s)
  BY <1>2, BaseTypes, AddedSums
<1>7. /\ Have(records', w, "withdrawn") = Have(records, w, "withdrawn")
      /\ Have(records', w, "held") = Have(records, w, "held") + req[q].left
      /\ \A v \in References \ {w} : SameHave(v)
  BY <1>5, <1>6 DEF SameHave
<1>8. KnownHolders'
  BY <1>2, <1>4, <1>5 DEF Added, HeldOK, KnownHolders
<1>9. TakeOK(q)'
  <2>1. req[q].sum \in Nat /\ req[q].left \in Nat /\ Have(records, w, "held") = req[q].sum - req[q].left
    BY <1>3, <1>4, TakeTyped
  <2>2. req[q].sum > 0
    BY <1>2, <1>3 DEF HeldOK, TakeOK
  <2>3. Have(records', req'[q].ref, "held") = req'[q].sum - req'[q].left
    BY <1>2, <1>4, <1>7, <2>1
  <2> QED
    BY <1>2, <2>2, <2>3 DEF TakeOK
<1> QED
  BY <1>2, <1>3, <1>4, <1>7, <1>8, <1>9, HeldTakes

(* The loop ends when nothing is left to take: what was found was enough.  *)
LEMMA NothingLeft ==
    ASSUME Base, HeldOK, NEW q \in Requests, req[q].at = "hold", req[q].todo = {} \/ req[q].left = 0
    PROVE  req[q].left = 0
<1>1. CASE req[q].todo = {}
  <2>1. {f.index : f \in req[q].todo} = {}
    BY <1>1
  <2>2. Findable(q) = 0
    BY <2>1, BaseTypes, WorthNumbers, TotalAdds DEF Findable
  <2>3. req[q].left <= 0 /\ req[q].left \in Nat
    BY <2>2, TakeTyped, LabelSets DEF HeldOK, TakeOK
  <2> QED
    BY <2>3
<1> QED
  BY <1>1

LEMMA HeldMovesOn ==
    ASSUME Base, OneWithdrawal, OneAtATime, HeldOK, NEW q \in Requests, HeldAll(q) \/ DeductBalance(q)
    PROVE  HeldOK'
<1>1. /\ req[q].at \in {"hold", "deduct"} /\ records' = records /\ filed' = filed /\ amount' = amount
      /\ Moves(q, "deduct") \/ Moves(q, "file")
      /\ req[q].at = "hold" => req[q].todo = {} \/ req[q].left = 0
  BY HeldAllDoes, DeductDoes DEF At
<1>2. /\ Becomes(q, req'[q]) /\ req'[q].at \in {"deduct", "file"} /\ req'[q].ref = req[q].ref
      /\ req'[q].sum = req[q].sum /\ req'[q].left = req[q].left
  BY <1>1 DEF Moves
<1>3. req[q].at \in Withdrawing \ {"balance"} /\ req'[q].at \in Withdrawing
  BY <1>1, <1>2, LabelSets
<1>4. req[q].left = 0
  BY <1>1, <1>3, NothingLeft, TakeTyped DEF TakeOK
<1>5. TakeOK(q)'
  BY <1>1, <1>2, <1>3, <1>4, TakeTyped DEF TakeOK
<1> QED
  BY <1>1, <1>2, <1>3, <1>5, HeldTakesOn

LEMMA HeldFiles ==
    ASSUME Base, OneWithdrawal, OneAtATime, HeldOK, NEW q \in Requests, FileRequest(q)
    PROVE  HeldOK'
<1>1. /\ req[q].at = "file" /\ Becomes(q, Idle) /\ records' = records
      /\ filed' = [filed EXCEPT ![req[q].ref] = "pending"]
      /\ amount' = [amount EXCEPT ![req[q].ref] = req[q].sum]
  BY FileDoes DEF At
<1>2. req[q].at \in Withdrawing
  BY <1>1, LabelSets
<1>3. PICK w \in References : w = req[q].ref
  BY <1>2, TakeTyped
<1>4. /\ filed'[w] = "pending" /\ amount'[w] = req[q].sum
      /\ \A v \in References \ {w} : filed'[v] = filed[v] /\ amount'[v] = amount[v]
  BY <1>1, <1>3, BaseTypes
<1>5. Becomes(q, req'[q]) /\ req'[q].at = "idle" /\ req'[q].at \notin Withdrawing \union Deciding
  BY <1>1, LabelSets DEF Becomes, Idle
<1>6. About(q, w)
  BY <1>2, <1>3, <1>5, MyOwn DEF About
<1>7. /\ filed[w] = "none" /\ ~Emptied(w)' /\ ~PaidNow(w)' /\ ~Emptied(w) /\ ~PaidNow(w)
  BY <1>1, <1>2, <1>3, <1>5, <1>6, Uses, LabelSets DEF OneAtATime, InTurn
<1>8. Have(records, w, "held") = req[q].sum /\ req[q].sum > 0
  <2>1. req[q].left = 0 /\ req[q].sum > 0 /\ req[q].sum \in Nat /\ Have(records, w, "held") = req[q].sum - req[q].left
    BY <1>1, <1>2, <1>3, TakeTyped DEF TakeOK
  <2> QED
    BY <2>1
<1>9. RefOK(w)'
  <2>1. RefOK(w)
    BY DEF HeldOK
  <2> QED
    BY <1>1, <1>4, <1>7, <1>8, <2>1 DEF RefOK
<1>10. \A v \in References \ {w} : RefOK(v)'
  BY <1>1, <1>4, <1>6, SameRecords, RefOthers
<1>11. TakeOK(q)' /\ \A p \in Requests \ {q} : TakeOK(p)'
  BY <1>2, <1>5, TakeVacuous, TakeOthers
<1> QED
  BY <1>1, <1>9, <1>10, <1>11, SameRecords DEF HeldOK

-----------------------------------------------------------------------------
(* And the steps of a decision.                                            *)

(* A decision moves all that is held for w, be it to the rider again or    *)
(* out of the system.                                                      *)
LEMMA HeldMovesAll ==
    ASSUME Base, OneWithdrawal, OneAtATime, HeldOK, NEW q \in Requests, PayOut(q) \/ ReleaseHeld(q)
    PROVE  HeldOK'
<1>1. PICK s, v : /\ Updated(records, records', req[q].ref, s, v) /\ Moves(q, req'[q].at)
                  /\ \/ PayOut(q) /\ s = "withdrawn" /\ v = req[q].ref /\ req'[q].at = "approve"
                     \/ ReleaseHeld(q) /\ s = "available" /\ v = NoReference /\ req'[q].at = "restore"
  <2>1. CASE PayOut(q)
    BY <2>1, PayOutDoes DEF Moves
  <2>2. CASE ReleaseHeld(q)
    BY <2>2, ReleaseDoes DEF Moves
  <2> QED
    BY <2>1, <2>2
<1>2. /\ req[q].at \in {"payOut", "release"} /\ req[q].ref \in References /\ filed' = filed /\ amount' = amount
  BY PayOutDoes, ReleaseDoes DEF At
<1>3. PICK w \in References : w = req[q].ref
  BY <1>2
<1>4. Becomes(q, req'[q]) /\ req'[q].ref = w /\ req[q].at \in Deciding
      /\ req'[q].at \in Deciding /\ req'[q].at \notin Withdrawing
  BY <1>1, <1>2, <1>3, LabelSets DEF Moves
<1>5. About(q, w)
  BY <1>3, <1>4, MyOwn DEF About
<1>6. /\ filed[w] = "pending" /\ ~Emptied(w) /\ ~PaidNow(w) /\ ~Taking(w)
      /\ Emptied(w)' /\ ~Taking(w)' /\ (PaidNow(w)' <=> s = "withdrawn")
  BY <1>1, <1>2, <1>3, <1>4, <1>5, Uses, LabelSets DEF OneAtATime, InTurn
<1>7. Have(records, w, "held") = amount[w] /\ Have(records, w, "withdrawn") = 0 /\ amount[w] > 0
      /\ amount[w] \in Nat
  BY <1>6, BaseTypes DEF HeldOK, RefOK
<1>8. s \in {"available", "withdrawn"} /\ (s = "withdrawn" => v = w)
  BY <1>1, <1>3
<1>9. /\ Have(records', w, "held") = 0
      /\ \A u : u # w => Have(records', u, "held") = Have(records, u, "held")
      /\ Have(records', v, s) = Have(records, v, s) + Have(records, w, "held")
      /\ \A u, t : t # "held" /\ (t # s \/ u # v) => Have(records', u, t) = Have(records, u, t)
  <2>1. Updated(records, records', w, s, v) /\ records \in Seq(EarningType)
    BY <1>1, <1>3, BaseTypes
  <2> QED
    BY <1>8, <2>1, UpdatedSums
<1>10. \A u \in References \ {w} : SameHave(u)
  BY <1>8, <1>9 DEF SameHave
<1>11. RefOK(w)'
  <2>1. CASE s = "withdrawn"
    <3>1. Have(records', w, "withdrawn") = amount[w]
      BY <1>7, <1>8, <1>9, <2>1
    <3> QED
      BY <1>2, <1>6, <1>7, <1>9, <2>1, <3>1 DEF RefOK
  <2>2. CASE s = "available"
    <3>1. Have(records', w, "withdrawn") = 0
      BY <1>7, <1>9, <2>2
    <3> QED
      BY <1>2, <1>6, <1>7, <1>9, <2>2, <3>1 DEF RefOK
  <2> QED
    BY <1>8, <2>1, <2>2
<1>12. KnownHolders'
  <2> SUFFICES ASSUME NEW i \in DOMAIN records, records'[i].status \in {"held", "withdrawn"}
               PROVE  records'[i].ref \in References
    BY <1>1 DEF KnownHolders, Updated
  <2>1. PICK e : e = [records[i] EXCEPT !.status = s, !.ref = v]
    OBVIOUS
  <2>2. e.status = s /\ e.ref = v
    <3>1. records[i] \in EarningType
      BY BaseTypes, RecordTyped
    <3> QED
      BY <2>1, <3>1 DEF EarningType
  <2>3. records'[i] = e \/ records'[i] = records[i]
    BY <1>1, <2>1 DEF Updated
  <2> QED
    BY <1>8, <2>2, <2>3 DEF HeldOK, KnownHolders
<1> QED
  BY <1>2, <1>3, <1>4, <1>10, <1>11, <1>12, HeldSettles

LEMMA HeldRestores ==
    ASSUME Base, OneWithdrawal, OneAtATime, HeldOK, NEW q \in Requests, RestoreBalance(q)
    PROVE  HeldOK'
<1>1. /\ req[q].at = "restore" /\ req[q].ref \in References /\ filed' = filed /\ amount' = amount
      /\ records' = records /\ Becomes(q, req'[q]) /\ req'[q].at = "reject" /\ req'[q].ref = req[q].ref
  BY RestoreDoes DEF At, Moves
<1>2. PICK w \in References : w = req[q].ref
  BY <1>1
<1>3. req[q].at \in Deciding /\ req'[q].at \in Deciding /\ req'[q].at \notin Withdrawing
  BY <1>1, LabelSets
<1>4. About(q, w)
  BY <1>1, <1>2, <1>3, MyOwn DEF About
<1>5. SameUse(w)
  BY <1>1, <1>3, <1>4, Uses, LabelSets DEF SameUse
<1>6. RefOK(w)'
  BY <1>1, <1>5, RefSame, SameRecords DEF HeldOK
<1> QED
  BY <1>1, <1>2, <1>3, <1>6, SameRecords, HeldSettles

LEMMA HeldDecided ==
    ASSUME Base, OneWithdrawal, OneAtATime, HeldOK, NEW q \in Requests, Approve(q) \/ Reject(q)
    PROVE  HeldOK'
<1>1. PICK s : /\ filed' = [filed EXCEPT ![req[q].ref] = s]
               /\ \/ req[q].at = "approve" /\ s = "approved"
                  \/ req[q].at = "reject" /\ s = "rejected"
  BY ApproveDoes, RejectDoes DEF At
<1>2. /\ req[q].ref \in References /\ amount' = amount /\ records' = records /\ Becomes(q, Idle)
  BY ApproveDoes, RejectDoes
<1>3. PICK w \in References : w = req[q].ref
  BY <1>2
<1>4. /\ Becomes(q, req'[q]) /\ req'[q].at = "idle" /\ req'[q].at \notin Withdrawing
      /\ req'[q].at \notin Deciding /\ req[q].at \in Deciding
  BY <1>1, <1>2, LabelSets DEF Becomes, Idle
<1>5. About(q, w)
  BY <1>3, <1>4, MyOwn DEF About
<1>6. /\ filed[w] = "pending" /\ Emptied(w) /\ ~Taking(w) /\ (PaidNow(w) <=> s = "approved")
      /\ ~Emptied(w)' /\ ~Taking(w)' /\ ~PaidNow(w)'
  BY <1>1, <1>3, <1>4, <1>5, Uses, LabelSets DEF OneAtATime, InTurn
<1>7. /\ filed'[w] = s /\ \A v \in References \ {w} : filed'[v] = filed[v]
  BY <1>1, <1>3, BaseTypes
<1>8. RefOK(w)'
  <2>1. RefOK(w)
    BY DEF HeldOK
  <2>2. CASE s = "approved"
    BY <1>2, <1>6, <1>7, <2>1, <2>2 DEF RefOK
  <2>3. CASE s = "rejected"
    BY <1>2, <1>6, <1>7, <2>1, <2>3 DEF RefOK
  <2> QED
    BY <1>1, <2>2, <2>3
<1> QED
  BY <1>2, <1>3, <1>4, <1>7, <1>8, SameRecords, HeldSettles

LEMMA HeldStep == Base /\ Base' /\ AloneInv /\ OneInv /\ HeldInv /\ [Next]_vars => HeldInv'
<1> SUFFICES ASSUME Base, Base', AloneInv, OneInv, HeldInv, [Next]_vars, Calm' PROVE HeldOK'
  BY DEF HeldInv
<1>0. OneAtATime /\ OneWithdrawal /\ HeldOK /\ ~overlapped /\ ~overlapped' /\ faults' = 0 /\ faults = 0
  BY CalmBefore DEF OneInv, AloneInv, HeldInv, Calm
<1>1. CASE UNCHANGED vars
  BY <1>0, <1>1 DEF vars, books, history, HeldOK, KnownHolders, RefOK, TakeOK, Findable, Emptied, PaidNow,
                    Taking
<1>2. ASSUME NEW q \in Requests, Credit(q) PROVE HeldOK'
  BY <1>0, <1>2, HeldCredits
<1>3. ASSUME NEW q \in Requests, Withdraw(q) PROVE HeldOK'
  BY <1>0, <1>3, HeldChecks, HeldFinds, HeldHoldsWhole, HeldHoldsPart, HeldCreatesHeld, HeldMovesOn,
     HeldFiles DEF Withdraw
<1>4. ASSUME NEW q \in Requests, Settle(q) PROVE HeldOK'
  BY <1>0, <1>4, HeldMovesAll, HeldRestores, HeldDecided DEF Settle
<1>5. ASSUME NEW q \in Requests, Fail(q) PROVE FALSE
  BY <1>0, <1>5, FailDoes
<1>6. ASSUME NEW q \in Requests, NEW d \in Deliveries, StartCredit(q, d) PROVE HeldOK'
  BY <1>0, <1>6, HeldStartsCredit
<1>7. ASSUME NEW q \in Requests, NEW w \in References, NEW n \in Amounts, StartWithdrawal(q, w, n)
      PROVE  HeldOK'
  BY <1>0, <1>7, HeldStarts
<1>8. ASSUME NEW q \in Requests, NEW w \in References, StartApproval(q, w) \/ StartRejection(q, w)
      PROVE  HeldOK'
  <2>1. PICK l : (l = "payOut" \/ l = "release") /\ Decide(q, w, l)
    BY <1>8 DEF StartApproval, StartRejection
  <2> QED
    BY <1>0, <2>1, HeldDecides
<1> QED
  BY <1>1, <1>2, <1>3, <1>4, <1>5, <1>6, <1>7, <1>8 DEF Next, Step

-----------------------------------------------------------------------------
(* How far the accounts are apart while requests are served.               *)

(* What the balance has too much of: a credit that it has still to be      *)
(* told of, what a withdrawal holds and has not deducted, and what a       *)
(* rejection has released and not restored.                                *)
Due(x, am) ==
    IF x.at = "increment" THEN - Payout(x.del)
    ELSE IF x.at = "hold" THEN x.sum - x.left
    ELSE IF x.at \in {"split", "deduct"} THEN x.sum
    ELSE IF x.at = "restore" THEN - am[x.ref]
    ELSE 0

(* What the rider's earnings lack, and what the platform's lack.           *)
Missing(x) ==
    IF x.at = "increment" THEN - Payout(x.del)
    ELSE IF x.at = "split" THEN x.left
    ELSE 0

Unreported(x) == IF x.at = "commission" THEN Payout(x.del) ELSE 0

Dues(rq, am) == [q \in Requests |-> Due(rq[q], am)]
Gaps(rq)     == [q \in Requests |-> Missing(rq[q])]
Reports(rq)  == [q \in Requests |-> Unreported(rq[q])]

BalanceOK  == balance = Sum(records, "available") + Total(Dues(req, amount), Requests)
EarnedOK   == earned = Whole(records) + Total(Gaps(req), Requests)
PlatformOK == earned = Total(Shares(platform), Deliveries) + Total(Reports(req), Requests)

MoneyOK  == BalanceOK /\ EarnedOK /\ PlatformOK
MoneyInv == Calm => MoneyOK

LEMMA DueTyped ==
    ASSUME NEW x, NEW r, Fits(x, r), NEW am \in [References -> Nat]
    PROVE  Due(x, am) \in Int /\ Missing(x) \in Int /\ Unreported(x) \in Int
<1>1. x.sum \in Int /\ x.left \in Int
  BY RequestTyped
<1>2. x.at \in {"increment", "commission"} => Payout(x.del) \in Int
  BY LabelSets, PayoutType DEF Fits
<1>3. x.at = "restore" => am[x.ref] \in Int
  BY LabelSets DEF Fits
<1>4. Due(x, am) \in Int
  BY <1>1, <1>2, <1>3 DEF Due
<1>5. Missing(x) \in Int /\ Unreported(x) \in Int
  BY <1>1, <1>2 DEF Missing, Unreported
<1> QED
  BY <1>4, <1>5

LEMMA OwedNumbers ==
    ASSUME NEW rq, NEW r, \A q \in Requests : Fits(rq[q], r), NEW am \in [References -> Nat]
    PROVE  /\ Numbers(Dues(rq, am)) /\ Numbers(Gaps(rq)) /\ Numbers(Reports(rq))
           /\ DOMAIN Dues(rq, am) = Requests /\ DOMAIN Gaps(rq) = Requests /\ DOMAIN Reports(rq) = Requests
<1>1. \A q \in Requests :
         Due(rq[q], am) \in Int /\ Missing(rq[q]) \in Int /\ Unreported(rq[q]) \in Int
  BY DueTyped
<1> QED
  BY <1>1, EarningsAssumption DEF Numbers, Dues, Gaps, Reports

(* What requests owe changes by what one of them owes.                     *)
LEMMA OwedChanges ==
    ASSUME Base, Base', NEW q \in Requests, Becomes(q, req'[q]),
           \A p \in Requests \ {q} : Due(req[p], amount') = Due(req[p], amount)
    PROVE  /\ Total(Dues(req', amount'), Requests)
                = Total(Dues(req, amount), Requests) - Due(req[q], amount) + Due(req'[q], amount')
           /\ Total(Gaps(req'), Requests)
                = Total(Gaps(req), Requests) - Missing(req[q]) + Missing(req'[q])
           /\ Total(Reports(req'), Requests)
                = Total(Reports(req), Requests) - Unreported(req[q]) + Unreported(req'[q])
<1>1. /\ Numbers(Dues(req, amount)) /\ Numbers(Gaps(req)) /\ Numbers(Reports(req))
      /\ DOMAIN Dues(req, amount) = Requests /\ DOMAIN Gaps(req) = Requests /\ DOMAIN Reports(req) = Requests
  BY BaseTypes, OwedNumbers DEF Base
<1>2. /\ Numbers(Dues(req', amount')) /\ Numbers(Gaps(req')) /\ Numbers(Reports(req'))
      /\ DOMAIN Dues(req', amount') = Requests /\ DOMAIN Gaps(req') = Requests
      /\ DOMAIN Reports(req') = Requests
  <2>1. PICK rq, am, r : rq = req' /\ am = amount' /\ r = records'
    OBVIOUS
  <2>2. am \in [References -> Nat] /\ \A p \in Requests : Fits(rq[p], r)
    BY <2>1 DEF Base, TypeOK
  <2> QED
    BY <2>1, <2>2, OwedNumbers
<1>3. \A p \in Requests \ {q} : req'[p] = req[p]
  BY DEF Becomes
<1>4. \A p \in Requests :
         /\ Dues(req, amount)[p] = Due(req[p], amount) /\ Dues(req', amount')[p] = Due(req'[p], amount')
         /\ Gaps(req)[p] = Missing(req[p]) /\ Gaps(req')[p] = Missing(req'[p])
         /\ Reports(req)[p] = Unreported(req[p]) /\ Reports(req')[p] = Unreported(req'[p])
  BY DEF Dues, Gaps, Reports
<1>5. PICK h, k : h = Dues(req, amount) /\ k = Dues(req', amount')
  OBVIOUS
<1>6. Total(k, Requests) = Total(h, Requests) - h[q] + k[q]
  BY <1>1, <1>2, <1>3, <1>4, <1>5, TotalChanges
<1>7. PICK g, f : g = Gaps(req) /\ f = Gaps(req')
  OBVIOUS
<1>8. Total(f, Requests) = Total(g, Requests) - g[q] + f[q]
  BY <1>1, <1>2, <1>3, <1>4, <1>7, TotalChanges
<1>9. PICK a, b : a = Reports(req) /\ b = Reports(req')
  OBVIOUS
<1>10. Total(b, Requests) = Total(a, Requests) - a[q] + b[q]
  BY <1>1, <1>2, <1>3, <1>4, <1>9, TotalChanges
<1> QED
  BY <1>4, <1>5, <1>6, <1>7, <1>8, <1>9, <1>10

(* A step keeps the accounts apart by what requests owe.                   *)
LEMMA MoneyMoves ==
    ASSUME Base, Base', MoneyOK, NEW q \in Requests, Becomes(q, req'[q]),
           \A p \in Requests \ {q} : Due(req[p], amount') = Due(req[p], amount),
           balance' + Sum(records, "available") + Due(req[q], amount)
             = balance + Sum(records', "available") + Due(req'[q], amount'),
           earned' + Whole(records) + Missing(req[q]) = earned + Whole(records') + Missing(req'[q]),
           earned' + Total(Shares(platform), Deliveries) + Unreported(req[q])
             = earned + Total(Shares(platform'), Deliveries) + Unreported(req'[q])
    PROVE  MoneyOK'
<1>1. PICK rq, am, r, pl : rq = req' /\ am = amount' /\ r = records' /\ pl = platform'
  OBVIOUS
<1>2. /\ am \in [References -> Nat] /\ r \in Seq(EarningType)
      /\ pl \in [Deliveries -> Nat] /\ balance' \in Int /\ earned' \in Int
      /\ \A p \in Requests : Fits(rq[p], r)
  BY <1>1 DEF Base, TypeOK
<1>3. /\ Sum(r, "available") \in Int /\ Whole(r) \in Int
      /\ Sum(records, "available") \in Int /\ Whole(records) \in Int
  <2>1. Sum(r, "available") \in Nat /\ Whole(r) \in Nat
    BY <1>2, SumsTyped
  <2>2. Sum(records, "available") \in Nat /\ Whole(records) \in Nat
    BY BaseTypes, SumsTyped
  <2> QED
    BY <2>1, <2>2
<1>4. Total(Shares(pl), Deliveries) \in Int /\ Total(Shares(platform), Deliveries) \in Int
  <2>1. Total(Shares(pl), Deliveries) \in Int
    BY <1>2, SharesNumbers, TotalAdds
  <2>2. Total(Shares(platform), Deliveries) \in Int
    BY BaseTypes, SharesNumbers, TotalAdds
  <2> QED
    BY <2>1, <2>2
<1>5. /\ Due(rq[q], am) \in Int /\ Missing(rq[q]) \in Int /\ Unreported(rq[q]) \in Int
      /\ Due(req[q], amount) \in Int /\ Missing(req[q]) \in Int /\ Unreported(req[q]) \in Int
  <2>1. Due(rq[q], am) \in Int /\ Missing(rq[q]) \in Int /\ Unreported(rq[q]) \in Int
    BY <1>2, DueTyped
  <2>2. Fits(req[q], records)
    BY DEF Base
  <2>3. Due(req[q], amount) \in Int /\ Missing(req[q]) \in Int /\ Unreported(req[q]) \in Int
    BY <2>2, BaseTypes, DueTyped
  <2> QED
    BY <2>1, <2>3
<1>6. /\ Total(Dues(req, amount), Requests) \in Int /\ Total(Gaps(req), Requests) \in Int
      /\ Total(Reports(req), Requests) \in Int
  <2>1. /\ Numbers(Dues(req, amount)) /\ Numbers(Gaps(req)) /\ Numbers(Reports(req))
        /\ DOMAIN Dues(req, amount) = Requests /\ DOMAIN Gaps(req) = Requests
        /\ DOMAIN Reports(req) = Requests
    BY BaseTypes, OwedNumbers DEF Base
  <2> QED
    BY <2>1, TotalAdds
<1>6a. /\ Total(Dues(rq, am), Requests) \in Int /\ Total(Gaps(rq), Requests) \in Int
       /\ Total(Reports(rq), Requests) \in Int
  <2>1. /\ Numbers(Dues(rq, am)) /\ Numbers(Gaps(rq)) /\ Numbers(Reports(rq))
        /\ DOMAIN Dues(rq, am) = Requests /\ DOMAIN Gaps(rq) = Requests /\ DOMAIN Reports(rq) = Requests
    BY <1>2, OwedNumbers
  <2> QED
    BY <2>1, TotalAdds
<1>7. /\ Total(Dues(rq, am), Requests)
           = Total(Dues(req, amount), Requests) - Due(req[q], amount) + Due(rq[q], am)
      /\ Total(Gaps(rq), Requests) = Total(Gaps(req), Requests) - Missing(req[q]) + Missing(rq[q])
      /\ Total(Reports(rq), Requests) = Total(Reports(req), Requests) - Unreported(req[q]) + Unreported(rq[q])
  BY <1>1, OwedChanges
<1>8. balance \in Int /\ earned \in Int
  BY BaseTypes
<1>9. BalanceOK'
  <2>1. PICK a, b, s, t, c, d, x, y :
           /\ a = balance /\ b = balance' /\ s = Sum(records, "available") /\ t = Sum(r, "available")
           /\ c = Total(Dues(req, amount), Requests) /\ d = Total(Dues(rq, am), Requests)
           /\ x = Due(req[q], amount) /\ y = Due(rq[q], am)
    OBVIOUS
  <2>2. a \in Int /\ b \in Int /\ s \in Int /\ t \in Int
    BY <1>2, <1>3, <1>8, <2>1
  <2>3. c \in Int /\ d \in Int /\ x \in Int /\ y \in Int
    BY <1>5, <1>6, <1>6a, <2>1
  <2>4. a = s + c
    BY <2>1 DEF MoneyOK, BalanceOK
  <2>5. d = c - x + y
    BY <1>7, <2>1
  <2>6. b + s + x = a + t + y
    BY <1>1, <2>1
  <2>7. b = t + d
    BY <2>2, <2>3, <2>4, <2>5, <2>6
  <2> QED
    BY <1>1, <2>1, <2>7 DEF BalanceOK
<1>10. EarnedOK'
  <2>1. PICK a, b, s, t, c, d, x, y :
           /\ a = earned /\ b = earned' /\ s = Whole(records) /\ t = Whole(r)
           /\ c = Total(Gaps(req), Requests) /\ d = Total(Gaps(rq), Requests)
           /\ x = Missing(req[q]) /\ y = Missing(rq[q])
    OBVIOUS
  <2>2. a \in Int /\ b \in Int /\ s \in Int /\ t \in Int
    BY <1>2, <1>3, <1>8, <2>1
  <2>3. c \in Int /\ d \in Int /\ x \in Int /\ y \in Int
    BY <1>5, <1>6, <1>6a, <2>1
  <2>4. a = s + c
    BY <2>1 DEF MoneyOK, EarnedOK
  <2>5. d = c - x + y
    BY <1>7, <2>1
  <2>6. b + s + x = a + t + y
    BY <1>1, <2>1
  <2>7. b = t + d
    BY <2>2, <2>3, <2>4, <2>5, <2>6
  <2> QED
    BY <1>1, <2>1, <2>7 DEF EarnedOK
<1>11. PlatformOK'
  <2>1. PICK a, b, s, t, c, d, x, y :
           /\ a = earned /\ b = earned' /\ s = Total(Shares(platform), Deliveries) /\ t = Total(Shares(pl), Deliveries)
           /\ c = Total(Reports(req), Requests) /\ d = Total(Reports(rq), Requests)
           /\ x = Unreported(req[q]) /\ y = Unreported(rq[q])
    OBVIOUS
  <2>2. a \in Int /\ b \in Int /\ s \in Int /\ t \in Int
    BY <1>2, <1>4, <1>8, <2>1
  <2>3. c \in Int /\ d \in Int /\ x \in Int /\ y \in Int
    BY <1>5, <1>6, <1>6a, <2>1
  <2>4. a = s + c
    BY <2>1 DEF MoneyOK, PlatformOK
  <2>5. d = c - x + y
    BY <1>7, <2>1
  <2>6. b + s + x = a + t + y
    BY <1>1, <2>1
  <2>7. b = t + d
    BY <2>2, <2>3, <2>4, <2>5, <2>6
  <2> QED
    BY <1>1, <2>1, <2>7 DEF PlatformOK
<1> QED
  BY <1>9, <1>10, <1>11 DEF MoneyOK

(* A step that no account is told of.                                      *)
LEMMA MoneyStays ==
    ASSUME Base, Base', MoneyOK, NEW q \in Requests, Becomes(q, req'[q]),
           records' = records, balance' = balance, earned' = earned, platform' = platform,
           \A p \in Requests \ {q} : Due(req[p], amount') = Due(req[p], amount),
           Due(req'[q], amount') = Due(req[q], amount), Missing(req'[q]) = Missing(req[q]),
           Unreported(req'[q]) = Unreported(req[q])
    PROVE  MoneyOK'
<1>1. balance' + Sum(records, "available") + Due(req[q], amount)
        = balance + Sum(records', "available") + Due(req'[q], amount')
  OBVIOUS
<1>2. earned' + Whole(records) + Missing(req[q]) = earned + Whole(records') + Missing(req'[q])
  OBVIOUS
<1>3. earned' + Total(Shares(platform), Deliveries) + Unreported(req[q])
        = earned + Total(Shares(platform'), Deliveries) + Unreported(req'[q])
  OBVIOUS
<1> QED
  BY <1>1, <1>2, <1>3, MoneyMoves

LEMMA MoneyInit == Init => MoneyInv
<1> SUFFICES ASSUME Init PROVE MoneyOK
  BY DEF MoneyInv
<1>1. Base
  BY BaseInit
<1>2. \A q \in Requests : Due(req[q], amount) = 0 /\ Missing(req[q]) = 0 /\ Unreported(req[q]) = 0
  BY DEF Init, Idle, Due, Missing, Unreported
<1>3. /\ Numbers(Dues(req, amount)) /\ Numbers(Gaps(req)) /\ Numbers(Reports(req))
      /\ DOMAIN Dues(req, amount) = Requests /\ DOMAIN Gaps(req) = Requests /\ DOMAIN Reports(req) = Requests
  BY <1>1, BaseTypes, OwedNumbers DEF Base
<1>4. /\ Total(Dues(req, amount), Requests) = 0 /\ Total(Gaps(req), Requests) = 0
      /\ Total(Reports(req), Requests) = 0
  <2>1. \A q \in Requests : Dues(req, amount)[q] = 0 /\ Gaps(req)[q] = 0 /\ Reports(req)[q] = 0
    BY <1>2 DEF Dues, Gaps, Reports
  <2> QED
    BY <1>3, <2>1, TotalOfZeros
<1>5. Sum(records, "available") = 0 /\ Whole(records) = 0
  <2>1. With(records, "available") = {} /\ DOMAIN records = {} /\ records \in Seq(EarningType)
    BY DEF Init, With
  <2> QED
    BY <2>1, WorthNumbers, TotalAdds DEF Sum, Whole
<1>6. Total(Shares(platform), Deliveries) = 0
  <2>1. Numbers(Shares(platform)) /\ DOMAIN Shares(platform) = Deliveries
        /\ \A d \in Deliveries : Shares(platform)[d] = 0
    <3>1. \A d \in Deliveries : platform[d] = 0 /\ Payout(d) \in Nat
      BY PayoutType DEF Init
    <3> QED
      BY <1>1, <3>1, BaseTypes, SharesNumbers
  <2> QED
    BY <2>1, TotalOfZeros
<1> QED
  BY <1>4, <1>5, <1>6 DEF Init, MoneyOK, BalanceOK, EarnedOK, PlatformOK
LEMMA MoneyTyped ==
    ASSUME Base, Base'
    PROVE  /\ balance \in Int /\ balance' \in Int /\ earned \in Int /\ earned' \in Int
           /\ Sum(records, "available") \in Int /\ Whole(records) \in Int
           /\ Sum(records', "available") \in Int /\ Whole(records') \in Int
<1>1. records \in Seq(EarningType) /\ balance \in Int /\ earned \in Int
  BY BaseTypes
<1>2. PICK r : r = records' /\ r \in Seq(EarningType)
  BY DEF Base, TypeOK
<1>3. balance' \in Int /\ earned' \in Int
  BY DEF Base, TypeOK
<1>4. Sum(records, "available") \in Nat /\ Whole(records) \in Nat
  BY <1>1, SumsTyped
<1>5. Sum(r, "available") \in Nat /\ Whole(r) \in Nat
  BY <1>2, SumsTyped
<1> QED
  BY <1>1, <1>2, <1>3, <1>4, <1>5

LEMMA MoneyCreates ==
    ASSUME Base, Base', MoneyOK, NEW q \in Requests, CreateEarning(q)
    PROVE  MoneyOK'
<1>1. PICK n, e : n = Payout(req[q].del) /\ e = Earning(req[q].del, n, "available", NoReference)
  OBVIOUS
<1>2. /\ req[q].at = "create" /\ Becomes(q, req'[q]) /\ req'[q].at = "increment"
      /\ req'[q].del = req[q].del /\ req[q].del \in Deliveries /\ Added(records, records', e)
      /\ balance' = balance /\ earned' = earned /\ platform' = platform /\ amount' = amount
  BY <1>1, CreateDoes DEF At, Moves
<1>3. n \in Int /\ e.amount = n /\ e.status = "available"
  BY <1>1, <1>2, PayoutType DEF Earning
<1>4. /\ Due(req[q], amount) = 0 /\ Due(req'[q], amount') = - n
      /\ Missing(req[q]) = 0 /\ Missing(req'[q]) = - n
      /\ Unreported(req[q]) = 0 /\ Unreported(req'[q]) = 0
  BY <1>1, <1>2 DEF Due, Missing, Unreported
<1>5. Sum(records', "available") = Sum(records, "available") + n /\ Whole(records') = Whole(records) + n
  BY <1>2, <1>3, BaseTypes, AddedSums
<1>6. balance' + Sum(records, "available") + Due(req[q], amount)
        = balance + Sum(records', "available") + Due(req'[q], amount')
  BY <1>2, <1>3, <1>4, <1>5, MoneyTyped
<1>7. earned' + Whole(records) + Missing(req[q]) = earned + Whole(records') + Missing(req'[q])
  BY <1>2, <1>3, <1>4, <1>5, MoneyTyped
<1>8. earned' + Total(Shares(platform), Deliveries) + Unreported(req[q])
        = earned + Total(Shares(platform'), Deliveries) + Unreported(req'[q])
  BY <1>2, <1>4
<1> QED
  BY <1>2, <1>6, <1>7, <1>8, MoneyMoves

LEMMA MoneyIncrements ==
    ASSUME Base, Base', MoneyOK, NEW q \in Requests, IncrementBalance(q)
    PROVE  MoneyOK'
<1>1. PICK n : n = Payout(req[q].del)
  OBVIOUS
<1>2. /\ req[q].at = "increment" /\ Becomes(q, req'[q]) /\ req'[q].at = "commission"
      /\ req'[q].del = req[q].del /\ records' = records
      /\ balance' = balance + n /\ earned' = earned + n /\ platform' = platform /\ amount' = amount
  BY <1>1, IncrementDoes DEF At, Moves
<1>3. n \in Int
  BY <1>1, <1>2, LabelSets, PayoutType DEF Base, Fits
<1>4. /\ Due(req[q], amount) = - n /\ Due(req'[q], amount') = 0
      /\ Missing(req[q]) = - n /\ Missing(req'[q]) = 0
      /\ Unreported(req[q]) = 0 /\ Unreported(req'[q]) = n
  BY <1>1, <1>2 DEF Due, Missing, Unreported
<1>5. balance' + Sum(records, "available") + Due(req[q], amount)
        = balance + Sum(records', "available") + Due(req'[q], amount')
  BY <1>2, <1>3, <1>4, MoneyTyped
<1>6. earned' + Whole(records) + Missing(req[q]) = earned + Whole(records') + Missing(req'[q])
  BY <1>2, <1>3, <1>4, MoneyTyped
<1>7. earned' + Total(Shares(platform), Deliveries) + Unreported(req[q])
        = earned + Total(Shares(platform'), Deliveries) + Unreported(req'[q])
  <2>1. PICK t : t = Total(Shares(platform), Deliveries)
    OBVIOUS
  <2>2. t \in Int
    BY <2>1, BaseTypes, SharesNumbers, TotalAdds
  <2> QED
    BY <1>2, <1>3, <1>4, <2>1, <2>2, MoneyTyped
<1> QED
  BY <1>2, <1>5, <1>6, <1>7, MoneyMoves

LEMMA MoneyReported ==
    ASSUME Base, Base', MoneyOK, NEW q \in Requests, CreateCommission(q)
    PROVE  MoneyOK'
<1>1. PICK d \in Deliveries : d = req[q].del
  BY CommissionDoes
<1>2. PICK n, pl : n = Payout(d) /\ pl = platform'
  OBVIOUS
<1>3. /\ req[q].at = "commission" /\ Becomes(q, Idle) /\ pl = [platform EXCEPT ![d] = @ + 1]
      /\ records' = records /\ balance' = balance /\ earned' = earned /\ amount' = amount
  BY <1>1, <1>2, CommissionDoes DEF At
<1>4. n \in Int /\ Becomes(q, req'[q]) /\ req'[q].at = "idle"
  BY <1>2, <1>3, PayoutType DEF Becomes, Idle
<1>5. /\ Due(req[q], amount) = 0 /\ Due(req'[q], amount') = 0
      /\ Missing(req[q]) = 0 /\ Missing(req'[q]) = 0
      /\ Unreported(req[q]) = n /\ Unreported(req'[q]) = 0
  BY <1>1, <1>2, <1>3, <1>4 DEF Due, Missing, Unreported
<1>6. Total(Shares(pl), Deliveries) = Total(Shares(platform), Deliveries) + n
      /\ Total(Shares(platform), Deliveries) \in Int
  <2>1. platform \in [Deliveries -> Nat] /\ pl \in [Deliveries -> Nat]
    BY <1>2, BaseTypes DEF Base, TypeOK
  <2>2. PICK h, k : h = Shares(platform) /\ k = Shares(pl)
    OBVIOUS
  <2>3. /\ Numbers(h) /\ Numbers(k) /\ DOMAIN h = Deliveries /\ DOMAIN k = Deliveries
        /\ \A c \in Deliveries : h[c] = platform[c] * Payout(c) /\ k[c] = pl[c] * Payout(c)
    BY <2>1, <2>2, SharesNumbers
  <2>4. \A c \in Deliveries \ {d} : h[c] = k[c]
    BY <1>3, <2>1, <2>3
  <2>5. k[d] = h[d] + n
    <3>1. h[d] = platform[d] * n /\ k[d] = (platform[d] + 1) * n /\ platform[d] \in Int
      BY <1>2, <1>3, <2>1, <2>3
    <3> QED
      BY <1>4, <3>1
  <2>6. Total(k, Deliveries) = Total(h, Deliveries) - h[d] + k[d]
    BY <2>3, <2>4, TotalChanges
  <2>7. h[d] \in Int /\ Total(h, Deliveries) \in Int
    BY <2>3, TotalAdds DEF Numbers
  <2>8. Total(k, Deliveries) = Total(h, Deliveries) + n
    BY <1>4, <2>5, <2>6, <2>7
  <2> QED
    BY <2>2, <2>7, <2>8
<1>7. balance' + Sum(records, "available") + Due(req[q], amount)
        = balance + Sum(records', "available") + Due(req'[q], amount')
  BY <1>3, <1>5
<1>8. earned' + Whole(records) + Missing(req[q]) = earned + Whole(records') + Missing(req'[q])
  BY <1>3, <1>5
<1>9. earned' + Total(Shares(platform), Deliveries) + Unreported(req[q])
        = earned + Total(Shares(platform'), Deliveries) + Unreported(req'[q])
  BY <1>2, <1>3, <1>4, <1>5, <1>6, MoneyTyped
<1> QED
  BY <1>3, <1>4, <1>7, <1>8, <1>9, MoneyMoves

(* A request takes the earning that it found and that is still available.  *)
LEMMA TakesFound ==
    ASSUME Base, AloneInv, NEW q \in Requests, req[q].at = "hold", req[q].todo # {}, ~overlapped
    PROVE  /\ Found(q).index \in DOMAIN records /\ Found(q).amount \in Nat
           /\ records[Found(q).index].status = "available"
           /\ records[Found(q).index].amount = Found(q).amount
<1>1. PICK f : f = Found(q)
  OBVIOUS
<1>2. f \in req[q].todo /\ f.amount \in Nat /\ f.index \in DOMAIN records
  BY <1>1, BaseTypes, FoundIsFirst DEF Base
<1>3. FoundStill(q)
  BY DEF AloneInv
<1> QED
  BY <1>1, <1>2, <1>3 DEF FoundStill

LEMMA MoneyHoldsWhole ==
    ASSUME Base, Base', AloneInv, MoneyOK, NEW q \in Requests, HoldWhole(q), ~overlapped
    PROVE  MoneyOK'
<1>1. PICK f : f = Found(q)
  OBVIOUS
<1>2. PICK e : e = [records[f.index] EXCEPT !.status = "held", !.ref = req[q].ref]
  OBVIOUS
<1>3. /\ req[q].at = "hold" /\ req[q].todo # {}
      /\ Altered(records, records', f.index, e)
      /\ Becomes(q, req'[q]) /\ req'[q].at = "hold" /\ req'[q].sum = req[q].sum
      /\ req'[q].left = req[q].left - f.amount
      /\ balance' = balance /\ earned' = earned /\ platform' = platform /\ amount' = amount
  BY <1>1, <1>2, HoldWholeDoes DEF At
<1>4. /\ f.index \in DOMAIN records /\ f.amount \in Nat
      /\ records[f.index].status = "available" /\ records[f.index].amount = f.amount
  BY <1>1, <1>3, TakesFound
<1>5. e.status = "held" /\ e.amount = f.amount
  <2>1. records[f.index] \in EarningType
    BY <1>4, BaseTypes, RecordTyped
  <2> QED
    BY <1>2, <1>4, <2>1 DEF EarningType
<1>6. PICK n, s, l : n = f.amount /\ s = req[q].sum /\ l = req[q].left
  OBVIOUS
<1>7. n \in Int /\ s \in Int /\ l \in Int
  BY <1>4, <1>6, RequestTyped DEF Base
<1>8. /\ Sum(records', "available") = Sum(records, "available") - n
      /\ Whole(records') = Whole(records)
  <2>1. /\ Whole(records') = Whole(records) - records[f.index].amount + e.amount
        /\ Sum(records', "available")
              = Sum(records, "available")
                  - (IF records[f.index].status = "available" THEN records[f.index].amount ELSE 0)
                  + (IF e.status = "available" THEN e.amount ELSE 0)
    BY <1>3, BaseTypes, AlteredSums
  <2>2. Whole(records') = Whole(records) - n + n
    BY <1>4, <1>5, <1>6, <2>1
  <2>3. Sum(records', "available") = Sum(records, "available") - n + 0
    BY <1>4, <1>5, <1>6, <2>1
  <2> QED
    BY <1>7, <2>2, <2>3, MoneyTyped
<1>9. /\ Due(req[q], amount) = s - l /\ Due(req'[q], amount') = s - (l - n)
      /\ Missing(req[q]) = 0 /\ Missing(req'[q]) = 0
      /\ Unreported(req[q]) = 0 /\ Unreported(req'[q]) = 0
  BY <1>3, <1>6 DEF Due, Missing, Unreported
<1>10. balance' + Sum(records, "available") + Due(req[q], amount)
         = balance + Sum(records', "available") + Due(req'[q], amount')
  BY <1>3, <1>7, <1>8, <1>9, MoneyTyped
<1>11. earned' + Whole(records) + Missing(req[q]) = earned + Whole(records') + Missing(req'[q])
  BY <1>3, <1>8, <1>9
<1>12. earned' + Total(Shares(platform), Deliveries) + Unreported(req[q])
         = earned + Total(Shares(platform'), Deliveries) + Unreported(req'[q])
  BY <1>3, <1>9
<1> QED
  BY <1>3, <1>10, <1>11, <1>12, MoneyMoves

LEMMA MoneyHoldsPart ==
    ASSUME Base, Base', AloneInv, MoneyOK, NEW q \in Requests, HoldPart(q), ~overlapped
    PROVE  MoneyOK'
<1>1. PICK f : f = Found(q)
  OBVIOUS
<1>2. PICK e : e = [records[f.index] EXCEPT !.amount = f.amount - req[q].left]
  OBVIOUS
<1>3. /\ req[q].at = "hold" /\ req[q].todo # {}
      /\ Altered(records, records', f.index, e)
      /\ Becomes(q, req'[q]) /\ req'[q].at = "split" /\ req'[q].sum = req[q].sum
      /\ req'[q].left = req[q].left
      /\ balance' = balance /\ earned' = earned /\ platform' = platform /\ amount' = amount
  BY <1>1, <1>2, HoldPartDoes DEF At, Moves
<1>4. /\ f.index \in DOMAIN records /\ f.amount \in Nat
      /\ records[f.index].status = "available" /\ records[f.index].amount = f.amount
  BY <1>1, <1>3, TakesFound
<1>5. e.status = "available" /\ e.amount = f.amount - req[q].left
  <2>1. records[f.index] \in EarningType
    BY <1>4, BaseTypes, RecordTyped
  <2> QED
    BY <1>2, <1>4, <2>1 DEF EarningType
<1>6. PICK n, s, l : n = f.amount /\ s = req[q].sum /\ l = req[q].left
  OBVIOUS
<1>7. n \in Int /\ s \in Int /\ l \in Int
  BY <1>4, <1>6, RequestTyped DEF Base
<1>8. /\ Sum(records', "available") = Sum(records, "available") - l
      /\ Whole(records') = Whole(records) - l
  <2>1. /\ Whole(records') = Whole(records) - records[f.index].amount + e.amount
        /\ Sum(records', "available")
              = Sum(records, "available")
                  - (IF records[f.index].status = "available" THEN records[f.index].amount ELSE 0)
                  + (IF e.status = "available" THEN e.amount ELSE 0)
    BY <1>3, BaseTypes, AlteredSums
  <2>2. Whole(records') = Whole(records) - n + (n - l)
    BY <1>4, <1>5, <1>6, <2>1
  <2>3. Sum(records', "available") = Sum(records, "available") - n + (n - l)
    BY <1>4, <1>5, <1>6, <2>1
  <2> QED
    BY <1>7, <2>2, <2>3, MoneyTyped
<1>9. /\ Due(req[q], amount) = s - l /\ Due(req'[q], amount') = s
      /\ Missing(req[q]) = 0 /\ Missing(req'[q]) = l
      /\ Unreported(req[q]) = 0 /\ Unreported(req'[q]) = 0
  BY <1>3, <1>6 DEF Due, Missing, Unreported
<1>10. balance' + Sum(records, "available") + Due(req[q], amount)
         = balance + Sum(records', "available") + Due(req'[q], amount')
  BY <1>3, <1>7, <1>8, <1>9, MoneyTyped
<1>11. earned' + Whole(records) + Missing(req[q]) = earned + Whole(records') + Missing(req'[q])
  BY <1>3, <1>7, <1>8, <1>9, MoneyTyped
<1>12. earned' + Total(Shares(platform), Deliveries) + Unreported(req[q])
         = earned + Total(Shares(platform'), Deliveries) + Unreported(req'[q])
  BY <1>3, <1>9
<1> QED
  BY <1>3, <1>10, <1>11, <1>12, MoneyMoves

LEMMA MoneyCreatesHeld ==
    ASSUME Base, Base', MoneyOK, NEW q \in Requests, CreateHeld(q)
    PROVE  MoneyOK'
<1>1. PICK e : e = Earning(records[Found(q).index].del, req[q].left, "held", req[q].ref)
  OBVIOUS
<1>2. /\ req[q].at = "split" /\ Added(records, records', e)
      /\ Becomes(q, req'[q]) /\ req'[q].at = "deduct" /\ req'[q].sum = req[q].sum
      /\ balance' = balance /\ earned' = earned /\ platform' = platform /\ amount' = amount
  BY <1>1, CreateHeldDoes DEF At
<1>3. PICK l : l = req[q].left /\ l \in Int
  BY RequestTyped DEF Base
<1>4. e.status = "held" /\ e.amount = l
  BY <1>1, <1>3 DEF Earning
<1>5. Sum(records', "available") = Sum(records, "available") /\ Whole(records') = Whole(records) + l
  BY <1>2, <1>4, BaseTypes, AddedSums
<1>6. /\ Due(req[q], amount) = Due(req'[q], amount')
      /\ Missing(req[q]) = l /\ Missing(req'[q]) = 0
      /\ Unreported(req[q]) = 0 /\ Unreported(req'[q]) = 0
  BY <1>2, <1>3 DEF Due, Missing, Unreported
<1>7. balance' + Sum(records, "available") + Due(req[q], amount)
        = balance + Sum(records', "available") + Due(req'[q], amount')
  BY <1>2, <1>5, <1>6
<1>8. earned' + Whole(records) + Missing(req[q]) = earned + Whole(records') + Missing(req'[q])
  BY <1>2, <1>3, <1>5, <1>6, MoneyTyped
<1>9. earned' + Total(Shares(platform), Deliveries) + Unreported(req[q])
        = earned + Total(Shares(platform'), Deliveries) + Unreported(req'[q])
  BY <1>2, <1>6
<1> QED
  BY <1>2, <1>7, <1>8, <1>9, MoneyMoves

LEMMA MoneyDeducts ==
    ASSUME Base, Base', MoneyOK, NEW q \in Requests, DeductBalance(q)
    PROVE  MoneyOK'
<1>1. /\ req[q].at = "deduct" /\ Becomes(q, req'[q]) /\ req'[q].at = "file" /\ records' = records
      /\ balance' = balance - req[q].sum /\ earned' = earned /\ platform' = platform /\ amount' = amount
  BY DeductDoes DEF At, Moves
<1>2. PICK s : s = req[q].sum /\ s \in Int
  BY RequestTyped DEF Base
<1>3. /\ Due(req[q], amount) = s /\ Due(req'[q], amount') = 0
      /\ Missing(req[q]) = 0 /\ Missing(req'[q]) = 0
      /\ Unreported(req[q]) = 0 /\ Unreported(req'[q]) = 0
  BY <1>1, <1>2 DEF Due, Missing, Unreported
<1>4. balance' + Sum(records, "available") + Due(req[q], amount)
        = balance + Sum(records', "available") + Due(req'[q], amount')
  BY <1>1, <1>2, <1>3, MoneyTyped
<1>5. earned' + Whole(records) + Missing(req[q]) = earned + Whole(records') + Missing(req'[q])
  BY <1>1, <1>3
<1>6. earned' + Total(Shares(platform), Deliveries) + Unreported(req[q])
        = earned + Total(Shares(platform'), Deliveries) + Unreported(req'[q])
  BY <1>1, <1>3
<1> QED
  BY <1>1, <1>4, <1>5, <1>6, MoneyMoves

(* Steps that owe as much as before. *)
LEMMA MoneyQuiet ==
    ASSUME Base, Base', MoneyOK, NEW q \in Requests, Becomes(q, req'[q]),
           records' = records, balance' = balance, earned' = earned, platform' = platform, amount' = amount,
           req[q].at \in {"idle", "balance", "find", "payOut", "release", "approve", "reject"},
           req'[q].at \in {"idle", "create", "balance", "find", "payOut", "release", "approve"}
    PROVE  MoneyOK'
<1>1. /\ Due(req'[q], amount') = Due(req[q], amount) /\ Missing(req'[q]) = Missing(req[q])
      /\ Unreported(req'[q]) = Unreported(req[q])
  BY DEF Due, Missing, Unreported
<1> QED
  BY <1>1, MoneyStays

LEMMA MoneyChecks ==
    ASSUME Base, Base', MoneyOK, NEW q \in Requests, CheckBalance(q)
    PROVE  MoneyOK'
<1>1. /\ req[q].at = "balance" /\ records' = records /\ balance' = balance /\ earned' = earned
      /\ platform' = platform /\ amount' = amount
  BY CheckDoes DEF At
<1>2. Becomes(q, req'[q]) /\ req'[q].at \in {"idle", "find"}
  BY CheckDoes DEF Moves, Becomes, Idle
<1> QED
  BY <1>1, <1>2, MoneyQuiet

LEMMA MoneyFinds ==
    ASSUME Base, Base', HeldOK, MoneyOK, NEW q \in Requests, FindEarnings(q)
    PROVE  MoneyOK'
<1>1. /\ req[q].at = "find" /\ Becomes(q, req'[q]) /\ req'[q].at = "hold"
      /\ req'[q].sum = req[q].sum /\ req'[q].left = req[q].left /\ records' = records
      /\ balance' = balance /\ earned' = earned /\ platform' = platform /\ amount' = amount
  BY FindDoes DEF At
<1>2. req[q].left = req[q].sum /\ req[q].sum \in Int
  BY <1>1, LabelSets, RequestTyped DEF Base, HeldOK, TakeOK
<1>3. Due(req[q], amount) = 0 /\ Due(req'[q], amount') = 0
  BY <1>1, <1>2 DEF Due
<1>4. Missing(req'[q]) = Missing(req[q]) /\ Unreported(req'[q]) = Unreported(req[q])
  BY <1>1 DEF Missing, Unreported
<1> QED
  BY <1>1, <1>3, <1>4, MoneyStays

LEMMA MoneyHeldAll ==
    ASSUME Base, Base', HeldOK, MoneyOK, NEW q \in Requests, HeldAll(q)
    PROVE  MoneyOK'
<1>1. /\ req[q].at = "hold" /\ Becomes(q, req'[q]) /\ req'[q].at = "deduct"
      /\ req'[q].sum = req[q].sum /\ records' = records
      /\ req[q].todo = {} \/ req[q].left = 0
      /\ balance' = balance /\ earned' = earned /\ platform' = platform /\ amount' = amount
  BY HeldAllDoes DEF At, Moves
<1>2. req[q].left = 0 /\ req[q].sum \in Int
  BY <1>1, NothingLeft, RequestTyped DEF Base
<1>3. Due(req'[q], amount') = Due(req[q], amount)
  <2>1. Due(req[q], amount) = req[q].sum - req[q].left /\ Due(req'[q], amount') = req[q].sum
    BY <1>1 DEF Due
  <2> QED
    BY <1>2, <2>1
<1>4. Missing(req'[q]) = Missing(req[q]) /\ Unreported(req'[q]) = Unreported(req[q])
  BY <1>1 DEF Missing, Unreported
<1> QED
  BY <1>1, <1>3, <1>4, MoneyStays

LEMMA MoneyFiles ==
    ASSUME Base, Base', OneWithdrawal, OneAtATime, MoneyOK, NEW q \in Requests, FileRequest(q)
    PROVE  MoneyOK'
<1>1. /\ req[q].at = "file" /\ Becomes(q, Idle) /\ records' = records /\ balance' = balance
      /\ earned' = earned /\ platform' = platform /\ req[q].ref \in References
      /\ amount' = [amount EXCEPT ![req[q].ref] = req[q].sum]
  BY FileDoes DEF At
<1>2. PICK w \in References : w = req[q].ref
  BY <1>1
<1>3. Becomes(q, req'[q]) /\ req'[q].at = "idle"
  BY <1>1 DEF Becomes, Idle
<1>4. \A p \in Requests \ {q} : req[p].at = "restore" => req[p].ref \in References /\ req[p].ref # w
  <2>1. Mine(q, w)
    BY <1>1, <1>2, LabelSets, MyOwn
  <2> QED
    BY <2>1, LabelSets DEF Mine, Base, Fits
<1>5. \A v \in References \ {w} : amount'[v] = amount[v]
  BY <1>1, <1>2, BaseTypes
<1>6. \A p \in Requests \ {q} : Due(req[p], amount') = Due(req[p], amount)
  BY <1>4, <1>5 DEF Due
<1>7. /\ Due(req'[q], amount') = Due(req[q], amount) /\ Missing(req'[q]) = Missing(req[q])
      /\ Unreported(req'[q]) = Unreported(req[q])
  BY <1>1, <1>3 DEF Due, Missing, Unreported
<1> QED
  BY <1>1, <1>3, <1>6, <1>7, MoneyStays

LEMMA MoneyPaysOut ==
    ASSUME Base, Base', MoneyOK, NEW q \in Requests, PayOut(q)
    PROVE  MoneyOK'
<1>1. PICK w \in References : w = req[q].ref
  BY PayOutDoes
<1>2. /\ req[q].at = "payOut" /\ Becomes(q, req'[q]) /\ req'[q].at = "approve"
      /\ Updated(records, records', w, "withdrawn", w)
      /\ balance' = balance /\ earned' = earned /\ platform' = platform /\ amount' = amount
  BY <1>1, PayOutDoes DEF At, Moves
<1>3. records \in Seq(EarningType)
  BY BaseTypes
<1>4. Whole(records') = Whole(records) /\ Sum(records', "available") = Sum(records, "available")
  <2>1. Updated(records, records', w, "withdrawn", w)
    BY <1>2
  <2> QED
    BY <1>3, <2>1, PaidOutSums
<1>5. /\ Due(req'[q], amount') = Due(req[q], amount) /\ Missing(req'[q]) = Missing(req[q])
      /\ Unreported(req'[q]) = Unreported(req[q])
  BY <1>2 DEF Due, Missing, Unreported
<1>6. balance' + Sum(records, "available") + Due(req[q], amount)
        = balance + Sum(records', "available") + Due(req'[q], amount')
  BY <1>2, <1>4, <1>5
<1>7. earned' + Whole(records) + Missing(req[q]) = earned + Whole(records') + Missing(req'[q])
  BY <1>2, <1>4, <1>5
<1>8. earned' + Total(Shares(platform), Deliveries) + Unreported(req[q])
        = earned + Total(Shares(platform'), Deliveries) + Unreported(req'[q])
  BY <1>2, <1>5
<1> QED
  BY <1>2, <1>6, <1>7, <1>8, MoneyMoves

LEMMA MoneyReleases ==
    ASSUME Base, Base', OneWithdrawal, OneAtATime, HeldOK, MoneyOK, NEW q \in Requests, ReleaseHeld(q)
    PROVE  MoneyOK'
<1>1. PICK w \in References : w = req[q].ref
  BY ReleaseDoes
<1>2. /\ req[q].at = "release" /\ Becomes(q, req'[q]) /\ req'[q].at = "restore" /\ req'[q].ref = w
      /\ Updated(records, records', w, "available", NoReference)
      /\ balance' = balance /\ earned' = earned /\ platform' = platform /\ amount' = amount
  BY <1>1, ReleaseDoes DEF At, Moves
<1>3. filed[w] = "pending" /\ ~Emptied(w)
  <2>1. req[q].at \in Deciding
    BY <1>2, LabelSets
  <2>2. About(q, w)
    BY <1>1, <1>2, <2>1, MyOwn DEF About
  <2> QED
    BY <1>1, <1>2, <2>1, <2>2, Uses DEF OneAtATime, InTurn
<1>4. PICK n : n = amount[w] /\ n \in Int
  BY BaseTypes
<1>5. Have(records, w, "held") = n
  BY <1>3, <1>4 DEF HeldOK, RefOK
<1>6. records \in Seq(EarningType)
  BY BaseTypes
<1>7. Whole(records') = Whole(records) /\ Sum(records', "available") = Sum(records, "available") + n
  BY <1>2, <1>5, <1>6, UpdatedSums
<1>8. /\ Due(req[q], amount) = 0 /\ Due(req'[q], amount') = - n
      /\ Missing(req'[q]) = Missing(req[q]) /\ Unreported(req'[q]) = Unreported(req[q])
  BY <1>2, <1>4 DEF Due, Missing, Unreported
<1>9. balance' + Sum(records, "available") + Due(req[q], amount)
        = balance + Sum(records', "available") + Due(req'[q], amount')
  BY <1>2, <1>4, <1>7, <1>8, MoneyTyped
<1>10. earned' + Whole(records) + Missing(req[q]) = earned + Whole(records') + Missing(req'[q])
  BY <1>2, <1>7, <1>8
<1>11. earned' + Total(Shares(platform), Deliveries) + Unreported(req[q])
         = earned + Total(Shares(platform'), Deliveries) + Unreported(req'[q])
  BY <1>2, <1>8
<1> QED
  BY <1>2, <1>9, <1>10, <1>11, MoneyMoves

LEMMA MoneyRestores ==
    ASSUME Base, Base', MoneyOK, NEW q \in Requests, RestoreBalance(q)
    PROVE  MoneyOK'
<1>1. PICK w \in References : w = req[q].ref
  BY RestoreDoes
<1>2. PICK n : n = amount[w] /\ n \in Int
  BY BaseTypes
<1>3. /\ req[q].at = "restore" /\ Becomes(q, req'[q]) /\ req'[q].at = "reject" /\ records' = records
      /\ balance' = balance + n /\ earned' = earned /\ platform' = platform /\ amount' = amount
  BY <1>1, <1>2, RestoreDoes DEF At, Moves
<1>4. /\ Due(req[q], amount) = - n /\ Due(req'[q], amount') = 0
      /\ Missing(req'[q]) = Missing(req[q]) /\ Unreported(req'[q]) = Unreported(req[q])
  BY <1>1, <1>2, <1>3 DEF Due, Missing, Unreported
<1>5. balance' + Sum(records, "available") + Due(req[q], amount)
        = balance + Sum(records', "available") + Due(req'[q], amount')
  BY <1>2, <1>3, <1>4, MoneyTyped
<1>6. earned' + Whole(records) + Missing(req[q]) = earned + Whole(records') + Missing(req'[q])
  BY <1>3, <1>4
<1>7. earned' + Total(Shares(platform), Deliveries) + Unreported(req[q])
        = earned + Total(Shares(platform'), Deliveries) + Unreported(req'[q])
  BY <1>3, <1>4
<1> QED
  BY <1>3, <1>5, <1>6, <1>7, MoneyMoves

LEMMA MoneyDecided ==
    ASSUME Base, Base', MoneyOK, NEW q \in Requests, Approve(q) \/ Reject(q)
    PROVE  MoneyOK'
<1>1. /\ req[q].at \in {"approve", "reject"} /\ Becomes(q, Idle) /\ records' = records
      /\ balance' = balance /\ earned' = earned /\ platform' = platform /\ amount' = amount
  <2>1. CASE Approve(q)
    BY <2>1, ApproveDoes DEF At
  <2>2. CASE Reject(q)
    BY <2>2, RejectDoes DEF At
  <2> QED
    BY <2>1, <2>2
<1>2. Becomes(q, req'[q]) /\ req'[q].at = "idle"
  BY <1>1 DEF Becomes, Idle
<1> QED
  BY <1>1, <1>2, MoneyQuiet

LEMMA MoneyStarts ==
    ASSUME Base, Base', MoneyOK, NEW q \in Requests, req[q].at = "idle", Becomes(q, req'[q]),
           req'[q].at \in {"create", "balance", "payOut", "release"},
           records' = records, balance' = balance, earned' = earned, platform' = platform, amount' = amount
    PROVE  MoneyOK'
  BY MoneyQuiet

LEMMA MoneyUnmoved ==
    ASSUME MoneyOK, req' = req,
           records' = records, balance' = balance, earned' = earned, platform' = platform, amount' = amount
    PROVE  MoneyOK'
  BY DEF MoneyOK, BalanceOK, EarnedOK, PlatformOK

LEMMA MoneyStep ==
    Base /\ Base' /\ AloneInv /\ OneInv /\ HeldInv /\ MoneyInv /\ [Next]_vars => MoneyInv'
<1> SUFFICES ASSUME Base, Base', AloneInv, OneInv, HeldInv, MoneyInv, [Next]_vars, Calm' PROVE MoneyOK'
  BY DEF MoneyInv
<1>0. OneAtATime /\ OneWithdrawal /\ HeldOK /\ MoneyOK /\ ~overlapped /\ faults' = 0 /\ faults = 0
  BY CalmBefore DEF OneInv, AloneInv, HeldInv, MoneyInv, Calm
<1>1. CASE UNCHANGED vars
  BY <1>0, <1>1, MoneyUnmoved DEF vars, books, history
<1>2. ASSUME NEW q \in Requests, Credit(q) PROVE MoneyOK'
  BY <1>0, <1>2, MoneyCreates, MoneyIncrements, MoneyReported DEF Credit
<1>3. ASSUME NEW q \in Requests, Withdraw(q) PROVE MoneyOK'
  BY <1>0, <1>3, MoneyChecks, MoneyFinds, MoneyHoldsWhole, MoneyHoldsPart, MoneyCreatesHeld,
     MoneyHeldAll, MoneyDeducts, MoneyFiles DEF Withdraw
<1>4. ASSUME NEW q \in Requests, Settle(q) PROVE MoneyOK'
  BY <1>0, <1>4, MoneyPaysOut, MoneyReleases, MoneyRestores, MoneyDecided DEF Settle
<1>5. ASSUME NEW q \in Requests, Fail(q) PROVE FALSE
  BY <1>0, <1>5, FailDoes
<1>6. ASSUME NEW q \in Requests, NEW d \in Deliveries, StartCredit(q, d) PROVE MoneyOK'
  <2>1. /\ req[q].at = "idle" /\ records' = records /\ balance' = balance /\ earned' = earned
        /\ platform' = platform /\ amount' = amount
    BY <1>6, StartCreditDoes DEF At
  <2>2. req' = req \/ (Becomes(q, req'[q]) /\ req'[q].at = "create")
    <3>1. PICK x : x = [Idle EXCEPT !.at = "create", !.del = d]
      OBVIOUS
    <3>2. req' = req \/ (Becomes(q, req'[q]) /\ req'[q] = x)
      BY <1>6, <3>1, StartCreditDoes
    <3>3. x.at = "create"
      BY <3>1 DEF Idle
    <3> QED
      BY <3>2, <3>3
  <2>3. CASE req' = req
    BY <1>0, <2>1, <2>3, MoneyUnmoved
  <2>4. CASE Becomes(q, req'[q]) /\ req'[q].at = "create"
    BY <1>0, <2>1, <2>4, MoneyStarts
  <2> QED
    BY <2>2, <2>3, <2>4
<1>7. ASSUME NEW q \in Requests, NEW w \in References, NEW n \in Amounts, StartWithdrawal(q, w, n)
      PROVE  MoneyOK'
  <2>1. /\ req[q].at = "idle" /\ records' = records /\ balance' = balance /\ earned' = earned
        /\ platform' = platform /\ amount' = amount /\ Becomes(q, req'[q])
        /\ req'[q].at = "balance"
    BY <1>7, StartWithdrawalDoes DEF At
  <2>2. req'[q].at = "balance"
    BY <2>1 DEF Idle
  <2> QED
    BY <1>0, <2>1, <2>2, MoneyStarts
<1>8. ASSUME NEW q \in Requests, NEW w \in References, StartApproval(q, w) \/ StartRejection(q, w)
      PROVE  MoneyOK'
  <2>1. PICK l : (l = "payOut" \/ l = "release") /\ Decide(q, w, l)
    BY <1>8 DEF StartApproval, StartRejection
  <2>2. /\ req[q].at = "idle" /\ records' = records /\ balance' = balance /\ earned' = earned
        /\ platform' = platform /\ amount' = amount /\ Becomes(q, req'[q]) /\ req'[q].at = l
    BY <2>1, DecideDoes DEF At
  <2>3. req'[q].at \in {"create", "balance", "payOut", "release"}
    BY <2>1, <2>2
  <2> QED
    BY <1>0, <2>2, <2>3, MoneyStarts
<1> QED
  BY <1>1, <1>2, <1>3, <1>4, <1>5, <1>6, <1>7, <1>8 DEF Next, Step

-----------------------------------------------------------------------------
(* The accounts when nothing is being served.                              *)

(* The records of a status add up to the amounts of their withdrawals.     *)
LEMMA SumByReference ==
    ASSUME NEW r \in Seq(EarningType), NEW am \in [References -> Nat], NEW s, NEW W \in SUBSET References,
           \A w \in W : Have(r, w, s) = am[w], \A i \in With(r, s) : r[i].ref \in W
    PROVE  Sum(r, s) = Total(am, W)
<1> DEFINE Of(V) == {i \in With(r, s) : r[i].ref \in V}
           it == [V \in SUBSET W |-> Total(Worth(r), Of(V))]
<1>1. Numbers(am) /\ DOMAIN am = References
  BY EarningsAssumption DEF Numbers
<1>2. Numbers(Worth(r)) /\ DOMAIN Worth(r) = DOMAIN r
  BY WorthNumbers
<1>3. it[{}] = 0
  <2>1. Of({}) = {}
    OBVIOUS
  <2> QED
    BY <1>2, <2>1, TotalAdds
<1>4. \A V \in SUBSET W : V # {} => \E w \in V : it[V] = it[V \ {w}] + am[w]
  <2> SUFFICES ASSUME NEW V \in SUBSET W, NEW w \in V PROVE it[V] = it[V \ {w}] + am[w]
    OBVIOUS
  <2>1. Of(V) = Of(V \ {w}) \union ForWhat(r, w, s) /\ Of(V \ {w}) \cap ForWhat(r, w, s) = {}
    BY DEF With, ForWhat
  <2>2. Of(V \ {w}) \union ForWhat(r, w, s) \subseteq DOMAIN Worth(r)
    BY <1>2 DEF With, ForWhat
  <2>3. Total(Worth(r), ForWhat(r, w, s)) = am[w]
    BY DEF Have
  <2>4. it[V] = Total(Worth(r), Of(V)) /\ it[V \ {w}] = Total(Worth(r), Of(V \ {w}))
    OBVIOUS
  <2> HIDE DEF Of, it
  <2>5. Total(Worth(r), Of(V \ {w}) \union ForWhat(r, w, s))
          = Total(Worth(r), Of(V \ {w})) + Total(Worth(r), ForWhat(r, w, s))
    BY <1>2, <2>1, <2>2, TotalOfUnion
  <2> QED
    BY <2>1, <2>3, <2>4, <2>5
<1>5. it[W] = Sum(r, s)
  <2>1. Of(W) = With(r, s)
    OBVIOUS
  <2> QED
    BY <2>1 DEF Sum
<1> HIDE DEF it
<1>6. it[W] = Total(am, W)
  BY <1>1, <1>3, <1>4, TotalOnly
<1> QED
  BY <1>5, <1>6

LEMMA NothingOwed ==
    ASSUME Base, AtRest, MoneyOK
    PROVE  /\ balance = Sum(records, "available") /\ earned = Whole(records)
           /\ earned = Total(Shares(platform), Deliveries)
<1>1. /\ Numbers(Dues(req, amount)) /\ Numbers(Gaps(req)) /\ Numbers(Reports(req))
      /\ DOMAIN Dues(req, amount) = Requests /\ DOMAIN Gaps(req) = Requests /\ DOMAIN Reports(req) = Requests
  BY BaseTypes, OwedNumbers DEF Base
<1>2. \A q \in Requests : Dues(req, amount)[q] = 0 /\ Gaps(req)[q] = 0 /\ Reports(req)[q] = 0
  <2>1. \A q \in Requests : Due(req[q], amount) = 0 /\ Missing(req[q]) = 0 /\ Unreported(req[q]) = 0
    BY DEF AtRest, At, Due, Missing, Unreported
  <2> QED
    BY <2>1 DEF Dues, Gaps, Reports
<1>3. /\ Total(Dues(req, amount), Requests) = 0 /\ Total(Gaps(req), Requests) = 0
      /\ Total(Reports(req), Requests) = 0
  BY <1>1, <1>2, TotalOfZeros
<1>4. Sum(records, "available") \in Int /\ Whole(records) \in Int
  <2>1. Sum(records, "available") \in Nat /\ Whole(records) \in Nat
    BY BaseTypes, SumsTyped
  <2> QED
    BY <2>1
<1>5. Total(Shares(platform), Deliveries) \in Int
  BY BaseTypes, SharesNumbers, TotalAdds
<1> QED
  BY <1>3, <1>4, <1>5 DEF MoneyOK, BalanceOK, EarnedOK, PlatformOK

LEMMA HeldAtRest ==
    ASSUME AtRest, HeldOK, NEW w \in References
    PROVE  /\ filed[w] = "pending" => Have(records, w, "held") = amount[w]
           /\ filed[w] # "pending" => Have(records, w, "held") = 0
           /\ filed[w] = "approved" => Have(records, w, "withdrawn") = amount[w] /\ amount[w] > 0
           /\ filed[w] # "approved" => Have(records, w, "withdrawn") = 0
<1>1. ~Emptied(w) /\ ~PaidNow(w) /\ ~Taking(w)
  BY LabelSets DEF AtRest, At, Emptied, PaidNow, Taking
<1> QED
  BY <1>1 DEF HeldOK, RefOK

(* At rest a held earning is for a pending withdrawal, and one that was    *)
(* paid out is for an approved one.                                        *)
LEMMA OwnersAtRest ==
    ASSUME Base, AtRest, HeldOK, NEW i \in DOMAIN records
    PROVE  /\ records[i].status = "held" =>
                 records[i].ref \in References /\ filed[records[i].ref] = "pending"
           /\ records[i].status = "withdrawn" =>
                 records[i].ref \in References /\ filed[records[i].ref] = "approved"
<1>1. ASSUME NEW s \in {"held", "withdrawn"}, records[i].status = s
      PROVE  records[i].ref \in References /\ Have(records, records[i].ref, s) # 0
  <2>1. records[i].ref \in References
    BY <1>1 DEF HeldOK, KnownHolders
  <2>2. i \in ForWhat(records, records[i].ref, s)
    BY <1>1 DEF ForWhat
  <2> QED
    BY <2>1, <2>2, BaseTypes, NothingHeld
<1>2. CASE records[i].status = "held"
  BY <1>1, <1>2, HeldAtRest
<1>3. CASE records[i].status = "withdrawn"
  BY <1>1, <1>3, HeldAtRest
<1> QED
  BY <1>2, <1>3

LEMMA SumsAtRest ==
    ASSUME Base, AtRest, HeldOK
    PROVE  /\ Sum(records, "held") = Total(amount, {w \in References : filed[w] = "pending"})
           /\ Sum(records, "withdrawn") = Total(amount, {w \in References : filed[w] = "approved"})
<1>1. records \in Seq(EarningType) /\ amount \in [References -> Nat]
  BY BaseTypes
<1>2. PICK W : W = {w \in References : filed[w] = "pending"}
  OBVIOUS
<1>3. Sum(records, "held") = Total(amount, W)
  <2>1. W \in SUBSET References /\ \A w \in W : Have(records, w, "held") = amount[w]
    BY <1>2, HeldAtRest
  <2>2. \A i \in With(records, "held") : records[i].ref \in W
    BY <1>2, OwnersAtRest DEF With
  <2> QED
    BY <1>1, <2>1, <2>2, SumByReference
<1>4. PICK V : V = {w \in References : filed[w] = "approved"}
  OBVIOUS
<1>5. Sum(records, "withdrawn") = Total(amount, V)
  <2>1. V \in SUBSET References /\ \A w \in V : Have(records, w, "withdrawn") = amount[w]
    BY <1>4, HeldAtRest
  <2>2. \A i \in With(records, "withdrawn") : records[i].ref \in V
    BY <1>4, OwnersAtRest DEF With
  <2> QED
    BY <1>1, <2>1, <2>2, SumByReference
<1> QED
  BY <1>2, <1>3, <1>4, <1>5

LEMMA PayoutsAtRest ==
    ASSUME Base, AtRest, HeldOK
    PROVE  PayoutTransactions =
             {[ref |-> w, amount |-> amount[w]] : w \in {v \in References : filed[v] = "approved"}}
<1>1. PICK A : A = {v \in References : filed[v] = "approved"}
  OBVIOUS
<1>2. {records[i].ref : i \in Where(Withdrawn)} = A
  <2>1. Where(Withdrawn) = With(records, "withdrawn")
    BY DEF Where, Withdrawn, With
  <2>2. ASSUME NEW i \in With(records, "withdrawn") PROVE records[i].ref \in A
    BY <1>1, OwnersAtRest DEF With
  <2>3. ASSUME NEW w \in A PROVE \E i \in With(records, "withdrawn") : records[i].ref = w
    <3>1. w \in References /\ Have(records, w, "withdrawn") = amount[w] /\ amount[w] > 0
      BY <1>1, <2>3, HeldAtRest
    <3>2. Have(records, w, "withdrawn") # 0 /\ records \in Seq(EarningType)
      <4>1. amount[w] \in Nat /\ records \in Seq(EarningType)
        BY <3>1, BaseTypes
      <4> QED
        BY <3>1, <4>1
    <3>3. ForWhat(records, w, "withdrawn") # {}
      BY <3>2, NothingHeld
    <3> QED
      BY <3>3 DEF ForWhat, With
  <2> QED
    BY <2>1, <2>2, <2>3
<1>3. WithdrawalHistory = {[ref |-> w, amount |-> OfReference(w, "withdrawn")] : w \in A}
  BY <1>2 DEF WithdrawalHistory
<1>4. \A w \in A : OfReference(w, "withdrawn") = amount[w] /\ w # NoReference
  <2> TAKE w \in A
  <2>1. w \in References /\ Have(records, w, "withdrawn") = amount[w]
    BY <1>1, HeldAtRest
  <2>2. OfReference(w, "withdrawn") = Have(records, w, "withdrawn")
    BY BaseTypes, ReferenceIsTotal DEF Have
  <2> QED
    BY <2>1, <2>2, EarningsAssumption
<1>5. WithdrawalHistory = {[ref |-> w, amount |-> amount[w]] : w \in A}
  BY <1>3, <1>4
<1>6. \A p \in WithdrawalHistory : p.ref # NoReference
  BY <1>4, <1>5
<1>7. PayoutTransactions = WithdrawalHistory
  BY <1>6 DEF PayoutTransactions
<1> QED
  BY <1>1, <1>5, <1>7

LEMMA BooksAtRest == Base /\ OneInv /\ HeldInv /\ MoneyInv => BooksBalance
<1> SUFFICES ASSUME Base, HeldInv, MoneyInv PROVE BooksBalance
  OBVIOUS
<1>1. TypeOK
  BY DEF Base
<1>2. ASSUME AtRest, Calm
      PROVE  /\ Overview.availableBalance = AvailableBalance
             /\ Overview.heldBalance = WithdrawalStats("pending").amount
             /\ \A w \in References :
                   /\ filed[w] = "pending" => OfReference(w, "held") = amount[w]
                   /\ filed[w] \in {"none", "rejected"} => OfReference(w, "held") = 0
             /\ PayoutTransactions =
                   {[ref |-> w, amount |-> amount[w]] : w \in {v \in References : filed[v] = "approved"}}
             /\ EarningsStats.totalPayouts = WithdrawalStats("approved").amount
             /\ Overview.totalEarnings = EarningsByPeriod.totalEarnings
             /\ Overview.totalEarnings = EarningsStats.totalEarnings - EarningsStats.platformCommission
  <2>1. HeldOK /\ MoneyOK /\ records \in Seq(EarningType)
        /\ amount \in [References -> Nat] /\ platform \in [Deliveries -> Nat]
    BY <1>2, BaseTypes DEF HeldInv, MoneyInv
  <2>2. /\ balance = Sum(records, "available") /\ earned = Whole(records)
        /\ earned = Total(Shares(platform), Deliveries)
    BY <1>2, <2>1, NothingOwed
  <2>3. Overview.availableBalance = balance /\ Overview.heldBalance = SumOf(Held)
        /\ Overview.totalEarnings = earned
    BY DEF Overview
  <2>4. Overview.availableBalance = AvailableBalance
    BY <2>1, <2>2, <2>3, AvailableIsTotal DEF AvailableBalance, Sum
  <2>5. Overview.heldBalance = WithdrawalStats("pending").amount
    BY <1>2, <2>1, <2>3, HeldIsTotal, StatsAreTotal, SumsAtRest DEF Sum
  <2>6. ASSUME NEW w \in References
        PROVE  /\ filed[w] = "pending" => OfReference(w, "held") = amount[w]
               /\ filed[w] \in {"none", "rejected"} => OfReference(w, "held") = 0
    <3>1. OfReference(w, "held") = Have(records, w, "held")
      BY <2>1, ReferenceIsTotal DEF Have
    <3> QED
      BY <1>2, <2>1, <3>1, HeldAtRest
  <2>7. EarningsStats.totalPayouts = SumOf(Withdrawn)
    BY DEF EarningsStats
  <2>8. EarningsStats.totalPayouts = WithdrawalStats("approved").amount
    BY <1>2, <2>1, <2>7, WithdrawnIsTotal, StatsAreTotal, SumsAtRest DEF Sum
  <2>9. EarningsByPeriod.totalEarnings = Whole(records)
    <3>1. EarningsByPeriod.totalEarnings = SumOf(LAMBDA e : TRUE)
      BY DEF EarningsByPeriod
    <3> QED
      BY <2>1, <3>1, AllIsTotal DEF Whole
  <2>10. EarningsStats.totalEarnings - EarningsStats.platformCommission = Total(Shares(platform), Deliveries)
    BY <2>1, EarningsAreTotal
  <2>11. PayoutTransactions =
           {[ref |-> w, amount |-> amount[w]] : w \in {v \in References : filed[v] = "approved"}}
    BY <1>2, <2>1, PayoutsAtRest
  <2> QED
    BY <2>2, <2>3, <2>4, <2>5, <2>6, <2>8, <2>9, <2>10, <2>11
<1> QED
  BY Zenon, <1>1, <1>2 DEF BooksBalance, Calm

LEMMA BooksAlways == Spec => [](Base /\ AloneInv /\ OneInv /\ HeldInv /\ MoneyInv)
<1>1. Init => Base /\ AloneInv /\ OneInv /\ HeldInv /\ MoneyInv
  BY BaseInit, AloneInit, OneInit, HeldInit, MoneyInit
<1>2. Base /\ AloneInv /\ OneInv /\ HeldInv /\ MoneyInv /\ [Next]_vars
        => (Base /\ AloneInv /\ OneInv /\ HeldInv /\ MoneyInv)'
  BY BaseStep, AloneStep, OneStep, HeldStep, MoneyStep
<1> QED
  BY <1>1, <1>2, PTL DEF Spec

(* Whenever nothing is being served the accounts of the rider's money      *)
(* agree: the balance, the earnings, the withdrawals and the platform's    *)
(* records, unless a request stopped half way or two withdrawals or two    *)
(* decisions overlapped.                                                   *)
THEOREM BooksBalanceHolds == Spec => []BooksBalance
  BY BooksAlways, BooksAtRest, PTL
=============================================================================
