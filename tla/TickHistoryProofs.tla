-------------------------- MODULE TickHistoryProofs --------------------------
(***************************************************************************)
(* Whatever a pool's history of mints, burns, copies and queries, from a   *)
(* load or from nothing, the tick handler holds the ticks of the positions *)
(* there are, and walking its slice gives the liquidity in range: for any  *)
(* finite set of ticks and any number of cache slots.  The first part is   *)
(* about sums over finite sets, which the library states no fact about.    *)
(***************************************************************************)
EXTENDS TickHistory, TicksHandlerProofs, FiniteSetTheorems

Pick(S) == CHOOSE x \in S : TRUE

(* The fold that MapThenSumSet chooses, on a family D of sets. *)
IsFold(g, f, D) == g = [s \in D |-> IF s = {} THEN 0 ELSE f[Pick(s)] + g[s \ {Pick(s)}]]

(* The subsets of S with at most n elements. *)
Small(S, n) == {s \in SUBSET S : Cardinality(s) <= n}

(* Induction on natural numbers. *)
LEMMA InductionOnNat ==
  ASSUME NEW T, 0 \in T, \A n \in Nat : n \in T => n+1 \in T
  PROVE  Nat \subseteq T
<1> DEFINE B == Nat \ T
<1> SUFFICES ASSUME B # {} PROVE FALSE
  OBVIOUS
<1>1. PICK m \in B : \A y \in B : m <= y
  BY NatMinimum
<1>2. m \in Nat /\ m # 0
  OBVIOUS
<1>3. m - 1 \in Nat /\ (m - 1) + 1 = m /\ ~(m <= m - 1)
  BY <1>2
<1>4. m - 1 \in T
  BY <1>1, <1>3
<1> QED BY <1>3, <1>4

(* A set without one of its elements is smaller by one. *)
LEMMA RemoveOne ==
  ASSUME NEW S, IsFiniteSet(S), NEW x \in S
  PROVE  /\ IsFiniteSet(S \ {x})
         /\ Cardinality(S) \in Nat /\ Cardinality(S \ {x}) = Cardinality(S) - 1
BY FS_RemoveElement, FS_CardinalityType

(* There is a fold on the subsets of a finite set. *)
LEMMA FoldExists ==
  ASSUME NEW S, IsFiniteSet(S), NEW f
  PROVE  \E g : IsFold(g, f, SUBSET S)
<1> DEFINE T == {n \in Nat : \E g : IsFold(g, f, Small(S, n))}
<1>0. \A s \in SUBSET S : IsFiniteSet(s) /\ Cardinality(s) \in Nat /\ Cardinality(s) <= Cardinality(S)
  BY FS_Subset, FS_CardinalityType
<1>1. 0 \in T
  <2>1. \A s \in Small(S, 0) : s = {}
    BY <1>0, FS_EmptySet DEF Small
  <2> DEFINE g == [s \in Small(S, 0) |-> 0]
  <2>2. IsFold(g, f, Small(S, 0))
    BY <2>1 DEF IsFold
  <2> QED BY <2>2
<1>2. ASSUME NEW n \in Nat, n \in T PROVE n+1 \in T
  <2>1. PICK g : IsFold(g, f, Small(S, n))
    BY <1>2
  <2> DEFINE k == [s \in Small(S, n+1) |->
                     IF s \in Small(S, n) THEN g[s] ELSE f[Pick(s)] + g[s \ {Pick(s)}]]
             e(s) == IF s = {} THEN 0 ELSE f[Pick(s)] + k[s \ {Pick(s)}]
  <2>2. Small(S, n) \subseteq Small(S, n+1)
    BY <1>0 DEF Small
  <2>3. ASSUME NEW s \in Small(S, n+1), s # {}
        PROVE  s \ {Pick(s)} \in Small(S, n)
    <3>1. s \in SUBSET S /\ IsFiniteSet(s) /\ Cardinality(s) <= n+1
      BY <1>0 DEF Small
    <3>2. Pick(s) \in s
      BY <2>3 DEF Pick
    <3>3. Cardinality(s) \in Nat /\ Cardinality(s \ {Pick(s)}) = Cardinality(s) - 1
      BY <2>3, <3>1, <3>2, RemoveOne
    <3> QED BY <3>1, <3>3 DEF Small
  <2>4. \A s \in Small(S, n) : k[s] = g[s]
    BY <2>2
  <2>5. \A s \in Small(S, n) : g[s] = IF s = {} THEN 0 ELSE f[Pick(s)] + g[s \ {Pick(s)}]
    BY <2>1 DEF IsFold
  <2>6. ASSUME NEW s \in Small(S, n+1) PROVE k[s] = e(s)
    <3>1. CASE s \in Small(S, n)
      <4>1. CASE s = {}
        BY <2>4, <2>5, <3>1, <4>1
      <4>2. CASE s # {}
        <5>1. k[s] = f[Pick(s)] + g[s \ {Pick(s)}]
          BY <2>4, <2>5, <3>1, <4>2
        <5>2. k[s \ {Pick(s)}] = g[s \ {Pick(s)}]
          BY <2>3, <2>4, <4>2
        <5> HIDE DEF k
        <5> QED BY <4>2, <5>1, <5>2
      <4> QED BY <4>1, <4>2
    <3>2. CASE s \notin Small(S, n)
      <4>1. s # {}
        BY <3>2, FS_EmptySet DEF Small
      <4>2. k[s \ {Pick(s)}] = g[s \ {Pick(s)}]
        BY <2>3, <2>4, <4>1
      <4>3. k[s] = f[Pick(s)] + g[s \ {Pick(s)}]
        BY <3>2
      <4> HIDE DEF k
      <4> QED BY <4>1, <4>2, <4>3
    <3> QED BY <3>1, <3>2
  <2>7. k = [s \in Small(S, n+1) |-> e(s)]
    <3>1. k = [s \in Small(S, n+1) |-> k[s]]
      OBVIOUS
    <3> HIDE DEF k
    <3> QED BY <2>6, <3>1
  <2>8. IsFold(k, f, Small(S, n+1))
    BY <2>7 DEF IsFold
  <2> QED BY <2>8
<1>3. Cardinality(S) \in T
  <2> HIDE DEF T
  <2>1. Nat \subseteq T
    BY <1>1, <1>2, InductionOnNat
  <2> QED BY <2>1, FS_CardinalityType
<1>4. Small(S, Cardinality(S)) = SUBSET S
  BY <1>0 DEF Small
<1> QED BY <1>3, <1>4

(* Two folds agree where both are defined. *)
LEMMA FoldsAgree ==
  ASSUME NEW S, IsFiniteSet(S), NEW R \in SUBSET S, NEW f, NEW g, NEW k,
         IsFold(g, f, SUBSET S), IsFold(k, f, SUBSET R)
  PROVE  \A s \in SUBSET R : g[s] = k[s]
<1> DEFINE T == {n \in Nat : \A s \in Small(R, n) : g[s] = k[s]}
<1>0. \A s \in SUBSET R : /\ s \in SUBSET S /\ IsFiniteSet(s)
                          /\ Cardinality(s) \in Nat
  BY FS_Subset, FS_CardinalityType
<1>1. /\ \A s \in SUBSET R : g[s] = IF s = {} THEN 0 ELSE f[Pick(s)] + g[s \ {Pick(s)}]
      /\ \A s \in SUBSET R : k[s] = IF s = {} THEN 0 ELSE f[Pick(s)] + k[s \ {Pick(s)}]
  BY <1>0 DEF IsFold
<1>2. 0 \in T
  <2>1. \A s \in Small(R, 0) : s = {}
    BY <1>0, FS_EmptySet DEF Small
  <2> QED BY <1>1, <2>1
<1>3. ASSUME NEW n \in Nat, n \in T PROVE n+1 \in T
  <2> SUFFICES ASSUME NEW s \in Small(R, n+1) PROVE g[s] = k[s]
    OBVIOUS
  <2>1. s \in SUBSET R
    BY DEF Small
  <2>2. CASE s = {}
    BY <1>1, <2>1, <2>2
  <2>3. CASE s # {}
    <3>1. s \ {Pick(s)} \in Small(R, n)
      <4>1. IsFiniteSet(s) /\ Cardinality(s) <= n+1
        BY <1>0, <2>1 DEF Small
      <4>2. Pick(s) \in s
        BY <2>3 DEF Pick
      <4>3. Cardinality(s) \in Nat /\ Cardinality(s \ {Pick(s)}) = Cardinality(s) - 1
        BY <2>3, <4>1, <4>2, RemoveOne
      <4> QED BY <2>1, <4>1, <4>3 DEF Small
    <3>2. g[s \ {Pick(s)}] = k[s \ {Pick(s)}]
      BY <1>3, <3>1
    <3> QED BY <1>1, <2>1, <2>3, <3>2
  <2> QED BY <2>2, <2>3
<1>4. Nat \subseteq T
  <2> HIDE DEF T
  <2> QED BY <1>2, <1>3, InductionOnNat
<1> SUFFICES ASSUME NEW s \in SUBSET R PROVE g[s] = k[s]
  OBVIOUS
<1>5. Cardinality(s) \in T /\ s \in Small(R, Cardinality(s))
  BY <1>0, <1>4 DEF Small
<1> QED BY <1>5

(* What the sum is: zero of the empty set, the picked element's value and    *)
(* the sum of the rest otherwise.                                            *)
LEMMA TotalUnfolds ==
  ASSUME NEW S, IsFiniteSet(S), NEW f
  PROVE  Total(f, S) = IF S = {} THEN 0 ELSE f[Pick(S)] + Total(f, S \ {Pick(S)})
<1> DEFINE Fold(R) == CHOOSE g : IsFold(g, f, SUBSET R)
<1>1. \A R : Total(f, R) = Fold(R)[R]
  BY DEF Total, MapThenSumSet, MapThenFoldSet, IsFold, Pick
<1>2. ASSUME NEW R \in SUBSET S PROVE IsFold(Fold(R), f, SUBSET R)
  <2>1. \E g : IsFold(g, f, SUBSET R)
    BY FoldExists, FS_Subset
  <2> QED BY <2>1
<1> HIDE DEF Fold
<1>3. CASE S = {}
  BY <1>1, <1>2, <1>3 DEF IsFold
<1>4. CASE S # {}
  <2> DEFINE R == S \ {Pick(S)}
  <2>1. R \in SUBSET S /\ S \in SUBSET S /\ R \in SUBSET R
    OBVIOUS
  <2>2. Fold(S)[R] = Fold(R)[R]
    <3> HIDE DEF R
    <3>1. \A g, k : IsFold(g, f, SUBSET S) /\ IsFold(k, f, SUBSET R) => g[R] = k[R]
      BY <2>1, FoldsAgree
    <3>2. IsFold(Fold(S), f, SUBSET S) /\ IsFold(Fold(R), f, SUBSET R)
      BY <1>2, <2>1
    <3> QED BY <3>1, <3>2
  <2>3. Fold(S)[S] = f[Pick(S)] + Fold(S)[R]
    BY <1>2, <1>4, <2>1 DEF IsFold
  <2> HIDE DEF R
  <2>4. Total(f, S) = f[Pick(S)] + Total(f, R)
    BY <1>1, <2>2, <2>3
  <2> QED BY <1>4, <2>4 DEF R
<1> QED BY <1>3, <1>4

(* Of nothing the sum is zero. *)
LEMMA EmptyTotal == \A f : Total(f, {}) = 0
BY FS_EmptySet, TotalUnfolds

(* Every element can be the first one taken. *)
LEMMA TotalRemove ==
  ASSUME NEW S, NEW f, IsFiniteSet(S), \A r \in S : f[r] \in Int
  PROVE  /\ Total(f, S) \in Int
         /\ \A x \in S : Total(f, S) = f[x] + Total(f, S \ {x})
<1> DEFINE Good(s) == /\ Total(f, s) \in Int
                      /\ \A x \in s : Total(f, s) = f[x] + Total(f, s \ {x})
           T == {n \in Nat : \A s \in Small(S, n) : Good(s)}
<1>0. \A s \in SUBSET S : IsFiniteSet(s) /\ Cardinality(s) \in Nat
  BY FS_Subset, FS_CardinalityType
<1>1. \A s \in SUBSET S : Total(f, s) = IF s = {} THEN 0 ELSE f[Pick(s)] + Total(f, s \ {Pick(s)})
  BY <1>0, TotalUnfolds
<1>2. 0 \in T
  <2>1. \A s \in Small(S, 0) : s = {} /\ s \in SUBSET S
    BY <1>0, FS_EmptySet DEF Small
  <2> QED BY <1>1, <2>1
<1>3. ASSUME NEW n \in Nat, n \in T PROVE n+1 \in T
  <2> SUFFICES ASSUME NEW s \in Small(S, n+1), s # {} PROVE Good(s)
    <3>1. \A s \in Small(S, n+1) : s = {} => Good(s)
      BY <1>1 DEF Small
    <3> HIDE DEF Good
    <3> QED BY <3>1
  <2>1. s \in SUBSET S /\ IsFiniteSet(s) /\ Cardinality(s) <= n+1
    BY <1>0 DEF Small
  <2>2. ASSUME NEW x \in s PROVE s \ {x} \in Small(S, n) /\ Good(s \ {x})
    <3>1. Cardinality(s) \in Nat /\ Cardinality(s \ {x}) = Cardinality(s) - 1
      BY <2>1, RemoveOne
    <3>2. s \ {x} \in Small(S, n)
      BY <2>1, <3>1 DEF Small
    <3> QED BY <1>3, <3>2
  <2> DEFINE y == Pick(s)
  <2>3. y \in s /\ f[y] \in Int
    BY <2>1 DEF Pick
  <2>4. Total(f, s) = f[y] + Total(f, s \ {y})
    BY <1>1, <2>1
  <2>5. Total(f, s \ {y}) \in Int
    BY <2>2, <2>3
  <2> HIDE DEF y
  <2>6. ASSUME NEW x \in s PROVE Total(f, s) = f[x] + Total(f, s \ {x})
    <3>1. CASE x = y
      BY <2>4, <3>1
    <3>2. CASE x # y
      <4>1. x \in s \ {y} /\ y \in s \ {x} /\ (s \ {y}) \ {x} = (s \ {x}) \ {y}
        BY <2>3, <3>2
      <4>2. Total(f, s \ {y}) = f[x] + Total(f, (s \ {y}) \ {x})
        BY <2>2, <2>3, <4>1
      <4>3. Total(f, s \ {x}) = f[y] + Total(f, (s \ {x}) \ {y})
        BY <2>2, <4>1
      <4>4. (s \ {x}) \ {y} \in SUBSET S /\ (s \ {x}) \ {y} \in Small(S, n)
        <5>1. Cardinality(s \ {x}) <= n /\ IsFiniteSet(s \ {x}) /\ s \ {x} \in SUBSET S
          BY <1>0, <2>2 DEF Small
        <5>2. /\ Cardinality((s \ {x}) \ {y}) = Cardinality(s \ {x}) - 1
              /\ Cardinality(s \ {x}) \in Nat
          BY <4>1, <5>1, RemoveOne
        <5> QED BY <5>1, <5>2 DEF Small
      <4>5. Total(f, (s \ {x}) \ {y}) \in Int
        BY <1>3, <4>4
      <4>6. f[x] \in Int
        BY <2>1
      <4> DEFINE a == Total(f, s)  b == Total(f, s \ {x})  c == Total(f, s \ {y})
                 e == Total(f, (s \ {x}) \ {y})  u == f[x]  v == f[y]
      <4>7. a = v + c /\ c = u + e /\ b = v + e /\ e \in Int /\ u \in Int /\ v \in Int
        BY <2>3, <2>4, <4>1, <4>2, <4>3, <4>5, <4>6
      <4> HIDE DEF a, b, c, e, u, v
      <4>8. a = u + b
        BY <4>7
      <4> QED BY <4>8 DEF a, b, u
    <3> QED BY <3>1, <3>2
  <2> QED BY <2>3, <2>4, <2>5, <2>6
<1>4. Nat \subseteq T
  <2> HIDE DEF T
  <2> QED BY <1>2, <1>3, InductionOnNat
<1>5. Cardinality(S) \in T /\ S \in Small(S, Cardinality(S))
  BY <1>0, <1>4 DEF Small
<1> QED BY <1>5

(* Induction on the subsets of a finite set. *)
LEMMA InductionOnSubsets ==
  ASSUME NEW S, NEW T, IsFiniteSet(S), {} \in T,
         \A s \in SUBSET S : \A x \in s : s \ {x} \in T => s \in T
  PROVE  S \in T
<1> DEFINE N == {n \in Nat : Small(S, n) \subseteq T}
<1>0. \A s \in SUBSET S : IsFiniteSet(s) /\ Cardinality(s) \in Nat
  BY FS_Subset, FS_CardinalityType
<1>1. 0 \in N
  <2>1. \A s \in Small(S, 0) : s = {}
    BY <1>0, FS_EmptySet DEF Small
  <2> QED BY <2>1
<1>2. ASSUME NEW n \in Nat, n \in N PROVE n+1 \in N
  <2> SUFFICES ASSUME NEW s \in Small(S, n+1) PROVE s \in T
    OBVIOUS
  <2>1. s \in SUBSET S /\ IsFiniteSet(s) /\ Cardinality(s) <= n+1
    BY <1>0 DEF Small
  <2>2. CASE s = {}
    BY <2>2
  <2>3. ASSUME NEW x \in s PROVE s \in T
    <3>1. Cardinality(s) \in Nat /\ Cardinality(s \ {x}) = Cardinality(s) - 1
      BY <2>1, RemoveOne
    <3>2. s \ {x} \in Small(S, n)
      BY <2>1, <3>1 DEF Small
    <3> QED BY <1>2, <2>1, <3>2
  <2> QED BY <2>2, <2>3
<1>3. Nat \subseteq N
  <2> HIDE DEF N
  <2> QED BY <1>1, <1>2, InductionOnNat
<1>4. Cardinality(S) \in N /\ S \in Small(S, Cardinality(S))
  BY <1>0, <1>3 DEF Small
<1> QED BY <1>4

(* A sum of natural numbers is one, and zero only if all of them are. *)
LEMMA TotalOfNats ==
  ASSUME NEW S, NEW f, IsFiniteSet(S), \A r \in S : f[r] \in Nat
  PROVE  /\ Total(f, S) \in Nat
         /\ \A x \in S : f[x] <= Total(f, S)
<1> DEFINE T == {s \in SUBSET S : Total(f, s) \in Nat}
<1>0. \A s \in SUBSET S : IsFiniteSet(s)
  BY FS_Subset
<1>1. {} \in T
  BY <1>0, EmptyTotal
<1>2. ASSUME NEW s \in SUBSET S, NEW x \in s, s \ {x} \in T PROVE s \in T
  <2>1. \A r \in s : f[r] \in Int
    OBVIOUS
  <2>2. Total(f, s) = f[x] + Total(f, s \ {x})
    BY <1>0, <2>1, TotalRemove
  <2> QED BY <1>2, <2>2
<1>3. ASSUME NEW s \in SUBSET S PROVE s \in T
  <2> HIDE DEF T
  <2> QED BY <1>0, <1>1, <1>2, InductionOnSubsets
<1>4. ASSUME NEW x \in S PROVE f[x] <= Total(f, S)
  <2>1. Total(f, S) = f[x] + Total(f, S \ {x})
    BY TotalRemove
  <2>2. Total(f, S \ {x}) \in Nat /\ f[x] \in Nat
    BY <1>3
  <2> QED BY <2>1, <2>2
<1> QED BY <1>3, <1>4

(* A sum depends on the values it sums. *)
LEMMA TotalAgrees ==
  ASSUME NEW S, NEW f, NEW g, IsFiniteSet(S), \A r \in S : f[r] = g[r] /\ f[r] \in Int
  PROVE  Total(f, S) = Total(g, S)
<1> DEFINE T == {s \in SUBSET S : Total(f, s) = Total(g, s)}
<1>0. \A s \in SUBSET S : IsFiniteSet(s)
  BY FS_Subset
<1>1. {} \in T
  BY EmptyTotal
<1>2. ASSUME NEW s \in SUBSET S, NEW x \in s, s \ {x} \in T PROVE s \in T
  <2>1. Total(f, s) = f[x] + Total(f, s \ {x})
    BY <1>0, TotalRemove
  <2>2. Total(g, s) = g[x] + Total(g, s \ {x})
    BY <1>0, TotalRemove
  <2> QED BY <1>2, <2>1, <2>2
<1>3. S \in T
  <2> HIDE DEF T
  <2> QED BY <1>0, <1>1, <1>2, InductionOnSubsets
<1> QED BY <1>3

(* A sum in which the value at r has grown by d. *)
LEMMA TotalChanged ==
  ASSUME NEW S, NEW f, NEW g, NEW r, NEW d \in Int, IsFiniteSet(S),
         \A x \in S : f[x] \in Int,
         \A x \in S : g[x] = IF x = r THEN f[x] + d ELSE f[x]
  PROVE  Total(g, S) = IF r \in S THEN Total(f, S) + d ELSE Total(f, S)
<1>1. CASE r \notin S
  <2>1. \A x \in S : f[x] = g[x] /\ f[x] \in Int
    BY <1>1
  <2> QED BY <1>1, <2>1, TotalAgrees
<1>2. CASE r \in S
  <2> DEFINE R == S \ {r}
  <2>1. IsFiniteSet(R) /\ \A x \in R : f[x] = g[x] /\ f[x] \in Int
    BY FS_Subset
  <2>2. Total(f, R) = Total(g, R)
    BY <2>1, TotalAgrees
  <2>3. Total(f, S) = f[r] + Total(f, R)
    BY <1>2, TotalRemove
  <2>4. Total(g, S) = g[r] + Total(g, R)
    <3>1. \A x \in S : g[x] \in Int
      OBVIOUS
    <3> QED BY <1>2, <3>1, TotalRemove
  <2>5. Total(f, R) \in Int
    BY <2>1, TotalRemove
  <2> HIDE DEF R
  <2> QED BY <1>2, <2>2, <2>3, <2>4, <2>5
<1> QED BY <1>1, <1>2

(* The sum over two sets that share nothing. *)
LEMMA TotalOfUnion ==
  ASSUME NEW S, NEW R, NEW f, IsFiniteSet(S), IsFiniteSet(R), S \cap R = {},
         \A r \in S \cup R : f[r] \in Int
  PROVE  Total(f, S \cup R) = Total(f, S) + Total(f, R)
<1> DEFINE T == {s \in SUBSET S : Total(f, s \cup R) = Total(f, s) + Total(f, R)}
<1>0. /\ \A s \in SUBSET S : IsFiniteSet(s) /\ IsFiniteSet(s \cup R)
      /\ \A s \in SUBSET S : Total(f, s) \in Int /\ Total(f, s \cup R) \in Int
      /\ Total(f, R) \in Int
  <2>1. \A s \in SUBSET S : IsFiniteSet(s) /\ IsFiniteSet(s \cup R)
    BY FS_Subset, FS_Union
  <2>2. \A s \in SUBSET S : \A r \in s \cup R : f[r] \in Int
    OBVIOUS
  <2>3. \A s \in SUBSET S : Total(f, s \cup R) \in Int
    BY <2>1, <2>2, TotalRemove
  <2>4. \A s \in SUBSET S : Total(f, s) \in Int
    BY <2>1, TotalRemove
  <2> QED BY <2>1, <2>3, <2>4, TotalRemove
<1>1. {} \in T
  <2>1. {} \cup R = R /\ Total(f, {}) = 0
    BY EmptyTotal
  <2> QED BY <1>0, <2>1
<1>2. ASSUME NEW s \in SUBSET S, NEW x \in s, s \ {x} \in T PROVE s \in T
  <2>1. Total(f, s) = f[x] + Total(f, s \ {x})
    BY <1>0, TotalRemove
  <2>2. Total(f, s \cup R) = f[x] + Total(f, (s \cup R) \ {x})
    <3> DEFINE u == s \cup R
    <3>1. IsFiniteSet(u) /\ x \in u /\ \A r \in u : f[r] \in Int
      BY <1>0
    <3> HIDE DEF u
    <3>2. Total(f, u) = f[x] + Total(f, u \ {x})
      BY <3>1, TotalRemove
    <3> QED BY <3>2 DEF u
  <2>3. (s \cup R) \ {x} = (s \ {x}) \cup R
    OBVIOUS
  <2>4. f[x] \in Int /\ Total(f, s \ {x}) \in Int /\ Total(f, R) \in Int
    BY <1>0
  <2>5. Total(f, (s \ {x}) \cup R) = Total(f, s \ {x}) + Total(f, R)
    BY <1>2
  <2> DEFINE a == Total(f, s)  b == Total(f, s \ {x})  c == Total(f, s \cup R)
             e == Total(f, R)  v == f[x]
  <2>6. a = v + b /\ c = v + (b + e) /\ b \in Int /\ v \in Int /\ e \in Int
    BY <2>1, <2>2, <2>3, <2>4, <2>5
  <2> HIDE DEF a, b, c, e, v
  <2>7. c = a + e
    BY <2>6
  <2> QED BY <2>7 DEF a, c, e
<1>3. S \in T
  <2> HIDE DEF T
  <2> QED BY <1>1, <1>2, InductionOnSubsets
<1> QED BY <1>3

(* A sum over differences. *)
LEMMA TotalOfDifferences ==
  ASSUME NEW S, NEW f, NEW g, NEW k, IsFiniteSet(S),
         \A r \in S : f[r] \in Int /\ g[r] \in Int /\ k[r] = f[r] - g[r]
  PROVE  Total(k, S) = Total(f, S) - Total(g, S)
<1> DEFINE T == {s \in SUBSET S : Total(k, s) = Total(f, s) - Total(g, s)}
<1>0. \A s \in SUBSET S : IsFiniteSet(s)
  BY FS_Subset
<1>1. {} \in T
  BY EmptyTotal
<1>2. ASSUME NEW s \in SUBSET S, NEW x \in s, s \ {x} \in T PROVE s \in T
  <2>0. \A r \in s : f[r] \in Int /\ g[r] \in Int /\ k[r] \in Int
    OBVIOUS
  <2>1. Total(f, s) = f[x] + Total(f, s \ {x})
    BY <1>0, <2>0, TotalRemove
  <2>2. Total(g, s) = g[x] + Total(g, s \ {x})
    BY <1>0, <2>0, TotalRemove
  <2>3. Total(k, s) = k[x] + Total(k, s \ {x})
    BY <1>0, <2>0, TotalRemove
  <2>4. Total(f, s \ {x}) \in Int /\ Total(g, s \ {x}) \in Int
    <3>1. IsFiniteSet(s \ {x}) /\ \A r \in s \ {x} : f[r] \in Int /\ g[r] \in Int
      BY <1>0, <2>0
    <3> QED BY <3>1, TotalRemove
  <2>5. Total(k, s \ {x}) = Total(f, s \ {x}) - Total(g, s \ {x}) /\ k[x] = f[x] - g[x]
    BY <1>2
  <2> DEFINE a == Total(f, s \ {x})  b == Total(g, s \ {x})  c == Total(k, s)
             d == Total(f, s)  e == Total(g, s)  u == f[x]  v == g[x]
  <2>6. /\ d = u + a /\ e = v + b /\ c = (u - v) + (a - b)
        /\ a \in Int /\ b \in Int /\ u \in Int /\ v \in Int
    BY <2>0, <2>1, <2>2, <2>3, <2>4, <2>5
  <2> HIDE DEF a, b, c, d, e, u, v
  <2>7. c = d - e
    BY <2>6
  <2> QED BY <2>7 DEF c, d, e
<1>3. S \in T
  <2> HIDE DEF T
  <2> QED BY <1>1, <1>2, InductionOnSubsets
<1> QED BY <1>3

(* The elements of R whose key is in S. *)
Keyed(R, key, S) == {r \in R : key[r] \in S}

(* Over S, g sums f over the groups that key makes of R. *)
SumsGroups(g, S, f, R, key) ==
  /\ IsFiniteSet(S) /\ IsFiniteSet(R)
  /\ \A r \in R : f[r] \in Int
  /\ \A x \in S : g[x] = Total(f, Keyed(R, key, {x}))

(* Summing the sums of groups is summing once. *)
LEMMA TotalOfGroups ==
  ASSUME NEW S, NEW R, NEW f, NEW key, NEW g, SumsGroups(g, S, f, R, key)
  PROVE  Total(g, S) = Total(f, Keyed(R, key, S))
<1> DEFINE Group(s) == Keyed(R, key, s)
           T == {s \in SUBSET S : Total(g, s) = Total(f, Group(s))}
<1>0. /\ \A s : IsFiniteSet(Group(s)) /\ Group(s) \subseteq R
      /\ \A s : \A r \in Group(s) : f[r] \in Int
      /\ \A s \in SUBSET S : IsFiniteSet(s)
  <2>1. \A s : Group(s) \in SUBSET R
    BY DEF Keyed
  <2>2. IsFiniteSet(S) /\ IsFiniteSet(R) /\ \A r \in R : f[r] \in Int
    BY DEF SumsGroups
  <2> HIDE DEF Group
  <2> QED BY <2>1, <2>2, FS_Subset
<1>1. {} \in T
  <2>1. Group({}) = {}
    BY DEF Keyed
  <2> QED BY <2>1, EmptyTotal
<1>2. ASSUME NEW s \in SUBSET S, NEW x \in s, s \ {x} \in T PROVE s \in T
  <2> DEFINE A == Group(s \ {x})  B == Group({x})
  <2>1. Group(s) = A \cup B /\ A \cap B = {} /\ g[x] = Total(f, B)
    BY DEF Keyed, SumsGroups
  <2>2. /\ IsFiniteSet(A) /\ IsFiniteSet(B) /\ \A r \in A \cup B : f[r] \in Int
    BY <1>0
  <2>3. Total(g, s \ {x}) = Total(f, A)
    BY <1>2
  <2>4. \A y \in s : g[y] \in Int
    <3>1. ASSUME NEW y \in S PROVE g[y] \in Int
      <4> DEFINE C == Group({y})
      <4>1. IsFiniteSet(C) /\ (\A r \in C : f[r] \in Int) /\ g[y] = Total(f, C)
        BY <1>0 DEF SumsGroups
      <4> HIDE DEF C
      <4> QED BY <4>1, TotalRemove
    <3> QED BY <3>1
  <2> HIDE DEF Group
  <2>5. Total(g, s) = g[x] + Total(g, s \ {x})
    BY <1>0, <2>4, TotalRemove
  <2>6. g[x] = Total(f, B)
    BY <2>1
  <2> HIDE DEF A, B
  <2>7. Total(f, A \cup B) = Total(f, A) + Total(f, B)
    BY <2>1, <2>2, TotalOfUnion
  <2>8. Total(f, A) \in Int /\ Total(f, B) \in Int
    BY <2>2, TotalRemove
  <2>9. Total(f, Group(s)) = Total(f, A) + Total(f, B)
    BY <2>1, <2>7
  <2>10. Total(g, s) = Total(f, A) + Total(f, B)
    BY <2>3, <2>5, <2>6, <2>8
  <2> QED BY <2>9, <2>10
<1>3. S \in T
  <2> HIDE DEF T
  <2> QED BY <1>1, <1>2, InductionOnSubsets DEF SumsGroups
<1> QED BY <1>3

(* A sum over names is the sum over what they name. *)
LEMMA TotalRenamed ==
  ASSUME NEW S, NEW name, NEW f, NEW g, IsFiniteSet(S),
         \A x, y \in S : name[x] = name[y] => x = y,
         \A x \in S : g[x] = f[name[x]] /\ g[x] \in Int
  PROVE  /\ Total(g, S) = Total(f, {name[x] : x \in S})
         /\ IsFiniteSet({name[x] : x \in S})
<1> DEFINE I(s) == {name[x] : x \in s}
           T == {s \in SUBSET S : IsFiniteSet(I(s)) /\ Total(g, s) = Total(f, I(s))}
<1>0. \A s \in SUBSET S : IsFiniteSet(s)
  BY FS_Subset
<1>1. {} \in T
  <2>1. I({}) = {}
    OBVIOUS
  <2> QED BY <2>1, EmptyTotal, FS_EmptySet
<1>2. ASSUME NEW s \in SUBSET S, NEW x \in s, s \ {x} \in T PROVE s \in T
  <2> DEFINE u == I(s \ {x})  v == I(s)
  <2>1. v = u \cup {name[x]} /\ v \ {name[x]} = u /\ name[x] \in v
    OBVIOUS
  <2>2. \A r \in v : f[r] \in Int
    OBVIOUS
  <2>3. IsFiniteSet(u) /\ Total(g, s \ {x}) = Total(f, u)
    BY <1>2
  <2>4. g[x] = f[name[x]]
    OBVIOUS
  <2>5. Total(g, s) = g[x] + Total(g, s \ {x})
    <3>1. \A y \in s : g[y] \in Int
      OBVIOUS
    <3> QED BY <1>0, <3>1, TotalRemove
  <2> HIDE DEF u, v, I
  <2>6. IsFiniteSet(v)
    BY <2>1, <2>3, FS_AddElement
  <2>7. Total(f, v) = f[name[x]] + Total(f, v \ {name[x]})
    BY <2>1, <2>2, <2>6, TotalRemove
  <2>8. Total(g, s) = Total(f, v)
    BY <2>1, <2>3, <2>4, <2>5, <2>7
  <2> QED BY <2>6, <2>8 DEF v
<1>3. S \in T
  <2> HIDE DEF T
  <2> QED BY <1>1, <1>2, InductionOnSubsets
<1> QED BY <1>3

(* Zeros add nothing. *)
LEMMA TotalOfZeros ==
  ASSUME NEW S, NEW R, NEW f, IsFiniteSet(S), R \subseteq S, \A r \in S : f[r] \in Int,
         \A r \in S \ R : f[r] = 0
  PROVE  Total(f, S) = Total(f, R)
<1>1. IsFiniteSet(R) /\ IsFiniteSet(S \ R) /\ S = R \cup (S \ R)
  BY FS_Subset
<1>2. Total(f, S) = Total(f, R) + Total(f, S \ R)
  <2> DEFINE Z == S \ R
  <2>1. /\ IsFiniteSet(Z) /\ S = R \cup Z /\ R \cap Z = {}
        /\ \A r \in R \cup Z : f[r] \in Int
    BY <1>1
  <2> HIDE DEF Z
  <2>2. Total(f, R \cup Z) = Total(f, R) + Total(f, Z)
    BY <1>1, <2>1, TotalOfUnion
  <2> QED BY <2>1, <2>2 DEF Z
<1>3. Total(f, S \ R) = 0
  <2> DEFINE Z == S \ R
             T == {s \in SUBSET Z : Total(f, s) = 0}
  <2>0. IsFiniteSet(Z) /\ \A s \in SUBSET Z : IsFiniteSet(s)
    BY <1>1, FS_Subset
  <2>1. {} \in T
    BY EmptyTotal
  <2>2. ASSUME NEW s \in SUBSET Z, NEW x \in s, s \ {x} \in T PROVE s \in T
    <3>1. f[x] = 0 /\ (\A r \in s : f[r] \in Int) /\ Total(f, s \ {x}) = 0
      BY <2>2
    <3>2. Total(f, s) = f[x] + Total(f, s \ {x})
      BY <2>0, <3>1, TotalRemove
    <3> QED BY <3>1, <3>2
  <2>3. Z \in T
    <3> HIDE DEF T, Z
    <3> QED BY <2>0, <2>1, <2>2, InductionOnSubsets
  <2> QED BY <2>3
<1>4. Total(f, R) \in Int
  BY <1>1, TotalRemove
<1> QED BY <1>2, <1>3, <1>4
-----------------------------------------------------------------------------
(* Liquidities of all ranges. *)
Amounts == [Ranges -> Nat]

Starting(t) == {r \in Ranges : r[1] = t}
Ending(t) == {r \in Ranges : r[2] = t}

(* There are finitely many ranges. *)
LEMMA RangesFinite ==
  /\ IsFiniteSet(Ranges)
  /\ \A R \in SUBSET Ranges : IsFiniteSet(R)
<1>1. IsFiniteSet(TickIndex \X TickIndex)
  BY TickHistoryAssumption, FS_Product
<1>2. Ranges \in SUBSET (TickIndex \X TickIndex)
  BY DEF Ranges
<1>3. IsFiniteSet(Ranges)
  BY <1>1, <1>2, FS_Subset
<1> QED BY <1>3, FS_Subset

(* A range goes up. *)
LEMMA RangeFact ==
  ASSUME NEW r \in Ranges
  PROVE  /\ r[1] \in TickIndex /\ r[2] \in TickIndex
         /\ r[1] \in Int /\ r[2] \in Int /\ r[1] < r[2]
BY TicksHandlerAssumption DEF Ranges

(* A ledger's gross and net liquidity at a tick are the sum and the          *)
(* difference of what starts and what ends there.                            *)
LEMMA LedgerFact ==
  ASSUME NEW p \in Amounts, NEW t \in TickIndex
  PROVE  /\ Total(p, Starting(t)) \in Nat /\ Total(p, Ending(t)) \in Nat
         /\ LedgerGross(p, t) = Total(p, Starting(t)) + Total(p, Ending(t))
         /\ LedgerNet(p, t) = Total(p, Starting(t)) - Total(p, Ending(t))
<1> DEFINE A == Starting(t)  B == Ending(t)  C == {r \in Ranges : t \in {r[1], r[2]}}
<1>1. A \in SUBSET Ranges /\ B \in SUBSET Ranges
  BY DEF Starting, Ending
<1>2. C = A \cup B
  BY DEF Starting, Ending
<1>3. A \cap B = {}
  BY RangeFact DEF Starting, Ending
<1>4. IsFiniteSet(A) /\ IsFiniteSet(B)
  BY <1>1, RangesFinite
<1>5. \A r \in Ranges : p[r] \in Nat
  BY DEF Amounts
<1>6. LedgerGross(p, t) = Total(p, C) /\ LedgerNet(p, t) = Total(p, A) - Total(p, B)
  BY DEF LedgerGross, LedgerNet, Starting, Ending
<1> HIDE DEF A, B, C
<1>7. Total(p, A) \in Nat
  BY <1>1, <1>4, <1>5, TotalOfNats
<1>8. Total(p, B) \in Nat
  BY <1>1, <1>4, <1>5, TotalOfNats
<1>9. Total(p, A \cup B) = Total(p, A) + Total(p, B)
  <2>1. \A r \in A \cup B : p[r] \in Int
    BY <1>1, <1>5
  <2> QED BY <1>3, <1>4, <2>1, TotalOfUnion
<1> QED BY <1>2, <1>6, <1>7, <1>8, <1>9 DEF A, B

(* No position holds more than its ticks do. *)
LEMMA LedgerCovers ==
  ASSUME NEW p \in Amounts, NEW r \in Ranges
  PROVE  p[r] <= LedgerGross(p, r[1]) /\ p[r] <= LedgerGross(p, r[2])
<1>1. /\ r[1] \in TickIndex /\ r[2] \in TickIndex
      /\ \A x \in Ranges : p[x] \in Nat
  BY RangeFact DEF Amounts
<1>2. p[r] <= Total(p, Starting(r[1]))
  <2> DEFINE A == Starting(r[1])
  <2>1. r \in A /\ A \in SUBSET Ranges
    BY DEF Starting
  <2>2. IsFiniteSet(A) /\ \A x \in A : p[x] \in Nat
    BY <1>1, <2>1, RangesFinite
  <2> HIDE DEF A
  <2>3. p[r] <= Total(p, A)
    BY <2>1, <2>2, TotalOfNats
  <2> QED BY <2>3 DEF A
<1>3. p[r] <= Total(p, Ending(r[2]))
  <2> DEFINE A == Ending(r[2])
  <2>1. r \in A /\ A \in SUBSET Ranges
    BY DEF Ending
  <2>2. IsFiniteSet(A) /\ \A x \in A : p[x] \in Nat
    BY <1>1, <2>1, RangesFinite
  <2> HIDE DEF A
  <2>3. p[r] <= Total(p, A)
    BY <2>1, <2>2, TotalOfNats
  <2> QED BY <2>3 DEF A
<1>4. /\ Total(p, Starting(r[1])) \in Nat /\ Total(p, Ending(r[1])) \in Nat
      /\ LedgerGross(p, r[1]) = Total(p, Starting(r[1])) + Total(p, Ending(r[1]))
  BY <1>1, LedgerFact
<1>5. /\ Total(p, Starting(r[2])) \in Nat /\ Total(p, Ending(r[2])) \in Nat
      /\ LedgerGross(p, r[2]) = Total(p, Starting(r[2])) + Total(p, Ending(r[2]))
  BY <1>1, LedgerFact
<1>6. p[r] \in Nat
  BY <1>1
<1>7. p[r] <= LedgerGross(p, r[1])
  BY <1>2, <1>4, <1>6
<1>8. p[r] <= LedgerGross(p, r[2])
  BY <1>3, <1>5, <1>6
<1> QED BY <1>7, <1>8

(* What a change of one position does to every tick. *)
LEMMA LedgerMoved ==
  ASSUME NEW p \in Amounts, NEW q \in Amounts, NEW r \in Ranges, NEW d \in Int,
         \A x \in Ranges : q[x] = IF x = r THEN p[x] + d ELSE p[x]
  PROVE  \A u \in TickIndex :
           /\ LedgerGross(q, u) = IF u = r[1] \/ u = r[2] THEN LedgerGross(p, u) + d
                                  ELSE LedgerGross(p, u)
           /\ LedgerNet(q, u) = IF u = r[1] THEN LedgerNet(p, u) + d
                                ELSE IF u = r[2] THEN LedgerNet(p, u) - d ELSE LedgerNet(p, u)
<1> TAKE u \in TickIndex
<1>1. r[1] # r[2] /\ \A x \in Ranges : p[x] \in Int
  BY RangeFact DEF Amounts
<1>2. Total(q, Starting(u)) = IF u = r[1] THEN Total(p, Starting(u)) + d ELSE Total(p, Starting(u))
  <2> DEFINE A == Starting(u)
  <2>1. A \in SUBSET Ranges /\ (r \in A <=> u = r[1])
    BY DEF Starting
  <2>2. /\ IsFiniteSet(A) /\ \A x \in A : p[x] \in Int
        /\ \A x \in A : q[x] = IF x = r THEN p[x] + d ELSE p[x]
    BY <1>1, <2>1, RangesFinite
  <2> HIDE DEF A
  <2>3. Total(q, A) = IF r \in A THEN Total(p, A) + d ELSE Total(p, A)
    BY <2>2, TotalChanged
  <2> QED BY <2>1, <2>3 DEF A
<1>3. Total(q, Ending(u)) = IF u = r[2] THEN Total(p, Ending(u)) + d ELSE Total(p, Ending(u))
  <2> DEFINE A == Ending(u)
  <2>1. A \in SUBSET Ranges /\ (r \in A <=> u = r[2])
    BY DEF Ending
  <2>2. /\ IsFiniteSet(A) /\ \A x \in A : p[x] \in Int
        /\ \A x \in A : q[x] = IF x = r THEN p[x] + d ELSE p[x]
    BY <1>1, <2>1, RangesFinite
  <2> HIDE DEF A
  <2>3. Total(q, A) = IF r \in A THEN Total(p, A) + d ELSE Total(p, A)
    BY <2>2, TotalChanged
  <2> QED BY <2>1, <2>3 DEF A
<1>4. /\ Total(p, Starting(u)) \in Nat /\ Total(p, Ending(u)) \in Nat
      /\ LedgerGross(p, u) = Total(p, Starting(u)) + Total(p, Ending(u))
      /\ LedgerNet(p, u) = Total(p, Starting(u)) - Total(p, Ending(u))
  BY LedgerFact
<1>5. /\ LedgerGross(q, u) = Total(q, Starting(u)) + Total(q, Ending(u))
      /\ LedgerNet(q, u) = Total(q, Starting(u)) - Total(q, Ending(u))
  BY LedgerFact
<1> DEFINE a == Total(p, Starting(u))  b == Total(p, Ending(u))
           v == Total(q, Starting(u))  w == Total(q, Ending(u))
           lo == u = r[1]  hi == u = r[2]
<1>6. /\ a \in Nat /\ b \in Nat /\ ~(lo /\ hi)
      /\ v = (IF lo THEN a + d ELSE a) /\ w = (IF hi THEN b + d ELSE b)
  BY <1>1, <1>2, <1>3, <1>4
<1> HIDE DEF a, b, v, w, lo, hi
<1>7. v + w = (IF lo \/ hi THEN (a + b) + d ELSE a + b)
  BY <1>6
<1>8. v - w = (IF lo THEN (a - b) + d ELSE IF hi THEN (a - b) - d ELSE a - b)
  BY <1>6
<1> QED BY <1>4, <1>5, <1>7, <1>8 DEF a, b, v, w, lo, hi

(* A ledger's liquidity in range is what its ticks up to there add up to.    *)
LEMMA ActiveIsSumOfNets ==
  ASSUME NEW p \in Amounts, NEW t \in TickIndex,
         NEW net, \A u \in TickIndex : net[u] = LedgerNet(p, u)
  PROVE  Total(net, {u \in TickIndex : u <= t}) = LedgerActive(p, t)
<1> DEFINE U == {u \in TickIndex : u <= t}
           low == [r \in Ranges |-> r[1]]
           high == [r \in Ranges |-> r[2]]
           started == [u \in TickIndex |-> Total(p, Starting(u))]
           ended == [u \in TickIndex |-> Total(p, Ending(u))]
           C == {r \in Ranges : r[1] <= t /\ t < r[2]}
           A == Keyed(Ranges, low, U)
           B == Keyed(Ranges, high, U)
<1>1. /\ IsFiniteSet(U) /\ U \subseteq TickIndex
  BY TickHistoryAssumption, FS_Subset
<1>2. IsFiniteSet(Ranges) /\ \A r \in Ranges : p[r] \in Int /\ p[r] \in Nat
  BY RangesFinite DEF Amounts
<1>3. \A u \in U : started[u] = Total(p, Keyed(Ranges, low, {u}))
  <2>1. \A u : Keyed(Ranges, low, {u}) = Starting(u)
    BY DEF Starting, Keyed
  <2> QED BY <1>1, <2>1
<1>4. \A u \in U : ended[u] = Total(p, Keyed(Ranges, high, {u}))
  <2>1. \A u : Keyed(Ranges, high, {u}) = Ending(u)
    BY DEF Ending, Keyed
  <2> QED BY <1>1, <2>1
<1>5. \A u \in U : /\ started[u] \in Int /\ ended[u] \in Int
                   /\ net[u] = started[u] - ended[u]
  BY <1>1, LedgerFact
<1>6. A = C \cup B /\ C \cap B = {} /\ C \in SUBSET Ranges /\ B \in SUBSET Ranges
  <2>1. \A r \in Ranges : /\ r \in A <=> r[1] <= t
                          /\ r \in B <=> r[2] <= t
    BY RangeFact DEF Keyed
  <2>2. t \in Int
    BY TicksHandlerAssumption
  <2>3. \A r \in Ranges : /\ r \in A <=> r \in C \/ r \in B
                          /\ ~(r \in C /\ r \in B)
    BY <2>1, <2>2, RangeFact
  <2>4. A \subseteq Ranges /\ B \subseteq Ranges /\ C \subseteq Ranges
    BY DEF Keyed
  <2> HIDE DEF A, B, C
  <2> QED BY <2>3, <2>4
<1>7. LedgerActive(p, t) = Total(p, C)
  BY DEF LedgerActive
<1> HIDE DEF U, low, high, started, ended, C
<1>8. Total(started, U) = Total(p, A)
  <2>1. SumsGroups(started, U, p, Ranges, low)
    BY <1>1, <1>2, <1>3 DEF SumsGroups
  <2> QED BY <2>1, TotalOfGroups
<1>9. Total(ended, U) = Total(p, B)
  <2>1. SumsGroups(ended, U, p, Ranges, high)
    BY <1>1, <1>2, <1>4 DEF SumsGroups
  <2> QED BY <2>1, TotalOfGroups
<1> HIDE DEF A, B
<1>10. Total(net, U) = Total(started, U) - Total(ended, U)
  BY <1>1, <1>5, TotalOfDifferences
<1>11. IsFiniteSet(B) /\ IsFiniteSet(C)
  BY <1>6, RangesFinite
<1>12. Total(p, C \cup B) = Total(p, C) + Total(p, B)
  <2>1. \A r \in C \cup B : p[r] \in Int
    BY <1>2, <1>6
  <2> QED BY <1>6, <1>11, <2>1, TotalOfUnion
<1>13. Total(p, B) \in Int
  <2>1. \A r \in B : p[r] \in Int
    BY <1>2, <1>6
  <2> QED BY <1>11, <2>1, TotalRemove
<1>14. Total(p, C) \in Int
  <2>1. \A r \in C : p[r] \in Int
    BY <1>2, <1>6
  <2> QED BY <1>11, <2>1, TotalRemove
<1>15. Total(net, U) = Total(p, C)
  BY <1>6, <1>8, <1>9, <1>10, <1>12, <1>13, <1>14
<1> QED BY <1>7, <1>15 DEF U
-----------------------------------------------------------------------------
(* The ranks of the members of a finite set of integers are the numbers from *)
(* zero up, in order.                                                        *)
LEMMA RankFact ==
  ASSUME NEW S, S \subseteq Int, IsFiniteSet(S)
  PROVE  /\ Cardinality(S) \in Nat
         /\ \A t \in S : Rank(S, t) \in 0 .. Cardinality(S)-1
         /\ \A s, t \in S : s < t => Rank(S, s) < Rank(S, t)
         /\ \A k \in 0 .. Cardinality(S)-1 : \E t \in S : Rank(S, t) = k
<1> DEFINE B(t) == {s \in S : s < t}
           n == Cardinality(S)
           rank == [t \in S |-> Cardinality(B(t))]
<1>1. n \in Nat
  BY FS_CardinalityType
<1>2. \A t \in S : B(t) \in SUBSET S /\ IsFiniteSet(B(t)) /\ Cardinality(B(t)) \in Nat
  <2>1. \A t \in S : B(t) \in SUBSET S
    OBVIOUS
  <2> HIDE DEF B
  <2> QED BY <2>1, FS_Subset, FS_CardinalityType
<1>3. ASSUME NEW t \in S PROVE Cardinality(B(t)) < n
  <2>1. B(t) # S
    OBVIOUS
  <2> HIDE DEF B
  <2> QED BY <1>1, <1>2, <2>1, FS_Subset
<1>4. ASSUME NEW s \in S, NEW t \in S, s < t PROVE Cardinality(B(s)) < Cardinality(B(t))
  <2>0. s \in Int /\ t \in Int /\ \A r \in S : r \in Int
    OBVIOUS
  <2>1. s \in B(t) /\ s \notin B(s)
    BY <1>4, <2>0
  <2>3. ASSUME NEW r \in B(s) PROVE r \in B(t)
    <3>1. r \in S /\ r \in Int /\ r < s
      BY <2>0
    <3>2. r < t
      BY <1>4, <2>0, <3>1
    <3> QED BY <3>1, <3>2
  <2> HIDE DEF B
  <2>2. B(s) # B(t) /\ B(s) \in SUBSET B(t)
    BY <2>1, <2>3
  <2> QED BY <1>2, <2>2, FS_Subset
<1>5. \A t \in S : Rank(S, t) = rank[t] /\ rank[t] = Cardinality(B(t))
  BY DEF Rank
<1> HIDE DEF B, rank
<1>6. rank \in [S -> 0 .. n-1]
  <2>1. \A t \in S : Cardinality(B(t)) \in 0 .. n-1
    BY <1>1, <1>2, <1>3
  <2> QED BY <2>1 DEF rank
<1>7. rank \in Injection(S, 0 .. n-1)
  <2>1. ASSUME NEW s \in S, NEW t \in S, rank[s] = rank[t] PROVE s = t
    <3>1. s \in Int /\ t \in Int /\ rank[s] \in Int /\ rank[t] \in Int
      BY <1>6
    <3>2. ~(rank[s] < rank[t]) /\ ~(rank[t] < rank[s])
      BY <2>1, <3>1
    <3>3. ~(s < t) /\ ~(t < s)
      BY <1>4, <1>5, <3>2
    <3> QED BY <3>1, <3>3
  <2> QED BY <1>6, <2>1 DEF Injection, IsInjective
<1>8. IsFiniteSet(0 .. n-1) /\ Cardinality(0 .. n-1) = n
  <2>1. 0 \in Int /\ n-1 \in Int
    BY <1>1
  <2>2. /\ IsFiniteSet(0 .. n-1)
        /\ Cardinality(0 .. n-1) = IF 0 > n-1 THEN 0 ELSE (n-1) - 0 + 1
    BY <2>1, FS_Interval
  <2> QED BY <1>1, <2>2
<1> DEFINE T == 0 .. n-1
<1>9. rank \in Surjection(S, T)
  <2>1. rank \in Injection(S, T) /\ IsFiniteSet(T) /\ Cardinality(S) = Cardinality(T)
    BY <1>7, <1>8
  <2> HIDE DEF T, n
  <2> QED BY <2>1, FS_Injection
<1>10. \A k \in T : \E t \in S : rank[t] = k
  BY <1>9 DEF Surjection
<1> QED BY <1>1, <1>3, <1>4, <1>5, <1>6, <1>10

(* The members of a finite set of integers, from the smallest up. *)
LEMMA NthFact ==
  ASSUME NEW S, S \subseteq Int, IsFiniteSet(S)
  PROVE  /\ Cardinality(S) \in Nat
         /\ \A k \in 0 .. Cardinality(S)-1 : NthOf(S, k) \in S
         /\ \A i, j \in 0 .. Cardinality(S)-1 : i < j => NthOf(S, i) < NthOf(S, j)
         /\ \A t \in S : \E k \in 0 .. Cardinality(S)-1 : NthOf(S, k) = t
<1> DEFINE n == Cardinality(S)
<1>1. /\ n \in Nat
      /\ \A t \in S : Rank(S, t) \in 0 .. n-1
      /\ \A s, t \in S : s < t => Rank(S, s) < Rank(S, t)
      /\ \A k \in 0 .. n-1 : \E t \in S : Rank(S, t) = k
  BY RankFact
<1> HIDE DEF n
<1>2. \A k \in 0 .. n-1 : NthOf(S, k) \in S /\ Rank(S, NthOf(S, k)) = k
  BY <1>1 DEF NthOf
<1>3. ASSUME NEW s \in S, NEW t \in S, Rank(S, s) <= Rank(S, t) PROVE s <= t
  <2>1. s \in Int /\ t \in Int /\ Rank(S, s) \in Int /\ Rank(S, t) \in Int
    BY <1>1
  <2> QED BY <1>1, <1>3, <2>1
<1>4. ASSUME NEW i \in 0 .. n-1, NEW j \in 0 .. n-1, i < j
      PROVE  NthOf(S, i) < NthOf(S, j)
  <2> DEFINE s == NthOf(S, i)  t == NthOf(S, j)
  <2>1. s \in S /\ t \in S /\ Rank(S, s) = i /\ Rank(S, t) = j
    BY <1>2
  <2> HIDE DEF s, t
  <2>2. s <= t /\ s # t /\ s \in Int /\ t \in Int
    BY <1>1, <1>3, <1>4, <2>1
  <2>3. s < t
    BY <2>2
  <2> QED BY <2>3 DEF s, t
<1>5. ASSUME NEW t \in S PROVE \E k \in 0 .. n-1 : NthOf(S, k) = t
  <2> DEFINE k == Rank(S, t)  s == NthOf(S, k)
  <2>1. k \in 0 .. n-1 /\ s \in S /\ Rank(S, s) = k
    BY <1>1, <1>2
  <2> HIDE DEF s
  <2>2. s <= t /\ t <= s /\ s \in Int /\ t \in Int
    BY <1>1, <1>3, <2>1
  <2>3. s = t
    BY <2>2
  <2> QED BY <2>1, <2>3 DEF s
<1> QED BY <1>1, <1>2, <1>4, <1>5 DEF n

(* A ledger's amounts are numbers, and its net liquidity is zero wherever    *)
(* its gross liquidity is.                                                   *)
LEMMA LedgerNumbers ==
  ASSUME NEW p \in Amounts, NEW t \in TickIndex
  PROVE  /\ LedgerGross(p, t) \in Nat /\ LedgerNet(p, t) \in Int
         /\ LedgerGross(p, t) = 0 => LedgerNet(p, t) = 0
<1> DEFINE a == Total(p, Starting(t))  b == Total(p, Ending(t))
<1>1. /\ a \in Nat /\ b \in Nat
      /\ LedgerGross(p, t) = a + b /\ LedgerNet(p, t) = a - b
  BY LedgerFact
<1> HIDE DEF a, b
<1> QED BY <1>1

(* A ledger's slice is in order, holds no empty tick, and is the ledger.     *)
LEMMA LedgerTicksFact ==
  ASSUME NEW p \in Amounts
  PROVE  LET s == LedgerTicks(p)
         IN  /\ s.len \in Nat /\ s.ticks \in SliceOf(Tick, s.len)
             /\ Ordered(s) /\ NoneEmpty(s)
             /\ \A k \in 0 .. s.len-1 :
                  /\ s.ticks[k].gross = LedgerGross(p, s.ticks[k].index)
                  /\ s.ticks[k].net = LedgerNet(p, s.ticks[k].index)
             /\ \A t \in TickIndex : LedgerGross(p, t) > 0 =>
                  \E k \in 0 .. s.len-1 : s.ticks[k].index = t
<1> DEFINE s == LedgerTicks(p)
           S == Initialized(p)
           n == Cardinality(S)
           nth(k) == NthOf(S, k)
<1>1. S \in SUBSET TickIndex /\ S \subseteq Int /\ IsFiniteSet(S)
  <2>1. S \in SUBSET TickIndex
    BY DEF Initialized
  <2> HIDE DEF S
  <2> QED BY <2>1, TicksHandlerAssumption, TickHistoryAssumption, FS_Subset
<1>2. /\ n \in Nat
      /\ \A k \in 0 .. n-1 : nth(k) \in S
      /\ \A i, j \in 0 .. n-1 : i < j => nth(i) < nth(j)
      /\ \A t \in S : \E k \in 0 .. n-1 : nth(k) = t
  BY <1>1, NthFact
<1>3. \A t : t \in S <=> t \in TickIndex /\ LedgerGross(p, t) > 0
  BY DEF Initialized
<1>4. /\ s.len = n
      /\ s.ticks = [k \in 0 .. n-1 |-> [index |-> nth(k), gross |-> LedgerGross(p, nth(k)),
                                       net |-> LedgerNet(p, nth(k))]]
  BY DEF LedgerTicks
<1> HIDE DEF s, S, n, nth
<1>5. \A k \in 0 .. n-1 : /\ s.ticks[k].index = nth(k)
                          /\ s.ticks[k].gross = LedgerGross(p, nth(k))
                          /\ s.ticks[k].net = LedgerNet(p, nth(k))
  BY <1>4
<1>6. \A k \in 0 .. n-1 : /\ nth(k) \in TickIndex /\ LedgerGross(p, nth(k)) > 0
                          /\ LedgerGross(p, nth(k)) \in Nat /\ LedgerNet(p, nth(k)) \in Int
  BY <1>2, <1>3, LedgerNumbers
<1>7. s.ticks \in [0 .. n-1 -> Tick]
  <2>1. \A k \in 0 .. n-1 : [index |-> nth(k), gross |-> LedgerGross(p, nth(k)),
                             net |-> LedgerNet(p, nth(k))] \in Tick
    BY <1>6 DEF Tick
  <2> QED BY <1>4, <2>1
<1>8. Ordered(s)
  BY <1>2, <1>4, <1>5 DEF Ordered
<1>9. NoneEmpty(s)
  BY <1>4, <1>5, <1>6 DEF NoneEmpty, IsEmpty
<1>10. ASSUME NEW t \in TickIndex, LedgerGross(p, t) > 0
       PROVE  \E k \in 0 .. n-1 : s.ticks[k].index = t
  BY <1>2, <1>3, <1>5, <1>10
<1> QED BY <1>2, <1>4, <1>5, <1>7, <1>8, <1>9, <1>10 DEF s, SliceOf

(* Walking the slice up to t adds the net liquidity of the ticks up to t.    *)
LEMMA WalkIsSumOfNets ==
  ASSUME NEW x, Fit(x) \/ x.len = 0, NEW t \in TickIndex,
         NEW net, \A u \in TickIndex : net[u] = NetAt(x, u)
  PROVE  Total([k \in 0 .. x.len-1 |-> x.ticks[k].net],
               {k \in 0 .. x.len-1 : x.ticks[k].index <= t})
           = Total(net, {u \in TickIndex : u <= t})
<1> DEFINE n == x.len
           K == {k \in 0 .. n-1 : x.ticks[k].index <= t}
           U == {u \in TickIndex : u <= t}
           walked == [k \in 0 .. n-1 |-> x.ticks[k].net]
           name == [k \in 0 .. n-1 |-> x.ticks[k].index]
           R == {name[k] : k \in K}
<1>1. /\ n \in Nat
      /\ \A k \in 0 .. n-1 : /\ x.ticks[k].index \in TickIndex /\ x.ticks[k].index \in Int
                             /\ x.ticks[k].net \in Int
                             /\ NetAt(x, x.ticks[k].index) = x.ticks[k].net
      /\ \A i, j \in 0 .. n-1 : i < j => x.ticks[i].index < x.ticks[j].index
      /\ \A u : (\A k \in 0 .. n-1 : x.ticks[k].index # u) => NetAt(x, u) = 0
  <2>1. CASE Fit(x)
    BY <2>1, FieldTypes, AmountsFact DEF Fit, Ordered
  <2>2. CASE x.len = 0
    BY <2>2 DEF NetAt
  <2> QED BY <2>1, <2>2
<1>2. IsFiniteSet(K) /\ IsFiniteSet(U)
  <2>1. IsFiniteSet(0 .. n-1)
    <3>1. 0 \in Int /\ n-1 \in Int
      BY <1>1
    <3> QED BY <3>1, FS_Interval
  <2>2. K \in SUBSET (0 .. n-1) /\ U \in SUBSET TickIndex
    OBVIOUS
  <2> HIDE DEF K, U
  <2> QED BY <2>1, <2>2, TickHistoryAssumption, FS_Subset
<1>3. \A k \in K : /\ k \in 0 .. n-1 /\ x.ticks[k].index <= t
                   /\ name[k] = x.ticks[k].index /\ walked[k] = x.ticks[k].net
  OBVIOUS
<1>4. \A k \in K : walked[k] = net[name[k]] /\ walked[k] \in Int
  BY <1>1, <1>3
<1>5. \A i, j \in K : name[i] = name[j] => i = j
  <2> SUFFICES ASSUME NEW i \in K, NEW j \in K, name[i] = name[j], i # j PROVE FALSE
    OBVIOUS
  <2>1. i \in 0 .. n-1 /\ j \in 0 .. n-1 /\ x.ticks[i].index = x.ticks[j].index
    BY <1>3
  <2>2. x.ticks[i].index \in Int /\ x.ticks[j].index \in Int
    BY <1>1, <2>1
  <2>3. i < j \/ j < i
    BY <2>1
  <2> QED BY <1>1, <2>1, <2>2, <2>3
<1>6. R \subseteq U
  BY <1>1, <1>3
<1>7. \A u \in U : net[u] \in Int
  <2>1. \A u \in TickIndex : NetAt(x, u) \in Int
    BY <1>1
  <2> QED BY <2>1
<1>8. ASSUME NEW u \in U \ R PROVE net[u] = 0
  <2>1. u \in TickIndex /\ u <= t
    OBVIOUS
  <2>2. \A k \in 0 .. n-1 : x.ticks[k].index # u
    BY <2>1
  <2> QED BY <1>1, <2>1, <2>2
<1> HIDE DEF K, U, walked, name
<1>9. Total(walked, K) = Total(net, R)
  BY <1>2, <1>4, <1>5, TotalRenamed
<1> HIDE DEF R
<1>10. Total(net, U) = Total(net, R)
  BY <1>2, <1>6, <1>7, <1>8, TotalOfZeros
<1> QED BY <1>9, <1>10 DEF K, U, walked
-----------------------------------------------------------------------------
(* What the slice of x holds at every tick is what the positions p have      *)
(* there.                                                                    *)
BookIs(x, p) ==
  \A u \in TickIndex : GrossAt(x, u) = LedgerGross(p, u) /\ NetAt(x, u) = LedgerNet(p, u)

(* The inductive invariant.  The slice and the cache stay sound, and the     *)
(* amounts right, even where the hint does not; only SetTicks of nothing     *)
(* leaves a handler that is not sound, and it panics.                        *)
HInv ==
  /\ positions \in Amounts
  /\ BookIs(h, positions)
  /\ Sound(h) \/ h.len = 0
  /\ reply # Panic => Sound(h)

(* An empty slice holds nothing anywhere. *)
LEMMA EmptySliceFact ==
  ASSUME NEW x, x.len = 0
  PROVE  /\ Listed(x) = {}
         /\ \A u : GrossAt(x, u) = 0 /\ NetAt(x, u) = 0
<1>1. 0 .. x.len-1 = {}
  OBVIOUS
<1> QED BY <1>1 DEF Listed, GrossAt, NetAt

(* The ledger of a handler that was just made. *)
LEMMA NoPositionsFact ==
  LET p == [r \in Ranges |-> 0]
  IN  /\ p \in Amounts
      /\ \A u \in TickIndex : LedgerGross(p, u) = 0 /\ LedgerNet(p, u) = 0
<1> DEFINE p == [r \in Ranges |-> 0]
<1>1. p \in Amounts /\ \A r \in Ranges : p[r] = 0
  BY DEF Amounts
<1> HIDE DEF p
<1>2. ASSUME NEW R \in SUBSET Ranges PROVE Total(p, R) = 0
  <2>1. IsFiniteSet(R) /\ IsFiniteSet({}) /\ {} \subseteq R
    BY RangesFinite, FS_EmptySet
  <2>2. \A r \in R : p[r] \in Int /\ p[r] = 0
    BY <1>1
  <2>3. Total(p, R) = Total(p, {})
    BY <2>1, <2>2, TotalOfZeros
  <2> QED BY <2>3, EmptyTotal
<1>3. ASSUME NEW u \in TickIndex PROVE LedgerGross(p, u) = 0 /\ LedgerNet(p, u) = 0
  <2>1. Starting(u) \in SUBSET Ranges /\ Ending(u) \in SUBSET Ranges
    BY DEF Starting, Ending
  <2>2. Total(p, Starting(u)) = 0 /\ Total(p, Ending(u)) = 0
    BY <1>2, <2>1
  <2> QED BY <1>1, <2>2, LedgerFact
<1> QED BY <1>1, <1>3 DEF p

(* A new handler has no ticks, and the pool no positions. *)
LEMMA InitHInv == HistoryInit => HInv
<1> SUFFICES ASSUME HistoryInit PROVE HInv
  OBVIOUS
<1>1. Sound(h)
  BY InitIInv DEF HistoryInit, IInv, Sound
<1>2. h.len = 0
  BY DEF HistoryInit, Init, NewTicksHandler
<1>3. positions = [r \in Ranges |-> 0]
  BY DEF HistoryInit
<1>4. /\ positions \in Amounts
      /\ \A u \in TickIndex : LedgerGross(positions, u) = 0 /\ LedgerNet(positions, u) = 0
  BY <1>3, NoPositionsFact
<1>5. BookIs(h, positions)
  BY <1>2, <1>4, EmptySliceFact DEF BookIs
<1> QED BY <1>1, <1>4, <1>5 DEF HInv

(* A slice that lists the ticks of a ledger, each with its amounts, is the   *)
(* ledger.                                                                   *)
LEMMA SliceIsLedger ==
  ASSUME NEW p \in Amounts, NEW x, Fit(x),
         \A k \in 0 .. x.len-1 : /\ x.ticks[k].gross = LedgerGross(p, x.ticks[k].index)
                                 /\ x.ticks[k].net = LedgerNet(p, x.ticks[k].index),
         \A t \in TickIndex : LedgerGross(p, t) > 0 => \E k \in 0 .. x.len-1 : x.ticks[k].index = t
  PROVE  BookIs(x, p)
<1> SUFFICES ASSUME NEW u \in TickIndex
             PROVE  GrossAt(x, u) = LedgerGross(p, u) /\ NetAt(x, u) = LedgerNet(p, u)
  BY DEF BookIs
<1>1. CASE \E k \in 0 .. x.len-1 : x.ticks[k].index = u
  <2>1. PICK k \in 0 .. x.len-1 : x.ticks[k].index = u
    BY <1>1
  <2>2. GrossAt(x, u) = x.ticks[k].gross /\ NetAt(x, u) = x.ticks[k].net
    BY <2>1, AmountsFact
  <2> QED BY <2>1, <2>2
<1>2. CASE \A k \in 0 .. x.len-1 : x.ticks[k].index # u
  <2>1. GrossAt(x, u) = 0 /\ NetAt(x, u) = 0
    BY <1>2, AmountsFact
  <2>2. LedgerGross(p, u) \in Nat /\ (LedgerGross(p, u) = 0 => LedgerNet(p, u) = 0)
    BY LedgerNumbers
  <2>3. ~(LedgerGross(p, u) > 0)
    BY <1>2
  <2>4. LedgerGross(p, u) = 0
    BY <2>2, <2>3
  <2> QED BY <2>1, <2>2, <2>4
<1> QED BY <1>1, <1>2

(* Loading the ticks of a ledger, or nothing when it has none. *)
LEMMA LoadKeepsHInv ==
  ASSUME HInv, reply # Panic, Load
  PROVE  HInv'
<1>1. PICK p \in SnapshotLedgers : SetTicks(LedgerTicks(p)) /\ positions' = p
  BY DEF Load
<1>2. p \in Amounts
  <2>1. p \in Ledger /\ 0 .. MaxPosition \subseteq Nat
    BY TickHistoryAssumption
  <2> QED BY <2>1 DEF Ledger, Amounts
<1> DEFINE s == LedgerTicks(p)
<1>3. /\ s.len \in Nat /\ s.ticks \in SliceOf(Tick, s.len)
      /\ Ordered(s) /\ NoneEmpty(s)
      /\ \A k \in 0 .. s.len-1 :
           /\ s.ticks[k].gross = LedgerGross(p, s.ticks[k].index)
           /\ s.ticks[k].net = LedgerNet(p, s.ticks[k].index)
      /\ \A t \in TickIndex : LedgerGross(p, t) > 0 => \E k \in 0 .. s.len-1 : s.ticks[k].index = t
  BY <1>2, LedgerTicksFact
<1>4. SetTicks(s)
  BY <1>1
<1> HIDE DEF s
<1>5. Sound(h) /\ h.len \in Nat /\ h \in Handler(h.len)
  BY DEF HInv, Sound, Fit
<1>6. CASE s.len > 0
  <2>1. h' = Loaded(h, s)
    BY <1>4, <1>6 DEF SetTicks
  <2>2. Fit(Loaded(h, s)) /\ NoneEmpty(Loaded(h, s))
        /\ Loaded(h, s).len = s.len /\ Loaded(h, s).ticks = s.ticks
    BY <1>3, <1>5, <1>6, LoadedFact
  <2>3. Sound(h') /\ h'.len = s.len /\ h'.ticks = s.ticks
    BY <2>1, <2>2 DEF Sound
  <2>4. BookIs(h', p)
    <3> DEFINE y == h'
    <3>1. Fit(y) /\ y.len = s.len /\ y.ticks = s.ticks
      BY <2>3 DEF Sound
    <3> HIDE DEF y
    <3>2. BookIs(y, p)
      BY <1>2, <1>3, <3>1, SliceIsLedger
    <3> QED BY <3>2 DEF y
  <2> QED BY <1>1, <1>2, <2>3, <2>4 DEF HInv
<1>7. CASE ~(s.len > 0)
  <2>1. h' = [h EXCEPT !.ticks = s.ticks, !.len = 0] /\ reply' = Panic
    BY <1>4, <1>7 DEF SetTicks
  <2>2. h'.len = 0
    BY <1>5, <2>1 DEF Handler
  <2>3. s.len = 0
    BY <1>3, <1>7
  <2>4. ASSUME NEW u \in TickIndex PROVE LedgerGross(p, u) = 0 /\ LedgerNet(p, u) = 0
    <3>1. ~(LedgerGross(p, u) > 0)
      BY <1>3, <2>3
    <3>2. LedgerGross(p, u) \in Nat /\ (LedgerGross(p, u) = 0 => LedgerNet(p, u) = 0)
      BY <1>2, LedgerNumbers
    <3>3. LedgerGross(p, u) = 0
      BY <3>1, <3>2
    <3> QED BY <3>2, <3>3
  <2>5. BookIs(h', p)
    BY <2>2, <2>4, EmptySliceFact DEF BookIs
  <2> QED BY <1>1, <1>2, <2>1, <2>2, <2>5 DEF HInv
<1> QED BY <1>6, <1>7

(* A mint moves both ticks of its range as it moves the range. *)
LEMMA MintPositionKeepsHInv ==
  ASSUME HInv, reply # Panic, MintPosition
  PROVE  HInv'
<1>1. PICK r \in Ranges, g \in Liquidity \ {0} :
        /\ UpdateTicksAfterMint(r[1], r[2], g)
        /\ positions' = [positions EXCEPT ![r] = @ + g]
  BY DEF MintPosition
<1>2. g \in Nat /\ g > 0 /\ g \in Int
  BY TicksHandlerAssumption
<1>3. r[1] \in TickIndex /\ r[2] \in TickIndex /\ r[1] < r[2] /\ r[1] # r[2]
  BY RangeFact
<1>4. positions \in Amounts /\ Sound(h)
  BY DEF HInv
<1> DEFINE z == MintUpper(MintLower(h, r[1], g), r[2], g)
<1>5. /\ Sound(z)
      /\ \A u \in TickIndex :
           /\ GrossAt(z, u) = IF u = r[1] \/ u = r[2] THEN GrossAt(h, u) + g ELSE GrossAt(h, u)
           /\ NetAt(z, u) = IF u = r[1] THEN NetAt(h, u) + g
                            ELSE IF u = r[2] THEN NetAt(h, u) - g ELSE NetAt(h, u)
  BY <1>2, <1>3, <1>4, MintBooks
<1>6. h' = z
  BY <1>1 DEF UpdateTicksAfterMint
<1> HIDE DEF z
<1> DEFINE q == [positions EXCEPT ![r] = @ + g]
<1>7. q \in Amounts /\ \A x \in Ranges : q[x] = IF x = r THEN positions[x] + g ELSE positions[x]
  BY <1>2, <1>4 DEF Amounts
<1>8. positions' = q
  BY <1>1
<1> HIDE DEF q
<1>9. \A u \in TickIndex :
        /\ LedgerGross(q, u) = IF u = r[1] \/ u = r[2] THEN LedgerGross(positions, u) + g
                               ELSE LedgerGross(positions, u)
        /\ LedgerNet(q, u) = IF u = r[1] THEN LedgerNet(positions, u) + g
                             ELSE IF u = r[2] THEN LedgerNet(positions, u) - g
                             ELSE LedgerNet(positions, u)
  BY <1>2, <1>4, <1>7, LedgerMoved
<1>10. BookIs(z, q)
  BY <1>5, <1>9 DEF HInv, BookIs
<1> QED BY <1>5, <1>6, <1>7, <1>8, <1>10 DEF HInv

(* A burn of no more than its position holds finds both of its ticks, since  *)
(* they hold at least as much.                                               *)
LEMMA BurnPositionKeepsHInv ==
  ASSUME HInv, reply # Panic, BurnPosition
  PROVE  HInv'
<1>1. PICK r \in Ranges, g \in Liquidity :
        /\ positions[r] > 0 /\ g <= positions[r]
        /\ UpdateTicksAfterBurn(r[1], r[2], g)
        /\ positions' = [positions EXCEPT ![r] = @ - g]
  BY DEF BurnPosition
<1>2. g \in Nat /\ -g \in Int
  BY TicksHandlerAssumption
<1>3. r[1] \in TickIndex /\ r[2] \in TickIndex /\ r[1] < r[2] /\ r[1] # r[2]
  BY RangeFact
<1>4. positions \in Amounts /\ Sound(h) /\ Fit(h) /\ positions[r] \in Nat
  BY DEF HInv, Sound, Amounts
<1>5. ASSUME NEW t \in {r[1], r[2]}
      PROVE  \E k \in 0 .. h.len-1 : h.ticks[k].index = t /\ h.ticks[k].gross >= g
  <2>1. positions[r] <= LedgerGross(positions, t)
    BY <1>4, LedgerCovers
  <2>2. GrossAt(h, t) = LedgerGross(positions, t) /\ GrossAt(h, t) \in Nat
    BY <1>3, <1>4, AmountsAreNumbers DEF HInv, BookIs
  <2>3. GrossAt(h, t) >= g /\ GrossAt(h, t) # 0
    BY <1>1, <1>2, <1>4, <2>1, <2>2
  <2>4. PICK k \in 0 .. h.len-1 : h.ticks[k].index = t
    BY <1>4, <2>3, AmountsFact
  <2>5. GrossAt(h, t) = h.ticks[k].gross
    BY <1>4, <2>4, AmountsFact
  <2> QED BY <2>3, <2>4, <2>5
<1>6. PICK k \in 0 .. h.len-1 : h.ticks[k].index = r[1] /\ h.ticks[k].gross >= g
  BY <1>5
<1>7. PICK m \in 0 .. h.len-1 : h.ticks[m].index = r[2] /\ h.ticks[m].gross >= g
  BY <1>5
<1> DEFINE x == TakeFrom(h, r[1], g, -g)
           y == TakeFrom(x, r[2], g, g)
<1>8. /\ TickWithSliceKey(h, r[1]).exist /\ TickWithSliceKey(x, r[2]).exist
      /\ Sound(y)
      /\ \A u \in TickIndex :
           /\ GrossAt(y, u) = IF u = r[1] \/ u = r[2] THEN GrossAt(h, u) - g ELSE GrossAt(h, u)
           /\ NetAt(y, u) = IF u = r[1] THEN NetAt(h, u) - g
                            ELSE IF u = r[2] THEN NetAt(h, u) + g ELSE NetAt(h, u)
  BY <1>2, <1>3, <1>4, <1>6, <1>7, BurnBooks
<1>9. h' = y
  BY <1>1, <1>8 DEF UpdateTicksAfterBurn
<1> HIDE DEF x, y
<1> DEFINE q == [positions EXCEPT ![r] = @ - g]
<1>10. /\ q \in Amounts
       /\ \A v \in Ranges : q[v] = IF v = r THEN positions[v] + (-g) ELSE positions[v]
  <2>1. positions[r] - g \in Nat /\ positions[r] - g = positions[r] + (-g)
    BY <1>1, <1>2, <1>4
  <2> QED BY <1>4, <2>1 DEF Amounts
<1>11. positions' = q
  BY <1>1
<1> HIDE DEF q
<1>12. \A u \in TickIndex :
         /\ LedgerGross(q, u) = IF u = r[1] \/ u = r[2] THEN LedgerGross(positions, u) + (-g)
                                ELSE LedgerGross(positions, u)
         /\ LedgerNet(q, u) = IF u = r[1] THEN LedgerNet(positions, u) + (-g)
                              ELSE IF u = r[2] THEN LedgerNet(positions, u) - (-g)
                              ELSE LedgerNet(positions, u)
  BY <1>2, <1>4, <1>10, LedgerMoved
<1>13. ASSUME NEW u \in TickIndex
       PROVE  GrossAt(y, u) = LedgerGross(q, u) /\ NetAt(y, u) = LedgerNet(q, u)
  <2>1. GrossAt(h, u) = LedgerGross(positions, u) /\ NetAt(h, u) = LedgerNet(positions, u)
    BY DEF HInv, BookIs
  <2>2. LedgerGross(positions, u) \in Int /\ LedgerNet(positions, u) \in Int
    BY <1>4, LedgerNumbers
  <2> QED BY <1>2, <1>8, <1>12, <2>1, <2>2
<1>14. BookIs(y, q)
  BY <1>13 DEF BookIs
<1> QED BY <1>8, <1>9, <1>10, <1>11, <1>14 DEF HInv

(* A handler with the slice of a sound one has its amounts. *)
LEMMA SameSliceKeepsHInv ==
  ASSUME HInv, Sound(h'), h'.ticks = h.ticks, h'.len = h.len, positions' = positions
  PROVE  HInv'
<1>1. \A u : GrossAt(h', u) = GrossAt(h, u) /\ NetAt(h', u) = NetAt(h, u)
  BY SameSliceSameAmounts
<1>2. BookIs(h', positions)
  BY <1>1 DEF HInv, BookIs
<1> QED BY <1>2 DEF HInv

(* Going on with a copy. *)
LEMMA CloneHandlerKeepsHInv ==
  ASSUME HInv, reply # Panic, CloneHandler
  PROVE  HInv'
<1>1. /\ h.len \in Nat /\ h.len > 0 /\ h.ticks \in SliceOf(Tick, h.len)
      /\ Ordered(h) /\ NoneEmpty(h)
  BY DEF HInv, Sound, Fit, CloneHandler, Clone, Handler
<1> DEFINE y == Loaded(NewTicksHandler, h)
<1>2. Fit(y) /\ NoneEmpty(y) /\ y.len = h.len /\ y.ticks = h.ticks
  BY <1>1, NewHandlerFact, LoadedFact
<1>3. h' = y /\ positions' = positions
  BY DEF CloneHandler, Clone
<1> HIDE DEF y
<1>4. Sound(h') /\ h'.ticks = h.ticks /\ h'.len = h.len
  BY <1>2, <1>3 DEF Sound
<1> QED BY <1>3, <1>4, SameSliceKeepsHInv

(* Moving the hint, wherever to, leaves slice and cache sound. *)
LEMMA MovedKeepsSlice ==
  ASSUME Sound(h), NEW i \in Int, Moved(i)
  PROVE  Sound(h') /\ h'.ticks = h.ticks /\ h'.len = h.len
<1> DEFINE y == [h EXCEPT !.last = i]
<1>1. /\ y \in Handler(h.len) /\ y.ticks = h.ticks /\ y.len = h.len
      /\ y.cacheTick = h.cacheTick /\ y.cacheIdx = h.cacheIdx /\ y.valid = h.valid
  <2>1. h \in Handler(h.len)
    BY DEF Sound, Fit
  <2> QED BY <2>1 DEF Handler
<1>2. h' = y
  BY DEF Moved
<1> HIDE DEF y
<1>3. Fit(y)
  BY <1>1 DEF Sound, Fit, Ordered, SlotsFit
<1>4. NoneEmpty(y)
  BY <1>1 DEF Sound, NoneEmpty
<1> QED BY <1>1, <1>2, <1>3, <1>4 DEF Sound

(* A query answers, or panics on a hint out of range; either way it changes  *)
(* nothing but the hint.                                                     *)
LEMMA AskKeepsHInv ==
  ASSUME HInv, reply # Panic, h.len > 0, Ask
  PROVE  HInv'
<1>1. PICK t \in TickIndex : GetTick(t) \/ NextAtOrBelow(t) \/ NextAbove(t)
  BY DEF Ask, Query
<1>2. Sound(h) /\ Fit(h) /\ h.len \in Int /\ h.last \in Int /\ t \in Int
  BY FieldTypes, TicksHandlerAssumption DEF HInv, Sound, Fit
<1>3. BinarySearch(h, t) \in Int
  BY <1>2, SearchFact
<1>4. h' = h \/ \E i \in Int : Moved(i)
  <2>1. /\ h.len - 1 \in Int /\ h.last - 1 \in Int /\ h.last + 1 \in Int
        /\ 0 \in Int /\ BinarySearch(h, t) + 1 \in Int
    BY <1>2, <1>3
  <2>2. CASE GetTick(t)
    BY <2>2 DEF GetTick
  <2>3. CASE NextAtOrBelow(t)
    <3>1. (IF HintBelow(h, t) THEN h.last - 1 ELSE BinarySearch(h, t)) \in Int
      BY <1>3, <2>1
    <3> QED BY <2>1, <2>3, <3>1 DEF NextAtOrBelow
  <2>4. CASE NextAbove(t)
    <3>1. (IF HintAbove(h, t) THEN h.last + 1 ELSE BinarySearch(h, t) + 1) \in Int
      BY <2>1
    <3> QED BY <2>1, <2>4, <3>1 DEF NextAbove
  <2> QED BY <1>1, <2>2, <2>3, <2>4
<1>5. Sound(h') /\ h'.ticks = h.ticks /\ h'.len = h.len
  BY <1>2, <1>4, MovedKeepsSlice
<1> QED BY <1>5, SameSliceKeepsHInv DEF Ask

(* Every event of a history keeps the invariant. *)
LEMMA HistoryKeepsHInv == HInv /\ [HistoryNext]_historyVars => HInv'
<1> SUFFICES ASSUME HInv, [HistoryNext]_historyVars PROVE HInv'
  OBVIOUS
<1>1. CASE reply # Panic /\ Load
  BY <1>1, LoadKeepsHInv
<1>2. CASE reply # Panic /\ MintPosition
  BY <1>2, MintPositionKeepsHInv
<1>3. CASE reply # Panic /\ BurnPosition
  BY <1>3, BurnPositionKeepsHInv
<1>4. CASE reply # Panic /\ CloneHandler
  BY <1>4, CloneHandlerKeepsHInv
<1>5. CASE reply # Panic /\ h.len > 0 /\ Ask
  BY <1>5, AskKeepsHInv
<1>6. CASE UNCHANGED historyVars
  BY <1>6 DEF historyVars, HInv
<1> QED BY <1>1, <1>2, <1>3, <1>4, <1>5, <1>6 DEF HistoryNext

(* The inductive invariant holds in every state of every history. *)
THEOREM AlwaysHInv == HistorySpec => []HInv
BY InitHInv, HistoryKeepsHInv, PTL DEF HistorySpec
-----------------------------------------------------------------------------
(* Sorted, bounded by nothing but its type and found through a hint or a     *)
(* cache that may lag: the slice still lists exactly the ticks of the        *)
(* positions, with exactly their liquidity.                                  *)
THEOREM TicksAreThoseOfPositions == HistorySpec => []BookMatchesLedger
<1>1. HInv => BookMatchesLedger
  <2> SUFFICES ASSUME HInv PROVE BookMatchesLedger
    OBVIOUS
  <2>1. \A u \in TickIndex : /\ GrossAt(h, u) = LedgerGross(positions, u)
                             /\ NetAt(h, u) = LedgerNet(positions, u)
                             /\ LedgerGross(positions, u) \in Nat
                             /\ LedgerGross(positions, u) = 0 => LedgerNet(positions, u) = 0
    BY LedgerNumbers DEF HInv, BookIs
  <2>2. CASE h.len = 0
    <3>1. 0 .. h.len-1 = {}
      BY <2>2
    <3>2. Listed(h) = {} /\ \A u : GrossAt(h, u) = 0
      BY <2>2, EmptySliceFact
    <3>3. Initialized(positions) = {}
      BY <2>1, <3>2 DEF Initialized
    <3> QED BY <3>1, <3>2, <3>3 DEF BookMatchesLedger
  <2>3. CASE Sound(h)
    <3>1. \A k \in 0 .. h.len-1 : /\ h.ticks[k].index \in TickIndex
                                  /\ ~(h.ticks[k].gross = 0 /\ h.ticks[k].net = 0)
      BY <2>3, FieldTypes DEF Sound, Fit, NoneEmpty, IsEmpty
    <3>2. /\ \A k \in 0 .. h.len-1 : /\ GrossAt(h, h.ticks[k].index) = h.ticks[k].gross
                                     /\ NetAt(h, h.ticks[k].index) = h.ticks[k].net
          /\ \A t : (\A k \in 0 .. h.len-1 : h.ticks[k].index # t) => GrossAt(h, t) = 0
      BY <2>3, AmountsFact DEF Sound
    <3>3. \A k \in 0 .. h.len-1 : /\ h.ticks[k].gross = LedgerGross(positions, h.ticks[k].index)
                                  /\ h.ticks[k].net = LedgerNet(positions, h.ticks[k].index)
      BY <2>1, <3>1, <3>2
    <3>4. ASSUME NEW t \in Listed(h) PROVE t \in Initialized(positions)
      <4>1. PICK k \in 0 .. h.len-1 : t = h.ticks[k].index
        BY DEF Listed
      <4>2. t \in TickIndex /\ LedgerGross(positions, t) \in Nat /\ LedgerGross(positions, t) # 0
        BY <2>1, <3>1, <3>3, <4>1
      <4>3. LedgerGross(positions, t) > 0
        BY <4>2
      <4> QED BY <4>2, <4>3 DEF Initialized
    <3>5. ASSUME NEW t \in Initialized(positions) PROVE t \in Listed(h)
      <4>1. t \in TickIndex /\ LedgerGross(positions, t) > 0
        BY DEF Initialized
      <4>2. GrossAt(h, t) # 0
        BY <2>1, <4>1
      <4> QED BY <3>2, <4>2 DEF Listed
    <3> QED BY <3>3, <3>4, <3>5 DEF BookMatchesLedger
  <2> QED BY <2>2, <2>3 DEF HInv
<1> QED BY <1>1, AlwaysHInv, PTL

(* A pool that walks the slice has, wherever it stops, the liquidity of the  *)
(* positions in range there.                                                 *)
THEOREM WalkStaysActive == HistorySpec => []WalkGivesActiveLiquidity
<1>1. HInv => WalkGivesActiveLiquidity
  <2> SUFFICES ASSUME HInv, NEW t \in TickIndex
               PROVE  Total([k \in 0 .. h.len-1 |-> h.ticks[k].net],
                            {k \in 0 .. h.len-1 : h.ticks[k].index <= t})
                        = LedgerActive(positions, t)
    BY DEF WalkGivesActiveLiquidity
  <2> DEFINE net == [u \in TickIndex |-> NetAt(h, u)]
  <2>1. Fit(h) \/ h.len = 0
    BY DEF HInv, Sound
  <2>2. positions \in Amounts
    BY DEF HInv
  <2>3. \A u \in TickIndex : net[u] = NetAt(h, u)
    OBVIOUS
  <2>4. \A u \in TickIndex : net[u] = LedgerNet(positions, u)
    BY DEF HInv, BookIs
  <2> HIDE DEF net
  <2>5. Total([k \in 0 .. h.len-1 |-> h.ticks[k].net],
              {k \in 0 .. h.len-1 : h.ticks[k].index <= t})
          = Total(net, {u \in TickIndex : u <= t})
    BY <2>1, <2>3, WalkIsSumOfNets
  <2>6. Total(net, {u \in TickIndex : u <= t}) = LedgerActive(positions, t)
    BY <2>2, <2>4, ActiveIsSumOfNets
  <2> QED BY <2>5, <2>6
<1> QED BY <1>1, AlwaysHInv, PTL
=============================================================================
