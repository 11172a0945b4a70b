-------------------------------- MODULE Sums --------------------------------
(***************************************************************************)
(* What SumFunctionOnSet computes on a finite set: the sum grows by f[a]   *)
(* with an element a, whatever the order in which the fold picks them.     *)
(* Both balances rest on it.                                               *)
(*                                                                         *)
(* The fold is a recursive function on the subsets of its set.  What is    *)
(* shown by induction is shown of the least number of elements for which   *)
(* it would fail.                                                          *)
(***************************************************************************)
EXTENDS Integers, FiniteSets, Functions, FiniteSetTheorems, WellFoundedInduction, TLAPS

Smaller == {mn \in Nat \X Nat : mn[1] < mn[2]}
Pick(s) == CHOOSE x \in s : TRUE

\* The fold's next step on s, and a function that makes it on each subset of S.
Fold(f, h, s) == IF s = {} THEN 0 ELSE f[Pick(s)] + h[s \ {Pick(s)}]
Solves(h, f, S) == h = [s \in SUBSET S |-> Fold(f, h, s)]

\* A set of numbers has a least element.
LEMMA Least ==
  ASSUME NEW T \in SUBSET Nat, T # {}
  PROVE  \E n \in T : \A m \in T : ~ (m < n)
<1>1. IsWellFoundedOn(Smaller, Nat)
  BY NatLessThanWellFounded DEF OpToRel, Smaller
<1>2. \E n \in T : \A m \in T : <<m, n>> \notin Smaller
  BY <1>1, WFMin
<1>3. \A m, n \in Nat : m < n => <<m, n>> \in Smaller
  BY DEF Smaller
<1> QED BY <1>2, <1>3

\* A set without the element picked has one element less.
LEMMA Picked ==
  ASSUME NEW s, IsFiniteSet(s), s # {}
  PROVE  /\ Pick(s) \in s
         /\ IsFiniteSet(s \ {Pick(s)})
         /\ Cardinality(s) \in Nat /\ Cardinality(s) # 0
         /\ Cardinality(s \ {Pick(s)}) = Cardinality(s) - 1
<1>1. Pick(s) \in s
  BY DEF Pick
<1> QED BY <1>1, FS_CardinalityType, FS_EmptySet, FS_RemoveElement

\* The definition of the fold, as an equation to be solved.
LEMMA SumSolves ==
  ASSUME NEW f, NEW S
  PROVE  SumFunctionOnSet(f, S) = (CHOOSE h : Solves(h, f, S))[S]
BY DEF SumFunctionOnSet, FoldFunctionOnSet, MapThenFoldSet, Solves, Fold, Pick

\* It has a solution: one that is right up to n elements gives one up to n + 1.
LEMMA SolutionExists ==
  ASSUME NEW f, NEW S, IsFiniteSet(S), \A x \in S : f[x] \in Int
  PROVE  \E h \in [SUBSET S -> Int] : Solves(h, f, S)
<1> DEFINE Upto(h, n) ==
      \A s \in SUBSET S : Cardinality(s) <= n => h[s] = Fold(f, h, s)
<1> DEFINE T == {n \in Nat : ~ \E h \in [SUBSET S -> Int] : Upto(h, n)}
<1>1. \A s \in SUBSET S : IsFiniteSet(s) /\ Cardinality(s) \in Nat
  BY FS_Subset, FS_CardinalityType
<1>2. ASSUME NEW n \in T, \A m \in T : ~ (m < n)  PROVE FALSE
  <2>1. CASE n = 0
    <3> DEFINE h == [s \in SUBSET S |-> 0]
    <3>1. Upto(h, 0)
      BY <1>1, FS_EmptySet DEF Fold
    <3>2. h \in [SUBSET S -> Int]
      OBVIOUS
    <3> HIDE DEF h
    <3> QED BY <2>1, <3>1, <3>2
  <2>2. CASE n # 0
    <3>1. n - 1 \in Nat /\ n - 1 < n
      BY <2>2
    <3>2. PICK h \in [SUBSET S -> Int] : Upto(h, n - 1)
      BY <1>2, <3>1
    <3> DEFINE k == [s \in SUBSET S |-> Fold(f, h, s)]
    <3>3. \A s \in SUBSET S : s # {} =>
             /\ Pick(s) \in S /\ s \ {Pick(s)} \in SUBSET S
             /\ Cardinality(s \ {Pick(s)}) = Cardinality(s) - 1
      BY <1>1, Picked
    <3>4. k \in [SUBSET S -> Int]
      BY <3>3 DEF Fold
    <3>5. ASSUME NEW s \in SUBSET S, Cardinality(s) <= n  PROVE k[s] = Fold(f, k, s)
      <4>1. CASE s = {}
        BY <4>1 DEF Fold
      <4>2. CASE s # {}
        <5> DEFINE t == s \ {Pick(s)}
        <5>1. t \in SUBSET S /\ Cardinality(t) <= n - 1
          BY <1>1, <3>3, <3>5, <4>2
        <5>2. k[t] = h[t]
          BY <3>2, <5>1
        <5> QED BY <4>2, <5>2, <5>1 DEF Fold
      <4> QED BY <4>1, <4>2
    <3> QED BY <3>4, <3>5
  <2> QED BY <2>1, <2>2
<1>3. T = {}
  BY <1>2, Least
<1>4. PICK h \in [SUBSET S -> Int] : Upto(h, Cardinality(S))
  BY <1>1, <1>3
<1>5. \A s \in SUBSET S : Cardinality(s) <= Cardinality(S)
  BY FS_Subset
<1>6. h = [s \in SUBSET S |-> Fold(f, h, s)]
  BY <1>4, <1>5
<1> QED BY <1>6 DEF Solves

\* Solutions agree where their functions do.
LEMMA SolutionsAgree ==
  ASSUME NEW f, NEW g, NEW S, NEW R, NEW h, NEW k, NEW r,
         Solves(h, f, S), Solves(k, g, R), r \subseteq S, r \subseteq R,
         IsFiniteSet(r), \A x \in r : f[x] = g[x]
  PROVE  h[r] = k[r]
<1> DEFINE T == {n \in Nat : \E s \in SUBSET r : Cardinality(s) = n /\ h[s] # k[s]}
<1>1. \A s \in SUBSET r :
        /\ IsFiniteSet(s) /\ Cardinality(s) \in Nat
        /\ h[s] = Fold(f, h, s) /\ k[s] = Fold(g, k, s)
  <2>1. \A s \in SUBSET r : IsFiniteSet(s) /\ Cardinality(s) \in Nat
    BY FS_Subset, FS_CardinalityType
  <2>2. h = [s \in SUBSET S |-> Fold(f, h, s)] /\ k = [s \in SUBSET R |-> Fold(g, k, s)]
    BY DEF Solves
  <2>3. \A s \in SUBSET r : s \in SUBSET S /\ s \in SUBSET R
    OBVIOUS
  <2>4. ASSUME NEW s \in SUBSET r  PROVE h[s] = Fold(f, h, s) /\ k[s] = Fold(g, k, s)
    BY <2>2, <2>3, <2>4 
  <2> QED BY <2>1, <2>4
<1>2. ASSUME NEW n \in T, \A m \in T : ~ (m < n)  PROVE FALSE
  <2>1. PICK s \in SUBSET r : Cardinality(s) = n /\ h[s] # k[s]
    OBVIOUS
  <2>2. s # {}
    BY <1>1, <2>1 DEF Fold
  <2> DEFINE t == s \ {Pick(s)}
  <2>3. Pick(s) \in r /\ t \in SUBSET r /\ Cardinality(t) = n - 1 /\ n # 0
    BY <1>1, <2>1, <2>2, Picked
  <2>4. h[t] = k[t]
    BY <1>1, <1>2, <2>3
  <2> QED BY <1>1, <2>1, <2>2, <2>3, <2>4 DEF Fold
<1>3. T = {}
  BY <1>2, Least
<1> QED BY <1>1, <1>3

\* The sum of a finite set is a number, the fold's next step on the sums of its subsets.
LEMMA SumFolds ==
  ASSUME NEW f, NEW S, IsFiniteSet(S), \A x \in S : f[x] \in Int
  PROVE  /\ SumFunctionOnSet(f, S) \in Int
         /\ S = {} => SumFunctionOnSet(f, S) = 0
         /\ S # {} =>
              SumFunctionOnSet(f, S)
                = f[Pick(S)] + SumFunctionOnSet(f, S \ {Pick(S)})
<1> DEFINE Sol(R) == CHOOSE h : Solves(h, f, R)
<1> DEFINE P == S \ {Pick(S)}
<1>1. ASSUME NEW R \in SUBSET S
      PROVE  /\ Solves(Sol(R), f, R) /\ Sol(R)[R] \in Int
             /\ SumFunctionOnSet(f, R) = Sol(R)[R]
  <2>1. IsFiniteSet(R) /\ \A x \in R : f[x] \in Int
    BY FS_Subset
  <2>2. PICK h \in [SUBSET R -> Int] : Solves(h, f, R)
    BY <2>1, SolutionExists
  <2>3. Solves(Sol(R), f, R)
    BY <2>2
  <2>4. Sol(R)[R] = h[R]
    BY <2>1, <2>2, <2>3, SolutionsAgree
  <2> QED BY <2>2, <2>3, <2>4, SumSolves
<1> HIDE DEF Sol
<1>2. Sol(S) = [s \in SUBSET S |-> Fold(f, Sol(S), s)]
  BY <1>1 DEF Solves
<1>3. Sol(S)[P] = Sol(P)[P]
  <2>1. P \in SUBSET S /\ IsFiniteSet(P)
    BY FS_Subset
  <2>2. Solves(Sol(S), f, S) /\ Solves(Sol(P), f, P)
    BY <1>1, <2>1
  <2> QED BY <2>1, <2>2, SolutionsAgree, SMTT(30)
<1>4. Sol(S)[S] = Fold(f, Sol(S), S)
  BY <1>2
<1> QED BY <1>1, <1>3, <1>4 DEF Fold

\* Functions that agree on a finite set have the same sum on it.
LEMMA SumSame ==
  ASSUME NEW f, NEW g, NEW S, IsFiniteSet(S), \A x \in S : f[x] \in Int /\ g[x] = f[x]
  PROVE  SumFunctionOnSet(g, S) = SumFunctionOnSet(f, S)
<1>1. PICK h, k : Solves(h, f, S) /\ Solves(k, g, S)
  BY SolutionExists
<1>2. /\ Solves(CHOOSE j : Solves(j, f, S), f, S)
      /\ Solves(CHOOSE j : Solves(j, g, S), g, S)
  BY <1>1
<1> QED BY <1>2, SumSolves, SolutionsAgree

\* One more element adds its value, wherever the fold picks it.
LEMMA SumAdds ==
  ASSUME NEW f, NEW S, NEW a, IsFiniteSet(S), a \notin S,
         \A x \in S \cup {a} : f[x] \in Int
  PROVE  SumFunctionOnSet(f, S \cup {a}) = SumFunctionOnSet(f, S) + f[a]
<1> DEFINE U == S \cup {a}
<1> DEFINE Adds(R, x) == SumFunctionOnSet(f, R \cup {x}) = SumFunctionOnSet(f, R) + f[x]
<1> DEFINE T == {n \in Nat : \E R \in SUBSET U : \E x \in U \ R :
                               Cardinality(R) = n /\ ~ Adds(R, x)}
<1>1. ASSUME NEW R \in SUBSET U
      PROVE  /\ IsFiniteSet(R) /\ Cardinality(R) \in Nat
             /\ SumFunctionOnSet(f, R) \in Int
             /\ R # {} => SumFunctionOnSet(f, R)
                            = f[Pick(R)] + SumFunctionOnSet(f, R \ {Pick(R)})
  <2>1. IsFiniteSet(R)
    BY FS_Subset, FS_AddElement
  <2> QED BY <2>1, SumFolds, FS_CardinalityType
<1>2. ASSUME NEW n \in T, \A m \in T : ~ (m < n)  PROVE FALSE
  <2>1. PICK R \in SUBSET U : \E x \in U \ R : Cardinality(R) = n /\ ~ Adds(R, x)
    OBVIOUS
  <2>2. PICK x \in U \ R : Cardinality(R) = n /\ ~ Adds(R, x)
    BY <2>1
  <2> DEFINE b == Pick(R \cup {x})
  <2>3. /\ SumFunctionOnSet(f, R \cup {x})
             = f[b] + SumFunctionOnSet(f, (R \cup {x}) \ {b})
        /\ b \in R \cup {x}
    <3>1. R \cup {x} \in SUBSET U /\ R \cup {x} # {}
      OBVIOUS
    <3> QED BY <1>1, <3>1, Picked
  <2> HIDE DEF b
  <2>4. b # x
    <3>1. SUFFICES ASSUME b = x  PROVE FALSE
      OBVIOUS
    <3>2. (R \cup {x}) \ {b} = R
      BY <2>2, <3>1
    <3>3. SumFunctionOnSet(f, R) \in Int /\ f[x] \in Int
      BY <1>1
    <3>4. f[x] + SumFunctionOnSet(f, R) = SumFunctionOnSet(f, R) + f[x]
      BY <3>3
    <3> QED BY <2>2, <2>3, <3>1, <3>2, <3>4
  <2> DEFINE Q == R \ {b}
  <2>5. /\ Q \in SUBSET U /\ b \in U \ Q /\ x \in U \ Q
        /\ Q \cup {b} = R /\ (R \cup {x}) \ {b} = Q \cup {x}
    BY <2>2, <2>3, <2>4
  <2>6. Cardinality(Q) \in Nat /\ Cardinality(Q) < n
    <3>1. b \in R
      BY <2>3, <2>4
    <3>2. Cardinality(Q) = Cardinality(R) - 1
      BY <1>1, <3>1, FS_RemoveElement
    <3>3. Cardinality(R) \in Nat /\ Cardinality(Q) \in Nat
      BY <1>1, <2>5
    <3> HIDE DEF Q
    <3> QED BY <2>2, <3>2, <3>3
  <2> HIDE DEF Q
  <2>7. Adds(Q, b) /\ Adds(Q, x)
    BY <1>2, <2>5, <2>6
  <2>8. SumFunctionOnSet(f, Q) \in Int /\ f[b] \in Int /\ f[x] \in Int
    BY <1>1, <2>5
  <2> QED BY <2>2, <2>3, <2>5, <2>7, <2>8
<1>3. T = {}
  BY <1>2, Least
<1>4. S \in SUBSET U /\ a \in U \ S
  OBVIOUS
<1> HIDE DEF U
<1> QED BY <1>1, <1>3, <1>4
=============================================================================
