------------------------------ MODULE Induction ------------------------------
(***************************************************************************)
(* Induction over the naturals and over finite sets in a form first-order  *)
(* provers can use: the least-number principle and its counterpart for     *)
(* finite sets, stated of a set and not of a predicate, and from them that *)
(* functions defined by recursion on the naturals exist, and what folds    *)
(* over finite sets and sequences compute.                                 *)
(***************************************************************************)
EXTENDS Naturals, FiniteSetTheorems, TLAPS

\* F is a nonempty set of finite subsets of S.
FiniteFamily(F, S) == F # {} /\ \A T \in F : T \subseteq S /\ IsFiniteSet(T)

\* A nonempty set of finite sets has an element that is minimal for inclusion.
LEMMA MinimalFiniteSet ==
    ASSUME NEW S, NEW F, FiniteFamily(F, S)
    PROVE  \E T \in F : \A U \in F : U \subseteq T => U = T
  <1>1. F # {} /\ F \subseteq FiniteSubsetsOf(S)
    BY DEF FiniteSubsetsOf, FiniteFamily
  <1>2. IsWellFoundedOn(StrictSubsetOrdering(S), FiniteSubsetsOf(S))
    BY FS_StrictSubsetOrderingWellFounded
  <1>3. PICK T \in F : \A U \in F : <<U, T>> \notin StrictSubsetOrdering(S)
    BY <1>1, <1>2, WFMin
  <1>4. ASSUME NEW U \in F, U \subseteq T
        PROVE  U = T
    <2>1. <<U, T>> \in (SUBSET S) \X (SUBSET S)
      BY DEF FiniteFamily
    <2>2. <<U, T>> \notin StrictSubsetOrdering(S)
      BY <1>3
    <2>3. QED
      BY <1>4, <2>1, <2>2 DEF StrictSubsetOrdering
  <1>5. QED
    BY <1>4

\* A nonempty set of naturals has a least element.
LEMMA LeastNumber ==
    ASSUME NEW T \in SUBSET Nat, T # {}
    PROVE  \E m \in T : \A k \in T : m <= k
  <1> DEFINE below == {0 .. k : k \in T}
  <1>1. FiniteFamily(below, Nat)
    <2>1. \A k \in T : 0 .. k \subseteq Nat /\ IsFiniteSet(0 .. k)
      BY FS_Interval
    <2>2. QED
      BY <2>1 DEF FiniteFamily
  <1>2. PICK s \in below : \A u \in below : u \subseteq s => u = s
    <2> HIDE DEF below
    <2>1. QED
      BY <1>1, MinimalFiniteSet
  <1>3. PICK m \in T : s = 0 .. m
    OBVIOUS
  <1>4. ASSUME NEW k \in T, k < m
        PROVE  FALSE
    <2>1. 0 .. k \subseteq 0 .. m /\ m \in 0 .. m /\ m \notin 0 .. k
      BY <1>4
    <2>2. QED
      BY <1>2, <1>3, <2>1
  <1>5. QED
    BY <1>4

\* A nonempty set of naturals up to n has a greatest element.
LEMMA GreatestNumber ==
    ASSUME NEW n \in Nat, NEW T \in SUBSET (1 .. n), T # {}
    PROVE  \E m \in T : \A k \in T : m >= k
  <1> DEFINE U == {n - k : k \in T}
  <1>1. U \in SUBSET Nat /\ U # {}
    <2>1. \A k \in T : n - k \in Nat
      OBVIOUS
    <2>2. QED
      BY <2>1
  <1>2. PICK u \in U : \A k \in U : u <= k
    <2> HIDE DEF U
    <2>1. QED
      BY <1>1, LeastNumber
  <1>3. PICK m \in T : u = n - m
    OBVIOUS
  <1>4. ASSUME NEW k \in T
        PROVE  m >= k
    <2>1. n - k \in U
      OBVIOUS
    <2>2. n - m <= n - k
      BY <1>2, <1>3, <2>1
    <2>3. QED
      BY <2>2
  <1>5. QED
    BY <1>4

\* A set of naturals that holds 0 and, with a number below n, its successor,
\* holds every number up to n.
LEMMA UpTo ==
    ASSUME NEW n \in Nat, NEW P, 0 \in P,
           \A i \in 1 .. n : i - 1 \in P => i \in P
    PROVE  \A i \in 0 .. n : i \in P
  <1> DEFINE bad == (0 .. n) \ P
  <1>1. SUFFICES ASSUME bad # {} PROVE FALSE
    OBVIOUS
  <1>2. bad \in SUBSET Nat
    OBVIOUS
  <1>3. PICK m \in bad : \A k \in bad : m <= k
    <2> HIDE DEF bad
    <2>1. QED
      BY <1>1, <1>2, LeastNumber
  <1>4. m \in 1 .. n /\ m - 1 \in 0 .. n /\ ~(m <= m - 1)
    OBVIOUS
  <1>5. m - 1 \in P
    BY <1>3, <1>4
  <1>6. QED
    BY <1>4, <1>5

\* A set that holds {} and every subset of a finite set I whose subsets with
\* one element less it holds, holds I.
LEMMA UpToSet ==
    ASSUME NEW I, IsFiniteSet(I), NEW P, {} \in P,
           \A s \in (SUBSET I) \ {{}} : (\A x \in s : s \ {x} \in P) => s \in P
    PROVE  I \in P
  <1> DEFINE bad == (SUBSET I) \ P
  <1>1. SUFFICES ASSUME bad # {} PROVE FALSE
    OBVIOUS
  <1>2. FiniteFamily(bad, I)
    BY <1>1, FS_Subset DEF FiniteFamily
  <1>3. \E s \in bad : \A u \in bad : u \subseteq s => u = s
    <2> HIDE DEF bad
    <2>1. QED
      BY <1>2, MinimalFiniteSet
  <1>4. PICK s \in bad : \A u \in bad : u \subseteq s => u = s
    BY <1>3
  <1>5. s \in (SUBSET I) \ {{}}
    OBVIOUS
  <1>6. ASSUME NEW x \in s
        PROVE  s \ {x} \in P
    BY <1>4, <1>5
  <1>7. QED
    BY <1>5, <1>6

\* f is the run of n steps from base.
IsRun(f, n, base, step) ==
    f[0] = base /\ \A i \in 1 .. n : f[i] = step[<<f[i - 1], i>>]

\* A function defined by primitive recursion over 0 .. n exists.
LEMMA Recursion ==
    ASSUME NEW n \in Nat, NEW S, NEW base \in S, NEW step \in [S \X (1 .. n) -> S]
    PROVE  \E f \in [0 .. n -> S] : IsRun(f, n, base, step)
  <1> DEFINE Upto(k) ==
        \E f \in [0 .. k -> S] :
           f[0] = base /\ \A i \in 1 .. k : f[i] = step[<<f[i - 1], i>>]
      good == {k \in 0 .. n : Upto(k)}
  <1>1. 0 \in good
    <2> DEFINE f == [i \in 0 .. 0 |-> base]
    <2>1. f \in [0 .. 0 -> S] /\ f[0] = base
      OBVIOUS
    <2>2. \A i \in 1 .. 0 : f[i] = step[<<f[i - 1], i>>]
      OBVIOUS
    <2>3. Upto(0)
      <3> HIDE DEF f
      <3>1. QED
        BY <2>1, <2>2
    <2>4. QED
      BY <2>3
  <1>2. ASSUME NEW m \in 1 .. n, m - 1 \in good
        PROVE  m \in good
    <2>1. PICK g \in [0 .. m - 1 -> S] :
             g[0] = base /\ \A i \in 1 .. m - 1 : g[i] = step[<<g[i - 1], i>>]
      BY <1>2
    <2> DEFINE f == [i \in 0 .. m |-> IF i = m THEN step[<<g[m - 1], m>>] ELSE g[i]]
    <2>2. g[m - 1] \in S /\ <<g[m - 1], m>> \in S \X (1 .. n)
      BY <1>2
    <2>3. f \in [0 .. m -> S]
      BY <1>2, <2>2
    <2>4. f[0] = base
      BY <1>2, <2>1
    <2>5. ASSUME NEW i \in 1 .. m
          PROVE  f[i] = step[<<f[i - 1], i>>]
      <3>1. CASE i = m
        BY <1>2, <3>1
      <3>2. CASE i # m
        <4>1. i \in 1 .. m - 1 /\ i - 1 \in 0 .. m - 1 /\ i - 1 # m
          BY <1>2, <3>2
        <4>2. f[i] = g[i] /\ f[i - 1] = g[i - 1]
          BY <1>2, <3>2, <4>1
        <4>3. QED
          BY <2>1, <4>1, <4>2
      <3>3. QED
        BY <3>1, <3>2
    <2>6. Upto(m)
      <3> HIDE DEF f
      <3>1. QED
        BY <2>3, <2>4, <2>5
    <2>7. QED
      BY <1>2, <2>6
  <1>3. \A i \in 0 .. n : i \in good
    <2> HIDE DEF good
    <2>1. QED
      BY <1>1, <1>2, UpTo
  <1>4. n \in good
    <2>1. n \in 0 .. n
      OBVIOUS
    <2> HIDE DEF good
    <2>2. QED
      BY <1>3, <2>1
  <1>5. Upto(n)
    <2> HIDE DEF Upto
    <2>1. QED
      BY <1>4
  <1>6. QED
    BY <1>5 DEF IsRun

\* it folds the subsets of I into base, one element after the other: ch says
\* which element of a set comes last.
IsFold(it, I, base, step, ch) ==
    /\ it[{}] = base
    /\ \A s \in (SUBSET I) \ {{}} : it[s] = step[<<it[s \ {ch[s]}], ch[s]>>]

\* A choice of one element from every nonempty subset of I.
Choosers(I) == {ch \in [(SUBSET I) \ {{}} -> I] : \A s \in (SUBSET I) \ {{}} : ch[s] \in s}

\* Removing one element makes a finite set smaller by one.
LEMMA OneLess ==
    ASSUME NEW I, IsFiniteSet(I), NEW s \in SUBSET I, NEW x \in s
    PROVE  /\ s \ {x} \in SUBSET I
           /\ Cardinality(s) \in Nat /\ Cardinality(s \ {x}) \in Nat
           /\ Cardinality(s \ {x}) = Cardinality(s) - 1
  <1>1. IsFiniteSet(s)
    BY FS_Subset
  <1>2. QED
    BY <1>1, FS_RemoveElement, FS_CardinalityType

\* A fold over the subsets of a finite set exists.
LEMMA FoldExists ==
    ASSUME NEW I, IsFiniteSet(I), NEW S, NEW base \in S, NEW step \in [S \X I -> S],
           NEW ch \in Choosers(I)
    PROVE  \E it \in [SUBSET I -> S] : IsFold(it, I, base, step, ch)
  <1> DEFINE N == Cardinality(I)
             T == [SUBSET I -> S]
             Better(h) == [s \in SUBSET I |->
                             IF s = {} THEN base ELSE step[<<h[s \ {ch[s]}], ch[s]>>]]
             go == [x \in T \X (1 .. N) |-> Better(x[1])]
             h0 == [s \in SUBSET I |-> base]
  <1>1. N \in Nat
    BY FS_CardinalityType
  <1>2. \A s \in SUBSET I : s # {} => ch[s] \in s /\ ch[s] \in I /\ s \ {ch[s]} \in SUBSET I
    BY DEF Choosers
  <1>3. ASSUME NEW h \in T
        PROVE  Better(h) \in T
    BY <1>2
  <1>4. go \in [T \X (1 .. N) -> T] /\ h0 \in T
    <2> HIDE DEF Better, T
    <2>1. go \in [T \X (1 .. N) -> T]
      BY <1>3
    <2>2. h0 \in T
      BY DEF T
    <2>3. QED
      BY <2>1, <2>2
  <1>5. PICK f \in [0 .. N -> T] : IsRun(f, N, h0, go)
    <2> HIDE DEF go, h0, T, N
    <2>1. QED
      BY <1>1, <1>4, Recursion
  <1>6. f[0] = h0 /\ \A i \in 1 .. N : f[i] = Better(f[i - 1])
    <2> HIDE DEF Better, T, N, go, h0
    <2>1. f[0] = h0
      BY <1>5 DEF IsRun
    <2>2. ASSUME NEW i \in 1 .. N
          PROVE  f[i] = Better(f[i - 1])
      <3>1. i - 1 \in 0 .. N
        BY <1>1
      <3>2. f[i - 1] \in T
        BY <3>1
      <3>3. f[i] = go[<<f[i - 1], i>>]
        BY <1>5 DEF IsRun
      <3>4. go[<<f[i - 1], i>>] = Better(f[i - 1])
        BY <3>2 DEF go
      <3>5. QED
        BY <3>3, <3>4
    <2>3. QED
      BY <2>1, <2>2
  <1>7. \A i \in 0 .. N : f[i] \in T
    OBVIOUS
  <1> DEFINE Fixed(k) == \A s \in SUBSET I : Cardinality(s) <= k => f[k][s] = Better(f[k])[s]
             good == {k \in 0 .. N : Fixed(k)}
  <1>8. 0 \in good
    <2>1. ASSUME NEW s \in SUBSET I, Cardinality(s) <= 0
          PROVE  s = {}
      <3>1. IsFiniteSet(s)
        BY FS_Subset
      <3>2. Cardinality(s) \in Nat
        BY <3>1, FS_CardinalityType
      <3>3. QED
        BY <2>1, <3>1, <3>2, FS_EmptySet
    <2>2. h0[{}] = base /\ Better(h0)[{}] = base
      OBVIOUS
    <2>3. Fixed(0)
      <3> HIDE DEF Better, h0, N
      <3>1. QED
        BY <1>6, <2>1, <2>2
    <2>4. 0 \in 0 .. N
      BY <1>1
    <2>5. QED
      <3> HIDE DEF Fixed, N
      <3>1. QED
        BY <2>3, <2>4
  <1>9. ASSUME NEW k \in 1 .. N, k - 1 \in good
        PROVE  k \in good
    <2>1. SUFFICES ASSUME NEW s \in SUBSET I, Cardinality(s) <= k
                   PROVE  f[k][s] = Better(f[k])[s]
      <3>1. k \in 0 .. N
        BY <1>1
      <3> HIDE DEF Better, N
      <3>2. QED
        BY <1>9, <3>1
    <2>2. f[k] = Better(f[k - 1])
      BY <1>6
    <2>3. CASE s = {}
      BY <2>2, <2>3
    <2>4. CASE s # {}
      <3> DEFINE r == s \ {ch[s]}
      <3>1. r \in SUBSET I /\ Cardinality(r) <= k - 1
        BY <1>2, <2>1, <2>4, OneLess
      <3>2. f[k - 1][r] = Better(f[k - 1])[r]
        <4> HIDE DEF r, Better
        <4>1. QED
          BY <1>9, <3>1
      <3>3. f[k - 1][r] = f[k][r]
        BY <2>2, <3>2
      <3>4. Better(f[k])[s] = step[<<f[k][r], ch[s]>>]
        BY <2>4
      <3>5. Better(f[k - 1])[s] = step[<<f[k - 1][r], ch[s]>>]
        BY <2>4
      <3> HIDE DEF r, Better
      <3>6. QED
        BY <2>2, <3>3, <3>4, <3>5
    <2>5. QED
      BY <2>3, <2>4
  <1>10. N \in good
    <2>1. \A i \in 0 .. N : i \in good
      <3> HIDE DEF good, N
      <3>1. QED
        BY <1>1, <1>8, <1>9, UpTo
    <2>2. N \in 0 .. N
      BY <1>1
    <2> HIDE DEF good, N
    <2>3. QED
      BY <2>1, <2>2
  <1>11. \A s \in SUBSET I : f[N][s] = Better(f[N])[s]
    <2>1. \A s \in SUBSET I : Cardinality(s) <= N
      BY FS_Subset
    <2>2. Fixed(N)
      <3> HIDE DEF Fixed, N
      <3>1. QED
        BY <1>10
    <2> HIDE DEF Better, N
    <2>3. QED
      BY <2>1, <2>2
  <1>12. f[N] \in [SUBSET I -> S]
    <2>1. N \in 0 .. N
      BY <1>1
    <2> HIDE DEF N
    <2>2. QED
      BY <1>7, <2>1
  <1>13. IsFold(f[N], I, base, step, ch)
    <2> DEFINE it == f[N]
    <2>1. Better(it)[{}] = base
      OBVIOUS
    <2>2. \A s \in (SUBSET I) \ {{}} : Better(it)[s] = step[<<it[s \ {ch[s]}], ch[s]>>]
      OBVIOUS
    <2> HIDE DEF Better, N
    <2>3. it[{}] = base
      BY <1>11, <2>1
    <2>4. \A s \in (SUBSET I) \ {{}} : it[s] = step[<<it[s \ {ch[s]}], ch[s]>>]
      BY <1>11, <2>2
    <2> HIDE DEF it
    <2>5. QED
      BY <2>3, <2>4 DEF IsFold, it
  <1>14. QED
    BY <1>12, <1>13

==============================================================================
