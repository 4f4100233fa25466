-------------------------- MODULE GPUOfferingProofs --------------------------
(***************************************************************************)
(* Proofs about GPUOffering: for clusters of any size, what the gate and   *)
(* the feasibility verdict count as free is free for the scheduler.        *)
(***************************************************************************)
EXTENDS GPUOffering, Induction

(***************************************************************************)
(* Sums over finite sets                                                   *)
(***************************************************************************)
\* f counts something for every element of S.
Counts(f, S) == \A x \in S : f[x] \in Nat

\* The element a fold takes next.
Next1(s) == CHOOSE x \in s : TRUE

\* it adds up f over the subsets of S.
AddsUp(it, f, S) ==
    it = [s \in SUBSET S |-> IF s = {} THEN 0 ELSE f[Next1(s)] + it[s \ {Next1(s)}]]

\* Such a function exists, with values that are naturals.
LEMMA AddsUpExists ==
    ASSUME NEW S, IsFiniteSet(S), NEW f, Counts(f, S)
    PROVE  \E it \in [SUBSET S -> Nat] : AddsUp(it, f, S)
  <1> DEFINE step == [x \in Nat \X S |-> f[x[2]] + x[1]]
             ch == [s \in (SUBSET S) \ {{}} |-> Next1(s)]
  <1>1. \A s \in (SUBSET S) \ {{}} : Next1(s) \in s
    BY DEF Next1
  <1>2. ch \in Choosers(S)
    BY <1>1 DEF Choosers
  <1>3. step \in [Nat \X S -> Nat]
    BY DEF Counts
  <1>4. PICK it \in [SUBSET S -> Nat] : IsFold(it, S, 0, step, ch)
    <2> HIDE DEF step, ch
    <2>1. QED
      BY <1>2, <1>3, FoldExists
  <1>5. ASSUME NEW s \in (SUBSET S) \ {{}}
        PROVE  it[s] = f[Next1(s)] + it[s \ {Next1(s)}]
    <2>1. it[s] = step[<<it[s \ {ch[s]}], ch[s]>>]
      <3> HIDE DEF step, ch
      <3>1. QED
        BY <1>4 DEF IsFold
    <2>2. ch[s] = Next1(s) /\ Next1(s) \in S /\ it[s \ {Next1(s)}] \in Nat
      BY <1>1
    <2> HIDE DEF ch
    <2>3. QED
      BY <2>1, <2>2
  <1>6. it[{}] = 0
    BY <1>4 DEF IsFold
  <1>7. QED
    BY <1>5, <1>6 DEF AddsUp

\* It is the only one: two of them agree where both are defined.
LEMMA AddsUpUnique ==
    ASSUME NEW S, IsFiniteSet(S), NEW T, S \subseteq T, NEW f, NEW a, NEW b,
           AddsUp(a, f, S), AddsUp(b, f, T)
    PROVE  a[S] = b[S]
  <1> DEFINE P == {s \in SUBSET S : a[s] = b[s]}
  <1>1. /\ a[{}] = 0 /\ b[{}] = 0
        /\ \A s \in (SUBSET S) \ {{}} : a[s] = f[Next1(s)] + a[s \ {Next1(s)}]
        /\ \A s \in (SUBSET S) \ {{}} : b[s] = f[Next1(s)] + b[s \ {Next1(s)}]
    BY DEF AddsUp
  <1>2. {} \in P
    BY <1>1
  <1>3. ASSUME NEW s \in (SUBSET S) \ {{}}, \A x \in s : s \ {x} \in P
        PROVE  s \in P
    <2>1. Next1(s) \in s
      BY DEF Next1
    <2>2. a[s \ {Next1(s)}] = b[s \ {Next1(s)}]
      BY <1>3, <2>1
    <2>3. QED
      BY <1>1, <2>2
  <1>4. S \in P
    <2> HIDE DEF P
    <2>1. QED
      BY <1>2, <1>3, UpToSet
  <1>5. QED
    BY <1>4

\* The sum over S is the value at S of any such function on a larger set.
LEMMA SumIsAddsUp ==
    ASSUME NEW T, IsFiniteSet(T), NEW f, Counts(f, T), NEW S, S \subseteq T,
           NEW b, AddsUp(b, f, T)
    PROVE  SumFunctionOnSet(f, S) = b[S]
  <1> DEFINE it == CHOOSE it : AddsUp(it, f, S)
  <1>1. IsFiniteSet(S) /\ Counts(f, S)
    BY FS_Subset DEF Counts
  <1>2. AddsUp(it, f, S)
    BY <1>1, AddsUpExists
  <1>3. SumFunctionOnSet(f, S) = it[S]
    BY DEF SumFunctionOnSet, FoldFunctionOnSet, MapThenFoldSet, AddsUp, Next1
  <1>4. it[S] = b[S]
    <2> HIDE DEF it
    <2>1. QED
      BY <1>1, <1>2, AddsUpUnique
  <1>5. QED
    BY <1>3, <1>4

\* A sum of naturals is a natural.
LEMMA SumNat ==
    ASSUME NEW S, IsFiniteSet(S), NEW f, Counts(f, S)
    PROVE  SumFunctionOnSet(f, S) \in Nat
  <1>1. PICK b \in [SUBSET S -> Nat] : AddsUp(b, f, S)
    BY AddsUpExists
  <1>2. QED
    BY <1>1, SumIsAddsUp

\* Nothing adds up to 0.
LEMMA SumEmpty ==
    ASSUME NEW f
    PROVE  SumFunctionOnSet(f, {}) = 0
  <1>1. IsFiniteSet({}) /\ Counts(f, {})
    BY FS_EmptySet DEF Counts
  <1>2. PICK b \in [SUBSET {} -> Nat] : AddsUp(b, f, {})
    BY <1>1, AddsUpExists
  <1>3. b[{}] = 0
    BY <1>2 DEF AddsUp
  <1>4. QED
    BY <1>1, <1>2, <1>3, SumIsAddsUp

\* The element a sum begins with can be taken out.
LEMMA SumNext1 ==
    ASSUME NEW S, IsFiniteSet(S), NEW f, Counts(f, S), S # {}
    PROVE  SumFunctionOnSet(f, S) = f[Next1(S)] + SumFunctionOnSet(f, S \ {Next1(S)})
  <1>1. PICK b \in [SUBSET S -> Nat] : AddsUp(b, f, S)
    BY AddsUpExists
  <1>2. b[S] = f[Next1(S)] + b[S \ {Next1(S)}]
    BY <1>1 DEF AddsUp
  <1>3. SumFunctionOnSet(f, S) = b[S]
    BY <1>1, SumIsAddsUp
  <1>4. SumFunctionOnSet(f, S \ {Next1(S)}) = b[S \ {Next1(S)}]
    BY <1>1, SumIsAddsUp
  <1>5. QED
    BY <1>2, <1>3, <1>4

\* Any element can be taken out of a sum.
LEMMA SumRemove ==
    ASSUME NEW S, IsFiniteSet(S), NEW f, Counts(f, S), NEW x \in S
    PROVE  SumFunctionOnSet(f, S) = f[x] + SumFunctionOnSet(f, S \ {x})
  <1> DEFINE Sm(s) == SumFunctionOnSet(f, s)
             P == {s \in SUBSET S : \A y \in s : Sm(s) = f[y] + Sm(s \ {y})}
  <1>1. \A s \in SUBSET S : IsFiniteSet(s) /\ Counts(f, s)
    BY FS_Subset DEF Counts
  <1>2. \A s \in SUBSET S : Sm(s) \in Nat
    BY <1>1, SumNat
  <1>3. {} \in P
    OBVIOUS
  <1>4. ASSUME NEW s \in (SUBSET S) \ {{}}, \A y \in s : s \ {y} \in P
        PROVE  s \in P
    <2> DEFINE c == Next1(s)
    <2>1. c \in s
      BY DEF Next1
    <2>2. Sm(s) = f[c] + Sm(s \ {c})
      BY <1>1, SumNext1
    <2>3. ASSUME NEW y \in s
          PROVE  Sm(s) = f[y] + Sm(s \ {y})
      <3> HIDE DEF c, Sm
      <3>1. CASE y = c
        BY <2>2, <3>1
      <3>2. CASE y # c
        <4> DEFINE u == (s \ {c}) \ {y}
                   sc == s \ {c}
                   sy == s \ {y}
        <4>1. u = sy \ {c} /\ u = sc \ {y} /\ u \in SUBSET S /\ y \in sc /\ c \in sy
          BY <2>1, <3>2
        <4>2. sc \in P /\ sy \in P
          BY <1>4, <2>1
        <4>3. Sm(sc) = f[y] + Sm(u)
          <5> HIDE DEF u, sc, sy
          <5>1. QED
            BY <4>1, <4>2
        <4>4. Sm(sy) = f[c] + Sm(u)
          <5> HIDE DEF u, sc, sy
          <5>1. QED
            BY <4>1, <4>2
        <4>5. f[c] \in Nat /\ f[y] \in Nat
          BY <2>1 DEF Counts
        <4>6. Sm(s) = f[c] + Sm(sc)
          BY <2>2
        <4> HIDE DEF u, sc
        <4>7. Sm(u) \in Nat
          BY <1>2, <4>1
        <4>8. Sm(s) = f[y] + Sm(sy)
          <5> HIDE DEF sy
          <5>1. QED
            BY <4>3, <4>4, <4>5, <4>6, <4>7
        <4>9. QED
          BY <4>8
      <3>3. QED
        BY <3>1, <3>2
    <2>4. QED
      BY <2>3
  <1>5. S \in P
    <2> HIDE DEF P
    <2>1. QED
      BY <1>3, <1>4, UpToSet
  <1>6. QED
    BY <1>5

\* The sum over s, x taken out, with the types arithmetic needs.
TakesOut(f, s, x) ==
    /\ SumFunctionOnSet(f, s) = f[x] + SumFunctionOnSet(f, s \ {x})
    /\ f[x] \in Nat /\ SumFunctionOnSet(f, s \ {x}) \in Nat

\* The same for the subsets of a set.
LEMMA SumStep ==
    ASSUME NEW S, IsFiniteSet(S), NEW f, Counts(f, S), NEW s \in SUBSET S, NEW x \in s
    PROVE  TakesOut(f, s, x)
  <1>1. IsFiniteSet(s) /\ Counts(f, s) /\ IsFiniteSet(s \ {x}) /\ Counts(f, s \ {x})
    BY FS_Subset DEF Counts
  <1>2. SumFunctionOnSet(f, s) = f[x] + SumFunctionOnSet(f, s \ {x})
    BY <1>1, SumRemove
  <1>3. SumFunctionOnSet(f, s \ {x}) \in Nat
    BY <1>1, SumNat
  <1>4. QED
    BY <1>2, <1>3 DEF Counts, TakesOut

\* A larger function has the larger sum.
LEMMA SumMonotone ==
    ASSUME NEW S, IsFiniteSet(S), NEW f, NEW g, Counts(f, S), Counts(g, S),
           \A x \in S : f[x] <= g[x]
    PROVE  SumFunctionOnSet(f, S) <= SumFunctionOnSet(g, S)
  <1> DEFINE P == {s \in SUBSET S : SumFunctionOnSet(f, s) <= SumFunctionOnSet(g, s)}
  <1>1. {} \in P
    BY SumEmpty
  <1>2. ASSUME NEW s \in (SUBSET S) \ {{}}, \A y \in s : s \ {y} \in P
        PROVE  s \in P
    <2>1. PICK x : x \in s
      OBVIOUS
    <2> DEFINE r == s \ {x}
    <2>2. SumFunctionOnSet(f, r) <= SumFunctionOnSet(g, r)
      BY <1>2, <2>1
    <2>3. f[x] <= g[x]
      BY <2>1
    <2>4. /\ SumFunctionOnSet(f, s) = f[x] + SumFunctionOnSet(f, r)
          /\ f[x] \in Nat /\ SumFunctionOnSet(f, r) \in Nat
      <3>1. TakesOut(f, s, x)
        BY <2>1, SumStep
      <3>2. QED
        BY <3>1 DEF TakesOut
    <2>5. /\ SumFunctionOnSet(g, s) = g[x] + SumFunctionOnSet(g, r)
          /\ g[x] \in Nat /\ SumFunctionOnSet(g, r) \in Nat
      <3>1. TakesOut(g, s, x)
        BY <2>1, SumStep
      <3>2. QED
        BY <3>1 DEF TakesOut
    <2>6. SumFunctionOnSet(f, s) <= SumFunctionOnSet(g, s)
      <3> HIDE DEF r
      <3>1. QED
        BY <2>2, <2>3, <2>4, <2>5
    <2>7. QED
      BY <2>6
  <1>3. S \in P
    <2> HIDE DEF P
    <2>1. QED
      BY <1>1, <1>2, UpToSet
  <1>4. QED
    BY <1>3

\* The sum over a union of two sets without a common element.
LEMMA SumUnion ==
    ASSUME NEW A, NEW B, IsFiniteSet(A), IsFiniteSet(B), A \cap B = {},
           NEW f, Counts(f, A), Counts(f, B)
    PROVE  SumFunctionOnSet(f, A \cup B) = SumFunctionOnSet(f, A) + SumFunctionOnSet(f, B)
  <1> DEFINE P == {s \in SUBSET A :
        SumFunctionOnSet(f, s \cup B) = SumFunctionOnSet(f, s) + SumFunctionOnSet(f, B)}
  <1>1. IsFiniteSet(A \cup B) /\ Counts(f, A \cup B)
    BY FS_Union DEF Counts
  <1>2. SumFunctionOnSet(f, B) \in Nat
    BY SumNat
  <1>3. {} \in P
    <2>1. {} \cup B = B
      OBVIOUS
    <2>2. SumFunctionOnSet(f, {}) = 0
      BY SumEmpty
    <2>3. QED
      BY <1>2, <2>1, <2>2
  <1>4. ASSUME NEW s \in (SUBSET A) \ {{}}, \A y \in s : s \ {y} \in P
        PROVE  s \in P
    <2>1. PICK x : x \in s
      OBVIOUS
    <2> DEFINE r == s \ {x}
               u == s \cup B
               v == r \cup B
    <2>2. SumFunctionOnSet(f, v) = SumFunctionOnSet(f, r) + SumFunctionOnSet(f, B)
      BY <1>4, <2>1
    <2>3. u \in SUBSET (A \cup B) /\ x \in u /\ v = u \ {x}
      BY <2>1
    <2>4. SumFunctionOnSet(f, u) = f[x] + SumFunctionOnSet(f, v)
      <3>1. TakesOut(f, u, x)
        <4> HIDE DEF u, v
        <4>1. QED
          BY <1>1, <2>3, SumStep
      <3> HIDE DEF u, v
      <3>2. QED
        BY <2>3, <3>1 DEF TakesOut
    <2>5. /\ SumFunctionOnSet(f, s) = f[x] + SumFunctionOnSet(f, r)
          /\ f[x] \in Nat /\ SumFunctionOnSet(f, r) \in Nat
      <3>1. TakesOut(f, s, x)
        BY <2>1, SumStep
      <3>2. QED
        BY <3>1 DEF TakesOut
    <2>6. SumFunctionOnSet(f, u) = SumFunctionOnSet(f, s) + SumFunctionOnSet(f, B)
      <3> HIDE DEF r, u, v
      <3>1. QED
        BY <1>2, <2>2, <2>4, <2>5
    <2>7. QED
      BY <2>6
  <1>5. A \in P
    <2> HIDE DEF P
    <2>1. QED
      BY <1>3, <1>4, UpToSet
  <1>6. QED
    BY <1>5

\* A larger set has the larger sum.
LEMMA SumSubset ==
    ASSUME NEW S, IsFiniteSet(S), NEW f, Counts(f, S), NEW s \in SUBSET S
    PROVE  SumFunctionOnSet(f, s) <= SumFunctionOnSet(f, S)
  <1> DEFINE rest == S \ s
  <1>1. IsFiniteSet(s) /\ IsFiniteSet(rest) /\ s \cap rest = {} /\ s \cup rest = S
    BY FS_Subset
  <1>2. Counts(f, s) /\ Counts(f, rest)
    BY DEF Counts
  <1> HIDE DEF rest
  <1>3. SumFunctionOnSet(f, s) \in Nat /\ SumFunctionOnSet(f, rest) \in Nat
    BY <1>1, <1>2, SumNat
  <1>4. SumFunctionOnSet(f, s \cup rest) = SumFunctionOnSet(f, s) + SumFunctionOnSet(f, rest)
    BY <1>1, <1>2, SumUnion
  <1> DEFINE all == s \cup rest
  <1>5. all = S
    BY <1>1
  <1>6. SumFunctionOnSet(f, all) = SumFunctionOnSet(f, s) + SumFunctionOnSet(f, rest)
    BY <1>4
  <1> HIDE DEF all
  <1>7. QED
    BY <1>3, <1>5, <1>6

\* Every x in M has a part of Q to itself, and g[x] exceeds h[x] by no more
\* than w adds up to over that part.
Covered(M, g, h, part, w, Q) ==
    /\ part \in [M -> SUBSET Q]
    /\ \A x, y \in M : x # y => part[x] \cap part[y] = {}
    /\ \A x \in M : g[x] <= h[x] + SumFunctionOnSet(w, part[x])

\* Then g exceeds h by no more than w over all of Q: double counting.
LEMMA SumParts ==
    ASSUME NEW M, IsFiniteSet(M), NEW g, NEW h, Counts(g, M), Counts(h, M),
           NEW Q, IsFiniteSet(Q), NEW w, Counts(w, Q),
           NEW part, Covered(M, g, h, part, w, Q)
    PROVE  SumFunctionOnSet(g, M) <= SumFunctionOnSet(h, M) + SumFunctionOnSet(w, Q)
  <1> DEFINE U(s) == UNION {part[x] : x \in s}
             Bound(s) == SumFunctionOnSet(g, s) <= SumFunctionOnSet(h, s) + SumFunctionOnSet(w, U(s))
             P == {s \in SUBSET M : Bound(s)}
  <1>1. \A s \in SUBSET M : U(s) \in SUBSET Q
    BY DEF Covered
  <1>2. \A q \in SUBSET Q : IsFiniteSet(q) /\ Counts(w, q) /\ SumFunctionOnSet(w, q) \in Nat
    <2>1. \A q \in SUBSET Q : IsFiniteSet(q) /\ Counts(w, q)
      BY FS_Subset DEF Counts
    <2>2. QED
      BY <2>1, SumNat
  <1>3. {} \in P
    <2>1. U({}) = {}
      OBVIOUS
    <2>2. Bound({})
      <3> HIDE DEF U
      <3>1. QED
        BY <2>1, SumEmpty
    <2>3. QED
      BY <2>2
  <1>4. ASSUME NEW s \in (SUBSET M) \ {{}}, \A y \in s : s \ {y} \in P
        PROVE  s \in P
    <2>1. PICK x : x \in s
      OBVIOUS
    <2> DEFINE r == s \ {x}
               px == part[x]
               ur == U(r)
               us == U(s)
    <2>2. Bound(r)
      <3> HIDE DEF Bound
      <3>1. QED
        BY <1>4, <2>1
    <2>3. us = px \cup ur
      BY <2>1
    <2>4. px \cap ur = {}
      BY <2>1 DEF Covered
    <2>5. px \in SUBSET Q /\ ur \in SUBSET Q
      BY <1>1, <2>1 DEF Covered
    <2>6. g[x] <= h[x] + SumFunctionOnSet(w, px)
      BY <2>1 DEF Covered
    <2>7. /\ SumFunctionOnSet(g, s) = g[x] + SumFunctionOnSet(g, r)
          /\ g[x] \in Nat /\ SumFunctionOnSet(g, r) \in Nat
      <3>1. TakesOut(g, s, x)
        BY <2>1, SumStep
      <3>2. QED
        BY <3>1 DEF TakesOut
    <2>8. /\ SumFunctionOnSet(h, s) = h[x] + SumFunctionOnSet(h, r)
          /\ h[x] \in Nat /\ SumFunctionOnSet(h, r) \in Nat
      <3>1. TakesOut(h, s, x)
        BY <2>1, SumStep
      <3>2. QED
        BY <3>1 DEF TakesOut
    <2>9. SumFunctionOnSet(g, r) <= SumFunctionOnSet(h, r) + SumFunctionOnSet(w, ur)
      BY <2>2
    <2> HIDE DEF px, ur, us, r
    <2>10. SumFunctionOnSet(w, px) \in Nat /\ SumFunctionOnSet(w, ur) \in Nat
      BY <1>2, <2>5
    <2>11. SumFunctionOnSet(w, us) = SumFunctionOnSet(w, px) + SumFunctionOnSet(w, ur)
      <3>1. SumFunctionOnSet(w, px \cup ur) = SumFunctionOnSet(w, px) + SumFunctionOnSet(w, ur)
        BY <1>2, <2>4, <2>5, SumUnion
      <3>2. QED
        BY <2>3, <3>1
    <2>12. SumFunctionOnSet(g, s) <= SumFunctionOnSet(h, s) + SumFunctionOnSet(w, us)
      BY <2>6, <2>7, <2>8, <2>9, <2>10, <2>11
    <2>13. Bound(s)
      BY <2>12 DEF us
    <2> HIDE DEF Bound
    <2>14. QED
      BY <2>13
  <1>5. M \in P
    <2> HIDE DEF P
    <2>1. QED
      BY <1>3, <1>4, UpToSet
  <1>6. SumFunctionOnSet(w, U(M)) <= SumFunctionOnSet(w, Q)
    <2>1. U(M) \in SUBSET Q
      BY <1>1
    <2> HIDE DEF U
    <2>2. QED
      BY <2>1, SumSubset
  <1>7. Bound(M)
    <2> HIDE DEF Bound
    <2>1. QED
      BY <1>5
  <1>8. SumFunctionOnSet(w, U(M)) \in Nat /\ SumFunctionOnSet(w, Q) \in Nat
    <2>1. U(M) \in SUBSET Q
      BY <1>1
    <2> HIDE DEF U
    <2>2. QED
      BY <1>2, <2>1
  <1>9. SumFunctionOnSet(g, M) \in Nat /\ SumFunctionOnSet(h, M) \in Nat
    BY SumNat
  <1> HIDE DEF U
  <1>10. QED
    BY <1>6, <1>7, <1>8, <1>9

(***************************************************************************)
(* The child cluster                                                       *)
(***************************************************************************)
\* What every reachable cluster satisfies: GPU counts are naturals, a node
\* advertises only what it carries, a pod is on a node or on none.
WellFormed ==
    /\ alloc \in [Nodes -> [Resources -> Nat]]
    /\ \A n \in Nodes : \A r \in Resources \ Carries[n] : alloc[n][r] = 0
    /\ pod \in [Pods -> [node : Nodes \cup {NoNode}, phase : {"Pending", "Running", "Done"}]]

\* No node mixes vendors.
OneVendor == \A n \in Nodes : \A r1, r2 \in Carries[n] : r1 = r2

\* Every step of the cluster keeps it well formed.
LEMMA WellFormedStep ==
    ASSUME WellFormed, [Next]_vars
    PROVE  WellFormed'
  <1> USE ClusterAssumption
  <1>1. ASSUME NEW n \in Nodes, DevicePlugin(n)
        PROVE  WellFormed'
    <2>1. PICK r \in Carries[n], c \in 0 .. MaxGpus : alloc' = [alloc EXCEPT ![n][r] = c]
      BY <1>1 DEF DevicePlugin
    <2>2. r \in Resources /\ c \in Nat
      OBVIOUS
    <2>3. alloc' \in [Nodes -> [Resources -> Nat]]
      BY <2>1, <2>2 DEF WellFormed
    <2>4. ASSUME NEW m \in Nodes, NEW q \in Resources \ Carries[m]
          PROVE  alloc'[m][q] = 0
      BY <2>1, <2>2 DEF WellFormed
    <2>5. pod' = pod
      BY <1>1 DEF DevicePlugin
    <2>6. QED
      BY <2>3, <2>4, <2>5 DEF WellFormed
  <1>2. ASSUME NEW n \in Nodes, Relabel(n) \/ Cordon(n)
        PROVE  WellFormed'
    BY <1>2 DEF Relabel, Cordon, WellFormed
  <1>3. ASSUME NEW p \in Pods, Run(p) \/ Finish(p) \/ Remove(p)
        PROVE  WellFormed'
    <2>1. alloc' = alloc
      BY <1>3 DEF Run, Finish, Remove
    <2>2. pod' \in [Pods -> [node : Nodes \cup {NoNode}, phase : {"Pending", "Running", "Done"}]]
      <3>1. CASE Run(p)
        BY <3>1 DEF Run, WellFormed
      <3>2. CASE Finish(p)
        BY <3>2 DEF Finish, WellFormed
      <3>3. CASE Remove(p)
        BY <3>3 DEF Remove, WellFormed
      <3>4. QED
        BY <1>3, <3>1, <3>2, <3>3
    <2>3. QED
      BY <2>1, <2>2 DEF WellFormed
  <1>4. ASSUME NEW p \in Pods, NEW n \in Nodes, Bind(p, n)
        PROVE  WellFormed'
    BY <1>4 DEF Bind, WellFormed
  <1>5. CASE UNCHANGED vars
    BY <1>5 DEF vars, WellFormed
  <1>6. QED
    BY <1>1, <1>2, <1>3, <1>4, <1>5 DEF Next

\* Every reachable cluster is well formed.
THEOREM WellFormedHolds == Spec => []WellFormed
  <1>1. Init => WellFormed
    BY ClusterAssumption DEF Init, WellFormed
  <1>2. WellFormed /\ [Next]_vars => WellFormed'
    BY WellFormedStep
  <1>3. QED
    BY <1>1, <1>2, PTL DEF Spec

\* Sums over nodes and their resources, and over pods, are finite sums of naturals.
LEMMA FiniteCluster ==
    /\ IsFiniteSet(Resources) /\ IsFiniteSet(Nodes \X Resources)
    /\ \A s \in SUBSET (Nodes \X Resources) : IsFiniteSet(s)
    /\ \A s \in SUBSET Nodes : IsFiniteSet(s)
    /\ \A s \in SUBSET Resources : IsFiniteSet(s)
    /\ \A s \in SUBSET Pods : IsFiniteSet(s) /\ Counts(PodGpus, s)
  <1>1. IsFiniteSet({"nvidia.com/gpu"})
    BY FS_Singleton
  <1>2. IsFiniteSet({"nvidia.com/gpu"} \cup {"amd.com/gpu"})
    BY <1>1, FS_AddElement
  <1>3. IsFiniteSet(Resources)
    <2>1. Resources = {"nvidia.com/gpu"} \cup {"amd.com/gpu"}
      BY DEF Resources
    <2>2. QED
      BY <1>2, <2>1
  <1>4. IsFiniteSet(Nodes) /\ IsFiniteSet(Pods) /\ PodGpus \in [Pods -> Nat]
    BY ClusterAssumption
  <1>5. IsFiniteSet(Nodes \X Resources)
    BY <1>3, <1>4, FS_Product
  <1>6. \A s \in SUBSET Pods : Counts(PodGpus, s)
    BY <1>4 DEF Counts
  <1>7. QED
    BY <1>3, <1>4, <1>5, <1>6, FS_Subset

\* The pods that hold GPUs of a kind on a node.
Holders(n, r) == {p \in Pods : PodRes[p] = r /\ pod[p].node = n /\ pod[p].phase # "Done"}

\* What a node advertises is free or held by its pods.
LEMMA FreeOrHeld ==
    ASSUME WellFormed, NEW n \in Nodes, NEW r \in Resources
    PROVE  /\ alloc[n][r] \in Nat /\ FreeOn(n, r) \in Nat
           /\ SumFunctionOnSet(PodGpus, Holders(n, r)) \in Nat
           /\ alloc[n][r] <= FreeOn(n, r) + SumFunctionOnSet(PodGpus, Holders(n, r))
  <1> DEFINE held == SumFunctionOnSet(PodGpus, Holders(n, r))
  <1>1. IsFiniteSet(Holders(n, r)) /\ Counts(PodGpus, Holders(n, r))
    <2>1. Holders(n, r) \in SUBSET Pods
      BY DEF Holders
    <2>2. QED
      BY <2>1, FiniteCluster
  <1>2. held \in Nat
    BY <1>1, SumNat
  <1>3. alloc[n][r] \in Nat
    BY DEF WellFormed
  <1>4. FreeOn(n, r) = IF held >= alloc[n][r] THEN 0 ELSE alloc[n][r] - held
    BY DEF FreeOn, Holders
  <1> HIDE DEF held
  <1>5. FreeOn(n, r) \in Nat /\ alloc[n][r] <= FreeOn(n, r) + held
    BY <1>2, <1>3, <1>4
  <1>6. QED
    BY <1>2, <1>3, <1>5 DEF held

\* Advertised and free GPUs are counts.
LEMMA ClusterCounts ==
    ASSUME WellFormed, NEW s \in SUBSET (Nodes \X Resources)
    PROVE  Counts(Advertised, s) /\ Counts(Free, s) /\ IsFiniteSet(s)
  <1>1. ASSUME NEW nr \in s
        PROVE  Advertised[nr] \in Nat /\ Free[nr] \in Nat
    <2>1. nr[1] \in Nodes /\ nr[2] \in Resources /\ nr \in Nodes \X Resources
      OBVIOUS
    <2>2. alloc[nr[1]][nr[2]] \in Nat /\ FreeOn(nr[1], nr[2]) \in Nat
      BY <2>1, FreeOrHeld
    <2>3. QED
      BY <2>1, <2>2 DEF Advertised, Free
  <1>2. IsFiniteSet(s)
    BY FiniteCluster
  <1>3. QED
    BY <1>1, <1>2 DEF Counts

(***************************************************************************)
(* The gate                                                                *)
(***************************************************************************)
\* The selector published for a node matches that node.
LEMMA SelectorMatches ==
    ASSUME NEW n, NEW keys, ResolveSelector(n, keys) # NoSelector
    PROVE  Matches(n, ResolveSelector(n, keys))
  <1> DEFINE k1 == keys[Min({i \in DOMAIN keys : labels[n][keys[i]] # ""})]
  <1>1. \/ ResolveSelector(n, keys) = Label("gpu-model", labels[n]["gpu-model"])
        \/ ResolveSelector(n, keys) = Label(k1, labels[n][k1])
    BY DEF ResolveSelector
  <1> HIDE DEF k1
  <1>2. \A k : Matches(n, Label(k, labels[n][k]))
    BY DEF Matches, Label
  <1>3. QED
    BY <1>1, <1>2

\* An offering can be asked for: its nodes are among those its selector finds.
LEMMA OfferingGated ==
    ASSUME WellFormed, NEW o \in Offerings, o.selector # NoSelector
    PROVE  Found(o.selector) /\ TotalGpus(o.selector) >= OfferingTotal(o)
  <1> DEFINE M == Matched(o.selector)
             own == {nr \in Advertising : Identity(nr[1], nr[2]) = o}
  <1>1. M = {nr \in Advertising : Matches(nr[1], o.selector)}
    BY DEF Matched
  <1>2. own \subseteq M
    <2>1. SUFFICES ASSUME NEW nr \in own PROVE Matches(nr[1], o.selector)
      BY <1>1
    <2>2. Identity(nr[1], nr[2]) = o
      OBVIOUS
    <2> DEFINE keys == ProductLabels(VendorOf(nr[1], nr[2]))
    <2>3. o.selector = ResolveSelector(nr[1], keys)
      BY <2>2 DEF Identity
    <2> HIDE DEF keys
    <2>4. QED
      BY <2>3, SelectorMatches
  <1>3. own # {}
    BY DEF Offerings
  <1>4. M \in SUBSET (Nodes \X Resources)
    BY <1>1 DEF Advertising
  <1>5. Counts(Advertised, M) /\ IsFiniteSet(M) /\ Counts(Advertised, own) /\ IsFiniteSet(own)
    <2> HIDE DEF M, own
    <2>1. own \in SUBSET (Nodes \X Resources)
      BY <1>2, <1>4
    <2>2. QED
      BY <1>4, <2>1, ClusterCounts
  <1>6. OfferingTotal(o) = SumFunctionOnSet(Advertised, own)
    BY DEF OfferingTotal
  <1>7. TotalGpus(o.selector) = SumFunctionOnSet(Advertised, M)
    BY DEF TotalGpus
  <1>8. Found(o.selector)
    BY <1>2, <1>3 DEF Found
  <1> HIDE DEF M, own
  <1>9. SumFunctionOnSet(Advertised, own) <= SumFunctionOnSet(Advertised, M)
    BY <1>2, <1>5, SumSubset
  <1>10. SumFunctionOnSet(Advertised, own) \in Nat /\ SumFunctionOnSet(Advertised, M) \in Nat
    BY <1>5, SumNat
  <1>11. QED
    BY <1>6, <1>7, <1>8, <1>9, <1>10

\* Every advertised offering can be asked for, with at least the advertised
\* GPUs behind it, in every reachable cluster of any size.
THEOREM AdvertisedIsGatedHolds == Spec => []AdvertisedIsGated
  <1>1. WellFormed => AdvertisedIsGated
    BY OfferingGated DEF AdvertisedIsGated
  <1>2. QED
    BY <1>1, WellFormedHolds, PTL

\* On a node of one vendor the gate remembers the resource it matched.
LEMMA RemembersResource ==
    ASSUME WellFormed, OneVendor, NEW n \in Nodes, NEW r \in Resources, alloc[n][r] > 0
    PROVE  MatchedResource(n) = r
  <1>1. \A q \in Resources : alloc[n][q] \in Nat /\ (alloc[n][q] > 0 => q \in Carries[n])
    BY DEF WellFormed
  <1>2. r \in {"nvidia.com/gpu", "amd.com/gpu"} /\ "amd.com/gpu" \in Resources
    BY DEF Resources
  <1>3. \A q \in Resources : alloc[n][q] > 0 => q = r
    BY <1>1 DEF OneVendor
  <1>4. QED
    BY <1>2, <1>3 DEF MatchedResource

\* The pods that hold the GPUs of the nodes a selector finds.
Users(sel) ==
    {p \in Pods : /\ PodConsumes(p)
                  /\ pod[p].node \in {nr[1] : nr \in Matched(sel)}
                  /\ PodRes[p] = MatchedResource(pod[p].node)}

\* What nodes advertise is free on them or held by their pods, and no pod holds
\* GPUs of two kinds or on two nodes.
LEMMA HoldersCovered ==
    ASSUME WellFormed, NEW M \in SUBSET (Nodes \X Resources),
           NEW Q, \A nr \in M : Holders(nr[1], nr[2]) \subseteq Q
    PROVE  Covered(M, Advertised, Free, [nr \in M |-> Holders(nr[1], nr[2])], PodGpus, Q)
  <1> DEFINE part == [nr \in M |-> Holders(nr[1], nr[2])]
  <1>1. \A nr \in M : /\ nr[1] \in Nodes /\ nr[2] \in Resources /\ nr = <<nr[1], nr[2]>>
                      /\ nr \in Nodes \X Resources
    OBVIOUS
  <1>2. part \in [M -> SUBSET Q]
    OBVIOUS
  <1>3. ASSUME NEW x \in M, NEW y \in M, x # y
        PROVE  part[x] \cap part[y] = {}
    <2>1. x[1] # y[1] \/ x[2] # y[2]
      BY <1>1, <1>3
    <2>2. QED
      BY <2>1 DEF Holders
  <1>4. ASSUME NEW nr \in M
        PROVE  Advertised[nr] <= Free[nr] + SumFunctionOnSet(PodGpus, part[nr])
    <2>1. Advertised[nr] = alloc[nr[1]][nr[2]] /\ Free[nr] = FreeOn(nr[1], nr[2])
      BY <1>1 DEF Advertised, Free
    <2>2. alloc[nr[1]][nr[2]] <= FreeOn(nr[1], nr[2])
                                   + SumFunctionOnSet(PodGpus, Holders(nr[1], nr[2]))
      BY <1>1, FreeOrHeld
    <2>3. QED
      BY <2>1, <2>2
  <1> HIDE DEF part
  <1>5. Covered(M, Advertised, Free, part, PodGpus, Q)
    BY <1>2, <1>3, <1>4 DEF Covered
  <1>6. QED
    BY <1>5 DEF part

\* The pods that hold what a selector's nodes advertise are its users.
LEMMA SelectorHolders ==
    ASSUME WellFormed, OneVendor, NEW sel, NEW nr \in Matched(sel)
    PROVE  Holders(nr[1], nr[2]) \subseteq Users(sel)
  <1>1. nr \in Advertising
    BY DEF Matched
  <1>2. nr[1] \in Nodes /\ nr[2] \in Resources /\ alloc[nr[1]][nr[2]] > 0
    BY <1>1 DEF Advertising
  <1>3. MatchedResource(nr[1]) = nr[2]
    BY <1>2, RemembersResource
  <1>4. nr[1] # NoNode
    BY <1>2, ClusterAssumption
  <1>5. SUFFICES ASSUME NEW p \in Holders(nr[1], nr[2]) PROVE p \in Users(sel)
    OBVIOUS
  <1>6. p \in Pods /\ PodRes[p] = nr[2] /\ pod[p].node = nr[1] /\ pod[p].phase # "Done"
    BY DEF Holders
  <1>7. QED
    BY <1>3, <1>4, <1>6 DEF Users, PodConsumes

\* What the gate counts as free, the scheduler can place.
LEMMA GateBound ==
    ASSUME WellFormed, OneVendor, NEW sel
    PROVE  /\ FreeGpus(sel) \in Nat /\ PlaceableGpus(sel) \in Nat
           /\ FreeGpus(sel) <= PlaceableGpus(sel)
  <1> DEFINE M == Matched(sel)
             part == [nr \in M |-> Holders(nr[1], nr[2])]
             Q == Users(sel)
  <1>1. M \in SUBSET (Nodes \X Resources)
    BY DEF Matched, Advertising
  <1>2. Covered(M, Advertised, Free, part, PodGpus, Q)
    <2>1. \A nr \in M : Holders(nr[1], nr[2]) \subseteq Q
      BY SelectorHolders
    <2> HIDE DEF M, Q
    <2>2. QED
      BY <1>1, <2>1, HoldersCovered
  <1>3. Q \in SUBSET Pods
    BY DEF Users
  <1>4. TotalGpus(sel) = SumFunctionOnSet(Advertised, M)
    BY DEF TotalGpus
  <1>5. PlaceableGpus(sel) = SumFunctionOnSet(Free, M)
    BY DEF PlaceableGpus
  <1>6. UsedGpus(sel) = SumFunctionOnSet(PodGpus, Q)
    BY DEF UsedGpus, Users
  <1> HIDE DEF M, part, Q
  <1>7. Counts(Advertised, M) /\ Counts(Free, M) /\ IsFiniteSet(M)
    BY <1>1, ClusterCounts
  <1>8. IsFiniteSet(Q) /\ Counts(PodGpus, Q)
    BY <1>3, FiniteCluster
  <1>9. TotalGpus(sel) <= PlaceableGpus(sel) + UsedGpus(sel)
    BY <1>2, <1>4, <1>5, <1>6, <1>7, <1>8, SumParts
  <1>10. TotalGpus(sel) \in Nat /\ PlaceableGpus(sel) \in Nat /\ UsedGpus(sel) \in Nat
    BY <1>4, <1>5, <1>6, <1>7, <1>8, SumNat
  <1>11. QED
    BY <1>9, <1>10 DEF FreeGpus

\* Where no node mixes vendors, the gate never sees more free GPUs than the
\* scheduler does, whatever labels, devices, cordons and pods do.
THEOREM NeverOverReportsHolds ==
    ASSUME OneVendor
    PROVE  Spec => []NeverOverReports
  <1>1. WellFormed => NeverOverReports
    BY GateBound DEF NeverOverReports
  <1>2. QED
    BY <1>1, WellFormedHolds, PTL

\* A selector with one kind of GPU behind it is asked for by that kind.
LEMMA AskedKind ==
    ASSUME WellFormed, NEW sel, Found(sel), OneKind(sel), NEW nr \in Matched(sel)
    PROVE  nr[2] = ResourceName(sel)
  <1> DEFINE kinds == {x[2] : x \in Matched(sel)}
             numbers == {x[1] : x \in Matched(sel)}
  <1>1. Matched(sel) \in SUBSET (Nodes \X Resources)
    BY DEF Matched, Advertising
  <1>2. PICK r : kinds = {r}
    <2>1. Cardinality(kinds) = 1
      BY DEF OneKind
    <2>2. kinds \in SUBSET Resources
      BY <1>1
    <2> HIDE DEF kinds
    <2>3. IsFiniteSet(kinds)
      BY <2>2, FiniteCluster
    <2>4. QED
      BY <2>1, <2>3, FS_Singleton
  <1>3. Min(numbers) \in numbers
    <2>1. numbers \in SUBSET Nat /\ numbers # {}
      <3>1. Nodes \subseteq Nat
        BY ClusterAssumption
      <3>2. \A x \in Matched(sel) : x[1] \in Nodes
        BY <1>1
      <3>3. nr[1] \in numbers
        OBVIOUS
      <3>4. QED
        BY <3>1, <3>2, <3>3
    <2> HIDE DEF numbers
    <2>2. \E m \in numbers : \A k \in numbers : m <= k
      BY <2>1, LeastNumber
    <2>3. QED
      BY <2>2 DEF Min
  <1>4. PICK x \in Matched(sel) : x[1] = Min(numbers)
    BY <1>3
  <1>5. x[2] = r /\ nr[2] = r
    BY <1>2
  <1>6. x = <<x[1], x[2]>> /\ x[2] \in {"nvidia.com/gpu", "amd.com/gpu"}
    BY <1>1 DEF Resources
  <1>7. <<Min(numbers), r>> \in Matched(sel)
    BY <1>4, <1>5, <1>6
  <1>8. \A q : <<Min(numbers), q>> \in Matched(sel) => q = r
    <2>1. \A q : <<Min(numbers), q>> \in Matched(sel) => q \in kinds
      <3>1. SUFFICES ASSUME NEW q, <<Min(numbers), q>> \in Matched(sel) PROVE q \in kinds
        OBVIOUS
      <3>2. <<Min(numbers), q>>[2] = q
        OBVIOUS
      <3>3. QED
        BY <3>1, <3>2
    <2>2. QED
      BY <1>2, <2>1
  <1>9. ResourceName(sel) = IF <<Min(numbers), "nvidia.com/gpu">> \in Matched(sel)
                            THEN "nvidia.com/gpu" ELSE "amd.com/gpu"
    BY DEF ResourceName
  <1> HIDE DEF numbers, kinds
  <1>10. QED
    BY <1>5, <1>6, <1>7, <1>8, <1>9

\* Replicas of one GPU each fill what is free.
LEMMA FitsSingles ==
    ASSUME WellFormed, NEW sel, Found(sel), OneKind(sel)
    PROVE  Fit(sel, 1) \in Nat /\ PlaceableGpus(sel) <= Fit(sel, 1)
  <1> DEFINE M == Matched(sel)
             F == [nr \in Nodes \X Resources |-> Free[nr] \div 1]
  <1>1. M \in SUBSET (Nodes \X Resources)
    BY DEF Matched, Advertising
  <1>2. {nr \in M : nr[2] = ResourceName(sel)} = M
    BY AskedKind
  <1>3. Fit(sel, 1) = SumFunctionOnSet(F, M)
    BY <1>2 DEF Fit
  <1>4. PlaceableGpus(sel) = SumFunctionOnSet(Free, M)
    BY DEF PlaceableGpus
  <1> HIDE DEF M
  <1>5. Counts(Free, M) /\ IsFiniteSet(M)
    BY <1>1, ClusterCounts
  <1>6. \A nr \in M : F[nr] = Free[nr] /\ Free[nr] \in Nat
    BY <1>1, <1>5 DEF Counts
  <1> HIDE DEF F
  <1>7. Counts(F, M) /\ \A nr \in M : Free[nr] <= F[nr]
    BY <1>6 DEF Counts
  <1>8. SumFunctionOnSet(F, M) \in Nat
    BY <1>5, <1>7, SumNat
  <1>9. SumFunctionOnSet(Free, M) <= SumFunctionOnSet(F, M)
    BY <1>5, <1>7, SumMonotone
  <1>10. QED
    BY <1>3, <1>4, <1>8, <1>9

\* Where no node mixes vendors, replicas of one GPU that pass the gate can all
\* be placed on a selector with one kind of GPU behind it.
THEOREM SingleGpuPlaceableHolds ==
    ASSUME OneVendor
    PROVE  Spec => []SingleGpuPlaceable
  <1>1. ASSUME WellFormed, NEW sel \in Published, NEW replicas \in 1 .. MaxReplicas,
               OneKind(sel), PassesGate(sel, replicas, 1)
        PROVE  replicas <= Fit(sel, 1)
    <2>1. Found(sel) /\ replicas * 1 <= FreeGpus(sel)
      BY <1>1 DEF PassesGate, GpuDemand
    <2>2. /\ FreeGpus(sel) \in Nat /\ PlaceableGpus(sel) \in Nat
          /\ FreeGpus(sel) <= PlaceableGpus(sel)
      BY <1>1, GateBound
    <2>3. Fit(sel, 1) \in Nat /\ PlaceableGpus(sel) <= Fit(sel, 1)
      BY <1>1, <2>1, FitsSingles
    <2>4. QED
      BY <2>1, <2>2, <2>3
  <1>2. WellFormed => SingleGpuPlaceable
    BY <1>1 DEF SingleGpuPlaceable
  <1>3. QED
    BY <1>2, WellFormedHolds, PTL

(***************************************************************************)
(* Feasibility                                                             *)
(***************************************************************************)
\* The sum over one element.
LEMMA SumSingle ==
    ASSUME NEW f, NEW x, f[x] \in Nat
    PROVE  SumFunctionOnSet(f, {x}) = f[x]
  <1>1. IsFiniteSet({x}) /\ Counts(f, {x})
    BY FS_Singleton DEF Counts
  <1>2. SumFunctionOnSet(f, {x}) = f[x] + SumFunctionOnSet(f, {x} \ {x})
    BY <1>1, SumRemove
  <1> DEFINE none == {x} \ {x}
  <1>3. none = {}
    OBVIOUS
  <1>4. SumFunctionOnSet(f, {x}) = f[x] + SumFunctionOnSet(f, none)
    BY <1>2
  <1> HIDE DEF none
  <1>5. SumFunctionOnSet(f, none) = 0
    BY <1>3, SumEmpty
  <1>6. QED
    BY <1>4, <1>5

\* Nothing to subtract.
Zero(S) == [x \in S |-> 0]

\* It adds up to nothing.
LEMMA SumZero ==
    ASSUME NEW S, IsFiniteSet(S)
    PROVE  Counts(Zero(S), S) /\ SumFunctionOnSet(Zero(S), S) = 0
  <1> DEFINE z == Zero(S)
             P == {s \in SUBSET S : SumFunctionOnSet(z, s) = 0}
  <1>1. Counts(z, S) /\ \A x \in S : z[x] = 0
    BY DEF Counts, Zero
  <1> HIDE DEF z
  <1>2. {} \in P
    BY SumEmpty
  <1>3. ASSUME NEW s \in (SUBSET S) \ {{}}, \A y \in s : s \ {y} \in P
        PROVE  s \in P
    <2>1. PICK x : x \in s
      OBVIOUS
    <2>2. TakesOut(z, s, x)
      BY <1>1, <2>1, SumStep
    <2>3. z[x] = 0 /\ SumFunctionOnSet(z, s \ {x}) = 0
      BY <1>1, <1>3, <2>1
    <2>4. SumFunctionOnSet(z, s) = 0
      BY <2>2, <2>3 DEF TakesOut
    <2>5. QED
      BY <2>4
  <1>4. S \in P
    <2> HIDE DEF P
    <2>1. QED
      BY <1>2, <1>3, UpToSet
  <1>5. QED
    BY <1>1, <1>4 DEF z

\* A function whose values are covered by parts of Q adds up to no more than w over Q.
LEMMA SumCovered ==
    ASSUME NEW M, IsFiniteSet(M), NEW g, Counts(g, M),
           NEW Q, IsFiniteSet(Q), NEW w, Counts(w, Q),
           NEW part, Covered(M, g, Zero(M), part, w, Q)
    PROVE  SumFunctionOnSet(g, M) <= SumFunctionOnSet(w, Q)
  <1>1. Counts(Zero(M), M) /\ SumFunctionOnSet(Zero(M), M) = 0
    BY SumZero
  <1>2. SumFunctionOnSet(g, M) <= SumFunctionOnSet(Zero(M), M) + SumFunctionOnSet(w, Q)
    BY <1>1, SumParts
  <1>3. SumFunctionOnSet(g, M) \in Nat /\ SumFunctionOnSet(w, Q) \in Nat
    BY SumNat
  <1>4. QED
    BY <1>1, <1>2, <1>3

\* The resources of a vendor on a node, as pairs.
OnNode(n, R) == {nr \in Nodes \X Resources : nr[1] = n /\ nr[2] \in R}

\* What a node advertises of them, counted pair by pair.
LEMMA NodeByPairs ==
    ASSUME WellFormed, NEW n \in Nodes, NEW R \in SUBSET Resources
    PROVE  /\ SumFunctionOnSet(alloc[n], R) \in Nat
           /\ SumFunctionOnSet(alloc[n], R) <= SumFunctionOnSet(Advertised, OnNode(n, R))
  <1> DEFINE part == [r \in R |-> {<<n, r>>}]
             Q == OnNode(n, R)
  <1>1. IsFiniteSet(R) /\ Counts(alloc[n], R)
    BY FiniteCluster DEF Counts, WellFormed
  <1>2. Counts(Advertised, Q) /\ IsFiniteSet(Q)
    <2>1. Q \in SUBSET (Nodes \X Resources)
      BY DEF OnNode
    <2> HIDE DEF Q
    <2>2. QED
      BY <2>1, ClusterCounts
  <1>3. part \in [R -> SUBSET Q]
    BY DEF OnNode
  <1>4. \A x, y \in R : x # y => part[x] \cap part[y] = {}
    OBVIOUS
  <1>5. ASSUME NEW r \in R
        PROVE  alloc[n][r] <= Zero(R)[r] + SumFunctionOnSet(Advertised, part[r])
    <2>1. Advertised[<<n, r>>] = alloc[n][r] /\ alloc[n][r] \in Nat
      BY DEF Advertised, WellFormed
    <2>2. SumFunctionOnSet(Advertised, {<<n, r>>}) = alloc[n][r]
      BY <2>1, SumSingle
    <2>3. part[r] = {<<n, r>>} /\ Zero(R)[r] = 0
      BY DEF Zero
    <2> HIDE DEF part
    <2>4. QED
      BY <2>1, <2>2, <2>3
  <1> HIDE DEF part, Q
  <1>6. Covered(R, alloc[n], Zero(R), part, Advertised, Q)
    BY <1>3, <1>4, <1>5 DEF Covered
  <1>7. SumFunctionOnSet(alloc[n], R) <= SumFunctionOnSet(Advertised, Q)
    BY <1>1, <1>2, <1>6, SumCovered
  <1>8. SumFunctionOnSet(alloc[n], R) \in Nat
    BY <1>1, SumNat
  <1>9. QED
    BY <1>7, <1>8 DEF Q

\* What a set of nodes advertises of a vendor, counted pair by pair.
LEMMA NodesByPairs ==
    ASSUME WellFormed, NEW M \in SUBSET Nodes, NEW vendor
    PROVE  LET G == [n \in Nodes |-> NodeGpus(n, vendor)]
               pairs == {nr \in Nodes \X Resources : nr[1] \in M /\ nr[2] \in VendorResources(vendor)}
           IN  /\ SumFunctionOnSet(G, M) \in Nat
               /\ SumFunctionOnSet(G, M) <= SumFunctionOnSet(Advertised, pairs)
  <1> DEFINE R == VendorResources(vendor)
             G == [n \in Nodes |-> NodeGpus(n, vendor)]
             Q == {nr \in Nodes \X Resources : nr[1] \in M /\ nr[2] \in R}
             part == [n \in M |-> OnNode(n, R)]
  <1>1. R \in SUBSET Resources
    BY DEF VendorResources
  <1>2. \A n \in Nodes : G[n] = SumFunctionOnSet(alloc[n], R)
    BY DEF NodeGpus
  <1>3. Q \in SUBSET (Nodes \X Resources)
    OBVIOUS
  <1>4. part \in [M -> SUBSET Q]
    BY DEF OnNode
  <1>5. \A x, y \in M : x # y => part[x] \cap part[y] = {}
    BY DEF OnNode
  <1>6. \A n \in M : part[n] = OnNode(n, R) /\ Zero(M)[n] = 0
    BY DEF Zero
  <1> HIDE DEF R, G, Q, part
  <1>7. \A n \in M : G[n] \in Nat /\ G[n] <= SumFunctionOnSet(Advertised, part[n])
    BY <1>1, <1>2, <1>6, NodeByPairs
  <1>8. \A n \in M : SumFunctionOnSet(Advertised, part[n]) \in Nat
    <2>1. ASSUME NEW n \in M
          PROVE  IsFiniteSet(part[n]) /\ Counts(Advertised, part[n])
      <3>1. part[n] \in SUBSET (Nodes \X Resources)
        BY <1>3, <1>4
      <3>2. QED
        BY <3>1, ClusterCounts
    <2>2. QED
      BY <2>1, SumNat
  <1>9. \A n \in M : G[n] <= Zero(M)[n] + SumFunctionOnSet(Advertised, part[n])
    BY <1>6, <1>7, <1>8
  <1>10. Covered(M, G, Zero(M), part, Advertised, Q)
    BY <1>4, <1>5, <1>9 DEF Covered
  <1>11. IsFiniteSet(M) /\ Counts(G, M)
    BY <1>7, FiniteCluster DEF Counts
  <1>12. Counts(Advertised, Q) /\ IsFiniteSet(Q)
    BY <1>3, ClusterCounts
  <1>13. SumFunctionOnSet(G, M) <= SumFunctionOnSet(Advertised, Q)
    BY <1>10, <1>11, <1>12, SumCovered
  <1>14. SumFunctionOnSet(G, M) \in Nat
    BY <1>11, SumNat
  <1>15. QED
    BY <1>13, <1>14 DEF G, Q, R

\* The feasibility verdict counts on no more than what is free.
LEMMA FeasibleBound ==
    ASSUME WellFormed, NEW vendor \in Vendors, NEW type \in Types
    PROVE  FeasibleGpus(vendor, type) <=
             SumFunctionOnSet(Free,
                {nr \in Nodes \X VendorResources(vendor) :
                    sched[nr[1]] /\ TypeMatches(nr[1], type)})
  <1> DEFINE R == VendorResources(vendor)
             G == [n \in Nodes |-> NodeGpus(n, vendor)]
             M == {n \in Nodes : sched[n] /\ NodeGPUMatches(n, vendor, type)}
             pairs == {nr \in Nodes \X Resources : nr[1] \in M /\ nr[2] \in R}
             part == [nr \in pairs |-> Holders(nr[1], nr[2])]
             Q == {p \in Pods : PodConsumes(p) /\ NodeGPUMatches(pod[p].node, vendor, type)}
             B == {nr \in Nodes \X R : sched[nr[1]] /\ TypeMatches(nr[1], type)}
  <1>1. R \in SUBSET Resources
    BY DEF VendorResources
  <1>2. M \in SUBSET Nodes /\ Q \in SUBSET Pods /\ pairs \in SUBSET (Nodes \X Resources)
    OBVIOUS
  <1>3. pairs \subseteq B
    BY DEF NodeGPUMatches
  <1>4. B \in SUBSET (Nodes \X Resources)
    BY <1>1
  <1>5. SchedulableGpus(vendor, type) = SumFunctionOnSet(G, M)
    BY DEF SchedulableGpus
  <1>6. HeldGpus(vendor, type) = SumFunctionOnSet(PodGpus, Q)
    BY DEF HeldGpus
  <1>7. SumFunctionOnSet(G, M) \in Nat /\ SumFunctionOnSet(G, M) <= SumFunctionOnSet(Advertised, pairs)
    <2> HIDE DEF M
    <2>1. QED
      BY <1>2, NodesByPairs
  <1>8. ASSUME NEW nr \in pairs
        PROVE  Holders(nr[1], nr[2]) \subseteq Q
    <2>1. nr[1] \in Nodes /\ nr[1] # NoNode
      BY ClusterAssumption
    <2>2. NodeGPUMatches(nr[1], vendor, type)
      OBVIOUS
    <2>3. QED
      BY <2>1, <2>2 DEF Holders, PodConsumes
  <1> HIDE DEF R, G, M, pairs, Q, B
  <1>9. Covered(pairs, Advertised, Free, part, PodGpus, Q)
    BY <1>2, <1>8, HoldersCovered
  <1> HIDE DEF part
  <1>10. Counts(Advertised, pairs) /\ Counts(Free, pairs) /\ IsFiniteSet(pairs)
    BY <1>2, ClusterCounts
  <1>11. Counts(Free, B) /\ IsFiniteSet(B)
    BY <1>4, ClusterCounts
  <1>12. IsFiniteSet(Q) /\ Counts(PodGpus, Q)
    BY <1>2, FiniteCluster
  <1>13. SumFunctionOnSet(Advertised, pairs)
           <= SumFunctionOnSet(Free, pairs) + SumFunctionOnSet(PodGpus, Q)
    BY <1>9, <1>10, <1>12, SumParts
  <1>14. SumFunctionOnSet(Free, pairs) <= SumFunctionOnSet(Free, B)
    BY <1>3, <1>11, SumSubset
  <1>15. /\ SumFunctionOnSet(Advertised, pairs) \in Nat /\ SumFunctionOnSet(Free, pairs) \in Nat
         /\ SumFunctionOnSet(PodGpus, Q) \in Nat /\ SumFunctionOnSet(Free, B) \in Nat
    BY <1>10, <1>11, <1>12, SumNat
  <1>16. FeasibleGpus(vendor, type) <= SumFunctionOnSet(Free, B)
    BY <1>5, <1>6, <1>7, <1>13, <1>14, <1>15 DEF FeasibleGpus
  <1>17. QED
    BY <1>16 DEF B, R

\* The feasibility verdict never counts on more GPUs than are free for the
\* scheduler, in every reachable cluster of any size, mixed vendors included.
THEOREM FeasibleIsFreeHolds == Spec => []FeasibleIsFree
  <1>1. WellFormed => FeasibleIsFree
    BY FeasibleBound DEF FeasibleIsFree
  <1>2. QED
    BY <1>1, WellFormedHolds, PTL

==============================================================================
