------------------------- MODULE WorkspaceClassProofs -------------------------
(***************************************************************************)
(* Proofs about WorkspaceClass, for any fields, paths, classes and users:  *)
(* the status of a class settles on the truth, and a release is a tree     *)
(* that carries the resolved resources and loses nothing unnoticed.        *)
(***************************************************************************)
EXTENDS WorkspaceClass, SequenceTheorems, Induction

(***************************************************************************)
(* Prefixes                                                                *)
(***************************************************************************)
\* A prefix agrees with the longer sequence wherever it is defined.
LEMMA PrefixElements ==
    ASSUME NEW p \in Seq(STRING), NEW q \in Seq(STRING)
    PROVE  IsPrefix(p, q) <=> Len(p) <= Len(q) /\ \A i \in 1 .. Len(p) : p[i] = q[i]
  <1>1. /\ Len(p) \in Nat /\ Len(q) \in Nat
        /\ \A i \in 1 .. Len(p) : p[i] \in STRING
        /\ \A i \in 1 .. Len(q) : q[i] \in STRING
    BY LenProperties, ElementOfSeq
  <1>2. SubSeq(p, 1, Len(p)) = p
    BY SubSeqFull
  <1>3. ASSUME Len(p) <= Len(q)
        PROVE  SubSeq(p, 1, Len(p)) = SubSeq(q, 1, Len(p)) <=> \A i \in 1 .. Len(p) : p[i] = q[i]
    <2> DEFINE t == SubSeq(q, 1, Len(p))
    <2>1. \A i \in 1 .. Len(p) : q[i] \in STRING
      BY <1>1, <1>3
    <2>2. /\ t \in Seq(STRING) /\ Len(t) = IF 1 <= Len(p) THEN Len(p) - 1 + 1 ELSE 0
          /\ \A i \in 1 .. Len(p) - 1 + 1 : t[i] = q[1 + i - 1]
      BY <1>1, <2>1, SubSeqProperties
    <2> HIDE DEF t
    <2>3. Len(t) = Len(p) /\ \A i \in 1 .. Len(p) : t[i] = q[i]
      BY <1>1, <2>2
    <2>4. (\A i \in 1 .. Len(p) : p[i] = t[i]) => p = t
      BY <2>2, <2>3, SeqEqual
    <2>5. p = t <=> \A i \in 1 .. Len(p) : p[i] = q[i]
      BY <2>3, <2>4
    <2>6. QED
      BY <1>2, <2>5 DEF t
  <1>4. QED
    BY <1>3 DEF IsPrefix

\* Prefixes are ordered, and share the first segment.
LEMMA PrefixOrder ==
    ASSUME NEW p \in Seq(STRING), NEW q \in Seq(STRING), NEW r \in Seq(STRING)
    PROVE  /\ IsPrefix(p, p)
           /\ IsPrefix(p, q) /\ IsPrefix(q, r) => IsPrefix(p, r)
           /\ IsPrefix(p, q) /\ IsPrefix(q, p) => p = q
           /\ p # << >> /\ q # << >> /\ IsPrefix(p, q) => Head(p) = Head(q)
  <1>1. Len(p) \in Nat /\ Len(q) \in Nat /\ Len(r) \in Nat
    BY LenProperties
  <1>2. IsPrefix(p, p)
    BY <1>1, PrefixElements
  <1>3. IsPrefix(p, q) /\ IsPrefix(q, r) => IsPrefix(p, r)
    <2>1. SUFFICES ASSUME IsPrefix(p, q), IsPrefix(q, r) PROVE IsPrefix(p, r)
      OBVIOUS
    <2>2. Len(p) <= Len(q) /\ \A i \in 1 .. Len(p) : p[i] = q[i]
      BY <2>1, PrefixElements
    <2>3. Len(q) <= Len(r) /\ \A i \in 1 .. Len(q) : q[i] = r[i]
      BY <2>1, PrefixElements
    <2>4. Len(p) <= Len(r) /\ \A i \in 1 .. Len(p) : p[i] = r[i]
      BY <1>1, <2>2, <2>3
    <2>5. QED
      BY <2>4, PrefixElements
  <1>4. IsPrefix(p, q) /\ IsPrefix(q, p) => p = q
    <2>1. SUFFICES ASSUME IsPrefix(p, q), IsPrefix(q, p) PROVE p = q
      OBVIOUS
    <2>2. Len(p) <= Len(q) /\ \A i \in 1 .. Len(p) : p[i] = q[i]
      BY <2>1, PrefixElements
    <2>3. Len(q) <= Len(p)
      BY <2>1, PrefixElements
    <2>4. QED
      BY <1>1, <2>2, <2>3, SeqEqual
  <1>5. p # << >> /\ q # << >> /\ IsPrefix(p, q) => Head(p) = Head(q)
    <2>1. SUFFICES ASSUME p # << >>, q # << >>, IsPrefix(p, q) PROVE Head(p) = Head(q)
      OBVIOUS
    <2>2. Len(p) # 0
      BY <1>1, <2>1, EmptySeq
    <2>3. p[1] = q[1]
      BY <1>1, <2>1, <2>2, PrefixElements
    <2>4. QED
      BY <2>3
  <1>6. QED
    BY <1>2, <1>3, <1>4, <1>5

(***************************************************************************)
(* Trees of values                                                         *)
(***************************************************************************)
\* The order on paths, as the lemmas below need it.
LEMMA PathOrder ==
    /\ \A p \in Paths : p \in Seq(STRING) /\ p # << >> /\ IsPrefix(p, p)
    /\ \A p, q, r \in Paths : IsPrefix(p, q) /\ IsPrefix(q, r) => IsPrefix(p, r)
    /\ \A p, q \in Paths : IsPrefix(p, q) /\ IsPrefix(q, p) => p = q
    /\ \A p, q \in Paths : IsPrefix(p, q) => Head(p) = Head(q)
  <1>1. \A p \in Paths : p \in Seq(STRING) /\ p # << >>
    BY ClassAssumption
  <1>2. QED
    BY <1>1, PrefixOrder

\* Setting a value keeps a tree a tree.
LEMMA TreeSetNestedValue ==
    ASSUME NEW t, Tree(t), NEW path \in Paths, NEW v
    PROVE  Tree(SetNestedValue(t, path, v))
  <1> DEFINE n == SetNestedValue(t, path, v)
  <1>1. DOMAIN n = Paths
    BY DEF SetNestedValue
  <1>2. \A p \in Paths : n[p] = IF p = path THEN v
                                ELSE IF IsStrictPrefix(p, path) THEN "map"
                                ELSE IF IsStrictPrefix(path, p) THEN Absent
                                ELSE t[p]
    BY DEF SetNestedValue
  <1> HIDE DEF n
  <1>3. ASSUME NEW p \in Paths, NEW q \in Paths, IsStrictPrefix(p, q), n[q] # Absent
        PROVE  n[p] = "map"
    <2>1. IsPrefix(p, q) /\ p # q
      BY <1>3 DEF IsStrictPrefix
    <2>2. CASE IsPrefix(q, path)
      <3>1. IsPrefix(p, path)
        BY <2>1, <2>2, PathOrder
      <3>2. p # path
        BY <2>1, <2>2, PathOrder
      <3>3. QED
        BY <1>2, <3>1, <3>2 DEF IsStrictPrefix
    <2>3. CASE ~IsPrefix(q, path)
      <3>1. q # path /\ ~IsStrictPrefix(q, path)
        BY <2>3, PathOrder DEF IsStrictPrefix
      <3>2. ~IsStrictPrefix(path, q)
        BY <1>2, <1>3, <3>1
      <3>3. n[q] = t[q]
        BY <1>2, <3>1, <3>2
      <3>4. t[p] = "map"
        BY <1>3, <3>3 DEF Tree
      <3>5. ~IsPrefix(path, p)
        BY <2>1, <3>1, <3>2, PathOrder DEF IsStrictPrefix
      <3>6. p # path /\ ~IsStrictPrefix(path, p)
        BY <3>5, PathOrder DEF IsStrictPrefix
      <3>7. QED
        BY <1>2, <3>4, <3>6
    <2>4. QED
      BY <2>2, <2>3
  <1>4. Tree(n)
    BY <1>1, <1>3 DEF Tree
  <1>5. QED
    BY <1>4 DEF n

\* So do the maps above the resources.
LEMMA TreeEnsureMap ==
    ASSUME NEW t, Tree(t)
    PROVE  Tree(EnsureMap(t, PerReplica))
  <1> DEFINE n == EnsureMap(t, PerReplica)
  <1>1. DOMAIN n = Paths /\ \A p \in Paths : n[p] = IF IsPrefix(p, PerReplica) THEN "map" ELSE t[p]
    BY DEF EnsureMap
  <1> HIDE DEF n
  <1>2. PerReplica \in Seq(STRING)
    BY ClassAssumption
  <1>3. ASSUME NEW p \in Paths, NEW q \in Paths, IsStrictPrefix(p, q), n[q] # Absent
        PROVE  n[p] = "map"
    <2>1. IsPrefix(p, q) /\ p \in Seq(STRING) /\ q \in Seq(STRING)
      BY <1>3, PathOrder DEF IsStrictPrefix
    <2>2. IsPrefix(q, PerReplica) => IsPrefix(p, PerReplica)
      BY <1>2, <2>1, PrefixOrder
    <2>3. CASE IsPrefix(p, PerReplica)
      BY <1>1, <2>3
    <2>4. CASE ~IsPrefix(p, PerReplica)
      <3>1. t[q] # Absent /\ n[p] = t[p]
        BY <1>1, <1>3, <2>2, <2>4
      <3>2. QED
        BY <1>3, <3>1 DEF Tree
    <2>5. QED
      BY <2>3, <2>4
  <1>4. Tree(n)
    BY <1>1, <1>3 DEF Tree
  <1>5. QED
    BY <1>4 DEF n

\* So does the merge of the values of the user into those of the class.
LEMMA TreeMergeValues ==
    ASSUME NEW d, Tree(d), NEW u, Tree(u)
    PROVE  Tree(MergeValues(d, u))
  <1> DEFINE n == MergeValues(d, u)
  <1>1. DOMAIN n = Paths /\ \A p \in Paths : n[p] = IF u[<<Head(p)>>] # Absent THEN u[p] ELSE d[p]
    BY DEF MergeValues
  <1> HIDE DEF n
  <1>2. ASSUME NEW p \in Paths, NEW q \in Paths, IsStrictPrefix(p, q), n[q] # Absent
        PROVE  n[p] = "map"
    <2>1. Head(p) = Head(q)
      BY <1>2, PathOrder DEF IsStrictPrefix
    <2>2. CASE u[<<Head(p)>>] # Absent
      <3>1. n[p] = u[p] /\ n[q] = u[q]
        BY <1>1, <2>1, <2>2
      <3>2. QED
        BY <1>2, <3>1 DEF Tree
    <2>3. CASE u[<<Head(p)>>] = Absent
      <3>1. n[p] = d[p] /\ n[q] = d[q]
        BY <1>1, <2>1, <2>3
      <3>2. QED
        BY <1>2, <3>1 DEF Tree
    <2>4. QED
      BY <2>2, <2>3
  <1>3. Tree(n)
    BY <1>1, <1>2 DEF Tree
  <1>4. QED
    BY <1>3 DEF n

\* A value set at one path leaves the paths apart from it alone.
LEMMA SetLeavesApart ==
    ASSUME NEW t, NEW path \in Paths, NEW v, NEW p \in Paths
    PROVE  /\ SetNestedValue(t, path, v)[path] = v
           /\ Apart(p, path) => SetNestedValue(t, path, v)[p] = t[p]
  <1>1. p = path => ~Apart(p, path)
    BY PathOrder DEF Apart
  <1>2. QED
    BY <1>1 DEF SetNestedValue, Apart, IsStrictPrefix

(***************************************************************************)
(* The status of the class                                                 *)
(***************************************************************************)
\* What is queued is known, and every template is in some state.
ClassTypes == queued \in BOOLEAN /\ template \in [Namespaces -> {"absent", "invalid", "valid"}]

\* Each step of the reconciler, of admins and of k0rdent keeps the status true
\* or the class queued; a change of a template nobody refers to changes no verdict.
LEMMA StatusStep ==
    ASSUME ClassTypes, StatusSettled, [Next]_vars
    PROVE  ClassTypes' /\ StatusSettled'
  <1>1. CASE ReconcileClass
    <2>1. /\ queued' = FALSE /\ template' = template /\ class' = class /\ status' = status
      BY <1>1 DEF ReconcileClass
    <2>2. ASSUME class # NoClass, pass' = Idle
          PROVE  \E v \in Verdicts(class) : Recorded(v)
      <3>1. PICK v \in Verdicts(class) :
               pass' = IF Recorded(v) THEN Idle
                       ELSE [step |-> "write", verdict |-> v, fresh |-> TRUE]
        BY <1>1, <2>2 DEF ReconcileClass
      <3>2. [step |-> "write", verdict |-> v, fresh |-> TRUE] # Idle
        BY DEF Idle
      <3>3. QED
        BY <2>2, <3>1, <3>2
    <2>3. Verdicts(class)' = Verdicts(class)
      BY <2>1 DEF Verdicts
    <2>4. \A v : Recorded(v)' <=> Recorded(v)
      BY <2>1 DEF Recorded
    <2>5. StatusSettled'
      BY <2>1, <2>2, <2>3, <2>4 DEF StatusSettled
    <2>6. QED
      BY <2>1, <2>5 DEF ClassTypes
  <1>2. CASE UpdateStatus \/ DeleteClass \/ \E c \in ClassSpecs : EditClass(c)
    BY <1>2 DEF UpdateStatus, DeleteClass, EditClass, ClassTypes, StatusSettled
  <1>3. ASSUME NEW ns \in Namespaces, NEW s \in {"absent", "invalid", "valid"}, TemplateChanges(ns, s)
        PROVE  ClassTypes' /\ StatusSettled'
    <2>1. /\ template' = [template EXCEPT ![ns] = s] /\ class' = class /\ status' = status
          /\ pass' = pass /\ queued' = (queued \/ (class # NoClass /\ References(class, ns)))
      BY <1>3 DEF TemplateChanges
    <2>2. ClassTypes'
      BY <2>1 DEF ClassTypes
    <2>3. ASSUME class # NoClass, ~queued', pass = Idle
          PROVE  \E v \in Verdicts(class)' : Recorded(v)'
      <3>1. ~queued /\ TemplateNamespace(class) # ns
        BY <2>1, <2>3 DEF References
      <3>2. template'[TemplateNamespace(class)] = template[TemplateNamespace(class)]
        BY <2>1, <3>1 DEF ClassTypes
      <3>3. Verdicts(class)' = Verdicts(class)
        BY <2>1, <3>2 DEF Verdicts, TemplateNamespace, MalformedFields
      <3>4. PICK v \in Verdicts(class) : Recorded(v)
        BY <2>3, <3>1 DEF StatusSettled
      <3>5. Recorded(v)'
        BY <2>1, <3>4 DEF Recorded
      <3>6. QED
        BY <3>3, <3>4, <3>5
    <2>4. QED
      BY <2>1, <2>2, <2>3 DEF StatusSettled
  <1>4. CASE UNCHANGED classVars
    <2>1. /\ template' = template /\ class' = class /\ status' = status
          /\ pass' = pass /\ queued' = queued
      BY <1>4 DEF classVars
    <2>2. Verdicts(class)' = Verdicts(class) /\ \A v : Recorded(v)' <=> Recorded(v)
      BY <2>1 DEF Verdicts, Recorded
    <2>3. QED
      BY <2>1, <2>2 DEF StatusSettled, ClassTypes
  <1>5. CASE \/ StartDeployment \/ WriteDeploying \/ DeployingLost \/ StartOver
             \/ DeleteWorkspace \/ \E u \in UserSpecs : EditWorkspace(u)
    <2>1. UNCHANGED classVars
      BY <1>5 DEF StartDeployment, WriteDeploying, DeployingLost, StartOver, DeleteWorkspace,
                  EditWorkspace
    <2>2. QED
      BY <1>4, <2>1
  <1>6. CASE UNCHANGED vars
    BY <1>4, <1>6 DEF vars
  <1>7. QED
    BY <1>1, <1>2, <1>3, <1>5, <1>6 DEF Next

\* When the reconciler has nothing left to do, the status tells the truth about
\* the class and its template as they are now.
THEOREM StatusSettledHolds == Spec => []StatusSettled
  <1>1. Init => ClassTypes /\ StatusSettled
    BY DEF Init, ClassTypes, StatusSettled
  <1>2. ClassTypes /\ StatusSettled /\ [Next]_vars => (ClassTypes /\ StatusSettled)'
    BY StatusStep
  <1>3. QED
    BY <1>1, <1>2, PTL DEF Spec

(***************************************************************************)
(* The loops of injectResources                                            *)
(***************************************************************************)
\* The last index of a set of indices is one of them.
LEMMA MaxIn ==
    ASSUME NEW S, NEW seq \in Seq(S), NEW s \in (SUBSET DOMAIN seq) \ {{}}
    PROVE  Max(s) \in s /\ Max(s) \in DOMAIN seq /\ seq[Max(s)] \in S
  <1>1. Len(seq) \in Nat /\ DOMAIN seq = 1 .. Len(seq)
    BY LenProperties
  <1>2. s \in SUBSET (1 .. Len(seq)) /\ s # {}
    BY <1>1
  <1>3. \E m \in s : \A k \in s : m >= k
    BY <1>1, <1>2, GreatestNumber
  <1>4. Max(s) \in s
    BY <1>3 DEF Max
  <1>5. QED
    BY <1>1, <1>4, ElementOfSeq

\* it says what a loop over seq computes from base, for each set of indices.
IsLoop(it, seq, base, step) ==
    /\ it[{}] = base
    /\ \A s \in (SUBSET DOMAIN seq) \ {{}} : it[s] = step[<<it[s \ {Max(s)}], Max(s)>>]

\* A loop over a sequence that keeps a state in S: what FoldLeft computes exists.
LEMMA LoopExists ==
    ASSUME NEW E, NEW seq \in Seq(E), NEW S, NEW base \in S, NEW step \in [S \X (DOMAIN seq) -> S]
    PROVE  /\ IsFiniteSet(DOMAIN seq)
           /\ \E it \in [SUBSET DOMAIN seq -> S] : IsLoop(it, seq, base, step)
  <1> DEFINE I == DOMAIN seq
             ch == [s \in (SUBSET I) \ {{}} |-> Max(s)]
  <1>1. IsFiniteSet(I)
    <2>1. Len(seq) \in Nat /\ I = 1 .. Len(seq)
      BY LenProperties
    <2>2. QED
      BY <2>1, FS_Interval
  <1>2. ch \in Choosers(I)
    BY MaxIn DEF Choosers
  <1>3. PICK it \in [SUBSET I -> S] : IsFold(it, I, base, step, ch)
    <2> HIDE DEF I, ch
    <2>1. step \in [S \X I -> S]
      BY DEF I
    <2>2. QED
      BY <1>1, <1>2, <2>1, FoldExists
  <1>4. \A s \in (SUBSET I) \ {{}} : ch[s] = Max(s)
    OBVIOUS
  <1>5. it[{}] = base /\ \A s \in (SUBSET I) \ {{}} : it[s] = step[<<it[s \ {Max(s)}], Max(s)>>]
    <2> HIDE DEF I, ch
    <2>1. QED
      BY <1>3, <1>4 DEF IsFold
  <1>6. QED
    BY <1>1, <1>5 DEF IsLoop

\* The states of the loops: trees with leaves in V, and warnings.
States(V) == [values : [Paths -> V], warned : SUBSET (Paths \cup {Malformed})]

\* The loop over the paths of one field.
FieldLoop(it, b, v, paths) ==
    it = [s \in SUBSET DOMAIN paths |->
            IF s = {} THEN b ELSE Inject(it[s \ {Max(s)}], paths[Max(s)], v)]

\* One write keeps the types.
LEMMA InjectType ==
    ASSUME NEW V, "map" \in V, Absent \in V, NEW v \in V, NEW x \in States(V),
           NEW path \in Paths \cup {Malformed}
    PROVE  Inject(x, path, v) \in States(V)
  <1>1. x.values \in [Paths -> V] /\ x.warned \in SUBSET (Paths \cup {Malformed})
    BY DEF States
  <1>2. SetNestedValue(x.values, path, v) \in [Paths -> V]
    BY <1>1 DEF SetNestedValue
  <1> DEFINE sv == SetNestedValue(x.values, path, v)
             w1 == x.warned \cup {path}
             w2 == IF x.values[path] = Absent THEN x.warned ELSE x.warned \cup {path}
  <1>3. w1 \in SUBSET (Paths \cup {Malformed}) /\ w2 \in SUBSET (Paths \cup {Malformed})
    BY <1>1
  <1>4. Inject(x, path, v) = IF path = Malformed THEN [values |-> x.values, warned |-> w1]
                             ELSE [values |-> sv, warned |-> w2]
    BY DEF Inject
  <1>5. sv \in [Paths -> V]
    BY <1>2
  <1> HIDE DEF sv, w1, w2
  <1>6. QED
    BY <1>1, <1>3, <1>4, <1>5 DEF States

\* FoldLeft runs the loop.
LEMMA FieldLoopRuns ==
    ASSUME NEW V, "map" \in V, Absent \in V, NEW v \in V, v # Unset, NEW b \in States(V),
           NEW paths \in Seq(Paths \cup {Malformed})
    PROVE  /\ IsFiniteSet(DOMAIN paths)
           /\ \E it : FieldLoop(it, b, v, paths) /\ InjectField(b, v, paths) = it[DOMAIN paths]
  <1> DEFINE I == DOMAIN paths
             S == States(V)
             step == [x \in S \X I |-> Inject(x[1], paths[x[2]], v)]
             it == CHOOSE it : FieldLoop(it, b, v, paths)
  <1>1. \A i \in I : paths[i] \in Paths \cup {Malformed}
    BY LenProperties
  <1>2. step \in [S \X I -> S]
    <2> HIDE DEF S, I
    <2>1. \A x \in S \X I : Inject(x[1], paths[x[2]], v) \in S
      BY <1>1, InjectType DEF S
    <2>2. QED
      BY <2>1
  <1>3. IsFiniteSet(I) /\ \E j \in [SUBSET I -> S] : IsLoop(j, paths, b, step)
    <2> HIDE DEF S, step
    <2>1. b \in S
      BY DEF S
    <2>2. QED
      BY <1>2, <2>1, LoopExists
  <1>4. PICK j \in [SUBSET I -> S] :
             /\ j[{}] = b
             /\ \A s \in (SUBSET I) \ {{}} : j[s] = step[<<j[s \ {Max(s)}], Max(s)>>]
    BY <1>3 DEF IsLoop
  <1>5. ASSUME NEW s \in (SUBSET I) \ {{}}
        PROVE  j[s] = Inject(j[s \ {Max(s)}], paths[Max(s)], v)
    <2>1. Max(s) \in I /\ j[s \ {Max(s)}] \in S
      BY MaxIn
    <2>2. step[<<j[s \ {Max(s)}], Max(s)>>] = Inject(j[s \ {Max(s)}], paths[Max(s)], v)
      <3> HIDE DEF S, I
      <3>1. QED
        BY <2>1
    <2>3. QED
      BY <1>4, <2>2
  <1>6. FieldLoop(j, b, v, paths)
    <2> HIDE DEF S, step
    <2>1. QED
      BY <1>4, <1>5 DEF FieldLoop
  <1>7. FieldLoop(it, b, v, paths)
    BY <1>6
  <1>8. InjectField(b, v, paths) = it[I]
    BY DEF InjectField, FoldLeft, MapThenFoldSet, FieldLoop
  <1> HIDE DEF it
  <1>9. QED
    BY <1>3, <1>7, <1>8

\* A state of the loops whose values are a tree.
Healthy(x, V) == x \in States(V) /\ Tree(x.values)

\* The value m at p is still there, was no leaf, or a warning names its path.
Kept(m, x, p) ==
    m \in {Absent, "map"} \/ m = x.values[p] \/ \E q \in x.warned \ {Malformed} : IsPrefix(q, p)

\* y is what writing v at path makes of x.
Injected(x, y, path, v) ==
    IF path = Malformed THEN y.values = x.values /\ y.warned = x.warned \cup {path}
    ELSE /\ y.values = SetNestedValue(x.values, path, v)
         /\ y.warned = IF x.values[path] = Absent THEN x.warned ELSE x.warned \cup {path}

\* One write does that.
LEMMA InjectEffect ==
    ASSUME NEW x, NEW path, NEW v
    PROVE  Injected(x, Inject(x, path, v), path, v)
  BY DEF Inject, Injected

\* One write keeps a tree a tree.
LEMMA InjectHealthy ==
    ASSUME NEW V, "map" \in V, Absent \in V, NEW v \in V, NEW x, Healthy(x, V),
           NEW path \in Paths \cup {Malformed}
    PROVE  Healthy(Inject(x, path, v), V)
  <1> DEFINE y == Inject(x, path, v)
  <1>1. x \in States(V) /\ Tree(x.values)
    BY DEF Healthy
  <1>2. y \in States(V)
    BY <1>1, InjectType
  <1>3. Injected(x, y, path, v)
    BY InjectEffect
  <1> HIDE DEF y
  <1>4. path # Malformed => Tree(SetNestedValue(x.values, path, v))
    BY <1>1, TreeSetNestedValue
  <1>5. Tree(y.values)
    BY <1>1, <1>3, <1>4 DEF Injected
  <1>6. Healthy(y, V)
    BY <1>2, <1>5 DEF Healthy
  <1>7. QED
    BY <1>6 DEF y

\* One write loses no value unnoticed, except leaves on the way to its path.
LEMMA InjectKeeps ==
    ASSUME NEW x, Tree(x.values), NEW path \in Paths \cup {Malformed}, NEW v,
           NEW p \in Paths, ~IsStrictPrefix(p, path), NEW m, Kept(m, x, p)
    PROVE  Kept(m, Inject(x, path, v), p)
  <1> DEFINE y == Inject(x, path, v)
  <1>1. Injected(x, y, path, v)
    BY InjectEffect
  <1> HIDE DEF y
  <1> SUFFICES Kept(m, y, p)
    BY DEF y
  <1>2. x.warned \subseteq y.warned
    BY <1>1 DEF Injected
  <1>3. CASE m \in {Absent, "map"} \/ \E q \in x.warned \ {Malformed} : IsPrefix(q, p)
    BY <1>2, <1>3 DEF Kept
  <1>4. CASE m = x.values[p] /\ m # Absent
    <2>1. CASE path = Malformed
      <3>1. y.values[p] = m
        BY <1>1, <1>4, <2>1 DEF Injected
      <3>2. QED
        BY <3>1 DEF Kept
    <2>2. CASE path # Malformed /\ IsPrefix(path, p)
      <3>1. path \in Paths
        BY <2>2
      <3>2. x.values[path] # Absent
        BY <1>4, <2>2, <3>1 DEF Tree, IsStrictPrefix, Absent
      <3>3. y.warned = x.warned \cup {path}
        BY <1>1, <2>2, <3>2 DEF Injected
      <3>4. QED
        BY <2>2, <3>3 DEF Kept
    <2>3. CASE path # Malformed /\ ~IsPrefix(path, p)
      <3>1. path \in Paths /\ p # path
        BY <2>3, PathOrder
      <3>2. Apart(p, path)
        BY <2>3, <3>1 DEF Apart, IsStrictPrefix
      <3>3. y.values = SetNestedValue(x.values, path, v)
        BY <1>1, <2>3 DEF Injected
      <3>4. SetNestedValue(x.values, path, v)[p] = x.values[p]
        BY <3>1, <3>2, SetLeavesApart
      <3>5. QED
        BY <1>4, <3>3, <3>4 DEF Kept
    <2>4. QED
      BY <2>1, <2>2, <2>3
  <1>5. QED
    BY <1>3, <1>4 DEF Kept

\* A write at path sets p or leaves it alone.
Clear(p, path) == path = Malformed \/ path = p \/ Apart(p, path)
ValueSet(y, x, path, v, p) == y.values[p] = IF path = p THEN v ELSE x.values[p]

\* One write sets the value at its path and none at paths apart from it.
LEMMA InjectSets ==
    ASSUME NEW x, NEW path \in Paths \cup {Malformed}, NEW v, NEW p \in Paths, Clear(p, path)
    PROVE  ValueSet(Inject(x, path, v), x, path, v, p)
  <1> DEFINE y == Inject(x, path, v)
  <1>1. Injected(x, y, path, v)
    BY InjectEffect
  <1> HIDE DEF y
  <1>2. p # Malformed
    BY PathOrder DEF Malformed
  <1>3. CASE path = Malformed
    <2>1. y.values[p] = x.values[p]
      BY <1>1, <1>3 DEF Injected
    <2>2. QED
      BY <1>2, <1>3, <2>1 DEF y, ValueSet
  <1>4. CASE path # Malformed
    <2>1. path \in Paths /\ y.values = SetNestedValue(x.values, path, v)
      BY <1>1, <1>4 DEF Injected
    <2>2. /\ SetNestedValue(x.values, path, v)[path] = v
          /\ Apart(p, path) => SetNestedValue(x.values, path, v)[p] = x.values[p]
      BY <2>1, SetLeavesApart
    <2>3. y.values[p] = IF path = p THEN v ELSE x.values[p]
      BY <1>4, <2>1, <2>2 DEF Clear
    <2>4. QED
      BY <2>3 DEF y, ValueSet
  <1>5. QED
    BY <1>3, <1>4

\* What the paths of one field leave behind: a tree; values lost only with a
\* warning, or on the way to a path; the value of the field at each of its
\* paths that no other of its paths touches.
FieldResult(r, b, v, paths, V) ==
    /\ Healthy(r, V)
    /\ \A p \in Paths : \A m :
          (v # Unset => \A q \in ToSet(paths) : ~IsStrictPrefix(p, q)) /\ Kept(m, b, p)
             => Kept(m, r, p)
    /\ \A p \in Paths :
          (v # Unset => \A q \in ToSet(paths) : Clear(p, q))
             => r.values[p] = IF v # Unset /\ p \in ToSet(paths) THEN v ELSE b.values[p]

\* The loop over the paths of a field does that.
LEMMA FieldEffect ==
    ASSUME NEW V, "map" \in V, Absent \in V, NEW v \in V, NEW b, Healthy(b, V),
           NEW paths \in Seq(Paths \cup {Malformed})
    PROVE  FieldResult(InjectField(b, v, paths), b, v, paths, V)
  <1> DEFINE r == InjectField(b, v, paths)
             I == DOMAIN paths
  <1>1. CASE v = Unset
    <2>1. r = b
      BY <1>1 DEF InjectField
    <2> HIDE DEF r
    <2>2. FieldResult(r, b, v, paths, V)
      BY <1>1, <2>1 DEF FieldResult
    <2>3. QED
      BY <2>2 DEF r
  <1>2. CASE v # Unset
    <2>1. IsFiniteSet(I) /\ \E it : FieldLoop(it, b, v, paths) /\ r = it[I]
      BY <1>2, FieldLoopRuns DEF Healthy
    <2>2. PICK it : FieldLoop(it, b, v, paths) /\ r = it[I]
      BY <2>1
    <2>3. it[{}] = b
      BY <2>2 DEF FieldLoop
    <2>4. ASSUME NEW s \in (SUBSET I) \ {{}}
          PROVE  \E i \in s : /\ paths[i] \in Paths \cup {Malformed} /\ paths[i] \in ToSet(paths)
                              /\ it[s] = Inject(it[s \ {i}], paths[i], v)
      <3>1. Max(s) \in s /\ Max(s) \in I /\ paths[Max(s)] \in Paths \cup {Malformed}
        BY MaxIn
      <3>2. it[s] = Inject(it[s \ {Max(s)}], paths[Max(s)], v)
        BY <2>2 DEF FieldLoop
      <3>3. paths[Max(s)] \in ToSet(paths)
        BY <3>1 DEF ToSet
      <3>4. QED
        BY <3>1, <3>2, <3>3
    <2> DEFINE Keeps(s) == \A p \in Paths : \A m :
                  (\A q \in ToSet(paths) : ~IsStrictPrefix(p, q)) /\ Kept(m, b, p)
                     => Kept(m, it[s], p)
               Sets(s) == \A p \in Paths :
                  (\A q \in ToSet(paths) : Clear(p, q))
                     => it[s].values[p] = IF \E i \in s : paths[i] = p THEN v ELSE b.values[p]
               P == {s \in SUBSET I : Healthy(it[s], V) /\ Keeps(s) /\ Sets(s)}
    <2>5. {} \in P
      BY <2>3
    <2>6. ASSUME NEW s \in (SUBSET I) \ {{}}, \A i \in s : s \ {i} \in P
          PROVE  s \in P
      <3>1. PICK i \in s : /\ paths[i] \in Paths \cup {Malformed} /\ paths[i] \in ToSet(paths)
                           /\ it[s] = Inject(it[s \ {i}], paths[i], v)
        BY <2>4
      <3> DEFINE u == s \ {i}
      <3>2. Healthy(it[u], V) /\ Keeps(u) /\ Sets(u)
        <4> HIDE DEF Keeps, Sets
        <4>1. QED
          BY <2>6
      <3>3. it[s] = Inject(it[u], paths[i], v)
        BY <3>1
      <3>4. \A p : (\E j \in s : paths[j] = p) <=> (paths[i] = p \/ \E j \in u : paths[j] = p)
        OBVIOUS
      <3> HIDE DEF u
      <3>5. Healthy(it[s], V)
        BY <3>1, <3>2, <3>3, InjectHealthy
      <3>6. Keeps(s)
        <4>1. SUFFICES ASSUME NEW p \in Paths, NEW m,
                              \A q \in ToSet(paths) : ~IsStrictPrefix(p, q), Kept(m, b, p)
                       PROVE  Kept(m, it[s], p)
          OBVIOUS
        <4>2. Kept(m, it[u], p) /\ ~IsStrictPrefix(p, paths[i])
          BY <3>1, <3>2, <4>1
        <4>3. Tree(it[u].values)
          BY <3>2 DEF Healthy
        <4>4. QED
          BY <3>1, <3>3, <4>2, <4>3, InjectKeeps
      <3>7. Sets(s)
        <4>1. SUFFICES ASSUME NEW p \in Paths,
                              \A q \in ToSet(paths) : Clear(p, q)
                       PROVE  it[s].values[p] = IF \E j \in s : paths[j] = p THEN v ELSE b.values[p]
          OBVIOUS
        <4>2. it[u].values[p] = IF \E j \in u : paths[j] = p THEN v ELSE b.values[p]
          BY <3>2, <4>1
        <4>3. it[s].values[p] = IF paths[i] = p THEN v ELSE it[u].values[p]
          <5>1. Clear(p, paths[i])
            BY <3>1, <4>1
          <5>2. ValueSet(Inject(it[u], paths[i], v), it[u], paths[i], v, p)
            BY <3>1, <5>1, InjectSets
          <5>3. QED
            BY <3>3, <5>2 DEF ValueSet
        <4>4. (\E j \in s : paths[j] = p) <=> (paths[i] = p \/ \E j \in u : paths[j] = p)
          BY <3>4
        <4>5. QED
          BY <4>2, <4>3, <4>4
      <3> HIDE DEF Keeps, Sets
      <3>8. QED
        BY <3>5, <3>6, <3>7
    <2>7. I \in P
      <3> HIDE DEF P, I
      <3>1. QED
        BY <2>1, <2>5, <2>6, UpToSet
    <2>8. Healthy(it[I], V) /\ Keeps(I) /\ Sets(I)
      <3> HIDE DEF Keeps, Sets
      <3>1. QED
        BY <2>7
    <2>9. \A p : (\E i \in I : paths[i] = p) <=> p \in ToSet(paths)
      BY DEF ToSet
    <2> HIDE DEF r, I
    <2>10. FieldResult(r, b, v, paths, V)
      BY <1>2, <2>2, <2>8, <2>9 DEF FieldResult
    <2>11. QED
      BY <2>10 DEF r
  <1>3. QED
    BY <1>1, <1>2

(***************************************************************************)
(* The fields, one after the other                                         *)
(***************************************************************************)
\* What injectResources is called with: resources and values in V, and the
\* paths of a class.
Arguments(res, paths, V) ==
    /\ "map" \in V /\ Absent \in V
    /\ \A f \in ToSet(Fields) : res[f] \in V /\ paths[f] \in Seq(Paths \cup {Malformed})

\* The paths of the class, for all fields.
InjectPaths(b, res, paths) ==
    FoldLeft(LAMBDA s, f : InjectField(s, res[f], paths[f]), b, Fields)

\* The loop over the fields.
ClassLoop(it, b, res, paths) ==
    it = [s \in SUBSET DOMAIN Fields |->
            IF s = {} THEN b
            ELSE InjectField(it[s \ {Max(s)}], res[Fields[Max(s)]], paths[Fields[Max(s)]])]

\* The healthy states, as a set.
HealthyStates(V) == {x \in States(V) : Tree(x.values)}

\* An index of Fields is the index of a field.
LEMMA FieldAt ==
    /\ \A i \in DOMAIN Fields : Fields[i] \in ToSet(Fields)
    /\ \A f \in ToSet(Fields) : \E i \in DOMAIN Fields : Fields[i] = f
  BY DEF ToSet

\* FoldLeft runs the loop.
LEMMA ClassLoopRuns ==
    ASSUME NEW V, NEW res, NEW paths, Arguments(res, paths, V), NEW b, Healthy(b, V)
    PROVE  /\ IsFiniteSet(DOMAIN Fields)
           /\ \E it : /\ ClassLoop(it, b, res, paths)
                      /\ InjectPaths(b, res, paths) = it[DOMAIN Fields]
  <1> DEFINE I == DOMAIN Fields
             S == HealthyStates(V)
             step == [x \in S \X I |-> InjectField(x[1], res[Fields[x[2]]], paths[Fields[x[2]]])]
             it == CHOOSE it : ClassLoop(it, b, res, paths)
  <1>1. Fields \in Seq(STRING)
    BY ClassAssumption
  <1>2. step \in [S \X I -> S]
    <2>1. ASSUME NEW x \in S, NEW i \in I
          PROVE  InjectField(x, res[Fields[i]], paths[Fields[i]]) \in S
      <3> DEFINE v == res[Fields[i]]
                 ps == paths[Fields[i]]
                 y == InjectField(x, v, ps)
      <3>1. Fields[i] \in ToSet(Fields)
        BY FieldAt
      <3>2. v \in V /\ ps \in Seq(Paths \cup {Malformed}) /\ "map" \in V /\ Absent \in V
        BY <3>1 DEF Arguments
      <3>3. Healthy(x, V)
        BY DEF Healthy, HealthyStates
      <3> HIDE DEF v, ps
      <3>4. FieldResult(y, x, v, ps, V)
        BY <3>2, <3>3, FieldEffect
      <3> HIDE DEF y
      <3>5. y \in S
        BY <3>4 DEF FieldResult, Healthy, HealthyStates
      <3>6. QED
        BY <3>5 DEF y, v, ps
    <2> HIDE DEF S, I
    <2>2. \A x \in S \X I : InjectField(x[1], res[Fields[x[2]]], paths[Fields[x[2]]]) \in S
      BY <2>1
    <2>3. QED
      BY <2>2
  <1>3. IsFiniteSet(I) /\ \E j \in [SUBSET I -> S] : IsLoop(j, Fields, b, step)
    <2>1. b \in S
      BY DEF Healthy, HealthyStates
    <2> HIDE DEF S, step
    <2>2. QED
      BY <1>1, <1>2, <2>1, LoopExists
  <1>4. PICK j \in [SUBSET I -> S] :
             /\ j[{}] = b
             /\ \A s \in (SUBSET I) \ {{}} : j[s] = step[<<j[s \ {Max(s)}], Max(s)>>]
    BY <1>3 DEF IsLoop
  <1>5. ASSUME NEW s \in (SUBSET I) \ {{}}
        PROVE  j[s] = InjectField(j[s \ {Max(s)}], res[Fields[Max(s)]], paths[Fields[Max(s)]])
    <2> HIDE DEF S
    <2>1. Max(s) \in I
      BY <1>1, MaxIn
    <2>2. j[s \ {Max(s)}] \in S
      OBVIOUS
    <2>3. step[<<j[s \ {Max(s)}], Max(s)>>]
            = InjectField(j[s \ {Max(s)}], res[Fields[Max(s)]], paths[Fields[Max(s)]])
      <3> HIDE DEF I
      <3>1. QED
        BY <2>1, <2>2
    <2>4. QED
      BY <1>4, <2>3
  <1>6. ClassLoop(j, b, res, paths)
    <2> HIDE DEF S, step
    <2>1. QED
      BY <1>4, <1>5 DEF ClassLoop
  <1>7. ClassLoop(it, b, res, paths)
    BY <1>6
  <1>8. InjectPaths(b, res, paths) = it[I]
    BY DEF InjectPaths, FoldLeft, MapThenFoldSet, ClassLoop
  <1> HIDE DEF it
  <1>9. QED
    BY <1>3, <1>7, <1>8

\* Of the writes at the paths of the class, only those of f may touch p, and
\* they do so at p itself.
Sole(p, f, res, paths) ==
    \A g \in ToSet(Fields) : res[g] # Unset =>
        \A q \in ToSet(paths[g]) : q = Malformed \/ (q = p /\ g = f) \/ Apart(p, q)

\* p is not on the way to any path the class writes.
OffWay(p, res, paths) ==
    \A g \in ToSet(Fields) : res[g] # Unset => \A q \in ToSet(paths[g]) : ~IsStrictPrefix(p, q)

\* What the paths of all fields leave behind.
ClassResult(r, b, res, paths, V) ==
    /\ Healthy(r, V)
    /\ \A p \in Paths : \A m : OffWay(p, res, paths) /\ Kept(m, b, p) => Kept(m, r, p)
    /\ \A p \in Paths : \A f : Sole(p, f, res, paths) =>
          r.values[p] = IF f \in ToSet(Fields) /\ res[f] # Unset /\ p \in ToSet(paths[f])
                        THEN res[f] ELSE b.values[p]

\* The loop over the fields does that.
LEMMA ClassEffect ==
    ASSUME NEW V, NEW res, NEW paths, Arguments(res, paths, V), NEW b, Healthy(b, V)
    PROVE  ClassResult(InjectPaths(b, res, paths), b, res, paths, V)
  <1> DEFINE r == InjectPaths(b, res, paths)
             I == DOMAIN Fields
  <1>1. IsFiniteSet(I) /\ \E it : ClassLoop(it, b, res, paths) /\ r = it[I]
    BY ClassLoopRuns
  <1> HIDE DEF r
  <1>2. PICK it : ClassLoop(it, b, res, paths) /\ r = it[I]
    BY <1>1
  <1>3. it[{}] = b
    BY <1>2 DEF ClassLoop
  <1>4. ASSUME NEW s \in (SUBSET I) \ {{}}
        PROVE  \E i \in s : /\ i \in I
                            /\ it[s] = InjectField(it[s \ {i}], res[Fields[i]], paths[Fields[i]])
    <2>1. Fields \in Seq(STRING)
      BY ClassAssumption
    <2>2. Max(s) \in s /\ Max(s) \in I
      BY <2>1, MaxIn
    <2>3. it[s] = InjectField(it[s \ {Max(s)}], res[Fields[Max(s)]], paths[Fields[Max(s)]])
      BY <1>2 DEF ClassLoop
    <2>4. QED
      BY <2>2, <2>3
  <1> DEFINE Does(s, f) == \E i \in s : Fields[i] = f
             Keeps(s) == \A p \in Paths : \A m :
                OffWay(p, res, paths) /\ Kept(m, b, p) => Kept(m, it[s], p)
             Sets(s) == \A p \in Paths : \A f : Sole(p, f, res, paths) =>
                it[s].values[p] = IF Does(s, f) /\ res[f] # Unset /\ p \in ToSet(paths[f])
                                  THEN res[f] ELSE b.values[p]
             P == {s \in SUBSET I : Healthy(it[s], V) /\ Keeps(s) /\ Sets(s)}
  <1>5. {} \in P
    BY <1>3
  <1>6. ASSUME NEW s \in (SUBSET I) \ {{}}, \A i \in s : s \ {i} \in P
        PROVE  s \in P
    <2>1. PICK i \in s : /\ i \in I
                         /\ it[s] = InjectField(it[s \ {i}], res[Fields[i]], paths[Fields[i]])
      BY <1>4
    <2> DEFINE u == s \ {i}
               g == Fields[i]
               v == res[g]
               ps == paths[g]
    <2>2. Healthy(it[u], V) /\ Keeps(u) /\ Sets(u)
      <3> HIDE DEF Keeps, Sets
      <3>1. QED
        BY <1>6
    <2>3. it[s] = InjectField(it[u], v, ps)
      BY <2>1
    <2>4. \A f : Does(s, f) <=> (g = f \/ Does(u, f))
      OBVIOUS
    <2>5. g \in ToSet(Fields)
      BY <2>1, FieldAt
    <2>6. v \in V /\ ps \in Seq(Paths \cup {Malformed}) /\ "map" \in V /\ Absent \in V
      BY <2>5 DEF Arguments
    <2> HIDE DEF u, g, Does
    <2>7. FieldResult(it[s], it[u], v, ps, V)
      <3> HIDE DEF v, ps
      <3>1. QED
        BY <2>2, <2>3, <2>6, FieldEffect
    <2>8. Healthy(it[s], V)
      BY <2>7 DEF FieldResult
    <2>9. Keeps(s)
      <3>1. SUFFICES ASSUME NEW p \in Paths, NEW m, OffWay(p, res, paths), Kept(m, b, p)
                     PROVE  Kept(m, it[s], p)
        OBVIOUS
      <3>2. Kept(m, it[u], p)
        BY <2>2, <3>1
      <3>3. v # Unset => \A q \in ToSet(ps) : ~IsStrictPrefix(p, q)
        BY <2>5, <3>1 DEF OffWay
      <3>4. QED
        BY <2>7, <3>2, <3>3 DEF FieldResult
    <2>10. Sets(s)
      <3>1. SUFFICES ASSUME NEW p \in Paths, NEW f, Sole(p, f, res, paths)
                     PROVE  it[s].values[p] =
                               IF Does(s, f) /\ res[f] # Unset /\ p \in ToSet(paths[f])
                               THEN res[f] ELSE b.values[p]
        OBVIOUS
      <3>2. it[u].values[p] = IF Does(u, f) /\ res[f] # Unset /\ p \in ToSet(paths[f])
                              THEN res[f] ELSE b.values[p]
        BY <2>2, <3>1
      <3>3. v # Unset => \A q \in ToSet(ps) : q = Malformed \/ (q = p /\ g = f) \/ Apart(p, q)
        BY <2>5, <3>1 DEF Sole
      <3>4. v # Unset => \A q \in ToSet(ps) : Clear(p, q)
        BY <3>3 DEF Clear
      <3>5. it[s].values[p] = IF v # Unset /\ p \in ToSet(ps) THEN v ELSE it[u].values[p]
        BY <2>7, <3>4 DEF FieldResult
      <3>6. p # Malformed /\ ~Apart(p, p)
        BY PathOrder DEF Apart, Malformed
      <3>7. v # Unset /\ p \in ToSet(ps) => g = f
        BY <3>3, <3>6
      <3>8. g = f => v = res[f] /\ ps = paths[f]
        OBVIOUS
      <3> HIDE DEF v, ps
      <3>9. QED
        BY <2>4, <3>2, <3>5, <3>7, <3>8
    <2> HIDE DEF Keeps, Sets
    <2>11. QED
      BY <2>8, <2>9, <2>10
  <1>7. I \in P
    <2> HIDE DEF P, I
    <2>1. QED
      BY <1>1, <1>5, <1>6, UpToSet
  <1>8. Healthy(it[I], V) /\ Keeps(I) /\ Sets(I)
    <2> HIDE DEF Keeps, Sets
    <2>1. QED
      BY <1>7
  <1>9. \A f : Does(I, f) <=> f \in ToSet(Fields)
    BY FieldAt
  <1> HIDE DEF I, Does
  <1>10. ClassResult(r, b, res, paths, V)
    BY <1>2, <1>8, <1>9 DEF ClassResult
  <1>11. QED
    BY <1>10 DEF r

\* injectResources is the loop over the fields, from _exalsius.resources on.
LEMMA InjectResourcesIs ==
    ASSUME NEW values, NEW res, NEW paths
    PROVE  InjectResources(values, res, paths)
             = InjectPaths([values |-> InjectStandard(values, res), warned |-> {}], res, paths)
  BY DEF InjectResources, InjectPaths

(***************************************************************************)
(* _exalsius.resources                                                     *)
(***************************************************************************)
\* One field at its place under _exalsius.
InjectAt(t, f, res) == IF res[f] = Unset THEN t ELSE SetNestedValue(t, ExalsiusPath(f), res[f])

\* The loop over the fields.
StandardLoop(it, b, res) ==
    it = [s \in SUBSET DOMAIN Fields |->
            IF s = {} THEN b ELSE InjectAt(it[s \ {Max(s)}], Fields[Max(s)], res)]

\* The trees with values in V.
Trees(V) == {t \in [Paths -> V] : Tree(t)}

\* The values of the resources are in V.
Resources(res, V) == /\ "map" \in V /\ Absent \in V
                     /\ \A f \in ToSet(Fields) : res[f] \in V

\* The places of the fields are paths.
LEMMA ExalsiusPaths == \A f \in ToSet(Fields) : ExalsiusPath(f) \in Paths
  BY ClassAssumption

\* One field keeps a tree a tree.
LEMMA InjectAtTree ==
    ASSUME NEW V, NEW res, Resources(res, V), NEW t \in Trees(V), NEW f \in ToSet(Fields)
    PROVE  InjectAt(t, f, res) \in Trees(V)
  <1> DEFINE path == ExalsiusPath(f)
             v == res[f]
             n == SetNestedValue(t, path, v)
  <1>1. path \in Paths
    BY ExalsiusPaths
  <1>2. v \in V /\ "map" \in V /\ Absent \in V
    BY DEF Resources
  <1>3. t \in [Paths -> V] /\ Tree(t)
    BY DEF Trees
  <1> HIDE DEF path, v
  <1>4. Tree(n)
    BY <1>1, <1>3, TreeSetNestedValue
  <1>5. n \in [Paths -> V]
    BY <1>2, <1>3 DEF SetNestedValue
  <1> HIDE DEF n
  <1>6. n \in Trees(V)
    BY <1>4, <1>5 DEF Trees
  <1>7. QED
    BY <1>6 DEF InjectAt, n, path, v

\* FoldLeft runs the loop.
LEMMA StandardLoopRuns ==
    ASSUME NEW V, NEW res, Resources(res, V), NEW values, EnsureMap(values, PerReplica) \in Trees(V)
    PROVE  /\ IsFiniteSet(DOMAIN Fields)
           /\ \E it : /\ StandardLoop(it, EnsureMap(values, PerReplica), res)
                      /\ InjectStandard(values, res) = it[DOMAIN Fields]
  <1> DEFINE I == DOMAIN Fields
             S == Trees(V)
             b == EnsureMap(values, PerReplica)
             step == [x \in S \X I |-> InjectAt(x[1], Fields[x[2]], res)]
             it == CHOOSE it : StandardLoop(it, b, res)
  <1>1. Fields \in Seq(STRING)
    BY ClassAssumption
  <1>2. step \in [S \X I -> S]
    <2>1. \A i \in I : Fields[i] \in ToSet(Fields)
      BY FieldAt
    <2> HIDE DEF S, I
    <2>2. \A x \in S \X I : InjectAt(x[1], Fields[x[2]], res) \in S
      BY <2>1, InjectAtTree DEF S
    <2>3. QED
      BY <2>2
  <1>3. IsFiniteSet(I) /\ \E j \in [SUBSET I -> S] : IsLoop(j, Fields, b, step)
    <2>1. b \in S
      OBVIOUS
    <2> HIDE DEF S, step, b
    <2>2. QED
      BY <1>1, <1>2, <2>1, LoopExists
  <1>4. PICK j \in [SUBSET I -> S] :
             /\ j[{}] = b
             /\ \A s \in (SUBSET I) \ {{}} : j[s] = step[<<j[s \ {Max(s)}], Max(s)>>]
    BY <1>3 DEF IsLoop
  <1>5. ASSUME NEW s \in (SUBSET I) \ {{}}
        PROVE  j[s] = InjectAt(j[s \ {Max(s)}], Fields[Max(s)], res)
    <2> HIDE DEF S
    <2>1. Max(s) \in I
      BY <1>1, MaxIn
    <2>2. j[s \ {Max(s)}] \in S
      OBVIOUS
    <2>3. step[<<j[s \ {Max(s)}], Max(s)>>] = InjectAt(j[s \ {Max(s)}], Fields[Max(s)], res)
      <3> HIDE DEF I
      <3>1. QED
        BY <2>1, <2>2
    <2>4. QED
      BY <1>4, <2>3
  <1>6. StandardLoop(j, b, res)
    <2> HIDE DEF S, step, b
    <2>1. QED
      BY <1>4, <1>5 DEF StandardLoop
  <1>7. StandardLoop(it, b, res)
    <2> HIDE DEF b
    <2>1. QED
      BY <1>6
  <1>8. InjectStandard(values, res) = it[I]
    BY DEF InjectStandard, FoldLeft, MapThenFoldSet, StandardLoop, InjectAt
  <1> HIDE DEF it
  <1>9. QED
    BY <1>3, <1>7, <1>8

\* Of the writes under _exalsius, only that of f may touch p, and it does so at
\* p itself.
SoleStandard(p, f, res) ==
    \A g \in ToSet(Fields) : res[g] # Unset =>
        (g = f /\ ExalsiusPath(g) = p) \/ Apart(p, ExalsiusPath(g))

\* What _exalsius.resources is: a tree with the value of each field that no
\* other touches.
StandardResult(r, b, res, V) ==
    /\ r \in Trees(V)
    /\ \A p \in Paths : \A f : SoleStandard(p, f, res) =>
          r[p] = IF f \in ToSet(Fields) /\ res[f] # Unset /\ ExalsiusPath(f) = p
                 THEN res[f] ELSE b[p]

\* The loop does that.
LEMMA StandardEffect ==
    ASSUME NEW V, NEW res, Resources(res, V), NEW values, EnsureMap(values, PerReplica) \in Trees(V)
    PROVE  StandardResult(InjectStandard(values, res), EnsureMap(values, PerReplica), res, V)
  <1> DEFINE r == InjectStandard(values, res)
             I == DOMAIN Fields
             b == EnsureMap(values, PerReplica)
  <1>1. IsFiniteSet(I) /\ \E it : StandardLoop(it, b, res) /\ r = it[I]
    BY StandardLoopRuns
  <1>2. b \in Trees(V)
    OBVIOUS
  <1> HIDE DEF r, b
  <1>3. PICK it : StandardLoop(it, b, res) /\ r = it[I]
    BY <1>1
  <1>4. it[{}] = b
    BY <1>3 DEF StandardLoop
  <1>5. ASSUME NEW s \in (SUBSET I) \ {{}}
        PROVE  \E i \in s : i \in I /\ it[s] = InjectAt(it[s \ {i}], Fields[i], res)
    <2>1. Fields \in Seq(STRING)
      BY ClassAssumption
    <2>2. Max(s) \in s /\ Max(s) \in I
      BY <2>1, MaxIn
    <2>3. it[s] = InjectAt(it[s \ {Max(s)}], Fields[Max(s)], res)
      BY <1>3 DEF StandardLoop
    <2>4. QED
      BY <2>2, <2>3
  <1> DEFINE Does(s, f) == \E i \in s : Fields[i] = f
             Sets(s) == \A p \in Paths : \A f : SoleStandard(p, f, res) =>
                it[s][p] = IF Does(s, f) /\ res[f] # Unset /\ ExalsiusPath(f) = p
                           THEN res[f] ELSE b[p]
             P == {s \in SUBSET I : it[s] \in Trees(V) /\ Sets(s)}
  <1>6. {} \in P
    BY <1>2, <1>4
  <1>7. ASSUME NEW s \in (SUBSET I) \ {{}}, \A i \in s : s \ {i} \in P
        PROVE  s \in P
    <2>1. PICK i \in s : i \in I /\ it[s] = InjectAt(it[s \ {i}], Fields[i], res)
      BY <1>5
    <2> DEFINE u == s \ {i}
               g == Fields[i]
               path == ExalsiusPath(g)
    <2>2. it[u] \in Trees(V) /\ Sets(u)
      <3> HIDE DEF Sets
      <3>1. QED
        BY <1>7
    <2>3. it[s] = InjectAt(it[u], g, res)
      BY <2>1
    <2>4. \A f : Does(s, f) <=> (g = f \/ Does(u, f))
      OBVIOUS
    <2>5. g \in ToSet(Fields)
      BY <2>1, FieldAt
    <2>6. path \in Paths
      BY <2>5, ExalsiusPaths
    <2> HIDE DEF u, g, Does
    <2>7. it[s] \in Trees(V)
      BY <2>2, <2>3, <2>5, InjectAtTree
    <2>8. Sets(s)
      <3>1. SUFFICES ASSUME NEW p \in Paths, NEW f, SoleStandard(p, f, res)
                     PROVE  it[s][p] = IF Does(s, f) /\ res[f] # Unset /\ ExalsiusPath(f) = p
                                       THEN res[f] ELSE b[p]
        OBVIOUS
      <3>2. it[u][p] = IF Does(u, f) /\ res[f] # Unset /\ ExalsiusPath(f) = p
                       THEN res[f] ELSE b[p]
        BY <2>2, <3>1
      <3>3. res[g] # Unset => (g = f /\ path = p) \/ Apart(p, path)
        BY <2>5, <3>1 DEF SoleStandard
      <3>4. ~Apart(p, p)
        BY PathOrder DEF Apart
      <3>5. CASE res[g] = Unset
        <4>1. it[s] = it[u]
          BY <2>3, <3>5 DEF InjectAt
        <4>2. QED
          BY <2>4, <3>2, <3>5, <4>1
      <3>6. CASE res[g] # Unset
        <4>1. it[s] = SetNestedValue(it[u], path, res[g])
          BY <2>3, <3>6 DEF InjectAt
        <4> HIDE DEF path
        <4>2. it[s][path] = res[g] /\ (Apart(p, path) => it[s][p] = it[u][p])
          BY <2>6, <4>1, SetLeavesApart
        <4>3. CASE g = f /\ path = p
          BY <2>4, <3>6, <4>2, <4>3 DEF path
        <4>4. CASE Apart(p, path)
          <5>1. g = f => ExalsiusPath(f) # p
            BY <3>4, <4>4 DEF path
          <5>2. QED
            BY <2>4, <3>2, <4>2, <4>4, <5>1
        <4>5. QED
          BY <3>3, <3>6, <4>3, <4>4
      <3>7. QED
        BY <3>5, <3>6
    <2> HIDE DEF Sets
    <2>9. QED
      BY <2>7, <2>8
  <1>8. I \in P
    <2> HIDE DEF P, I
    <2>1. QED
      BY <1>1, <1>6, <1>7, UpToSet
  <1>9. it[I] \in Trees(V) /\ Sets(I)
    <2> HIDE DEF Sets
    <2>1. QED
      BY <1>8
  <1>10. \A f : Does(I, f) <=> f \in ToSet(Fields)
    BY FieldAt
  <1> HIDE DEF I, Does
  <1>11. StandardResult(r, b, res, V)
    BY <1>3, <1>9, <1>10 DEF StandardResult
  <1>12. QED
    BY <1>11 DEF r, b

(***************************************************************************)
(* The operator's own paths                                                *)
(***************************************************************************)
\* Appending keeps the segments.
LEMMA AppendKeeps ==
    ASSUME NEW S, NEW s \in Seq(S), NEW e \in S
    PROVE  Len(Append(s, e)) = Len(s) + 1 /\ \A i \in 1 .. Len(s) : Append(s, e)[i] = s[i]
  <1>1. Len(Append(s, e)) = Len(s) + 1
    BY AppendProperties
  <1>2. \A i \in 1 .. Len(s) : Append(s, e)[i] = s[i]
    BY AppendProperties
  <1>3. QED
    BY <1>1, <1>2

\* Appending to three segments keeps them.
LEMMA AppendFourth ==
    ASSUME NEW S, NEW s \in Seq(S), Len(s) = 3, NEW e \in S
    PROVE  Len(Append(s, e)) = 4 /\ Append(s, e)[1] = s[1] /\ Append(s, e)[2] = s[2]
  <1> DEFINE n == Append(s, e)
  <1>1. Len(n) = Len(s) + 1 /\ \A i \in 1 .. Len(s) : n[i] = s[i]
    BY AppendKeeps
  <1> HIDE DEF n
  <1>2. Len(n) = 4 /\ n[1] = s[1] /\ n[2] = s[2]
    BY <1>1
  <1>3. QED
    BY <1>2 DEF n

\* The first segment of the place of a field.
LEMMA ExalsiusHead ==
    ASSUME NEW f
    PROVE  Head(ExalsiusPath(f)) = "_exalsius"
  <1>1. CASE f = "replicas"
    BY <1>1 DEF ExalsiusPath
  <1>2. CASE f # "replicas"
    <2> DEFINE S == {"_exalsius", "resources", "perReplica", f}
    <2>1. PerReplica \in Seq(S) /\ f \in S /\ Len(PerReplica) = 3 /\ PerReplica[1] = "_exalsius"
      BY DEF PerReplica
    <2> HIDE DEF S
    <2>2. Append(PerReplica, f)[1] = "_exalsius"
      BY <2>1, AppendFourth
    <2>3. QED
      BY <1>2, <2>2 DEF ExalsiusPath
  <1>3. QED
    BY <1>1, <1>2

\* The node selector and the name of the GPU resource are apart.
LEMMA SelectorApart ==
    /\ SelectorPath \in Paths /\ ResourceNamePath \in Paths
    /\ Apart(SelectorPath, ResourceNamePath) /\ Apart(ResourceNamePath, SelectorPath)
  <1>1. SelectorPath \in Paths /\ ResourceNamePath \in Paths
    BY ClassAssumption
  <1>2. SelectorPath \in Seq(STRING) /\ ResourceNamePath \in Seq(STRING)
    BY <1>1, PathOrder
  <1>3. Len(SelectorPath) = 3 /\ SelectorPath[2] = "scheduling"
    BY DEF SelectorPath
  <1>4. Len(ResourceNamePath) = 4 /\ ResourceNamePath[2] = "resources"
    <2> DEFINE S == {"_exalsius", "resources", "perReplica", "gpuResourceName"}
    <2>1. /\ PerReplica \in Seq(S) /\ "gpuResourceName" \in S
          /\ Len(PerReplica) = 3 /\ PerReplica[2] = "resources"
      BY DEF PerReplica
    <2> HIDE DEF S
    <2>2. LET q == Append(PerReplica, "gpuResourceName") IN Len(q) = 4 /\ q[2] = "resources"
      BY <2>1, AppendFourth
    <2>3. QED
      BY <2>2 DEF ResourceNamePath, ExalsiusPath
  <1>5. ~IsPrefix(SelectorPath, ResourceNamePath) /\ ~IsPrefix(ResourceNamePath, SelectorPath)
    <2> DEFINE p == SelectorPath
               q == ResourceNamePath
    <2>1. /\ p \in Seq(STRING) /\ Len(p) = 3 /\ p[2] = "scheduling"
          /\ q \in Seq(STRING) /\ Len(q) = 4 /\ q[2] = "resources"
      BY <1>2, <1>3, <1>4
    <2> HIDE DEF p, q
    <2>2. p[2] # q[2] /\ 2 \in 1 .. Len(p) /\ 2 \in 1 .. Len(q)
      BY <2>1
    <2>3. ~IsPrefix(p, q) /\ ~IsPrefix(q, p)
      BY <2>1, <2>2, PrefixElements
    <2>4. QED
      BY <2>3 DEF p, q
  <1>6. QED
    BY <1>1, <1>5 DEF Apart

\* A value under another top-level key is apart from whatever the operator
\* writes of its own accord.
LEMMA OutsideApart ==
    ASSUME NEW p \in Paths, Head(p) # "_exalsius"
    PROVE  /\ \A f \in ToSet(Fields) : Apart(p, ExalsiusPath(f))
           /\ Apart(p, SelectorPath) /\ Apart(p, ResourceNamePath)
           /\ ~IsPrefix(p, PerReplica)
  <1>1. ASSUME NEW q \in Paths, Head(q) = "_exalsius"
        PROVE  Apart(p, q)
    BY <1>1, PathOrder DEF Apart
  <1>2. \A f \in ToSet(Fields) : Apart(p, ExalsiusPath(f))
    BY <1>1, ExalsiusPaths, ExalsiusHead
  <1>3. Apart(p, SelectorPath)
    <2>1. Head(SelectorPath) = "_exalsius"
      BY DEF SelectorPath
    <2>2. QED
      BY <1>1, <2>1, SelectorApart
  <1>4. Apart(p, ResourceNamePath)
    <2>1. Head(ResourceNamePath) = "_exalsius"
      BY ExalsiusHead DEF ResourceNamePath
    <2>2. QED
      BY <1>1, <2>1, SelectorApart
  <1>5. Apart(p, PerReplica)
    <2>1. Head(PerReplica) = "_exalsius"
      BY DEF PerReplica
    <2>2. PerReplica \in Paths
      BY ClassAssumption
    <2>3. QED
      BY <1>1, <2>1, <2>2
  <1>6. QED
    BY <1>2, <1>3, <1>4, <1>5 DEF Apart

(***************************************************************************)
(* A release                                                               *)
(***************************************************************************)
\* What startDeployment makes of a class and of the spec of a workspace.
Resolved(c, u, nodes) == ResolveGPU(MergeResources(c.res, u.res), nodes)
AllInjected(c, u, nodes) ==
    InjectResources(MergeValues(c.values, u.values), Resolved(c, u, nodes), c.paths)
Values(c, u, nodes) ==
    InjectGPUResourceName(InjectNodeSelector(AllInjected(c, u, nodes).values, Resolved(c, u, nodes)),
                          GpuResourceName(MergeResources(c.res, u.res), nodes))

\* The name of the GPU resource a release asks for.
NameFor(res, nodes) == ResourceForVendor(IF nodes # Unset THEN nodes ELSE res["gpuVendor"])

\* The resolved resources: the model is the user's, no value is the selector,
\* the name of the GPU resource is known just when there is a vendor, and that
\* vendor is the nodes' unless the user or the class named it.
LEMMA ResolvedResources ==
    ASSUME NEW c \in ClassSpecs, NEW u \in UserSpecs, NEW nodes \in Vendors \cup {Unset}
    PROVE  LET res == Resolved(c, u, nodes)
           IN  /\ \A f \in ToSet(Fields) : res[f] # "selector"
               /\ res["gpuType"] = u.res["gpuType"]
               /\ GpuResourceName(MergeResources(c.res, u.res), nodes)
                    = IF res["gpuVendor"] # Unset THEN NameFor(res, nodes) ELSE Absent
               /\ \/ res["gpuVendor"] = (IF nodes # Unset THEN nodes ELSE res["gpuVendor"])
                  \/ res["gpuVendor"] \in {u.res["gpuVendor"], c.res["gpuVendor"]} \ {Unset}
  <1> DEFINE merged == MergeResources(c.res, u.res)
             res == Resolved(c, u, nodes)
  <1>1. \A f \in ToSet(Fields) : c.res[f] # "selector" /\ u.res[f] # "selector"
    BY ClassAssumption DEF NotOurs
  <1>2. "gpuVendor" \in ToSet(Fields) /\ "gpuType" \in ToSet(Fields)
    BY ClassAssumption
  <1>3. /\ merged = [f \in ToSet(Fields) |-> merged[f]]
        /\ \A f \in ToSet(Fields) : merged[f] # "selector"
        /\ merged["gpuType"] = u.res["gpuType"]
        /\ merged["gpuVendor"] \in {u.res["gpuVendor"], c.res["gpuVendor"]}
    BY <1>1, <1>2 DEF MergeResources
  <1>4. res = IF nodes # Unset /\ merged["gpuVendor"] = Unset
              THEN [merged EXCEPT !["gpuVendor"] = nodes] ELSE merged
    BY DEF Resolved, ResolveGPU
  <1>5. GpuResourceName(merged, nodes)
          = IF nodes # Unset THEN ResourceForVendor(nodes)
            ELSE IF merged["gpuVendor"] # Unset THEN ResourceForVendor(merged["gpuVendor"])
            ELSE Absent
    BY DEF GpuResourceName
  <1> HIDE DEF merged, res
  <1>6. \A f \in ToSet(Fields) : res[f] # "selector"
    BY <1>3, <1>4 DEF Vendors, Unset
  <1>7. res["gpuType"] = u.res["gpuType"]
    BY <1>2, <1>3, <1>4
  <1>8. res["gpuVendor"] = IF nodes # Unset /\ merged["gpuVendor"] = Unset
                           THEN nodes ELSE merged["gpuVendor"]
    BY <1>2, <1>3, <1>4
  <1>9. GpuResourceName(merged, nodes)
          = IF res["gpuVendor"] # Unset THEN NameFor(res, nodes) ELSE Absent
    BY <1>5, <1>8 DEF NameFor
  <1>10. \/ res["gpuVendor"] = (IF nodes # Unset THEN nodes ELSE res["gpuVendor"])
         \/ res["gpuVendor"] \in {u.res["gpuVendor"], c.res["gpuVendor"]} \ {Unset}
    BY <1>3, <1>8
  <1>11. QED
    BY <1>6, <1>7, <1>9, <1>10 DEF merged, res

\* What the writes of the node selector and of the name of the GPU resource
\* make of the injected values x.
OwnResult(rel, x, res, name) ==
    /\ Tree(rel)
    /\ res["gpuType"] # Unset => rel[SelectorPath] = "selector"
    /\ res["gpuVendor"] # Unset => rel[ResourceNamePath] = name
    /\ \A p \in Paths : /\ res["gpuType"] # Unset => Apart(p, SelectorPath)
                        /\ res["gpuVendor"] # Unset => Apart(p, ResourceNamePath)
                        => rel[p] = x[p]

\* They do that.
LEMMA OwnEffect ==
    ASSUME NEW res, NEW x, Tree(x), NEW name, name # Absent
    PROVE  OwnResult(InjectGPUResourceName(InjectNodeSelector(x, res),
                        IF res["gpuVendor"] # Unset THEN name ELSE Absent), x, res, name)
  <1> DEFINE y == InjectNodeSelector(x, res)
             injected == IF res["gpuVendor"] # Unset THEN name ELSE Absent
             z == InjectGPUResourceName(y, injected)
  <1>1. /\ Tree(y) /\ (res["gpuType"] # Unset => y[SelectorPath] = "selector")
        /\ \A p \in Paths : (res["gpuType"] # Unset => Apart(p, SelectorPath)) => y[p] = x[p]
    <2>1. CASE res["gpuType"] = Unset
      <3>1. y = x
        BY <2>1 DEF InjectNodeSelector
      <3> HIDE DEF y
      <3>2. QED
        BY <2>1, <3>1
    <2>2. CASE res["gpuType"] # Unset
      <3>1. y = SetNestedValue(x, SelectorPath, "selector")
        BY <2>2 DEF InjectNodeSelector
      <3> HIDE DEF y
      <3>2. Tree(y)
        BY <3>1, SelectorApart, TreeSetNestedValue
      <3>3. \A p \in Paths : /\ y[SelectorPath] = "selector"
                             /\ Apart(p, SelectorPath) => y[p] = x[p]
        BY <3>1, SelectorApart, SetLeavesApart
      <3>4. QED
        BY <2>2, <3>2, <3>3, SelectorApart
    <2>3. QED
      BY <2>1, <2>2
  <1> HIDE DEF y
  <1>2. /\ Tree(z) /\ (res["gpuVendor"] # Unset => z[ResourceNamePath] = name)
        /\ \A p \in Paths : (res["gpuVendor"] # Unset => Apart(p, ResourceNamePath)) => z[p] = y[p]
    <2>1. CASE res["gpuVendor"] = Unset
      <3>1. z = y
        BY <2>1 DEF InjectGPUResourceName
      <3> HIDE DEF z
      <3>2. QED
        BY <1>1, <2>1, <3>1
    <2>2. CASE res["gpuVendor"] # Unset
      <3>1. z = SetNestedValue(y, ResourceNamePath, name)
        BY <2>2 DEF InjectGPUResourceName
      <3> HIDE DEF z
      <3>2. Tree(z)
        BY <1>1, <3>1, SelectorApart, TreeSetNestedValue
      <3>3. \A p \in Paths : /\ z[ResourceNamePath] = name
                             /\ Apart(p, ResourceNamePath) => z[p] = y[p]
        BY <3>1, SelectorApart, SetLeavesApart
      <3>4. QED
        BY <2>2, <3>2, <3>3, SelectorApart
    <2>3. QED
      BY <2>1, <2>2
  <1> HIDE DEF z
  <1>3. res["gpuType"] # Unset => z[SelectorPath] = "selector"
    BY <1>1, <1>2, SelectorApart
  <1>4. OwnResult(z, x, res, name)
    BY <1>1, <1>2, <1>3 DEF OwnResult
  <1>5. QED
    BY <1>4 DEF z, y, injected

\* The steps of an injection, as the two loops leave them.
Steps(c, u, nodes, V) ==
    LET res == Resolved(c, u, nodes)
        merged == MergeValues(c.values, u.values)
        standard == InjectStandard(merged, res)
    IN  /\ "selector" \notin V
        /\ StandardResult(standard, EnsureMap(merged, PerReplica), res, V)
        /\ ClassResult(AllInjected(c, u, nodes), [values |-> standard, warned |-> {}], res, c.paths, V)

\* An injection takes those steps, with values none of which is the selector.
LEMMA InjectionSteps ==
    ASSUME NEW c \in ClassSpecs, NEW u \in UserSpecs, NEW nodes \in Vendors \cup {Unset}
    PROVE  \E V : Steps(c, u, nodes, V)
  <1> DEFINE res == Resolved(c, u, nodes)
             merged == MergeValues(c.values, u.values)
             base == EnsureMap(merged, PerReplica)
             standard == InjectStandard(merged, res)
             start == [values |-> standard, warned |-> {}]
             V == {merged[p] : p \in Paths} \cup {res[f] : f \in ToSet(Fields)} \cup {"map", Absent}
  <1>1. Tree(c.values) /\ Tree(u.values)
    BY ClassAssumption
  <1>2. Tree(merged)
    BY <1>1, TreeMergeValues
  <1>3. \A p \in Paths : c.values[p] # "selector" /\ u.values[p] # "selector"
    BY ClassAssumption DEF NotOurs
  <1>4. \A p \in Paths : merged[p] # "selector"
    BY <1>3 DEF MergeValues
  <1>5. \A f \in ToSet(Fields) : res[f] # "selector"
    BY ResolvedResources
  <1>6. /\ merged = [p \in Paths |-> merged[p]]
        /\ base = [p \in Paths |-> IF IsPrefix(p, PerReplica) THEN "map" ELSE merged[p]]
    BY DEF MergeValues, EnsureMap
  <1>7. AllInjected(c, u, nodes) = InjectPaths(start, res, c.paths)
    BY InjectResourcesIs DEF AllInjected
  <1> HIDE DEF merged, res
  <1>8. "selector" \notin V
    BY <1>4, <1>5 DEF Absent
  <1>9. Resources(res, V)
    BY DEF Resources
  <1>10. Tree(base)
    BY <1>2, TreeEnsureMap
  <1>11. base \in [Paths -> V]
    BY <1>6
  <1>12. base \in Trees(V)
    <2> HIDE DEF base, V
    <2>1. QED
      BY <1>10, <1>11 DEF Trees
  <1> HIDE DEF V
  <1>13. StandardResult(standard, base, res, V)
    BY <1>9, <1>12, StandardEffect
  <1>14. Healthy(start, V)
    <2> HIDE DEF standard
    <2>1. standard \in [Paths -> V] /\ Tree(standard)
      BY <1>13 DEF StandardResult, Trees
    <2>2. QED
      BY <2>1 DEF Healthy, States
  <1>15. Arguments(res, c.paths, V)
    BY <1>9, ClassAssumption DEF Arguments, Resources
  <1> HIDE DEF start
  <1>16. ClassResult(InjectPaths(start, res, c.paths), start, res, c.paths, V)
    BY <1>14, <1>15, ClassEffect
  <1>17. Steps(c, u, nodes, V)
    BY <1>7, <1>8, <1>13, <1>16 DEF Steps, start, standard, base, merged, res
  <1>18. QED
    BY <1>17

\* What InjectionWins and ValuesKept say of a release rel made from c and u,
\* with the resources and warnings of a status.
Written(f, res, nodes) ==
    CASE f = "selector" -> "selector"
      [] f = "resource" -> NameFor(res, nodes)
      [] OTHER -> res[f]
WinsFor(rel, c, u, res, nodes) ==
    /\ \A w \in Writes(c, res) :
          (\A x \in Writes(c, res) \ {w} : Apart(w[2], x[2]))
             => rel[w[2]] = Written(w[1], res, nodes)
    /\ (rel[SelectorPath] = "selector") = (u.res["gpuType"] # Unset)
    /\ \/ res["gpuVendor"] = (IF nodes # Unset THEN nodes ELSE res["gpuVendor"])
       \/ res["gpuVendor"] \in {u.res["gpuVendor"], c.res["gpuVendor"]} \ {Unset}
KeepsFor(rel, c, u, res, warned) ==
    \A p \in Paths :
        LET source == IF u.values[<<Head(p)>>] # Absent THEN u.values ELSE c.values
        IN  \/ source[p] \in {Absent, "map", rel[p]}
            \/ Head(p) = "_exalsius"
            \/ \E q \in warned \ {Malformed} : IsPrefix(q, p)
            \/ \E w \in Writes(c, res) : IsStrictPrefix(p, w[2])

\* The three kinds of writes.
LEMMA WritesAre ==
    ASSUME NEW c, NEW res
    PROVE  /\ \A w \in Writes(c, res) :
                \/ w \in ToSet(Fields) \X Paths /\ res[w[1]] # Unset
                   /\ (w[2] = ExalsiusPath(w[1]) \/ w[2] \in ToSet(c.paths[w[1]]))
                \/ w = <<"selector", SelectorPath>> /\ res["gpuType"] # Unset
                \/ w = <<"resource", ResourceNamePath>> /\ res["gpuVendor"] # Unset
           /\ \A f \in ToSet(Fields), p \in Paths :
                res[f] # Unset /\ (p = ExalsiusPath(f) \/ p \in ToSet(c.paths[f]))
                   => <<f, p>> \in Writes(c, res)
           /\ res["gpuType"] # Unset => <<"selector", SelectorPath>> \in Writes(c, res)
           /\ res["gpuVendor"] # Unset => <<"resource", ResourceNamePath>> \in Writes(c, res)
  BY DEF Writes

\* Each write that no other touches is in the release, and the selector is
\* there just when the user asked for a model.
LEMMA ReleaseWins ==
    ASSUME NEW c \in ClassSpecs, NEW u \in UserSpecs, NEW nodes \in Vendors \cup {Unset}
    PROVE  /\ Tree(Values(c, u, nodes))
           /\ WinsFor(Values(c, u, nodes), c, u, Resolved(c, u, nodes), nodes)
  <1> DEFINE res == Resolved(c, u, nodes)
             inj == AllInjected(c, u, nodes)
             rel == Values(c, u, nodes)
             merged == MergeValues(c.values, u.values)
             std == InjectStandard(merged, res)
             start == [values |-> std, warned |-> {}]
             paths == c.paths
             name == NameFor(res, nodes)
  <1>1. PICK V : Steps(c, u, nodes, V)
    BY InjectionSteps
  <1>2. /\ "selector" \notin V
        /\ StandardResult(std, EnsureMap(merged, PerReplica), res, V)
        /\ ClassResult(inj, start, res, paths, V)
    BY <1>1 DEF Steps
  <1>3. start.values = std
    OBVIOUS
  <1>4. res["gpuType"] = u.res["gpuType"]
    BY ResolvedResources
  <1>5. rel = InjectGPUResourceName(InjectNodeSelector(inj.values, res),
                 IF res["gpuVendor"] # Unset THEN name ELSE Absent)
    BY ResolvedResources DEF Values
  <1>6. \A f \in ToSet(Fields) : paths[f] \in Seq(Paths \cup {Malformed})
    BY ClassAssumption
  <1>7. \A f \in ToSet(Fields) : f # "selector" /\ f # "resource"
    BY ClassAssumption
  <1>0. name # Absent
    BY DEF NameFor, ResourceForVendor, Absent
  <1> HIDE DEF res, inj, rel, std, start, merged, name
  <1>8. Tree(inj.values) /\ inj.values \in [Paths -> V]
    BY <1>2 DEF ClassResult, Healthy, States
  <1>9. OwnResult(rel, inj.values, res, name)
    BY <1>0, <1>5, <1>8, OwnEffect
  <1>10. ASSUME NEW w \in Writes(c, res), \A x \in Writes(c, res) \ {w} : Apart(w[2], x[2])
         PROVE  rel[w[2]] = Written(w[1], res, nodes)
    <2>1. CASE w = <<"selector", SelectorPath>> /\ res["gpuType"] # Unset
      BY <1>9, <2>1 DEF OwnResult, Written
    <2>2. CASE w = <<"resource", ResourceNamePath>> /\ res["gpuVendor"] # Unset
      BY <1>9, <2>2 DEF OwnResult, Written, name
    <2>3. CASE /\ w \in ToSet(Fields) \X Paths /\ res[w[1]] # Unset
               /\ w[2] = ExalsiusPath(w[1]) \/ w[2] \in ToSet(paths[w[1]])
      <3>1. PICK f \in ToSet(Fields), p \in Paths : w = <<f, p>>
        BY <2>3
      <3>2. /\ w[1] = f /\ w[2] = p /\ res[f] # Unset
            /\ p = ExalsiusPath(f) \/ p \in ToSet(paths[f])
        BY <2>3, <3>1
      <3>3. ASSUME NEW g, NEW q, <<g, q>> \in Writes(c, res)
            PROVE  (g = f /\ q = p) \/ Apart(p, q)
        BY <1>10, <3>1, <3>3
      <3>4. SoleStandard(p, f, res)
        <4>1. ASSUME NEW g \in ToSet(Fields), res[g] # Unset
              PROVE  (g = f /\ ExalsiusPath(g) = p) \/ Apart(p, ExalsiusPath(g))
          <5>1. ExalsiusPath(g) \in Paths
            BY ExalsiusPaths
          <5>2. <<g, ExalsiusPath(g)>> \in Writes(c, res)
            BY <4>1, <5>1, WritesAre
          <5>3. QED
            BY <3>3, <5>2
        <4>2. QED
          BY <4>1 DEF SoleStandard
      <3>5. Sole(p, f, res, paths)
        <4>1. ASSUME NEW g \in ToSet(Fields), res[g] # Unset, NEW q \in ToSet(paths[g])
              PROVE  q = Malformed \/ (q = p /\ g = f) \/ Apart(p, q)
          <5>1. q \in Paths \cup {Malformed}
            <6>1. PICK i \in DOMAIN paths[g] : q = paths[g][i]
              BY DEF ToSet
            <6>2. paths[g] \in Seq(Paths \cup {Malformed})
              BY <1>6
            <6> HIDE DEF paths
            <6>3. QED
              BY <6>1, <6>2, LenProperties, ElementOfSeq
          <5>2. q # Malformed => <<g, q>> \in Writes(c, res)
            BY <4>1, <5>1, WritesAre
          <5>3. QED
            BY <3>3, <5>2
        <4>2. QED
          BY <4>1 DEF Sole
      <3>6. std[p] = IF ExalsiusPath(f) = p THEN res[f] ELSE EnsureMap(merged, PerReplica)[p]
        BY <1>2, <3>2, <3>4 DEF StandardResult
      <3>7. inj.values[p] = IF p \in ToSet(paths[f]) THEN res[f] ELSE std[p]
        BY <1>2, <1>3, <3>2, <3>5 DEF ClassResult
      <3>8. /\ res["gpuType"] # Unset => Apart(p, SelectorPath)
            /\ res["gpuVendor"] # Unset => Apart(p, ResourceNamePath)
        BY <1>7, <3>3, WritesAre
      <3>9. rel[p] = inj.values[p]
        BY <1>9, <3>8 DEF OwnResult
      <3>10. rel[p] = res[f]
        BY <3>2, <3>6, <3>7, <3>9
      <3>11. QED
        BY <1>7, <3>2, <3>10 DEF Written
    <2>4. QED
      BY <2>1, <2>2, <2>3, WritesAre
  <1>11. (rel[SelectorPath] = "selector") = (u.res["gpuType"] # Unset)
    <2>1. CASE res["gpuType"] # Unset
      BY <1>4, <1>9, <2>1 DEF OwnResult
    <2>2. CASE res["gpuType"] = Unset
      <3>1. rel[SelectorPath] = inj.values[SelectorPath]
        BY <1>9, <2>2, SelectorApart DEF OwnResult
      <3>2. inj.values[SelectorPath] \in V
        BY <1>8, SelectorApart
      <3>3. QED
        BY <1>2, <1>4, <2>2, <3>1, <3>2
    <2>3. QED
      BY <2>1, <2>2
  <1>12. WinsFor(rel, c, u, res, nodes)
    <2>1. \/ res["gpuVendor"] = (IF nodes # Unset THEN nodes ELSE res["gpuVendor"])
          \/ res["gpuVendor"] \in {u.res["gpuVendor"], c.res["gpuVendor"]} \ {Unset}
      BY ResolvedResources DEF res
    <2>2. QED
      BY <1>10, <1>11, <2>1 DEF WinsFor
  <1>13. Tree(rel)
    BY <1>9 DEF OwnResult
  <1>14. QED
    BY <1>12, <1>13 DEF rel, res

\* No value disappears from the release unnoticed.
LEMMA ReleaseKeeps ==
    ASSUME NEW c \in ClassSpecs, NEW u \in UserSpecs, NEW nodes \in Vendors \cup {Unset}
    PROVE  KeepsFor(Values(c, u, nodes), c, u, Resolved(c, u, nodes), AllInjected(c, u, nodes).warned)
  <1> DEFINE res == Resolved(c, u, nodes)
             inj == AllInjected(c, u, nodes)
             rel == Values(c, u, nodes)
             merged == MergeValues(c.values, u.values)
             std == InjectStandard(merged, res)
             start == [values |-> std, warned |-> {}]
             paths == c.paths
             name == NameFor(res, nodes)
  <1>1. PICK V : Steps(c, u, nodes, V)
    BY InjectionSteps
  <1>2. /\ StandardResult(std, EnsureMap(merged, PerReplica), res, V)
        /\ ClassResult(inj, start, res, paths, V)
    BY <1>1 DEF Steps
  <1>3. start.values = std
    OBVIOUS
  <1>4. rel = InjectGPUResourceName(InjectNodeSelector(inj.values, res),
                 IF res["gpuVendor"] # Unset THEN name ELSE Absent)
    BY ResolvedResources DEF Values
  <1>5. \A f \in ToSet(Fields) : paths[f] \in Seq(Paths \cup {Malformed})
    BY ClassAssumption
  <1>6. \A p \in Paths : /\ merged[p] = IF u.values[<<Head(p)>>] # Absent
                                        THEN u.values[p] ELSE c.values[p]
                         /\ ~IsPrefix(p, PerReplica) => EnsureMap(merged, PerReplica)[p] = merged[p]
    BY DEF MergeValues, EnsureMap
  <1>0. name # Absent
    BY DEF NameFor, ResourceForVendor, Absent
  <1> HIDE DEF res, inj, rel, std, start, merged, name
  <1>7. Tree(inj.values)
    BY <1>2 DEF ClassResult, Healthy
  <1>8. OwnResult(rel, inj.values, res, name)
    BY <1>0, <1>4, <1>7, OwnEffect
  <1>9. ASSUME NEW p \in Paths, Head(p) # "_exalsius",
               \A w \in Writes(c, res) : ~IsStrictPrefix(p, w[2])
        PROVE  merged[p] \in {Absent, "map", rel[p]} \/ \E q \in inj.warned \ {Malformed} : IsPrefix(q, p)
    <2>1. /\ \A f \in ToSet(Fields) : Apart(p, ExalsiusPath(f))
          /\ Apart(p, SelectorPath) /\ Apart(p, ResourceNamePath) /\ ~IsPrefix(p, PerReplica)
      BY <1>9, OutsideApart
    <2>2. std[p] = merged[p]
      <3>1. SoleStandard(p, "selector", res)
        BY <2>1 DEF SoleStandard
      <3>2. "selector" \notin ToSet(Fields)
        BY ClassAssumption
      <3>3. std[p] = EnsureMap(merged, PerReplica)[p]
        BY <1>2, <3>1, <3>2 DEF StandardResult
      <3>4. QED
        BY <1>6, <2>1, <3>3
    <2>3. OffWay(p, res, paths)
      <3>1. ASSUME NEW g \in ToSet(Fields), res[g] # Unset, NEW q \in ToSet(paths[g])
            PROVE  ~IsStrictPrefix(p, q)
        <4>1. q \in Paths \cup {Malformed}
          <5>1. PICK i \in DOMAIN paths[g] : q = paths[g][i]
            BY DEF ToSet
          <5>2. paths[g] \in Seq(Paths \cup {Malformed})
            BY <1>5
          <5> HIDE DEF paths
          <5>3. QED
            BY <5>1, <5>2, LenProperties, ElementOfSeq
        <4>2. CASE q \in Paths
          <5>1. <<g, q>> \in Writes(c, res)
            BY <3>1, <4>2, WritesAre
          <5>2. QED
            BY <1>9, <5>1
        <4>3. CASE q = Malformed
          <5>1. p \in Seq(STRING) /\ p # << >>
            BY PathOrder
          <5>2. Len(p) \in Nat /\ Len(p) # 0
            BY <5>1, LenProperties, EmptySeq
          <5>3. q \in Seq(STRING) /\ Len(q) = 0
            BY <4>3 DEF Malformed
          <5>4. ~(Len(p) <= Len(q))
            BY <5>2, <5>3
          <5>5. ~IsPrefix(p, q)
            BY <5>1, <5>3, <5>4, PrefixElements
          <5>6. QED
            BY <5>5 DEF IsStrictPrefix
        <4>4. QED
          BY <4>1, <4>2, <4>3
      <3>2. QED
        BY <3>1 DEF OffWay
    <2>4. Kept(merged[p], start, p)
      BY <1>3, <2>2 DEF Kept
    <2>5. Kept(merged[p], inj, p)
      BY <1>2, <2>3, <2>4 DEF ClassResult
    <2>6. rel[p] = inj.values[p]
      BY <1>8, <2>1 DEF OwnResult
    <2>7. QED
      BY <2>5, <2>6 DEF Kept
  <1>10. KeepsFor(rel, c, u, res, inj.warned)
    <2>1. SUFFICES ASSUME NEW p \in Paths
                   PROVE  \/ (IF u.values[<<Head(p)>>] # Absent THEN u.values ELSE c.values)[p]
                               \in {Absent, "map", rel[p]}
                          \/ Head(p) = "_exalsius"
                          \/ \E q \in inj.warned \ {Malformed} : IsPrefix(q, p)
                          \/ \E w \in Writes(c, res) : IsStrictPrefix(p, w[2])
      BY DEF KeepsFor
    <2>2. (IF u.values[<<Head(p)>>] # Absent THEN u.values ELSE c.values)[p] = merged[p]
      BY <1>6
    <2>3. QED
      BY <1>9, <2>2
  <1>11. QED
    BY <1>10 DEF rel, res, inj

(***************************************************************************)
(* The specification                                                       *)
(***************************************************************************)
\* The release bears out what a status w says of it.
BornOut(w) ==
    /\ made.class \in ClassSpecs /\ made.user \in UserSpecs
    /\ WinsFor(release, made.class, made.user, w.resolved, made.nodes)
    /\ KeepsFor(release, made.class, made.user, w.resolved, w.warned)

\* A status has its three fields.
IsStatus(s) ==
    \E v \in BOOLEAN, c \in BOOLEAN : \E e : s = [valid |-> v, error |-> e, current |-> c]

\* The types; and the status that is written, or about to be, is borne out by
\* the release, which is replaced only while the status promises nothing.
Consistent ==
    /\ TypeOK /\ IsStatus(status)
    /\ pass # Idle => \E v, fresh : /\ pass = [step |-> "write", verdict |-> v, fresh |-> fresh]
                                    /\ v.valid \in BOOLEAN
    /\ job # Idle => job.phase = "Deploying" /\ wsd.phase = "Pending" /\ BornOut(job)
    /\ wsd.phase = "Deploying" => BornOut(wsd)

\* Nothing is deployed at the start.
LEMMA ConsistentInit == Init => Consistent
  <1> SUFFICES ASSUME Init PROVE Consistent
    OBVIOUS
  <1>1. Tree(release)
    BY DEF Init, NoRelease, Tree
  <1>2. TypeOK
    BY <1>1 DEF Init, TypeOK, NoClass, NoUser, NotMade, NoStatus, Pending
  <1>3. QED
    BY <1>2 DEF Init, Consistent, Pending, IsStatus, NoStatus

\* A verdict is valid or not.
LEMMA VerdictType == \A c : \A v \in Verdicts(c) : v.valid \in BOOLEAN
  <1>1. ASSUME NEW c, NEW v \in Verdicts(c)
        PROVE  \E b \in BOOLEAN : \E e : v = [valid |-> b, error |-> e]
    <2>1. \/ \E e : v = [valid |-> FALSE, error |-> e]
          \/ v = [valid |-> TRUE, error |-> ""]
      <3>1. CASE template[TemplateNamespace(c)] # "valid"
        BY <3>1 DEF Verdicts
      <3>2. CASE template[TemplateNamespace(c)] = "valid" /\ MalformedFields(c) # {}
        BY <3>2 DEF Verdicts
      <3>3. CASE template[TemplateNamespace(c)] = "valid" /\ MalformedFields(c) = {}
        BY <3>3 DEF Verdicts
      <3>4. QED
        BY <3>1, <3>2, <3>3
    <2>2. QED
      BY <2>1
  <1>2. QED
    BY <1>1

\* Every step keeps it so.
LEMMA ConsistentStep ==
    ASSUME Consistent, [Next]_vars
    PROVE  Consistent'
  <1> DEFINE PassOK == pass # Idle => \E v, fresh :
                /\ pass = [step |-> "write", verdict |-> v, fresh |-> fresh] /\ v.valid \in BOOLEAN
             JobOK == job # Idle => job.phase = "Deploying" /\ wsd.phase = "Pending" /\ BornOut(job)
             WsdOK == wsd.phase = "Deploying" => BornOut(wsd)
             Ours == UNCHANGED wsdVars
             Theirs == UNCHANGED classVars
             ClassOK == /\ template \in [Namespaces -> {"absent", "invalid", "valid"}]
                        /\ class \in ClassSpecs \cup {NoClass}
                        /\ IsStatus(status) /\ queued \in BOOLEAN
             UserOK == /\ made.class \in ClassSpecs \cup {NoClass}
                       /\ user \in UserSpecs \cup {NoUser} /\ made.user \in UserSpecs \cup {NoUser}
                       /\ wsd.phase \in {"Pending", "Deploying"} /\ made.nodes \in Vendors \cup {Unset}
                       /\ Tree(release)
  <1>1. ClassOK /\ PassOK /\ UserOK /\ JobOK /\ WsdOK
    BY DEF Consistent, TypeOK
  <1>2. ASSUME (ClassOK /\ PassOK)', (UserOK /\ JobOK /\ WsdOK)'
        PROVE  Consistent'
    <2>1. (status.valid \in BOOLEAN /\ status.current \in BOOLEAN)'
      BY <1>2 DEF IsStatus
    <2>2. QED
      BY <1>2, <2>1 DEF Consistent, TypeOK
  <1>3. Ours => (UserOK /\ JobOK /\ WsdOK)'
    BY <1>1 DEF wsdVars, Tree, BornOut
  <1>4. Theirs => (ClassOK /\ PassOK)'
    BY <1>1 DEF classVars
  <1>5. CASE ReconcileClass
    <2>1. ClassOK' /\ Ours
      BY <1>1, <1>5 DEF ReconcileClass
    <2>2. PassOK'
      <3>1. CASE class = NoClass
        BY <1>1, <1>5, <3>1 DEF ReconcileClass
      <3>2. CASE class # NoClass
        <4>1. PICK v \in Verdicts(class) :
                 pass' = IF Recorded(v) THEN Idle
                         ELSE [step |-> "write", verdict |-> v, fresh |-> TRUE]
          BY <1>5, <3>2 DEF ReconcileClass
        <4>2. v.valid \in BOOLEAN
          BY VerdictType
        <4>3. QED
          BY <4>1, <4>2
      <3>3. QED
        BY <3>1, <3>2
    <2>3. QED
      BY <1>2, <1>3, <2>1, <2>2
  <1>6. CASE UpdateStatus
    <2>1. PICK v, fresh : pass = [step |-> "write", verdict |-> v, fresh |-> fresh]
                          /\ v.valid \in BOOLEAN
      BY <1>1, <1>6 DEF UpdateStatus
    <2>2. status' = (IF fresh THEN [valid |-> v.valid, error |-> v.error, current |-> TRUE]
                     ELSE status)
      BY <1>6, <2>1 DEF UpdateStatus
    <2>3. IsStatus(status')
      BY <1>1, <2>1, <2>2 DEF IsStatus
    <2>4. ClassOK' /\ PassOK' /\ Ours
      BY <1>1, <1>6, <2>3 DEF UpdateStatus
    <2>5. QED
      BY <1>2, <1>3, <2>4
  <1>7. CASE DeleteClass \/ \E c \in ClassSpecs : EditClass(c)
    <2>1. Stale /\ Ours
      BY <1>7 DEF DeleteClass, EditClass
    <2>2. PassOK'
      <3>1. CASE pass = Idle
        BY <2>1, <3>1 DEF Stale
      <3>2. CASE pass # Idle
        <4>1. PICK v, fresh : pass = [step |-> "write", verdict |-> v, fresh |-> fresh]
                              /\ v.valid \in BOOLEAN
          BY <1>1, <3>2
        <4>2. pass' = [step |-> "write", verdict |-> v, fresh |-> FALSE]
          BY <2>1, <3>2, <4>1 DEF Stale
        <4>3. QED
          BY <4>1, <4>2
      <3>3. QED
        BY <3>1, <3>2
    <2>3. status' = NoStatus \/ status' = [status EXCEPT !.current = FALSE]
      BY <1>7 DEF DeleteClass, EditClass
    <2>4. IsStatus(status')
      <3>0. PICK v \in BOOLEAN, c \in BOOLEAN :
               \E e : status = [valid |-> v, error |-> e, current |-> c]
        BY <1>1 DEF IsStatus
      <3>1. PICK e : status = [valid |-> v, error |-> e, current |-> c]
        BY <3>0
      <3>2. \/ status' = [valid |-> FALSE, error |-> "", current |-> FALSE]
            \/ status' = [valid |-> v, error |-> e, current |-> FALSE]
        BY <2>3, <3>1 DEF NoStatus
      <3>3. QED
        BY <3>2 DEF IsStatus
    <2>5. ClassOK'
      BY <1>1, <1>7, <2>4 DEF DeleteClass, EditClass
    <2>6. QED
      BY <1>2, <1>3, <2>1, <2>2, <2>5
  <1>8. CASE \E ns \in Namespaces, s \in {"absent", "invalid", "valid"} : TemplateChanges(ns, s)
    <2>1. ClassOK' /\ PassOK' /\ Ours
      BY <1>1, <1>8 DEF TemplateChanges
    <2>2. QED
      BY <1>2, <1>3, <2>1
  <1>9. CASE StartDeployment
    <2>1. /\ user \in UserSpecs /\ class \in ClassSpecs /\ wsd.phase = "Pending"
          /\ wsd' = wsd /\ user' = user /\ Theirs
      BY <1>1, <1>9 DEF StartDeployment
    <2>2. PICK nodes \in Vendors \cup {Unset} :
             /\ release' = Values(class, user, nodes)
             /\ made' = [class |-> class, user |-> user, nodes |-> nodes]
             /\ job' = [phase |-> "Deploying", resolved |-> Resolved(class, user, nodes),
                        warned |-> AllInjected(class, user, nodes).warned]
      BY <1>9 DEF StartDeployment, NodesFound, EnsureServiceSet, Values, Resolved, AllInjected
    <2>3. /\ Tree(release')
          /\ WinsFor(release', class, user, Resolved(class, user, nodes), nodes)
      BY <2>1, <2>2, ReleaseWins
    <2>4. KeepsFor(release', class, user, Resolved(class, user, nodes),
                   AllInjected(class, user, nodes).warned)
      BY <2>1, <2>2, ReleaseKeeps
    <2>5. /\ made'.class = class /\ made'.user = user /\ made'.nodes = nodes
          /\ job'.resolved = Resolved(class, user, nodes)
          /\ job'.warned = AllInjected(class, user, nodes).warned
          /\ job'.phase = "Deploying"
      BY <2>2
    <2>6. BornOut(job)'
      BY <2>1, <2>3, <2>4, <2>5 DEF BornOut
    <2>7. JobOK' /\ WsdOK'
      BY <2>1, <2>5, <2>6
    <2>8. UserOK'
      BY <1>1, <2>1, <2>3, <2>5
    <2>9. QED
      BY <1>2, <1>4, <2>1, <2>7, <2>8
  <1>10. CASE WriteDeploying
    <2>1. /\ job # Idle /\ wsd' = job /\ job' = Idle /\ release' = release /\ made' = made
          /\ user' = user /\ Theirs
      BY <1>10 DEF WriteDeploying
    <2>2. BornOut(job) /\ job.phase = "Deploying"
      BY <1>1, <2>1
    <2>3. BornOut(wsd)'
      BY <2>1, <2>2 DEF BornOut
    <2>4. (UserOK /\ JobOK /\ WsdOK)'
      BY <1>1, <2>1, <2>2, <2>3
    <2>5. QED
      BY <1>2, <1>4, <2>1, <2>4
  <1>11. CASE DeployingLost \/ StartOver \/ \E u \in UserSpecs : EditWorkspace(u)
    <2>1. /\ release' = release /\ made' = made /\ Theirs
          /\ job' = Idle \/ job' = job
          /\ wsd' = wsd \/ wsd' = Pending
          /\ user' \in UserSpecs \cup {NoUser}
      BY <1>1, <1>11 DEF DeployingLost, StartOver, EditWorkspace
    <2>2. Pending.phase = "Pending"
      BY DEF Pending
    <2>3. UserOK'
      BY <1>1, <2>1, <2>2
    <2>4. JobOK'
      BY <1>1, <2>1, <2>2 DEF BornOut
    <2>5. WsdOK'
      BY <1>1, <2>1, <2>2 DEF BornOut
    <2>6. QED
      BY <1>2, <1>4, <2>1, <2>3, <2>4, <2>5
  <1>12. CASE DeleteWorkspace
    <2>1. Tree(NoRelease)
      BY DEF NoRelease, Tree
    <2>2. /\ release' = NoRelease /\ made' = NotMade /\ Theirs /\ job' = job /\ job = Idle
          /\ wsd' = Pending /\ user' = NoUser
      BY <1>12 DEF DeleteWorkspace
    <2>3. (UserOK /\ JobOK /\ WsdOK)'
      BY <1>1, <2>1, <2>2 DEF NotMade, Pending
    <2>4. QED
      BY <1>2, <1>4, <2>2, <2>3
  <1>13. CASE UNCHANGED vars
    BY <1>2, <1>3, <1>4, <1>13 DEF vars
  <1>14. QED
    BY <1>5, <1>6, <1>7, <1>8, <1>9, <1>10, <1>11, <1>12, <1>13 DEF Next

\* Every variable keeps its type; the values of a release are a tree, whatever
\* admins and users wrote and whatever paths the class names.
THEOREM TypeOKHolds == Spec => []TypeOK
  <1>1. Consistent => TypeOK
    BY DEF Consistent
  <1>2. QED
    BY <1>1, ConsistentInit, ConsistentStep, PTL DEF Spec

\* A deploying workspace runs with what its status says: every resolved resource
\* is where the operator and the class put it, as long as no other write is in
\* its way, and the node selector is there just when the user asked for a model;
\* the GPU resource it requests is that of the nodes found, or of the vendor in the
\* status, and the two differ only if the class or the user named a vendor.
THEOREM InjectionWinsHolds == Spec => []InjectionWins
  <1>1. Consistent => InjectionWins
    BY DEF Consistent, BornOut, WinsFor, Written, NameFor, InjectionWins, ServedVendor
  <1>2. QED
    BY <1>1, ConsistentInit, ConsistentStep, PTL DEF Spec

\* Nothing a user or a class wrote disappears from the release of a deploying
\* workspace without a warning that names the path that replaced it.
THEOREM ValuesKeptHolds == Spec => []ValuesKept
  <1>1. Consistent => ValuesKept
    BY DEF Consistent, BornOut, KeepsFor, ValuesKept
  <1>2. QED
    BY <1>1, ConsistentInit, ConsistentStep, PTL DEF Spec

==============================================================================
