-------------------------- MODULE CachedStoreProofs --------------------------
(*****************************************************************************)
(* That the cache, the batches and the documents are one value per key, for  *)
(* any number of goroutines, calls, failures and restarts, any keys and any  *)
(* batch limit: what a batch is formatted to makes of the documents what its *)
(* operations make of the keys (PlanResolves), so that a batch can be        *)
(* performed again from its start (AgainFromTheStart); the inductive         *)
(* invariant (IInv); what a restart can go back to, and the steps of KeyValue.*)
(*****************************************************************************)
EXTENDS CachedStore, SequenceLemmas, FiniteSetTheorems

-----------------------------------------------------------------------------
(*****************************************************************************)
(* What the keys hold after some operations, one by one: After is a fold,    *)
(* a run through its elements.                                               *)
(*****************************************************************************)
Contents == [Keys -> Values \cup {Absent}]

LEMMA AfterSteps ==
    ASSUME NEW content \in Contents, NEW ops \in Seq(Operations)
    PROVE  \E f \in [0..Len(ops) -> Contents] :
              /\ f[0] = content
              /\ \A k \in 1..Len(ops) : f[k] = Then(f[k - 1], ops[k])
              /\ After(content, ops) = f[Len(ops)]
  <1>1. PICK n \in Nat : n = Len(ops) /\ DOMAIN ops = 1..n
    BY LenProperties
  <1>2. PICK step : step = [p \in Contents \X (1..n) |-> Then(p[1], ops[p[2]])]
    OBVIOUS
  <1>3. \A i \in 1..n : ops[i] \in Operations
    BY <1>1, ElementOfSeq
  <1>4. ASSUME NEW c \in Contents, NEW i \in 1..n PROVE Then(c, ops[i]) \in Contents
    BY <1>3 DEF Then, Contents, Operations
  <1>5. step \in [Contents \X (1..n) -> Contents]
    BY <1>2, <1>4
  <1>6. PICK g \in [SUBSET (1..n) -> Contents] : FoldsBy(g, content, step, n)
    BY <1>5, FoldExists DEF Foldable
  <1>7. g = [s \in SUBSET DOMAIN ops |-> IF s = {} THEN content ELSE
                LET x == Max(s) IN Then(g[s \ {x}], ops[x])]
    <2>1. ASSUME NEW s \in SUBSET (1..n), s # {}
          PROVE  g[s] = Then(g[s \ {Max(s)}], ops[Max(s)])
      <3>1. Max(s) \in 1..n
        BY <2>1, MaxIsSome
      <3>2. g[s] = step[<<g[s \ {Max(s)}], Max(s)>>]
        BY <1>6, <2>1 DEF FoldsBy
      <3> QED
        BY <1>2, <3>1, <3>2
    <2>2. \A s \in SUBSET (1..n) : s = {} => g[s] = content
      BY <1>6 DEF FoldsBy
    <2> QED
      BY <1>1, <2>1, <2>2
  <1>8. PICK it : /\ After(content, ops) = it[DOMAIN ops]
                  /\ it = CHOOSE h : h = [s \in SUBSET DOMAIN ops |-> IF s = {} THEN content ELSE
                        LET x == Max(s) IN Then(h[s \ {x}], ops[x])]
    BY Zenon DEF After, FoldLeft, MapThenFoldSet
  <1>9. it = [s \in SUBSET (1..n) |-> IF s = {} THEN content ELSE
                LET x == Max(s) IN Then(it[s \ {x}], ops[x])]
    BY <1>1, <1>7, <1>8, Zenon
  <1>10. Follows(it, Contents, step, n)
    <2>1. SUFFICES ASSUME NEW s \in SUBSET (1..n), s # {}, it[s \ {Max(s)}] \in Contents
                   PROVE  it[s] = step[<<it[s \ {Max(s)}], Max(s)>>]
      BY DEF Follows
    <2>2. Max(s) \in 1..n
      BY <2>1, MaxIsSome
    <2>3. it[s] = Then(it[s \ {Max(s)}], ops[Max(s)])
      BY <1>9, <2>1, Zenon
    <2> QED
      BY <1>2, <2>1, <2>2, <2>3
  <1>11. PICK f \in [0..n -> Contents] :
              /\ f[0] = content /\ f[n] = it[1..n]
              /\ \A k \in 1..n : f[k] = step[<<f[k - 1], k>>]
    <2>1. {} \in SUBSET (1..n)
      OBVIOUS
    <2>2. it[{}] = content
      BY <1>9, <2>1, Zenon
    <2>3. RunsTo(it[1..n], Contents, content, step, n)
      BY <1>5, <1>10, <2>2, FoldRuns
    <2> QED
      BY <2>3 DEF RunsTo
  <1>12. ASSUME NEW k \in 1..n PROVE f[k] = Then(f[k - 1], ops[k])
    <2>1. k - 1 \in 0..n
      OBVIOUS
    <2>2. f[k - 1] \in Contents /\ f[k] = step[<<f[k - 1], k>>]
      BY <1>11, <2>1
    <2> QED
      BY <1>2, <2>2
  <1>13. After(content, ops) = f[n]
    BY <1>1, <1>8, <1>11, Zenon
  <1> QED
    BY <1>1, <1>11, <1>12, <1>13

LEMMA AfterTyped ==
    ASSUME NEW content \in Contents, NEW ops \in Seq(Operations)
    PROVE  After(content, ops) \in Contents
  <1>1. Len(ops) \in Nat
    BY LenProperties
  <1>2. PICK f \in [0..Len(ops) -> Contents] : After(content, ops) = f[Len(ops)]
    BY AfterSteps
  <1> QED
    BY <1>1, <1>2

LEMMA AfterAppend ==
    ASSUME NEW content \in Contents, NEW ops \in Seq(Operations), NEW o \in Operations
    PROVE  /\ After(content, ops) \in Contents
           /\ After(content, Append(ops, o)) = Then(After(content, ops), o)
  <1>1. PICK n \in Nat : n = Len(ops)
    BY LenProperties
  <1>2. PICK s : s = Append(ops, o)
    OBVIOUS
  <1>3. s \in Seq(Operations) /\ Len(s) = n + 1 /\ s[n + 1] = o /\ \A i \in 1..n : s[i] = ops[i]
    BY <1>1, <1>2, AppendProperties
  <1>4. PICK f \in [0..n -> Contents] :
              /\ f[0] = content /\ After(content, ops) = f[n]
              /\ \A k \in 1..n : f[k] = Then(f[k - 1], ops[k])
    BY <1>1, AfterSteps
  <1>5. PICK h \in [0..n + 1 -> Contents] :
              /\ h[0] = content /\ After(content, s) = h[n + 1]
              /\ \A k \in 1..n + 1 : h[k] = Then(h[k - 1], s[k])
    BY <1>3, AfterSteps
  <1>6. f[n] = h[n]
    <2>1. \A k \in 1..n : k \in 1..n + 1 /\ (f[k - 1] = h[k - 1] => f[k] = h[k])
      BY <1>3, <1>4, <1>5
    <2> QED
      BY <1>4, <1>5, <2>1, RunsAgree
  <1>7. h[n + 1] = Then(h[n], o)
    BY <1>3, <1>5
  <1> QED
    BY <1>2, <1>4, <1>5, <1>6, <1>7

LEMMA AfterNothing ==
    ASSUME NEW content \in Contents
    PROVE  After(content, <<>>) = content
  <1>1. <<>> \in Seq(Operations) /\ Len(<<>>) = 0
    BY EmptySeq
  <1>2. PICK f \in [0..Len(<<>>) -> Contents] :
              f[0] = content /\ After(content, <<>>) = f[Len(<<>>)]
    BY <1>1, AfterSteps
  <1> QED
    BY <1>1, <1>2

-----------------------------------------------------------------------------
(*****************************************************************************)
(* A plan: the formatted operations so far and the document ids of the keys  *)
(* they were for, with which the following operations are formatted.         *)
(*****************************************************************************)
FormattedOps == Documents \cup [id : Nat \ {0}, val : {Absent}]
Resolutions  == UNION {[D -> Nat] : D \in SUBSET Keys}
PlanStates   == [ops : Seq(FormattedOps), resolved : Resolutions]

\* There is always a new id.
LEMMA NewIDIsNew ==
    ASSUME docs \subseteq Documents, IsFiniteSet(docs), NEW st \in PlanStates
    PROVE  /\ NewID(st) \in Nat \ {0}
           /\ \A d \in docs : d.id # NewID(st)
           /\ \A i \in 1..Len(st.ops) : st.ops[i].id # NewID(st)
  <1>1. PICK n \in Nat : n = Len(st.ops) /\ DOMAIN st.ops = 1..n
    BY LenProperties DEF PlanStates
  <1>2. PICK old : old = {d.id : d \in docs}
    OBVIOUS
  <1>3. PICK planned : planned = {st.ops[i].id : i \in 1..n}
    OBVIOUS
  <1>4. IsFiniteSet(old) /\ Cardinality(old) <= Cardinality(docs) /\ Cardinality(docs) \in Nat
    <2>1. PICK f : f = [d \in docs |-> d.id]
      OBVIOUS
    <2>2. f \in Surjection(docs, old)
      BY <1>2, <2>1 DEF Surjection
    <2> QED
      BY <2>2, FS_Surjection, FS_CardinalityType
  <1>5. IsFiniteSet(planned) /\ Cardinality(planned) <= n
    <2>1. PICK f : f = [i \in 1..n |-> st.ops[i].id]
      OBVIOUS
    <2>2. f \in Surjection(1..n, planned)
      BY <1>3, <2>1 DEF Surjection
    <2>3. IsFiniteSet(1..n) /\ Cardinality(1..n) = n
      BY FS_Interval
    <2> QED
      BY <2>2, <2>3, FS_Surjection
  <1>6. PICK m \in Nat : m = Cardinality(docs) + n + 1
    BY <1>4
  <1>7. \E k \in 1..m : k \notin old \cup planned
    <2>1. SUFFICES ASSUME 1..m \subseteq old \cup planned PROVE FALSE
      OBVIOUS
    <2>2. IsFiniteSet(old \cup planned)
          /\ Cardinality(old \cup planned)
                 = Cardinality(old) + Cardinality(planned) - Cardinality(old \cap planned)
      BY <1>4, <1>5, FS_Union
    <2>3. IsFiniteSet(old \cap planned)
      BY <1>4, FS_Subset
    <2>4. /\ Cardinality(old) \in Nat /\ Cardinality(planned) \in Nat
          /\ Cardinality(old \cap planned) \in Nat
      BY <1>4, <1>5, <2>3, FS_CardinalityType
    <2>5. Cardinality(1..m) = m
      BY FS_Interval
    <2>6. Cardinality(1..m) <= Cardinality(old \cup planned)
      BY <2>1, <2>2, FS_Subset
    <2> QED
      BY <1>4, <1>5, <1>6, <2>2, <2>4, <2>5, <2>6
  <1>8. NewID(st) = CHOOSE k \in 1..m : k \notin old \cup planned
    BY <1>1, <1>2, <1>3, <1>6, Zenon DEF NewID
  <1>9. NewID(st) \in 1..m /\ NewID(st) \notin old \cup planned
    BY <1>7, <1>8
  <1> QED
    BY <1>1, <1>2, <1>3, <1>9

\* 0 stands for a key without a document.
LEMMA FormattedKeyIsNumber ==
    ASSUME docs \subseteq Documents, NEW st \in PlanStates, NEW key \in Keys
    PROVE  FormattedKey(st, key) \in Nat
  <1>1. CASE key \in DOMAIN st.resolved
    BY <1>1 DEF FormattedKey, PlanStates, Resolutions
  <1>2. CASE key \notin DOMAIN st.resolved /\ Query(key) # {}
    <2>1. PICK d : d = (CHOOSE e \in Query(key) : TRUE)
      OBVIOUS
    <2>2. d \in Documents
      BY <1>2, <2>1 DEF Query
    <2>3. FormattedKey(st, key) = d.id
      BY <1>2, <2>1 DEF FormattedKey
    <2> QED
      BY <2>2, <2>3 DEF Documents
  <1>3. CASE key \notin DOMAIN st.resolved /\ Query(key) = {}
    BY <1>3 DEF FormattedKey
  <1> QED
    BY <1>1, <1>2, <1>3

LEMMA ResolvedIs ==
    ASSUME NEW st \in PlanStates, NEW key \in Keys, NEW id \in Nat
    PROVE  /\ Resolved(st, key, id) \in Resolutions
           /\ DOMAIN Resolved(st, key, id) = DOMAIN st.resolved \cup {key}
           /\ Resolved(st, key, id)[key] = id
           /\ \A k \in DOMAIN st.resolved : k # key => Resolved(st, key, id)[k] = st.resolved[k]
  <1>1. PICK D \in SUBSET Keys : st.resolved \in [D -> Nat]
    BY DEF PlanStates, Resolutions
  <1>2. Resolved(st, key, id) \in [D \cup {key} -> Nat]
    BY <1>1 DEF Resolved
  <1>3. Resolved(st, key, id) \in Resolutions
    BY <1>2 DEF Resolutions
  <1> QED
    BY <1>3 DEF Resolved

\* What an operation is formatted to, and resolved.
LEMMA PutIs ==
    ASSUME docs \subseteq Documents, IsFiniteSet(docs), NEW st \in PlanStates,
           NEW o \in Operations, o.val # Absent
    PROVE  \E id \in Nat \ {0}, f \in Documents :
              /\ id = IF FormattedKey(st, o.key) = 0 THEN NewID(st) ELSE FormattedKey(st, o.key)
              /\ f.id = id /\ f.tag = o.key /\ f.val = o.val
              /\ Planned(st, o).ops = Append(st.ops, f)
              /\ Planned(st, o).resolved = Resolved(st, o.key, id)
              /\ Planned(st, o) \in PlanStates
  <1>1. o.key \in Keys /\ o.val \in Values
    BY DEF Operations
  <1>2. PICK id : id = IF FormattedKey(st, o.key) = 0 THEN NewID(st) ELSE FormattedKey(st, o.key)
    OBVIOUS
  <1>3. id \in Nat \ {0}
    BY <1>1, <1>2, NewIDIsNew, FormattedKeyIsNumber
  <1>4. PICK f : f = [id |-> id, tag |-> o.key, val |-> o.val]
    OBVIOUS
  <1>5. f \in Documents /\ f.id = id /\ f.tag = o.key /\ f.val = o.val
    BY <1>1, <1>3, <1>4 DEF Documents
  <1>6. Formatted(st, o) = f
    BY <1>2, <1>4, Zenon DEF Formatted
  <1>7. Planned(st, o) = [ops |-> Append(st.ops, f), resolved |-> Resolved(st, o.key, id)]
    <2>1. Planned(st, o) = PutOperation(st, o)
      BY DEF Planned
    <2> QED
      BY <1>5, <1>6, <2>1, Zenon DEF PutOperation
  <1>8. Append(st.ops, f) \in Seq(FormattedOps)
    BY <1>5, AppendProperties DEF PlanStates, FormattedOps
  <1>9. Resolved(st, o.key, id) \in Resolutions
    BY <1>1, <1>3, ResolvedIs
  <1> QED
    BY <1>2, <1>3, <1>5, <1>7, <1>8, <1>9 DEF PlanStates

LEMMA DeleteIs ==
    ASSUME docs \subseteq Documents, NEW st \in PlanStates, NEW o \in Operations, o.val = Absent
    PROVE  /\ FormattedKey(st, o.key) = 0 => Planned(st, o) = st
           /\ FormattedKey(st, o.key) # 0 =>
                 \E f \in FormattedOps :
                    /\ f.id = FormattedKey(st, o.key) /\ f.val = Absent
                    /\ Planned(st, o).ops = Append(st.ops, f)
                    /\ Planned(st, o).resolved = Resolved(st, o.key, 0)
                    /\ Planned(st, o) \in PlanStates
  <1>1. o.key \in Keys
    BY DEF Operations
  <1>2. Planned(st, o) = DeleteOperation(st, o)
    BY DEF Planned
  <1>3. CASE FormattedKey(st, o.key) = 0
    BY <1>2, <1>3, Zenon DEF DeleteOperation
  <1>4. CASE FormattedKey(st, o.key) # 0
    <2>1. PICK id \in Nat \ {0} : id = FormattedKey(st, o.key)
      BY <1>1, <1>4, FormattedKeyIsNumber
    <2>2. PICK f : f = [id |-> id, val |-> Absent]
      OBVIOUS
    <2>3. f \in FormattedOps /\ f.id = id /\ f.val = Absent
      BY <2>1, <2>2 DEF FormattedOps
    <2>4. Planned(st, o) = [ops |-> Append(st.ops, f), resolved |-> Resolved(st, o.key, 0)]
      BY <1>2, <1>4, <2>1, <2>2, Zenon DEF DeleteOperation
    <2>5. Append(st.ops, f) \in Seq(FormattedOps) /\ Resolved(st, o.key, 0) \in Resolutions
      BY <1>1, <2>3, ResolvedIs, AppendProperties DEF PlanStates
    <2> QED
      BY <1>4, <2>1, <2>3, <2>4, <2>5 DEF PlanStates
  <1> QED
    BY <1>3, <1>4

-----------------------------------------------------------------------------
(*****************************************************************************)
(* Performing formatted operations, and formatting a batch, are runs as well.*)
(*****************************************************************************)
DocumentSets == SUBSET Documents

LEMMA PerformSteps ==
    ASSUME NEW ds \in DocumentSets, NEW fops \in Seq(FormattedOps)
    PROVE  \E f \in [0..Len(fops) -> DocumentSets] :
              /\ f[0] = ds
              /\ \A k \in 1..Len(fops) : f[k] = Performed(f[k - 1], fops[k])
              /\ Perform(ds, fops) = f[Len(fops)]
  <1>1. PICK n \in Nat : n = Len(fops) /\ DOMAIN fops = 1..n
    BY LenProperties
  <1>2. PICK step : step = [p \in DocumentSets \X (1..n) |-> Performed(p[1], fops[p[2]])]
    OBVIOUS
  <1>3. \A i \in 1..n : fops[i] \in FormattedOps
    BY <1>1, ElementOfSeq
  <1>4. ASSUME NEW c \in DocumentSets, NEW i \in 1..n PROVE Performed(c, fops[i]) \in DocumentSets
    BY <1>3 DEF Performed, FormattedOps, DocumentSets
  <1>5. step \in [DocumentSets \X (1..n) -> DocumentSets]
    BY <1>2, <1>4
  <1>6. PICK g \in [SUBSET (1..n) -> DocumentSets] : FoldsBy(g, ds, step, n)
    BY <1>5, FoldExists DEF Foldable
  <1>7. g = [s \in SUBSET DOMAIN fops |-> IF s = {} THEN ds ELSE
                LET x == Max(s) IN Performed(g[s \ {x}], fops[x])]
    <2>1. ASSUME NEW s \in SUBSET (1..n), s # {}
          PROVE  g[s] = Performed(g[s \ {Max(s)}], fops[Max(s)])
      <3>1. Max(s) \in 1..n
        BY <2>1, MaxIsSome
      <3>2. g[s] = step[<<g[s \ {Max(s)}], Max(s)>>]
        BY <1>6, <2>1 DEF FoldsBy
      <3> QED
        BY <1>2, <3>1, <3>2
    <2>2. \A s \in SUBSET (1..n) : s = {} => g[s] = ds
      BY <1>6 DEF FoldsBy
    <2> QED
      BY <1>1, <2>1, <2>2
  <1>8. PICK it : /\ Perform(ds, fops) = it[DOMAIN fops]
                  /\ it = CHOOSE h : h = [s \in SUBSET DOMAIN fops |-> IF s = {} THEN ds ELSE
                        LET x == Max(s) IN Performed(h[s \ {x}], fops[x])]
    BY Zenon DEF Perform, FoldLeft, MapThenFoldSet
  <1>9. it = [s \in SUBSET (1..n) |-> IF s = {} THEN ds ELSE
                LET x == Max(s) IN Performed(it[s \ {x}], fops[x])]
    BY <1>1, <1>7, <1>8, Zenon
  <1>10. Follows(it, DocumentSets, step, n)
    <2>1. SUFFICES ASSUME NEW s \in SUBSET (1..n), s # {}, it[s \ {Max(s)}] \in DocumentSets
                   PROVE  it[s] = step[<<it[s \ {Max(s)}], Max(s)>>]
      BY DEF Follows
    <2>2. Max(s) \in 1..n
      BY <2>1, MaxIsSome
    <2>3. it[s] = Performed(it[s \ {Max(s)}], fops[Max(s)])
      BY <1>9, <2>1, Zenon
    <2> QED
      BY <1>2, <2>1, <2>2, <2>3
  <1>11. PICK f \in [0..n -> DocumentSets] :
              /\ f[0] = ds /\ f[n] = it[1..n]
              /\ \A k \in 1..n : f[k] = step[<<f[k - 1], k>>]
    <2>1. {} \in SUBSET (1..n)
      OBVIOUS
    <2>2. it[{}] = ds
      BY <1>9, <2>1, Zenon
    <2>3. RunsTo(it[1..n], DocumentSets, ds, step, n)
      BY <1>5, <1>10, <2>2, FoldRuns
    <2> QED
      BY <2>3 DEF RunsTo
  <1>12. ASSUME NEW k \in 1..n PROVE f[k] = Performed(f[k - 1], fops[k])
    <2>1. k - 1 \in 0..n
      OBVIOUS
    <2>2. f[k - 1] \in DocumentSets /\ f[k] = step[<<f[k - 1], k>>]
      BY <1>11, <2>1
    <2> QED
      BY <1>2, <2>2
  <1>13. Perform(ds, fops) = f[n]
    BY <1>1, <1>8, <1>11, Zenon
  <1> QED
    BY <1>1, <1>11, <1>12, <1>13

LEMMA PerformTyped ==
    ASSUME NEW ds \in DocumentSets, NEW fops \in Seq(FormattedOps)
    PROVE  Perform(ds, fops) \in DocumentSets
  <1>1. Len(fops) \in Nat
    BY LenProperties
  <1>2. PICK f \in [0..Len(fops) -> DocumentSets] : Perform(ds, fops) = f[Len(fops)]
    BY PerformSteps
  <1> QED
    BY <1>1, <1>2

LEMMA PerformAppend ==
    ASSUME NEW ds \in DocumentSets, NEW fops \in Seq(FormattedOps), NEW e \in FormattedOps
    PROVE  /\ Perform(ds, fops) \in DocumentSets
           /\ Perform(ds, Append(fops, e)) = Performed(Perform(ds, fops), e)
  <1>1. PICK n \in Nat : n = Len(fops)
    BY LenProperties
  <1>2. PICK s : s = Append(fops, e)
    OBVIOUS
  <1>3. s \in Seq(FormattedOps) /\ Len(s) = n + 1 /\ s[n + 1] = e /\ \A i \in 1..n : s[i] = fops[i]
    BY <1>1, <1>2, AppendProperties
  <1>4. PICK f \in [0..n -> DocumentSets] :
              /\ f[0] = ds /\ Perform(ds, fops) = f[n]
              /\ \A k \in 1..n : f[k] = Performed(f[k - 1], fops[k])
    BY <1>1, PerformSteps
  <1>5. PICK h \in [0..n + 1 -> DocumentSets] :
              /\ h[0] = ds /\ Perform(ds, s) = h[n + 1]
              /\ \A k \in 1..n + 1 : h[k] = Performed(h[k - 1], s[k])
    BY <1>3, PerformSteps
  <1>6. f[n] = h[n]
    <2>1. \A k \in 1..n : k \in 1..n + 1 /\ (f[k - 1] = h[k - 1] => f[k] = h[k])
      BY <1>3, <1>4, <1>5
    <2> QED
      BY <1>4, <1>5, <2>1, RunsAgree
  <1>7. h[n + 1] = Performed(h[n], e)
    BY <1>3, <1>5
  <1> QED
    BY <1>2, <1>4, <1>5, <1>6, <1>7

LEMMA PerformNothing ==
    ASSUME NEW ds \in DocumentSets
    PROVE  Perform(ds, <<>>) = ds
  <1>1. <<>> \in Seq(FormattedOps) /\ Len(<<>>) = 0
    BY EmptySeq
  <1>2. PICK f \in [0..Len(<<>>) -> DocumentSets] :
              f[0] = ds /\ Perform(ds, <<>>) = f[Len(<<>>)]
    BY <1>1, PerformSteps
  <1> QED
    BY <1>1, <1>2

NoPlan == [ops |-> <<>>, resolved |-> <<>>]

LEMMA NoPlanIsOne == NoPlan \in PlanStates
  <1>1. <<>> \in Seq(FormattedOps)
    BY EmptySeq
  <1>2. <<>> \in [{} -> Nat]
    <2>1. <<>> \in Seq(Nat) /\ Len(<<>>) = 0 /\ 1..0 = {}
      BY EmptySeq
    <2> QED
      BY <2>1, LenProperties
  <1>3. <<>> \in Resolutions
    BY <1>2 DEF Resolutions
  <1> QED
    BY <1>1, <1>3 DEF NoPlan, PlanStates

LEMMA PlannedIsPlan ==
    ASSUME docs \subseteq Documents, IsFiniteSet(docs), NEW st \in PlanStates, NEW o \in Operations
    PROVE  Planned(st, o) \in PlanStates
  BY PutIs, DeleteIs

LEMMA PlanSteps ==
    ASSUME docs \subseteq Documents, IsFiniteSet(docs), NEW ops \in Seq(Operations)
    PROVE  \E f \in [0..Len(ops) -> PlanStates] :
              /\ f[0] = NoPlan
              /\ \A k \in 1..Len(ops) : f[k] = Planned(f[k - 1], ops[k])
              /\ Plan(ops) = f[Len(ops)]
  <1>1. PICK n \in Nat : n = Len(ops) /\ DOMAIN ops = 1..n
    BY LenProperties
  <1>2. PICK step : step = [p \in PlanStates \X (1..n) |-> Planned(p[1], ops[p[2]])]
    OBVIOUS
  <1>3. \A i \in 1..n : ops[i] \in Operations
    BY <1>1, ElementOfSeq
  <1>4. ASSUME NEW c \in PlanStates, NEW i \in 1..n PROVE Planned(c, ops[i]) \in PlanStates
    BY <1>3, PlannedIsPlan
  <1>5. step \in [PlanStates \X (1..n) -> PlanStates]
    BY <1>2, <1>4
  <1>6. PICK g \in [SUBSET (1..n) -> PlanStates] : FoldsBy(g, NoPlan, step, n)
    BY <1>5, NoPlanIsOne, FoldExists DEF Foldable
  <1>7. g = [s \in SUBSET DOMAIN ops |-> IF s = {} THEN NoPlan ELSE
                LET x == Max(s) IN Planned(g[s \ {x}], ops[x])]
    <2>1. ASSUME NEW s \in SUBSET (1..n), s # {}
          PROVE  g[s] = Planned(g[s \ {Max(s)}], ops[Max(s)])
      <3>1. Max(s) \in 1..n
        BY <2>1, MaxIsSome
      <3>2. g[s] = step[<<g[s \ {Max(s)}], Max(s)>>]
        BY <1>6, <2>1 DEF FoldsBy
      <3> QED
        BY <1>2, <3>1, <3>2
    <2>2. \A s \in SUBSET (1..n) : s = {} => g[s] = NoPlan
      BY <1>6 DEF FoldsBy
    <2> QED
      BY <1>1, <2>1, <2>2
  <1>8. PICK it : /\ Plan(ops) = it[DOMAIN ops]
                  /\ it = CHOOSE h : h = [s \in SUBSET DOMAIN ops |-> IF s = {} THEN NoPlan ELSE
                        LET x == Max(s) IN Planned(h[s \ {x}], ops[x])]
    BY Zenon DEF Plan, NoPlan, FoldLeft, MapThenFoldSet
  <1>9. it = [s \in SUBSET (1..n) |-> IF s = {} THEN NoPlan ELSE
                LET x == Max(s) IN Planned(it[s \ {x}], ops[x])]
    BY <1>1, <1>7, <1>8, Zenon
  <1>10. Follows(it, PlanStates, step, n)
    <2>1. SUFFICES ASSUME NEW s \in SUBSET (1..n), s # {}, it[s \ {Max(s)}] \in PlanStates
                   PROVE  it[s] = step[<<it[s \ {Max(s)}], Max(s)>>]
      BY DEF Follows
    <2>2. Max(s) \in 1..n
      BY <2>1, MaxIsSome
    <2>3. it[s] = Planned(it[s \ {Max(s)}], ops[Max(s)])
      BY <1>9, <2>1, Zenon
    <2> QED
      BY <1>2, <2>1, <2>2, <2>3
  <1>11. PICK f \in [0..n -> PlanStates] :
              /\ f[0] = NoPlan /\ f[n] = it[1..n]
              /\ \A k \in 1..n : f[k] = step[<<f[k - 1], k>>]
    <2>1. {} \in SUBSET (1..n)
      OBVIOUS
    <2>2. it[{}] = NoPlan
      BY <1>9, <2>1, Zenon
    <2>3. RunsTo(it[1..n], PlanStates, NoPlan, step, n)
      BY <1>5, <1>10, <2>2, NoPlanIsOne, FoldRuns
    <2> QED
      BY <2>3 DEF RunsTo
  <1>12. ASSUME NEW k \in 1..n PROVE f[k] = Planned(f[k - 1], ops[k])
    <2>1. k - 1 \in 0..n
      OBVIOUS
    <2>2. f[k - 1] \in PlanStates /\ f[k] = step[<<f[k - 1], k>>]
      BY <1>11, <2>1
    <2> QED
      BY <1>2, <2>2
  <1>13. Plan(ops) = f[n]
    BY <1>1, <1>8, <1>11, Zenon
  <1> QED
    BY <1>1, <1>11, <1>12, <1>13

LEMMA PlanTyped ==
    ASSUME docs \subseteq Documents, IsFiniteSet(docs), NEW ops \in Seq(Operations)
    PROVE  Plan(ops) \in PlanStates
  <1>1. Len(ops) \in Nat
    BY LenProperties
  <1>2. PICK f \in [0..Len(ops) -> PlanStates] : Plan(ops) = f[Len(ops)]
    BY PlanSteps
  <1> QED
    BY <1>1, <1>2

LEMMA PlanAppend ==
    ASSUME docs \subseteq Documents, IsFiniteSet(docs), NEW ops \in Seq(Operations), NEW o \in Operations
    PROVE  /\ Plan(ops) \in PlanStates
           /\ Plan(Append(ops, o)) = Planned(Plan(ops), o)
  <1>1. PICK n \in Nat : n = Len(ops)
    BY LenProperties
  <1>2. PICK s : s = Append(ops, o)
    OBVIOUS
  <1>3. s \in Seq(Operations) /\ Len(s) = n + 1 /\ s[n + 1] = o /\ \A i \in 1..n : s[i] = ops[i]
    BY <1>1, <1>2, AppendProperties
  <1>4. PICK f \in [0..n -> PlanStates] :
              /\ f[0] = NoPlan /\ Plan(ops) = f[n]
              /\ \A k \in 1..n : f[k] = Planned(f[k - 1], ops[k])
    BY <1>1, PlanSteps
  <1>5. PICK h \in [0..n + 1 -> PlanStates] :
              /\ h[0] = NoPlan /\ Plan(s) = h[n + 1]
              /\ \A k \in 1..n + 1 : h[k] = Planned(h[k - 1], s[k])
    BY <1>3, PlanSteps
  <1>6. f[n] = h[n]
    <2>1. \A k \in 1..n : k \in 1..n + 1 /\ (f[k - 1] = h[k - 1] => f[k] = h[k])
      BY <1>3, <1>4, <1>5
    <2> QED
      BY <1>4, <1>5, <2>1, RunsAgree
  <1>7. h[n + 1] = Planned(h[n], o)
    BY <1>3, <1>5
  <1> QED
    BY <1>2, <1>4, <1>5, <1>6, <1>7

LEMMA PlanNothing ==
    ASSUME docs \subseteq Documents, IsFiniteSet(docs)
    PROVE  Plan(<<>>) = NoPlan
  <1>1. <<>> \in Seq(Operations) /\ Len(<<>>) = 0
    BY EmptySeq
  <1>2. PICK f \in [0..Len(<<>>) -> PlanStates] :
              f[0] = NoPlan /\ Plan(<<>>) = f[Len(<<>>)]
    BY <1>1, PlanSteps
  <1> QED
    BY <1>1, <1>2

-----------------------------------------------------------------------------
(*****************************************************************************)
(* Of a key only the last operation counts.                                  *)
(*****************************************************************************)
\* What a key holds after some operations.
About(ops, key) == \E i \in 1..Len(ops) : ops[i].key = key

AfterFacts(ops) ==
    /\ \A c \in Contents, key \in Keys : ~ About(ops, key) => After(c, ops)[key] = c[key]
    /\ \A c, d \in Contents, key \in Keys :
          c[key] = d[key] \/ About(ops, key) => After(c, ops)[key] = After(d, ops)[key]
    /\ \A c \in Contents, key \in Keys :
          \/ After(c, ops)[key] = c[key]
          \/ \E i \in 1..Len(ops) : ops[i].key = key /\ After(c, ops)[key] = ops[i].val

LEMMA ThenIs ==
    ASSUME NEW c \in Contents, NEW o \in Operations
    PROVE  /\ Then(c, o) \in Contents /\ Then(c, o)[o.key] = o.val
           /\ \A key \in Keys : key # o.key => Then(c, o)[key] = c[key]
  BY DEF Then, Contents, Operations

LEMMA AboutAppend ==
    ASSUME NEW ops \in Seq(Operations), NEW o \in Operations, NEW key
    PROVE  About(Append(ops, o), key) <=> About(ops, key) \/ o.key = key
  <1>1. /\ Len(ops) \in Nat /\ Len(Append(ops, o)) = Len(ops) + 1
        /\ \A i \in 1..Len(ops) : Append(ops, o)[i] = ops[i]
        /\ Append(ops, o)[Len(ops) + 1] = o
    BY AppendProperties, LenProperties
  <1>2. 1..(Len(ops) + 1) = 1..Len(ops) \cup {Len(ops) + 1}
    BY <1>1
  <1> QED
    BY <1>1, <1>2 DEF About

LEMMA AfterIs ==
    ASSUME NEW ops \in Seq(Operations)
    PROVE  AfterFacts(ops)
  <1>1. PICK P : P = {s \in Seq(Operations) : AfterFacts(s)}
    OBVIOUS
  <1>2. <<>> \in P
    <2>1. <<>> \in Seq(Operations) /\ Len(<<>>) = 0
      BY EmptySeq
    <2>2. \A key : ~ About(<<>>, key)
      BY <2>1 DEF About
    <2>3. AfterFacts(<<>>)
      BY <2>1, <2>2, AfterNothing DEF AfterFacts
    <2> QED
      BY <1>1, <2>1, <2>3
  <1>3. ASSUME NEW s \in Seq(Operations), NEW o \in Operations, s \in P
        PROVE  Append(s, o) \in P
    <2>1. PICK t : t = Append(s, o)
      OBVIOUS
    <2>2. /\ t \in Seq(Operations) /\ Len(s) \in Nat /\ Len(t) = Len(s) + 1 /\ t[Len(s) + 1] = o
          /\ \A i \in 1..Len(s) : t[i] = s[i]
      BY <2>1, AppendProperties, LenProperties
    <2>3. \A key : About(t, key) <=> About(s, key) \/ o.key = key
      BY <2>1, AboutAppend
    <2>4. \A c \in Contents : /\ After(c, s) \in Contents
                              /\ After(c, t) = Then(After(c, s), o)
      BY <2>1, AfterAppend
    <2>5. \A c \in Contents, key \in Keys :
              After(c, t)[key] = IF key = o.key THEN o.val ELSE After(c, s)[key]
      BY <2>4, ThenIs
    <2>6. AfterFacts(s)
      BY <1>1, <1>3
    <2>7. \A c \in Contents, key \in Keys : ~ About(t, key) => After(c, t)[key] = c[key]
      BY <2>3, <2>5, <2>6 DEF AfterFacts
    <2>8. \A c, d \in Contents, key \in Keys :
              c[key] = d[key] \/ About(t, key) => After(c, t)[key] = After(d, t)[key]
      BY <2>3, <2>5, <2>6 DEF AfterFacts
    <2>9. ASSUME NEW c \in Contents, NEW key \in Keys
          PROVE  \/ After(c, t)[key] = c[key]
                 \/ \E i \in 1..Len(t) : t[i].key = key /\ After(c, t)[key] = t[i].val
      <3>1. CASE key = o.key
        <4>1. Len(s) + 1 \in 1..Len(t)
          BY <2>2
        <4> QED
          BY <2>2, <2>5, <3>1, <4>1
      <3>2. CASE key # o.key
        <4>1. After(c, t)[key] = After(c, s)[key]
          BY <2>5, <3>2
        <4>2. \A i \in 1..Len(s) : i \in 1..Len(t)
          BY <2>2
        <4>3. \/ After(c, s)[key] = c[key]
              \/ \E i \in 1..Len(s) : s[i].key = key /\ After(c, s)[key] = s[i].val
          BY <2>6 DEF AfterFacts
        <4> QED
          BY <2>2, <4>1, <4>2, <4>3
      <3> QED
        BY <3>1, <3>2
    <2>10. AfterFacts(t)
      BY <2>7, <2>8, <2>9 DEF AfterFacts
    <2> QED
      BY <1>1, <2>1, <2>2, <2>10
  <1>4. Seq(Operations) \subseteq P
    BY <1>2, <1>3, SequenceInduction
  <1> QED
    BY <1>1, <1>4

\* Performed again from the start, operations make what they would have made at once.
LEMMA AgainFromTheStart ==
    ASSUME NEW c \in Contents, NEW ops \in Seq(Operations), NEW n \in 0..Len(ops)
    PROVE  After(After(c, SubSeq(ops, 1, n)), ops) = After(c, ops)
  <1>1. PICK front : front = SubSeq(ops, 1, n)
    OBVIOUS
  <1>2. /\ Len(ops) \in Nat /\ front \in Seq(Operations) /\ Len(front) = n
        /\ \A i \in 1..n : front[i] = ops[i]
    BY <1>1, LenProperties, SubSeqProperties
  <1>3. PICK d : d = After(c, front)
    OBVIOUS
  <1>5. d \in Contents /\ After(c, ops) \in Contents /\ After(d, ops) \in Contents
    BY <1>2, <1>3, AfterTyped
  <1>6. ASSUME NEW key \in Keys PROVE After(d, ops)[key] = After(c, ops)[key]
    <2>1. CASE About(ops, key)
      BY <1>5, <2>1, AfterIs DEF AfterFacts
    <2>2. CASE ~ About(ops, key)
      <3>1. ~ About(front, key)
        BY <1>2, <2>2 DEF About
      <3>2. d[key] = c[key]
        BY <1>2, <1>3, <3>1, AfterIs DEF AfterFacts
      <3> QED
        BY <1>5, <3>2, AfterIs DEF AfterFacts
    <2> QED
      BY <2>1, <2>2
  <1> QED
    BY <1>1, <1>3, <1>5, <1>6 DEF Contents

-----------------------------------------------------------------------------
(*****************************************************************************)
(* The documents: one for each id and for each key.                          *)
(*****************************************************************************)
\* The storage provider has one document with an id, the formatter one for a key.
Good(ds) ==
    /\ ds \subseteq Documents /\ IsFiniteSet(ds)
    /\ \A d, e \in ds : d.id = e.id \/ d.tag = e.tag => d = e

\* A plan knows the document of each key, ...
Knows(st, ds) ==
    \A key \in Keys :
        IF FormattedKey(st, key) = 0 THEN \A d \in ds : d.tag # key
        ELSE \E d \in ds : d.tag = key /\ d.id = FormattedKey(st, key)

\* ... and where each document's id comes from.
Named(st, ds) ==
    \A d \in ds : \/ \E e \in docs : e.id = d.id
                  \/ \E i \in 1..Len(st.ops) : st.ops[i].id = d.id

LEMMA ContentIs ==
    ASSUME NEW ds, Good(ds)
    PROVE  /\ Content(ds) \in Contents
           /\ \A d \in ds : Content(ds)[d.tag] = d.val
           /\ \A key \in Keys : (\A d \in ds : d.tag # key) => Content(ds)[key] = Absent
  <1>1. ds \subseteq Documents /\ \A d, e \in ds : d.tag = e.tag => d = e
    BY DEF Good
  <1>2. ASSUME NEW d \in ds
        PROVE  d.tag \in Keys /\ d.val \in Values /\ Content(ds)[d.tag] = d.val
    <2>1. d.tag \in Keys /\ d.val \in Values
      BY <1>1 DEF Documents
    <2>2. (CHOOSE e \in ds : e.tag = d.tag) = d
      BY <1>1
    <2> QED
      BY <2>1, <2>2 DEF Content
  <1>3. ASSUME NEW key \in Keys, \A d \in ds : d.tag # key
        PROVE  Content(ds)[key] = Absent
    BY <1>3 DEF Content
  <1>4. \A key \in Keys : Content(ds)[key] \in Values \cup {Absent}
    BY <1>2, <1>3
  <1>5. Content(ds) \in Contents
    BY <1>4 DEF Content, Contents
  <1> QED
    BY <1>2, <1>3, <1>5

\* The documents after one operation.
LEMMA OnePut ==
    ASSUME NEW ds, Good(ds), NEW f \in Documents,
           (\A d \in ds : d.tag # f.tag /\ d.id # f.id)
           \/ (\E d \in ds : d.tag = f.tag /\ d.id = f.id)
    PROVE  /\ Good(Performed(ds, f))
           /\ f \in Performed(ds, f)
           /\ \A d \in Performed(ds, f) : d = f \/ (d \in ds /\ d.tag # f.tag)
           /\ \A d \in ds : d.tag # f.tag => d \in Performed(ds, f)
           /\ Content(Performed(ds, f)) = [Content(ds) EXCEPT ![f.tag] = f.val]
  <1>1. ds \subseteq Documents /\ IsFiniteSet(ds)
        /\ \A d, e \in ds : d.id = e.id \/ d.tag = e.tag => d = e
    BY DEF Good
  <1>2. f.tag \in Keys /\ f.val \in Values /\ f.val # Absent
    BY AbsentAssumption DEF Documents
  <1>3. PICK new : new = Performed(ds, f)
    OBVIOUS
  <1>4. new = {d \in ds : d.id # f.id} \cup {f}
    BY <1>2, <1>3 DEF Performed
  <1>5. \A d \in ds : d.id = f.id <=> d.tag = f.tag
    BY <1>1
  <1>6. f \in new /\ (\A d \in new : d = f \/ (d \in ds /\ d.tag # f.tag))
        /\ \A d \in ds : d.tag # f.tag => d \in new
    BY <1>4, <1>5
  <1>7. IsFiniteSet(new)
    <2>1. IsFiniteSet({d \in ds : d.id # f.id})
      BY <1>1, FS_Subset
    <2> QED
      BY <1>4, <2>1, FS_AddElement
  <1>8. Good(new)
    <2>1. \A d, e \in new : d.id = e.id \/ d.tag = e.tag => d = e
      BY <1>1, <1>4, <1>5
    <2>2. new \subseteq Documents
      BY <1>1, <1>4
    <2> QED
      BY <1>7, <2>1, <2>2 DEF Good
  <1>9. ASSUME NEW key \in Keys
        PROVE  Content(new)[key] = IF key = f.tag THEN f.val ELSE Content(ds)[key]
    <2>1. CASE key = f.tag
      BY <1>6, <1>8, <2>1, ContentIs
    <2>2. CASE key # f.tag /\ \E d \in ds : d.tag = key
      <3>1. PICK d \in ds : d.tag = key
        BY <2>2
      <3>2. d \in new
        BY <1>6, <2>2, <3>1
      <3> QED
        BY <1>8, <2>2, <3>1, <3>2, ContentIs
    <2>3. CASE key # f.tag /\ \A d \in ds : d.tag # key
      <3>1. \A d \in new : d.tag # key
        BY <1>6, <2>3
      <3> QED
        BY <1>8, <2>3, <3>1, ContentIs
    <2> QED
      BY <2>1, <2>2, <2>3
  <1>10. Content(new) = [Content(ds) EXCEPT ![f.tag] = f.val]
    <2>1. Content(new) \in Contents /\ Content(ds) \in Contents
      BY <1>8, ContentIs
    <2> QED
      BY <1>9, <2>1 DEF Contents
  <1> QED
    BY <1>3, <1>6, <1>8, <1>10

LEMMA OneDelete ==
    ASSUME NEW ds, Good(ds), NEW f, f.val = Absent, NEW gone \in ds, gone.id = f.id
    PROVE  /\ Good(Performed(ds, f))
           /\ \A d : d \in Performed(ds, f) <=> d \in ds /\ d.tag # gone.tag
           /\ Content(Performed(ds, f)) = [Content(ds) EXCEPT ![gone.tag] = Absent]
  <1>1. ds \subseteq Documents /\ IsFiniteSet(ds)
        /\ \A d, e \in ds : d.id = e.id \/ d.tag = e.tag => d = e
    BY DEF Good
  <1>2. gone.tag \in Keys
    BY <1>1 DEF Documents
  <1>3. PICK new : new = Performed(ds, f)
    OBVIOUS
  <1>4. new = {d \in ds : d.id # f.id}
    BY <1>3 DEF Performed
  <1>5. \A d \in ds : d.id = f.id <=> d.tag = gone.tag
    BY <1>1
  <1>6. \A d : d \in new <=> d \in ds /\ d.tag # gone.tag
    BY <1>4, <1>5
  <1>7. Good(new)
    <2>1. IsFiniteSet(new)
      BY <1>1, <1>4, FS_Subset
    <2> QED
      BY <1>1, <1>6, <2>1 DEF Good
  <1>8. ASSUME NEW key \in Keys
        PROVE  Content(new)[key] = IF key = gone.tag THEN Absent ELSE Content(ds)[key]
    <2>1. CASE \E d \in new : d.tag = key
      <3>1. PICK d \in new : d.tag = key
        BY <2>1
      <3> QED
        BY <1>6, <1>7, <3>1, ContentIs
    <2>2. CASE \A d \in new : d.tag # key
      <3>1. key # gone.tag => \A d \in ds : d.tag # key
        BY <1>6, <2>2
      <3> QED
        BY <1>7, <2>2, <3>1, ContentIs
    <2> QED
      BY <2>1, <2>2
  <1>9. Content(new) = [Content(ds) EXCEPT ![gone.tag] = Absent]
    <2>1. Content(new) \in Contents /\ Content(ds) \in Contents
      BY <1>7, ContentIs
    <2> QED
      BY <1>8, <2>1 DEF Contents
  <1> QED
    BY <1>3, <1>6, <1>7, <1>9

LEMMA KeysOfPlan ==
    ASSUME NEW st \in PlanStates, NEW new \in PlanStates, NEW key \in Keys, NEW id \in Nat,
           new.resolved = Resolved(st, key, id)
    PROVE  /\ FormattedKey(new, key) = id
           /\ \A k \in Keys : k # key => FormattedKey(new, k) = FormattedKey(st, k)
  <1>1. PICK r : r = Resolved(st, key, id)
    OBVIOUS
  <1>2. /\ DOMAIN r = DOMAIN st.resolved \cup {key} /\ r[key] = id
        /\ \A k \in DOMAIN st.resolved : k # key => r[k] = st.resolved[k]
    BY <1>1, ResolvedIs
  <1>3. new.resolved = r
    BY <1>1
  <1>4. FormattedKey(new, key) = id
    BY <1>2, <1>3 DEF FormattedKey
  <1>5. ASSUME NEW k \in Keys, k # key PROVE FormattedKey(new, k) = FormattedKey(st, k)
    <2>1. CASE k \in DOMAIN st.resolved
      BY <1>2, <1>3, <1>5, <2>1 DEF FormattedKey
    <2>2. CASE k \notin DOMAIN st.resolved
      <3>1. k \notin DOMAIN new.resolved
        BY <1>2, <1>3, <1>5, <2>2
      <3>2. PICK q : q = IF Query(k) = {} THEN 0 ELSE (CHOOSE d \in Query(k) : TRUE).id
        OBVIOUS
      <3>3. FormattedKey(new, k) = q
        BY <3>1, <3>2 DEF FormattedKey
      <3>4. FormattedKey(st, k) = q
        BY <2>2, <3>2 DEF FormattedKey
      <3> QED
        BY <3>3, <3>4
    <2> QED
      BY <2>1, <2>2
  <1> QED
    BY <1>4, <1>5

-----------------------------------------------------------------------------
(*****************************************************************************)
(* A plan, performed, is the batch; a part of it is a part of the batch.     *)
(*****************************************************************************)
\* One operation planned.
PlannedFine(st, ds, o, new) ==
    \/ new = st /\ Content(ds) = Then(Content(ds), o)
    \/ \E f \in FormattedOps :
          /\ new.ops = Append(st.ops, f) /\ new \in PlanStates
          /\ Good(Performed(ds, f))
          /\ Content(Performed(ds, f)) = Then(Content(ds), o)
          /\ Knows(new, Performed(ds, f)) /\ Named(new, Performed(ds, f))

LEMMA PlannedPut ==
    ASSUME Good(docs), NEW st \in PlanStates, NEW ds, Good(ds), Knows(st, ds), Named(st, ds),
           NEW o \in Operations, o.val # Absent
    PROVE  PlannedFine(st, ds, o, Planned(st, o))
  <1>1. o.key \in Keys /\ o.val \in Values /\ docs \subseteq Documents /\ IsFiniteSet(docs)
        /\ ds \subseteq Documents
    BY DEF Operations, Good
  <1>2. PICK new : new = Planned(st, o)
    OBVIOUS
  <1>3. PICK id \in Nat \ {0}, f \in Documents :
              /\ id = IF FormattedKey(st, o.key) = 0 THEN NewID(st) ELSE FormattedKey(st, o.key)
              /\ f.id = id /\ f.tag = o.key /\ f.val = o.val
              /\ new.ops = Append(st.ops, f)
              /\ new.resolved = Resolved(st, o.key, id)
              /\ new \in PlanStates
    BY <1>1, <1>2, PutIs
  <1>4. (\A d \in ds : d.tag # f.tag /\ d.id # f.id) \/ (\E d \in ds : d.tag = f.tag /\ d.id = f.id)
    <2>1. CASE FormattedKey(st, o.key) = 0
      <3>1. \A d \in ds : d.tag # f.tag
        BY <1>1, <1>3, <2>1 DEF Knows
      <3>2. \A d \in docs : d.id # f.id
        BY <1>1, <1>3, <2>1, NewIDIsNew
      <3>3. \A i \in 1..Len(st.ops) : st.ops[i].id # f.id
        BY <1>1, <1>3, <2>1, NewIDIsNew
      <3>4. \A d \in ds : d.id # f.id
        BY <3>2, <3>3 DEF Named
      <3> QED
        BY <3>1, <3>4
    <2>2. CASE FormattedKey(st, o.key) # 0
      BY <1>1, <1>3, <2>2 DEF Knows
    <2> QED
      BY <2>1, <2>2
  <1>5. PICK dn : dn = Performed(ds, f)
    OBVIOUS
  <1>6. /\ Good(dn) /\ f \in dn
        /\ \A d \in dn : d = f \/ (d \in ds /\ d.tag # f.tag)
        /\ \A d \in ds : d.tag # f.tag => d \in dn
        /\ Content(dn) = Then(Content(ds), o)
    <2>1. Then(Content(ds), o) = [Content(ds) EXCEPT ![f.tag] = f.val]
      BY <1>3, Zenon DEF Then
    <2> QED
      BY <1>4, <1>5, <2>1, OnePut
  <1>7. /\ FormattedKey(new, o.key) = id
        /\ \A k \in Keys : k # o.key => FormattedKey(new, k) = FormattedKey(st, k)
    BY <1>1, <1>3, KeysOfPlan
  <1>8. Knows(new, dn)
    <2>1. SUFFICES ASSUME NEW key \in Keys
                   PROVE  IF FormattedKey(new, key) = 0 THEN \A d \in dn : d.tag # key
                          ELSE \E d \in dn : d.tag = key /\ d.id = FormattedKey(new, key)
      BY DEF Knows
    <2>2. CASE key = o.key
      BY <1>3, <1>6, <1>7, <2>2
    <2>3. CASE key # o.key
      <3>1. FormattedKey(new, key) = FormattedKey(st, key)
        BY <1>7, <2>3
      <3>2. IF FormattedKey(st, key) = 0 THEN \A d \in ds : d.tag # key
                          ELSE \E d \in ds : d.tag = key /\ d.id = FormattedKey(st, key)
        BY DEF Knows
      <3> QED
        BY <1>3, <1>6, <2>3, <3>1, <3>2
    <2> QED
      BY <2>2, <2>3
  <1>9. Named(new, dn)
    <2>1. /\ Len(st.ops) \in Nat /\ Len(new.ops) = Len(st.ops) + 1
          /\ \A i \in 1..Len(st.ops) : new.ops[i] = st.ops[i]
          /\ new.ops[Len(st.ops) + 1] = f
      BY <1>3, AppendProperties, LenProperties DEF PlanStates, FormattedOps
    <2>2. SUFFICES ASSUME NEW d \in dn
                   PROVE  \/ \E e \in docs : e.id = d.id
                          \/ \E i \in 1..Len(new.ops) : new.ops[i].id = d.id
      BY DEF Named
    <2>3. CASE d = f
      BY <2>1, <2>3
    <2>4. CASE d \in ds
      BY <2>1, <2>4 DEF Named
    <2> QED
      BY <1>6, <2>3, <2>4
  <1>10. f \in FormattedOps
    BY DEF FormattedOps
  <1> QED
    BY <1>2, <1>3, <1>5, <1>6, <1>8, <1>9, <1>10 DEF PlannedFine

LEMMA PlannedDelete ==
    ASSUME Good(docs), NEW st \in PlanStates, NEW ds, Good(ds), Knows(st, ds), Named(st, ds),
           NEW o \in Operations, o.val = Absent
    PROVE  PlannedFine(st, ds, o, Planned(st, o))
  <1>1. o.key \in Keys /\ docs \subseteq Documents /\ ds \subseteq Documents
    BY DEF Operations, Good
  <1>2. PICK new : new = Planned(st, o)
    OBVIOUS
  <1>3. CASE FormattedKey(st, o.key) = 0
    <2>1. new = st
      BY <1>1, <1>2, <1>3, DeleteIs
    <2>2. \A d \in ds : d.tag # o.key
      BY <1>1, <1>3 DEF Knows
    <2>3. Content(ds) \in Contents /\ Content(ds)[o.key] = Absent
      BY <1>1, <2>2, ContentIs
    <2>4. Content(ds) = Then(Content(ds), o)
      BY <2>3 DEF Then, Contents
    <2> QED
      BY <1>2, <2>1, <2>4 DEF PlannedFine
  <1>4. CASE FormattedKey(st, o.key) # 0
    <2>1. PICK f \in FormattedOps :
                    /\ f.id = FormattedKey(st, o.key) /\ f.val = Absent
                    /\ new.ops = Append(st.ops, f)
                    /\ new.resolved = Resolved(st, o.key, 0)
                    /\ new \in PlanStates
      BY <1>1, <1>2, <1>4, DeleteIs
    <2>2. PICK gone \in ds : gone.tag = o.key /\ gone.id = f.id
      BY <1>1, <1>4, <2>1 DEF Knows
    <2>3. PICK dn : dn = Performed(ds, f)
      OBVIOUS
    <2>4. /\ Good(dn) /\ Content(dn) = Then(Content(ds), o)
          /\ \A d : d \in dn <=> d \in ds /\ d.tag # o.key
      <3>1. Then(Content(ds), o) = [Content(ds) EXCEPT ![gone.tag] = Absent]
        BY <2>2 DEF Then
      <3> QED
        BY <2>1, <2>2, <2>3, <3>1, OneDelete
    <2>5. /\ FormattedKey(new, o.key) = 0
          /\ \A k \in Keys : k # o.key => FormattedKey(new, k) = FormattedKey(st, k)
      BY <1>1, <2>1, KeysOfPlan
    <2>6. Knows(new, dn)
      <3>1. SUFFICES ASSUME NEW key \in Keys
                     PROVE  IF FormattedKey(new, key) = 0 THEN \A d \in dn : d.tag # key
                            ELSE \E d \in dn : d.tag = key /\ d.id = FormattedKey(new, key)
        BY DEF Knows
      <3>2. CASE key = o.key
        BY <2>4, <2>5, <3>2
      <3>3. CASE key # o.key
        <4>1. FormattedKey(new, key) = FormattedKey(st, key)
          BY <2>5, <3>3
        <4>2. IF FormattedKey(st, key) = 0 THEN \A d \in ds : d.tag # key
                            ELSE \E d \in ds : d.tag = key /\ d.id = FormattedKey(st, key)
          BY DEF Knows
        <4> QED
          BY <2>4, <3>3, <4>1, <4>2
      <3> QED
        BY <3>2, <3>3
    <2>7. Named(new, dn)
      <3>1. /\ Len(st.ops) \in Nat /\ Len(new.ops) = Len(st.ops) + 1
            /\ \A i \in 1..Len(st.ops) : new.ops[i] = st.ops[i]
        BY <2>1, AppendProperties, LenProperties DEF PlanStates
      <3>2. \A i \in 1..Len(st.ops) : i \in 1..Len(new.ops)
        BY <3>1
      <3> QED
        BY <2>4, <3>1, <3>2 DEF Named
    <2> QED
      BY <1>2, <2>1, <2>3, <2>4, <2>6, <2>7 DEF PlannedFine
  <1> QED
    BY <1>3, <1>4

\* A part of what a batch is formatted to, performed: some first operations of the batch.
Halfway(fops, ops) ==
    /\ Good(Perform(docs, fops))
    /\ \E n \in 0..Len(ops) : Content(Perform(docs, fops)) = After(Content(docs), SubSeq(ops, 1, n))

\* The plan of operations has become documents that hold what the operations make.
Resolves(st, ds, ops) ==
    /\ Good(ds) /\ Content(ds) = After(Content(docs), ops)
    /\ Knows(st, ds) /\ Named(st, ds)
    /\ \A n \in 0..Len(st.ops) : Halfway(SubSeq(st.ops, 1, n), ops)

LEMMA NoPlanKnows ==
    ASSUME Good(docs)
    PROVE  Knows(NoPlan, docs) /\ Named(NoPlan, docs)
  <1>1. NoPlan.resolved = <<>> /\ DOMAIN <<>> = {}
    BY DEF NoPlan
  <1>2. ASSUME NEW key \in Keys, Query(key) = {}
        PROVE  FormattedKey(NoPlan, key) = 0 /\ \A d \in docs : d.tag # key
    BY <1>1, <1>2 DEF FormattedKey, Query
  <1>3. ASSUME NEW key \in Keys, Query(key) # {}
        PROVE  FormattedKey(NoPlan, key) # 0
               /\ \E d \in docs : d.tag = key /\ d.id = FormattedKey(NoPlan, key)
    <2>1. PICK d : d = (CHOOSE e \in Query(key) : TRUE)
      OBVIOUS
    <2>2. d \in docs /\ d.tag = key
      BY <1>3, <2>1 DEF Query
    <2>3. FormattedKey(NoPlan, key) = d.id
      BY <1>1, <1>3, <2>1 DEF FormattedKey
    <2> QED
      BY <2>2, <2>3 DEF Good, Documents
  <1>4. Knows(NoPlan, docs)
    BY <1>2, <1>3 DEF Knows
  <1> QED
    BY <1>4 DEF Named

LEMMA HalfwayLonger ==
    ASSUME NEW fops, NEW ops \in Seq(Operations), NEW o \in Operations, Halfway(fops, ops)
    PROVE  Halfway(fops, Append(ops, o))
  <1>1. PICK n \in 0..Len(ops) :
            Content(Perform(docs, fops)) = After(Content(docs), SubSeq(ops, 1, n))
    BY DEF Halfway
  <1>2. Len(ops) \in Nat /\ Len(Append(ops, o)) = Len(ops) + 1
    BY LenProperties, AppendProperties
  <1>3. n \in 0..Len(Append(ops, o)) /\ SubSeq(Append(ops, o), 1, n) = SubSeq(ops, 1, n)
    BY <1>2, FrontOfAppend
  <1> QED
    BY <1>1, <1>3 DEF Halfway

\* What a batch is formatted to does to the documents what its operations do to the keys.
LEMMA PlanResolves ==
    ASSUME Good(docs), NEW ops \in Seq(Operations)
    PROVE  Resolves(Plan(ops), Perform(docs, Plan(ops).ops), ops)
  <1>1. docs \subseteq Documents /\ IsFiniteSet(docs) /\ docs \in DocumentSets
    BY DEF Good, DocumentSets
  <1>2. Content(docs) \in Contents
    BY ContentIs
  <1>3. PICK P : P = {s \in Seq(Operations) :
                          Resolves(Plan(s), Perform(docs, Plan(s).ops), s)}
    OBVIOUS
  <1>4. <<>> \in P
    <2>1. Plan(<<>>) = NoPlan /\ NoPlan.ops = <<>> /\ Perform(docs, <<>>) = docs
          /\ After(Content(docs), <<>>) = Content(docs)
      BY <1>1, <1>2, PlanNothing, PerformNothing, AfterNothing DEF NoPlan
    <2>2. <<>> \in Seq(Operations) /\ Len(<<>>) = 0 /\ SubSeq(<<>>, 1, 0) = <<>>
      BY EmptySeq, FrontEmpty
    <2>3. Halfway(<<>>, <<>>)
      <3>1. Content(Perform(docs, <<>>)) = After(Content(docs), SubSeq(<<>>, 1, 0))
        BY <2>1, <2>2, Zenon
      <3>2. Good(Perform(docs, <<>>))
        BY <2>1, Zenon
      <3>3. 0 \in 0..Len(<<>>)
        BY <2>2
      <3> QED
        BY <3>1, <3>2, <3>3, Zenon DEF Halfway
    <2>4. ASSUME NEW n \in 0..Len(<<>>) PROVE Halfway(SubSeq(<<>>, 1, n), <<>>)
      <3>1. n = 0
        BY <2>2
      <3>2. SubSeq(<<>>, 1, n) = <<>>
        BY <2>2, <3>1
      <3> QED
        BY <2>3, <3>2, Zenon
    <2>5. Resolves(NoPlan, docs, <<>>)
      BY <2>1, <2>4, NoPlanKnows DEF Resolves
    <2> QED
      BY <1>3, <2>1, <2>2, <2>5
  <1>5. ASSUME NEW s \in Seq(Operations), NEW o \in Operations, s \in P
        PROVE  Append(s, o) \in P
    <2>1. PICK t : t = Append(s, o)
      OBVIOUS
    <2>2. t \in Seq(Operations) /\ Len(s) \in Nat /\ Len(t) = Len(s) + 1
          /\ SubSeq(t, 1, Len(t)) = t
      BY <2>1, AppendProperties, LenProperties, FrontOfAppend
    <2>3. PICK st : st = Plan(s)
      OBVIOUS
    <2>4. PICK new : new = Plan(t)
      OBVIOUS
    <2>5. st \in PlanStates /\ new = Planned(st, o)
      BY <1>1, <2>1, <2>3, <2>4, PlanTyped, PlanAppend
    <2>6. PICK ds : ds = Perform(docs, st.ops)
      OBVIOUS
    <2>7. Resolves(st, ds, s)
      BY <1>3, <1>5, <2>3, <2>6
    <2>8. After(Content(docs), t) = Then(Content(ds), o)
      BY <1>2, <2>1, <2>7, AfterAppend DEF Resolves
    <2>9. \A n \in 0..Len(st.ops) : Halfway(SubSeq(st.ops, 1, n), t)
      BY <2>1, <2>7, HalfwayLonger DEF Resolves
    <2>10. PlannedFine(st, ds, o, new)
      BY <2>5, <2>7, PlannedPut, PlannedDelete DEF Resolves
    <2>11. Resolves(new, Perform(docs, new.ops), t)
      <3>1. CASE new = st /\ Content(ds) = Then(Content(ds), o)
        BY <2>6, <2>7, <2>8, <2>9, <3>1 DEF Resolves
      <3>2. ASSUME NEW f \in FormattedOps,
                   new.ops = Append(st.ops, f), new \in PlanStates,
                   Good(Performed(ds, f)),
                   Content(Performed(ds, f)) = Then(Content(ds), o),
                   Knows(new, Performed(ds, f)), Named(new, Performed(ds, f))
            PROVE  Resolves(new, Perform(docs, new.ops), t)
        <4>1. st.ops \in Seq(FormattedOps)
          BY <2>5 DEF PlanStates
        <4>2. Perform(docs, new.ops) = Performed(ds, f)
          BY <1>1, <2>6, <3>2, <4>1, PerformAppend
        <4>3. /\ Len(st.ops) \in Nat /\ Len(new.ops) = Len(st.ops) + 1
              /\ SubSeq(new.ops, 1, Len(st.ops) + 1) = new.ops
              /\ \A n \in 0..Len(st.ops) : SubSeq(new.ops, 1, n) = SubSeq(st.ops, 1, n)
          BY <3>2, <4>1, FrontOfAppend, AppendProperties, LenProperties
        <4>4. Halfway(new.ops, t)
          <5>1. Len(t) \in 0..Len(t)
            BY <2>2
          <5> QED
            BY <2>2, <2>8, <3>2, <4>2, <5>1 DEF Halfway
        <4>5. ASSUME NEW n \in 0..Len(new.ops) PROVE Halfway(SubSeq(new.ops, 1, n), t)
          <5>1. CASE n = Len(st.ops) + 1
            BY <4>3, <4>4, <5>1
          <5>2. CASE n # Len(st.ops) + 1
            <6>1. n \in 0..Len(st.ops)
              BY <4>3, <5>2
            <6> QED
              BY <2>9, <4>3, <6>1
          <5> QED
            BY <5>1, <5>2
        <4> QED
          BY <2>8, <3>2, <4>2, <4>5 DEF Resolves
      <3> QED
        BY <2>10, <3>1, <3>2 DEF PlannedFine
    <2> QED
      BY <1>3, <2>1, <2>2, <2>4, <2>11
  <1>6. Seq(Operations) \subseteq P
    BY <1>4, <1>5, SequenceInduction
  <1> QED
    BY <1>3, <1>6

-----------------------------------------------------------------------------
(*****************************************************************************)
(* What cannot be formatted: deletions of keys that are not there.           *)
(*****************************************************************************)
\* There are only deletions of what is not there.
NothingToDo(ops) ==
    \A i \in 1..Len(ops) : ops[i].val = Absent /\ \A d \in docs : d.tag # ops[i].key

LEMMA NothingPlanned ==
    ASSUME Good(docs), NEW ops \in Seq(Operations)
    PROVE  Plan(ops).ops = <<>> <=> NothingToDo(ops)
  <1>1. docs \subseteq Documents /\ IsFiniteSet(docs) /\ docs \in DocumentSets
    BY DEF Good, DocumentSets
  <1>2. PICK P : P = {s \in Seq(Operations) : Plan(s).ops = <<>> <=> NothingToDo(s)}
    OBVIOUS
  <1>3. <<>> \in P
    <2>1. <<>> \in Seq(Operations) /\ Len(<<>>) = 0
      BY EmptySeq
    <2>2. Plan(<<>>).ops = <<>>
      BY <1>1, PlanNothing DEF NoPlan
    <2>3. NothingToDo(<<>>)
      BY <2>1 DEF NothingToDo
    <2> QED
      BY <1>2, <2>1, <2>2, <2>3
  <1>4. ASSUME NEW s \in Seq(Operations), NEW o \in Operations, s \in P
        PROVE  Append(s, o) \in P
    <2>1. PICK t : t = Append(s, o)
      OBVIOUS
    <2>2. /\ t \in Seq(Operations) /\ Len(s) \in Nat /\ Len(t) = Len(s) + 1 /\ t[Len(s) + 1] = o
          /\ \A i \in 1..Len(s) : t[i] = s[i]
      BY <2>1, AppendProperties, LenProperties
    <2>3. NothingToDo(t) <=> /\ NothingToDo(s)
                             /\ o.val = Absent /\ \A d \in docs : d.tag # o.key
      <3>1. 1..Len(t) = 1..Len(s) \cup {Len(s) + 1}
        BY <2>2
      <3> QED
        BY <2>2, <3>1 DEF NothingToDo
    <2>4. PICK st : st = Plan(s)
      OBVIOUS
    <2>5. st \in PlanStates /\ Plan(t) = Planned(st, o)
      BY <1>1, <2>1, <2>4, PlanTyped, PlanAppend
    <2>6. st.ops = <<>> <=> NothingToDo(s)
      BY <1>2, <1>4, <2>4
    <2>7. o.key \in Keys
      BY DEF Operations
    <2>8. \A f \in FormattedOps : Append(st.ops, f) # <<>>
      BY <2>5, NotEmptyAppended DEF PlanStates
    <2>9. st.ops = <<>> => (FormattedKey(st, o.key) = 0 <=> \A d \in docs : d.tag # o.key)
      <3>1. Resolves(st, Perform(docs, st.ops), s)
        BY <2>4, PlanResolves
      <3>2. Perform(docs, <<>>) = docs
        BY <1>1, PerformNothing
      <3> QED
        BY <2>7, <3>1, <3>2 DEF Resolves, Knows
    <2>10. CASE o.val # Absent
      <3>1. Documents \subseteq FormattedOps
        BY DEF FormattedOps
      <3>2. Plan(t).ops # <<>>
        BY <1>1, <2>5, <2>8, <2>10, <3>1, PutIs
      <3> QED
        BY <1>2, <2>1, <2>2, <2>3, <2>10, <3>2
    <2>11. CASE o.val = Absent /\ FormattedKey(st, o.key) = 0
      <3>1. Plan(t) = st
        BY <1>1, <2>5, <2>11, DeleteIs
      <3> QED
        BY <1>2, <2>1, <2>2, <2>3, <2>6, <2>9, <2>11, <3>1
    <2>12. CASE o.val = Absent /\ FormattedKey(st, o.key) # 0
      <3>1. Plan(t).ops # <<>>
        BY <1>1, <2>5, <2>8, <2>12, DeleteIs
      <3> QED
        BY <1>2, <2>1, <2>2, <2>3, <2>6, <2>9, <2>12, <3>1
    <2> QED
      BY <2>10, <2>11, <2>12
  <1>5. Seq(Operations) \subseteq P
    BY <1>3, <1>4, SequenceInduction
  <1> QED
    BY <1>2, <1>5

LEMMA OneFound ==
    ASSUME Good(docs)
    PROVE  OneDocumentPerKey
  <1>1. SUFFICES ASSUME NEW key \in Keys PROVE Cardinality(Query(key)) <= 1
    BY DEF OneDocumentPerKey
  <1>2. CASE Query(key) = {}
    BY <1>2, FS_EmptySet
  <1>3. CASE Query(key) # {}
    <2>1. PICK d : d \in Query(key)
      BY <1>3
    <2>2. \A e \in Query(key) : e = d
      BY <2>1 DEF Good, Query
    <2>3. Query(key) = {d}
      BY <2>1, <2>2
    <2>4. Cardinality({d}) = 1
      BY FS_Singleton
    <2> QED
      BY <2>3, <2>4
  <1> QED
    BY <1>2, <1>3

LEMMA PerformableIs ==
    ASSUME Good(docs), NEW ops \in Seq(Operations)
    PROVE  Performable(ops) <=> ~ NothingToDo(ops)
  <1>1. ASSUME NEW i \in 1..Len(ops) PROVE ops[i].key \in Keys
    <2>1. ops[i] \in Operations
      BY ElementOfSeq
    <2> QED
      BY <2>1 DEF Operations
  <1>2. DOMAIN ops = 1..Len(ops)
    BY LenProperties
  <1>3. Readable(ops)
    BY <1>1, <1>2, OneFound DEF OneDocumentPerKey, Readable
  <1> QED
    BY <1>3, NothingPlanned DEF Performable, FormattedOperations

-----------------------------------------------------------------------------
(*****************************************************************************)
(* A batch performed, performed in part, and tried again.                    *)
(*****************************************************************************)
LEMMA BatchDone ==
    ASSUME Good(docs), NEW ops \in Seq(Operations), BatchOK(ops)
    PROVE  Good(docs') /\ Content(docs') = After(Content(docs), ops)
  <1>1. docs' = Perform(docs, Plan(ops).ops)
    BY DEF BatchOK, FormattedOperations
  <1>2. Resolves(Plan(ops), Perform(docs, Plan(ops).ops), ops)
    BY PlanResolves
  <1> QED
    BY <1>1, <1>2 DEF Resolves

LEMMA BatchHalfDone ==
    ASSUME Good(docs), NEW ops \in Seq(Operations), BatchFails(ops)
    PROVE  /\ Good(docs')
           /\ \E n \in 0..Len(ops) : Content(docs') = After(Content(docs), SubSeq(ops, 1, n))
           /\ ~ Performable(ops) => docs' = docs
  <1>1. PICK n \in 0..Len(Plan(ops).ops) : docs' = Perform(docs, SubSeq(Plan(ops).ops, 1, n))
    BY DEF BatchFails, FormattedOperations
  <1>2. Halfway(SubSeq(Plan(ops).ops, 1, n), ops)
    BY PlanResolves DEF Resolves
  <1>3. ASSUME ~ Performable(ops) PROVE docs' = docs
    <2>1. Plan(ops).ops = <<>>
      BY <1>3, PerformableIs, NothingPlanned
    <2>2. n = 0 /\ <<>> \in Seq(FormattedOps)
      BY <1>1, <2>1, EmptySeq
    <2>3. SubSeq(<<>>, 1, 0) = <<>>
      BY <2>2, FrontEmpty
    <2>4. docs' = Perform(docs, <<>>)
      BY <1>1, <2>1, <2>2, <2>3
    <2> QED
      BY <2>4, PerformNothing DEF Good, DocumentSets
  <1> QED
    BY <1>1, <1>2, <1>3 DEF Halfway

\* A flush that succeeds or fails leaves the view as the batch makes it.
LEMMA BatchFlushed ==
    ASSUME Good(docs), NEW batch \in Seq(Operations), NEW ok \in BOOLEAN, FlushBatch(batch, ok)
    PROVE  /\ Good(docs') /\ currentBatch' \in Seq(Operations)
           /\ View' = After(Content(docs), batch)
           /\ ok => currentBatch' = <<>> /\ Content(docs') = View'
           /\ ~ok => /\ batch # <<>> /\ currentBatch' = batch
                     /\ \E n \in 0..Len(batch) :
                           Content(docs') = After(Content(docs), SubSeq(batch, 1, n))
                     /\ ~ Performable(batch) => docs' = docs
  <1>1. Content(docs) \in Contents
    BY ContentIs
  <1>2. View' = After(Content(docs'), currentBatch')
    BY DEF View
  <1>3. CASE batch = <<>>
    <2>1. ok /\ currentBatch' = <<>> /\ docs' = docs
      BY <1>3 DEF FlushBatch
    <2>2. After(Content(docs), <<>>) = Content(docs)
      BY <1>1, AfterNothing
    <2> QED
      BY <1>2, <1>3, <2>1, <2>2
  <1>4. CASE batch # <<>> /\ ok
    <2>1. BatchOK(batch) /\ currentBatch' = <<>>
      BY <1>4 DEF FlushBatch
    <2>2. Good(docs') /\ Content(docs') = After(Content(docs), batch)
      BY <2>1, BatchDone
    <2>3. After(Content(docs'), <<>>) = Content(docs')
      BY <2>2, ContentIs, AfterNothing
    <2> QED
      BY <1>2, <1>4, <2>1, <2>2, <2>3, EmptySeq
  <1>5. CASE batch # <<>> /\ ~ok
    <2>1. BatchFails(batch) /\ currentBatch' = batch
      BY <1>5 DEF FlushBatch
    <2>2. Good(docs') /\ (~ Performable(batch) => docs' = docs)
      BY <2>1, BatchHalfDone
    <2>3. PICK n \in 0..Len(batch) : Content(docs') = After(Content(docs), SubSeq(batch, 1, n))
      BY <2>1, BatchHalfDone
    <2>4. After(Content(docs'), batch) = After(Content(docs), batch)
      BY <1>1, <2>3, AgainFromTheStart
    <2>5. View' = After(Content(docs), batch)
      BY <1>2, <2>1, <2>4
    <2>6. \E k \in 0..Len(batch) : Content(docs') = After(Content(docs), SubSeq(batch, 1, k))
      BY <2>3
    <2>7. ~ok /\ batch # <<>> /\ currentBatch' = batch /\ currentBatch' \in Seq(Operations)
      BY <1>5, <2>1
    <2> QED
      BY <2>2, <2>5, <2>6, <2>7, Zenon
  <1> QED
    BY <1>3, <1>4, <1>5

-----------------------------------------------------------------------------
(*****************************************************************************)
(* What a read of the main store, in the middle of a batch, may find.        *)
(*****************************************************************************)
\* What the main store may answer for a key, of a content and a batch that waits.
MayHold(c, ops, key) ==
    {c[key]} \cup {ops[i].val : i \in {j \in 1..Len(ops) : ops[j].key = key}}

Holds(key) == MayHold(Content(docs), currentBatch, key)

LEMMA MayHoldAfter ==
    ASSUME NEW c \in Contents, NEW ops \in Seq(Operations), NEW key \in Keys
    PROVE  /\ After(c, ops)[key] \in MayHold(c, ops, key)
           /\ \A n \in 0..Len(ops) :
                 After(c, SubSeq(ops, 1, n))[key] \in MayHold(c, ops, key)
  <1>1. ASSUME NEW n \in 0..Len(ops)
        PROVE  After(c, SubSeq(ops, 1, n))[key] \in MayHold(c, ops, key)
    <2>1. PICK front : front = SubSeq(ops, 1, n)
      OBVIOUS
    <2>2. /\ Len(ops) \in Nat /\ front \in Seq(Operations) /\ Len(front) = n
          /\ \A i \in 1..n : front[i] = ops[i]
      BY <2>1, LenProperties, SubSeqProperties
    <2>3. \/ After(c, front)[key] = c[key]
          \/ \E i \in 1..Len(front) : front[i].key = key /\ After(c, front)[key] = front[i].val
      BY <2>2, AfterIs DEF AfterFacts
    <2>4. \A i \in 1..n : i \in 1..Len(ops)
      BY <2>2
    <2>5. After(c, front)[key] \in MayHold(c, ops, key)
      BY <2>2, <2>3, <2>4 DEF MayHold
    <2> QED
      BY <2>1, <2>5
  <1>2. After(c, ops)[key] \in MayHold(c, ops, key)
    <2>1. \/ After(c, ops)[key] = c[key]
          \/ \E i \in 1..Len(ops) : ops[i].key = key /\ After(c, ops)[key] = ops[i].val
      BY AfterIs DEF AfterFacts
    <2> QED
      BY <2>1 DEF MayHold
  <1> QED
    BY <1>1, <1>2

LEMMA MayHoldNothing ==
    ASSUME NEW c, NEW key
    PROVE  MayHold(c, <<>>, key) = {c[key]}
  <1>1. \A j \in 1..Len(<<>>) : FALSE
    BY EmptySeq
  <1> QED
    BY <1>1 DEF MayHold

LEMMA MayHoldAppend ==
    ASSUME NEW c, NEW ops \in Seq(Operations), NEW o \in Operations, NEW key
    PROVE  MayHold(c, Append(ops, o), key)
           = MayHold(c, ops, key) \cup {v \in {o.val} : o.key = key}
  <1>1. PICK t : t = Append(ops, o)
    OBVIOUS
  <1>2. /\ Len(ops) \in Nat /\ Len(t) = Len(ops) + 1 /\ t[Len(ops) + 1] = o
        /\ \A i \in 1..Len(ops) : t[i] = ops[i]
    BY <1>1, AppendProperties, LenProperties
  <1>3. 1..Len(t) = 1..Len(ops) \cup {Len(ops) + 1}
    BY <1>2
  <1>4. \A v : v \in MayHold(c, t, key) <=> v \in MayHold(c, ops, key) \/ (v = o.val /\ o.key = key)
    BY <1>2, <1>3 DEF MayHold
  <1> QED
    BY <1>1, <1>4

\* A flush, whatever comes of it, brings nothing new.
LEMMA FlushBringsNothing ==
    ASSUME Good(docs), NEW batch \in Seq(Operations), NEW ok \in BOOLEAN, FlushBatch(batch, ok),
           NEW key \in Keys
    PROVE  /\ Holds(key)' \subseteq MayHold(Content(docs), batch, key)
           /\ ok => Holds(key)' = {View[key]'}
  <1>1. Content(docs) \in Contents
    BY ContentIs
  <1>2. Holds(key)' = MayHold(Content(docs'), currentBatch', key) /\ View[key]' = View'[key]
    BY DEF Holds
  <1>3. CASE ok
    <2>1. currentBatch' = <<>> /\ Content(docs') = View' /\ View' = After(Content(docs), batch)
      BY <1>3, BatchFlushed
    <2>2. Holds(key)' = {View'[key]}
      BY <1>2, <2>1, MayHoldNothing
    <2>3. View'[key] \in MayHold(Content(docs), batch, key)
      BY <1>1, <2>1, MayHoldAfter
    <2> QED
      BY <1>2, <2>2, <2>3
  <1>4. CASE ~ok
    <2>1. currentBatch' = batch
      BY <1>4, BatchFlushed
    <2>2. PICK n \in 0..Len(batch) : Content(docs') = After(Content(docs), SubSeq(batch, 1, n))
      BY <1>4, BatchFlushed
    <2>3. Content(docs')[key] \in MayHold(Content(docs), batch, key)
      BY <1>1, <2>2, MayHoldAfter
    <2>4. Holds(key)' \subseteq MayHold(Content(docs), batch, key)
      BY <1>2, <2>1, <2>3 DEF MayHold
    <2> QED
      BY <1>4, <2>4
  <1> QED
    BY <1>3, <1>4

LEMMA Enqueued ==
    ASSUME Good(docs), currentBatch \in Seq(Operations), NEW o \in Operations, NEW ok \in BOOLEAN,
           Enqueue(o, ok)
    PROVE  /\ Good(docs') /\ currentBatch' \in Seq(Operations)
           /\ View' = Then(View, o)
           /\ \A key \in Keys : Holds(key)' \subseteq Holds(key) \cup {v \in {o.val} : o.key = key}
           /\ ok => \/ /\ currentBatch' = Append(currentBatch, o) /\ docs' = docs
                       /\ Len(currentBatch') < BatchSizeLimit
                    \/ currentBatch' = <<>> /\ Content(docs') = View'
           /\ ~ok => /\ currentBatch' = Append(currentBatch, o)
                     /\ \E n \in 0..Len(Append(currentBatch, o)) :
                           Content(docs') = After(Content(docs), SubSeq(Append(currentBatch, o), 1, n))
                     /\ ~ Performable(Append(currentBatch, o)) => docs' = docs
  <1>1. Content(docs) \in Contents
    BY ContentIs
  <1>2. PICK batch : batch = Append(currentBatch, o)
    OBVIOUS
  <1>3. batch \in Seq(Operations) /\ Len(batch) \in Nat
    BY <1>2, AppendProperties, LenProperties
  <1>4. /\ After(Content(docs), batch) = Then(View, o)
        /\ \A key \in Keys : MayHold(Content(docs), batch, key)
                             = Holds(key) \cup {v \in {o.val} : o.key = key}
    BY <1>1, <1>2, AfterAppend, MayHoldAppend DEF View, Holds
  <1>5. CASE Len(batch) >= BatchSizeLimit
    <2>1. FlushBatch(batch, ok)
      BY <1>2, <1>5 DEF Enqueue
    <2>2. \A key \in Keys : Holds(key)' \subseteq MayHold(Content(docs), batch, key)
      BY <1>3, <2>1, FlushBringsNothing
    <2>3. /\ Good(docs') /\ currentBatch' \in Seq(Operations)
          /\ View' = After(Content(docs), batch)
      BY <1>3, <2>1, BatchFlushed
    <2>4. ok => currentBatch' = <<>> /\ Content(docs') = View'
      BY <1>3, <2>1, BatchFlushed
    <2>5. ~ok => /\ currentBatch' = batch
                 /\ \E n \in 0..Len(batch) :
                           Content(docs') = After(Content(docs), SubSeq(batch, 1, n))
                 /\ ~ Performable(batch) => docs' = docs
      BY <1>3, <2>1, BatchFlushed
    <2> QED
      BY <1>2, <1>4, <2>2, <2>3, <2>4, <2>5, Zenon
  <1>6. CASE ~ (Len(batch) >= BatchSizeLimit)
    <2>1. ok /\ currentBatch' = batch /\ docs' = docs
      BY <1>2, <1>6 DEF Enqueue
    <2>2. View' = After(Content(docs), batch)
      BY <2>1 DEF View
    <2>3. \A key \in Keys : Holds(key)' = MayHold(Content(docs), batch, key)
      BY <2>1 DEF Holds
    <2>4. Len(currentBatch') < BatchSizeLimit
      BY <1>3, <1>6, <2>1, BatchSizeLimitAssumption
    <2>5. Good(docs')
      BY <2>1
    <2> QED
      BY <1>2, <1>3, <1>4, <2>1, <2>2, <2>3, <2>4, <2>5
  <1> QED
    BY <1>5, <1>6

-----------------------------------------------------------------------------
(*****************************************************************************)
(* The inductive invariant.                                                  *)
(*****************************************************************************)
\* The forms of a call.
Formed(me) ==
    /\ me.pc = "idle" => me.ops = <<>> /\ me.key = Absent /\ me.kind = "none"
    /\ me.pc \in {"main", "cache"} =>
          me.kind = "none" /\ me.key = Absent /\ (me.pc = "main" => me.next \in 1..Len(me.ops))
    /\ me.pc \in {"flush", "read", "found", "hit"} =>
          /\ me.ops = <<>>
          /\ \/ me.kind \in {"get", "bulk"} /\ me.key \in Keys
             \/ me.kind = "flush" /\ me.key = Absent /\ me.pc = "flush"

\* A batch that has not failed is short of its limit.
Short ==
    failures = 0 /\ currentBatch # <<>> /\ ~ NothingToDo(currentBatch)
    => Len(currentBatch) < BatchSizeLimit

\* What a read may find of each key.
Held == [key \in Keys |-> Holds(key)]

\* What a reader may yet be answered is a value its key has had.
Current(view, held, me, values) ==
    me.kind \in {"get", "bulk"} =>
        /\ me.pc = "flush" => view[me.key] \in values
        /\ me.pc = "read"  => held[me.key] \subseteq values
        /\ me.pc = "found" => me.val \in values

\* What the cache may have of a key.
Harmless(c, view, key) == c[key] \in {Absent, view[key]}

\* Get, Put, Delete or Batch with a key.
Uses(me, key) == me.kind # "bulk" /\ (key = me.key \/ About(me.ops, key))

\* What the one call that uses a key will leave in the cache.
Leaves(c, view, held, me, key) ==
    /\ me.pc = "main"  => Harmless(After(c, SubSeq(me.ops, 1, me.next - 1)), view, key)
    /\ me.pc = "cache" => Harmless(After(c, me.ops), view, key)
    /\ me.pc \in {"flush", "read", "found", "hit"} => Harmless(c, view, key)
    /\ me.pc = "read"  => held[key] \subseteq {view[key]}
    /\ me.pc = "found" => me.val = view[key]

\* A key that was never used by two calls at once, nor by one that failed half way.
RightFor(c, view, held, cs, key) ==
    /\ \A i, j \in Clients : Uses(cs[i], key) /\ Uses(cs[j], key) => i = j
    /\ \A i \in Clients : Uses(cs[i], key) => Leaves(c, view, held, cs[i], key)
    /\ (\A i \in Clients : ~ Uses(cs[i], key)) => Harmless(c, view, key)

\* What a restart may go back to.
Recoverable ==
    /\ View \in possible
    /\ \A key \in Keys : Holds(key) \subseteq {v[key] : v \in possible}
    /\ failures <= 1 => Content(docs) \in possible
    /\ failures = 0 => \A n \in 0..Len(currentBatch) :
                          After(Content(docs), SubSeq(currentBatch, 1, n)) \in possible

AllFormed  == \A c \in Clients : Formed(clients[c])
AllCurrent == \A c \in Clients : Current(View, Held, clients[c], seen[c])
AllRight   == \A key \in Keys \ disturbed : RightFor(cache, View, Held, clients, key)

\* The types.
ClientRecords ==
    [pc : {"idle", "main", "cache", "flush", "read", "found", "hit"},
     kind : {"none", "get", "bulk", "flush"},
     key : Keys \cup {Absent}, ops : Seq(Operations), next : Nat,
     val : Values \cup {Absent}]

Typed ==
    /\ currentBatch \in Seq(Operations) /\ cache \in Contents
    /\ clients \in [Clients -> ClientRecords]
    /\ possible \subseteq Contents
    /\ seen \in [Clients -> SUBSET (Values \cup {Absent})]
    /\ disturbed \subseteq Keys \cup {Absent}
    /\ writes \in Nat /\ reads \in Nat /\ failures \in Nat /\ restarts \in Nat

\* The inductive invariant.
IInv ==
    /\ Good(docs) /\ Typed /\ Short
    /\ AllFormed /\ AllCurrent /\ AllRight /\ Recoverable

-----------------------------------------------------------------------------
LEMMA KeysNotAbsent == \A key \in Keys : key # Absent
  BY AbsentAssumption

LEMMA IdleIsFormed ==
    /\ Idle \in ClientRecords /\ Formed(Idle) /\ Idle.pc = "idle"
    /\ Idle.kind = "none" /\ Idle.key = Absent /\ Idle.ops = <<>>
    /\ \A key \in Keys : ~ Uses(Idle, key)
    /\ \A view, held, values : Current(view, held, Idle, values)
  <1>1. <<>> \in Seq(Operations) /\ Len(<<>>) = 0
    BY EmptySeq
  <1>2. Idle \in ClientRecords
    BY <1>1 DEF Idle, ClientRecords
  <1>3. Idle.pc = "idle" /\ Idle.kind = "none" /\ Idle.key = Absent /\ Idle.ops = <<>>
    BY DEF Idle
  <1>4. \A key \in Keys : ~ Uses(Idle, key)
    BY <1>1, <1>3, KeysNotAbsent DEF Uses, About
  <1> QED
    BY <1>2, <1>3, <1>4 DEF Formed, Current

LEMMA IdleUsesNothing ==
    ASSUME NEW me, Formed(me), me.pc = "idle"
    PROVE  \A key \in Keys : ~ Uses(me, key)
  <1>1. me.ops = <<>> /\ me.key = Absent /\ Len(<<>>) = 0
    BY EmptySeq DEF Formed
  <1> QED
    BY <1>1, KeysNotAbsent DEF Uses, About

LEMMA UsedKeys ==
    ASSUME NEW me \in ClientRecords, NEW key, Uses(me, key)
    PROVE  key \in KeysOf(me)
  <1>1. DOMAIN me.ops = 1..Len(me.ops)
    BY LenProperties DEF ClientRecords
  <1> QED
    BY <1>1 DEF Uses, About, KeysOf

LEMMA NotInUse ==
    ASSUME clients \in [Clients -> ClientRecords], NEW c \in Clients, NEW key, key \notin InUse(c)
    PROVE  \A d \in Clients \ {c} : ~ Uses(clients[d], key)
  <1>1. SUFFICES ASSUME NEW d \in Clients \ {c}, Uses(clients[d], key) PROVE FALSE
    OBVIOUS
  <1>2. key \in KeysOf(clients[d])
    BY <1>1, UsedKeys
  <1> QED
    BY <1>2 DEF InUse

LEMMA ViewTyped ==
    ASSUME Good(docs), currentBatch \in Seq(Operations)
    PROVE  /\ View \in Contents
           /\ \A key \in Keys : View[key] \in Holds(key) /\ Content(docs)[key] \in Holds(key)
           /\ \A key \in Keys : Holds(key) \subseteq Values \cup {Absent}
  <1>1. Content(docs) \in Contents
    BY ContentIs
  <1>2. View \in Contents
    BY <1>1, AfterTyped DEF View
  <1>3. ASSUME NEW key \in Keys PROVE View[key] \in Holds(key) /\ Content(docs)[key] \in Holds(key)
    BY <1>1, MayHoldAfter DEF View, Holds, MayHold
  <1>4. ASSUME NEW key \in Keys PROVE Holds(key) \subseteq Values \cup {Absent}
    <2>1. \A i \in 1..Len(currentBatch) : currentBatch[i] \in Operations
      BY ElementOfSeq
    <2>2. \A i \in 1..Len(currentBatch) : currentBatch[i].val \in Values \cup {Absent}
      BY <2>1 DEF Operations
    <2>3. Content(docs)[key] \in Values \cup {Absent}
      BY <1>1 DEF Contents
    <2> QED
      BY <2>2, <2>3 DEF Holds, MayHold
  <1> QED
    BY <1>2, <1>3, <1>4

-----------------------------------------------------------------------------
(*****************************************************************************)
(* The steps of one client, seen from a key and from another client.         *)
(*****************************************************************************)
\* A step from a cache, a view and what is held, to others, does not concern a key.
Quiet(c, view, held, cn, viewn, heldn, key) ==
    viewn[key] = view[key] /\ heldn[key] \subseteq held[key] /\ cn[key] = c[key]

LEMMA LeavesKept ==
    ASSUME NEW key \in Keys, NEW c \in Contents, NEW cn \in Contents,
           NEW view, NEW viewn, NEW held, NEW heldn, Quiet(c, view, held, cn, viewn, heldn, key),
           NEW me \in ClientRecords, Formed(me), Leaves(c, view, held, me, key)
    PROVE  Leaves(cn, viewn, heldn, me, key)
  <1>1. ASSUME NEW ops \in Seq(Operations) PROVE After(cn, ops)[key] = After(c, ops)[key]
    BY AfterIs DEF AfterFacts, Quiet
  <1>2. me.ops \in Seq(Operations)
    BY DEF ClientRecords
  <1>3. me.pc = "main" => SubSeq(me.ops, 1, me.next - 1) \in Seq(Operations)
    BY <1>2, FrontStep DEF Formed
  <1> QED
    BY <1>1, <1>2, <1>3 DEF Leaves, Harmless, Quiet

\* What becomes of a key when a client goes on: the client's call does not use it, goes on
\* using it, ends or begins.
GoesOn(c, view, held, cs, cn, viewn, heldn, i, me, key) ==
    \/ /\ Quiet(c, view, held, cn, viewn, heldn, key)
       /\ ~ Uses(cs[i], key) /\ ~ Uses(me, key)
    \/ Uses(cs[i], key) /\ Uses(me, key) /\ Leaves(cn, viewn, heldn, me, key)
    \/ Uses(cs[i], key) /\ ~ Uses(me, key) /\ Harmless(cn, viewn, key)
    \/ /\ Uses(me, key) /\ Leaves(cn, viewn, heldn, me, key)
       /\ \A d \in Clients : ~ Uses(cs[d], key)

LEMMA RightKept ==
    ASSUME NEW key \in Keys, NEW c \in Contents, NEW cn \in Contents,
           NEW view, NEW viewn, NEW held, NEW heldn,
           NEW cs \in [Clients -> ClientRecords], \A d \in Clients : Formed(cs[d]),
           RightFor(c, view, held, cs, key),
           NEW i \in Clients, NEW me, NEW csn, csn = [cs EXCEPT ![i] = me],
           GoesOn(c, view, held, cs, cn, viewn, heldn, i, me, key)
    PROVE  RightFor(cn, viewn, heldn, csn, key)
  <1>1. \A d \in Clients : csn[d] = IF d = i THEN me ELSE cs[d]
    OBVIOUS
  <1>2. /\ \A d, e \in Clients : Uses(cs[d], key) /\ Uses(cs[e], key) => d = e
        /\ \A d \in Clients : Uses(cs[d], key) => Leaves(c, view, held, cs[d], key)
        /\ (\A d \in Clients : ~ Uses(cs[d], key)) => Harmless(c, view, key)
    BY DEF RightFor
  <1>3. CASE Quiet(c, view, held, cn, viewn, heldn, key) /\ ~ Uses(cs[i], key) /\ ~ Uses(me, key)
    <2>1. \A d \in Clients : /\ Uses(csn[d], key) <=> Uses(cs[d], key)
                             /\ Uses(csn[d], key) => csn[d] = cs[d]
      BY <1>1, <1>3
    <2>2. ASSUME NEW d \in Clients, Uses(csn[d], key) PROVE Leaves(cn, viewn, heldn, csn[d], key)
      <3>1. cs[d] \in ClientRecords /\ Formed(cs[d]) /\ Leaves(c, view, held, cs[d], key)
        BY <1>2, <2>1, <2>2
      <3>2. Leaves(cn, viewn, heldn, cs[d], key)
        BY <1>3, <3>1, LeavesKept
      <3> QED
        BY <2>1, <2>2, <3>2
    <2>3. Harmless(c, view, key) => Harmless(cn, viewn, key)
      BY <1>3 DEF Quiet, Harmless
    <2> QED
      BY <1>2, <2>1, <2>2, <2>3 DEF RightFor
  <1>4. CASE /\ \A d \in Clients \ {i} : ~ Uses(cs[d], key)
             /\ Uses(me, key) /\ Leaves(cn, viewn, heldn, me, key)
    <2>1. \A d \in Clients : Uses(csn[d], key) <=> d = i
      BY <1>1, <1>4
    <2>2. Leaves(cn, viewn, heldn, csn[i], key)
      BY <1>1, <1>4
    <2> QED
      BY <2>1, <2>2 DEF RightFor
  <1>5. CASE Uses(cs[i], key) /\ ~ Uses(me, key) /\ Harmless(cn, viewn, key)
    <2>1. \A d \in Clients : ~ Uses(csn[d], key)
      BY <1>1, <1>2, <1>5
    <2> QED
      BY <1>5, <2>1 DEF RightFor
  <1> QED
    BY <1>2, <1>3, <1>4, <1>5 DEF GoesOn

LEMMA CurrentKept ==
    ASSUME NEW view, NEW viewn, NEW held, NEW heldn, NEW me, NEW values, NEW more,
           Formed(me), Current(view, held, me, values), values \subseteq more,
           me.key \in Keys => /\ viewn[me.key] = view[me.key] \/ viewn[me.key] \in more
                              /\ heldn[me.key] \subseteq held[me.key] \cup more
    PROVE  Current(viewn, heldn, me, more)
  <1>1. SUFFICES ASSUME me.kind \in {"get", "bulk"}
                 PROVE  /\ me.pc = "flush" => viewn[me.key] \in more
                        /\ me.pc = "read"  => heldn[me.key] \subseteq more
                        /\ me.pc = "found" => me.val \in more
    BY DEF Current
  <1>2. me.pc \in {"flush", "read", "found"} => me.key \in Keys
    BY <1>1 DEF Formed
  <1>3. /\ me.pc = "flush" => view[me.key] \in values
        /\ me.pc = "read"  => held[me.key] \subseteq values
        /\ me.pc = "found" => me.val \in values
    BY <1>1 DEF Current
  <1> QED
    BY <1>2, <1>3

\* The store is left alone.
LEMMA StoreKept ==
    ASSUME Good(docs), UNCHANGED store
    PROVE  /\ Good(docs') /\ View' = View /\ Content(docs') = Content(docs) /\ Held' = Held
           /\ currentBatch' = currentBatch
           /\ Short /\ failures \in Nat /\ failures' \in {failures, failures + 1} => Short'
           /\ /\ Recoverable /\ possible' = possible
              /\ failures \in Nat /\ failures' \in {failures, failures + 1}
              => Recoverable'
  <1>1. docs' = docs /\ currentBatch' = currentBatch
    BY DEF store
  <1>2. View' = View /\ Held' = Held /\ \A key : Holds(key)' = Holds(key)
    BY <1>1 DEF View, Held, Holds
  <1>3. Short /\ failures \in Nat /\ failures' \in {failures, failures + 1} => Short'
    BY <1>1 DEF Short, NothingToDo
  <1>4. ASSUME Recoverable, possible' = possible,
               failures \in Nat, failures' \in {failures, failures + 1}
        PROVE  Recoverable'
    BY <1>1, <1>2, <1>4 DEF Recoverable
  <1> QED
    BY <1>1, <1>2, <1>3, <1>4

-----------------------------------------------------------------------------
(*****************************************************************************)
(* The actions that leave the main store alone.                              *)
(*****************************************************************************)
\* A client's step that leaves the main store alone.
LEMMA StoreLeftAlone ==
    ASSUME IInv, UNCHANGED store, possible' = possible, failures' \in {failures, failures + 1},
           NEW i \in Clients, NEW me \in ClientRecords, Formed(me),
           clients' = [clients EXCEPT ![i] = me],
           cache' \in Contents,
           seen' \in [Clients -> SUBSET (Values \cup {Absent})],
           \A d \in Clients \ {i} : seen'[d] = seen[d],
           Current(View, Held, me, seen'[i]),
           disturbed \subseteq disturbed', disturbed' \subseteq Keys \cup {Absent},
           writes' \in Nat, reads' \in Nat, restarts' \in Nat,
           \A key \in Keys \ disturbed' :
              GoesOn(cache, View, Held, clients, cache', View, Held, i, me, key)
    PROVE  IInv'
  <1>1. Good(docs) /\ Typed /\ Short /\ AllFormed /\ AllCurrent /\ AllRight /\ Recoverable
    BY DEF IInv
  <1>2. failures \in Nat /\ failures' \in Nat /\ clients \in [Clients -> ClientRecords]
        /\ cache \in Contents
    BY <1>1 DEF Typed
  <1>3. /\ Good(docs') /\ View' = View /\ Held' = Held /\ currentBatch' = currentBatch
        /\ Short' /\ Recoverable'
    BY <1>1, <1>2, StoreKept
  <1>4. \A d \in Clients : clients'[d] = IF d = i THEN me ELSE clients[d]
    BY <1>2
  <1>5. Typed'
    BY <1>1, <1>2, <1>3 DEF Typed
  <1>6. AllFormed'
    BY <1>1, <1>4 DEF AllFormed
  <1>7. AllCurrent'
    BY <1>1, <1>3, <1>4 DEF AllCurrent
  <1>8. AllRight'
    <2>1. SUFFICES ASSUME NEW key \in Keys \ disturbed'
                   PROVE  RightFor(cache', View', Held', clients', key)
      BY DEF AllRight
    <2>2. RightFor(cache, View, Held, clients, key)
      BY <1>1, <2>1 DEF AllRight
    <2>3. \A d \in Clients : Formed(clients[d])
      BY <1>1 DEF AllFormed
    <2>4. RightFor(cache', View, Held, clients', key)
      BY <1>2, <2>2, <2>3, RightKept
    <2> QED
      BY <1>3, <2>4
  <1> QED
    BY <1>3, <1>5, <1>6, <1>7, <1>8 DEF IInv

LEMMA KeysOfTyped ==
    ASSUME NEW me \in ClientRecords
    PROVE  KeysOf(me) \subseteq Keys \cup {Absent}
  <1>1. me.ops \in Seq(Operations) /\ me.key \in Keys \cup {Absent}
    BY DEF ClientRecords
  <1>2. DOMAIN me.ops = 1..Len(me.ops) /\ \A i \in 1..Len(me.ops) : me.ops[i] \in Operations
    BY <1>1, LenProperties, ElementOfSeq
  <1> QED
    BY <1>1, <1>2 DEF KeysOf, Operations

LEMMA OpsKeysTyped ==
    ASSUME NEW ops \in Seq(Operations)
    PROVE  /\ {ops[i].key : i \in DOMAIN ops} \subseteq Keys
           /\ \A key : key \in {ops[i].key : i \in DOMAIN ops} <=> About(ops, key)
  <1>1. DOMAIN ops = 1..Len(ops) /\ \A i \in 1..Len(ops) : ops[i] \in Operations
    BY LenProperties, ElementOfSeq
  <1> QED
    BY <1>1 DEF About, Operations

\* A failed Put, Delete or Batch, or any call that ends.
LEMMA ClientEnds ==
    ASSUME IInv, UNCHANGED <<store, possible, seen, writes, reads, restarts>>,
           failures' \in {failures, failures + 1}, NEW i \in Clients, Return(i),
           cache' \in Contents,
           disturbed \subseteq disturbed', disturbed' \subseteq Keys \cup {Absent},
           \A key \in Keys \ disturbed' :
              IF Uses(clients[i], key) THEN Harmless(cache', View, key)
              ELSE cache'[key] = cache[key]
    PROVE  IInv'
  <1>1. Typed /\ clients' = [clients EXCEPT ![i] = Idle]
    BY DEF IInv, Return, Become
  <1>2. /\ seen' \in [Clients -> SUBSET (Values \cup {Absent})]
        /\ \A d \in Clients \ {i} : seen'[d] = seen[d]
        /\ writes' \in Nat /\ reads' \in Nat /\ restarts' \in Nat
    BY <1>1 DEF Typed
  <1>3. \A key \in Keys \ disturbed' :
              GoesOn(cache, View, Held, clients, cache', View, Held, i, Idle, key)
    BY IdleIsFormed DEF GoesOn, Quiet
  <1> QED
    BY <1>1, <1>2, <1>3, IdleIsFormed, StoreLeftAlone

LEMMA WriteKeeps ==
    ASSUME IInv, NEW i \in Clients, NEW ops \in Seq(Operations), ops # <<>>, Write(i, ops)
    PROVE  IInv'
  <1>1. /\ Typed /\ AllFormed /\ AllRight /\ clients \in [Clients -> ClientRecords]
        /\ cache \in Contents
    BY DEF IInv, Typed
  <1>2. clients[i].pc = "idle" /\ Formed(clients[i])
    BY <1>1 DEF Write, AllFormed
  <1>3. PICK me : me = [Idle EXCEPT !.pc = "main", !.ops = ops, !.next = 1]
    OBVIOUS
  <1>4. /\ me.pc = "main" /\ me.ops = ops /\ me.next = 1 /\ me.kind = "none" /\ me.key = Absent
        /\ me \in ClientRecords
    BY <1>3 DEF Idle, ClientRecords
  <1>5. clients' = [clients EXCEPT ![i] = me]
    BY <1>3 DEF Write, Become
  <1>6. Len(ops) \in Nat /\ Len(ops) # 0
    BY LenProperties, EmptySeq
  <1>7. Formed(me)
    BY <1>4, <1>6 DEF Formed
  <1>8. UNCHANGED <<store, cache, possible, seen, reads, failures, restarts>>
    BY DEF Write
  <1>9. disturbed' = disturbed \cup (InUse(i) \cap {ops[j].key : j \in DOMAIN ops})
    BY DEF Write
  <1>10. disturbed \subseteq disturbed' /\ disturbed' \subseteq Keys \cup {Absent}
    BY <1>1, <1>9, OpsKeysTyped DEF Typed
  <1>11. writes' \in Nat
    BY <1>1, <1>6 DEF Write, Typed
  <1>12. Current(View, Held, me, seen'[i])
    BY <1>4 DEF Current
  <1>13. ASSUME NEW key \in Keys \ disturbed'
         PROVE  GoesOn(cache, View, Held, clients, cache', View, Held, i, me, key)
    <2>1. ~ Uses(clients[i], key) /\ key # Absent
      BY <1>2, IdleUsesNothing, KeysNotAbsent
    <2>2. Uses(me, key) <=> About(ops, key)
      BY <1>4, <2>1 DEF Uses
    <2>3. CASE ~ About(ops, key)
      BY <1>8, <2>1, <2>2, <2>3 DEF GoesOn, Quiet
    <2>4. CASE About(ops, key)
      <3>1. key \notin InUse(i)
        BY <1>9, <2>4, OpsKeysTyped
      <3>2. \A d \in Clients : ~ Uses(clients[d], key)
        BY <1>1, <2>1, <3>1, NotInUse
      <3>3. Harmless(cache, View, key)
        BY <1>1, <1>10, <3>2 DEF AllRight, RightFor
      <3>4. SubSeq(ops, 1, 1 - 1) = <<>> /\ After(cache, <<>>) = cache
        BY <1>1, FrontEmpty, AfterNothing
      <3>5. Leaves(cache', View, Held, me, key)
        BY <1>4, <1>8, <3>3, <3>4 DEF Leaves
      <3> QED
        BY <2>2, <2>4, <3>2, <3>5 DEF GoesOn
    <2> QED
      BY <2>3, <2>4
  <1>14. /\ failures \in Nat /\ failures' \in {failures, failures + 1} /\ cache' \in Contents
         /\ seen' \in [Clients -> SUBSET (Values \cup {Absent})]
         /\ \A d \in Clients \ {i} : seen'[d] = seen[d]
         /\ reads' \in Nat /\ restarts' \in Nat /\ UNCHANGED store /\ possible' = possible
    BY <1>1, <1>8 DEF Typed
  <1> QED
    BY <1>4, <1>5, <1>7, <1>10, <1>11, <1>12, <1>13, <1>14, StoreLeftAlone

LEMMA GetKeeps ==
    ASSUME IInv, NEW i \in Clients, NEW key \in Keys, Get(i, key)
    PROVE  IInv'
  <1>1. /\ Typed /\ AllFormed /\ AllRight /\ clients \in [Clients -> ClientRecords]
        /\ cache \in Contents /\ Good(docs) /\ currentBatch \in Seq(Operations)
    BY DEF IInv, Typed
  <1>2. clients[i].pc = "idle" /\ Formed(clients[i])
    BY <1>1 DEF Get, AllFormed
  <1>3. PICK me : me = [Idle EXCEPT !.pc = IF cache[key] = Absent THEN "flush" ELSE "hit",
                                    !.kind = "get", !.key = key, !.val = cache[key]]
    OBVIOUS
  <1>4. /\ me.pc \in {"flush", "hit"} /\ me.ops = <<>> /\ me.kind = "get" /\ me.key = key
        /\ me \in ClientRecords
    <2>1. cache[key] \in Values \cup {Absent} /\ <<>> \in Seq(Operations)
      BY <1>1, EmptySeq DEF Contents
    <2> QED
      BY <1>3, <2>1 DEF Idle, ClientRecords
  <1>5. clients' = [clients EXCEPT ![i] = me]
    BY <1>3 DEF Get, Become
  <1>6. Formed(me)
    BY <1>4 DEF Formed
  <1>7. UNCHANGED <<store, cache, possible, writes, failures, restarts>>
    BY DEF Get
  <1>8. disturbed' = disturbed \cup (InUse(i) \cap {key}) /\ seen' = [seen EXCEPT ![i] = {View[key]}]
        /\ reads' = reads + 1
    BY DEF Get
  <1>9. disturbed \subseteq disturbed' /\ disturbed' \subseteq Keys \cup {Absent}
    BY <1>1, <1>8 DEF Typed
  <1>10. View[key] \in Values \cup {Absent}
    BY <1>1, ViewTyped DEF Contents
  <1>11. /\ seen' \in [Clients -> SUBSET (Values \cup {Absent})]
         /\ seen'[i] = {View[key]} /\ \A d \in Clients \ {i} : seen'[d] = seen[d]
    BY <1>1, <1>8, <1>10 DEF Typed
  <1>12. Current(View, Held, me, seen'[i])
    BY <1>4, <1>11 DEF Current
  <1>13. ASSUME NEW k \in Keys \ disturbed'
         PROVE  GoesOn(cache, View, Held, clients, cache', View, Held, i, me, k)
    <2>1. ~ Uses(clients[i], k) /\ Len(<<>>) = 0
      BY <1>2, IdleUsesNothing, EmptySeq
    <2>2. Uses(me, k) <=> k = key
      BY <1>4, <2>1 DEF Uses, About
    <2>3. CASE k # key
      BY <1>7, <2>1, <2>2, <2>3 DEF GoesOn, Quiet
    <2>4. CASE k = key
      <3>1. k \notin InUse(i)
        BY <1>8, <2>4
      <3>2. \A d \in Clients : ~ Uses(clients[d], k)
        BY <1>1, <2>1, <3>1, NotInUse
      <3>3. Harmless(cache, View, k)
        BY <1>1, <1>9, <3>2 DEF AllRight, RightFor
      <3>4. Leaves(cache', View, Held, me, k)
        BY <1>4, <1>7, <3>3 DEF Leaves
      <3> QED
        BY <2>2, <2>4, <3>2, <3>4 DEF GoesOn
    <2> QED
      BY <2>3, <2>4
  <1>14. /\ failures \in Nat /\ failures' \in {failures, failures + 1} /\ cache' \in Contents
         /\ writes' \in Nat /\ reads' \in Nat /\ restarts' \in Nat
         /\ UNCHANGED store /\ possible' = possible
    BY <1>1, <1>7, <1>8 DEF Typed
  <1> QED
    BY <1>4, <1>5, <1>6, <1>9, <1>11, <1>12, <1>13, <1>14, StoreLeftAlone

\* A call that uses no key, as a bulk read or a flush.
LEMMA UselessKeeps ==
    ASSUME IInv, NEW i \in Clients, clients[i].pc = "idle",
           NEW me \in ClientRecords, Formed(me), clients' = [clients EXCEPT ![i] = me],
           \A key \in Keys : ~ Uses(me, key),
           UNCHANGED <<store, cache, possible, disturbed, writes, failures, restarts>>,
           seen' \in [Clients -> SUBSET (Values \cup {Absent})],
           \A d \in Clients \ {i} : seen'[d] = seen[d], Current(View, Held, me, seen'[i]),
           reads' = reads + 1
    PROVE  IInv'
  <1>1. Typed /\ AllFormed
    BY DEF IInv
  <1>2. \A key \in Keys : ~ Uses(clients[i], key)
    BY <1>1, IdleUsesNothing DEF AllFormed
  <1>3. \A key \in Keys \ disturbed' :
              GoesOn(cache, View, Held, clients, cache', View, Held, i, me, key)
    BY <1>2 DEF GoesOn, Quiet
  <1>4. /\ failures \in Nat /\ failures' \in {failures, failures + 1} /\ cache' \in Contents
        /\ disturbed \subseteq disturbed' /\ disturbed' \subseteq Keys \cup {Absent}
        /\ writes' \in Nat /\ reads' \in Nat /\ restarts' \in Nat
        /\ UNCHANGED store /\ possible' = possible
    BY <1>1 DEF Typed
  <1> QED
    BY <1>3, <1>4, StoreLeftAlone

LEMMA GetBulkKeeps ==
    ASSUME IInv, NEW i \in Clients, NEW key \in Keys, GetBulk(i, key)
    PROVE  IInv'
  <1>1. Typed /\ Good(docs) /\ currentBatch \in Seq(Operations)
    BY DEF IInv, Typed
  <1>2. PICK me : me = [Idle EXCEPT !.pc = "flush", !.kind = "bulk", !.key = key]
    OBVIOUS
  <1>3. /\ me.pc = "flush" /\ me.ops = <<>> /\ me.kind = "bulk" /\ me.key = key
        /\ me \in ClientRecords
    <2>1. <<>> \in Seq(Operations)
      BY EmptySeq
    <2> QED
      BY <1>2, <2>1 DEF Idle, ClientRecords
  <1>4. /\ clients[i].pc = "idle" /\ clients' = [clients EXCEPT ![i] = me]
        /\ UNCHANGED <<store, cache, possible, disturbed, writes, failures, restarts>>
        /\ seen' = [seen EXCEPT ![i] = {View[key]}] /\ reads' = reads + 1
    BY <1>2 DEF GetBulk, Become
  <1>5. Formed(me) /\ \A k \in Keys : ~ Uses(me, k)
    BY <1>3 DEF Formed, Uses
  <1>6. View[key] \in Values \cup {Absent}
    BY <1>1, ViewTyped DEF Contents
  <1>7. /\ seen' \in [Clients -> SUBSET (Values \cup {Absent})]
        /\ seen'[i] = {View[key]} /\ \A d \in Clients \ {i} : seen'[d] = seen[d]
    BY <1>1, <1>4, <1>6 DEF Typed
  <1>8. Current(View, Held, me, seen'[i])
    BY <1>3, <1>7 DEF Current
  <1> QED
    BY <1>3, <1>4, <1>5, <1>7, <1>8, UselessKeeps

LEMMA FlushStoreKeeps ==
    ASSUME IInv, NEW i \in Clients, FlushStore(i)
    PROVE  IInv'
  <1>1. Typed
    BY DEF IInv
  <1>2. PICK me : me = [Idle EXCEPT !.pc = "flush", !.kind = "flush"]
    OBVIOUS
  <1>3. /\ me.pc = "flush" /\ me.ops = <<>> /\ me.kind = "flush" /\ me.key = Absent
        /\ me \in ClientRecords
    <2>1. <<>> \in Seq(Operations)
      BY EmptySeq
    <2> QED
      BY <1>2, <2>1 DEF Idle, ClientRecords
  <1>4. /\ clients[i].pc = "idle" /\ clients' = [clients EXCEPT ![i] = me]
        /\ UNCHANGED <<store, cache, possible, disturbed, writes, failures, restarts>>
        /\ seen' = seen /\ reads' = reads + 1
    BY <1>2 DEF FlushStore, Become, facts
  <1>5. Formed(me) /\ \A k \in Keys : ~ Uses(me, k)
    <2>1. \A k \in Keys : ~ About(<<>>, k)
      BY EmptySeq DEF About
    <2> QED
      BY <1>3, <2>1, KeysNotAbsent DEF Formed, Uses
  <1>6. Current(View, Held, me, seen'[i])
    BY <1>3 DEF Current
  <1>7. seen' \in [Clients -> SUBSET (Values \cup {Absent})]
    BY <1>1, <1>4 DEF Typed
  <1> QED
    BY <1>3, <1>4, <1>5, <1>6, <1>7, UselessKeeps

LEMMA HitKeeps ==
    ASSUME IInv, NEW i \in Clients, Hit(i)
    PROVE  IInv'
  <1>1. Typed /\ AllRight
    BY DEF IInv
  <1>2. clients[i].pc = "hit" /\ Return(i) /\ UNCHANGED <<store, cache, facts, counts>>
    BY DEF Hit
  <1>3. \A key \in Keys \ disturbed :
            Uses(clients[i], key) => Harmless(cache, View, key)
    BY <1>1, <1>2 DEF AllRight, RightFor, Leaves
  <1>4. /\ failures \in Nat /\ failures' \in {failures, failures + 1} /\ cache' \in Contents
        /\ disturbed' = disturbed /\ disturbed' \subseteq Keys \cup {Absent}
        /\ UNCHANGED <<store, possible, seen, writes, reads, restarts>> /\ cache' = cache
    BY <1>1, <1>2 DEF Typed, facts, counts
  <1> QED
    BY <1>2, <1>3, <1>4, ClientEnds

LEMMA FailureIs ==
    ASSUME failures \in Nat, NEW ok, NEW must, Failure(ok, must)
    PROVE  /\ failures' \in {failures, failures + 1}
           /\ ok => failures' = failures
           /\ ~ok /\ ~must => failures' = failures + 1
  BY DEF Failure

LEMMA WriteCacheKeeps ==
    ASSUME IInv, NEW i \in Clients, NEW ok \in BOOLEAN, WriteCache(i, ok)
    PROVE  IInv'
  <1>1. /\ Typed /\ AllFormed /\ AllRight /\ clients[i] \in ClientRecords /\ cache \in Contents
        /\ failures \in Nat /\ Formed(clients[i])
    BY DEF IInv, Typed, AllFormed
  <1>2. PICK me : me = clients[i]
    OBVIOUS
  <1>3. /\ me.pc = "cache" /\ Return(i) /\ Failure(ok, FALSE)
        /\ UNCHANGED <<store, possible, seen, writes, reads, restarts>>
    BY <1>2 DEF WriteCache
  <1>4. failures' \in {failures, failures + 1}
    BY <1>1, <1>3, FailureIs
  <1>5. me.ops \in Seq(Operations) /\ me.key = Absent /\ me.kind = "none"
    BY <1>1, <1>2, <1>3 DEF ClientRecords, Formed
  <1>6. CASE ok
    <2>1. cache' = After(cache, me.ops) /\ disturbed' = disturbed
      BY <1>2, <1>6 DEF WriteCache, Cached
    <2>2. cache' \in Contents
      BY <1>1, <1>5, <2>1, AfterTyped
    <2>3. ASSUME NEW key \in Keys \ disturbed
          PROVE  IF Uses(me, key) THEN Harmless(cache', View, key) ELSE cache'[key] = cache[key]
      <3>1. CASE Uses(me, key)
        <4>1. Leaves(cache, View, Held, me, key)
          BY <1>1, <1>2, <3>1 DEF AllRight, RightFor
        <4> QED
          BY <1>3, <2>1, <3>1, <4>1 DEF Leaves
      <3>2. CASE ~ Uses(me, key)
        <4>1. ~ About(me.ops, key)
          BY <1>5, <3>2 DEF Uses
        <4>2. After(cache, me.ops)[key] = cache[key]
          BY <1>1, <1>5, <4>1, AfterIs DEF AfterFacts
        <4> QED
          BY <2>1, <3>2, <4>2
      <3> QED
        BY <3>1, <3>2
    <2>4. disturbed \subseteq disturbed' /\ disturbed' \subseteq Keys \cup {Absent}
      BY <1>1, <2>1 DEF Typed
    <2> QED
      BY <1>2, <1>3, <1>4, <2>1, <2>2, <2>3, <2>4, ClientEnds
  <1>7. CASE ~ok
    <2>1. cache' = cache /\ disturbed' = disturbed \cup KeysOf(me)
      BY <1>2, <1>7 DEF WriteCache
    <2>2. disturbed \subseteq disturbed' /\ disturbed' \subseteq Keys \cup {Absent}
      BY <1>1, <1>2, <2>1, KeysOfTyped DEF Typed
    <2>3. \A key \in Keys \ disturbed' : ~ Uses(me, key)
      BY <1>1, <1>2, <2>1, UsedKeys
    <2> QED
      BY <1>1, <1>2, <1>3, <1>4, <2>1, <2>2, <2>3, ClientEnds
  <1> QED
    BY <1>6, <1>7

LEMMA ReadMainKeeps ==
    ASSUME IInv, NEW i \in Clients, NEW ok \in BOOLEAN, ReadMain(i, ok)
    PROVE  IInv'
  <1>1. /\ Typed /\ AllFormed /\ AllRight /\ AllCurrent
        /\ clients[i] \in ClientRecords /\ cache \in Contents
        /\ failures \in Nat /\ Formed(clients[i]) /\ Good(docs) /\ currentBatch \in Seq(Operations)
    BY DEF IInv, Typed, AllFormed
  <1>2. PICK old : old = clients[i]
    OBVIOUS
  <1>3. PICK key : key = old.key
    OBVIOUS
  <1>4. PICK val : val = Content(docs)[key]
    OBVIOUS
  <1>5. old.pc = "read" /\ UNCHANGED <<store, cache, facts, writes, reads, restarts>>
        /\ failures' \in {failures, failures + 1}
    BY <1>1, <1>2, FailureIs DEF ReadMain
  <1>6. old.kind \in {"get", "bulk"} /\ key \in Keys /\ old.ops = <<>>
    BY <1>1, <1>2, <1>3, <1>5 DEF Formed
  <1>7. val \in Holds(key) /\ Holds(key) \subseteq Values \cup {Absent} /\ Held[key] = Holds(key)
    BY <1>1, <1>4, <1>6, ViewTyped DEF Held
  <1>8. /\ cache' = cache /\ disturbed' = disturbed /\ seen' = seen /\ possible' = possible
        /\ UNCHANGED store /\ disturbed' \subseteq Keys \cup {Absent}
        /\ seen' \in [Clients -> SUBSET (Values \cup {Absent})]
        /\ writes' \in Nat /\ reads' \in Nat /\ restarts' \in Nat
        /\ UNCHANGED <<possible, seen, writes, reads, restarts>>
    BY <1>1, <1>5 DEF facts, Typed
  <1>9. ASSUME NEW k \in Keys \ disturbed, Uses(old, k)
        PROVE  k = key /\ Harmless(cache, View, k) /\ Held[k] \subseteq {View[k]}
    <2>1. ~ About(<<>>, k)
      BY EmptySeq DEF About
    <2>2. k = key
      BY <1>3, <1>6, <1>9, <2>1 DEF Uses
    <2>3. Leaves(cache, View, Held, old, k)
      BY <1>1, <1>2, <1>9 DEF AllRight, RightFor
    <2> QED
      BY <1>5, <2>2, <2>3 DEF Leaves
  <1>10. CASE ok
    <2>1. PICK me : me = [old EXCEPT !.pc = "found", !.val = val]
      OBVIOUS
    <2>2. /\ me.pc = "found" /\ me.ops = old.ops /\ me.kind = old.kind /\ me.key = key /\ me.val = val
          /\ me \in ClientRecords
      BY <1>1, <1>2, <1>3, <1>7, <2>1 DEF ClientRecords
    <2>3. clients' = [clients EXCEPT ![i] = me]
      BY <1>2, <1>3, <1>4, <1>10, <2>1 DEF ReadMain, Become
    <2>4. Formed(me)
      BY <1>6, <2>2 DEF Formed
    <2>5. Current(View, Held, me, seen'[i])
      <3>1. Held[key] \subseteq seen[i]
        BY <1>1, <1>2, <1>3, <1>5, <1>6 DEF AllCurrent, Current
      <3> QED
        BY <1>7, <1>8, <2>2, <3>1 DEF Current
    <2>6. ASSUME NEW k \in Keys \ disturbed'
          PROVE  GoesOn(cache, View, Held, clients, cache', View, Held, i, me, k)
      <3>1. Uses(me, k) <=> Uses(old, k)
        BY <1>3, <2>2 DEF Uses
      <3>2. CASE ~ Uses(old, k)
        BY <1>2, <1>8, <3>1, <3>2 DEF GoesOn, Quiet
      <3>3. CASE Uses(old, k)
        <4>1. k = key /\ Harmless(cache, View, k) /\ Held[k] \subseteq {View[k]}
          BY <1>8, <1>9, <3>3
        <4>2. Leaves(cache', View, Held, me, k)
          BY <1>7, <1>8, <2>2, <4>1 DEF Leaves
        <4> QED
          BY <1>2, <3>1, <3>3, <4>2 DEF GoesOn
      <3> QED
        BY <3>2, <3>3
    <2> QED
      BY <1>1, <1>5, <1>8, <2>2, <2>3, <2>4, <2>5, <2>6, StoreLeftAlone
  <1>11. CASE ~ok
    <2>1. Return(i)
      BY <1>11 DEF ReadMain
    <2>2. \A k \in Keys \ disturbed' :
              IF Uses(clients[i], k) THEN Harmless(cache', View, k) ELSE cache'[k] = cache[k]
      BY <1>2, <1>8, <1>9
    <2> QED
      BY <1>1, <1>5, <1>8, <2>1, <2>2, ClientEnds
  <1> QED
    BY <1>10, <1>11

LEMMA FillCacheKeeps ==
    ASSUME IInv, NEW i \in Clients, NEW ok \in BOOLEAN, FillCache(i, ok)
    PROVE  IInv'
  <1>1. /\ Typed /\ AllFormed /\ AllRight
        /\ clients[i] \in ClientRecords /\ cache \in Contents
        /\ failures \in Nat /\ Formed(clients[i])
    BY DEF IInv, Typed, AllFormed
  <1>2. PICK me : me = clients[i]
    OBVIOUS
  <1>3. me.pc = "found" /\ UNCHANGED <<store, facts, writes, reads, restarts>> /\ Return(i)
    BY <1>2 DEF FillCache
  <1>4. me.kind \in {"get", "bulk"} /\ me.key \in Keys /\ me.ops = <<>> /\ me.val \in Values \cup {Absent}
    BY <1>1, <1>2, <1>3 DEF Formed, ClientRecords
  <1>5. /\ disturbed' = disturbed /\ disturbed' \subseteq Keys \cup {Absent}
        /\ UNCHANGED <<store, possible, seen, writes, reads, restarts>>
    BY <1>1, <1>3 DEF facts, Typed
  <1>6. /\ failures' \in {failures, failures + 1}
        /\ \/ cache' = cache
           \/ me.kind = "get" /\ cache' = [cache EXCEPT ![me.key] = me.val]
    <2>1. CASE me.kind = "get" /\ me.val # Absent
      <3>1. Failure(ok, FALSE) /\ cache' = IF ok THEN [cache EXCEPT ![me.key] = me.val] ELSE cache
        BY <1>2, <2>1 DEF FillCache
      <3> QED
        BY <1>1, <2>1, <3>1, FailureIs
    <2>2. CASE ~ (me.kind = "get" /\ me.val # Absent)
      BY <1>2, <2>2 DEF FillCache
    <2> QED
      BY <2>1, <2>2
  <1>7. cache' \in Contents
    BY <1>1, <1>4, <1>6 DEF Contents
  <1>8. ASSUME NEW k \in Keys \ disturbed
        PROVE  IF Uses(me, k) THEN Harmless(cache', View, k) ELSE cache'[k] = cache[k]
    <2>1. ~ About(<<>>, k)
      BY EmptySeq DEF About
    <2>2. Uses(me, k) <=> me.kind = "get" /\ k = me.key
      BY <1>4, <2>1 DEF Uses
    <2>3. CASE Uses(me, k)
      <3>1. Leaves(cache, View, Held, me, k)
        BY <1>1, <1>2, <2>3 DEF AllRight, RightFor
      <3>2. Harmless(cache, View, k) /\ me.val = View[k]
        BY <1>3, <3>1 DEF Leaves
      <3>3. cache'[k] \in {cache[k], me.val}
        BY <1>1, <1>6 DEF Contents
      <3> QED
        BY <2>3, <3>2, <3>3 DEF Harmless
    <2>4. CASE ~ Uses(me, k)
      BY <1>1, <1>6, <2>2, <2>4 DEF Contents
    <2> QED
      BY <2>3, <2>4
  <1> QED
    BY <1>2, <1>3, <1>5, <1>6, <1>7, <1>8, ClientEnds

-----------------------------------------------------------------------------
(*****************************************************************************)
(* The actions that go to the main store.                                    *)
(*****************************************************************************)
\* A client's step that goes to the main store.
LEMMA StoreMoves ==
    ASSUME IInv, Good(docs'), currentBatch' \in Seq(Operations), Short', Recoverable',
           possible' \subseteq Contents, failures' \in {failures, failures + 1},
           UNCHANGED <<cache, writes, reads, restarts>>,
           NEW i \in Clients, NEW me \in ClientRecords, Formed(me),
           clients' = [clients EXCEPT ![i] = me],
           seen' \in [Clients -> SUBSET (Values \cup {Absent})],
           \A d \in Clients \ {i} : Current(View', Held', clients[d], seen'[d]),
           Current(View', Held', me, seen'[i]),
           disturbed \subseteq disturbed', disturbed' \subseteq Keys \cup {Absent},
           \A key \in Keys \ disturbed' :
              GoesOn(cache, View, Held, clients, cache, View', Held', i, me, key)
    PROVE  IInv'
  <1>1. /\ Typed /\ AllFormed /\ AllRight
        /\ clients \in [Clients -> ClientRecords] /\ cache \in Contents
    BY DEF IInv, Typed
  <1>2. \A d \in Clients : clients'[d] = IF d = i THEN me ELSE clients[d]
    BY <1>1
  <1>3. Typed'
    BY <1>1 DEF Typed
  <1>4. AllFormed'
    BY <1>1, <1>2 DEF AllFormed
  <1>5. AllCurrent'
    BY <1>1, <1>2 DEF AllCurrent
  <1>6. AllRight'
    <2>1. SUFFICES ASSUME NEW key \in Keys \ disturbed'
                   PROVE  RightFor(cache', View', Held', clients', key)
      BY DEF AllRight
    <2>2. RightFor(cache, View, Held, clients, key)
      BY <1>1, <2>1 DEF AllRight
    <2>3. \A d \in Clients : Formed(clients[d])
      BY <1>1 DEF AllFormed
    <2>4. RightFor(cache, View', Held', clients', key)
      BY <1>1, <2>2, <2>3, RightKept
    <2>5. cache' = cache
      OBVIOUS
    <2> QED
      BY <2>4, <2>5
  <1> QED
    BY <1>3, <1>4, <1>5, <1>6 DEF IInv

\* A batch just performed leaves one view to go back to.
LEMMA PerformedIsRecoverable ==
    ASSUME Good(docs'), currentBatch' = <<>>, Content(docs') = View', possible' = {View'}
    PROVE  Recoverable'
  <1>1. View' \in Contents
    BY ContentIs
  <1>2. \A key \in Keys : Holds(key)' = {View'[key]}
    <2>1. \A key : Holds(key)' = MayHold(View', <<>>, key)
      BY DEF Holds
    <2> QED
      BY <2>1, MayHoldNothing
  <1>3. \A n \in 0..Len(<<>>) : After(View', SubSeq(<<>>, 1, n)) = View'
    <2>1. SUFFICES ASSUME NEW n \in 0..Len(<<>>) PROVE After(View', SubSeq(<<>>, 1, n)) = View'
      OBVIOUS
    <2>2. <<>> \in Seq(Operations) /\ n = 0
      BY EmptySeq
    <2>3. SubSeq(<<>>, 1, 0) = <<>>
      BY <2>2, FrontEmpty
    <2> QED
      BY <1>1, <2>2, <2>3, AfterNothing
  <1> QED
    BY <1>2, <1>3 DEF Recoverable

LEMMA FlushFirstKeeps ==
    ASSUME IInv, NEW i \in Clients, NEW ok \in BOOLEAN, FlushFirst(i, ok)
    PROVE  IInv'
  <1>1. /\ Typed /\ AllFormed /\ AllRight /\ AllCurrent /\ Short /\ Recoverable
        /\ clients \in [Clients -> ClientRecords] /\ clients[i] \in ClientRecords
        /\ cache \in Contents /\ possible \subseteq Contents
        /\ failures \in Nat /\ Formed(clients[i]) /\ Good(docs) /\ currentBatch \in Seq(Operations)
        /\ seen \in [Clients -> SUBSET (Values \cup {Absent})]
    BY DEF IInv, Typed, AllFormed
  <1>2. PICK old : old = clients[i]
    OBVIOUS
  <1>3. /\ old.pc = "flush" /\ FlushBatch(currentBatch, ok) /\ Failure(ok, MustFail(currentBatch))
        /\ possible' = (IF ok THEN {View} ELSE possible)
        /\ UNCHANGED <<cache, seen, disturbed, writes, reads, restarts>>
    BY <1>2 DEF FlushFirst, Flush
  <1>4. /\ failures' \in {failures, failures + 1}
        /\ ~ok /\ ~ MustFail(currentBatch) => failures' = failures + 1
    BY <1>1, <1>3, FailureIs
  <1>5. /\ Good(docs') /\ currentBatch' \in Seq(Operations) /\ View' = View
        /\ ok => currentBatch' = <<>> /\ Content(docs') = View'
        /\ ~ok => currentBatch' = currentBatch /\ (~ Performable(currentBatch) => docs' = docs)
    BY <1>1, <1>3, BatchFlushed DEF View
  <1>6. View \in Contents
    BY <1>1, ViewTyped
  <1>7. \A key \in Keys : /\ Held[key] = Holds(key) /\ Held'[key] = Holds(key)'
                          /\ Held'[key] \subseteq Held[key]
                          /\ ok => Held'[key] = {View'[key]}
    <2>1. \A key \in Keys : Held[key] = Holds(key) /\ Held'[key] = Holds(key)'
      BY DEF Held
    <2>2. \A key \in Keys : /\ Holds(key)' \subseteq Holds(key)
                            /\ ok => Holds(key)' = {View'[key]}
      BY <1>1, <1>3, FlushBringsNothing DEF Holds
    <2> QED
      BY <2>1, <2>2
  <1>8. CASE ok
    <2>1. Short'
      BY <1>5, <1>8 DEF Short
    <2>2. Recoverable' /\ possible' \subseteq Contents
      BY <1>3, <1>5, <1>6, <1>8, PerformedIsRecoverable
    <2>3. PICK me : me = IF old.kind = "flush" THEN Idle ELSE [old EXCEPT !.pc = "read"]
      OBVIOUS
    <2>4. clients' = [clients EXCEPT ![i] = me]
      BY <1>2, <1>8, <2>3 DEF FlushFirst, Goto, Return, Become
    <2>5. me \in ClientRecords /\ Formed(me)
      <3>1. CASE old.kind = "flush"
        BY <2>3, <3>1, IdleIsFormed
      <3>2. CASE old.kind # "flush"
        <4>1. me.pc = "read" /\ me.ops = old.ops /\ me.kind = old.kind /\ me.key = old.key
              /\ me \in ClientRecords
          BY <1>1, <1>2, <2>3, <3>2 DEF ClientRecords
        <4>2. old.ops = <<>> /\ old.kind \in {"get", "bulk"} /\ old.key \in Keys
          BY <1>1, <1>2, <1>3, <3>2 DEF Formed
        <4> QED
          BY <4>1, <4>2 DEF Formed
      <3> QED
        BY <3>1, <3>2
    <2>6. \A d \in Clients : Current(View', Held', clients[d], seen'[d])
      <3>1. ASSUME NEW d \in Clients PROVE Current(View', Held', clients[d], seen[d])
        <4>1. Formed(clients[d]) /\ Current(View, Held, clients[d], seen[d])
          BY <1>1 DEF AllFormed, AllCurrent
        <4>2. clients[d].key \in Keys => Held'[clients[d].key] \subseteq Held[clients[d].key]
          BY <1>7
        <4> QED
          BY <1>5, <4>1, <4>2, CurrentKept
      <3> QED
        BY <1>3, <3>1
    <2>7. Current(View', Held', me, seen'[i])
      <3>1. CASE old.kind = "flush"
        BY <2>3, <3>1, IdleIsFormed
      <3>2. CASE old.kind # "flush"
        <4>1. me.pc = "read" /\ me.key = old.key
          BY <1>1, <1>2, <2>3, <3>2 DEF ClientRecords
        <4>2. old.kind \in {"get", "bulk"} /\ old.key \in Keys
          BY <1>1, <1>2, <1>3, <3>2 DEF Formed
        <4>3. View[old.key] \in seen[i]
          BY <1>1, <1>2, <1>3, <4>2 DEF AllCurrent, Current
        <4>4. Held'[old.key] = {View[old.key]} /\ seen' = seen
          BY <1>3, <1>5, <1>7, <1>8, <4>2
        <4> QED
          BY <4>1, <4>3, <4>4 DEF Current
      <3> QED
        BY <3>1, <3>2
    <2>8. ASSUME NEW key \in Keys \ disturbed'
          PROVE  GoesOn(cache, View, Held, clients, cache, View', Held', i, me, key)
      <3>1. CASE ~ Uses(old, key)
        <4>1. ~ Uses(me, key)
          <5>1. CASE old.kind = "flush"
            BY <2>3, <5>1, IdleIsFormed
          <5>2. CASE old.kind # "flush"
            <6>1. me.ops = old.ops /\ me.kind = old.kind /\ me.key = old.key
              BY <1>1, <1>2, <2>3, <5>2 DEF ClientRecords
            <6> QED
              BY <3>1, <6>1 DEF Uses
          <5> QED
            BY <5>1, <5>2
        <4> QED
          BY <1>2, <1>5, <1>7, <3>1, <4>1 DEF GoesOn, Quiet
      <3>2. CASE Uses(old, key)
        <4>1. Leaves(cache, View, Held, old, key)
          BY <1>1, <1>2, <1>3, <3>2 DEF AllRight, RightFor
        <4>2. old.kind # "flush"
          <5>1. ~ About(<<>>, key) /\ key # Absent
            BY EmptySeq, KeysNotAbsent DEF About
          <5> QED
            BY <1>1, <1>2, <1>3, <3>2, <5>1 DEF Uses, Formed
        <4>3. me.pc = "read" /\ me.ops = old.ops /\ me.kind = old.kind /\ me.key = old.key
          BY <1>1, <1>2, <2>3, <4>2 DEF ClientRecords
        <4>4. Uses(me, key)
          BY <3>2, <4>3 DEF Uses
        <4>5. Leaves(cache, View', Held', me, key)
          BY <1>3, <1>5, <1>7, <1>8, <4>1, <4>3 DEF Leaves
        <4> QED
          BY <1>2, <3>2, <4>4, <4>5 DEF GoesOn
      <3> QED
        BY <3>1, <3>2
    <2>9. /\ seen' \in [Clients -> SUBSET (Values \cup {Absent})]
          /\ disturbed \subseteq disturbed' /\ disturbed' \subseteq Keys \cup {Absent}
          /\ UNCHANGED <<cache, writes, reads, restarts>>
      BY <1>1, <1>3 DEF Typed
    <2> QED
      BY <1>4, <1>5, <2>1, <2>2, <2>4, <2>5, <2>6, <2>7, <2>8, <2>9, StoreMoves
  <1>9. CASE ~ok
    <2>1. possible' = possible /\ currentBatch' = currentBatch /\ Return(i)
      BY <1>3, <1>5, <1>9 DEF FlushFirst
    <2>2. docs' = docs \/ failures' = failures + 1
      BY <1>4, <1>5, <1>9 DEF MustFail
    <2>3. Short'
      BY <1>1, <1>4, <2>1, <2>2 DEF Short, NothingToDo
    <2>4. Recoverable'
      <3>1. View' \in possible'
        BY <1>1, <1>5, <2>1 DEF Recoverable
      <3>2. \A key \in Keys : Holds(key)' \subseteq {v[key] : v \in possible'}
        BY <1>1, <1>7, <2>1 DEF Recoverable
      <3>3. CASE docs' = docs
        BY <1>1, <1>4, <2>1, <3>1, <3>2, <3>3 DEF Recoverable
      <3>4. CASE failures' = failures + 1
        <4>1. PICK n \in 0..Len(currentBatch) :
                  Content(docs') = After(Content(docs), SubSeq(currentBatch, 1, n))
          BY <1>1, <1>3, <1>9, BatchFlushed
        <4>2. failures' <= 1 => Content(docs') \in possible'
          BY <1>1, <2>1, <3>4, <4>1 DEF Recoverable
        <4>3. failures' # 0
          BY <1>1, <3>4
        <4> QED
          BY <3>1, <3>2, <4>2, <4>3 DEF Recoverable
      <3> QED
        BY <2>2, <3>3, <3>4
    <2>5. clients' = [clients EXCEPT ![i] = Idle]
      BY <2>1 DEF Return, Become
    <2>6. \A d \in Clients : Current(View', Held', clients[d], seen'[d])
      <3>1. ASSUME NEW d \in Clients PROVE Current(View', Held', clients[d], seen[d])
        <4>1. Formed(clients[d]) /\ Current(View, Held, clients[d], seen[d])
          BY <1>1 DEF AllFormed, AllCurrent
        <4>2. clients[d].key \in Keys => Held'[clients[d].key] \subseteq Held[clients[d].key]
          BY <1>7
        <4> QED
          BY <1>5, <4>1, <4>2, CurrentKept
      <3> QED
        BY <1>3, <3>1
    <2>7. ASSUME NEW key \in Keys \ disturbed'
          PROVE  GoesOn(cache, View, Held, clients, cache, View', Held', i, Idle, key)
      <3>1. ~ Uses(Idle, key)
        BY IdleIsFormed
      <3>2. CASE ~ Uses(old, key)
        BY <1>2, <1>5, <1>7, <3>1, <3>2 DEF GoesOn, Quiet
      <3>3. CASE Uses(old, key)
        <4>1. Leaves(cache, View, Held, old, key)
          BY <1>1, <1>2, <1>3, <3>3 DEF AllRight, RightFor
        <4> QED
          BY <1>2, <1>3, <1>5, <3>1, <3>3, <4>1 DEF GoesOn, Leaves
      <3> QED
        BY <3>2, <3>3
    <2>8. /\ seen' \in [Clients -> SUBSET (Values \cup {Absent})] /\ possible' \subseteq Contents
          /\ disturbed \subseteq disturbed' /\ disturbed' \subseteq Keys \cup {Absent}
          /\ UNCHANGED <<cache, writes, reads, restarts>>
      BY <1>1, <1>3, <2>1 DEF Typed
    <2> QED
      BY <1>4, <1>5, <2>3, <2>4, <2>5, <2>6, <2>7, <2>8, IdleIsFormed, StoreMoves
  <1> QED
    BY <1>8, <1>9

-----------------------------------------------------------------------------
LEMMA RestartKeeps ==
    ASSUME IInv, Restart
    PROVE  IInv'
  <1>1. Typed /\ Good(docs) /\ failures \in Nat
    BY DEF IInv, Typed
  <1>2. /\ docs' = docs /\ currentBatch' = <<>> /\ cache' = [key \in Keys |-> Absent]
        /\ clients' = [c \in Clients |-> Idle] /\ possible' = {View'}
        /\ seen' = [c \in Clients |-> {}] /\ disturbed' = {} /\ restarts' = restarts + 1
        /\ UNCHANGED <<writes, reads, failures>>
    BY DEF Restart
  <1>3. Good(docs') /\ Content(docs') \in Contents
    BY <1>1, <1>2, ContentIs
  <1>4. Content(docs') = View'
    <2>1. View' = After(Content(docs'), <<>>)
      BY <1>2 DEF View
    <2> QED
      BY <1>3, <2>1, AfterNothing
  <1>5. Recoverable'
    BY <1>2, <1>3, <1>4, PerformedIsRecoverable
  <1>6. Short'
    BY <1>2 DEF Short
  <1>7. cache' \in Contents /\ currentBatch' \in Seq(Operations)
    BY <1>2, EmptySeq DEF Contents
  <1>8. Typed'
    <2>1. clients' \in [Clients -> ClientRecords]
      BY <1>2, IdleIsFormed
    <2>2. seen' \in [Clients -> SUBSET (Values \cup {Absent})] /\ disturbed' \subseteq Keys \cup {Absent}
      BY <1>2
    <2>3. possible' \subseteq Contents
      BY <1>2, <1>3, <1>4
    <2>4. writes' \in Nat /\ reads' \in Nat /\ failures' \in Nat /\ restarts' \in Nat
      BY <1>1, <1>2 DEF Typed
    <2> QED
      BY <1>7, <2>1, <2>2, <2>3, <2>4 DEF Typed
  <1>9. AllFormed' /\ AllCurrent'
    BY <1>2, IdleIsFormed DEF AllFormed, AllCurrent
  <1>10. AllRight'
    <2>1. SUFFICES ASSUME NEW key \in Keys
                   PROVE  RightFor(cache', View', Held', clients', key)
      BY DEF AllRight
    <2>2. \A c \in Clients : ~ Uses(clients'[c], key)
      BY <1>2, IdleIsFormed
    <2>3. Harmless(cache', View', key)
      BY <1>2 DEF Harmless
    <2> QED
      BY <2>2, <2>3 DEF RightFor
  <1> QED
    BY <1>3, <1>5, <1>6, <1>8, <1>9, <1>10 DEF IInv

\* An operation goes into the batch, which is performed if it is full.
LEMMA WriteMainKeeps ==
    ASSUME IInv, NEW i \in Clients, NEW ok \in BOOLEAN, WriteMain(i, ok)
    PROVE  IInv'
  <1>1. /\ Typed /\ AllFormed /\ AllRight /\ AllCurrent /\ Short /\ Recoverable
        /\ clients \in [Clients -> ClientRecords] /\ clients[i] \in ClientRecords
        /\ cache \in Contents /\ possible \subseteq Contents
        /\ failures \in Nat /\ Formed(clients[i]) /\ Good(docs) /\ currentBatch \in Seq(Operations)
        /\ seen \in [Clients -> SUBSET (Values \cup {Absent})]
    BY DEF IInv, Typed, AllFormed
  <1>2. PICK old : old = clients[i]
    OBVIOUS
  <1>3. PICK o : o = old.ops[old.next]
    OBVIOUS
  <1>4. PICK batch : batch = Append(currentBatch, o)
    OBVIOUS
  <1>5. /\ old.pc = "main" /\ Enqueue(o, ok) /\ Failure(ok, MustFail(batch))
        /\ possible' = (IF ok /\ currentBatch' = <<>> THEN {View'} ELSE possible \cup {View'})
        /\ seen' = [d \in Clients |-> IF clients[d].key = o.key THEN seen[d] \cup {o.val}
                                                                ELSE seen[d]]
        /\ UNCHANGED <<cache, writes, reads, restarts>>
    BY <1>2, <1>3, <1>4 DEF WriteMain
  <1>6. /\ old.ops \in Seq(Operations) /\ old.key = Absent /\ old.kind = "none"
        /\ old.next \in 1..Len(old.ops) /\ o \in Operations
    <2>1. old.ops \in Seq(Operations) /\ old.key = Absent /\ old.kind = "none"
          /\ old.next \in 1..Len(old.ops)
      BY <1>1, <1>2, <1>5 DEF ClientRecords, Formed
    <2> QED
      BY <1>3, <2>1, ElementOfSeq
  <1>7. /\ failures' \in {failures, failures + 1}
        /\ ~ok /\ ~ MustFail(batch) => failures' = failures + 1
    BY <1>1, <1>5, FailureIs
  <1>8. /\ Good(docs') /\ currentBatch' \in Seq(Operations) /\ View' = Then(View, o)
        /\ \A key \in Keys : Holds(key)' \subseteq Holds(key) \cup {v \in {o.val} : o.key = key}
        /\ ok => \/ currentBatch' = batch /\ docs' = docs /\ Len(currentBatch') < BatchSizeLimit
                 \/ currentBatch' = <<>> /\ Content(docs') = View'
        /\ ~ok => /\ currentBatch' = batch
                  /\ \E n \in 0..Len(batch) :
                        Content(docs') = After(Content(docs), SubSeq(batch, 1, n))
                  /\ ~ Performable(batch) => docs' = docs
    BY <1>1, <1>4, <1>5, <1>6, Enqueued
  <1>9. View \in Contents /\ View' \in Contents /\ o.key \in Keys /\ o.val \in Values \cup {Absent}
        /\ View'[o.key] = o.val /\ \A key \in Keys : key # o.key => View'[key] = View[key]
    BY <1>1, <1>6, <1>8, ViewTyped, ThenIs DEF Operations
  <1>10. batch \in Seq(Operations) /\ batch # <<>> /\ Len(batch) \in Nat
    BY <1>1, <1>4, <1>6, NotEmptyAppended, AppendProperties, LenProperties
  <1>11. \A key \in Keys : /\ Held[key] = Holds(key) /\ Held'[key] = Holds(key)'
                           /\ Held'[key] \subseteq Held[key] \cup {v \in {o.val} : o.key = key}
    BY <1>8 DEF Held
  <1>12. possible' \subseteq Contents /\ View' \in possible'
    BY <1>1, <1>5, <1>9
  <1>13. Short'
    <2>1. CASE ok
      BY <1>8, <2>1 DEF Short
    <2>2. CASE ~ok
      <3>1. CASE failures' = failures + 1
        BY <1>1, <3>1 DEF Short
      <3>2. CASE failures' # failures + 1
        <4>1. ~ Performable(batch)
          BY <1>7, <2>2, <3>2 DEF MustFail
        <4>2. docs' = docs /\ currentBatch' = batch
          BY <1>8, <2>2, <4>1
        <4>3. NothingToDo(batch)
          BY <1>1, <1>10, <4>1, PerformableIs
        <4> QED
          BY <4>2, <4>3 DEF Short, NothingToDo
      <3> QED
        BY <3>1, <3>2
    <2> QED
      BY <2>1, <2>2
  <1>14. Recoverable'
    <2>1. CASE ok /\ currentBatch' = <<>>
      <3>1. Content(docs') = View' /\ possible' = {View'}
        BY <1>5, <1>8, <1>10, <2>1
      <3> QED
        BY <1>8, <2>1, <3>1, PerformedIsRecoverable
    <2>2. CASE ~ (ok /\ currentBatch' = <<>>)
      <3>1. currentBatch' = batch /\ possible' = possible \cup {View'}
        BY <1>5, <1>8, <2>2
      <3>2. \A key \in Keys : Holds(key)' \subseteq {v[key] : v \in possible'}
        <4>1. ASSUME NEW key \in Keys, NEW v \in Holds(key)' PROVE \E w \in possible' : v = w[key]
          <5>1. CASE v \in Holds(key)
            BY <1>1, <3>1, <5>1 DEF Recoverable
          <5>2. CASE v = o.val /\ o.key = key
            BY <1>9, <1>12, <5>2
          <5> QED
            BY <1>8, <4>1, <5>1, <5>2
        <4> QED
          BY <4>1
      <3>3. ASSUME failures = 0, NEW n \in 0..Len(batch)
            PROVE  After(Content(docs), SubSeq(batch, 1, n)) \in possible'
        <4>1. /\ Len(currentBatch) \in Nat /\ Len(batch) = Len(currentBatch) + 1
              /\ \A k \in 0..Len(currentBatch) : SubSeq(batch, 1, k) = SubSeq(currentBatch, 1, k)
              /\ SubSeq(batch, 1, Len(currentBatch) + 1) = batch
          BY <1>1, <1>4, <1>6, FrontOfAppend, AppendProperties, LenProperties
        <4>2. CASE n = Len(currentBatch) + 1
          <5>1. Content(docs) \in Contents
            BY <1>1, ContentIs
          <5>2. After(Content(docs), batch) = View'
            BY <1>1, <1>4, <1>6, <1>8, <5>1, AfterAppend DEF View
          <5> QED
            BY <1>12, <4>1, <4>2, <5>2
        <4>3. CASE n # Len(currentBatch) + 1
          <5>1. n \in 0..Len(currentBatch)
            BY <4>1, <4>3
          <5> QED
            BY <1>1, <3>1, <3>3, <4>1, <5>1 DEF Recoverable
        <4> QED
          BY <4>2, <4>3
      <3>4. CASE docs' = docs
        <4>1. failures' <= 1 => Content(docs') \in possible'
          BY <1>1, <1>7, <3>1, <3>4 DEF Recoverable
        <4>2. failures' = 0 => failures = 0
          BY <1>1, <1>7
        <4>3. failures' = 0 => \A n \in 0..Len(batch) :
                                  After(Content(docs'), SubSeq(batch, 1, n)) \in possible'
          BY <3>3, <3>4, <4>2
        <4> QED
          BY <1>12, <3>1, <3>2, <4>1, <4>3 DEF Recoverable
      <3>5. CASE docs' # docs
        <4>1. ~ok /\ failures' = failures + 1
          BY <1>7, <1>8, <2>2, <3>5 DEF MustFail
        <4>2. PICK n \in 0..Len(batch) :
                  Content(docs') = After(Content(docs), SubSeq(batch, 1, n))
          BY <1>8, <4>1
        <4>3. failures' <= 1 => Content(docs') \in possible'
          BY <1>1, <3>3, <4>1, <4>2
        <4>4. failures' # 0
          BY <1>1, <4>1
        <4> QED
          BY <1>12, <3>2, <4>3, <4>4 DEF Recoverable
      <3> QED
        BY <3>4, <3>5
    <2> QED
      BY <2>1, <2>2
  <1>15. \A d \in Clients : seen'[d] = IF clients[d].key = o.key THEN seen[d] \cup {o.val} ELSE seen[d]
    BY <1>5
  <1>16. seen' \in [Clients -> SUBSET (Values \cup {Absent})]
    BY <1>1, <1>5, <1>9
  <1>17. ASSUME NEW d \in Clients PROVE Current(View', Held', clients[d], seen'[d])
    <2>1. Formed(clients[d]) /\ Current(View, Held, clients[d], seen[d])
      BY <1>1 DEF AllFormed, AllCurrent
    <2>2. PICK more : more = seen'[d]
      OBVIOUS
    <2>3. seen[d] \subseteq more
      BY <1>15, <2>2
    <2>4. PICK k : k = clients[d].key
      OBVIOUS
    <2>5. k \in Keys => /\ View'[k] = View[k] \/ View'[k] \in more
                        /\ Held'[k] \subseteq Held[k] \cup more
      <3>1. SUFFICES ASSUME k \in Keys
                     PROVE  /\ View'[k] = View[k] \/ View'[k] \in more
                            /\ Held'[k] \subseteq Held[k] \cup more
        OBVIOUS
      <3>2. CASE k = o.key
        <4>1. o.val \in more
          BY <1>15, <2>2, <2>4, <3>2
        <4> QED
          BY <1>9, <1>11, <3>1, <3>2, <4>1
      <3>3. CASE k # o.key
        BY <1>9, <1>11, <3>1, <3>3
      <3> QED
        BY <3>2, <3>3
    <2>6. Current(View', Held', clients[d], more)
      BY <2>1, <2>3, <2>4, <2>5, CurrentKept
    <2> QED
      BY <2>2, <2>6
  <1>18. CASE ok
    <2>1. PICK me : me = IF old.next < Len(old.ops) THEN [old EXCEPT !.next = @ + 1]
                                                    ELSE [old EXCEPT !.pc = "cache"]
      OBVIOUS
    <2>2. clients' = [clients EXCEPT ![i] = me] /\ disturbed' = disturbed
      BY <1>2, <1>18, <2>1 DEF WriteMain, Become
    <2>3. /\ me.ops = old.ops /\ me.kind = "none" /\ me.key = Absent /\ me \in ClientRecords
          /\ \/ me.pc = "main" /\ me.next = old.next + 1 /\ old.next < Len(old.ops)
             \/ me.pc = "cache" /\ old.next = Len(old.ops)
      <3>1. Len(old.ops) \in Nat
        BY <1>6, LenProperties
      <3>2. CASE old.next < Len(old.ops)
        <4>1. me = [old EXCEPT !.next = old.next + 1]
          BY <2>1, <3>2
        <4>2. me.ops = old.ops /\ me.kind = old.kind /\ me.key = old.key /\ me.pc = old.pc
              /\ me.next = old.next + 1
          BY <1>1, <1>2, <4>1 DEF ClientRecords
        <4>3. me \in ClientRecords
          <5>1. old.next + 1 \in Nat /\ old \in ClientRecords
            BY <1>1, <1>2, <1>6, <3>1
          <5> QED
            BY <4>1, <5>1 DEF ClientRecords
        <4> QED
          BY <1>5, <1>6, <3>2, <4>2, <4>3
      <3>3. CASE ~ (old.next < Len(old.ops))
        <4>1. me = [old EXCEPT !.pc = "cache"] /\ old.next = Len(old.ops)
          BY <1>6, <2>1, <3>1, <3>3
        <4> QED
          BY <1>1, <1>2, <1>6, <4>1 DEF ClientRecords
      <3> QED
        BY <3>2, <3>3
    <2>4. Formed(me) /\ Current(View', Held', me, seen'[i])
      <3>1. Len(old.ops) \in Nat
        BY <1>6, LenProperties
      <3> QED
        BY <1>6, <2>3, <3>1 DEF Formed, Current
    <2>5. ASSUME NEW key \in Keys \ disturbed'
          PROVE  GoesOn(cache, View, Held, clients, cache, View', Held', i, me, key)
      <3>1. Uses(me, key) <=> Uses(old, key)
        BY <1>6, <2>3 DEF Uses
      <3>2. o.key = key => Uses(old, key)
        BY <1>3, <1>6 DEF Uses, About
      <3>3. CASE ~ Uses(old, key)
        <4>1. Quiet(cache, View, Held, cache, View', Held', key)
          BY <1>9, <1>11, <3>2, <3>3 DEF Quiet
        <4> QED
          BY <1>2, <3>1, <3>3, <4>1 DEF GoesOn
      <3>4. CASE Uses(old, key)
        <4>1. Leaves(cache, View, Held, old, key)
          BY <1>1, <1>2, <2>2, <3>4 DEF AllRight, RightFor
        <4>2. PICK front : front = SubSeq(old.ops, 1, old.next - 1)
          OBVIOUS
        <4>3. PICK longer : longer = SubSeq(old.ops, 1, old.next)
          OBVIOUS
        <4>4. front \in Seq(Operations) /\ longer = Append(front, o)
          BY <1>3, <1>6, <4>2, <4>3, FrontStep
        <4>5. After(cache, front) \in Contents /\ After(cache, longer) = Then(After(cache, front), o)
          BY <1>1, <1>6, <4>4, AfterTyped, AfterAppend
        <4>6. Harmless(After(cache, front), View, key)
          BY <1>5, <4>1, <4>2 DEF Leaves
        <4>7. After(cache, longer)[key] \in {Absent, View'[key]}
          <5>1. CASE key = o.key
            <6>1. Then(After(cache, front), o)[o.key] = o.val
              BY <1>6, <4>5, ThenIs
            <6> QED
              BY <1>9, <4>5, <5>1, <6>1
          <5>2. CASE key # o.key
            <6>1. Then(After(cache, front), o)[key] = After(cache, front)[key]
              BY <1>6, <4>5, <5>2, ThenIs
            <6>2. After(cache, front)[key] \in {Absent, View[key]}
              BY <4>6 DEF Harmless
            <6> QED
              BY <1>9, <4>5, <5>2, <6>1, <6>2
          <5> QED
            BY <5>1, <5>2
        <4>8. Harmless(After(cache, longer), View', key)
          BY <4>7 DEF Harmless
        <4>9. Leaves(cache, View', Held', me, key)
          <5>1. CASE me.pc = "main" /\ me.next = old.next + 1
            <6>1. SubSeq(me.ops, 1, me.next - 1) = longer
              <7>1. me.next - 1 = old.next /\ me.ops = old.ops
                BY <1>6, <2>3, <5>1
              <7> QED
                BY <4>3, <7>1, Zenon
            <6> QED
              BY <4>8, <5>1, <6>1 DEF Leaves
          <5>2. CASE me.pc = "cache" /\ old.next = Len(old.ops)
            <6>1. me.ops = longer
              <7>1. SubSeq(old.ops, 1, Len(old.ops)) = old.ops
                BY <1>6, FrontOfAppend
              <7> QED
                BY <2>3, <4>3, <5>2, <7>1
            <6> QED
              BY <4>8, <5>2, <6>1 DEF Leaves
          <5> QED
            BY <2>3, <5>1, <5>2
        <4> QED
          BY <1>2, <3>1, <3>4, <4>9 DEF GoesOn
      <3> QED
        BY <3>3, <3>4
    <2>6. disturbed \subseteq disturbed' /\ disturbed' \subseteq Keys \cup {Absent}
      BY <1>1, <2>2 DEF Typed
    <2> QED
      BY <1>5, <1>7, <1>8, <1>12, <1>13, <1>14, <1>16, <1>17, <2>2, <2>3, <2>4, <2>5, <2>6, StoreMoves
  <1>19. CASE ~ok
    <2>1. clients' = [clients EXCEPT ![i] = Idle] /\ disturbed' = disturbed \cup KeysOf(old)
      BY <1>2, <1>19 DEF WriteMain, Return, Become
    <2>2. disturbed \subseteq disturbed' /\ disturbed' \subseteq Keys \cup {Absent}
      BY <1>1, <1>2, <2>1, KeysOfTyped DEF Typed
    <2>3. ASSUME NEW key \in Keys \ disturbed'
          PROVE  GoesOn(cache, View, Held, clients, cache, View', Held', i, Idle, key)
      <3>1. ~ Uses(old, key)
        BY <1>1, <1>2, <2>1, UsedKeys
      <3>2. key # o.key
        BY <1>3, <1>6, <3>1 DEF Uses, About
      <3>3. Quiet(cache, View, Held, cache, View', Held', key)
        BY <1>9, <1>11, <3>2 DEF Quiet
      <3> QED
        BY <1>2, <3>1, <3>3, IdleIsFormed DEF GoesOn
    <2> QED
      BY <1>5, <1>7, <1>8, <1>12, <1>13, <1>14, <1>16, <1>17, <2>1, <2>2, <2>3, IdleIsFormed, StoreMoves
  <1> QED
    BY <1>18, <1>19

-----------------------------------------------------------------------------
(*****************************************************************************)
(* The invariant is one, and what follows from it.                           *)
(*****************************************************************************)
LEMMA InitHolds == Init => IInv
  <1> SUFFICES ASSUME Init PROVE IInv
    OBVIOUS
  <1>1. /\ docs = {} /\ currentBatch = <<>> /\ cache = [key \in Keys |-> Absent]
        /\ clients = [c \in Clients |-> Idle]
        /\ possible = {View} /\ seen = [c \in Clients |-> {}] /\ disturbed = {}
        /\ writes = 0 /\ reads = 0 /\ failures = 0 /\ restarts = 0
    BY DEF Init
  <1>2. Good(docs)
    BY <1>1, FS_EmptySet DEF Good
  <1>3. Content(docs) \in Contents
    BY <1>2, ContentIs
  <1>4. View = Content(docs)
    BY <1>1, <1>3, AfterNothing DEF View
  <1>5. Typed
    <2>1. clients \in [Clients -> ClientRecords]
      BY <1>1, IdleIsFormed
    <2>2. seen \in [Clients -> SUBSET (Values \cup {Absent})] /\ disturbed \subseteq Keys \cup {Absent}
      BY <1>1
    <2>3. possible \subseteq Contents /\ cache \in Contents
      BY <1>1, <1>3, <1>4 DEF Contents
    <2> QED
      BY <1>1, <2>1, <2>2, <2>3, EmptySeq DEF Typed
  <1>6. Short
    BY <1>1 DEF Short
  <1>7. AllFormed /\ AllCurrent
    BY <1>1, IdleIsFormed DEF AllFormed, AllCurrent
  <1>8. AllRight
    <2>1. SUFFICES ASSUME NEW key \in Keys
                   PROVE  RightFor(cache, View, Held, clients, key)
      BY DEF AllRight
    <2>2. \A c \in Clients : ~ Uses(clients[c], key)
      BY <1>1, IdleIsFormed
    <2>3. Harmless(cache, View, key)
      BY <1>1 DEF Harmless
    <2> QED
      BY <2>2, <2>3 DEF RightFor
  <1>9. Recoverable
    <2>1. \A key \in Keys : Holds(key) = {View[key]}
      BY <1>1, <1>4, MayHoldNothing DEF Holds
    <2>2. ASSUME NEW n \in 0..Len(currentBatch)
          PROVE  After(Content(docs), SubSeq(currentBatch, 1, n)) = View
      <3>1. <<>> \in Seq(Operations) /\ n = 0
        BY <1>1, EmptySeq
      <3>2. SubSeq(<<>>, 1, 0) = <<>>
        BY <3>1, FrontEmpty
      <3> QED
        BY <1>1, <1>3, <1>4, <3>1, <3>2, AfterNothing
    <2> QED
      BY <1>1, <1>4, <2>1, <2>2 DEF Recoverable
  <1> QED
    BY <1>2, <1>5, <1>6, <1>7, <1>8, <1>9 DEF IInv

LEMMA NoStepKeeps == IInv /\ UNCHANGED vars => IInv'
  <1> SUFFICES ASSUME IInv, UNCHANGED vars PROVE IInv'
    OBVIOUS
  <1>1. /\ UNCHANGED store /\ UNCHANGED <<docs, currentBatch, cache, clients, possible, seen, disturbed>>
        /\ UNCHANGED <<writes, reads, failures, restarts>>
    BY DEF vars, store, facts, counts
  <1>2. Good(docs) /\ Typed /\ Short /\ AllFormed /\ AllCurrent /\ AllRight /\ Recoverable
        /\ failures \in Nat
    BY DEF IInv, Typed
  <1>3. Good(docs') /\ View' = View /\ Held' = Held /\ Short' /\ Recoverable'
    BY <1>1, <1>2, StoreKept
  <1>4. Typed' /\ AllFormed' /\ AllCurrent' /\ AllRight'
    BY <1>1, <1>2, <1>3 DEF Typed, AllFormed, AllCurrent, AllRight
  <1> QED
    BY <1>3, <1>4 DEF IInv

LEMMA OneAndTwo ==
    ASSUME NEW o \in Operations, NEW p \in Operations
    PROVE  /\ <<o>> \in Seq(Operations) /\ <<o>> # <<>>
           /\ <<o, p>> \in Seq(Operations) /\ <<o, p>> # <<>>
  OBVIOUS

LEMMA NextKeeps == IInv /\ [Next]_vars => IInv'
  <1> SUFFICES ASSUME IInv, Next PROVE IInv'
    BY NoStepKeeps
  <1>1. ASSUME NEW c \in Clients, NEW o \in Operations,
               Write(c, <<o>>) \/ \E p \in Operations : Write(c, <<o, p>>)
        PROVE  IInv'
    BY <1>1, OneAndTwo, WriteKeeps
  <1>2. ASSUME NEW c \in Clients, NEW key \in Keys, Get(c, key) \/ GetBulk(c, key)
        PROVE  IInv'
    BY <1>2, GetKeeps, GetBulkKeeps
  <1>3. ASSUME NEW c \in Clients, FlushStore(c) \/ Hit(c) PROVE IInv'
    BY <1>3, FlushStoreKeeps, HitKeeps
  <1>4. ASSUME NEW c \in Clients, NEW ok \in BOOLEAN, Step(c, ok) PROVE IInv'
    BY <1>4, WriteMainKeeps, WriteCacheKeeps, FlushFirstKeeps, ReadMainKeeps, FillCacheKeeps DEF Step
  <1> QED
    BY <1>1, <1>2, <1>3, <1>4, RestartKeeps DEF Next

\* Whatever the goroutines call, fails half way or is cut off by a restart: the documents stay
\* one for each key, every call has its form, what a reader may be answered is of its time,
\* what the cache may get is right, and what a restart may go back to has been there.
THEOREM Inductive == Spec => []IInv
  BY InitHolds, NextKeeps, PTL DEF Spec

-----------------------------------------------------------------------------
LEMMA IInvTypes == IInv => TypeOK
  <1> SUFFICES ASSUME IInv PROVE TypeOK
    OBVIOUS
  <1>1. Good(docs) /\ Typed /\ Short
    BY DEF IInv
  <1>2. docs \subseteq Documents
    BY <1>1 DEF Good
  <1>3. currentBatch \in Seq(Operations)
    BY <1>1 DEF Typed
  <1>4. failures = 0 /\ currentBatch # <<>> /\ Performable(currentBatch)
        => Len(currentBatch) < BatchSizeLimit
    BY <1>1, <1>3, PerformableIs DEF Short
  <1> QED
    BY <1>1, <1>2, <1>4 DEF Typed, TypeOK, Contents, ClientRecords

\* Every variable holds a value of its kind, and as long as nothing has failed a batch that can
\* be performed is short of its limit: the write that fills it performs it.
THEOREM Types == Spec => []TypeOK
  BY Inductive, IInvTypes, PTL

LEMMA IInvFinds == IInv => OneDocumentPerKey
  BY OneFound DEF IInv

\* The formatter never leaves two documents for a key, though it gives each new one a random
\* id: it resolves a key among the documents and among the operations of the same batch,
\* also when the batch was performed in part before and is formatted again from its start.
THEOREM EveryKeyHasOneDocument == Spec => []OneDocumentPerKey
  BY Inductive, IInvFinds, PTL

LEMMA IInvReads == IInv => ReadsAreCurrent
  <1> SUFFICES ASSUME IInv, NEW c \in Clients, clients[c].pc = "found"
               PROVE  clients[c].val \in seen[c]
    BY DEF ReadsAreCurrent
  <1>1. Formed(clients[c]) /\ Current(View, Held, clients[c], seen[c])
    BY DEF IInv, AllFormed, AllCurrent
  <1> QED
    BY <1>1 DEF Formed, Current

\* A Get or GetBulk that reads the main store answers with a value that the key had between
\* call and answer, although other goroutines write, flush and fail in between and the read
\* may meet a batch of which a part is performed.
THEOREM ReadersSeeTheirTime == Spec => []ReadsAreCurrent
  BY Inductive, IInvReads, PTL

LEMMA IInvCaches == IInv => CacheIsRight
  <1> SUFFICES ASSUME IInv,
                      NEW key \in Keys \ (disturbed \cup UNION {KeysOf(clients[c]) : c \in Clients})
               PROVE  cache[key] \in {Absent, View[key]}
    BY DEF CacheIsRight
  <1>1. clients \in [Clients -> ClientRecords] /\ RightFor(cache, View, Held, clients, key)
    BY DEF IInv, Typed, AllRight
  <1>2. ASSUME NEW c \in Clients PROVE ~ Uses(clients[c], key)
    <2>1. key \notin KeysOf(clients[c])
      OBVIOUS
    <2> QED
      BY <1>1, <2>1, UsedKeys
  <1> QED
    BY <1>1, <1>2 DEF RightFor, Harmless

\* Though there is no lock around cache and main store, the cache has either nothing or the
\* main store's value of every key that was never used by two calls at once nor by a call that
\* failed half way, and that no call is using.
THEOREM CachesAreRight == Spec => []CacheIsRight
  BY Inductive, IInvCaches, PTL

-----------------------------------------------------------------------------
(*****************************************************************************)
(* The steps of KeyValue.                                                    *)
(*****************************************************************************)
\* What a call has yet to put in the main store.
Pending(me) == IF me.pc = "main" THEN {me.ops[k] : k \in me.next..Len(me.ops)} ELSE {}

LEMMA WantedIs ==
    /\ \A o : o \in Wanted <=> \E c \in Clients : o \in Pending(clients[c])
    /\ \A o : o \in Wanted' <=> \E c \in Clients : o \in Pending(clients'[c])
  BY DEF Wanted, Pending

LEMMA PendingTyped ==
    ASSUME NEW me \in ClientRecords, Formed(me)
    PROVE  Pending(me) \subseteq Operations
  <1>1. SUFFICES ASSUME me.pc = "main", NEW k \in me.next..Len(me.ops)
                 PROVE  me.ops[k] \in Operations
    BY DEF Pending
  <1>2. me.ops \in Seq(Operations) /\ me.next \in 1..Len(me.ops)
    BY <1>1 DEF ClientRecords, Formed
  <1>3. k \in 1..Len(me.ops)
    BY <1>2
  <1> QED
    BY <1>2, <1>3, ElementOfSeq

LEMMA WantedTyped ==
    ASSUME Typed, AllFormed
    PROVE  Wanted \subseteq Operations
  <1>1. SUFFICES ASSUME NEW c \in Clients PROVE Pending(clients[c]) \subseteq Operations
    BY WantedIs
  <1>2. clients[c] \in ClientRecords /\ Formed(clients[c])
    BY DEF Typed, AllFormed
  <1> QED
    BY <1>2, PendingTyped

LEMMA WantedMoves ==
    ASSUME clients \in [Clients -> ClientRecords], NEW i \in Clients, NEW me,
           clients' = [clients EXCEPT ![i] = me]
    PROVE  /\ Pending(me) = Pending(clients[i]) => Wanted' = Wanted
           /\ Pending(me) \subseteq Pending(clients[i]) => Wanted' \subseteq Wanted
           /\ Pending(clients[i]) \subseteq Pending(me) => Wanted \subseteq Wanted'
  <1>1. \A c \in Clients : clients'[c] = IF c = i THEN me ELSE clients[c]
    OBVIOUS
  <1> QED
    BY <1>1, WantedIs

\* A step that leaves the view and what may be gone back to.
LEMMA StutterOrFail ==
    ASSUME failures \in Nat, failures' \in {failures, failures + 1},
           View' = View, possible' = possible, Wanted' = Wanted
    PROVE  [KV!Next]_KV!vars
  BY DEF KV!vars, KV!Next, KV!Fail

LEMMA InitMaps == Init => KV!Init
  <1> SUFFICES ASSUME Init PROVE KV!Init
    OBVIOUS
  <1>1. /\ docs = {} /\ currentBatch = <<>> /\ clients = [c \in Clients |-> Idle]
        /\ possible = {View} /\ failures = 0
    BY DEF Init
  <1>2. Good(docs)
    BY <1>1, FS_EmptySet DEF Good
  <1>3. View = Content(docs)
    BY <1>1, <1>2, ContentIs, AfterNothing DEF View
  <1>4. View = [key \in Keys |-> Absent]
    BY <1>1, <1>3 DEF Content
  <1>5. Wanted = {}
    <2>1. \A c \in Clients : Pending(clients[c]) = {}
      BY <1>1, IdleIsFormed DEF Pending
    <2> QED
      BY <2>1, WantedIs
  <1> QED
    BY <1>1, <1>4, <1>5 DEF KV!Init

LEMMA WriteMaps ==
    ASSUME IInv, IInv', NEW i \in Clients, NEW ops, Write(i, ops)
    PROVE  [KV!Next]_KV!vars
  <1>1. Typed /\ clients \in [Clients -> ClientRecords] /\ Good(docs)
    BY DEF IInv, Typed
  <1>2. PICK me : clients' = [clients EXCEPT ![i] = me]
    BY DEF Write, Become
  <1>3. clients[i].pc = "idle" /\ UNCHANGED store /\ possible' = possible /\ failures' = failures
    BY DEF Write
  <1>4. Wanted \subseteq Wanted'
    <2>1. Pending(clients[i]) = {}
      BY <1>3 DEF Pending
    <2> QED
      BY <1>1, <1>2, <2>1, WantedMoves
  <1>5. Wanted' \subseteq Operations
    <2>1. Typed' /\ AllFormed'
      BY DEF IInv
    <2>2. \A c \in Clients : clients'[c] \in ClientRecords /\ Formed(clients'[c])
      BY <2>1 DEF Typed, AllFormed
    <2> QED
      BY <2>2, PendingTyped, WantedIs
  <1>6. View' = View
    BY <1>1, <1>3, StoreKept
  <1> QED
    BY <1>3, <1>4, <1>5, <1>6 DEF KV!Next, KV!Call, Operations

LEMMA WriteMainMaps ==
    ASSUME IInv, NEW i \in Clients, NEW ok \in BOOLEAN, WriteMain(i, ok)
    PROVE  [KV!Next]_KV!vars
  <1>1. /\ Typed /\ clients \in [Clients -> ClientRecords] /\ Good(docs)
        /\ clients[i] \in ClientRecords /\ Formed(clients[i])
        /\ currentBatch \in Seq(Operations) /\ failures \in Nat
    BY DEF IInv, Typed, AllFormed
  <1>2. PICK old : old = clients[i]
    OBVIOUS
  <1>3. PICK o : o = old.ops[old.next]
    OBVIOUS
  <1>4. /\ old.pc = "main" /\ Enqueue(o, ok) /\ failures' \in {failures, failures + 1}
        /\ possible' \in {possible \cup {View'}, {View'}}
    BY <1>1, <1>2, <1>3, FailureIs DEF WriteMain
  <1>5. old.ops \in Seq(Operations) /\ old.next \in 1..Len(old.ops) /\ o \in Operations
    <2>1. old.ops \in Seq(Operations) /\ old.next \in 1..Len(old.ops)
      BY <1>1, <1>2, <1>4 DEF ClientRecords, Formed
    <2> QED
      BY <1>3, <2>1, ElementOfSeq
  <1>6. View' = [View EXCEPT ![o.key] = o.val]
    BY <1>1, <1>4, <1>5, Enqueued DEF Then
  <1>7. o \in Wanted
    <2>1. o \in Pending(old)
      <3>1. old.next \in old.next..Len(old.ops)
        BY <1>5
      <3> QED
        BY <1>3, <1>4, <3>1 DEF Pending
    <2> QED
      BY <1>2, <2>1, WantedIs
  <1>8. Wanted' \subseteq Wanted
    <2>1. PICK me : /\ clients' = [clients EXCEPT ![i] = me]
                    /\ \/ me = [old EXCEPT !.next = old.next + 1]
                       \/ me = [old EXCEPT !.pc = "cache"]
                       \/ me = Idle
      BY <1>2 DEF WriteMain, Become, Return
    <2>2. Pending(me) \subseteq Pending(old)
      <3>1. CASE me = [old EXCEPT !.next = old.next + 1]
        <4>1. me.ops = old.ops /\ me.pc = "main" /\ me.next = old.next + 1
          BY <1>1, <1>2, <1>4, <3>1 DEF ClientRecords
        <4>2. (old.next + 1)..Len(old.ops) \subseteq old.next..Len(old.ops)
          BY <1>5
        <4> QED
          BY <1>4, <4>1, <4>2 DEF Pending
      <3>2. CASE me = [old EXCEPT !.pc = "cache"]
        <4>1. me.pc = "cache"
          BY <1>1, <1>2, <3>2 DEF ClientRecords
        <4> QED
          BY <4>1 DEF Pending
      <3>3. CASE me = Idle
        BY <3>3, IdleIsFormed DEF Pending
      <3> QED
        BY <2>1, <3>1, <3>2, <3>3
    <2> QED
      BY <1>1, <1>2, <2>1, <2>2, WantedMoves
  <1> QED
    BY <1>4, <1>6, <1>7, <1>8 DEF KV!Next, KV!Write

LEMMA FlushFirstMaps ==
    ASSUME IInv, NEW i \in Clients, NEW ok \in BOOLEAN, FlushFirst(i, ok)
    PROVE  [KV!Next]_KV!vars
  <1>1. /\ clients \in [Clients -> ClientRecords] /\ Good(docs)
        /\ clients[i] \in ClientRecords
        /\ currentBatch \in Seq(Operations) /\ failures \in Nat
    BY DEF IInv, Typed
  <1>2. /\ clients[i].pc = "flush" /\ FlushBatch(currentBatch, ok)
        /\ Failure(ok, MustFail(currentBatch)) /\ possible' = IF ok THEN {View} ELSE possible
    BY DEF FlushFirst, Flush
  <1>3. View' = View
    BY <1>1, <1>2, BatchFlushed DEF View
  <1>4. failures' \in {failures, failures + 1} /\ (ok => failures' = failures)
    BY <1>1, <1>2, FailureIs
  <1>5. Wanted' = Wanted
    <2>1. PICK me : /\ clients' = [clients EXCEPT ![i] = me]
                    /\ me = [clients[i] EXCEPT !.pc = "read"] \/ me = Idle
      BY DEF FlushFirst, Goto, Return, Become
    <2>2. me.pc # "main"
      BY <1>1, <2>1, IdleIsFormed DEF ClientRecords
    <2>3. Pending(me) = Pending(clients[i])
      BY <1>2, <2>2 DEF Pending
    <2> QED
      BY <1>1, <2>1, <2>3, WantedMoves
  <1>6. CASE ok
    BY <1>2, <1>3, <1>4, <1>5, <1>6 DEF KV!Next, KV!Flush
  <1>7. CASE ~ok
    BY <1>1, <1>2, <1>3, <1>4, <1>5, <1>7, StutterOrFail
  <1> QED
    BY <1>6, <1>7

LEMMA RestartMaps ==
    ASSUME IInv, Restart
    PROVE  [KV!Next]_KV!vars
  <1>1. Good(docs) /\ Recoverable
    BY DEF IInv
  <1>2. /\ docs' = docs /\ currentBatch' = <<>> /\ clients' = [c \in Clients |-> Idle]
        /\ possible' = {View'} /\ failures' = failures
    BY DEF Restart
  <1>3. View' = Content(docs)
    <2>1. View' = After(Content(docs), <<>>)
      BY <1>2 DEF View
    <2> QED
      BY <1>1, <2>1, ContentIs, AfterNothing
  <1>4. Wanted' = {}
    <2>1. \A c \in Clients : Pending(clients'[c]) = {}
      BY <1>2, IdleIsFormed DEF Pending
    <2> QED
      BY <2>1, WantedIs
  <1>5. failures <= 1 => View' \in possible
    BY <1>1, <1>3 DEF Recoverable
  <1>6. \A key \in Keys : \E v \in possible : View'[key] = v[key]
    <2>1. \A key \in Keys : Content(docs)[key] \in Holds(key)
      BY DEF Holds, MayHold
    <2> QED
      BY <1>1, <1>3, <2>1 DEF Recoverable
  <1> QED
    BY <1>2, <1>4, <1>5, <1>6 DEF KV!Next, KV!Restart

\* The steps that the main store does not see.
LEMMA UnseenMaps ==
    ASSUME IInv, NEW i \in Clients, NEW me, clients' = [clients EXCEPT ![i] = me],
           clients[i].pc # "main", me.pc # "main",
           UNCHANGED store, possible' = possible, failures' \in {failures, failures + 1}
    PROVE  [KV!Next]_KV!vars
  <1>1. clients \in [Clients -> ClientRecords] /\ Good(docs) /\ failures \in Nat
    BY DEF IInv, Typed
  <1>2. Pending(me) = Pending(clients[i])
    BY DEF Pending
  <1>3. Wanted' = Wanted
    BY <1>1, <1>2, WantedMoves
  <1> QED
    BY <1>1, <1>3, StoreKept, StutterOrFail

LEMMA NextMaps == IInv /\ IInv' /\ [Next]_vars => [KV!Next]_KV!vars
  <1> SUFFICES ASSUME IInv, IInv', [Next]_vars PROVE [KV!Next]_KV!vars
    OBVIOUS
  <1>0. failures \in Nat /\ clients \in [Clients -> ClientRecords]
    BY DEF IInv, Typed
  <1>1. ASSUME NEW c \in Clients, NEW o \in Operations,
               Write(c, <<o>>) \/ \E p \in Operations : Write(c, <<o, p>>)
        PROVE  [KV!Next]_KV!vars
    BY <1>1, WriteMaps
  <1>2. ASSUME NEW c \in Clients, NEW key \in Keys, Get(c, key) \/ GetBulk(c, key)
        PROVE  [KV!Next]_KV!vars
    <2> DEFINE read == [Idle EXCEPT !.pc = IF cache[key] = Absent THEN "flush" ELSE "hit",
                                    !.kind = "get", !.key = key, !.val = cache[key]]
               bulk == [Idle EXCEPT !.pc = "flush", !.kind = "bulk", !.key = key]
    <2>1. /\ clients[c].pc = "idle" /\ UNCHANGED store /\ possible' = possible /\ failures' = failures
          /\ \/ clients' = [clients EXCEPT ![c] = read]
             \/ clients' = [clients EXCEPT ![c] = bulk]
      BY <1>2 DEF Get, GetBulk, Become
    <2>2. read.pc # "main" /\ bulk.pc # "main"
      BY DEF Idle
    <2> HIDE DEF read, bulk
    <2> QED
      BY <1>0, <2>1, <2>2, UnseenMaps
  <1>3. ASSUME NEW c \in Clients, FlushStore(c) PROVE [KV!Next]_KV!vars
    <2> DEFINE flush == [Idle EXCEPT !.pc = "flush", !.kind = "flush"]
    <2>1. /\ clients[c].pc = "idle" /\ UNCHANGED store /\ possible' = possible /\ failures' = failures
          /\ clients' = [clients EXCEPT ![c] = flush]
      BY <1>3 DEF FlushStore, Become, facts
    <2>2. flush.pc # "main"
      BY DEF Idle
    <2> HIDE DEF flush
    <2> QED
      BY <1>0, <2>1, <2>2, UnseenMaps
  <1>4. ASSUME NEW c \in Clients, Hit(c) PROVE [KV!Next]_KV!vars
    <2>1. /\ clients[c].pc = "hit" /\ UNCHANGED store /\ possible' = possible /\ failures' = failures
          /\ clients' = [clients EXCEPT ![c] = Idle]
      BY <1>4 DEF Hit, Return, Become, facts, counts
    <2> QED
      BY <1>0, <2>1, IdleIsFormed, UnseenMaps
  <1>5. ASSUME NEW c \in Clients, NEW ok \in BOOLEAN, WriteCache(c, ok) PROVE [KV!Next]_KV!vars
    <2>1. /\ clients[c].pc = "cache" /\ UNCHANGED store /\ possible' = possible
          /\ clients' = [clients EXCEPT ![c] = Idle] /\ Failure(ok, FALSE)
      BY <1>5 DEF WriteCache, Return, Become
    <2> QED
      BY <1>0, <2>1, FailureIs, IdleIsFormed, UnseenMaps
  <1>6. ASSUME NEW c \in Clients, NEW ok \in BOOLEAN, ReadMain(c, ok) PROVE [KV!Next]_KV!vars
    <2>1. PICK me : /\ clients' = [clients EXCEPT ![c] = me]
                    /\ \/ \E v : me = [clients[c] EXCEPT !.pc = "found", !.val = v]
                       \/ me = Idle
      BY <1>6 DEF ReadMain, Return, Become
    <2>2. me.pc # "main"
      BY <1>0, <2>1, IdleIsFormed DEF ClientRecords
    <2>3. /\ clients[c].pc = "read" /\ UNCHANGED store /\ possible' = possible
          /\ failures' \in {failures, failures + 1}
      BY <1>0, <1>6, FailureIs DEF ReadMain, facts
    <2> QED
      BY <2>1, <2>2, <2>3, UnseenMaps
  <1>7. ASSUME NEW c \in Clients, NEW ok \in BOOLEAN, FillCache(c, ok) PROVE [KV!Next]_KV!vars
    <2>1. /\ clients[c].pc = "found" /\ UNCHANGED store /\ possible' = possible
          /\ clients' = [clients EXCEPT ![c] = Idle]
      BY <1>7 DEF FillCache, Return, Become, facts
    <2>2. failures' \in {failures, failures + 1}
      BY <1>0, <1>7, FailureIs DEF FillCache
    <2> QED
      BY <2>1, <2>2, IdleIsFormed, UnseenMaps
  <1>8. CASE UNCHANGED vars
    <2>1. View' = View /\ possible' = possible /\ Wanted' = Wanted /\ failures' = failures
      <3>1. UNCHANGED <<docs, currentBatch, clients, possible, failures>>
        BY <1>8 DEF vars, store, facts, counts
      <3> QED
        BY <3>1 DEF View, Wanted
    <2> QED
      BY <1>0, <2>1, StutterOrFail
  <1> QED
    BY <1>1, <1>2, <1>3, <1>4, <1>5, <1>6, <1>7, <1>8, WriteMainMaps, FlushFirstMaps, RestartMaps
       DEF Next, Step

\* The cache, the batches and the documents implement one value per key: every step of every
\* goroutine is a call, a write, a flush, a failure or a restart of KeyValue, or nothing.
THEOREM Refines == Spec => ImplementsKeyValue
  <1>1. Init => KV!Init
    BY InitMaps
  <1>2. IInv /\ IInv' /\ [Next]_vars => [KV!Next]_KV!vars
    BY NextMaps
  <1> QED
    BY <1>1, <1>2, Inductive, PTL DEF Spec, KV!Spec, ImplementsKeyValue
===============================================================================
