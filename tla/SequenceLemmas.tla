---------------------------- MODULE SequenceLemmas ----------------------------
(***************************************************************************)
(* Sequences without repetition, as the messages of an inbox are: what       *)
(* appending, taking the head and cutting in two leave of them.  Induction   *)
(* over numbers and sequences, and what a fold of the community modules      *)
(* computes, as statements about sets and functions.                         *)
(***************************************************************************)
EXTENDS Integers, SequencesExt, SequenceTheorems, WellFoundedInduction, TLAPS

NoDup(s)       == \A i, j \in 1..Len(s) : s[i] = s[j] => i = j
Disjoint(s, t) == ToSet(s) \cap ToSet(t) = {}

LEMMA ToSetDef ==
    ASSUME NEW S, NEW s \in Seq(S)
    PROVE  ToSet(s) = {s[i] : i \in 1..Len(s)} /\ ToSet(s) \subseteq S
  BY LenProperties, ElementOfSeq DEF ToSet

LEMMA EmptyHasNothing == ToSet(<<>>) = {} /\ NoDup(<<>>)
  BY DEF ToSet, NoDup

LEMMA AppendAdds ==
    ASSUME NEW S, NEW s \in Seq(S), NEW e \in S
    PROVE  /\ Append(s, e) \in Seq(S)
           /\ ToSet(Append(s, e)) = ToSet(s) \cup {e}
           /\ NoDup(s) /\ e \notin ToSet(s) => NoDup(Append(s, e))
  <1>1. /\ Append(s, e) \in Seq(S) /\ Len(s) \in Nat /\ Len(Append(s, e)) = Len(s) + 1
        /\ \A i \in 1..Len(s) : Append(s, e)[i] = s[i]
        /\ Append(s, e)[Len(s) + 1] = e
    BY LenProperties
  <1>2. ToSet(Append(s, e)) = {Append(s, e)[i] : i \in 1..(Len(s) + 1)}
    BY <1>1, ToSetDef
  <1>3. ToSet(s) = {s[i] : i \in 1..Len(s)}
    BY ToSetDef
  <1>4. 1..(Len(s) + 1) = 1..Len(s) \cup {Len(s) + 1}
    BY <1>1
  <1>5. ToSet(Append(s, e)) = ToSet(s) \cup {e}
    BY <1>1, <1>2, <1>3, <1>4
  <1>6. NoDup(s) /\ e \notin ToSet(s) => NoDup(Append(s, e))
    BY <1>1, <1>3, <1>4 DEF NoDup
  <1> QED
    BY <1>1, <1>5, <1>6

LEMMA TailLeaves ==
    ASSUME NEW S, NEW s \in Seq(S), s # <<>>
    PROVE  /\ Head(s) \in S /\ Tail(s) \in Seq(S)
           /\ ToSet(s) = {Head(s)} \cup ToSet(Tail(s))
           /\ NoDup(s) => NoDup(Tail(s)) /\ Head(s) \notin ToSet(Tail(s))
  <1>1. /\ Len(s) \in Nat \ {0} /\ Head(s) = s[1] /\ Head(s) \in S /\ Tail(s) \in Seq(S)
        /\ Len(Tail(s)) = Len(s) - 1
        /\ \A i \in 1..(Len(s) - 1) : Tail(s)[i] = s[i + 1]
    BY EmptySeq, HeadTailProperties
  <1>2. /\ ToSet(s) = {s[i] : i \in 1..Len(s)}
        /\ ToSet(Tail(s)) = {Tail(s)[i] : i \in 1..(Len(s) - 1)}
    BY <1>1, ToSetDef
  <1>3. ToSet(s) \subseteq {Head(s)} \cup ToSet(Tail(s))
    <2> SUFFICES ASSUME NEW i \in 1..Len(s), i # 1 PROVE s[i] \in ToSet(Tail(s))
      BY <1>1, <1>2
    <2>1. i - 1 \in 1..(Len(s) - 1) /\ Tail(s)[i - 1] = s[i]
      BY <1>1
    <2> QED
      BY <1>2, <2>1
  <1>4. {Head(s)} \cup ToSet(Tail(s)) \subseteq ToSet(s)
    BY <1>1, <1>2
  <1>5. NoDup(s) => NoDup(Tail(s)) /\ Head(s) \notin ToSet(Tail(s))
    BY <1>1, <1>2 DEF NoDup
  <1> QED
    BY <1>1, <1>3, <1>4, <1>5

\* A sequence is cut in two.
Cut(s, n, front, rest) == front = SubSeq(s, 1, n) /\ rest = SubSeq(s, n + 1, Len(s))

LEMMA CutParts ==
    ASSUME NEW S, NEW s \in Seq(S), NEW n \in 0..Len(s), NEW front, NEW rest,
           Cut(s, n, front, rest)
    PROVE  /\ front \in Seq(S) /\ rest \in Seq(S)
           /\ ToSet(front) = {s[i] : i \in 1..n}
           /\ ToSet(s) = ToSet(front) \cup ToSet(rest)
           /\ NoDup(s) => NoDup(front) /\ NoDup(rest) /\ Disjoint(front, rest)
  <1>1. Len(s) \in Nat /\ n \in Nat /\ \A i \in 1..Len(s) : s[i] \in S
    BY LenProperties, ElementOfSeq
  <1>2. /\ front \in Seq(S) /\ Len(front) = n
        /\ \A i \in 1..n : front[i] = s[i]
    BY <1>1, SubSeqProperties DEF Cut
  <1>3. /\ rest \in Seq(S) /\ Len(rest) = Len(s) - n
        /\ \A i \in 1..(Len(s) - n) : rest[i] = s[n + i]
    BY <1>1, SubSeqProperties DEF Cut
  <1>4. /\ ToSet(front) = {s[i] : i \in 1..n}
        /\ ToSet(rest) = {rest[i] : i \in 1..(Len(s) - n)}
        /\ ToSet(s) = {s[i] : i \in 1..Len(s)}
    <2>1. ToSet(front) = {front[i] : i \in 1..n}
      BY <1>2, ToSetDef
    <2>2. ToSet(rest) = {rest[i] : i \in 1..(Len(s) - n)}
      BY <1>3, ToSetDef
    <2>3. ToSet(s) = {s[i] : i \in 1..Len(s)}
      BY ToSetDef
    <2> QED
      BY <1>2, <2>1, <2>2, <2>3
  <1>5. ToSet(s) \subseteq ToSet(front) \cup ToSet(rest)
    <2> SUFFICES ASSUME NEW i \in 1..Len(s), i \notin 1..n PROVE s[i] \in ToSet(rest)
      BY <1>4
    <2>1. i - n \in 1..(Len(s) - n) /\ rest[i - n] = s[i]
      BY <1>1, <1>3
    <2> QED
      BY <1>4, <2>1
  <1>6. ToSet(front) \cup ToSet(rest) \subseteq ToSet(s)
    BY <1>1, <1>3, <1>4
  <1>7. NoDup(s) => NoDup(front) /\ NoDup(rest) /\ Disjoint(front, rest)
    <2> SUFFICES ASSUME NoDup(s)
                 PROVE  NoDup(front) /\ NoDup(rest) /\ Disjoint(front, rest)
      OBVIOUS
    <2>1. NoDup(front)
      BY <1>1, <1>2 DEF NoDup
    <2>2. NoDup(rest)
      <3> SUFFICES ASSUME NEW i \in 1..(Len(s) - n), NEW j \in 1..(Len(s) - n),
                          rest[i] = rest[j]
                   PROVE  i = j
        BY <1>3 DEF NoDup
      <3>1. n + i \in 1..Len(s) /\ n + j \in 1..Len(s) /\ s[n + i] = s[n + j]
        BY <1>1, <1>3
      <3> QED
        BY <1>1, <3>1 DEF NoDup
    <2>3. ASSUME NEW i \in 1..n, NEW j \in 1..(Len(s) - n) PROVE s[i] # rest[j]
      <3>1. n + j \in 1..Len(s) /\ i \in 1..Len(s) /\ i # n + j /\ rest[j] = s[n + j]
        BY <1>1, <1>3
      <3> QED
        BY <3>1 DEF NoDup
    <2> QED
      BY <1>4, <2>1, <2>2, <2>3 DEF Disjoint
  <1> QED
    BY <1>2, <1>3, <1>4, <1>5, <1>6, <1>7

-----------------------------------------------------------------------------
\* The first elements of a sequence, when one is appended.
LEMMA FrontOfAppend ==
    ASSUME NEW S, NEW s \in Seq(S), NEW e \in S
    PROVE  /\ \A n \in 0..Len(s) : SubSeq(Append(s, e), 1, n) = SubSeq(s, 1, n)
           /\ SubSeq(Append(s, e), 1, Len(s) + 1) = Append(s, e)
           /\ SubSeq(s, 1, Len(s)) = s
  <1>1. PICK t : t = Append(s, e)
    OBVIOUS
  <1>2. /\ t \in Seq(S) /\ Len(s) \in Nat /\ Len(t) = Len(s) + 1
        /\ \A i \in 1..Len(s) : t[i] = s[i]
    BY <1>1, AppendProperties, LenProperties
  <1>3. ASSUME NEW n \in 0..Len(s) PROVE SubSeq(t, 1, n) = SubSeq(s, 1, n)
    <2>1. PICK a : a = SubSeq(t, 1, n)
      OBVIOUS
    <2>2. PICK b : b = SubSeq(s, 1, n)
      OBVIOUS
    <2>3. a \in Seq(S) /\ Len(a) = n /\ \A i \in 1..n : a[i] = t[i]
      BY <1>2, <2>1, SubSeqProperties
    <2>4. b \in Seq(S) /\ Len(b) = n /\ \A i \in 1..n : b[i] = s[i]
      BY <1>2, <2>2, SubSeqProperties
    <2>5. \A i \in 1..Len(a) : a[i] = b[i]
      BY <1>2, <2>3, <2>4
    <2>6. a = b
      BY <2>3, <2>4, <2>5, SeqEqual
    <2> QED
      BY <2>1, <2>2, <2>6
  <1>4. ASSUME NEW u \in Seq(S) PROVE SubSeq(u, 1, Len(u)) = u
    <2>1. PICK a : a = SubSeq(u, 1, Len(u))
      OBVIOUS
    <2>2. Len(u) \in Nat /\ a \in Seq(S) /\ Len(a) = Len(u) /\ \A i \in 1..Len(u) : a[i] = u[i]
      BY <2>1, LenProperties, SubSeqProperties
    <2>3. a = u
      BY <2>2, SeqEqual
    <2> QED
      BY <2>1, <2>3
  <1> QED
    BY <1>1, <1>2, <1>3, <1>4

LEMMA FrontEmpty ==
    ASSUME NEW S, NEW s \in Seq(S)
    PROVE  SubSeq(s, 1, 0) = <<>>
  <1>1. PICK t : t = SubSeq(s, 1, 0)
    OBVIOUS
  <1>2. t \in Seq(S) /\ Len(t) = 0
    BY <1>1, SubSeqProperties, LenProperties
  <1>3. t = <<>>
    BY <1>2, EmptySeq
  <1> QED
    BY <1>1, <1>3

LEMMA FrontStep ==
    ASSUME NEW S, NEW s \in Seq(S), NEW n \in 1..Len(s)
    PROVE  SubSeq(s, 1, n) = Append(SubSeq(s, 1, n - 1), s[n]) /\ s[n] \in S
           /\ SubSeq(s, 1, n - 1) \in Seq(S)
  <1>1. PICK m \in Nat : m = n - 1 /\ n = m + 1 /\ m \in 0..Len(s) /\ Len(s) \in Nat
    BY LenProperties
  <1>2. PICK a : a = SubSeq(s, 1, m)
    OBVIOUS
  <1>3. PICK b : b = SubSeq(s, 1, n)
    OBVIOUS
  <1>4. a \in Seq(S) /\ Len(a) = m /\ \A i \in 1..m : a[i] = s[i]
    <2>1. 1 \in 1..(Len(s) + 1) /\ m \in (1 - 1)..Len(s) /\ m - 1 + 1 = m
      BY <1>1
    <2> QED
      BY <1>1, <1>2, <2>1, SubSeqProperties
  <1>5. b \in Seq(S) /\ Len(b) = n /\ \A i \in 1..n : b[i] = s[i]
    BY <1>1, <1>3, SubSeqProperties
  <1>6. s[n] \in S
    BY ElementOfSeq
  <1>7. PICK e : e = Append(a, s[n])
    OBVIOUS
  <1>8. e \in Seq(S) /\ Len(e) = m + 1 /\ e[m + 1] = s[n] /\ \A i \in 1..m : e[i] = a[i]
    BY <1>4, <1>6, <1>7, AppendProperties
  <1>9. \A i \in 1..Len(b) : b[i] = e[i]
    BY <1>1, <1>4, <1>5, <1>8
  <1>10. b = e
    BY <1>1, <1>5, <1>8, <1>9, SeqEqual
  <1> QED
    BY <1>1, <1>2, <1>3, <1>4, <1>6, <1>7, <1>10

LEMMA NotEmptyAppended ==
    ASSUME NEW S, NEW s \in Seq(S), NEW e \in S
    PROVE  Append(s, e) # <<>>
  BY AppendProperties, LenProperties, EmptySeq

-----------------------------------------------------------------------------
(***************************************************************************)
(* Induction over data.  The theorems of the library take a predicate as a  *)
(* parameter; that every nonempty set of numbers has a least one (WFMin) is *)
(* a statement about a set, and so is what follows from it.                 *)
(***************************************************************************)
LEMMA SetInduction ==
    ASSUME NEW S, 0 \in S, \A n \in Nat : n \in S => n + 1 \in S
    PROVE  Nat \subseteq S
  <1>1. IsWellFoundedOn({ss \in Nat \X Nat : ss[1] < ss[2]}, Nat)
    BY NatLessThanWellFounded, Zenon DEF OpToRel
  <1>2. PICK R : R = {ss \in Nat \X Nat : ss[1] < ss[2]}
    OBVIOUS
  <1>3. SUFFICES ASSUME Nat \ S # {} PROVE FALSE
    OBVIOUS
  <1>4. PICK n \in Nat \ S : \A m \in Nat \ S : <<m, n>> \notin R
    <2>1. PICK T : T = Nat \ S
      OBVIOUS
    <2>2. T \subseteq Nat /\ T # {}
      BY <2>1, <1>3
    <2>3. \E x \in T : \A y \in T : ~ (<<y, x>> \in R)
      BY <2>2, <1>1, <1>2, WFMin
    <2> QED
      BY <2>1, <2>3
  <1>5. n # 0 /\ n - 1 \in Nat /\ n - 1 \notin S
    BY <1>4
  <1>6. <<n - 1, n>> \in R
    BY <1>2, <1>5
  <1> QED
    BY <1>4, <1>5, <1>6

\* ... up to a number.
LEMMA InductionUpTo ==
    ASSUME NEW n \in Nat, NEW S, 0 \in S, \A k \in 1..n : k - 1 \in S => k \in S
    PROVE  0..n \subseteq S
  <1>1. PICK P : P = {k \in Nat : k <= n => k \in S}
    OBVIOUS
  <1>2. 0 \in P
    BY <1>1
  <1>3. ASSUME NEW k \in Nat, k \in P PROVE k + 1 \in P
    <2>1. CASE k + 1 <= n
      <3>1. k + 1 \in 1..n /\ (k + 1) - 1 = k /\ k \in S
        BY <1>1, <1>3, <2>1
      <3>2. k + 1 \in S
        BY <3>1
      <3> QED
        BY <1>1, <3>2
    <2>2. CASE ~ (k + 1 <= n)
      BY <1>1, <2>2
    <2> QED
      BY <2>1, <2>2
  <1>4. Nat \subseteq P
    BY <1>2, <1>3, SetInduction
  <1> QED
    BY <1>1, <1>4

\* Sequences are made from the empty one by appending.
LEMMA SequenceInduction ==
    ASSUME NEW X, NEW P, <<>> \in P, \A s \in Seq(X), e \in X : s \in P => Append(s, e) \in P
    PROVE  Seq(X) \subseteq P
  <1>1. PICK S : S = {n \in Nat : \A s \in Seq(X) : Len(s) = n => s \in P}
    OBVIOUS
  <1>2. 0 \in S
    BY <1>1, EmptySeq
  <1>3. ASSUME NEW n \in Nat, n \in S PROVE n + 1 \in S
    <2>1. SUFFICES ASSUME NEW s \in Seq(X), Len(s) = n + 1 PROVE s \in P
      BY <1>1
    <2>2. PICK front : front = SubSeq(s, 1, n)
      OBVIOUS
    <2>3. front \in Seq(X) /\ Len(front) = n
      BY <2>1, <2>2, SubSeqProperties
    <2>4. s[n + 1] \in X /\ s = Append(front, s[n + 1])
      <3>1. n + 1 \in 1..Len(s)
        BY <2>1
      <3>2. s[n + 1] \in X
        BY <3>1, ElementOfSeq
      <3>3. \A i \in 1..n : front[i] = s[i]
        BY <2>1, <2>2, SubSeqProperties
      <3>4. PICK t : t = Append(front, s[n + 1])
        OBVIOUS
      <3>5. t \in Seq(X) /\ Len(t) = Len(s) /\ \A i \in 1..Len(s) : t[i] = s[i]
        BY <2>1, <2>3, <3>2, <3>3, <3>4, AppendProperties
      <3>6. t = s
        BY <3>5, SeqEqual
      <3> QED
        BY <3>2, <3>4, <3>6
    <2>5. front \in P
      BY <1>1, <1>3, <2>3
    <2> QED
      BY <2>3, <2>4, <2>5
  <1>4. Nat \subseteq S
    BY <1>2, <1>3, SetInduction
  <1> QED
    BY <1>1, <1>4, LenProperties

-----------------------------------------------------------------------------
(***************************************************************************)
(* Folds.  MapThenFoldSet recurs on sets of positions; FoldExists shows that *)
(* there is a function that does, whatever the step is.                      *)
(***************************************************************************)
FoldsBy(g, base, step, n) ==
    \A s \in SUBSET (1..n) :
        g[s] = IF s = {} THEN base ELSE step[<<g[s \ {Max(s)}], Max(s)>>]

Foldable(T, base, step, n) == \E g \in [SUBSET (1..n) -> T] : FoldsBy(g, base, step, n)

LEMMA MaxIsIn ==
    ASSUME NEW n \in Nat, NEW s \in SUBSET (1..(n + 1)), n + 1 \in s
    PROVE  Max(s) = n + 1
  <1>1. \A x \in s : (\A y \in s : x >= y) <=> x = n + 1
    OBVIOUS
  <1> QED
    BY <1>1 DEF Max

LEMMA FoldExists ==
    ASSUME NEW T, NEW base \in T, NEW n \in Nat, NEW step \in [T \X (1..n) -> T]
    PROVE  Foldable(T, base, step, n)
  <1>1. PICK S : S = {k \in 0..n : Foldable(T, base, step, k)}
    OBVIOUS
  <1>2. 0 \in S
    <2>1. PICK g : g = [s \in SUBSET (1..0) |-> base]
      OBVIOUS
    <2>2. \A s \in SUBSET (1..0) : s = {}
      OBVIOUS
    <2>3. g \in [SUBSET (1..0) -> T]
      BY <2>1
    <2>4. FoldsBy(g, base, step, 0)
      <3>1. \A s \in SUBSET (1..0) : g[s] = base
        BY <2>1
      <3> QED
        BY <2>2, <3>1, Zenon DEF FoldsBy
    <2>5. Foldable(T, base, step, 0)
      BY <2>3, <2>4, Zenon DEF Foldable
    <2> QED
      BY <1>1, <2>5
  <1>3. ASSUME NEW k \in 1..n, k - 1 \in S PROVE k \in S
    <2>1. PICK m \in Nat : m = k - 1
      OBVIOUS
    <2>2. m + 1 = k /\ m + 1 \in 1..n
      BY <2>1
    <2>3. PICK g \in [SUBSET (1..m) -> T] : FoldsBy(g, base, step, m)
      <3>1. Foldable(T, base, step, m)
        BY <1>1, <1>3, <2>1
      <3> QED
        BY <3>1, Zenon DEF Foldable
    <2>4. PICK h : h = [s \in SUBSET (1..k) |->
                           IF k \in s THEN step[<<g[s \ {k}], k>>] ELSE g[s]]
      OBVIOUS
    <2>5. \A s \in SUBSET (1..k) : /\ s \ {k} \in SUBSET (1..m)
                                   /\ k \notin s => s \in SUBSET (1..m)
      BY <2>2
    <2>6. h \in [SUBSET (1..k) -> T]
      <3>1. ASSUME NEW s \in SUBSET (1..k) PROVE h[s] \in T
        BY <2>2, <2>4, <2>5
      <3> QED
        BY <2>4, <3>1
    <2>7. \A s \in SUBSET (1..m) : h[s] = g[s]
      <3>1. ASSUME NEW s \in SUBSET (1..m) PROVE s \in SUBSET (1..k) /\ k \notin s
        BY <2>2
      <3> QED
        BY <2>4, <3>1
    <2>8. ASSUME NEW s \in SUBSET (1..k)
          PROVE  h[s] = IF s = {} THEN base ELSE step[<<h[s \ {Max(s)}], Max(s)>>]
      <3>1. CASE k \in s
        <4>1. Max(s) = k
          BY <2>2, <3>1, MaxIsIn
        <4>2. h[s] = step[<<g[s \ {k}], k>>] /\ h[s \ {k}] = g[s \ {k}]
          BY <2>4, <2>5, <2>7, <3>1
        <4> QED
          BY <3>1, <4>1, <4>2
      <3>2. CASE k \notin s
        <4>1. s \in SUBSET (1..m) /\ s \ {Max(s)} \in SUBSET (1..m)
          BY <2>5, <3>2
        <4> QED
          BY <2>3, <2>7, <4>1 DEF FoldsBy
      <3> QED
        BY <3>1, <3>2
    <2>9. FoldsBy(h, base, step, k)
      BY <2>8 DEF FoldsBy
    <2>10. Foldable(T, base, step, k)
      BY <2>6, <2>9, Zenon DEF Foldable
    <2> QED
      BY <1>1, <2>10
  <1>4. 0..n \subseteq S
    BY <1>2, <1>3, InductionUpTo
  <1> QED
    BY <1>1, <1>4

HaveMax(k) == \A t \in SUBSET (1..k) : t # {} => Max(t) \in t

LEMMA MaxIsSome ==
    ASSUME NEW n \in Nat, NEW s \in SUBSET (1..n), s # {}
    PROVE  Max(s) \in s
  <1>1. PICK P : P = {k \in 0..n : HaveMax(k)}
    OBVIOUS
  <1>2. 0 \in P
    <2>1. \A t \in SUBSET (1..0) : t = {}
      OBVIOUS
    <2>2. HaveMax(0)
      BY <2>1, Zenon DEF HaveMax
    <2> QED
      BY <1>1, <2>2
  <1>3. ASSUME NEW k \in 1..n, k - 1 \in P PROVE k \in P
    <2>1. SUFFICES ASSUME NEW t \in SUBSET (1..k), t # {} PROVE Max(t) \in t
      BY <1>1 DEF HaveMax
    <2>2. PICK m \in Nat : m = k - 1 /\ k = m + 1
      OBVIOUS
    <2>3. CASE k \in t
      <3>1. Max(t) = m + 1
        BY <2>2, <2>3, MaxIsIn
      <3> QED
        BY <2>2, <2>3, <3>1
    <2>4. CASE k \notin t
      <3>1. t \in SUBSET (1..m)
        BY <2>2, <2>4
      <3> QED
        BY <1>1, <1>3, <2>1, <2>2, <3>1 DEF HaveMax
    <2> QED
      BY <2>3, <2>4
  <1>4. 0..n \subseteq P
    BY <1>2, <1>3, InductionUpTo
  <1>5. HaveMax(n)
    BY <1>1, <1>4
  <1> QED
    BY <1>5, Zenon DEF HaveMax

\* The sets of positions that a fold of a sequence goes through.
LEMMA FoldPositions ==
    ASSUME NEW n \in Nat
    PROVE  /\ 1..0 = {}
           /\ \A k \in 1..n : /\ 1..k \in SUBSET (1..n) /\ 1..k # {}
                              /\ Max(1..k) = k /\ (1..k) \ {k} = 1..(k - 1)
  <1>1. 1..0 = {}
    OBVIOUS
  <1>2. ASSUME NEW k \in 1..n PROVE Max(1..k) = k
    <2>1. PICK m \in Nat : k = m + 1
      <3>1. k - 1 \in Nat /\ k = (k - 1) + 1
        OBVIOUS
      <3> QED
        BY <3>1
    <2>2. 1..k \in SUBSET (1..(m + 1)) /\ m + 1 \in 1..k
      BY <2>1
    <2>3. Max(1..k) = m + 1
      BY <2>2, MaxIsIn
    <2> QED
      BY <2>1, <2>3
  <1>3. \A k \in 1..n : 1..k \in SUBSET (1..n) /\ 1..k # {} /\ (1..k) \ {k} = 1..(k - 1)
    OBVIOUS
  <1> QED
    BY <1>1, <1>2, <1>3

Follows(it, T, step, n) ==
    \A s \in SUBSET (1..n) :
        s # {} /\ it[s \ {Max(s)}] \in T => it[s] = step[<<it[s \ {Max(s)}], Max(s)>>]

RunsTo(last, T, base, step, n) ==
    \E f \in [0..n -> T] : /\ f[0] = base /\ f[n] = last
                          /\ \A k \in 1..n : f[k] = step[<<f[k - 1], k>>]

\* What recurs on sets of positions goes through the elements one by one.
LEMMA FoldRuns ==
    ASSUME NEW T, NEW base \in T, NEW n \in Nat, NEW step \in [T \X (1..n) -> T],
           NEW it, it[{}] = base, Follows(it, T, step, n)
    PROVE  RunsTo(it[1..n], T, base, step, n)
  <1>1. it[1..0] = base
    BY FoldPositions, Zenon
  <1>2. ASSUME NEW k \in 1..n, it[1..(k - 1)] \in T
        PROVE  it[1..k] = step[<<it[1..(k - 1)], k>>] /\ it[1..k] \in T
    <2>1. 1..k \in SUBSET (1..n) /\ 1..k # {} /\ Max(1..k) = k /\ (1..k) \ {k} = 1..(k - 1)
      BY FoldPositions
    <2>2. it[1..k] = step[<<it[1..(k - 1)], k>>]
      BY <1>2, <2>1, Zenon DEF Follows
    <2> QED
      BY <1>2, <2>2
  <1>3. PICK f : f = [k \in 0..n |-> it[1..k]]
    OBVIOUS
  <1>4. \A k \in 1..n : k \in 0..n /\ k - 1 \in 0..n
    OBVIOUS
  <1>5. \A k \in 0..n : f[k] \in T
    <2>1. PICK S : S = {k \in 0..n : f[k] \in T}
      OBVIOUS
    <2>2. f[0] = base /\ 0 \in S
      BY <1>1, <1>3, <2>1
    <2>3. ASSUME NEW k \in 1..n, k - 1 \in S PROVE k \in S
      <3>1. f[k] = it[1..k] /\ f[k - 1] = it[1..(k - 1)] /\ f[k - 1] \in T
        BY <1>3, <1>4, <2>1, <2>3
      <3> QED
        BY <1>2, <1>4, <2>1, <3>1
    <2>4. 0..n \subseteq S
      BY <2>2, <2>3, InductionUpTo
    <2> QED
      BY <2>1, <2>4
  <1>6. f \in [0..n -> T] /\ f[0] = base /\ f[n] = it[1..n]
    BY <1>1, <1>3, <1>5
  <1>7. ASSUME NEW k \in 1..n PROVE f[k] = step[<<f[k - 1], k>>]
    <2>1. k \in 0..n /\ k - 1 \in 0..n
      OBVIOUS
    <2>2. f[k] = it[1..k] /\ f[k - 1] = it[1..(k - 1)] /\ f[k - 1] \in T
      BY <1>3, <1>5, <2>1
    <2> QED
      BY <1>2, <2>2
  <1> QED
    BY <1>6, <1>7 DEF RunsTo

\* Two runs that take the same steps end alike.
LEMMA RunsAgree ==
    ASSUME NEW n \in Nat, NEW f, NEW h, f[0] = h[0],
           \A k \in 1..n : f[k - 1] = h[k - 1] => f[k] = h[k]
    PROVE  f[n] = h[n]
  <1>1. PICK S : S = {k \in 0..n : f[k] = h[k]}
    OBVIOUS
  <1>2. 0 \in S /\ \A k \in 1..n : k - 1 \in S => k \in S
    BY <1>1
  <1>3. 0..n \subseteq S
    BY <1>2, InductionUpTo
  <1> QED
    BY <1>1, <1>3
===============================================================================
