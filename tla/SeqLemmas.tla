------------------------------ MODULE SeqLemmas ------------------------------
(***************************************************************************)
(* What the sequence operators used for the pools and the waiter lists     *)
(* return: Tail, Append, SubSeq and RemoveFirst on a sequence without      *)
(* repetitions; what a sum over a finite set of indices is; and what a     *)
(* filter keeps, in which order.                                           *)
(***************************************************************************)
EXTENDS SeqFilter, Integers, Sequences, SequencesExt, SequenceTheorems, FiniteSetTheorems, WellFoundedInduction, TLAPS

\* A non-empty set of naturals has a least element, the one Min chooses.
LEMMA MinOfNats ==
    ASSUME NEW I \in SUBSET Nat, I # {}
    PROVE  Min(I) \in I /\ \A y \in I : Min(I) <= y
<1>1. \E x \in I : \A y \in I : ~ (<<y, x>> \in OpToRel(<, Nat))
  BY WFMin, NatLessThanWellFounded
<1>2. OpToRel(<, Nat) = {ss \in Nat \X Nat : ss[1] < ss[2]}
  BY Zenon DEF OpToRel
<1>3. PICK x \in I : \A y \in I : ~ (<<y, x>> \in {ss \in Nat \X Nat : ss[1] < ss[2]})
  BY <1>1, <1>2, Zenon
<1>4. ASSUME NEW y \in I
      PROVE  x <= y
  <2>1. x \in Nat /\ y \in Nat
    OBVIOUS
  <2>2. y < x => <<y, x>> \in {ss \in Nat \X Nat : ss[1] < ss[2]}
    BY <2>1
  <2>3. ~ (y < x)
    BY <1>3, <2>2
  <2> QED
    BY <2>1, <2>3
<1> QED
  BY <1>4 DEF Min

\* ToSet of a sequence is the set of its elements and lies in its type.
LEMMA ToSetType ==
    ASSUME NEW S, NEW s \in Seq(S)
    PROVE  /\ ToSet(s) \subseteq S
           /\ \A e : e \in ToSet(s) <=> \E i \in 1 .. Len(s) : s[i] = e
           /\ s = <<>> <=> ToSet(s) = {}
<1>1. DOMAIN s = 1 .. Len(s) /\ Len(s) \in Nat
  BY LenProperties
<1>2. s = <<>> <=> Len(s) = 0
  BY EmptySeq
<1>3. ToSet(s) \subseteq S
  BY <1>1, ElementOfSeq DEF ToSet
<1>4. \A e : e \in ToSet(s) <=> \E i \in 1 .. Len(s) : s[i] = e
  BY <1>1 DEF ToSet
<1>5. s = <<>> <=> ToSet(s) = {}
  <2>1. CASE Len(s) = 0
    BY <1>1, <1>2, <2>1 DEF ToSet
  <2>2. CASE Len(s) # 0
    <3>1. 1 \in DOMAIN s
      BY <1>1, <2>2
    <3>2. s[1] \in ToSet(s)
      BY <3>1 DEF ToSet
    <3> QED
      BY <1>2, <2>2, <3>2
  <2> QED
    BY <2>1, <2>2
<1> QED
  BY <1>3, <1>4, <1>5

\* Append adds its argument and keeps a sequence free of repetitions when the
\* argument is new.
LEMMA AppendLemma ==
    ASSUME NEW S, NEW s \in Seq(S), NEW e \in S
    PROVE  /\ Append(s, e) \in Seq(S)
           /\ ToSet(Append(s, e)) = ToSet(s) \cup {e}
           /\ Append(s, e) # <<>>
           /\ IsInjective(s) /\ e \notin ToSet(s) => IsInjective(Append(s, e))
<1> DEFINE t == Append(s, e)
<1>1. /\ t \in Seq(S) /\ t # <<>> /\ Len(t) = Len(s) + 1
      /\ \A i \in 1 .. Len(s) : t[i] = s[i]
      /\ t[Len(s) + 1] = e
  BY AppendProperties
<1>2. Len(s) \in Nat /\ DOMAIN s = 1 .. Len(s) /\ DOMAIN t = 1 .. Len(s) + 1
  BY <1>1, LenProperties
<1>3. ToSet(t) = ToSet(s) \cup {e}
  BY <1>1, <1>2 DEF ToSet
<1>4. IsInjective(s) /\ e \notin ToSet(s) => IsInjective(t)
  BY <1>1, <1>2 DEF ToSet, IsInjective
<1> QED
  BY <1>1, <1>3, <1>4

\* A function on 1 .. n is a sequence of length n.
LEMMA FunctionIsSeq ==
    ASSUME NEW S, NEW n \in Nat, NEW f \in [1 .. n -> S]
    PROVE  f \in Seq(S) /\ Len(f) = n
<1>1. f = [i \in 1 .. n |-> f[i]]
  OBVIOUS
<1>2. [i \in 1 .. n |-> f[i]] \in Seq(S)
  OBVIOUS
<1>3. DOMAIN f = 1 .. Len(f) /\ Len(f) \in Nat
  BY <1>1, <1>2, LenProperties
<1>4. 1 .. n = 1 .. Len(f)
  BY <1>3
<1>5. \A a, b \in Nat : 1 .. a = 1 .. b => a = b
  OBVIOUS
<1>6. Len(f) = n
  BY <1>3, <1>4, <1>5
<1> QED BY <1>1, <1>2, <1>6

\* Contains is membership in the set of a sequence's elements.
LEMMA ContainsLemma == ASSUME NEW S, NEW s \in Seq(S), NEW e PROVE Contains(s, e) <=> e \in ToSet(s)
BY ToSetType DEF Contains

\* A suffix holds no element its sequence does not hold.
LEMMA SuffixLemma ==
    ASSUME NEW S, NEW s \in Seq(S), NEW i \in 1 .. Len(s)
    PROVE  /\ SubSeq(s, i + 1, Len(s)) \in Seq(S)
           /\ ToSet(SubSeq(s, i + 1, Len(s))) \subseteq ToSet(s)
           /\ IsInjective(s) => /\ IsInjective(SubSeq(s, i + 1, Len(s)))
                                /\ s[i] \notin ToSet(SubSeq(s, i + 1, Len(s)))
<1> DEFINE n == Len(s)
           t == SubSeq(s, i + 1, n)
<1>1. n \in Nat /\ DOMAIN s = 1 .. n /\ \A j \in 1 .. n : s[j] \in S
  BY LenProperties, ElementOfSeq
<1>2. /\ t \in Seq(S)
      /\ Len(t) = IF i + 1 <= n THEN n - (i + 1) + 1 ELSE 0
      /\ \A j \in 1 .. n - (i + 1) + 1 : t[j] = s[(i + 1) + j - 1]
  <2>1. \A j \in (i + 1) .. n : s[j] \in S
    BY <1>1
  <2>2. i + 1 \in Int /\ n \in Int
    BY <1>1
  <2> HIDE DEF n
  <2> QED
    BY <2>1, <2>2, SubSeqProperties
<1>3. Len(t) = n - i /\ \A j \in 1 .. n - i : t[j] = s[i + j]
  <2> HIDE DEF t
  <2>1. Len(t) = n - i
    <3>1. Len(t) = IF i + 1 <= n THEN n - (i + 1) + 1 ELSE 0
      BY <1>2
    <3>2. i \in Int /\ n \in Int /\ i <= n
      BY <1>1
    <3> HIDE DEF n
    <3> QED
      BY <3>1, <3>2
  <2>2. ASSUME NEW j \in 1 .. n - i
        PROVE  t[j] = s[i + j]
    <3>1. j \in 1 .. n - (i + 1) + 1 /\ (i + 1) + j - 1 = i + j
      BY <1>1
    <3> QED
      BY <1>2, <3>1
  <2> QED
    BY <2>1, <2>2
<1>4. DOMAIN t = 1 .. n - i
  BY <1>2, <1>3, LenProperties
<1>5. \A j \in DOMAIN t : i + j \in DOMAIN s /\ i + j # i /\ t[j] = s[i + j]
  BY <1>1, <1>3, <1>4
<1>6. ToSet(t) \subseteq ToSet(s)
  BY <1>5 DEF ToSet
<1>7. ASSUME IsInjective(s)
      PROVE  IsInjective(t) /\ s[i] \notin ToSet(t)
  BY <1>1, <1>4, <1>5, <1>7 DEF ToSet, IsInjective
<1> QED
  BY <1>2, <1>6, <1>7

\* Tail drops the head only.
LEMMA TailLemma ==
    ASSUME NEW S, NEW s \in Seq(S), s # <<>>
    PROVE  /\ Tail(s) \in Seq(S) /\ Head(s) \in S /\ Head(s) \in ToSet(s)
           /\ ToSet(Tail(s)) \subseteq ToSet(s)
           /\ IsInjective(s) => IsInjective(Tail(s)) /\ Head(s) \notin ToSet(Tail(s))
<1>1. Len(s) \in Nat \ {0} /\ DOMAIN s = 1 .. Len(s)
  BY EmptySeq, LenProperties
<1>2. Head(s) = s[1]
  OBVIOUS
<1>3. Tail(s) = SubSeq(s, 1 + 1, Len(s))
  BY TailIsSubSeq
<1>4. 1 \in 1 .. Len(s)
  BY <1>1
<1>5. Head(s) \in S /\ Head(s) \in ToSet(s)
  BY <1>1, <1>2, <1>4, ElementOfSeq DEF ToSet
<1>6. /\ SubSeq(s, 1 + 1, Len(s)) \in Seq(S)
      /\ ToSet(SubSeq(s, 1 + 1, Len(s))) \subseteq ToSet(s)
      /\ IsInjective(s) => /\ IsInjective(SubSeq(s, 1 + 1, Len(s)))
                           /\ s[1] \notin ToSet(SubSeq(s, 1 + 1, Len(s)))
  BY <1>4, SuffixLemma, Zenon
<1> QED
  BY <1>2, <1>3, <1>5, <1>6, Zenon

\* RemoveFirst takes its argument out of a sequence without repetitions and
\* nothing else.
LEMMA RemoveFirstLemma ==
    ASSUME NEW S, NEW s \in Seq(S), NEW e
    PROVE  /\ RemoveFirst(s, e) \in Seq(S)
           /\ ToSet(RemoveFirst(s, e)) \subseteq ToSet(s)
           /\ Len(RemoveFirst(s, e)) <= Len(s)
           /\ IsInjective(s) => /\ IsInjective(RemoveFirst(s, e))
                                /\ e \notin ToSet(RemoveFirst(s, e))
<1>1. Len(s) \in Nat /\ DOMAIN s = 1 .. Len(s) /\ \A j \in 1 .. Len(s) : s[j] \in S
  BY LenProperties, ElementOfSeq
<1>2. CASE ~ \E i \in 1 .. Len(s) : s[i] = e
  BY <1>1, <1>2 DEF RemoveFirst, ToSet
<1>3. CASE \E i \in 1 .. Len(s) : s[i] = e
  <2> DEFINE I == {i \in 1 .. Len(s) : s[i] = e}
             n == Len(s)
             k == Min(I)
             a == SubSeq(s, 1, k - 1)
             b == SubSeq(s, k + 1, n)
             r == a \o b
  <2>1. k \in 1 .. n /\ s[k] = e
    <3>1. I \in SUBSET Nat /\ I # {}
      BY <1>1, <1>3
    <3>2. k \in I
      BY <3>1, MinOfNats
    <3> QED
      BY <3>2
  <2>2. RemoveFirst(s, e) = r
    <3>1. SelectInSeq(s, LAMBDA v : v = e) = k
      BY <1>3 DEF SelectInSeq
    <3> QED
      BY <1>3, <3>1 DEF RemoveFirst, RemoveAt
  <2> HIDE DEF k
  <2>3. /\ a \in Seq(S) /\ Len(a) = k - 1
        /\ \A j \in 1 .. k - 1 : a[j] = s[j]
    <3>1. \A j \in 1 .. k - 1 : s[j] \in S
      BY <1>1, <2>1
    <3>2. 1 \in Int /\ k - 1 \in Int
      BY <1>1, <2>1
    <3>3. /\ a \in Seq(S) /\ Len(a) = IF 1 <= k - 1 THEN (k - 1) - 1 + 1 ELSE 0
          /\ \A j \in 1 .. (k - 1) - 1 + 1 : a[j] = s[1 + j - 1]
      BY <3>1, <3>2, SubSeqProperties
    <3> QED
      BY <3>3, <2>1, <1>1
  <2>4. /\ b \in Seq(S) /\ Len(b) = n - k
        /\ \A j \in 1 .. n - k : b[j] = s[k + j]
    <3>1. \A j \in (k + 1) .. n : s[j] \in S
      BY <1>1, <2>1
    <3>2. k + 1 \in Int /\ n \in Int
      BY <1>1, <2>1
    <3> HIDE DEF n
    <3>3. /\ b \in Seq(S) /\ Len(b) = IF k + 1 <= n THEN n - (k + 1) + 1 ELSE 0
          /\ \A j \in 1 .. n - (k + 1) + 1 : b[j] = s[(k + 1) + j - 1]
      BY <3>1, <3>2, SubSeqProperties
    <3> HIDE DEF b
    <3>4. Len(b) = n - k
      <4>1. Len(b) = IF k + 1 <= n THEN n - (k + 1) + 1 ELSE 0
        BY <3>3
      <4>2. k \in Int /\ k <= n
        BY <2>1, <1>1 DEF n
      <4> QED
        BY <4>1, <4>2, <3>2
    <3>5. ASSUME NEW j \in 1 .. n - k
          PROVE  b[j] = s[k + j]
      <4>1. j \in 1 .. n - (k + 1) + 1 /\ (k + 1) + j - 1 = k + j
        BY <2>1, <1>1, <3>2
      <4> QED
        BY <4>1, <3>3
    <3> QED
      BY <3>3, <3>4, <3>5
  <2> HIDE DEF a, b
  <2>5. /\ r \in Seq(S) /\ Len(r) = n - 1
        /\ \A j \in 1 .. n - 1 : r[j] = IF j <= k - 1 THEN a[j] ELSE b[j - (k - 1)]
    <3>1. /\ r \in Seq(S) /\ Len(r) = Len(a) + Len(b)
          /\ \A j \in 1 .. Len(a) + Len(b) :
                r[j] = IF j <= Len(a) THEN a[j] ELSE b[j - Len(a)]
      BY <2>3, <2>4, ConcatProperties
    <3>2. Len(a) + Len(b) = n - 1
      BY <1>1, <2>1, <2>3, <2>4
    <3> QED
      BY <3>1, <3>2, <2>3
  <2>6. DOMAIN r = 1 .. n - 1
    BY <2>5, LenProperties
  <2> HIDE DEF r
  <2>7. \A j \in DOMAIN r : /\ r[j] = IF j < k THEN s[j] ELSE s[j + 1]
                            /\ j \in DOMAIN s /\ j + 1 \in DOMAIN s
    <3> SUFFICES ASSUME NEW j \in 1 .. n - 1
                 PROVE  /\ r[j] = IF j < k THEN s[j] ELSE s[j + 1]
                        /\ j \in DOMAIN s /\ j + 1 \in DOMAIN s
      BY <2>6
    <3>1. CASE j < k
      BY <3>1, <1>1, <2>1, <2>3, <2>5
    <3>2. CASE j >= k
      <4>1. j - (k - 1) \in 1 .. n - k /\ k + (j - (k - 1)) = j + 1 /\ ~ (j <= k - 1)
        BY <3>2, <1>1, <2>1
      <4>2. b[j - (k - 1)] = s[k + (j - (k - 1))]
        BY <4>1, <2>4
      <4> QED
        BY <4>1, <4>2, <3>2, <1>1, <2>1, <2>5
    <3> QED
      BY <3>1, <3>2, <1>1, <2>1
  <2>8. ToSet(r) \subseteq ToSet(s)
    BY <2>7 DEF ToSet
  <2>9. ASSUME IsInjective(s)
        PROVE  IsInjective(r) /\ e \notin ToSet(r)
    <3> DEFINE at(j) == IF j < k THEN j ELSE j + 1
    <3>1. \A j \in DOMAIN r : at(j) \in DOMAIN s /\ r[j] = s[at(j)] /\ at(j) # k
      BY <1>1, <2>1, <2>6, <2>7
    <3>2. \A i, j \in DOMAIN r : at(i) = at(j) => i = j
      BY <1>1, <2>1, <2>6
    <3>3. IsInjective(r)
      BY <3>1, <3>2, <2>9 DEF IsInjective
    <3>4. e \notin ToSet(r)
      BY <3>1, <2>1, <1>1, <2>9 DEF IsInjective, ToSet
    <3> QED
      BY <3>3, <3>4
  <2>10. Len(r) <= Len(s)
    BY <2>5, <1>1
  <2> QED
    BY <2>2, <2>5, <2>8, <2>9, <2>10
<1> QED
  BY <1>2, <1>3

-----------------------------------------------------------------------------
(***************************************************************************)
(* Sums.  SumFunctionOnSet takes an arbitrary element out of the set at    *)
(* every step; the sum does not depend on which.  Each fact is shown for   *)
(* the smallest set that could contradict it.                              *)
(***************************************************************************)

\* t is the table of sums that SumFunctionOnSet(f, S) computes: one entry for
\* every subset of S.
SumTable(t, f, S) ==
    t = [s \in SUBSET S |-> IF s = {} THEN 0
                            ELSE LET x == CHOOSE x \in s : TRUE IN f[x] + t[s \ {x}]]

LEMMA SumIsTable ==
    ASSUME NEW f, NEW S
    PROVE  SumFunctionOnSet(f, S) = (CHOOSE t : SumTable(t, f, S))[S]
BY DEF SumFunctionOnSet, FoldFunctionOnSet, MapThenFoldSet, SumTable

\* The table exists for a finite set.
LEMMA SumTableExists ==
    ASSUME NEW f, NEW S, IsFiniteSet(S)
    PROVE  \E t : SumTable(t, f, S)
<1> DEFINE Up(n) == {s \in SUBSET S : Cardinality(s) <= n}
           OK(t, n) == t = [s \in Up(n) |-> IF s = {} THEN 0
                            ELSE LET x == CHOOSE x \in s : TRUE IN f[x] + t[s \ {x}]]
           Bad == {n \in Nat : ~ \E t : OK(t, n)}
<1>1. ASSUME NEW s \in SUBSET S
      PROVE  IsFiniteSet(s) /\ Cardinality(s) \in Nat /\ Cardinality(s) <= Cardinality(S)
  BY FS_Subset, FS_CardinalityType
<1>2. ASSUME NEW s \in SUBSET S, s # {}
      PROVE  LET x == CHOOSE x \in s : TRUE
             IN x \in s /\ Cardinality(s \ {x}) = Cardinality(s) - 1
  <2>1. \E x \in s : TRUE
    BY <1>2
  <2>2. (CHOOSE x \in s : TRUE) \in s
    BY <2>1
  <2> QED
    BY <2>2, <1>1, FS_RemoveElement
<1>3. Bad = {}
  <2> SUFFICES ASSUME Bad # {} PROVE FALSE
    OBVIOUS
  <2> DEFINE m == Min(Bad)
  <2>1. m \in Bad /\ \A y \in Bad : m <= y
    BY MinOfNats
  <2> HIDE DEF m
  <2>2. CASE m = 0
    <3> DEFINE t == [s \in Up(0) |-> 0]
    <3>1. \A s \in Up(0) : s = {}
      <4> TAKE s \in Up(0)
      <4>1. Cardinality(s) = 0
        BY <1>1
      <4> QED
        BY <4>1, <1>1, FS_EmptySet
    <3>2. OK(t, 0)
      BY <3>1
    <3> QED
      BY <3>2, <2>1, <2>2
  <2>3. CASE m # 0
    <3>1. m - 1 \in Nat /\ m - 1 \notin Bad
      <4>1. m \in Nat
        BY <2>1
      <4> HIDE DEF Bad
      <4> QED
        BY <2>1, <2>3, <4>1
    <3>2. PICK t : OK(t, m - 1)
      BY <3>1
    <3> DEFINE u == [s \in Up(m) |-> IF s = {} THEN 0
                            ELSE LET x == CHOOSE x \in s : TRUE IN f[x] + t[s \ {x}]]
    <3>3. ASSUME NEW s \in Up(m - 1)
          PROVE  s \in Up(m) /\ u[s] = t[s]
      <4>1. s \in Up(m)
        BY <1>1, <2>1
      <4>2. u[s] = IF s = {} THEN 0 ELSE LET x == CHOOSE x \in s : TRUE IN f[x] + t[s \ {x}]
        BY <4>1
      <4>3. t[s] = IF s = {} THEN 0 ELSE LET x == CHOOSE x \in s : TRUE IN f[x] + t[s \ {x}]
        BY <3>2
      <4> QED
        BY <4>1, <4>2, <4>3
    <3>4. ASSUME NEW s \in Up(m), s # {}
          PROVE  LET x == CHOOSE x \in s : TRUE IN s \ {x} \in Up(m - 1)
      BY <1>1, <1>2, <3>1, <2>1, <3>4
    <3>5. OK(u, m)
      <4> DEFINE v == [s \in Up(m) |-> IF s = {} THEN 0
                            ELSE LET x == CHOOSE x \in s : TRUE IN f[x] + u[s \ {x}]]
      <4>1. ASSUME NEW s \in Up(m)
            PROVE  u[s] = v[s]
        <5> DEFINE x == CHOOSE x \in s : TRUE
        <5>1. CASE s = {}
          BY <5>1
        <5>2. CASE s # {}
          <6>1. u[s] = f[x] + t[s \ {x}]
            BY <5>2
          <6>2. v[s] = f[x] + u[s \ {x}]
            BY <5>2
          <6>3. s \ {x} \in Up(m - 1)
            BY <3>4, <5>2
          <6>4. u[s \ {x}] = t[s \ {x}]
            <7> HIDE DEF x, u
            <7> QED
              BY <3>3, <6>3
          <6> QED
            BY <6>1, <6>2, <6>4
        <5> QED
          BY <5>1, <5>2
      <4>2. u = v
        BY <4>1, Zenon
      <4> QED
        BY <4>2
    <3> QED
      BY <3>5, <2>1
  <2> QED
    BY <2>2, <2>3
<1>4. Cardinality(S) \in Nat
  BY FS_CardinalityType
<1>5. PICK t : OK(t, Cardinality(S))
  BY <1>3, <1>4
<1>6. Up(Cardinality(S)) = SUBSET S
  BY <1>1
<1> QED
  BY <1>5, <1>6 DEF SumTable

\* What an entry of the table is.
LEMMA SumTableEntry ==
    ASSUME NEW f, NEW S, NEW t, SumTable(t, f, S), NEW s \in SUBSET S, IsFiniteSet(s)
    PROVE  \/ s = {} /\ t[s] = 0
           \/ \E x \in s : /\ x = (CHOOSE y \in s : TRUE)
                           /\ t[s] = f[x] + t[s \ {x}]
                           /\ s \ {x} \in SUBSET S /\ IsFiniteSet(s \ {x})
                           /\ Cardinality(s) \in Nat /\ Cardinality(s \ {x}) \in Nat
                           /\ Cardinality(s \ {x}) = Cardinality(s) - 1
<1>1. CASE s = {}
  <2>1. t[s] = IF s = {} THEN 0 ELSE LET x == CHOOSE x \in s : TRUE IN f[x] + t[s \ {x}]
    BY DEF SumTable
  <2> QED
    BY <1>1, <2>1
<1>2. CASE s # {}
  <2> DEFINE x == CHOOSE y \in s : TRUE
  <2>1. \E y \in s : TRUE
    BY <1>2
  <2>2. x \in s
    BY <2>1
  <2>3. t[s] = IF s = {} THEN 0 ELSE LET y == CHOOSE y \in s : TRUE IN f[y] + t[s \ {y}]
    BY DEF SumTable
  <2>4. t[s] = f[x] + t[s \ {x}]
    BY <1>2, <2>3
  <2>5. /\ IsFiniteSet(s \ {x}) /\ Cardinality(s \ {x}) = Cardinality(s) - 1
        /\ Cardinality(s) \in Nat /\ Cardinality(s \ {x}) \in Nat
    BY <2>2, FS_RemoveElement, FS_CardinalityType
  <2> HIDE DEF x
  <2>6. x = (CHOOSE y \in s : TRUE)
    BY DEF x
  <2>7. s \ {x} \in SUBSET S
    OBVIOUS
  <2> QED
    BY <2>2, <2>4, <2>5, <2>6, <2>7
<1> QED
  BY <1>1, <1>2

\* Two tables agree on a set on which their functions do.
LEMMA SumTablesAgree ==
    ASSUME NEW f, NEW S, NEW t, SumTable(t, f, S),
           NEW g, NEW T, NEW u, SumTable(u, g, T),
           NEW R, IsFiniteSet(R), R \subseteq S, R \subseteq T, \A x \in R : f[x] = g[x]
    PROVE  t[R] = u[R]
<1> DEFINE Odd(s) == s \in SUBSET R /\ t[s] # u[s]
           Bad == {n \in Nat : \E s : Odd(s) /\ Cardinality(s) = n}
<1>1. ASSUME NEW s \in SUBSET R
      PROVE  IsFiniteSet(s) /\ Cardinality(s) \in Nat /\ s \in SUBSET S /\ s \in SUBSET T
  BY FS_Subset, FS_CardinalityType
<1>2. Bad = {}
  <2> SUFFICES ASSUME Bad # {} PROVE FALSE
    OBVIOUS
  <2> DEFINE m == Min(Bad)
  <2>1. m \in Bad /\ \A y \in Bad : m <= y
    BY MinOfNats
  <2> HIDE DEF m
  <2>2. m \in Nat
    BY <2>1
  <2>3. PICK s : Odd(s) /\ Cardinality(s) = m
    BY <2>1
  <2>4. IsFiniteSet(s) /\ s \in SUBSET S /\ s \in SUBSET T /\ s \in SUBSET R
    BY <1>1, <2>3
  <2>5. s # {}
    BY <2>3, <2>4, SumTableEntry
  <2>6. PICK x \in s : /\ x = (CHOOSE y \in s : TRUE)
                       /\ t[s] = f[x] + t[s \ {x}]
                       /\ Cardinality(s \ {x}) = Cardinality(s) - 1
                       /\ Cardinality(s \ {x}) \in Nat
    BY <2>4, <2>5, SumTableEntry
  <2>7. u[s] = g[x] + u[s \ {x}]
    <3>1. PICK y \in s : /\ y = (CHOOSE z \in s : TRUE)
                         /\ u[s] = g[y] + u[s \ {y}]
      BY <2>4, <2>5, SumTableEntry
    <3> QED
      BY <2>6, <3>1
  <2>8. Odd(s \ {x})
    BY <2>3, <2>4, <2>6, <2>7
  <2>9. m - 1 \in Bad
    BY <2>2, <2>3, <2>6, <2>8
  <2> HIDE DEF Bad
  <2> QED
    BY <2>1, <2>2, <2>9
<1>3. ~ Odd(R)
  BY <1>1, <1>2
<1> QED
  BY <1>3

\* Any element may be taken out of the sum first.
LEMMA SumTableRemove ==
    ASSUME NEW f, NEW S, NEW t, SumTable(t, f, S),
           IsFiniteSet(S), \A x \in S : f[x] \in Int
    PROVE  \A s \in SUBSET S : t[s] \in Int /\ \A x \in s : t[s] = f[x] + t[s \ {x}]
<1> DEFINE Odd(s) == s \in SUBSET S /\ ~ (t[s] \in Int /\ \A x \in s : t[s] = f[x] + t[s \ {x}])
           Bad == {n \in Nat : \E s : Odd(s) /\ Cardinality(s) = n}
<1>1. ASSUME NEW s \in SUBSET S
      PROVE  IsFiniteSet(s) /\ Cardinality(s) \in Nat
  BY FS_Subset, FS_CardinalityType
<1>2. Bad = {}
  <2> SUFFICES ASSUME Bad # {} PROVE FALSE
    OBVIOUS
  <2> DEFINE m == Min(Bad)
  <2>1. m \in Bad /\ \A y \in Bad : m <= y
    BY MinOfNats
  <2> HIDE DEF m
  <2>2. m \in Nat
    BY <2>1
  <2>3. PICK s : Odd(s) /\ Cardinality(s) = m
    BY <2>1
  <2>4. IsFiniteSet(s) /\ s \in SUBSET S
    BY <1>1, <2>3
  <2>5. s # {}
    <3>1. s = {} => t[s] = 0
      BY <2>4, SumTableEntry
    <3> QED
      BY <2>3, <3>1
  <2>6. ASSUME NEW r \in SUBSET S, Cardinality(r) < m
        PROVE  t[r] \in Int /\ \A x \in r : t[r] = f[x] + t[r \ {x}]
    <3>1. Cardinality(r) \in Nat
      BY <1>1
    <3>2. Cardinality(r) \notin Bad
      <4> HIDE DEF Bad
      <4> QED
        BY <2>1, <2>2, <2>6, <3>1
    <3>3. ~ Odd(r)
      BY <3>1, <3>2
    <3> QED
      BY <3>3
  <2>7. PICK c \in s : /\ t[s] = f[c] + t[s \ {c}]
                       /\ s \ {c} \in SUBSET S
                       /\ Cardinality(s \ {c}) = Cardinality(s) - 1
    BY <2>4, <2>5, SumTableEntry
  <2>8. c \in S /\ f[c] \in Int
    BY <2>4
  <2>9. t[s \ {c}] \in Int /\ \A x \in s \ {c} : t[s \ {c}] = f[x] + t[(s \ {c}) \ {x}]
    <3>1. Cardinality(s \ {c}) < m
      BY <2>2, <2>3, <2>7
    <3> QED
      BY <2>6, <2>7, <3>1
  <2>10. t[s] \in Int
    BY <2>7, <2>8, <2>9
  <2>11. ASSUME NEW x \in s
         PROVE  t[s] = f[x] + t[s \ {x}]
    <3>1. CASE x = c
      BY <2>7, <3>1
    <3>2. CASE x # c
      <4>1. s \ {x} \in SUBSET S /\ Cardinality(s \ {x}) < m
        <5>1. Cardinality(s \ {x}) = Cardinality(s) - 1
          BY <2>4, FS_RemoveElement
        <5>2. s \ {x} \in SUBSET S
          BY <2>4
        <5> QED
          BY <2>2, <2>3, <5>1, <5>2
      <4>2. t[s \ {x}] \in Int /\ t[s \ {x}] = f[c] + t[(s \ {x}) \ {c}]
        BY <2>6, <3>2, <4>1
      <4>3. t[s \ {c}] = f[x] + t[(s \ {c}) \ {x}]
        BY <2>9, <3>2
      <4>4. (s \ {x}) \ {c} = (s \ {c}) \ {x}
        OBVIOUS
      <4>5. f[x] \in Int /\ t[(s \ {c}) \ {x}] \in Int
        <5>1. (s \ {c}) \ {x} \in SUBSET S
          BY <2>4
        <5>2. Cardinality((s \ {c}) \ {x}) < m
          <6>1. IsFiniteSet(s \ {c}) /\ x \in s \ {c}
            BY <2>4, <3>2, FS_RemoveElement
          <6>2. Cardinality((s \ {c}) \ {x}) = Cardinality(s \ {c}) - 1
            BY <6>1, FS_RemoveElement
          <6> QED
            BY <2>2, <2>3, <2>7, <6>2
        <5> QED
          BY <2>4, <2>6, <5>1, <5>2
      <4> DEFINE a == t[s]
                 b == t[s \ {c}]
                 d == t[s \ {x}]
                 e == t[(s \ {c}) \ {x}]
                 fc == f[c]
                 fx == f[x]
      <4>6. /\ a = fc + b /\ b = fx + e /\ d = fc + e
            /\ fc \in Int /\ fx \in Int /\ e \in Int
        BY <2>7, <2>8, <4>2, <4>3, <4>4, <4>5
      <4> HIDE DEF a, b, d, e, fc, fx
      <4>7. a = fx + d
        BY <4>6
      <4> QED
        BY <4>7 DEF a, d, fx
    <3> QED
      BY <3>1, <3>2
  <2> QED
    BY <2>3, <2>10, <2>11
<1>3. \A s \in SUBSET S : ~ Odd(s)
  BY <1>1, <1>2
<1> QED
  BY <1>3

\* The table that a sum over a finite set is read from.
LEMMA SumFromTable ==
    ASSUME NEW f, NEW S, IsFiniteSet(S)
    PROVE  \E t : SumTable(t, f, S) /\ SumFunctionOnSet(f, S) = t[S]
<1> DEFINE t == CHOOSE u : SumTable(u, f, S)
<1>1. \E u : SumTable(u, f, S)
  BY SumTableExists
<1>2. SumTable(t, f, S)
  BY <1>1
<1>3. SumFunctionOnSet(f, S) = t[S]
  BY SumIsTable
<1> QED
  BY <1>2, <1>3

\* A sum depends on the values at the indices only.
LEMMA SumCongruence ==
    ASSUME NEW f, NEW g, NEW S, IsFiniteSet(S), \A x \in S : f[x] = g[x]
    PROVE  SumFunctionOnSet(f, S) = SumFunctionOnSet(g, S)
<1>1. PICK t : SumTable(t, f, S) /\ SumFunctionOnSet(f, S) = t[S]
  BY SumFromTable
<1>2. PICK u : SumTable(u, g, S) /\ SumFunctionOnSet(g, S) = u[S]
  BY SumFromTable
<1> QED
  BY <1>1, <1>2, SumTablesAgree

\* The sum over no index.
LEMMA SumEmpty ==
    ASSUME NEW f
    PROVE  SumFunctionOnSet(f, {}) = 0
<1>1. IsFiniteSet({})
  BY FS_EmptySet
<1>2. PICK t : SumTable(t, f, {}) /\ SumFunctionOnSet(f, {}) = t[{}]
  BY <1>1, SumFromTable
<1>3. t[{}] = 0
  BY <1>1, <1>2, SumTableEntry
<1> QED
  BY <1>2, <1>3

\* A sum of integers is one, and any of them may be taken out of it.
LEMMA SumRemove ==
    ASSUME NEW f, NEW S, IsFiniteSet(S), \A x \in S : f[x] \in Int
    PROVE  /\ SumFunctionOnSet(f, S) \in Int
           /\ \A x \in S : SumFunctionOnSet(f, S) = f[x] + SumFunctionOnSet(f, S \ {x})
<1>1. PICK t : SumTable(t, f, S) /\ SumFunctionOnSet(f, S) = t[S]
  BY SumFromTable
<1>2. t[S] \in Int /\ \A x \in S : t[S] = f[x] + t[S \ {x}]
  BY <1>1, SumTableRemove
<1>3. ASSUME NEW x \in S
      PROVE  SumFunctionOnSet(f, S \ {x}) = t[S \ {x}]
  <2>1. IsFiniteSet(S \ {x})
    BY FS_RemoveElement
  <2>2. PICK u : SumTable(u, f, S \ {x}) /\ SumFunctionOnSet(f, S \ {x}) = u[S \ {x}]
    BY <2>1, SumFromTable
  <2>3. u[S \ {x}] = t[S \ {x}]
    BY <1>1, <2>1, <2>2, SumTablesAgree
  <2> QED
    BY <2>2, <2>3
<1> QED
  BY <1>1, <1>2, <1>3

\* A sum changes by as much as its one value that changes.
LEMMA SumUpdate ==
    ASSUME NEW f, NEW g, NEW S, IsFiniteSet(S), NEW k \in S,
           \A x \in S : f[x] \in Int /\ g[x] \in Int,
           \A x \in S \ {k} : g[x] = f[x]
    PROVE  SumFunctionOnSet(g, S) = SumFunctionOnSet(f, S) - f[k] + g[k]
<1>1. SumFunctionOnSet(f, S) = f[k] + SumFunctionOnSet(f, S \ {k})
  BY SumRemove
<1>2. SumFunctionOnSet(g, S) = g[k] + SumFunctionOnSet(g, S \ {k})
  BY SumRemove
<1>3. IsFiniteSet(S \ {k})
  BY FS_RemoveElement
<1>4. SumFunctionOnSet(g, S \ {k}) = SumFunctionOnSet(f, S \ {k})
  BY <1>3, SumCongruence
<1>5. SumFunctionOnSet(f, S \ {k}) \in Int
  BY <1>3, SumRemove
<1> QED
  BY <1>1, <1>2, <1>4, <1>5

\* A sum of naturals is one.
LEMMA SumNat ==
    ASSUME NEW f, NEW S, IsFiniteSet(S), \A x \in S : f[x] \in Nat
    PROVE  SumFunctionOnSet(f, S) \in Nat
<1> DEFINE Odd(s) == s \in SUBSET S /\ SumFunctionOnSet(f, s) \notin Nat
           Bad == {n \in Nat : \E s : Odd(s) /\ Cardinality(s) = n}
<1>1. ASSUME NEW s \in SUBSET S
      PROVE  IsFiniteSet(s) /\ Cardinality(s) \in Nat
  BY FS_Subset, FS_CardinalityType
<1>2. Bad = {}
  <2> SUFFICES ASSUME Bad # {} PROVE FALSE
    OBVIOUS
  <2> DEFINE m == Min(Bad)
  <2>1. m \in Bad /\ \A y \in Bad : m <= y
    BY MinOfNats
  <2> HIDE DEF m
  <2>2. m \in Nat
    BY <2>1
  <2>3. PICK s : Odd(s) /\ Cardinality(s) = m
    BY <2>1
  <2>4. IsFiniteSet(s) /\ s \in SUBSET S
    BY <1>1, <2>3
  <2>5. PICK x : x \in s
    BY <2>3, SumEmpty
  <2>6. SumFunctionOnSet(f, s) = f[x] + SumFunctionOnSet(f, s \ {x}) /\ f[x] \in Nat
    BY <2>4, <2>5, SumRemove
  <2>7. Cardinality(s \ {x}) = Cardinality(s) - 1 /\ Cardinality(s \ {x}) \in Nat
    BY <2>4, <2>5, FS_RemoveElement, FS_CardinalityType
  <2>8. Odd(s \ {x})
    BY <2>3, <2>4, <2>6
  <2>9. m - 1 \in Bad
    BY <2>2, <2>3, <2>7, <2>8
  <2> HIDE DEF Bad
  <2> QED
    BY <2>1, <2>2, <2>9
<1>3. ~ Odd(S)
  BY <1>1, <1>2
<1> QED
  BY <1>3

\* A sum of nothing but zeros.
LEMMA SumZero ==
    ASSUME NEW f, NEW S, IsFiniteSet(S), \A x \in S : f[x] = 0
    PROVE  SumFunctionOnSet(f, S) = 0
<1> DEFINE Odd(s) == s \in SUBSET S /\ SumFunctionOnSet(f, s) # 0
           Bad == {n \in Nat : \E s : Odd(s) /\ Cardinality(s) = n}
<1>3. ASSUME NEW s \in SUBSET S
      PROVE  IsFiniteSet(s) /\ Cardinality(s) \in Nat
  BY FS_Subset, FS_CardinalityType
<1>4. Bad = {}
  <2> SUFFICES ASSUME Bad # {} PROVE FALSE
    OBVIOUS
  <2> DEFINE m == Min(Bad)
  <2>1. m \in Bad /\ \A y \in Bad : m <= y
    BY MinOfNats
  <2> HIDE DEF m
  <2>2. m \in Nat
    BY <2>1
  <2>3. PICK s : Odd(s) /\ Cardinality(s) = m
    BY <2>1
  <2>4. IsFiniteSet(s) /\ s \in SUBSET S
    BY <1>3, <2>3
  <2>5. PICK x : x \in s
    BY <2>3, SumEmpty
  <2>6. SumFunctionOnSet(f, s) = 0 + SumFunctionOnSet(f, s \ {x}) /\ SumFunctionOnSet(f, s \ {x}) \in Int
    <3>1. \A y \in s : f[y] \in Int /\ f[y] = 0
      BY <2>4
    <3>2. SumFunctionOnSet(f, s) = f[x] + SumFunctionOnSet(f, s \ {x})
      BY <2>4, <2>5, <3>1, SumRemove
    <3>3. SumFunctionOnSet(f, s \ {x}) \in Int
      BY <2>4, <3>1, FS_RemoveElement, SumRemove
    <3> QED
      BY <2>5, <3>1, <3>2, <3>3
  <2>7. Cardinality(s \ {x}) = Cardinality(s) - 1 /\ Cardinality(s \ {x}) \in Nat
    BY <2>4, <2>5, FS_RemoveElement, FS_CardinalityType
  <2>8. Odd(s \ {x})
    BY <2>3, <2>4, <2>6
  <2>9. m - 1 \in Bad
    BY <2>2, <2>3, <2>7, <2>8
  <2> HIDE DEF Bad
  <2> QED
    BY <2>1, <2>2, <2>9
<1>5. ~ Odd(S)
  BY <1>3, <1>4
<1> QED
  BY <1>5

\* The last value may be taken out of a sum over the first n.
LEMMA SumLast ==
    ASSUME NEW f, NEW n \in Nat \ {0}, \A i \in 1 .. n : f[i] \in Int
    PROVE  SumFunctionOnSet(f, 1 .. n) = f[n] + SumFunctionOnSet(f, 1 .. n - 1)
<1>1. IsFiniteSet(1 .. n)
  BY FS_Interval
<1>2. \A x \in 1 .. n : SumFunctionOnSet(f, 1 .. n) = f[x] + SumFunctionOnSet(f, (1 .. n) \ {x})
  BY <1>1, SumRemove, Zenon
<1>3. n \in 1 .. n
  OBVIOUS
<1>4. (1 .. n) \ {n} = 1 .. n - 1
  OBVIOUS
<1>5. SumFunctionOnSet(f, 1 .. n) = f[n] + SumFunctionOnSet(f, (1 .. n) \ {n})
  BY <1>2, <1>3, Zenon
<1> QED
  BY <1>4, <1>5, Zenon

\* The sum up to w = k + n is the sum up to k and that of the next n values.
LEMMA SumSplit ==
    ASSUME NEW f, NEW g, NEW w \in Nat, NEW k \in Nat, NEW n \in Nat, w = k + n,
           \A i \in 1 .. w : f[i] \in Int,
           \A i \in 1 .. n : g[i] = f[k + i]
    PROVE  SumFunctionOnSet(f, 1 .. w) = SumFunctionOnSet(f, 1 .. k) + SumFunctionOnSet(g, 1 .. n)
<1> DEFINE Odd(m) == SumFunctionOnSet(f, 1 .. k + m) # SumFunctionOnSet(f, 1 .. k) + SumFunctionOnSet(g, 1 .. m)
           Bad == {m \in Nat : m <= n /\ Odd(m)}
<1>0. ASSUME NEW m \in Nat, m <= n
      PROVE  /\ IsFiniteSet(1 .. k + m) /\ IsFiniteSet(1 .. m) /\ IsFiniteSet(1 .. k)
             /\ SumFunctionOnSet(f, 1 .. k + m) \in Int /\ SumFunctionOnSet(g, 1 .. m) \in Int
             /\ SumFunctionOnSet(f, 1 .. k) \in Int
             /\ \A i \in 1 .. k + m : f[i] \in Int
             /\ \A i \in 1 .. m : g[i] \in Int
  <2>1. IsFiniteSet(1 .. k + m) /\ IsFiniteSet(1 .. m) /\ IsFiniteSet(1 .. k)
    BY FS_Interval
  <2>2. \A i \in 1 .. k + m : f[i] \in Int
    BY <1>0
  <2>3. \A i \in 1 .. k : f[i] \in Int
    BY <1>0
  <2>4. \A i \in 1 .. m : g[i] \in Int
    <3> TAKE i \in 1 .. m
    <3>1. i \in 1 .. n /\ k + i \in 1 .. k + n
      BY <1>0
    <3> QED
      BY <3>1
  <2> QED
    BY <2>1, <2>2, <2>3, <2>4, SumRemove
<1>1. Bad = {}
  <2> SUFFICES ASSUME Bad # {} PROVE FALSE
    OBVIOUS
  <2> DEFINE m == Min(Bad)
  <2>1. m \in Bad /\ \A y \in Bad : m <= y
    BY MinOfNats
  <2> HIDE DEF m
  <2>2. m \in Nat /\ m <= n /\ Odd(m)
    BY <2>1
  <2>3. m # 0
    <3>1. 1 .. 0 = {} /\ 0 <= n /\ k + 0 = k
      OBVIOUS
    <3>2. SumFunctionOnSet(g, 1 .. 0) = 0
      BY <3>1, SumEmpty
    <3>3. SumFunctionOnSet(f, 1 .. k) \in Int
      BY <1>0, <3>1
    <3>4. ~ Odd(0)
      BY <3>1, <3>2, <3>3
    <3> QED
      BY <2>2, <3>4
  <2> DEFINE p == m - 1
  <2>4. p \in Nat /\ p <= n /\ p < m
    BY <2>2, <2>3
  <2>5. p \notin Bad
    <3> HIDE DEF Bad
    <3> QED
      BY <2>1, <2>2, <2>4
  <2>6. SumFunctionOnSet(f, 1 .. k + p) = SumFunctionOnSet(f, 1 .. k) + SumFunctionOnSet(g, 1 .. p)
    BY <2>4, <2>5
  <2>9. g[m] = f[k + m] /\ f[k + m] \in Int
    <3>1. m \in 1 .. n /\ k + m \in 1 .. k + n
      BY <2>2, <2>3
    <3> QED
      BY <3>1
  <2>10. SumFunctionOnSet(f, 1 .. k + m) = f[k + m] + SumFunctionOnSet(f, 1 .. k + p)
    <3> DEFINE q == k + m
    <3>1. q \in Nat \ {0} /\ q - 1 = k + p
      BY <2>2, <2>3
    <3>2. \A i \in 1 .. q : f[i] \in Int
      BY <1>0, <2>2
    <3> HIDE DEF q, p
    <3>3. SumFunctionOnSet(f, 1 .. q) = f[q] + SumFunctionOnSet(f, 1 .. q - 1)
      BY <3>1, <3>2, SumLast, Zenon
    <3> QED
      BY <3>1, <3>3, Zenon DEF q
  <2>11. SumFunctionOnSet(g, 1 .. m) = g[m] + SumFunctionOnSet(g, 1 .. p)
    <3>1. m \in Nat \ {0}
      BY <2>2, <2>3
    <3>2. \A i \in 1 .. m : g[i] \in Int
      BY <1>0, <2>2
    <3> QED
      BY <3>1, <3>2, SumLast, Zenon
  <2>12. SumFunctionOnSet(f, 1 .. k) \in Int /\ SumFunctionOnSet(g, 1 .. p) \in Int
    <3> HIDE DEF p
    <3> QED
      BY <1>0, <2>4
  <2>13. SumFunctionOnSet(f, 1 .. k + m) = SumFunctionOnSet(f, 1 .. k) + SumFunctionOnSet(g, 1 .. m)
    <3> HIDE DEF p
    <3> QED
      BY <2>6, <2>9, <2>10, <2>11, <2>12
  <2> QED
    BY <2>2, <2>13
<1>2. ~Odd(n)
  BY <1>1
<1> QED
  BY <1>2

-----------------------------------------------------------------------------
(* The elements of a sequence that are in a set.                           *)

FilterEntry(f, s, S, n) ==
    IF n = 0 THEN <<>> ELSE IF s[n] \in S THEN Append(f[n - 1], s[n]) ELSE f[n - 1]
FilterTable(f, s, S) == \A n \in 0 .. Len(s) : f[n] = FilterEntry(f, s, S, n)

LEMMA FilterTableExists ==
    ASSUME NEW s, NEW S, Len(s) \in Nat
    PROVE  \E f : f = [n \in 0 .. Len(s) |-> FilterEntry(f, s, S, n)]
<1> DEFINE OK(f, k) == f = [n \in 0 .. k |-> FilterEntry(f, s, S, n)]
           Bad == {k \in Nat : ~ \E f : OK(f, k)}
<1>1. Bad = {}
  <2> SUFFICES ASSUME Bad # {} PROVE FALSE OBVIOUS
  <2>1. PICK m : m = Min(Bad) OBVIOUS
  <2>2. m \in Bad /\ \A y \in Bad : m <= y BY <2>1, MinOfNats
  <2>3. m \in Nat BY <2>2
  <2>4. CASE m = 0
    <3>1. OK([n \in 0 .. 0 |-> <<>>], 0) BY DEF FilterEntry
    <3> QED BY <2>2, <2>4, <3>1
  <2>5. CASE m # 0
    <3>1. m - 1 \in Nat /\ m - 1 \notin Bad
      <4> HIDE DEF Bad
      <4> QED BY <2>2, <2>3, <2>5
    <3>2. PICK f : OK(f, m - 1) BY <3>1
    <3> DEFINE g == [n \in 0 .. m |-> IF n = m THEN FilterEntry(f, s, S, m) ELSE f[n]]
               h == [n \in 0 .. m |-> FilterEntry(g, s, S, n)]
    <3>3. ASSUME NEW n \in 0 .. m PROVE g[n] = h[n]
      <4>1. h[n] = FilterEntry(g, s, S, n) OBVIOUS
      <4>2. n # 0 => g[n - 1] = f[n - 1]
        <5>1. n # 0 => n - 1 \in 0 .. m /\ n - 1 # m BY <2>3
        <5> QED BY <5>1
      <4>3. FilterEntry(g, s, S, n) = FilterEntry(f, s, S, n) BY <4>2 DEF FilterEntry
      <4>4. CASE n = m
        <5>1. g[n] = FilterEntry(f, s, S, n) BY <4>4
        <5> QED BY <4>1, <4>3, <5>1
      <4>5. CASE n # m
        <5>1. n \in 0 .. (m - 1) BY <2>3, <4>5
        <5>2. g[n] = f[n] BY <4>5
        <5>3. f[n] = FilterEntry(f, s, S, n)
          <6> DEFINE r == [i \in 0 .. (m - 1) |-> FilterEntry(f, s, S, i)]
          <6>1. r[n] = FilterEntry(f, s, S, n) BY <5>1
          <6>2. f = r BY <3>2
          <6> QED BY <6>1, <6>2
        <5> QED BY <4>1, <4>3, <5>2, <5>3
      <4> QED BY <4>4, <4>5
    <3>4. g = h BY <3>3, Zenon
    <3>5. OK(g, m) BY <3>4
    <3> QED BY <2>2, <3>5
  <2> QED BY <2>4, <2>5
<1> QED BY <1>1

LEMMA OnlyIsTable ==
    ASSUME NEW s, NEW S, Len(s) \in Nat
    PROVE  \E f : FilterTable(f, s, S) /\ Only(s, S) = f[Len(s)]
<1> DEFINE Fits(f) == f = [n \in 0 .. Len(s) |-> IF n = 0 THEN <<>>
                                ELSE IF s[n] \in S THEN Append(f[n - 1], s[n]) ELSE f[n - 1]]
           F == CHOOSE f : Fits(f)
<1>1. \E f : Fits(f) BY FilterTableExists DEF FilterEntry
<1>2. Fits(F) BY <1>1
<1>3. Only(s, S) = F[Len(s)] BY DEF Only
<1> HIDE DEF F
<1>4. FilterTable(F, s, S) BY <1>2 DEF FilterTable, FilterEntry
<1> QED BY <1>3, <1>4

\* Two tables agree as far as the sequences and the choices do.
LEMMA FilterTablesAgree ==
    ASSUME NEW s, NEW S, NEW f, FilterTable(f, s, S), NEW t, NEW T, NEW g, FilterTable(g, t, T),
           Len(s) \in Nat, Len(t) \in Nat, NEW k \in Nat, k <= Len(s), k <= Len(t),
           \A i \in 1 .. k : s[i] = t[i] /\ (s[i] \in S <=> t[i] \in T)
    PROVE  f[k] = g[k]
<1> DEFINE Bad == {n \in 0 .. k : f[n] # g[n]}
<1> SUFFICES ASSUME Bad # {} PROVE FALSE OBVIOUS
<1>1. PICK m : m = Min(Bad) OBVIOUS
<1>2. Bad \in SUBSET Nat OBVIOUS
<1>3. m \in Bad /\ \A y \in Bad : m <= y BY <1>1, <1>2, MinOfNats
<1>4. m \in 0 .. k /\ f[m] # g[m] BY <1>3
<1>5. f[m] = FilterEntry(f, s, S, m) /\ g[m] = FilterEntry(g, t, T, m)
  BY <1>4 DEF FilterTable
<1>6. m # 0 BY <1>4, <1>5 DEF FilterEntry
<1>7. m - 1 \in 0 .. k /\ m - 1 \notin Bad
  <2> HIDE DEF Bad
  <2> QED BY <1>3, <1>4, <1>6
<1>8. f[m - 1] = g[m - 1] BY <1>7
<1>9. s[m] = t[m] /\ (s[m] \in S <=> t[m] \in T) BY <1>4, <1>6
<1> QED BY <1>4, <1>5, <1>6, <1>8, <1>9 DEF FilterEntry

\* The rows of a table: what they hold, and in which order.
FilterRow(f, s, S, n) ==
    /\ f[n] \in Seq(S)
    /\ \A e : e \in ToSet(f[n]) <=> \E i \in 1 .. n : s[i] = e /\ e \in S
    /\ \A a, b \in 1 .. n : a < b /\ s[a] \in S /\ s[b] \in S =>
          \E c, d \in 1 .. Len(f[n]) : c < d /\ f[n][c] = s[a] /\ f[n][d] = s[b]
    /\ IsInjective(s) => IsInjective(f[n])
    /\ (\A i \in 1 .. n : s[i] \in S) => Len(f[n]) = n /\ \A i \in 1 .. n : f[n][i] = s[i]

LEMMA FilterRowStep ==
    ASSUME NEW T, NEW s \in Seq(T), NEW S, NEW f, FilterTable(f, s, S), NEW n \in 1 .. Len(s),
           FilterRow(f, s, S, n - 1)
    PROVE  FilterRow(f, s, S, n)
<1>1. Len(s) \in Nat /\ DOMAIN s = 1 .. Len(s) BY LenProperties
<1>2. f[n] = IF s[n] \in S THEN Append(f[n - 1], s[n]) ELSE f[n - 1]
  BY <1>1 DEF FilterTable, FilterEntry
<1>3. PICK r : r = f[n - 1] OBVIOUS
<1>4. /\ r \in Seq(S)
      /\ \A e : e \in ToSet(r) <=> \E i \in 1 .. (n - 1) : s[i] = e /\ e \in S
      /\ \A a, b \in 1 .. (n - 1) : a < b /\ s[a] \in S /\ s[b] \in S =>
            \E c, d \in 1 .. Len(r) : c < d /\ r[c] = s[a] /\ r[d] = s[b]
      /\ IsInjective(s) => IsInjective(r)
      /\ (\A i \in 1 .. (n - 1) : s[i] \in S) => Len(r) = n - 1 /\ \A i \in 1 .. (n - 1) : r[i] = s[i]
  BY <1>3 DEF FilterRow
<1>5. CASE s[n] \notin S
  <2>1. f[n] = r BY <1>2, <1>3, <1>5
  <2>2. \A i \in 1 .. n : i \in 1 .. (n - 1) \/ i = n BY <1>1
  <2>3. \A i \in 1 .. (n - 1) : i \in 1 .. n BY <1>1
  <2>4. n \in 1 .. n BY <1>1
  <2>5. \A e : e \in ToSet(r) <=> \E i \in 1 .. n : s[i] = e /\ e \in S BY <1>4, <1>5, <2>2, <2>3
  <2>6. \A a, b \in 1 .. n : a < b /\ s[a] \in S /\ s[b] \in S =>
            \E c, d \in 1 .. Len(r) : c < d /\ r[c] = s[a] /\ r[d] = s[b]
    BY <1>4, <1>5, <2>2
  <2>7. ~ (\A i \in 1 .. n : s[i] \in S) BY <1>5, <2>4
  <2> QED BY <1>4, <2>1, <2>5, <2>6, <2>7 DEF FilterRow
<1>6. CASE s[n] \in S
  <2> DEFINE e == s[n]
             l == Len(r)
  <2>1. f[n] = Append(r, e) BY <1>2, <1>3, <1>6
  <2>2. /\ Append(r, e) \in Seq(S) /\ ToSet(Append(r, e)) = ToSet(r) \cup {e}
        /\ IsInjective(r) /\ e \notin ToSet(r) => IsInjective(Append(r, e))
    BY <1>4, <1>6, AppendLemma
  <2>3. l \in Nat /\ Len(Append(r, e)) = l + 1 /\ Append(r, e)[l + 1] = e /\ \A i \in 1 .. l : Append(r, e)[i] = r[i]
    BY <1>4, <1>6, LenProperties, AppendProperties
  <2> HIDE DEF e, l
  <2>4. \A i \in 1 .. n : i \in 1 .. (n - 1) \/ i = n BY <1>1
  <2>5. \A i \in 1 .. (n - 1) : i \in 1 .. n BY <1>1
  <2>6. n \in 1 .. n BY <1>1
  <2>7. s[n] = e BY DEF e
  <2>8. \A x : x \in ToSet(Append(r, e)) <=> \E i \in 1 .. n : s[i] = x /\ x \in S
    BY <1>4, <1>6, <2>2, <2>4, <2>5, <2>6, <2>7
  <2>9. ASSUME NEW a \in 1 .. n, NEW b \in 1 .. n, a < b, s[a] \in S, s[b] \in S
        PROVE  \E c, d \in 1 .. (l + 1) : c < d /\ Append(r, e)[c] = s[a] /\ Append(r, e)[d] = s[b]
    <3>1. a \in 1 .. (n - 1) BY <1>1, <2>9
    <3>2. CASE b = n
      <4>1. s[a] \in ToSet(r) BY <1>4, <2>9, <3>1
      <4>2. PICK c \in 1 .. l : r[c] = s[a] BY <1>4, <4>1, ToSetType DEF l
      <4>3. c \in 1 .. (l + 1) /\ l + 1 \in 1 .. (l + 1) /\ c < l + 1 BY <2>3
      <4>4. Append(r, e)[c] = s[a] /\ Append(r, e)[l + 1] = s[b] BY <2>3, <2>7, <3>2, <4>2
      <4> QED BY <4>3, <4>4
    <3>3. CASE b # n
      <4>1. b \in 1 .. (n - 1) BY <1>1, <3>3
      <4>2. PICK c \in 1 .. l, d \in 1 .. l : c < d /\ r[c] = s[a] /\ r[d] = s[b] BY <1>4, <2>9, <3>1, <4>1 DEF l
      <4>3. c \in 1 .. (l + 1) /\ d \in 1 .. (l + 1) BY <2>3
      <4> QED BY <2>3, <4>2, <4>3
    <3> QED BY <3>2, <3>3
  <2>10. IsInjective(s) => IsInjective(Append(r, e))
    <3> SUFFICES ASSUME IsInjective(s) PROVE e \notin ToSet(r) BY <1>4, <2>2
    <3> SUFFICES ASSUME e \in ToSet(r) PROVE FALSE OBVIOUS
    <3>1. PICK i \in 1 .. (n - 1) : s[i] = e BY <1>4
    <3>2. i \in DOMAIN s /\ n \in DOMAIN s /\ i # n BY <1>1
    <3> QED BY <2>7, <3>1, <3>2 DEF IsInjective
  <2>11. ASSUME \A i \in 1 .. n : s[i] \in S
         PROVE  l + 1 = n /\ \A i \in 1 .. n : Append(r, e)[i] = s[i]
    <3>1. l = n - 1 /\ \A i \in 1 .. (n - 1) : r[i] = s[i] BY <1>4, <2>5, <2>11 DEF l
    <3> QED BY <1>1, <2>3, <2>4, <2>7, <3>1
  <2>12. \A a, b \in 1 .. n : a < b /\ s[a] \in S /\ s[b] \in S =>
            \E c, d \in 1 .. Len(f[n]) : c < d /\ f[n][c] = s[a] /\ f[n][d] = s[b]
    <3> SUFFICES ASSUME NEW a \in 1 .. n, NEW b \in 1 .. n, a < b, s[a] \in S, s[b] \in S
                 PROVE  \E c, d \in 1 .. Len(f[n]) : c < d /\ f[n][c] = s[a] /\ f[n][d] = s[b]
      OBVIOUS
    <3>1. PICK c \in 1 .. (l + 1), d \in 1 .. (l + 1) : c < d /\ Append(r, e)[c] = s[a] /\ Append(r, e)[d] = s[b]
      BY <2>9
    <3>2. Len(f[n]) = l + 1 BY <2>1, <2>3
    <3> QED BY <2>1, <3>1, <3>2
  <2>13. (\A i \in 1 .. n : s[i] \in S) => Len(f[n]) = n /\ \A i \in 1 .. n : f[n][i] = s[i]
    BY <2>1, <2>3, <2>11
  <2>14. f[n] \in Seq(S) /\ (IsInjective(s) => IsInjective(f[n])) BY <2>1, <2>2, <2>10
  <2>15. \A x : x \in ToSet(f[n]) <=> \E i \in 1 .. n : s[i] = x /\ x \in S BY <2>1, <2>8
  <2> QED BY ONLY <2>12, <2>13, <2>14, <2>15 DEF FilterRow
<1> QED BY <1>5, <1>6

LEMMA FilterRows ==
    ASSUME NEW T, NEW s \in Seq(T), NEW S, NEW f, FilterTable(f, s, S)
    PROVE  FilterRow(f, s, S, Len(s))
<1>1. Len(s) \in Nat BY LenProperties
<1> DEFINE Bad == {n \in 0 .. Len(s) : ~ FilterRow(f, s, S, n)}
<1> SUFFICES ASSUME Bad # {} PROVE FALSE BY <1>1
<1>2. PICK m : m = Min(Bad) OBVIOUS
<1>3. Bad \in SUBSET Nat OBVIOUS
<1>4. m \in Bad /\ \A y \in Bad : m <= y BY <1>2, <1>3, MinOfNats
<1>5. m \in 0 .. Len(s) /\ ~ FilterRow(f, s, S, m) BY <1>4
<1>6. CASE m = 0
  <2>1. f[0] = <<>> BY <1>1 DEF FilterTable, FilterEntry
  <2>2. <<>> \in Seq(S) /\ Len(<<>>) = 0 /\ DOMAIN <<>> = {} OBVIOUS
  <2>3. ToSet(<<>>) = {} BY <2>2, ToSetType
  <2>4. IsInjective(<<>>) BY <2>2 DEF IsInjective
  <2>5. 1 .. 0 = {} OBVIOUS
  <2>6. FilterRow(f, s, S, 0) BY <2>1, <2>2, <2>3, <2>4, <2>5 DEF FilterRow
  <2> QED BY <1>5, <1>6, <2>6
<1>7. CASE m # 0
  <2>1. m - 1 \in 0 .. Len(s) /\ m - 1 \notin Bad /\ m \in 1 .. Len(s)
    <3> HIDE DEF Bad
    <3> QED BY <1>1, <1>4, <1>5, <1>7
  <2>2. FilterRow(f, s, S, m - 1) BY <2>1
  <2> QED BY <1>5, <2>1, <2>2, FilterRowStep
<1> QED BY <1>6, <1>7

\* What Only returns: the elements in S, once each if the sequence has each once, in their order.
LEMMA OnlyLemma ==
    ASSUME NEW T, NEW s \in Seq(T), NEW S
    PROVE  /\ Only(s, S) \in Seq(S) /\ Only(s, S) \in Seq(T)
           /\ ToSet(Only(s, S)) = ToSet(s) \cap S
           /\ IsInjective(s) => IsInjective(Only(s, S))
           /\ \A a, b \in 1 .. Len(s) : a < b /\ s[a] \in S /\ s[b] \in S =>
                 \E c, d \in 1 .. Len(Only(s, S)) : c < d /\ Only(s, S)[c] = s[a] /\ Only(s, S)[d] = s[b]
<1>1. Len(s) \in Nat BY LenProperties
<1>2. PICK f : FilterTable(f, s, S) /\ Only(s, S) = f[Len(s)] BY <1>1, OnlyIsTable
<1>3. FilterRow(f, s, S, Len(s)) BY <1>2, FilterRows
<1>4. PICK r : r = Only(s, S) OBVIOUS
<1>5. /\ r \in Seq(S)
      /\ \A e : e \in ToSet(r) <=> \E i \in 1 .. Len(s) : s[i] = e /\ e \in S
      /\ \A a, b \in 1 .. Len(s) : a < b /\ s[a] \in S /\ s[b] \in S =>
            \E c, d \in 1 .. Len(r) : c < d /\ r[c] = s[a] /\ r[d] = s[b]
      /\ IsInjective(s) => IsInjective(r)
  BY <1>2, <1>3, <1>4 DEF FilterRow
<1>6. \A e : e \in ToSet(s) <=> \E i \in 1 .. Len(s) : s[i] = e BY ToSetType
<1>7. ToSet(s) \subseteq T BY ToSetType
<1>8. ToSet(r) = ToSet(s) \cap S BY <1>5, <1>6
<1>9. r \in Seq(T)
  <2>1. \A i \in 1 .. Len(r) : r[i] \in ToSet(r) BY <1>5, ToSetType
  <2>2. \A i \in 1 .. Len(r) : r[i] \in T BY <1>7, <1>8, <2>1
  <2>3. Len(r) \in Nat /\ r \in [1 .. Len(r) -> S] BY <1>5, LenProperties
  <2>4. r \in [1 .. Len(r) -> T] BY <2>2, <2>3
  <2> QED BY <2>3, <2>4, FunctionIsSeq
<1> QED BY <1>4, <1>5, <1>8, <1>9

\* Two elements Only keeps stay in their order.
LEMMA OnlyOrder ==
    ASSUME NEW T, NEW s \in Seq(T), NEW S, NEW a \in 1 .. Len(s), NEW b \in 1 .. Len(s),
           a < b, s[a] \in S, s[b] \in S
    PROVE  \E c, d \in 1 .. Len(Only(s, S)) : c < d /\ Only(s, S)[c] = s[a] /\ Only(s, S)[d] = s[b]
BY OnlyLemma

\* The choice alone matters.
LEMMA OnlySame ==
    ASSUME NEW T, NEW s \in Seq(T), NEW S, NEW R, \A i \in 1 .. Len(s) : s[i] \in S <=> s[i] \in R
    PROVE  Only(s, S) = Only(s, R)
<1>1. Len(s) \in Nat BY LenProperties
<1>2. PICK f : FilterTable(f, s, S) /\ Only(s, S) = f[Len(s)] BY <1>1, OnlyIsTable
<1>3. PICK g : FilterTable(g, s, R) /\ Only(s, R) = g[Len(s)] BY <1>1, OnlyIsTable
<1> QED BY <1>1, <1>2, <1>3, FilterTablesAgree

\* Nothing is left out.
LEMMA OnlyAll ==
    ASSUME NEW T, NEW s \in Seq(T), NEW S, \A i \in 1 .. Len(s) : s[i] \in S
    PROVE  Only(s, S) = s
<1>1. Len(s) \in Nat /\ s \in [1 .. Len(s) -> T] BY LenProperties
<1>2. PICK f : FilterTable(f, s, S) /\ Only(s, S) = f[Len(s)] BY <1>1, OnlyIsTable
<1>3. FilterRow(f, s, S, Len(s)) BY <1>2, FilterRows
<1>4. PICK r : r = Only(s, S) OBVIOUS
<1>5. r \in Seq(S) /\ Len(r) = Len(s) /\ \A i \in 1 .. Len(s) : r[i] = s[i] BY <1>2, <1>3, <1>4 DEF FilterRow
<1>6. r \in [1 .. Len(r) -> S] BY <1>5, LenProperties
<1>7. r = s BY <1>1, <1>5, <1>6
<1> QED BY <1>4, <1>7

LEMMA OnlyEmpty == ASSUME NEW S PROVE Only(<<>>, S) = <<>>
<1>1. <<>> \in Seq(S) /\ \A i \in 1 .. Len(<<>>) : <<>>[i] \in S OBVIOUS
<1> QED BY <1>1, OnlyAll

\* An element at the end.
LEMMA OnlyAppend ==
    ASSUME NEW T, NEW s \in Seq(T), NEW e \in T, NEW S
    PROVE  Only(Append(s, e), S) = IF e \in S THEN Append(Only(s, S), e) ELSE Only(s, S)
<1>1. Len(s) \in Nat BY LenProperties
<1>2. PICK t : t = Append(s, e) OBVIOUS
<1>3. Len(t) = Len(s) + 1 /\ t[Len(s) + 1] = e /\ \A i \in 1 .. Len(s) : t[i] = s[i] BY <1>2, AppendProperties
<1>4. PICK f : FilterTable(f, t, S) /\ Only(t, S) = f[Len(t)] BY <1>1, <1>3, OnlyIsTable
<1>5. PICK g : FilterTable(g, s, S) /\ Only(s, S) = g[Len(s)] BY <1>1, OnlyIsTable
<1>6. f[Len(s)] = g[Len(s)] BY <1>1, <1>3, <1>4, <1>5, FilterTablesAgree
<1>7. f[Len(s) + 1] = IF e \in S THEN Append(f[Len(s)], e) ELSE f[Len(s)]
  <2>1. PICK n : n = Len(s) + 1 OBVIOUS
  <2>2. n \in 0 .. Len(t) /\ n # 0 /\ n - 1 = Len(s) /\ t[n] = e BY <1>1, <1>3, <2>1
  <2>3. f[n] = IF t[n] \in S THEN Append(f[n - 1], t[n]) ELSE f[n - 1] BY <1>4, <2>2 DEF FilterTable, FilterEntry
  <2> QED BY <2>1, <2>2, <2>3
<1> QED BY <1>2, <1>3, <1>4, <1>5, <1>6, <1>7

\* An element in front that is left out.
LEMMA OnlyWithoutFirst ==
    ASSUME NEW T, NEW s \in Seq(T), NEW e \in T, NEW S, e \notin S
    PROVE  Only(<<e>> \o s, S) = Only(s, S)
<1>1. Len(s) \in Nat BY LenProperties
<1>2. PICK t : t = <<e>> \o s OBVIOUS
<1>3. Len(t) = Len(s) + 1 /\ t[1] = e /\ \A i \in 1 .. Len(s) : t[i + 1] = s[i]
  <2>1. <<e>> \in Seq(T) /\ Len(<<e>>) = 1 /\ <<e>>[1] = e OBVIOUS
  <2>2. /\ Len(t) = 1 + Len(s)
        /\ \A i \in 1 .. (1 + Len(s)) : t[i] = IF i <= 1 THEN <<e>>[i] ELSE s[i - 1]
    BY <1>2, <2>1, ConcatProperties
  <2>3. ASSUME NEW i \in 1 .. Len(s) PROVE t[i + 1] = s[i]
    <3>1. i + 1 \in 1 .. (1 + Len(s)) /\ ~ (i + 1 <= 1) /\ (i + 1) - 1 = i BY <1>1
    <3> QED BY <2>2, <3>1
  <2> QED BY <1>1, <2>1, <2>2, <2>3
<1>4. PICK f : FilterTable(f, t, S) /\ Only(t, S) = f[Len(t)] BY <1>1, <1>3, OnlyIsTable
<1>5. PICK g : FilterTable(g, s, S) /\ Only(s, S) = g[Len(s)] BY <1>1, OnlyIsTable
<1> DEFINE Bad == {n \in 0 .. Len(s) : f[n + 1] # g[n]}
<1>6. Bad = {}
  <2> SUFFICES ASSUME Bad # {} PROVE FALSE OBVIOUS
  <2>1. PICK m : m = Min(Bad) OBVIOUS
  <2>2. Bad \in SUBSET Nat OBVIOUS
  <2>3. m \in Bad /\ \A y \in Bad : m <= y BY <2>1, <2>2, MinOfNats
  <2>4. m \in 0 .. Len(s) /\ f[m + 1] # g[m] BY <2>3
  <2>5. m + 1 \in 0 .. Len(t) /\ m + 1 # 0 /\ (m + 1) - 1 = m BY <1>1, <1>3, <2>4
  <2>6. f[m + 1] = IF t[m + 1] \in S THEN Append(f[m], t[m + 1]) ELSE f[m]
    BY <1>4, <2>5 DEF FilterTable, FilterEntry
  <2>7. CASE m = 0
    <3>1. f[0] = <<>> /\ g[0] = <<>> BY <1>1, <1>3, <1>4, <1>5 DEF FilterTable, FilterEntry
    <3>2. t[m + 1] = e BY <1>3, <2>7
    <3> QED BY <2>4, <2>6, <2>7, <3>1, <3>2
  <2>8. CASE m # 0
    <3>1. m - 1 \in 0 .. Len(s) /\ m - 1 \notin Bad /\ m \in 1 .. Len(s) /\ (m - 1) + 1 = m
      <4> HIDE DEF Bad
      <4> QED BY <1>1, <2>3, <2>4, <2>8
    <3>2. f[m] = g[m - 1] BY <3>1
    <3>3. g[m] = IF s[m] \in S THEN Append(g[m - 1], s[m]) ELSE g[m - 1]
      BY <1>5, <2>4, <2>8 DEF FilterTable, FilterEntry
    <3>4. t[m + 1] = s[m] BY <1>3, <3>1
    <3> QED BY <2>4, <2>6, <3>2, <3>3, <3>4
  <2> QED BY <2>7, <2>8
<1>7. Len(s) \in 0 .. Len(s) BY <1>1
<1>8. f[Len(s) + 1] = g[Len(s)] BY <1>6, <1>7
<1> QED BY <1>2, <1>3, <1>4, <1>5, <1>8

\* A first choice that keeps all that the second does.
LEMMA OnlyTwice ==
    ASSUME NEW T, NEW s \in Seq(T), NEW S, NEW R, S \subseteq R
    PROVE  Only(Only(s, R), S) = Only(s, S)
<1>1. Len(s) \in Nat /\ \A i \in 1 .. Len(s) : s[i] \in T BY LenProperties, ElementOfSeq
<1>2. PICK f : FilterTable(f, s, R) /\ Only(s, R) = f[Len(s)] BY <1>1, OnlyIsTable
<1>3. PICK g : FilterTable(g, s, S) /\ Only(s, S) = g[Len(s)] BY <1>1, OnlyIsTable
<1> DEFINE Bad == {n \in 0 .. Len(s) : ~ (f[n] \in Seq(T) /\ Only(f[n], S) = g[n])}
<1>4. Bad = {}
  <2> SUFFICES ASSUME Bad # {} PROVE FALSE OBVIOUS
  <2>1. PICK m : m = Min(Bad) OBVIOUS
  <2>2. Bad \in SUBSET Nat OBVIOUS
  <2>3. m \in Bad /\ \A y \in Bad : m <= y BY <2>1, <2>2, MinOfNats
  <2>4. m \in 0 .. Len(s) /\ ~ (f[m] \in Seq(T) /\ Only(f[m], S) = g[m]) BY <2>3
  <2>5. f[m] = FilterEntry(f, s, R, m) /\ g[m] = FilterEntry(g, s, S, m)
    BY <1>2, <1>3, <2>4 DEF FilterTable
  <2>6. CASE m = 0
    <3>1. f[m] = <<>> /\ g[m] = <<>> BY <2>5, <2>6 DEF FilterEntry
    <3>2. <<>> \in Seq(T) OBVIOUS
    <3> QED BY <2>4, <3>1, <3>2, OnlyEmpty
  <2>7. CASE m # 0
    <3>1. m - 1 \in 0 .. Len(s) /\ m - 1 \notin Bad /\ m \in 1 .. Len(s)
      <4> HIDE DEF Bad
      <4> QED BY <1>1, <2>3, <2>4, <2>7
    <3>2. f[m - 1] \in Seq(T) /\ Only(f[m - 1], S) = g[m - 1] BY <3>1
    <3>3. /\ f[m] = IF s[m] \in R THEN Append(f[m - 1], s[m]) ELSE f[m - 1]
          /\ g[m] = IF s[m] \in S THEN Append(g[m - 1], s[m]) ELSE g[m - 1]
      BY <2>5, <2>7 DEF FilterEntry
    <3>4. s[m] \in T BY <1>1, <3>1
    <3>5. CASE s[m] \in R
      <4>1. Only(Append(f[m - 1], s[m]), S) = IF s[m] \in S THEN Append(Only(f[m - 1], S), s[m]) ELSE Only(f[m - 1], S)
        <5>1. PICK u, e : u = f[m - 1] /\ e = s[m] OBVIOUS
        <5>2. u \in Seq(T) /\ e \in T BY <3>2, <3>4, <5>1
        <5>3. Only(Append(u, e), S) = IF e \in S THEN Append(Only(u, S), e) ELSE Only(u, S)
          BY ONLY <5>2, OnlyAppend
        <5> QED BY <5>1, <5>3
      <4>2. Append(f[m - 1], s[m]) \in Seq(T) BY <3>2, <3>4, AppendProperties
      <4> QED BY <2>4, <3>2, <3>3, <3>5, <4>1, <4>2
    <3>6. CASE s[m] \notin R BY <2>4, <3>2, <3>3, <3>6
    <3> QED BY <3>5, <3>6
  <2> QED BY <2>6, <2>7
<1>5. Len(s) \in 0 .. Len(s) BY <1>1
<1> QED BY <1>2, <1>3, <1>4, <1>5
=============================================================================
