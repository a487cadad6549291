---------------------------- MODULE ScriptProofs ---------------------------
(***************************************************************************)
(* Proofs about Script, for every set of patterns, scripts, handlers and   *)
(* moves, every depth of commands that run commands, and any number of     *)
(* events: the list of triggers stays sorted (StaysOrdered), a walk over   *)
(* triggers or handlers misses nothing and meets nothing freed unless a    *)
(* command removed the node it stood on (WalksKeepWay), the rows of the    *)
(* trigger window are the list (RowsStayTriggers), and path_length counts  *)
(* the moves of the path (PathIsCounted).                                  *)
(***************************************************************************)
EXTENDS Script, SequenceTheorems, FiniteSetTheorems, TLAPS

-----------------------------------------------------------------------------
(* Lists whose elements are distinct: what they hold, and what an element    *)
(* more, at either end, or less leaves of them.                              *)

\* What is in a list is what its positions hold.
LEMMA RangeLemma ==
    ASSUME NEW S, NEW s \in Seq(S)
    PROVE  /\ DOMAIN s = 1..Len(s) /\ Len(s) \in Nat
           /\ \A x : x \in Range(s) <=> \E i \in 1..Len(s) : s[i] = x
           /\ \A i \in 1..Len(s) : s[i] \in S /\ s[i] \in Range(s)
           /\ Range(s) \subseteq S
BY LenProperties, ElementOfSeq DEF Range

\* An empty list, and a list with one more element at its end.
LEMMA EmptyLemma ==
    \A S : <<>> \in Seq(S) /\ Len(<<>>) = 0 /\ DOMAIN <<>> = {} /\ Range(<<>>) = {}
BY EmptySeq DEF Range

LEMMA AppendLemma ==
    ASSUME NEW S, NEW s \in Seq(S), NEW x \in S
    PROVE  /\ Append(s, x) \in Seq(S) /\ Append(s, x) # <<>>
           /\ Range(Append(s, x)) = Range(s) \cup {x}
           /\ IsInjective(s) /\ x \notin Range(s) => IsInjective(Append(s, x))
<1> DEFINE t == Append(s, x)
<1>1. /\ t \in Seq(S) /\ t # <<>> /\ Len(t) = Len(s) + 1
      /\ \A i \in 1..Len(s) : t[i] = s[i]
      /\ t[Len(s) + 1] = x
  BY AppendProperties
<1> HIDE DEF t
<1>2. /\ DOMAIN s = 1..Len(s) /\ Len(s) \in Nat
      /\ \A y : y \in Range(s) <=> \E i \in 1..Len(s) : s[i] = y
  BY RangeLemma
<1>3. /\ DOMAIN t = 1..Len(s) + 1
      /\ \A y : y \in Range(t) <=> \E i \in 1..Len(s) + 1 : t[i] = y
  BY <1>1, RangeLemma
<1>4. Range(t) = Range(s) \cup {x}
  BY <1>1, <1>2, <1>3
<1>5. ASSUME IsInjective(s), x \notin Range(s)
      PROVE  IsInjective(t)
  BY <1>1, <1>2, <1>3, <1>5 DEF IsInjective
<1> QED
  BY <1>1, <1>4, <1>5 DEF t

\* One more element in front.
LEMMA PrependLemma ==
    ASSUME NEW S, NEW s \in Seq(S), NEW x \in S
    PROVE  /\ <<x>> \o s \in Seq(S)
           /\ Range(<<x>> \o s) = Range(s) \cup {x}
           /\ IsInjective(s) /\ x \notin Range(s) => IsInjective(<<x>> \o s)
<1> DEFINE t == <<x>> \o s
           n == Len(s)
<1>1. <<x>> \in Seq(S) /\ Len(<<x>>) = 1 /\ <<x>>[1] = x
  OBVIOUS
<1>2. /\ DOMAIN s = 1..n /\ n \in Nat
      /\ \A y : y \in Range(s) <=> \E i \in 1..n : s[i] = y
  BY RangeLemma
<1>3. /\ t \in Seq(S) /\ Len(t) = 1 + n
      /\ \A i \in 1..1 + n : t[i] = IF i <= 1 THEN <<x>>[i] ELSE s[i - 1]
  BY <1>1, ConcatProperties
<1> HIDE DEF t
<1>4. t[1] = x /\ \A i \in 1..n : i + 1 \in 1..1 + n /\ t[i + 1] = s[i]
  BY <1>1, <1>2, <1>3
<1>5. \A j \in 1..1 + n : j = 1 \/ (j - 1 \in 1..n /\ j - 1 + 1 = j)
  BY <1>2
<1>6. /\ DOMAIN t = 1..1 + n
      /\ \A y : y \in Range(t) <=> \E i \in 1..1 + n : t[i] = y
  BY <1>3, RangeLemma
<1>7. 1 \in 1..1 + n
  BY <1>2
<1>8. \A j \in 1..1 + n : j # 1 => j - 1 \in 1..n /\ t[j] = s[j - 1]
  BY <1>4, <1>5
<1>9. Range(t) = Range(s) \cup {x}
  <2>1. ASSUME NEW y \in Range(t)
        PROVE  y \in Range(s) \cup {x}
    BY <1>2, <1>4, <1>6, <1>8
  <2>2. ASSUME NEW y \in Range(s) \cup {x}
        PROVE  y \in Range(t)
    BY <1>2, <1>4, <1>6, <1>7
  <2> QED
    BY <2>1, <2>2
<1>10. ASSUME IsInjective(s), x \notin Range(s)
      PROVE  IsInjective(t)
  <2>1. \A i, j \in 1..n : s[i] = s[j] => i = j
    BY <1>2, <1>10 DEF IsInjective
  <2>2. \A i \in 1..n : t[i + 1] # x
    BY <1>2, <1>4, <1>10
  <2>3. ASSUME NEW i \in 1..1 + n, NEW j \in 1..1 + n, t[i] = t[j]
        PROVE  i = j
    <3>1. CASE i = 1 \/ j = 1
      <4>1. \A k \in 1..1 + n : k # 1 => t[k] # x
        BY <2>2, <1>4, <1>5, ZenonT(30)
      <4> QED
        BY <4>1, <3>1, <2>3, <1>4
    <3>2. CASE i # 1 /\ j # 1
      <4>1. i - 1 = j - 1
        BY <3>2, <2>1, <2>3, <1>8
      <4> QED
        BY <4>1, <1>2
    <3> QED
      BY <3>1, <3>2
  <2> QED
    BY <2>3, <1>6 DEF IsInjective
<1> QED
  BY <1>3, <1>9, <1>10 DEF t

\* The first element of a list taken off.
LEMMA TailLemma ==
    ASSUME NEW S, NEW s \in Seq(S), s # <<>>
    PROVE  /\ Head(s) \in S /\ Head(s) \in Range(s)
           /\ Head(s) = s[1] /\ 1 \in DOMAIN s
           /\ Tail(s) \in Seq(S)
           /\ Len(Tail(s)) = Len(s) - 1
           /\ \A i \in DOMAIN Tail(s) : i + 1 \in DOMAIN s /\ Tail(s)[i] = s[i + 1]
           /\ \A i \in DOMAIN s : i # 1 => i - 1 \in DOMAIN Tail(s) /\ Tail(s)[i - 1] = s[i]
           /\ Range(Tail(s)) \subseteq Range(s)
           /\ IsInjective(s) => IsInjective(Tail(s)) /\ Head(s) \notin Range(Tail(s))
<1> DEFINE t == Tail(s)
           n == Len(s)
<1>1. /\ t \in Seq(S) /\ Len(t) = n - 1
      /\ \A i \in 1..Len(t) : t[i] = s[i + 1]
      /\ Head(s) = s[1]
  BY HeadTailProperties
<1>2. /\ DOMAIN s = 1..n /\ n \in Nat /\ n >= 1
      /\ \A y : y \in Range(s) <=> \E i \in 1..n : s[i] = y
      /\ \A i \in 1..n : s[i] \in S
  BY RangeLemma, EmptySeq
<1> HIDE DEF t, n
<1>3. /\ DOMAIN t = 1..n - 1
      /\ \A y : y \in Range(t) <=> \E i \in 1..n - 1 : t[i] = y
  BY <1>1, RangeLemma
<1>4. \A i \in 1..n - 1 : i + 1 \in 1..n /\ t[i] = s[i + 1] /\ i + 1 # 1
  BY <1>1, <1>2
<1>5. \A i \in 1..n : i # 1 => i - 1 \in 1..n - 1 /\ i - 1 + 1 = i
  BY <1>2
<1>6. 1 \in 1..n
  BY <1>2
<1>7. Range(t) \subseteq Range(s)
  BY <1>2, <1>3, <1>4
<1>8. ASSUME IsInjective(s)
      PROVE  IsInjective(t) /\ s[1] \notin Range(t)
  <2>1. \A i, j \in 1..n : s[i] = s[j] => i = j
    BY <1>2, <1>8 DEF IsInjective
  <2>2. \A i, j \in 1..n - 1 : i + 1 = j + 1 => i = j
    BY <1>2
  <2>3. IsInjective(t)
    BY <2>1, <2>2, <1>3, <1>4 DEF IsInjective
  <2> QED
    BY <2>1, <2>3, <1>3, <1>4, <1>6
<1> QED
  BY <1>1, <1>2, <1>3, <1>4, <1>5, <1>6, <1>7, <1>8 DEF t, n

\* Taking one element out: those before it stay, those behind it move up.
LEMMA RemoveLemma ==
    ASSUME NEW S, NEW s \in Seq(S), NEW i \in 1..Len(s)
    PROVE  /\ RemoveAt(s, i) \in Seq(S)
           /\ Len(RemoveAt(s, i)) = Len(s) - 1
           /\ \A j \in 1..Len(s) - 1 :
                RemoveAt(s, i)[j] = IF j < i THEN s[j] ELSE s[j + 1]
<1>1. DOMAIN s = 1..Len(s) /\ Len(s) \in Nat /\ \A j \in 1..Len(s) : s[j] \in S
  BY RangeLemma
<1>4. RemoveAt(s, i) = SubSeq(s, 1, i - 1) \o SubSeq(s, i + 1, Len(s))
  BY DEF RemoveAt
<1> DEFINE a == SubSeq(s, 1, i - 1)
           b == SubSeq(s, i + 1, Len(s))
<1>5. a \in Seq(S) /\ Len(a) = i - 1 /\ \A j \in 1..i - 1 : a[j] = s[j]
  <2>1. 1 \in Int /\ i - 1 \in Int /\ \A j \in 1..i - 1 : s[j] \in S
    BY <1>1
  <2> QED
    BY <2>1, SubSeqProperties
<1>6. b \in Seq(S) /\ Len(b) = Len(s) - i /\ \A j \in 1..Len(s) - i : b[j] = s[j + i]
  <2>1. i + 1 \in Int /\ Len(s) \in Int /\ \A j \in i + 1..Len(s) : s[j] \in S
    BY <1>1
  <2>2. /\ b \in Seq(S)
        /\ Len(b) = IF i + 1 <= Len(s) THEN Len(s) - (i + 1) + 1 ELSE 0
        /\ \A j \in 1..Len(s) - (i + 1) + 1 : b[j] = s[i + 1 + j - 1]
    BY <2>1, SubSeqProperties
  <2> HIDE DEF b
  <2>3. \A j \in 1..Len(s) - i : i + 1 + j - 1 = j + i
    BY <1>1
  <2>4. ASSUME NEW n \in Nat, NEW k \in 1..n
        PROVE  n - (k + 1) + 1 = n - k /\ (~(k + 1 <= n) => n - k = 0)
    OBVIOUS
  <2> QED
    BY <1>1, <2>2, <2>3, <2>4
<1> HIDE DEF a, b
<1>7. /\ a \o b \in Seq(S) /\ Len(a \o b) = Len(a) + Len(b)
      /\ \A j \in 1..Len(a) + Len(b) : (a \o b)[j] = IF j <= Len(a) THEN a[j] ELSE b[j - Len(a)]
  BY <1>5, <1>6, ConcatProperties
<1>8. \A j \in 1..Len(s) - 1 : (a \o b)[j] = (IF j < i THEN s[j] ELSE s[j + 1])
  <2> TAKE j \in 1..Len(s) - 1
  <2>1. CASE j < i
    BY <2>1, <1>1, <1>5, <1>6, <1>7
  <2>2. CASE j >= i
    <3>1. j - (i - 1) \in 1..Len(s) - i /\ j - (i - 1) + i = j + 1 /\ ~(j <= i - 1)
      BY <2>2, <1>1
    <3>2. (a \o b)[j] = b[j - (i - 1)]
      BY <3>1, <1>1, <1>5, <1>6, <1>7
    <3>3. \A k \in 1..Len(s) - i : k + i = j + 1 => b[k] = s[j + 1]
      BY <1>6
    <3>4. b[j - (i - 1)] = s[j + 1]
      BY <3>1, <3>3
    <3>5. ~(j < i)
      BY <2>2, <1>1
    <3> QED
      BY <3>2, <3>4, <3>5
  <2>3. j < i \/ j >= i
    BY <1>1
  <2> QED
    BY <2>1, <2>2, <2>3
<1>9. Len(a \o b) = Len(s) - 1
  BY <1>1, <1>5, <1>6, <1>7
<1>10. RemoveAt(s, i) = a \o b
  BY <1>4 DEF a, b
<1> QED
  BY <1>7, <1>8, <1>9, <1>10

\* Taking one element out of a list leaves the others, each once.
LEMMA RemovedLemma ==
    ASSUME NEW S, NEW s \in Seq(S), IsInjective(s), NEW i \in 1..Len(s)
    PROVE  /\ RemoveAt(s, i) \in Seq(S)
           /\ IsInjective(RemoveAt(s, i))
           /\ Range(RemoveAt(s, i)) = Range(s) \ {s[i]}
<1> DEFINE r == RemoveAt(s, i)
<1>2. /\ r \in Seq(S) /\ Len(r) = Len(s) - 1
      /\ \A j \in 1..Len(s) - 1 : r[j] = IF j < i THEN s[j] ELSE s[j + 1]
  BY RemoveLemma
<1>3. /\ DOMAIN s = 1..Len(s) /\ Len(s) \in Nat /\ DOMAIN r = 1..Len(s) - 1
      /\ \A j, k \in 1..Len(s) : s[j] = s[k] => j = k
      /\ \A x : x \in Range(s) <=> \E j \in 1..Len(s) : s[j] = x
      /\ \A x : x \in Range(r) <=> \E j \in 1..Len(s) - 1 : r[j] = x
  <2>1. /\ DOMAIN s = 1..Len(s) /\ Len(s) \in Nat
        /\ \A x : x \in Range(s) <=> \E j \in 1..Len(s) : s[j] = x
    BY RangeLemma
  <2>2. /\ DOMAIN r = 1..Len(s) - 1
        /\ \A x : x \in Range(r) <=> \E j \in 1..Len(s) - 1 : r[j] = x
    BY <1>2, RangeLemma
  <2> QED
    BY <2>1, <2>2 DEF IsInjective
<1> HIDE DEF r
<1>4. IsInjective(r)
  BY <1>2, <1>3 DEF IsInjective
<1>5. ASSUME NEW x \in Range(r)
      PROVE  x \in Range(s) \ {s[i]}
  <2>1. PICK j \in 1..Len(s) - 1 : r[j] = x
    BY <1>3
  <2>2. CASE j < i
    BY <2>1, <2>2, <1>2, <1>3
  <2>3. CASE j >= i
    <3>1. j + 1 \in 1..Len(s) /\ j + 1 # i /\ x = s[j + 1]
      BY <2>1, <2>3, <1>2, <1>3
    <3> QED
      BY <3>1, <1>3
  <2> QED
    BY <2>2, <2>3, <1>3
<1>6. ASSUME NEW x \in Range(s), x # s[i]
      PROVE  x \in Range(r)
  <2>1. PICK k \in 1..Len(s) : s[k] = x /\ k # i
    BY <1>3, <1>6
  <2>2. CASE k < i
    BY <2>1, <2>2, <1>2, <1>3
  <2>3. CASE k > i
    <3>1. k - 1 \in 1..Len(s) - 1 /\ r[k - 1] = s[k]
      BY <2>1, <2>3, <1>2, <1>3
    <3> QED
      BY <2>1, <3>1, <1>3
  <2> QED
    BY <2>1, <2>2, <2>3, <1>3
<1> QED
  BY <1>2, <1>4, <1>5, <1>6 DEF r

-----------------------------------------------------------------------------
(* Taking nodes out of a list.                                               *)

\* Counting up to the positions of a set numbers them from 1, in their order.
LEMMA UpToLemma ==
    ASSUME NEW m \in Nat, NEW I \in SUBSET (1..m), NEW n, n = Cardinality(I)
    PROVE  /\ n \in Nat
           /\ \A i \in I : UpTo(I, i) \in 1..n
           /\ \A i, j \in I : i < j => UpTo(I, i) < UpTo(I, j)
<1>1. IsFiniteSet(I) /\ n \in Nat /\ \A i \in I : i \in Int
  <2>1. IsFiniteSet(1..m)
    BY FS_Interval
  <2>2. IsFiniteSet(I)
    BY <2>1, FS_Subset
  <2> QED
    BY <2>2, FS_CardinalityType
<1>2. ASSUME NEW i \in I, NEW U, U = {j \in I : j <= i}
      PROVE  /\ IsFiniteSet(U) /\ Cardinality(U) \in 1..n
             /\ i \in U /\ UpTo(I, i) = Cardinality(U)
  <2>1. U \in SUBSET I /\ i \in U /\ UpTo(I, i) = Cardinality(U)
    BY <1>2 DEF UpTo
  <2>2. IsFiniteSet(U) /\ Cardinality(U) <= Cardinality(I)
    BY <2>1, <1>1, FS_Subset
  <2>3. Cardinality(U) \in Nat /\ Cardinality(U) # 0
    BY <2>1, <2>2, FS_CardinalityType, FS_EmptySet
  <2> QED
    BY <2>1, <2>2, <2>3, <1>1
<1>3. ASSUME NEW i \in I, NEW j \in I, i < j
      PROVE  UpTo(I, i) < UpTo(I, j)
  <2> DEFINE U == {k \in I : k <= i}
             V == {k \in I : k <= j}
  <2>1. U \in SUBSET V /\ j \notin U
    <3>1. i \in Int /\ j \in Int /\ \A k \in I : k \in Int
      BY <1>1
    <3>2. ~(j <= i) /\ \A k \in I : k <= i => k <= j
      BY <3>1, <1>3
    <3> QED
      BY <3>2
  <2>2. /\ IsFiniteSet(U) /\ Cardinality(U) \in 1..n /\ UpTo(I, i) = Cardinality(U)
        /\ IsFiniteSet(V) /\ Cardinality(V) \in 1..n /\ UpTo(I, j) = Cardinality(V)
        /\ j \in V
    BY <1>2
  <2> HIDE DEF U, V
  <2>3. Cardinality(U) <= Cardinality(V) /\ Cardinality(U) # Cardinality(V)
    BY <2>1, <2>2, FS_Subset
  <2> QED
    BY <2>2, <2>3, <1>1
<1>4. \A i \in I : UpTo(I, i) \in 1..n
  <2>1. ASSUME NEW i \in I
        PROVE  \E U : U = {j \in I : j <= i}
    OBVIOUS
  <2> QED
    BY <2>1, <1>2
<1> QED
  BY <1>1, <1>3, <1>4

\* Nth is the way back: the k-th position of a set, in their order.
LEMMA NthLemma ==
    ASSUME NEW m \in Nat, NEW I \in SUBSET (1..m), NEW n, n = Cardinality(I)
    PROVE  /\ \A k \in 1..n : Nth(I, k) \in I
           /\ \A k, l \in 1..n : k < l => Nth(I, k) < Nth(I, l)
           /\ \A i \in I : \E k \in 1..n : Nth(I, k) = i
<1> DEFINE num == [i \in I |-> UpTo(I, i)]
<1>1. /\ n \in Nat
      /\ \A i \in I : num[i] \in 1..n
      /\ \A i, j \in I : i < j => num[i] < num[j]
      /\ \A i \in I : num[i] = UpTo(I, i)
      /\ num \in [I -> 1..n]
  BY UpToLemma
<1> HIDE DEF num
<1>2. \A i, j \in I : num[i] = num[j] => i = j
  <2>1. \A i, j \in I : i < j \/ j < i \/ i = j
    OBVIOUS
  <2>2. \A i, j \in I : num[i] \in Int /\ (i < j => num[i] # num[j])
    BY <1>1
  <2> QED
    BY <2>1, <2>2
<1>3. \A k \in 1..n : \E i \in I : num[i] = k
  <2>1. num \in Injection(I, 1..n)
    BY <1>1, <1>2 DEF Injection, IsInjective
  <2>2. IsFiniteSet(1..n) /\ Cardinality(1..n) = n
    BY <1>1, FS_Interval
  <2>3. num \in Surjection(I, 1..n)
    BY <2>1, <2>2, FS_Injection
  <2> QED
    BY <2>3 DEF Surjection
<1>4. \A k \in 1..n : Nth(I, k) \in I /\ num[Nth(I, k)] = k
  BY <1>1, <1>3 DEF Nth
<1>5. ASSUME NEW k \in 1..n, NEW l \in 1..n, k < l
      PROVE  Nth(I, k) < Nth(I, l)
  <2>1. PICK i, j \in I : i = Nth(I, k) /\ j = Nth(I, l) /\ num[i] = k /\ num[j] = l
    BY <1>4
  <2>2. ~(j < i) /\ j # i
    BY <2>1, <1>1, <1>5
  <2> QED
    BY <2>1, <2>2
<1>6. ASSUME NEW i \in I
      PROVE  \E k \in 1..n : Nth(I, k) = i
  <2>1. PICK k \in 1..n : k = num[i]
    BY <1>1
  <2>2. Nth(I, k) = i
    BY <2>1, <1>2, <1>4
  <2> QED
    BY <2>2
<1> QED
  BY <1>4, <1>5, <1>6

\* Only(s, S) picks from s, in its order, all positions that hold an element of S.
LEMMA OnlyLemma ==
    ASSUME NEW N, NEW s \in Seq(N), NEW S, NEW o, o = Only(s, S)
    PROVE  /\ o \in Seq(N)
           /\ \E f \in [1..Len(o) -> 1..Len(s)] :
                /\ \A k \in 1..Len(o) : o[k] = s[f[k]] /\ s[f[k]] \in S
                /\ \A k, l \in 1..Len(o) : k < l => f[k] < f[l]
                /\ \A i \in 1..Len(s) : s[i] \in S => \E k \in 1..Len(o) : f[k] = i
<1> DEFINE I == Places(s, S)
           n == Cardinality(I)
<1>1. DOMAIN s = 1..Len(s) /\ Len(s) \in Nat /\ \A i \in 1..Len(s) : s[i] \in N
  BY RangeLemma
<1>2. I \in SUBSET (1..Len(s)) /\ \A i \in 1..Len(s) : i \in I <=> s[i] \in S
  BY <1>1 DEF Places
<1>3. n \in Nat
  BY <1>1, <1>2, UpToLemma
<1>4. o = [k \in 1..n |-> s[Nth(I, k)]]
  BY DEF Only
<1> HIDE DEF I, n
<1>5. /\ \A k \in 1..n : Nth(I, k) \in I
      /\ \A k, l \in 1..n : k < l => Nth(I, k) < Nth(I, l)
      /\ \A i \in I : \E k \in 1..n : Nth(I, k) = i
  BY <1>1, <1>2, NthLemma DEF n
<1>6. o \in Seq(N) /\ Len(o) = n
  <2>1. \A k \in 1..n : s[Nth(I, k)] \in N
    BY <1>1, <1>2, <1>5
  <2> QED
    BY <2>1, <1>3, <1>4, IsASeq, LenProperties
<1> DEFINE f == [k \in 1..n |-> Nth(I, k)]
<1>7. \A k \in 1..n : f[k] = Nth(I, k)
  OBVIOUS
<1>8. f \in [1..Len(o) -> 1..Len(s)]
  BY <1>2, <1>5, <1>6
<1> HIDE DEF f
<1>9. ASSUME NEW k \in 1..n
      PROVE  o[k] = s[f[k]] /\ s[f[k]] \in S
  <2>1. o[k] = s[Nth(I, k)]
    BY <1>4
  <2>2. s[Nth(I, k)] \in S
    BY <1>2, <1>5
  <2> QED
    BY <2>1, <2>2, <1>7
<1>10. \A k, l \in 1..n : k < l => f[k] < f[l]
  BY <1>5, <1>7
<1>11. \A i \in 1..Len(s) : s[i] \in S => \E k \in 1..n : f[k] = i
  BY <1>2, <1>5, <1>7
<1> QED
  BY <1>6, <1>8, <1>9, <1>10, <1>11

-----------------------------------------------------------------------------
(* What a change of a list leaves of it.                                     *)

\* y comes after x.
Follows(s, x, y) == \E i, j \in 1..Len(s) : s[i] = x /\ s[j] = y /\ i < j

\* t still has what was in s, in the same order, up to the nodes in R.
Keeps(s, t, R) ==
    /\ \A x \in Range(s) : x \notin R => x \in Range(t)
    /\ \A x, y : x \notin R /\ y \notin R /\ Follows(s, x, y) => Follows(t, x, y)

\* Positions that move, but stay in order, keep the order of what they hold.
LEMMA MovedLemma ==
    ASSUME NEW N, NEW s \in Seq(N), NEW t \in Seq(N), NEW R,
           NEW g \in [1..Len(s) -> Int],
           \A i \in 1..Len(s) : s[i] \notin R => g[i] \in 1..Len(t) /\ t[g[i]] = s[i],
           \A i, j \in 1..Len(s) : s[i] \notin R /\ s[j] \notin R /\ i < j => g[i] < g[j]
    PROVE  Keeps(s, t, R)
<1>1. /\ \A x : x \in Range(s) <=> \E i \in 1..Len(s) : s[i] = x
      /\ \A x : x \in Range(t) <=> \E i \in 1..Len(t) : t[i] = x
  BY RangeLemma
<1>2. ASSUME NEW x, NEW y, x \notin R, y \notin R, Follows(s, x, y)
      PROVE  Follows(t, x, y)
  <2>1. PICK i, j \in 1..Len(s) : s[i] = x /\ s[j] = y /\ i < j
    BY <1>2 DEF Follows
  <2>2. /\ g[i] \in 1..Len(t) /\ t[g[i]] = x /\ g[j] \in 1..Len(t) /\ t[g[j]] = y
        /\ g[i] < g[j]
    BY <2>1, <1>2
  <2> QED
    BY <2>2 DEF Follows
<1> QED
  BY <1>1, <1>2 DEF Keeps

LEMMA KeepsTwice ==
    ASSUME NEW s, NEW t, NEW u, NEW R, Keeps(s, t, R), Keeps(t, u, {})
    PROVE  Keeps(s, u, R)
BY DEF Keeps

LEMMA WithoutLemma ==
    ASSUME NEW N, NEW s \in Seq(N), IsInjective(s), NEW R, NEW o, o = Without(s, R)
    PROVE  /\ o \in Seq(N) /\ IsInjective(o)
           /\ Range(o) = Range(s) \ R
           /\ Keeps(s, o, R)
           /\ \A x, y : Follows(o, x, y) => Follows(s, x, y)
<1> DEFINE S == Range(s) \ R
<1>1. o = Only(s, S)
  BY DEF Without
<1> HIDE DEF S
<1>2. o \in Seq(N)
  BY <1>1, OnlyLemma
<1>3. PICK f \in [1..Len(o) -> 1..Len(s)] :
        /\ \A k \in 1..Len(o) : o[k] = s[f[k]] /\ s[f[k]] \in S
        /\ \A k, l \in 1..Len(o) : k < l => f[k] < f[l]
        /\ \A i \in 1..Len(s) : s[i] \in S => \E k \in 1..Len(o) : f[k] = i
  BY <1>1, OnlyLemma, SMTT(30)
<1>4. /\ DOMAIN s = 1..Len(s) /\ Len(s) \in Nat
      /\ \A x : x \in Range(s) <=> \E i \in 1..Len(s) : s[i] = x
      /\ \A i, j \in 1..Len(s) : s[i] = s[j] => i = j
      /\ \A x : x \in S <=> x \in Range(s) /\ x \notin R
  BY RangeLemma DEF IsInjective, S
<1>5. /\ DOMAIN o = 1..Len(o) /\ Len(o) \in Nat
      /\ \A x : x \in Range(o) <=> \E i \in 1..Len(o) : o[i] = x
  BY <1>2, RangeLemma
<1>6. IsInjective(o)
  <2>1. ASSUME NEW k \in 1..Len(o), NEW l \in 1..Len(o), o[k] = o[l]
        PROVE  k = l
    <3>1. f[k] \in 1..Len(s) /\ f[l] \in 1..Len(s) /\ s[f[k]] = s[f[l]]
      BY <2>1, <1>3
    <3>2. f[k] = f[l]
      BY <3>1, <1>4
    <3>3. ~(f[k] < f[l]) /\ ~(f[l] < f[k])
      BY <3>1, <3>2, <1>4
    <3>4. ~(k < l) /\ ~(l < k)
      BY <3>3, <1>3
    <3> QED
      BY <3>4, <1>5
  <2> QED
    BY <2>1, <1>5 DEF IsInjective
<1>7. Range(o) = Range(s) \ R
  <2>1. ASSUME NEW x \in Range(o)
        PROVE  x \in S
    BY <1>3, <1>5
  <2>2. ASSUME NEW x \in S
        PROVE  x \in Range(o)
    <3>1. PICK i \in 1..Len(s) : s[i] = x
      BY <1>4
    <3>2. PICK k \in 1..Len(o) : f[k] = i
      BY <3>1, <1>3
    <3> QED
      BY <3>1, <3>2, <1>3, <1>5
  <2> QED
    BY <2>1, <2>2 DEF S
<1>8. Keeps(s, o, R)
  <2>1. \A x \in Range(s) : x \notin R => x \in Range(o)
    BY <1>7
  <2>2. ASSUME NEW x, NEW y, x \notin R, y \notin R, Follows(s, x, y)
        PROVE  Follows(o, x, y)
    <3>1. PICK i, j \in 1..Len(s) : s[i] = x /\ s[j] = y /\ i < j
      BY <2>2 DEF Follows
    <3>2. PICK k \in 1..Len(o) : f[k] = i
      BY <3>1, <2>2, <1>3, <1>4
    <3>3. PICK l \in 1..Len(o) : f[l] = j
      BY <3>1, <2>2, <1>3, <1>4
    <3>4. o[k] = x /\ o[l] = y
      BY <3>1, <3>2, <3>3, <1>3
    <3>5. ~(l < k) /\ l # k
      BY <3>1, <3>2, <3>3, <1>3, <1>4
    <3>6. k < l
      BY <3>5, <1>5
    <3> QED
      BY <3>4, <3>6 DEF Follows
  <2> QED
    BY <2>1, <2>2 DEF Keeps
<1>9. ASSUME NEW x, NEW y, Follows(o, x, y)
      PROVE  Follows(s, x, y)
  <2>1. PICK k, l \in 1..Len(o) : o[k] = x /\ o[l] = y /\ k < l
    BY <1>9 DEF Follows
  <2>2. f[k] \in 1..Len(s) /\ f[l] \in 1..Len(s) /\ s[f[k]] = x /\ s[f[l]] = y /\ f[k] < f[l]
    BY <2>1, <1>3
  <2> QED
    BY <2>2 DEF Follows
<1> QED
  BY <1>2, <1>6, <1>7, <1>8, <1>9

\* One more element at position p.
LEMMA InsertLemma ==
    ASSUME NEW N, NEW s \in Seq(N), NEW a \in N, NEW p \in 1..Len(s) + 1,
           NEW t, t = InsertAt(s, p, a)
    PROVE  /\ t \in Seq(N) /\ Len(t) = Len(s) + 1
           /\ t[p] = a
           /\ \A i \in 1..Len(s) : i < p => t[i] = s[i]
           /\ \A i \in 1..Len(s) : i >= p => t[i + 1] = s[i]
<1>1. DOMAIN s = 1..Len(s) /\ Len(s) \in Nat /\ \A i \in 1..Len(s) : s[i] \in N
  BY RangeLemma
<1> DEFINE u == SubSeq(s, 1, p - 1)
           v == SubSeq(s, p, Len(s))
<1>2. u \in Seq(N) /\ Len(u) = p - 1 /\ \A i \in 1..p - 1 : u[i] = s[i]
  <2>1. 1 \in Int /\ p - 1 \in Int /\ \A i \in 1..p - 1 : s[i] \in N
    BY <1>1
  <2> QED
    BY <2>1, <1>1, SubSeqProperties
<1>3. v \in Seq(N) /\ Len(v) = Len(s) - p + 1 /\ \A i \in 1..Len(s) - p + 1 : v[i] = s[p + i - 1]
  <2>1. p \in Int /\ Len(s) \in Int /\ \A i \in p..Len(s) : s[i] \in N
    BY <1>1
  <2>2. /\ v \in Seq(N)
        /\ Len(v) = IF p <= Len(s) THEN Len(s) - p + 1 ELSE 0
        /\ \A i \in 1..Len(s) - p + 1 : v[i] = s[p + i - 1]
    BY <2>1, SubSeqProperties
  <2> HIDE DEF v
  <2> QED
    BY <1>1, <2>2
<1>4. t = (u \o <<a>>) \o v
  BY DEF InsertAt
<1> HIDE DEF u, v
<1> DEFINE w == Append(u, a)
<1>5. u \o <<a>> = w
  BY <1>2, AppendIsConcat
<1>6. /\ w \in Seq(N) /\ Len(w) = p /\ w[p] = a
      /\ \A i \in 1..p - 1 : w[i] = s[i]
  <2>1. /\ w \in Seq(N) /\ Len(w) = Len(u) + 1 /\ w[Len(u) + 1] = a
        /\ \A i \in 1..Len(u) : w[i] = u[i]
    BY <1>2, AppendProperties
  <2> HIDE DEF w
  <2> QED
    BY <2>1, <1>1, <1>2
<1> HIDE DEF w
<1>7. /\ t \in Seq(N) /\ Len(t) = Len(w) + Len(v)
      /\ \A i \in 1..Len(w) + Len(v) : t[i] = IF i <= Len(w) THEN w[i] ELSE v[i - Len(w)]
  <2>1. /\ w \o v \in Seq(N) /\ Len(w \o v) = Len(w) + Len(v)
        /\ \A i \in 1..Len(w) + Len(v) :
                (w \o v)[i] = IF i <= Len(w) THEN w[i] ELSE v[i - Len(w)]
    <3>1. w \in Seq(N) /\ v \in Seq(N)
      BY <1>3, <1>6
    <3> QED
      BY <3>1, ConcatProperties
  <2>2. t = w \o v
    BY <1>4, <1>5
  <2> QED
    BY <2>1, <2>2
<1>8. Len(t) = Len(s) + 1
  BY <1>1, <1>3, <1>6, <1>7
<1>9. \A i \in 1..Len(s) + 1 : t[i] = IF i <= p THEN w[i] ELSE v[i - p]
  BY <1>1, <1>3, <1>6, <1>7
<1>10. t[p] = a
  BY <1>1, <1>6, <1>9
<1>11. ASSUME NEW i \in 1..Len(s), i < p
       PROVE  t[i] = s[i]
  BY <1>1, <1>6, <1>9, <1>11
<1>12. ASSUME NEW i \in 1..Len(s), i >= p
       PROVE  t[i + 1] = s[i]
  <2>1. i + 1 \in 1..Len(s) + 1 /\ ~(i + 1 <= p) /\ i + 1 - p \in 1..Len(s) - p + 1
        /\ p + (i + 1 - p) - 1 = i
    BY <1>1, <1>12
  <2>2. t[i + 1] = v[i + 1 - p]
    BY <2>1, <1>9
  <2>3. v[i + 1 - p] = s[i]
    BY <2>1, <1>3
  <2> QED
    BY <2>2, <2>3
<1> QED
  BY <1>7, <1>8, <1>10, <1>11, <1>12

\* A set that goes on from 1 without a gap ends at its cardinality.
LEMMA PrefixLemma ==
    ASSUME NEW m \in Nat, NEW D \in SUBSET (1..m),
           \A i \in D : \A j \in 1..m : j < i => j \in D
    PROVE  Cardinality(D) \in 0..m /\ D = 1..Cardinality(D)
<1>1. IsFiniteSet(1..m) /\ Cardinality(1..m) = m
  BY FS_Interval
<1>2. IsFiniteSet(D) /\ Cardinality(D) <= m
  BY <1>1, FS_Subset
<1>3. PICK c \in Nat : c = Cardinality(D) /\ c <= m
  BY <1>2, FS_CardinalityType
<1>4. ASSUME NEW i \in D
      PROVE  i \in 1..c
  <2>1. i \in 1..m /\ i \in Nat
    OBVIOUS
  <2>2. 1..i \in SUBSET D
    BY <2>1
  <2>3. Cardinality(1..i) <= Cardinality(D) /\ Cardinality(1..i) = i
    <3>1. Cardinality(1..i) <= Cardinality(D)
      BY <2>2, <1>2, FS_Subset
    <3>2. Cardinality(1..i) = i
      BY <2>1, FS_Interval
    <3> QED
      BY <3>1, <3>2
  <2> QED
    BY <2>1, <2>3, <1>3
<1>5. D \in SUBSET (1..c)
  BY <1>4
<1>6. IsFiniteSet(1..c) /\ Cardinality(1..c) = c
  BY FS_Interval
<1>7. D = 1..c
  BY <1>3, <1>5, <1>6, FS_Subset
<1> QED
  BY <1>3, <1>7

-----------------------------------------------------------------------------
(* The sorted list of triggers.                                              *)

\* The list s is sorted by the patterns in heap, and has no pattern twice.
Rising(s, heap) == \A x, y : Follows(s, x, y) => heap[x].left < heap[y].left

LEMMA LeftLemma ==
    ASSUME NEW heap \in [Node -> Listnode]
    PROVE  \A x \in Node : heap[x].left \in Nat /\ heap[x].left \in Left
BY ActionsAssumption DEF Listnode

\* insertnode_list() finds the place between the smaller and the larger.
LEMMA PlaceLemma ==
    ASSUME NEW s \in Seq(Node), node \in [Node -> Listnode], Rising(s, node),
           NEW left \in Left, \A x \in Range(s) : node[x].left # left,
           NEW p, p = Cardinality(Smaller(s, left)) + 1
    PROVE  /\ p \in 1..Len(s) + 1
           /\ \A i \in 1..Len(s) : i < p => node[s[i]].left < left
           /\ \A i \in 1..Len(s) : i >= p => left < node[s[i]].left
<1> DEFINE D == Smaller(s, left)
<1>1. /\ DOMAIN s = 1..Len(s) /\ Len(s) \in Nat /\ left \in Nat
      /\ \A i \in 1..Len(s) : s[i] \in Range(s) /\ node[s[i]].left \in Nat
  <2>1. DOMAIN s = 1..Len(s) /\ Len(s) \in Nat
        /\ \A i \in 1..Len(s) : s[i] \in Node /\ s[i] \in Range(s)
    BY RangeLemma
  <2> QED
    BY <2>1, LeftLemma, ActionsAssumption
<1>2. /\ D \in SUBSET (1..Len(s))
      /\ \A i \in 1..Len(s) : i \in D <=> node[s[i]].left < left
  BY <1>1 DEF Smaller
<1> HIDE DEF D
<1>3. ASSUME NEW i \in D, NEW j \in 1..Len(s), j < i
      PROVE  j \in D
  <2>1. i \in 1..Len(s) /\ Follows(s, s[j], s[i])
    BY <1>2, <1>3 DEF Follows
  <2>2. node[s[j]].left < node[s[i]].left /\ node[s[i]].left < left
    BY <2>1, <1>2 DEF Rising
  <2> QED
    BY <2>1, <2>2, <1>1, <1>2
<1>4. PICK c \in 0..Len(s) : c = Cardinality(D) /\ D = 1..c
  BY <1>1, <1>2, <1>3, PrefixLemma
<1>5. p = c + 1
  BY <1>4 DEF D
<1>6. ASSUME NEW i \in 1..Len(s), i >= p
      PROVE  left < node[s[i]].left
  <2>1. i \notin D
    <3>1. i \notin 1..c
      BY <1>5, <1>6
    <3>2. D = 1..c
      BY <1>4
    <3> QED
      BY <3>1, <3>2
  <2>2. ~(node[s[i]].left < left) /\ node[s[i]].left # left
    BY <2>1, <1>1, <1>2
  <2> QED
    BY <2>2, <1>1
<1>7. ASSUME NEW i \in 1..Len(s), i < p
      PROVE  node[s[i]].left < left
  <2>1. i \in D
    <3>1. i \in 1..c
      BY <1>5, <1>7
    <3> QED
      BY <3>1, <1>4
  <2> QED
    BY <2>1, <1>2
<1> QED
  BY <1>1, <1>4, <1>5, <1>6, <1>7

LEMMA InsertedLemma ==
    ASSUME NEW s \in Seq(Node), IsInjective(s),
           node \in [Node -> Listnode], Rising(s, node),
           NEW left \in Left, \A x \in Range(s) : node[x].left # left,
           NEW a \in Node, a \notin Range(s),
           NEW heap, heap[a].left = left,
           \A x \in Range(s) : heap[x].left = node[x].left,
           NEW t, t = Inserted(s, a, left)
    PROVE  /\ t \in Seq(Node) /\ IsInjective(t)
           /\ Range(t) = Range(s) \cup {a}
           /\ Keeps(s, t, {})
           /\ Rising(t, heap)
<1> DEFINE p == Cardinality(Smaller(s, left)) + 1
<1>1. t = InsertAt(s, p, a)
  BY DEF Inserted
<1>2. /\ p \in 1..Len(s) + 1
      /\ \A i \in 1..Len(s) : i < p => node[s[i]].left < left
      /\ \A i \in 1..Len(s) : i >= p => left < node[s[i]].left
  BY PlaceLemma
<1> HIDE DEF p
<1>3. /\ DOMAIN s = 1..Len(s) /\ Len(s) \in Nat
      /\ \A x : x \in Range(s) <=> \E i \in 1..Len(s) : s[i] = x
      /\ \A i \in 1..Len(s) : s[i] \in Range(s)
      /\ \A i, j \in 1..Len(s) : s[i] = s[j] => i = j
  BY RangeLemma DEF IsInjective
<1>4. /\ t \in Seq(Node) /\ Len(t) = Len(s) + 1
      /\ t[p] = a
      /\ \A i \in 1..Len(s) : i < p => t[i] = s[i]
      /\ \A i \in 1..Len(s) : i >= p => t[i + 1] = s[i]
  BY <1>1, <1>2, InsertLemma
<1>5. /\ DOMAIN t = 1..Len(s) + 1
      /\ \A x : x \in Range(t) <=> \E i \in 1..Len(s) + 1 : t[i] = x
  BY <1>4, RangeLemma
\* Where each position of t comes from.
<1>6. ASSUME NEW i \in 1..Len(s) + 1
      PROVE  \/ i < p /\ i \in 1..Len(s) /\ t[i] = s[i]
             \/ i = p
             \/ i > p /\ i - 1 \in 1..Len(s) /\ t[i] = s[i - 1]
  <2>1. CASE i < p
    BY <2>1, <1>2, <1>3, <1>4
  <2>2. CASE i > p
    <3>1. i - 1 \in 1..Len(s) /\ i - 1 >= p /\ i - 1 + 1 = i
      BY <2>2, <1>2, <1>3
    <3> QED
      BY <3>1, <2>2, <1>4
  <2> QED
    BY <2>1, <2>2, <1>2, <1>3
<1>7. Range(t) = Range(s) \cup {a}
  <2>1. ASSUME NEW x \in Range(t)
        PROVE  x \in Range(s) \cup {a}
    <3>1. PICK i \in 1..Len(s) + 1 : t[i] = x
      BY <1>5
    <3> QED
      BY <3>1, <1>3, <1>4, <1>6
  <2>2. ASSUME NEW x \in Range(s)
        PROVE  x \in Range(t)
    <3>1. PICK i \in 1..Len(s) : s[i] = x
      BY <1>3
    <3>2. i \in 1..Len(s) + 1 /\ i + 1 \in 1..Len(s) + 1
      BY <1>3
    <3>3. i < p \/ i >= p
      BY <1>2
    <3> QED
      BY <3>1, <3>2, <3>3, <1>4, <1>5
  <2>3. a \in Range(t)
    BY <1>2, <1>4, <1>5
  <2> QED
    BY <2>1, <2>2, <2>3
\* Two positions of t, in their order, hold what is in that order in s, or a.
<1>8. ASSUME NEW i \in 1..Len(s) + 1, NEW j \in 1..Len(s) + 1, i < j
      PROVE  /\ t[i] # t[j]
             /\ heap[t[i]].left < heap[t[j]].left
  <2>1. \A k, l \in 1..Len(s) : k < l =>
            s[k] # s[l] /\ heap[s[k]].left < heap[s[l]].left
    <3>1. \A k, l \in 1..Len(s) : k < l => Follows(s, s[k], s[l]) /\ s[k] # s[l]
      BY <1>3 DEF Follows
    <3> QED
      BY <3>1, <1>3 DEF Rising
  <2>2. \A k \in 1..Len(s) :
            /\ s[k] # a
            /\ k < p => heap[s[k]].left < left
            /\ k >= p => left < heap[s[k]].left
    BY <1>2, <1>3
  <2>3. CASE j < p
    <3>1. i \in 1..Len(s) /\ j \in 1..Len(s) /\ t[i] = s[i] /\ t[j] = s[j]
      BY <2>3, <1>6, <1>8, <1>2, <1>3
    <3> QED
      BY <3>1, <2>1, <1>8
  <2>4. CASE j = p
    <3>1. i \in 1..Len(s) /\ t[i] = s[i] /\ t[j] = a /\ i < p
      BY <2>4, <1>6, <1>8, <1>2, <1>3, <1>4
    <3> QED
      BY <3>1, <2>2
  <2>5. CASE j > p /\ i = p
    <3>1. j - 1 \in 1..Len(s) /\ t[j] = s[j - 1] /\ t[i] = a /\ j - 1 >= p
      BY <2>5, <1>6, <1>8, <1>2, <1>3, <1>4
    <3> QED
      BY <3>1, <2>2
  <2>6. CASE j > p /\ i < p
    <3>1. /\ j - 1 \in 1..Len(s) /\ t[j] = s[j - 1]
          /\ i \in 1..Len(s) /\ t[i] = s[i] /\ i < j - 1
      BY <2>6, <1>6, <1>2, <1>3
    <3> QED
      BY <3>1, <2>1
  <2>7. CASE j > p /\ i > p
    <3>1. /\ j - 1 \in 1..Len(s) /\ t[j] = s[j - 1]
          /\ i - 1 \in 1..Len(s) /\ t[i] = s[i - 1] /\ i - 1 < j - 1
      BY <2>7, <1>6, <1>8, <1>2, <1>3
    <3> QED
      BY <3>1, <2>1
  <2> QED
    BY <2>3, <2>4, <2>5, <2>6, <2>7, <1>2
<1>9. IsInjective(t)
  <2>1. \A i, j \in 1..Len(s) + 1 : i < j \/ j < i \/ i = j
    BY <1>3
  <2> QED
    BY <2>1, <1>5, <1>8 DEF IsInjective
<1>10. Rising(t, heap)
  BY <1>4, <1>8 DEF Rising, Follows
<1>11. Keeps(s, t, {})
  <2> DEFINE g == [i \in 1..Len(s) |-> IF i < p THEN i ELSE i + 1]
  <2>1. g \in [1..Len(s) -> Int]
    BY <1>3
  <2>2. \A i \in 1..Len(s) : g[i] \in 1..Len(t) /\ t[g[i]] = s[i]
    BY <1>2, <1>3, <1>4
  <2>3. \A i, j \in 1..Len(s) : i < j => g[i] < g[j]
    BY <1>2, <1>3
  <2> HIDE DEF g
  <2> QED
    BY <2>1, <2>2, <2>3, <1>4, MovedLemma
<1> QED
  BY <1>4, <1>7, <1>9, <1>10, <1>11

LEMMA BlankLemma == Blank \in Listnode
<1>1. Listnode # {}
  <2>1. PICK l \in Left, b \in Body : TRUE
    BY ActionsAssumption
  <2>2. [left |-> l, right |-> b, pr |-> SCRIPTING, enabled |-> TRUE] \in Listnode
    BY ActionsAssumption DEF Listnode
  <2> QED
    BY <2>2
<1> QED
  BY <1>1 DEF Blank

\* A list whose order is not disturbed stays sorted.
LEMMA RisingLemma ==
    ASSUME NEW s, NEW t, NEW heap, NEW other, Rising(s, heap),
           \A x, y : Follows(t, x, y) =>
               Follows(s, x, y) /\ other[x].left = heap[x].left /\ other[y].left = heap[y].left
    PROVE  Rising(t, other)
BY DEF Rising

LEMMA UnusedLemma ==
    ASSUME node \in [Node -> Listnode], NEW S, NEW heap, heap = Unused(S)
    PROVE  /\ heap \in [Node -> Listnode]
           /\ \A x \in Node : x \notin S => heap[x] = node[x]
BY BlankLemma DEF Unused

\* What follows what in a list is in the list.
LEMMA FollowsLemma ==
    ASSUME NEW N, NEW s \in Seq(N), NEW x, NEW y, Follows(s, x, y)
    PROVE  x \in Range(s) /\ y \in Range(s) /\ x \in N /\ y \in N
BY RangeLemma DEF Follows

LEMMA DefineLemma ==
    ASSUME ActionsTypeOK, Rising(actions, node),
           NEW left \in Left, NEW right \in Body, NEW class \in Class,
           Define(left, right, class, Same(left))
    PROVE  /\ actions' \in Seq(Node) /\ IsInjective(actions')
           /\ node' \in [Node -> Listnode]
           /\ enabled' \in [Class -> {"on", "off", "none"}]
           /\ Rising(actions', node')
           /\ Keeps(actions, actions', Same(left))
<1> DEFINE w == Without(actions, Same(left))
           rec == [left |-> left, right |-> right, pr |-> class, enabled |-> TRUE]
           used == Unused(Same(left))
<1>1. /\ actions \in Seq(Node) /\ IsInjective(actions) /\ node \in [Node -> Listnode]
      /\ enabled \in [Class -> {"on", "off", "none"}]
  BY DEF ActionsTypeOK
<1>2. PICK a \in Node \ Range(w) :
        /\ actions' = Inserted(w, a, left)
        /\ node' = [used EXCEPT ![a] = rec]
  BY DEF Define
<1>3. /\ w \in Seq(Node) /\ IsInjective(w)
      /\ Range(w) = Range(actions) \ Same(left)
      /\ Keeps(actions, w, Same(left))
      /\ \A x, y : Follows(w, x, y) => Follows(actions, x, y)
  BY <1>1, WithoutLemma
<1>4. rec \in Listnode /\ rec.left = left
  BY DEF Listnode
<1>5. /\ used \in [Node -> Listnode]
      /\ \A x \in Node : x \notin Same(left) => used[x] = node[x]
  BY <1>1, UnusedLemma
<1> HIDE DEF w, rec, used
<1>6. /\ node' \in [Node -> Listnode]
      /\ node'[a].left = left
      /\ \A x \in Range(w) : node'[x].left = node[x].left
  <2>1. \A x \in Range(w) : x \in Node /\ x \notin Same(left) /\ x # a
    BY <1>2, <1>3, RangeLemma
  <2> QED
    BY <2>1, <1>2, <1>4, <1>5
<1>7. \A x \in Range(w) : node[x].left # left
  BY <1>3 DEF Same
<1>8. Rising(w, node)
  BY <1>3, RisingLemma
<1>9. PICK heap : heap = node'
  OBVIOUS
<1>10. PICK t : t = Inserted(w, a, left)
  OBVIOUS
<1>11. heap[a].left = left /\ \A x \in Range(w) : heap[x].left = node[x].left
  BY <1>6, <1>9
<1>12. /\ t \in Seq(Node) /\ IsInjective(t)
       /\ Keeps(w, t, {})
       /\ Rising(t, heap)
  BY <1>1, <1>2, <1>3, <1>7, <1>8, <1>10, <1>11, InsertedLemma
<1>13. Keeps(actions, t, Same(left))
  BY <1>3, <1>12, KeepsTwice
<1>14. enabled' \in [Class -> {"on", "off", "none"}]
  BY <1>1 DEF Define
<1>15. actions' = t
  BY <1>2, <1>10
<1> QED
  BY <1>6, <1>9, <1>12, <1>13, <1>14, <1>15

LEMMA UndefineLemma ==
    ASSUME ActionsTypeOK, Rising(actions, node), NEW gone, Undefine(gone)
    PROVE  /\ actions' \in Seq(Node) /\ IsInjective(actions')
           /\ node' \in [Node -> Listnode]
           /\ enabled' \in [Class -> {"on", "off", "none"}]
           /\ Rising(actions', node')
           /\ Keeps(actions, actions', gone)
           /\ Range(actions') = Range(actions) \ gone
           /\ \A x \in Node : x \notin gone => node'[x] = node[x]
<1>1. /\ actions \in Seq(Node) /\ IsInjective(actions) /\ node \in [Node -> Listnode]
      /\ enabled \in [Class -> {"on", "off", "none"}]
  BY DEF ActionsTypeOK
<1>2. PICK t, heap : t = Without(actions, gone) /\ heap = Unused(gone)
  OBVIOUS
<1>3. actions' = t /\ node' = heap /\ enabled' = enabled
  BY <1>2 DEF Undefine
<1>4. /\ t \in Seq(Node) /\ IsInjective(t)
      /\ Range(t) = Range(actions) \ gone
      /\ Keeps(actions, t, gone)
      /\ \A x, y : Follows(t, x, y) => Follows(actions, x, y)
  BY <1>1, <1>2, WithoutLemma
<1>5. /\ heap \in [Node -> Listnode]
      /\ \A x \in Node : x \notin gone => heap[x] = node[x]
  BY <1>1, <1>2, UnusedLemma
<1>6. Rising(t, heap)
  <2>1. ASSUME NEW x, NEW y, Follows(t, x, y)
        PROVE  heap[x].left = node[x].left /\ heap[y].left = node[y].left
    <3>1. x \in Range(t) /\ y \in Range(t) /\ x \in Node /\ y \in Node
      BY <2>1, <1>4, FollowsLemma
    <3> QED
      BY <3>1, <1>4, <1>5
  <2> QED
    BY <2>1, <1>4, RisingLemma
<1> QED
  BY <1>1, <1>3, <1>4, <1>5, <1>6

LEMMA EnableClassLemma ==
    ASSUME ActionsTypeOK, Rising(actions, node),
           NEW class \in Class, NEW on \in BOOLEAN, EnableClass(class, on)
    PROVE  /\ actions' = actions
           /\ node' \in [Node -> Listnode]
           /\ enabled' \in [Class -> {"on", "off", "none"}]
           /\ Rising(actions', node')
<1>1. /\ actions \in Seq(Node) /\ node \in [Node -> Listnode]
      /\ enabled \in [Class -> {"on", "off", "none"}]
  BY DEF ActionsTypeOK
<1>2. \A r \in Listnode : /\ [r EXCEPT !.enabled = on] \in Listnode
                          /\ [r EXCEPT !.enabled = on].left = r.left
  BY DEF Listnode
<1>3. /\ actions' = actions
      /\ node' = [a \in Node |->
                    IF a \in OfClass(class) THEN [node[a] EXCEPT !.enabled = on] ELSE node[a]]
      /\ enabled' = [enabled EXCEPT ![class] =
                        IF @ = "none" THEN @ ELSE IF on THEN "on" ELSE "off"]
  BY DEF EnableClass
<1>4. node' \in [Node -> Listnode] /\ \A x \in Node : node'[x].left = node[x].left
  <2>1. ASSUME NEW x \in Node
        PROVE  node'[x] \in Listnode /\ node'[x].left = node[x].left
    <3>1. node[x] \in Listnode
      BY <1>1
    <3>2. CASE x \in OfClass(class)
      BY <3>1, <3>2, <1>2, <1>3
    <3>3. CASE x \notin OfClass(class)
      BY <3>1, <3>3, <1>3
    <3> QED
      BY <3>2, <3>3
  <2> QED
    BY <2>1, <1>3
<1>5. enabled' \in [Class -> {"on", "off", "none"}]
  BY <1>1, <1>3
<1>6. PICK heap : heap = node'
  OBVIOUS
<1>7. Rising(actions, heap)
  <2>1. \A x, y : Follows(actions, x, y) => x \in Node /\ y \in Node
    BY <1>1, FollowsLemma
  <2> QED
    BY <2>1, <1>4, <1>6, RisingLemma
<1> QED
  BY <1>3, <1>4, <1>5, <1>6, <1>7

-----------------------------------------------------------------------------
(* The rows of the window.                                                   *)

\* A sorted list is determined by what is in it.
LEMMA SortedLemma ==
    ASSUME NEW s \in Seq(Node), NEW t \in Seq(Node), NEW heap \in [Node -> Listnode],
           Rising(s, heap), Rising(t, heap), Range(s) = Range(t), Len(s) <= Len(t)
    PROVE  s = t
<1>1. /\ DOMAIN s = 1..Len(s) /\ Len(s) \in Nat
      /\ \A x : x \in Range(s) <=> \E i \in 1..Len(s) : s[i] = x
      /\ DOMAIN t = 1..Len(t) /\ Len(t) \in Nat
      /\ \A x : x \in Range(t) <=> \E i \in 1..Len(t) : t[i] = x
      /\ \A i \in 1..Len(s) : s[i] \in Node
      /\ \A i \in 1..Len(t) : t[i] \in Node
  BY RangeLemma
<1>0. Len(s) \in Nat /\ Len(t) \in Nat /\ Len(s) <= Len(t)
  BY <1>1
<1> DEFINE key(x) == heap[x].left
<1>2. /\ \A i, j \in 1..Len(s) : i < j => key(s[i]) < key(s[j])
      /\ \A i, j \in 1..Len(t) : i < j => key(t[i]) < key(t[j])
  BY DEF Rising, Follows
<1>3. /\ \A i \in 1..Len(s) : key(s[i]) \in Nat
      /\ \A i \in 1..Len(t) : key(t[i]) \in Nat
  BY <1>1, LeftLemma
<1> DEFINE D == {k \in 1..Len(s) : \A j \in 1..k : s[j] = t[j]}
<1>4. D \in SUBSET (1..Len(s)) /\ \A k \in D : \A j \in 1..Len(s) : j < k => j \in D
  BY <1>1
<1>5. PICK c \in 0..Len(s) : D = 1..c
  BY <1>1, <1>4, PrefixLemma
<1>6. \A j \in 1..c : s[j] = t[j]
  <2>1. \A j \in 1..c : j \in D /\ j \in 1..j
    BY <1>5
  <2> QED
    BY <2>1
<1>7. c = Len(s)
  <2> SUFFICES ASSUME c < Len(s)
               PROVE  FALSE
    BY <1>0
  <2> DEFINE k == c + 1
  <2>1. k \in 1..Len(s) /\ k \in 1..Len(t) /\ k \notin D
    <3>1. k \in 1..Len(s) /\ k \in 1..Len(t) /\ k \notin 1..c
      BY <1>0
    <3> QED
      BY <3>1, <1>5
  <2>2. s[k] # t[k]
    <3>1. \A j \in 1..k : j \in 1..c \/ j = k
      OBVIOUS
    <3> QED
      BY <3>1, <2>1, <1>6
  <2> HIDE DEF D
  <2>3. PICK l \in 1..Len(t) : t[l] = s[k]
    BY <2>1, <1>1
  <2>4. PICK m \in 1..Len(s) : s[m] = t[k]
    BY <2>1, <1>1
  <2>5. l > k
    <3>1. CASE l \in 1..c
      <4>1. l \in 1..Len(s) /\ l < k /\ s[l] = s[k]
        BY <3>1, <2>3, <1>1, <1>6
      <4> QED
        BY <4>1, <2>1, <1>2, <1>3
    <3>2. l # k
      BY <2>2, <2>3
    <3> QED
      BY <3>1, <3>2, <2>1
  <2>6. m > k
    <3>1. CASE m \in 1..c
      <4>1. m \in 1..Len(t) /\ m < k /\ t[m] = t[k]
        BY <3>1, <2>4, <1>1, <1>6
      <4> QED
        BY <4>1, <2>1, <1>2, <1>3
    <3>2. m # k
      BY <2>2, <2>4
    <3> QED
      BY <3>1, <3>2, <2>1
  <2> HIDE DEF k
  <2>7. key(t[k]) < key(s[k]) /\ key(s[k]) < key(t[k])
    <3>1. key(t[k]) < key(t[l])
      BY <2>1, <2>5, <1>2
    <3>2. key(s[k]) < key(s[m])
      BY <2>1, <2>6, <1>2
    <3> QED
      BY <3>1, <3>2, <2>3, <2>4
  <2> QED
    BY <2>1, <2>7, <1>3
<1>8. Len(t) = Len(s)
  <2> SUFFICES ASSUME Len(s) < Len(t)
               PROVE  FALSE
    BY <1>0
  <2> DEFINE k == Len(s) + 1
  <2>1. k \in 1..Len(t)
    BY <1>1
  <2>2. PICK m \in 1..Len(s) : s[m] = t[k]
    BY <2>1, <1>1
  <2>3. m \in 1..Len(t) /\ m < k /\ t[m] = t[k]
    BY <2>2, <1>1, <1>6, <1>7
  <2> QED
    BY <2>1, <2>3, <1>2, <1>3
<1>9. \A j \in 1..Len(s) : s[j] = t[j]
  BY <1>6, <1>7
<1> QED
  BY <1>8, <1>9, SeqEqual

\* The nodes of the list that the window shows.
Shown(list, heap) == {a \in Range(list) : heap[a].pr # SCRIPTING}
RowOf(a, heap) == [left |-> heap[a].left, data |-> a, pixmap |-> heap[a].enabled]

\* The nodes of the rows, in their order.
NodesShown(list, heap) == Only(list, Shown(list, heap))

LEMMA FilledLemma ==
    ASSUME NEW list \in Seq(Node), IsInjective(list), NEW heap \in [Node -> Listnode],
           NEW o, o = NodesShown(list, heap), NEW r, r = Filled(list, heap)
    PROVE  /\ o \in Seq(Node) /\ IsInjective(o)
           /\ Range(o) = Shown(list, heap)
           /\ \A x, y : Follows(o, x, y) => Follows(list, x, y)
           /\ r \in Seq(Row) /\ Len(r) = Len(o)
           /\ \A i \in 1..Len(o) : r[i] = RowOf(o[i], heap)
           /\ r = [i \in 1..Len(o) |-> RowOf(o[i], heap)]
<1> DEFINE R == Range(list) \ Shown(list, heap)
<1>1. Range(list) \ R = Shown(list, heap)
  BY DEF Shown
<1>2. o = Without(list, R)
  BY <1>1 DEF Without, NodesShown
<1> HIDE DEF R
<1>3. /\ o \in Seq(Node) /\ IsInjective(o)
      /\ Range(o) = Shown(list, heap)
      /\ \A x, y : Follows(o, x, y) => Follows(list, x, y)
  BY <1>1, <1>2, WithoutLemma, ZenonT(30)
<1>4. /\ DOMAIN o = 1..Len(o) /\ Len(o) \in Nat
      /\ \A i \in 1..Len(o) : o[i] \in Node
  BY <1>3, RangeLemma
<1>5. r = [i \in 1..Len(o) |-> RowOf(o[i], heap)]
  BY <1>4 DEF Filled, NodesShown, Shown, RowOf
<1>6. \A i \in 1..Len(o) : RowOf(o[i], heap) \in Row
  <2>1. ASSUME NEW a \in Node
        PROVE  RowOf(a, heap) \in Row
    <3>1. heap[a].left \in Left /\ heap[a].enabled \in BOOLEAN
      BY DEF Listnode
    <3> QED
      BY <3>1 DEF RowOf, Row
  <2> QED
    BY <2>1, <1>4
<1>7. r \in Seq(Row) /\ Len(r) = Len(o)
  BY <1>4, <1>5, <1>6, IsASeq, LenProperties
<1> QED
  BY <1>3, <1>5, <1>7

LEMMA FilledFacts ==
    \A list \in Seq(Node), heap \in [Node -> Listnode] :
        IsInjective(list) =>
            /\ NodesShown(list, heap) \in Seq(Node)
            /\ IsInjective(NodesShown(list, heap))
            /\ Range(NodesShown(list, heap)) = Shown(list, heap)
            /\ \A x, y : Follows(NodesShown(list, heap), x, y) => Follows(list, x, y)
            /\ Filled(list, heap) \in Seq(Row)
            /\ Len(Filled(list, heap)) = Len(NodesShown(list, heap))
            /\ \A i \in 1..Len(NodesShown(list, heap)) :
                    Filled(list, heap)[i] = RowOf(NodesShown(list, heap)[i], heap)
            /\ Filled(list, heap) = [i \in 1..Len(NodesShown(list, heap)) |->
                                        RowOf(NodesShown(list, heap)[i], heap)]
<1> SUFFICES ASSUME NEW list \in Seq(Node), NEW heap \in [Node -> Listnode], IsInjective(list)
             PROVE  \A o, r : o = NodesShown(list, heap) /\ r = Filled(list, heap) =>
                        /\ o \in Seq(Node) /\ IsInjective(o)
                        /\ Range(o) = Shown(list, heap)
                        /\ \A x, y : Follows(o, x, y) => Follows(list, x, y)
                        /\ r \in Seq(Row) /\ Len(r) = Len(o)
                        /\ \A i \in 1..Len(o) : r[i] = RowOf(o[i], heap)
                        /\ r = [i \in 1..Len(o) |-> RowOf(o[i], heap)]
  OBVIOUS
<1> QED
  BY FilledLemma

\* A double click changes the ball in the row and the trigger behind it.
Ball(heap, d, b) == [heap EXCEPT ![d] = [heap[d] EXCEPT !.enabled = b]]
RowBall(r, i, b) == [r EXCEPT ![i] = [r[i] EXCEPT !.pixmap = b]]

LEMMA ToggledLemma ==
    ASSUME NEW list \in Seq(Node), IsInjective(list), NEW heap \in [Node -> Listnode],
           NEW r, r = Filled(list, heap), NEW i \in 1..Len(r), NEW d, d = r[i].data,
           NEW b \in BOOLEAN,
           NEW other, other = Ball(heap, d, b), NEW q, q = RowBall(r, i, b)
    PROVE  d \in Range(list) /\ Filled(list, other) = q
<1>0. /\ other = [heap EXCEPT ![d] = [heap[d] EXCEPT !.enabled = b]]
      /\ q = [r EXCEPT ![i] = [r[i] EXCEPT !.pixmap = b]]
  BY DEF Ball, RowBall
<1>1. PICK o : o = NodesShown(list, heap)
  OBVIOUS
<1>2. /\ o \in Seq(Node) /\ IsInjective(o)
      /\ Range(o) = Shown(list, heap)
      /\ r \in Seq(Row) /\ Len(r) = Len(o)
      /\ \A k \in 1..Len(o) : r[k] = RowOf(o[k], heap)
  BY <1>1, FilledLemma
<1>3. /\ \A k \in 1..Len(o) : o[k] \in Node /\ o[k] \in Range(list)
      /\ \A k, l \in 1..Len(o) : o[k] = o[l] => k = l
      /\ DOMAIN r = 1..Len(o)
  <2>1. \A k \in 1..Len(o) : o[k] \in Node /\ o[k] \in Range(o)
    BY <1>2, RangeLemma
  <2>2. DOMAIN o = 1..Len(o) /\ DOMAIN r = 1..Len(r)
    BY <1>2, RangeLemma
  <2> QED
    BY <2>1, <2>2, <1>2 DEF Shown, IsInjective
<1>4. i \in 1..Len(o) /\ d = o[i]
  <2>1. i \in 1..Len(o)
    BY <1>2
  <2>2. r[i] = RowOf(o[i], heap)
    BY <2>1, <1>2
  <2>3. RowOf(o[i], heap).data = o[i]
    BY DEF RowOf
  <2> QED
    BY <2>1, <2>2, <2>3
<1>5. \A n \in Listnode : /\ [n EXCEPT !.enabled = b] \in Listnode
                          /\ [n EXCEPT !.enabled = b].left = n.left
                          /\ [n EXCEPT !.enabled = b].pr = n.pr
                          /\ [n EXCEPT !.enabled = b].enabled = b
  BY DEF Listnode
<1>6. /\ other \in [Node -> Listnode]
      /\ \A x \in Node : x # d => other[x] = heap[x]
      /\ other[d].left = heap[d].left /\ other[d].pr = heap[d].pr /\ other[d].enabled = b
  <2>1. d \in Node /\ heap[d] \in Listnode
    BY <1>3, <1>4
  <2> QED
    BY <2>1, <1>0, <1>5
<1>7. Shown(list, other) = Shown(list, heap)
  <2>1. \A x \in Range(list) : other[x].pr = heap[x].pr
    <3>1. \A x \in Range(list) : x \in Node
      BY RangeLemma
    <3> QED
      BY <3>1, <1>6
  <2> QED
    BY <2>1 DEF Shown
<1>8. Filled(list, other) = [k \in 1..Len(o) |-> RowOf(o[k], other)]
  <2>1. o = NodesShown(list, other)
    BY <1>1, <1>7 DEF NodesShown
  <2>2. PICK p : p = Filled(list, other)
    OBVIOUS
  <2>3. p = [k \in 1..Len(o) |-> RowOf(o[k], other)]
    <3>1. other \in [Node -> Listnode]
      BY <1>6
    <3>2. Filled(list, other) = [k \in 1..Len(NodesShown(list, other)) |->
                                   RowOf(NodesShown(list, other)[k], other)]
      BY <3>1, FilledFacts, ZenonT(30)
    <3> QED
      BY <3>2, <2>1, <2>2
  <2> QED
    BY <2>2, <2>3
<1>9. DOMAIN q = 1..Len(o)
  BY <1>0, <1>3
<1>10. \A k \in 1..Len(o) : q[k] = RowOf(o[k], other)
  <2>1. \A w \in Row : [w EXCEPT !.pixmap = b] = [left |-> w.left, data |-> w.data, pixmap |-> b]
    BY DEF Row
  <2>2. r[i] \in Row /\ r[i] = RowOf(d, heap)
    BY <1>2, <1>4, RangeLemma
  <2>3. q[i] = RowOf(d, other)
    <3>1. q[i] = [r[i] EXCEPT !.pixmap = b]
      BY <1>0, <1>3, <1>4
    <3>2. q[i] = [left |-> r[i].left, data |-> r[i].data, pixmap |-> b]
      BY <3>1, <2>1, <2>2
    <3> QED
      BY <3>2, <2>2, <1>6 DEF RowOf
  <2>4. ASSUME NEW k \in 1..Len(o), k # i
        PROVE  q[k] = RowOf(o[k], other)
    <3>1. q[k] = r[k] /\ o[k] # d /\ o[k] \in Node
      BY <2>4, <1>0, <1>3, <1>4
    <3> QED
      BY <3>1, <1>2, <1>6 DEF RowOf
  <2> QED
    BY <2>3, <2>4, <1>4
<1>11. q = [k \in 1..Len(o) |-> RowOf(o[k], other)]
  <2>1. q = [k \in 1..Len(o) |-> q[k]]
    BY <1>0, <1>3, <1>9
  <2> QED
    BY <2>1, <1>10
<1> QED
  BY <1>3, <1>4, <1>8, <1>11

\* What is left of the list is shown in what is left of the rows.
LEMMA DeletedLemma ==
    ASSUME NEW list \in Seq(Node), IsInjective(list), NEW heap \in [Node -> Listnode],
           Rising(list, heap),
           NEW r, r = Filled(list, heap), NEW i \in 1..Len(r), NEW d, d = r[i].data,
           NEW t, t = Without(list, {d}),
           NEW other \in [Node -> Listnode], \A x \in Node : x # d => other[x] = heap[x]
    PROVE  Filled(t, other) = RemoveAt(r, i)
<1>1. PICK o, p : o = NodesShown(list, heap) /\ p = NodesShown(t, other)
  OBVIOUS
<1>2. /\ o \in Seq(Node) /\ IsInjective(o)
      /\ Range(o) = Shown(list, heap)
      /\ \A x, y : Follows(o, x, y) => Follows(list, x, y)
      /\ r \in Seq(Row) /\ Len(r) = Len(o)
      /\ \A k \in 1..Len(o) : r[k] = RowOf(o[k], heap)
  BY <1>1, FilledLemma
<1>3. /\ t \in Seq(Node) /\ IsInjective(t)
      /\ Range(t) = Range(list) \ {d}
      /\ \A x, y : Follows(t, x, y) => Follows(list, x, y)
  BY WithoutLemma
<1>4. PICK u : u = Filled(t, other)
  OBVIOUS
<1>5. /\ p \in Seq(Node) /\ IsInjective(p)
      /\ Range(p) = Shown(t, other)
      /\ \A x, y : Follows(p, x, y) => Follows(t, x, y)
      /\ u \in Seq(Row) /\ Len(u) = Len(p)
      /\ \A k \in 1..Len(p) : u[k] = RowOf(p[k], other)
  <2>1. p = NodesShown(t, other) /\ t \in Seq(Node) /\ IsInjective(t)
    BY <1>1, <1>3
  <2> QED
    BY <2>1, <1>4, FilledFacts, ZenonT(30)
<1>6. i \in 1..Len(o) /\ d = o[i]
  <2>1. i \in 1..Len(o)
    BY <1>2
  <2>2. r[i] = RowOf(o[i], heap)
    BY <2>1, <1>2
  <2>3. RowOf(o[i], heap).data = o[i]
    BY DEF RowOf
  <2> QED
    BY <2>1, <2>2, <2>3
<1>7. PICK q : q = RemoveAt(o, i)
  OBVIOUS
<1>8. /\ q \in Seq(Node) /\ Len(q) = Len(o) - 1
      /\ \A k \in 1..Len(o) - 1 : q[k] = IF k < i THEN o[k] ELSE o[k + 1]
  BY <1>2, <1>6, <1>7, RemoveLemma
<1>9. Range(q) = Range(o) \ {d}
  BY <1>2, <1>6, <1>7, RemovedLemma
<1>10. Range(p) = Range(q)
  <2>1. \A x \in Range(list) : x \in Node
    BY RangeLemma
  <2>2. Shown(t, other) = Shown(list, heap) \ {d}
    BY <2>1, <1>3 DEF Shown
  <2> QED
    BY <2>2, <1>2, <1>5, <1>9
<1>11. Rising(p, heap)
  BY <1>3, <1>5, RisingLemma
<1>12. Rising(q, heap)
  <2>1. Rising(o, heap)
    BY <1>2, RisingLemma
  <2>2. Len(o) \in Nat
    BY <1>2, LenProperties
  <2>3. ASSUME NEW x, NEW y, Follows(q, x, y)
        PROVE  Follows(o, x, y)
    <3>1. PICK k, l \in 1..Len(o) - 1 : q[k] = x /\ q[l] = y /\ k < l
      BY <2>3, <1>8 DEF Follows
    <3>0. \A j \in 1..Len(o) - 1 : j \in 1..Len(o) /\ j + 1 \in 1..Len(o)
      BY <2>2
    <3>2. PICK m \in 1..Len(o) : q[k] = o[m] /\ m = IF k < i THEN k ELSE k + 1
      BY <3>0, <1>8
    <3>3. PICK n \in 1..Len(o) : q[l] = o[n] /\ n = IF l < i THEN l ELSE l + 1
      BY <3>0, <1>8
    <3>4. m < n
      BY <3>1, <3>2, <3>3, <1>6, <2>2
    <3> QED
      BY <3>1, <3>2, <3>3, <3>4 DEF Follows
  <2> QED
    BY <2>1, <2>3, RisingLemma
<1>13. p = q
  <2>1. Len(p) \in Nat /\ Len(q) \in Nat
    BY <1>5, <1>8, LenProperties
  <2>2. Len(p) <= Len(q) \/ Len(q) <= Len(p)
    BY <2>1
  <2> QED
    BY <2>2, <1>5, <1>8, <1>10, <1>11, <1>12, SortedLemma
<1>14. /\ RemoveAt(r, i) \in Seq(Row) /\ Len(RemoveAt(r, i)) = Len(o) - 1
       /\ \A k \in 1..Len(o) - 1 : RemoveAt(r, i)[k] = IF k < i THEN r[k] ELSE r[k + 1]
  <2>1. PICK v : v = RemoveAt(r, i)
    OBVIOUS
  <2>2. /\ v \in Seq(Row) /\ Len(v) = Len(r) - 1
        /\ \A k \in 1..Len(r) - 1 : v[k] = IF k < i THEN r[k] ELSE r[k + 1]
    BY <2>1, <1>2, RemoveLemma
  <2> QED
    BY <2>1, <2>2, <1>2
<1>15. ASSUME NEW k \in 1..Len(o) - 1
       PROVE  u[k] = RemoveAt(r, i)[k]
  <2>1. k \in 1..Len(p) /\ u[k] = RowOf(q[k], other)
    BY <1>5, <1>8, <1>13
  <2>2. q[k] \in Node /\ q[k] # d
    BY <2>1, <1>3, <1>5, <1>13, RangeLemma DEF Shown
  <2>3. u[k] = RowOf(q[k], heap)
    BY <2>1, <2>2 DEF RowOf
  <2>4. k \in 1..Len(o) /\ k + 1 \in 1..Len(o)
    BY <1>2, LenProperties
  <2>5. CASE k < i
    BY <2>3, <2>4, <2>5, <1>2, <1>8, <1>14
  <2>6. CASE ~(k < i)
    BY <2>3, <2>4, <2>6, <1>2, <1>8, <1>14
  <2> QED
    BY <2>5, <2>6
<1>16. Len(u) = Len(o) - 1
  BY <1>5, <1>8, <1>13
<1>17. u = RemoveAt(r, i)
  <2>1. PICK v : v = RemoveAt(r, i)
    OBVIOUS
  <2>2. v \in Seq(Row) /\ Len(v) = Len(u) /\ \A k \in 1..Len(u) : u[k] = v[k]
    BY <2>1, <1>14, <1>15, <1>16
  <2>3. u = v
    BY <2>2, <1>5, SeqEqual
  <2> QED
    BY <2>1, <2>3
<1> QED
  BY <1>4, <1>17

-----------------------------------------------------------------------------
(* The stack.                                                                *)

WalkFrame ==
    [kind : {"walk"}, list : {"actions", "handlers"}, what : Line \cup Var,
     at : Node \cup Handler \cup {HEAD}, due : SUBSET (Node \cup Handler), cut : BOOLEAN]
InputFrame == [kind : {"input"}, rest : Seq(Command)]
ReturnFrame == [kind : {"return"}, ln : Step]

LEMMA FrameLemma ==
    /\ Frame = WalkFrame \cup InputFrame \cup ReturnFrame
    /\ \A f \in Frame : /\ f.kind = "walk" <=> f \in WalkFrame
                        /\ f.kind = "input" <=> f \in InputFrame
                        /\ f.kind = "return" <=> f \in ReturnFrame
<1>1. Frame = WalkFrame \cup InputFrame \cup ReturnFrame
  BY DEF Frame, WalkFrame, InputFrame, ReturnFrame
<1>2. /\ \A f \in WalkFrame : f.kind = "walk"
      /\ \A f \in InputFrame : f.kind = "input"
      /\ \A f \in ReturnFrame : f.kind = "return"
  BY DEF WalkFrame, InputFrame, ReturnFrame
<1> QED
  BY <1>1, <1>2

\* The frame on top taken off, and replaced; two frames put on top.
LEMMA FrontLemma ==
    ASSUME NEW S, NEW s \in Seq(S), s # <<>>
    PROVE  /\ Len(s) \in Nat \ {0} /\ Last(s) = s[Len(s)] /\ Last(s) \in S
           /\ Front(s) \in Seq(S) /\ Len(Front(s)) = Len(s) - 1
           /\ \A i \in 1..Len(s) - 1 : Front(s)[i] = s[i]
<1>1. Len(s) \in Nat \ {0}
  BY EmptySeq, LenProperties
<1>2. s[Len(s)] \in S
  BY <1>1, ElementOfSeq
<1> DEFINE n == Len(s) - 1
<1>3. /\ n \in Nat /\ n - 1 + 1 = n
      /\ ~(1 <= n) => n = 0
      /\ \A i \in 1..n : 1 + i - 1 = i /\ i \in 1..Len(s)
  <2>1. \A k \in Nat \ {0} : /\ k - 1 \in Nat /\ k - 1 - 1 + 1 = k - 1
                             /\ ~(1 <= k - 1) => k - 1 = 0
                             /\ \A i \in 1..k - 1 : 1 + i - 1 = i /\ i \in 1..k
    OBVIOUS
  <2> QED
    BY <1>1, <2>1
<1>4. 1 \in Int /\ n \in Int /\ \A i \in 1..n : s[i] \in S
  BY <1>3, ElementOfSeq
<1>5. /\ SubSeq(s, 1, n) \in Seq(S)
      /\ Len(SubSeq(s, 1, n)) = IF 1 <= n THEN n - 1 + 1 ELSE 0
      /\ \A i \in 1..n - 1 + 1 : SubSeq(s, 1, n)[i] = s[1 + i - 1]
  BY <1>4, SubSeqProperties
<1>6. Front(s) = SubSeq(s, 1, n)
  BY DEF Front
<1> HIDE DEF n
<1>7. /\ Front(s) \in Seq(S) /\ Len(Front(s)) = n
      /\ \A i \in 1..n : Front(s)[i] = s[i]
  BY <1>3, <1>5, <1>6
<1> QED
  BY <1>1, <1>2, <1>7 DEF Last, n

LEMMA PushLemma ==
    ASSUME NEW S, NEW s \in Seq(S), NEW f \in S
    PROVE  /\ Append(s, f) \in Seq(S) /\ Append(s, f) # <<>>
           /\ Len(Append(s, f)) = Len(s) + 1 /\ Append(s, f)[Len(s) + 1] = f
           /\ \A i \in 1..Len(s) : Append(s, f)[i] = s[i]
BY AppendProperties

LEMMA PushTwoLemma ==
    ASSUME NEW S, NEW s \in Seq(S), NEW f \in S, NEW g \in S, NEW t, t = s \o <<f, g>>
    PROVE  /\ t \in Seq(S) /\ Len(t) = Len(s) + 2
           /\ t[Len(s) + 1] = f /\ t[Len(s) + 2] = g
           /\ \A i \in 1..Len(s) : t[i] = s[i]
<1>1. PICK p : p = <<f, g>>
  OBVIOUS
<1>2. p \in Seq(S) /\ Len(p) = 2 /\ p[1] = f /\ p[2] = g
  BY <1>1
<1>3. t = s \o p /\ Len(s) \in Nat
  BY <1>1, LenProperties
<1>4. /\ t \in Seq(S) /\ Len(t) = Len(s) + Len(p)
      /\ \A i \in 1..Len(s) + Len(p) : t[i] = IF i <= Len(s) THEN s[i] ELSE p[i - Len(s)]
  <2>1. p \in Seq(S)
    BY <1>2
  <2> QED
    BY <2>1, <1>3, ConcatProperties
<1>5. Len(t) = Len(s) + 2
     /\ \A i \in 1..Len(s) + 2 : t[i] = IF i <= Len(s) THEN s[i] ELSE p[i - Len(s)]
  BY <1>2, <1>4
<1>6. t[Len(s) + 1] = p[1] /\ t[Len(s) + 2] = p[2]
  <2>1. \A n \in Nat : /\ n + 1 \in 1..n + 2 /\ ~(n + 1 <= n) /\ n + 1 - n = 1
                       /\ n + 2 \in 1..n + 2 /\ ~(n + 2 <= n) /\ n + 2 - n = 2
    OBVIOUS
  <2> QED
    BY <2>1, <1>3, <1>5
<1>7. \A i \in 1..Len(s) : t[i] = s[i]
  BY <1>3, <1>5
<1> QED
  BY <1>2, <1>4, <1>5, <1>6, <1>7

\* f became g while the nodes r were removed and d disabled.
Edited(f, g, r, d) ==
    /\ g.kind = f.kind
    /\ f.kind = "return" => g.ln = f.ln
    /\ f.kind = "walk" =>
            /\ g.list = f.list /\ g.at = f.at
            /\ g.due = f.due \ (r \cup d)
            /\ ~g.cut => ~f.cut /\ f.at \notin r

LEMMA NotedLemma ==
    ASSUME NEW frames \in Seq(Frame), NEW r, NEW d, NEW t, t = Noted(frames, r, d)
    PROVE  /\ t \in Seq(Frame) /\ Len(t) = Len(frames)
           /\ \A i \in 1..Len(frames) : Edited(frames[i], t[i], r, d)
<1>1. DOMAIN frames = 1..Len(frames) /\ Len(frames) \in Nat
      /\ \A i \in 1..Len(frames) : frames[i] \in Frame
  BY RangeLemma
<1> DEFINE n(f) == [f EXCEPT !.due = @ \ (r \cup d), !.cut = @ \/ f.at \in r]
<1>2. t = [i \in 1..Len(frames) |-> IF frames[i].kind = "walk" THEN n(frames[i]) ELSE frames[i]]
  BY <1>1 DEF Noted
<1>3. ASSUME NEW f \in WalkFrame
      PROVE  n(f) \in WalkFrame /\ Edited(f, n(f), r, d)
  <2>1. /\ f.kind = "walk"
        /\ f = [kind |-> f.kind, list |-> f.list, what |-> f.what, at |-> f.at,
                due |-> f.due, cut |-> f.cut]
        /\ f.kind \in {"walk"} /\ f.list \in {"actions", "handlers"} /\ f.what \in Line \cup Var
        /\ f.at \in Node \cup Handler \cup {HEAD} /\ f.due \in SUBSET (Node \cup Handler)
        /\ f.cut \in BOOLEAN
    BY DEF WalkFrame
  <2>2. PICK due, cut : due = f.due \ (r \cup d) /\ cut = (f.cut \/ f.at \in r)
    OBVIOUS
  <2>3. due \in SUBSET (Node \cup Handler) /\ cut \in BOOLEAN
    BY <2>1, <2>2
  <2>4. PICK g : g = [f EXCEPT !.due = due]
    OBVIOUS
  <2>5. g = [kind |-> f.kind, list |-> f.list, what |-> f.what, at |-> f.at,
             due |-> due, cut |-> f.cut]
    BY <2>1, <2>4
  <2>6. n(f) = [g EXCEPT !.cut = cut]
    BY <2>2, <2>4, <2>5
  <2>7. n(f) = [kind |-> f.kind, list |-> f.list, what |-> f.what, at |-> f.at,
                due |-> due, cut |-> cut]
    BY <2>5, <2>6
  <2> HIDE DEF n
  <2>8. n(f) \in WalkFrame
    BY <2>1, <2>3, <2>7 DEF WalkFrame
  <2>9. /\ n(f).kind = f.kind /\ n(f).list = f.list /\ n(f).at = f.at
        /\ n(f).due = due /\ n(f).cut = cut
    BY <2>7
  <2>10. ~cut => ~f.cut /\ f.at \notin r
    BY <2>2
  <2>11. Edited(f, n(f), r, d)
    BY <2>1, <2>2, <2>9, <2>10 DEF Edited
  <2> QED
    BY <2>8, <2>11
<1> HIDE DEF n
<1>4. ASSUME NEW i \in 1..Len(frames)
      PROVE  t[i] \in Frame /\ Edited(frames[i], t[i], r, d)
  <2>1. CASE frames[i].kind = "walk"
    <3>1. frames[i] \in WalkFrame /\ t[i] = n(frames[i])
      BY <2>1, <1>1, <1>2, FrameLemma
    <3> QED
      BY <3>1, <1>3, FrameLemma
  <2>2. CASE frames[i].kind # "walk"
    <3>1. t[i] = frames[i]
      BY <2>2, <1>2
    <3> QED
      BY <3>1, <2>2, <1>1 DEF Edited
  <2> QED
    BY <2>1, <2>2
<1>5. t \in Seq(Frame) /\ Len(t) = Len(frames)
  <2>1. PICK m \in Nat : m = Len(frames)
    BY <1>1
  <2>2. t = [i \in 1..m |-> t[i]]
    BY <2>1, <1>2
  <2>3. \A i \in 1..m : t[i] \in Frame
    BY <2>1, <1>4
  <2>4. t \in Seq(Frame)
    BY <2>2, <2>3, IsASeq
  <2>5. DOMAIN t = 1..m /\ DOMAIN t = 1..Len(t) /\ Len(t) \in Nat
    BY <2>2, <2>4, LenProperties
  <2>6. Len(t) = m
    BY <2>5
  <2> QED
    BY <2>1, <2>4, <2>6
<1> QED
  BY <1>4, <1>5

-----------------------------------------------------------------------------
(* The inductive invariant.                                                  *)
(*                                                                           *)
(* Ways: a walk that is not cut stands on its list, with all it has to run   *)
(*     ahead of it; it is what WalkKeepsItsWay says of the stack.            *)
(* Lost: a walk that met freed memory was cut, a row that did was behind.    *)
(* Tracked: unless a way back commanded the path, at most one #return is     *)
(*     under way, of the last move, which is not counted any more; moves are *)
(*     tracked when there is none.                                           *)

OnWay(s, at, due) ==
    /\ at = HEAD \/ at \in Range(s)
    /\ \A y \in due : IF at = HEAD THEN y \in Range(s) ELSE Follows(s, at, y)

\* The list a walk is over, among these two.
ListIn(f, acts, handlers) == IF f.list = "actions" THEN acts ELSE handlers
FrameOnWay(f, acts, handlers) ==
    f.kind = "walk" /\ ~f.cut => OnWay(ListIn(f, acts, handlers), f.at, f.due)

Ways == \A i \in 1..Len(stack) : FrameOnWay(stack[i], actions, gmcp_handlers)

Lost ==
    /\ fault = "freed_node" => stack # <<>> /\ Top.cut
    /\ fault = "freed_row" => behind

Tracked ==
    ~nested =>
        \/ /\ \A i \in 1..Len(stack) : stack[i].kind # "return"
           /\ path_length = Len(path) /\ return_flag
        \/ \E i \in 1..Len(stack) :
            /\ \A j \in 1..Len(stack) : stack[j].kind = "return" <=> i = j
            /\ path # <<>> /\ stack[i].ln = path[Len(path)]
            /\ path_length = Len(path) - 1 /\ ~return_flag

\* The parts of the list of triggers and its window.
Sorted == ActionsTypeOK /\ Rising(actions, node) /\ RowsTrue

IInv == TypeOK /\ Sorted /\ Lost /\ Ways /\ Tracked

\* Without removals a list keeps all.
LEMMA KeepsAll == \A s, R : Keeps(s, s, R)
BY DEF Keeps

\* A walk that does not stand on what is removed keeps its way.
LEMMA OnWayLemma ==
    ASSUME NEW s, NEW t, NEW r, NEW d, NEW at, NEW due,
           Keeps(s, t, r), OnWay(s, at, due), at \notin r
    PROVE  OnWay(t, at, due \ (r \cup d))
BY DEF Keeps, OnWay

\* What is left of the walks on the stack when its first m frames stay.
LEMMA WaysLemma ==
    ASSUME Ways, NEW m \in Nat, m <= Len(stack), NEW r, NEW d,
           Len(stack) \in Nat, Len(stack') \in Nat,
           \A i \in 1..m : Edited(stack[i], stack'[i], r, d),
           NEW acts, NEW handlers, acts = actions', handlers = gmcp_handlers',
           Keeps(actions, acts, r), Keeps(gmcp_handlers, handlers, r),
           \A i \in m + 1..Len(stack') : FrameOnWay(stack'[i], acts, handlers)
    PROVE  Ways'
<1>1. ASSUME NEW i \in 1..m, NEW f, NEW g, f = stack[i], g = stack'[i]
      PROVE  FrameOnWay(g, acts, handlers)
  <2>1. Edited(f, g, r, d) /\ FrameOnWay(f, actions, gmcp_handlers)
    BY <1>1 DEF Ways
  <2> SUFFICES ASSUME g.kind = "walk", ~g.cut
               PROVE  OnWay(ListIn(g, acts, handlers), g.at, g.due)
    BY DEF FrameOnWay
  <2>2. /\ f.kind = "walk" /\ ~f.cut /\ f.at \notin r
        /\ g.list = f.list /\ g.at = f.at /\ g.due = f.due \ (r \cup d)
    BY <2>1 DEF Edited
  <2>3. OnWay(ListIn(f, actions, gmcp_handlers), f.at, f.due)
    BY <2>1, <2>2 DEF FrameOnWay
  <2>4. Keeps(ListIn(f, actions, gmcp_handlers), ListIn(f, acts, handlers), r)
    BY DEF ListIn
  <2>5. OnWay(ListIn(f, acts, handlers), f.at, f.due \ (r \cup d))
    BY <2>2, <2>3, <2>4, OnWayLemma
  <2>6. ListIn(g, acts, handlers) = ListIn(f, acts, handlers)
    BY <2>2 DEF ListIn
  <2> QED
    BY <2>2, <2>5, <2>6
<1>2. \A i \in 1..Len(stack') : FrameOnWay(stack'[i], acts, handlers)
  <2>1. \A i \in 1..Len(stack') : i \in 1..m \/ i \in m + 1..Len(stack')
    OBVIOUS
  <2>2. \A i \in 1..m : FrameOnWay(stack'[i], acts, handlers)
    BY <1>1
  <2> QED
    BY <2>1, <2>2
<1> QED
  BY <1>2 DEF Ways

\* What counts the moves stays true when the frames of #return are the same.
LEMMA TrackedLemma ==
    ASSUME Tracked, NEW m \in Nat, m <= Len(stack), m <= Len(stack'), NEW r, NEW d,
           Len(stack) \in Nat, Len(stack') \in Nat,
           \A i \in 1..m : Edited(stack[i], stack'[i], r, d),
           \A i \in m + 1..Len(stack) : stack[i].kind # "return",
           \A i \in m + 1..Len(stack') : stack'[i].kind # "return",
           nested' = nested, UNCHANGED pathvars
    PROVE  Tracked'
<1>1. path' = path /\ path_length' = path_length /\ return_flag' = return_flag
  BY DEF pathvars
<1>2. \A i \in 1..m : /\ stack'[i].kind = "return" <=> stack[i].kind = "return"
                      /\ stack[i].kind = "return" => stack'[i].ln = stack[i].ln
  BY DEF Edited
<1>3. /\ \A i \in 1..Len(stack) : stack[i].kind = "return" => i \in 1..m
      /\ \A i \in 1..Len(stack') : stack'[i].kind = "return" => i \in 1..m
      /\ \A i \in 1..m : i \in 1..Len(stack) /\ i \in 1..Len(stack')
  OBVIOUS
<1>4. ASSUME ~nested, \A i \in 1..Len(stack) : stack[i].kind # "return",
             path_length = Len(path), return_flag
      PROVE  Tracked'
  BY <1>1, <1>2, <1>3, <1>4 DEF Tracked
<1>5. ASSUME ~nested, NEW i \in 1..Len(stack),
             \A j \in 1..Len(stack) : stack[j].kind = "return" <=> i = j,
             path # <<>>, stack[i].ln = path[Len(path)],
             path_length = Len(path) - 1, ~return_flag
      PROVE  Tracked'
  <2>1. i \in 1..m /\ stack[i].kind = "return"
    BY <1>3, <1>5
  <2>2. i \in 1..Len(stack') /\ stack'[i].ln = path[Len(path)]
    BY <2>1, <1>2, <1>3, <1>5
  <2>3. \A j \in 1..Len(stack') : stack'[j].kind = "return" <=> i = j
    <3>1. \A j \in 1..Len(stack') : stack'[j].kind = "return" => i = j
      BY <1>2, <1>3, <1>5
    <3> QED
      BY <3>1, <2>1, <1>2
  <2> QED
    BY <2>2, <2>3, <1>1, <1>5 DEF Tracked
<1>6. CASE nested
  BY <1>6 DEF Tracked
<1> QED
  BY <1>4, <1>5, <1>6 DEF Tracked

-----------------------------------------------------------------------------
(* What every command does to the stack.                                     *)

\* The frame of the line loses its first command, the walks are told.
LEMMA EditsLemma ==
    ASSUME TypeOK, Running, NEW r, NEW d, Edits(r, d)
    PROVE  /\ Len(stack) \in Nat \ {0}
           /\ stack' \in Seq(Frame) /\ Len(stack') = Len(stack)
           /\ \A i \in 1..Len(stack) - 1 : Edited(stack[i], stack'[i], r, d)
           /\ stack[Len(stack)].kind = "input" /\ stack'[Len(stack)].kind = "input"
           /\ Arg \in Command
           /\ fault = "none" /\ fault' = "none" /\ events' = events
<1>1. stack \in Seq(Frame) /\ stack # <<>> /\ Top.kind = "input" /\ Top.rest # <<>>
      /\ fault = "none"
  BY DEF TypeOK, Running
<1>2. /\ Len(stack) \in Nat \ {0} /\ Top = stack[Len(stack)] /\ Top \in Frame
      /\ Below \in Seq(Frame) /\ Len(Below) = Len(stack) - 1
      /\ \A i \in 1..Len(stack) - 1 : Below[i] = stack[i]
  BY <1>1, FrontLemma DEF Top, Below
<1>3. Top.rest \in Seq(Command)
  <2>1. Top \in InputFrame
    BY <1>1, <1>2, FrameLemma
  <2> QED
    BY <2>1 DEF InputFrame
<1>4. Head(Top.rest) \in Command /\ Tail(Top.rest) \in Seq(Command)
  BY <1>1, <1>3, TailLemma
<1>5. PICK f : f = Input(Tail(Top.rest))
  OBVIOUS
<1>6. f \in Frame /\ f.kind = "input"
  <2>1. f \in InputFrame
    BY <1>4, <1>5 DEF Input, InputFrame
  <2> QED
    BY <2>1, FrameLemma
<1>7. PICK frames : frames = Frames
  OBVIOUS
<1>8. /\ frames \in Seq(Frame) /\ Len(frames) = Len(stack)
      /\ frames[Len(stack)] = f
      /\ \A i \in 1..Len(stack) - 1 : frames[i] = stack[i]
  <2>1. frames = Append(Below, f)
    BY <1>5, <1>7 DEF Frames
  <2>2. /\ frames \in Seq(Frame)
        /\ Len(frames) = Len(Below) + 1 /\ frames[Len(Below) + 1] = f
        /\ \A i \in 1..Len(Below) : frames[i] = Below[i]
    BY <2>1, <1>2, <1>6, PushLemma
  <2> QED
    BY <2>2, <1>2
<1>9. PICK t : t = Noted(frames, r, d)
  OBVIOUS
<1>10. stack' = t /\ events' = events /\ fault' = fault
  BY <1>7, <1>9 DEF Edits
<1>11. /\ t \in Seq(Frame) /\ Len(t) = Len(frames)
       /\ \A i \in 1..Len(frames) : Edited(frames[i], t[i], r, d)
  BY <1>8, <1>9, NotedLemma
<1>12. \A i \in 1..Len(stack) : Edited(frames[i], t[i], r, d)
  BY <1>8, <1>11
<1>13. t[Len(stack)].kind = "input"
  <2>1. Edited(frames[Len(stack)], t[Len(stack)], r, d)
    BY <1>2, <1>12
  <2> QED
    BY <2>1, <1>6, <1>8 DEF Edited
<1>14. \A i \in 1..Len(stack) - 1 : Edited(stack[i], t[i], r, d)
  <2>1. \A i \in 1..Len(stack) - 1 : i \in 1..Len(stack) /\ frames[i] = stack[i]
    BY <1>2, <1>8
  <2> QED
    BY <2>1, <1>12
<1>15. t \in Seq(Frame) /\ Len(t) = Len(stack)
  BY <1>8, <1>11
<1> QED
  BY <1>1, <1>2, <1>4, <1>10, <1>13, <1>14, <1>15 DEF Arg

LEMMA CommandTypes ==
    \A c \in Command :
        /\ c.op = "action" => c.left \in Left /\ c.right \in Body /\ c.class \in Class
        /\ c.op = "unaction" => c.left \in Left
        /\ c.op = "class" => c.class \in Class /\ c.on \in BOOLEAN
        /\ c.op = "register" => c.var \in Var /\ c.func \in Func
        /\ c.op = "unregister" => c.func \in Func
        /\ c.op = "move" => c.dir \in Dir
        /\ c.op = "show" => c.line \in Line
BY DEF Command

\* The parts that a step leaves alone.
LEMMA SameActions ==
    ASSUME IInv, UNCHANGED actionvars
    PROVE  Sorted' /\ actions' = actions /\ node' = node /\ behind' = behind
<1>1. /\ actions' = actions /\ node' = node /\ enabled' = enabled
      /\ window' = window /\ rows' = rows /\ behind' = behind
  BY DEF actionvars
<1>2. ActionsTypeOK'
  BY <1>1 DEF IInv, Sorted, ActionsTypeOK
<1>3. Rising(actions, node)'
  BY <1>1 DEF IInv, Sorted
<1>4. RowsTrue'
  BY <1>1 DEF IInv, Sorted, RowsTrue
<1> QED
  BY <1>1, <1>2, <1>3, <1>4 DEF Sorted

LEMMA SamePath ==
    ASSUME IInv, UNCHANGED pathvars
    PROVE  PathTypeOK'
BY DEF IInv, TypeOK, PathTypeOK, pathvars

LEMMA SameHandlers ==
    ASSUME IInv, UNCHANGED gmcpvars
    PROVE  GmcpTypeOK' /\ gmcp_handlers' = gmcp_handlers
BY DEF IInv, TypeOK, GmcpTypeOK, gmcpvars

\* Given that the other parts hold after it, a command keeps the walks and the types.
LEMMA CommandLemma ==
    ASSUME IInv, Running, NEW r, NEW d, Edits(r, d),
           Sorted', PathTypeOK', GmcpTypeOK', nested' \in BOOLEAN, Tracked',
           NEW acts, NEW handlers, acts = actions', handlers = gmcp_handlers',
           Keeps(actions, acts, r), Keeps(gmcp_handlers, handlers, r)
    PROVE  IInv'
<1>1. /\ Len(stack) \in Nat \ {0}
      /\ stack' \in Seq(Frame) /\ Len(stack') = Len(stack)
      /\ \A i \in 1..Len(stack) - 1 : Edited(stack[i], stack'[i], r, d)
      /\ stack'[Len(stack)].kind = "input"
      /\ fault' = "none" /\ events' = events
  BY EditsLemma DEF IInv
<1>2. Ways'
  <2>1. PICK m \in Nat : m = Len(stack) - 1
    BY <1>1
  <2>2. m <= Len(stack) /\ Len(stack) \in Nat /\ Len(stack') \in Nat
    BY <2>1, <1>1
  <2>3. \A i \in m + 1..Len(stack') : FrameOnWay(stack'[i], acts, handlers)
    <3>1. \A i \in m + 1..Len(stack') : i = Len(stack)
      BY <2>1, <1>1
    <3> QED
      BY <3>1, <1>1 DEF FrameOnWay
  <2>4. \A i \in 1..m : Edited(stack[i], stack'[i], r, d)
    BY <2>1, <1>1
  <2>5. Ways
    BY DEF IInv
  <2> QED
    BY <2>2, <2>3, <2>4, <2>5, WaysLemma
<1>3. TypeOK'
  BY <1>1 DEF IInv, TypeOK, Sorted
<1>4. Lost'
  BY <1>1 DEF Lost
<1> QED
  BY <1>2, <1>3, <1>4 DEF IInv

LEMMA CommandTracks ==
    ASSUME IInv, Running, NEW r, NEW d, Edits(r, d), UNCHANGED <<pathvars, nested>>
    PROVE  Tracked'
<1>1. /\ Len(stack) \in Nat \ {0} /\ Len(stack') = Len(stack)
      /\ \A i \in 1..Len(stack) - 1 : Edited(stack[i], stack'[i], r, d)
      /\ stack[Len(stack)].kind = "input" /\ stack'[Len(stack)].kind = "input"
  BY EditsLemma DEF IInv
<1>2. PICK m \in Nat : m = Len(stack) - 1
  BY <1>1, SMTT(30)
<1>3. m <= Len(stack) /\ m <= Len(stack') /\ Len(stack) \in Nat /\ Len(stack') \in Nat
  BY <1>1, <1>2
<1>4. /\ \A i \in m + 1..Len(stack) : i = Len(stack)
      /\ \A i \in m + 1..Len(stack') : i = Len(stack)
  BY <1>1, <1>2
<1>5. /\ \A i \in m + 1..Len(stack) : stack[i].kind # "return"
      /\ \A i \in m + 1..Len(stack') : stack'[i].kind # "return"
  BY <1>1, <1>4
<1>6. \A i \in 1..m : Edited(stack[i], stack'[i], r, d)
  BY <1>1, <1>2
<1>7. Tracked /\ nested' = nested /\ UNCHANGED pathvars
  BY DEF IInv
<1> QED
  BY <1>3, <1>5, <1>6, <1>7, TrackedLemma

-----------------------------------------------------------------------------
(* The commands.                                                             *)

\* A command that changed the list behind the window.
LEMMA BehindLemma ==
    ASSUME IInv, behind' = TRUE, UNCHANGED <<window, rows>>,
           actions' \in Seq(Node), IsInjective(actions'), node' \in [Node -> Listnode],
           enabled' \in [Class -> {"on", "off", "none"}], Rising(actions', node')
    PROVE  Sorted'
<1>1. ActionsTypeOK'
  BY DEF IInv, TypeOK, ActionsTypeOK
<1>2. Rising(actions, node)'
  OBVIOUS
<1>3. RowsTrue'
  BY DEF RowsTrue
<1> QED
  BY <1>1, <1>2, <1>3 DEF Sorted

LEMMA ActionStep == ASSUME IInv, ActionCommand PROVE IInv'
<1>1. /\ Running /\ Edits(Same(Arg.left), {})
      /\ Define(Arg.left, Arg.right, Arg.class, Same(Arg.left))
      /\ behind' = TRUE /\ UNCHANGED <<pathvars, gmcpvars, window, rows, nested>>
  BY DEF ActionCommand, Given
<1>2. Arg.left \in Left /\ Arg.right \in Body /\ Arg.class \in Class
  <2>1. Arg \in Command /\ Arg.op = "action"
    BY <1>1, EditsLemma DEF IInv, ActionCommand, Given, Arg
  <2> QED
    BY <2>1, CommandTypes
<1>3. PICK acts, r : acts = actions' /\ r = Same(Arg.left)
  OBVIOUS
<1>4. /\ actions' \in Seq(Node) /\ IsInjective(actions')
      /\ node' \in [Node -> Listnode] /\ enabled' \in [Class -> {"on", "off", "none"}]
      /\ Rising(actions', node') /\ Keeps(actions, actions', Same(Arg.left))
  <2>1. ActionsTypeOK /\ Rising(actions, node)
    BY DEF IInv, Sorted
  <2> QED
    BY <2>1, <1>1, <1>2, DefineLemma
<1>5. Sorted'
  BY <1>1, <1>4, BehindLemma
<1>6. PathTypeOK' /\ GmcpTypeOK' /\ gmcp_handlers' = gmcp_handlers
  BY <1>1, SamePath, SameHandlers
<1>7. Tracked'
  BY <1>1, CommandTracks
<1>8. nested' \in BOOLEAN
  BY <1>1 DEF IInv, TypeOK
<1>9. Keeps(actions, acts, r) /\ Keeps(gmcp_handlers, gmcp_handlers, r)
  BY <1>3, <1>4, KeepsAll
<1>10. Edits(r, {})
  BY <1>1, <1>3
<1> QED
  BY <1>1, <1>3, <1>5, <1>6, <1>7, <1>8, <1>9, <1>10, CommandLemma

LEMMA UnactionStep == ASSUME IInv, UnactionCommand PROVE IInv'
<1>1. /\ Running /\ Edits(Wild(Arg.left), {}) /\ Undefine(Wild(Arg.left))
      /\ behind' = TRUE /\ UNCHANGED <<pathvars, gmcpvars, window, rows, nested>>
  BY DEF UnactionCommand, Given
<1>2. PICK acts, r : acts = actions' /\ r = Wild(Arg.left)
  OBVIOUS
<1>3. Undefine(r) /\ Edits(r, {})
  BY <1>1, <1>2
<1>4. /\ actions' \in Seq(Node) /\ IsInjective(actions')
      /\ node' \in [Node -> Listnode] /\ enabled' \in [Class -> {"on", "off", "none"}]
      /\ Rising(actions', node') /\ Keeps(actions, actions', r)
  <2>1. ActionsTypeOK /\ Rising(actions, node)
    BY DEF IInv, Sorted
  <2> QED
    BY <2>1, <1>3, UndefineLemma
<1>5. Sorted'
  BY <1>1, <1>4, BehindLemma
<1>6. PathTypeOK' /\ GmcpTypeOK' /\ gmcp_handlers' = gmcp_handlers
  BY <1>1, SamePath, SameHandlers
<1>7. Tracked'
  BY <1>1, CommandTracks
<1>8. nested' \in BOOLEAN
  BY <1>1 DEF IInv, TypeOK
<1>9. Keeps(actions, acts, r) /\ Keeps(gmcp_handlers, gmcp_handlers, r)
  BY <1>2, <1>4, KeepsAll
<1> QED
  BY <1>1, <1>2, <1>3, <1>5, <1>6, <1>7, <1>8, <1>9, CommandLemma

LEMMA ClassStep == ASSUME IInv, ClassCommand PROVE IInv'
<1>1. /\ Running /\ EnableClass(Arg.class, Arg.on)
      /\ behind' = TRUE /\ UNCHANGED <<pathvars, gmcpvars, window, rows, nested>>
      /\ Edits({}, IF Arg.on THEN {} ELSE OfClass(Arg.class))
  BY DEF ClassCommand, Given
<1>2. PICK d : d = IF Arg.on THEN {} ELSE OfClass(Arg.class)
  OBVIOUS
<1>3. Edits({}, d)
  BY <1>1, <1>2
<1>4. Arg.class \in Class /\ Arg.on \in BOOLEAN
  <2>1. Arg \in Command /\ Arg.op = "class"
    BY <1>1, <1>3, EditsLemma DEF IInv, ClassCommand, Given, Arg
  <2> QED
    BY <2>1, CommandTypes
<1>5. /\ actions' = actions /\ node' \in [Node -> Listnode]
      /\ enabled' \in [Class -> {"on", "off", "none"}] /\ Rising(actions', node')
  <2>1. ActionsTypeOK /\ Rising(actions, node)
    BY DEF IInv, Sorted
  <2> QED
    BY <2>1, <1>1, <1>4, EnableClassLemma
<1>6. actions \in Seq(Node) /\ IsInjective(actions)
  BY DEF IInv, TypeOK, ActionsTypeOK
<1>7. Sorted'
  BY <1>1, <1>5, <1>6, BehindLemma
<1>8. PathTypeOK' /\ GmcpTypeOK' /\ gmcp_handlers' = gmcp_handlers
  BY <1>1, SamePath, SameHandlers
<1>9. Tracked'
  BY <1>1, <1>3, CommandTracks
<1>10. nested' \in BOOLEAN
  BY <1>1 DEF IInv, TypeOK
<1>11. Keeps(actions, actions, {}) /\ Keeps(gmcp_handlers, gmcp_handlers, {})
  BY KeepsAll
<1> QED
  BY <1>1, <1>3, <1>5, <1>7, <1>8, <1>9, <1>10, <1>11, CommandLemma

LEMMA UnsetLemma == Unset \in [var : Var, func : Func]
<1>1. PICK v \in Var, f \in Func : TRUE
  BY GmcpAssumption
<1>2. [var |-> v, func |-> f] \in [var : Var, func : Func]
  OBVIOUS
<1> QED
  BY <1>2 DEF Unset

\* A new handler comes first.
LEMMA PrependKeeps ==
    ASSUME NEW N, NEW s \in Seq(N), NEW x \in N, NEW t, t = <<x>> \o s
    PROVE  Keeps(s, t, {})
<1>1. PICK p : p = <<x>>
  OBVIOUS
<1>2. p \in Seq(N) /\ Len(p) = 1
  BY <1>1
<1>3. /\ t \in Seq(N) /\ Len(t) = Len(p) + Len(s)
      /\ \A i \in 1..Len(p) + Len(s) : t[i] = IF i <= Len(p) THEN p[i] ELSE s[i - Len(p)]
  <2>1. p \in Seq(N) /\ t = p \o s
    BY <1>1, <1>2
  <2> QED
    BY <2>1, ConcatProperties
<1>4. Len(s) \in Nat
  BY LenProperties
<1>5. Len(t) = 1 + Len(s) /\ \A i \in 1..1 + Len(s) : t[i] = IF i <= 1 THEN p[i] ELSE s[i - 1]
  BY <1>2, <1>3
<1>6. \A i \in 1..Len(s) : i + 1 \in 1..Len(t) /\ t[i + 1] = s[i]
  BY <1>4, <1>5
<1> DEFINE g == [i \in 1..Len(s) |-> i + 1]
<1>7. /\ g \in [1..Len(s) -> Int]
      /\ \A i \in 1..Len(s) : g[i] \in 1..Len(t) /\ t[g[i]] = s[i]
      /\ \A i, j \in 1..Len(s) : i < j => g[i] < g[j]
  BY <1>4, <1>6
<1> HIDE DEF g
<1> QED
  BY <1>3, <1>7, MovedLemma

LEMMA RegisterStep == ASSUME IInv, RegisterHandler PROVE IInv'
<1>1. /\ Running /\ register_gmcp_handler(Arg.var, Arg.func) /\ Edits({}, {})
      /\ UNCHANGED <<actionvars, pathvars, nested>>
  BY DEF RegisterHandler, Given
<1>2. Arg.var \in Var /\ Arg.func \in Func
  <2>1. Arg \in Command /\ Arg.op = "register"
    BY <1>1, EditsLemma DEF IInv, RegisterHandler, Given, Arg
  <2> QED
    BY <2>1, CommandTypes
<1>3. PICK h \in Handler \ Range(gmcp_handlers) :
        /\ gmcp_handlers' = <<h>> \o gmcp_handlers
        /\ handler' = [handler EXCEPT ![h] = [var |-> Arg.var, func |-> Arg.func]]
  BY <1>1 DEF register_gmcp_handler
<1>4. /\ gmcp_handlers \in Seq(Handler) /\ IsInjective(gmcp_handlers)
      /\ handler \in [Handler -> [var : Var, func : Func]]
  BY DEF IInv, TypeOK, GmcpTypeOK
<1>5. PICK t : t = <<h>> \o gmcp_handlers
  OBVIOUS
<1>6. t \in Seq(Handler) /\ IsInjective(t)
  BY <1>3, <1>4, <1>5, PrependLemma
<1>7. handler' \in [Handler -> [var : Var, func : Func]]
  BY <1>2, <1>3, <1>4
<1>8. GmcpTypeOK'
  BY <1>3, <1>5, <1>6, <1>7 DEF GmcpTypeOK
<1>9. Keeps(gmcp_handlers, t, {}) /\ Keeps(actions, actions, {})
  BY <1>3, <1>4, <1>5, PrependKeeps, KeepsAll
<1>10. Sorted' /\ PathTypeOK' /\ actions' = actions /\ gmcp_handlers' = t
  BY <1>1, <1>3, <1>5, SameActions, SamePath
<1>11. Tracked' /\ nested' \in BOOLEAN
  BY <1>1, CommandTracks DEF IInv, TypeOK
<1> QED
  BY <1>1, <1>8, <1>9, <1>10, <1>11, CommandLemma

LEMMA UnregisterStep == ASSUME IInv, UnregisterHandler PROVE IInv'
<1>1. /\ Running /\ unregister_gmcp_handler(Arg.func) /\ Edits(Registered(Arg.func), {})
      /\ UNCHANGED <<actionvars, pathvars, nested>>
  BY DEF UnregisterHandler, Given
<1>2. PICK r, t : r = Registered(Arg.func) /\ t = Without(gmcp_handlers, r)
  OBVIOUS
<1>3. /\ gmcp_handlers' = t /\ Edits(r, {})
      /\ handler' = [h \in Handler |-> IF h \in r THEN Unset ELSE handler[h]]
  BY <1>1, <1>2 DEF unregister_gmcp_handler
<1>4. /\ gmcp_handlers \in Seq(Handler) /\ IsInjective(gmcp_handlers)
      /\ handler \in [Handler -> [var : Var, func : Func]]
  BY DEF IInv, TypeOK, GmcpTypeOK
<1>5. t \in Seq(Handler) /\ IsInjective(t) /\ Keeps(gmcp_handlers, t, r)
  BY <1>2, <1>4, WithoutLemma
<1>6. handler' \in [Handler -> [var : Var, func : Func]]
  BY <1>3, <1>4, UnsetLemma
<1>7. GmcpTypeOK'
  BY <1>3, <1>5, <1>6 DEF GmcpTypeOK
<1>8. Keeps(actions, actions, r)
  BY KeepsAll
<1>9. Sorted' /\ PathTypeOK' /\ actions' = actions
  BY <1>1, SameActions, SamePath
<1>10. Tracked' /\ nested' \in BOOLEAN
  BY <1>1, CommandTracks DEF IInv, TypeOK
<1> QED
  BY <1>1, <1>3, <1>5, <1>7, <1>8, <1>9, <1>10, CommandLemma

\* A command that touches no list that is walked.
LEMMA PathCommand ==
    ASSUME IInv, Running, Edits({}, {}), UNCHANGED <<actionvars, gmcpvars>>,
           PathTypeOK', Tracked', nested' \in BOOLEAN
    PROVE  IInv'
<1>1. Keeps(actions, actions, {}) /\ Keeps(gmcp_handlers, gmcp_handlers, {})
  BY KeepsAll
<1>2. Sorted' /\ actions' = actions /\ GmcpTypeOK' /\ gmcp_handlers' = gmcp_handlers
  BY SameActions, SameHandlers
<1> QED
  BY <1>1, <1>2, CommandLemma

\* No #return is under way.
NoReturn == \A i \in 1..Len(stack) : stack[i].kind # "return"

LEMMA NoReturnStays ==
    ASSUME IInv, Running, Edits({}, {}), NoReturn
    PROVE  NoReturn'
<1>1. /\ Len(stack) \in Nat \ {0} /\ Len(stack') = Len(stack)
      /\ \A i \in 1..Len(stack) - 1 : Edited(stack[i], stack'[i], {}, {})
      /\ stack'[Len(stack)].kind = "input"
  BY EditsLemma DEF IInv
<1>2. \A i \in 1..Len(stack) : i = Len(stack) \/ i \in 1..Len(stack) - 1
  BY <1>1
<1>3. \A i \in 1..Len(stack) - 1 : stack'[i].kind = stack[i].kind /\ i \in 1..Len(stack)
  BY <1>1 DEF Edited
<1> QED
  BY <1>1, <1>2, <1>3 DEF NoReturn

LEMMA PathTypes ==
    ASSUME IInv
    PROVE  /\ path \in Seq(Step) /\ IsInjective(path) /\ Len(path) \in Nat
           /\ step \in [Step -> Dir] /\ return_flag \in BOOLEAN
           /\ path_length \in Nat /\ path_length <= MAX_PATH_LENGTH
           /\ MAX_PATH_LENGTH \in Nat \ {0}
<1>1. PathTypeOK
  BY DEF IInv, TypeOK
<1> QED
  BY <1>1, PathAssumption, LenProperties DEF PathTypeOK

\* Outside #return the moves on the path are counted.
LEMMA NoReturnCounts ==
    ASSUME IInv
    PROVE  ~nested /\ (NoReturn \/ return_flag) =>
                NoReturn /\ path_length = Len(path) /\ return_flag
BY DEF IInv, Tracked, NoReturn

LEMMA TracksAnew ==
    ASSUME nested' \/ (NoReturn' /\ path_length' = Len(path') /\ return_flag')
    PROVE  Tracked'
BY DEF Tracked, NoReturn

LEMMA MoveStep == ASSUME IInv, Move PROVE IInv'
<1>1. /\ Running /\ check_insert_path(Arg.dir) /\ Edits({}, {})
      /\ UNCHANGED <<actionvars, gmcpvars, nested>>
  BY DEF Move, Given
<1>2. Arg.dir \in Dir
  <2>1. Arg \in Command /\ Arg.op = "move"
    BY <1>1, EditsLemma DEF IInv, Move, Given, Arg
  <2> QED
    BY <2>1, CommandTypes
<1>3. nested' \in BOOLEAN
  BY <1>1 DEF IInv, TypeOK
<1>4. CASE ~return_flag
  <2>1. UNCHANGED pathvars
    BY <1>1, <1>4 DEF check_insert_path
  <2>2. PathTypeOK' /\ Tracked'
    BY <2>1, <1>1, SamePath, CommandTracks
  <2> QED
    BY <2>2, <1>1, <1>3, PathCommand
<1>5. CASE return_flag
  <2>1. PICK kept : kept = IF Full THEN DropFirst(path) ELSE path
    OBVIOUS
  <2>2. PICK a \in Step \ Range(kept) :
          /\ path' = Append(kept, a)
          /\ step' = [step EXCEPT ![a] = Arg.dir]
    BY <2>1, <1>1, <1>5 DEF check_insert_path
  <2>3. /\ path_length' = IF Full THEN path_length ELSE path_length + 1
        /\ return_flag' = return_flag
    BY <2>1, <1>1, <1>5 DEF check_insert_path
  <2>4. /\ kept \in Seq(Step) /\ IsInjective(kept)
        /\ Len(kept) = IF Full /\ path # <<>> THEN Len(path) - 1 ELSE Len(path)
    <3>1. CASE Full /\ path # <<>>
      <4>1. kept = Tail(path)
        BY <3>1, <2>1 DEF DropFirst
      <4>2. path \in Seq(Step) /\ IsInjective(path)
        BY PathTypes
      <4> QED
        BY <3>1, <4>1, <4>2, TailLemma
    <3>2. CASE ~(Full /\ path # <<>>)
      <4>1. kept = path
        BY <3>2, <2>1 DEF DropFirst
      <4> QED
        BY <3>2, <4>1, PathTypes
    <3> QED
      BY <3>1, <3>2
  <2>5. path' \in Seq(Step) /\ IsInjective(path') /\ Len(path') = Len(kept) + 1
    BY <2>2, <2>4, AppendLemma, AppendProperties
  <2>6. PathTypeOK'
    <3>1. step' \in [Step -> Dir]
      BY <2>2, <1>2, PathTypes
    <3>2. path_length' \in 0..MAX_PATH_LENGTH
      BY <2>3, PathTypes DEF Full
    <3> QED
      BY <2>3, <2>5, <3>1, <3>2, PathTypes DEF PathTypeOK
  <2>7. Tracked'
    <3>1. CASE nested
      BY <3>1, <1>1, TracksAnew
    <3>2. CASE ~nested
      <4>1. NoReturn /\ path_length = Len(path)
        BY <3>2, <1>5, NoReturnCounts
      <4>2. NoReturn'
        BY <4>1, <1>1, NoReturnStays
      <4>3. Full => path # <<>>
        <5>1. Full => Len(path) # 0
          BY <4>1, PathTypes DEF Full
        <5> QED
          BY <5>1, EmptySeq
      <4>4. path_length' = Len(path')
        BY <4>1, <4>3, <2>3, <2>4, <2>5, PathTypes
      <4> QED
        BY <4>2, <4>4, <2>3, <1>5, TracksAnew
    <3> QED
      BY <3>1, <3>2
  <2> QED
    BY <2>6, <2>7, <1>1, <1>3, PathCommand
<1> QED
  BY <1>4, <1>5

\* What a command on the path tells of the #return it may be run in.
LEMMA OnPathLemma ==
    ASSUME IInv, OnPath
    PROVE  /\ nested' \in BOOLEAN
           /\ UNCHANGED <<actionvars, gmcpvars>>
           /\ ~nested' => /\ ~nested /\ NoReturn
                          /\ path_length = Len(path) /\ return_flag
<1>1. nested' = (nested \/ Returns # {}) /\ UNCHANGED <<actionvars, gmcpvars>>
  BY DEF OnPath
<1>2. nested' \in BOOLEAN
  BY <1>1 DEF IInv, TypeOK
<1>3. DOMAIN stack = 1..Len(stack)
  BY RangeLemma DEF IInv, TypeOK
<1>4. Returns = {} => NoReturn
  BY <1>3 DEF Returns, NoReturn
<1>5. ~nested' => ~nested /\ Returns = {}
  BY <1>1
<1> QED
  BY <1>1, <1>2, <1>4, <1>5, NoReturnCounts

\* A list without its last element.
LEMMA ShorterLemma ==
    ASSUME NEW S, NEW s \in Seq(S), IsInjective(s), NEW t, t = Front(s)
    PROVE  /\ t \in Seq(S) /\ IsInjective(t)
           /\ s # <<>> => Len(t) = Len(s) - 1
<1>1. CASE s # <<>>
  <2>1. /\ Len(s) \in Nat \ {0} /\ t \in Seq(S) /\ Len(t) = Len(s) - 1
        /\ \A i \in 1..Len(s) - 1 : t[i] = s[i]
    BY <1>1, FrontLemma
  <2>2. DOMAIN s = 1..Len(s) /\ DOMAIN t = 1..Len(s) - 1
    BY <2>1, RangeLemma
  <2>3. \A i \in 1..Len(s) - 1 : i \in 1..Len(s)
    BY <2>1
  <2>4. IsInjective(t)
    BY <2>1, <2>2, <2>3 DEF IsInjective
  <2> QED
    BY <2>1, <2>4
<1>2. CASE s = <<>>
  <2>1. Len(s) = 0
    BY <1>2
  <2>2. 1 \in Int /\ Len(s) - 1 \in Int /\ \A i \in 1..Len(s) - 1 : s[i] \in S
    BY <2>1
  <2>3. /\ SubSeq(s, 1, Len(s) - 1) \in Seq(S)
        /\ Len(SubSeq(s, 1, Len(s) - 1)) = IF 1 <= Len(s) - 1 THEN Len(s) - 1 - 1 + 1 ELSE 0
    BY <2>2, SubSeqProperties
  <2>4. t \in Seq(S) /\ Len(t) = 0
    BY <2>1, <2>3 DEF Front
  <2>5. DOMAIN t = 1..0
    BY <2>4, RangeLemma
  <2>6. IsInjective(t)
    BY <2>5 DEF IsInjective
  <2> QED
    BY <1>2, <2>4, <2>6
<1> QED
  BY <1>1, <1>2

\* A command that changes none of the lists.
LEMMA PlainStep ==
    ASSUME IInv, Running, Edits({}, {}), UNCHANGED <<actionvars, pathvars, gmcpvars, nested>>
    PROVE  IInv'
<1>1. PathTypeOK' /\ Tracked'
  BY SamePath, CommandTracks
<1>2. nested' \in BOOLEAN
  BY DEF IInv, TypeOK
<1> QED
  BY <1>1, <1>2, PathCommand

LEMMA SendStep == ASSUME IInv, Send PROVE IInv'
<1>1. /\ Running /\ Edits({}, {}) /\ UNCHANGED <<actionvars, pathvars, gmcpvars, nested>>
  BY DEF Send, Given
<1> QED
  BY <1>1, PlainStep

-----------------------------------------------------------------------------
(* What changes the stack and not the lists.                                 *)

LEMMA BeforeLemma ==
    \A n \in Nat \ {0} : \E m \in Nat : m = n - 1 /\ m <= n /\ m + 1 = n
OBVIOUS

LEMMA TopLemma ==
    ASSUME IInv, stack # <<>>
    PROVE  /\ stack \in Seq(Frame) /\ Len(stack) \in Nat \ {0}
           /\ Top = stack[Len(stack)] /\ Top \in Frame
           /\ Below \in Seq(Frame) /\ Len(Below) = Len(stack) - 1
           /\ \A i \in 1..Len(stack) - 1 : Below[i] = stack[i]
<1>1. stack \in Seq(Frame)
  BY DEF IInv, TypeOK
<1> QED
  BY <1>1, FrontLemma DEF Top, Below

\* All frames but the last one stay.
LEMMA StackLemma ==
    ASSUME IInv, stack # <<>>, UNCHANGED <<actionvars, gmcpvars>>,
           stack' \in Seq(Frame), Len(stack') >= Len(stack) - 1,
           \A i \in 1..Len(stack) - 1 : stack'[i] = stack[i],
           \A i \in Len(stack)..Len(stack') : FrameOnWay(stack'[i], actions, gmcp_handlers),
           PathTypeOK', Tracked', nested' \in BOOLEAN, fault' = "none",
           events' \in 0..MaxEvents
    PROVE  IInv'
<1>1. Len(stack) \in Nat \ {0} /\ Len(stack') \in Nat
  BY TopLemma, LenProperties
<1>2. /\ Sorted' /\ actions' = actions
      /\ GmcpTypeOK' /\ gmcp_handlers' = gmcp_handlers
  BY SameActions, SameHandlers
<1>3. Ways'
  <2>1. PICK m \in Nat : m = Len(stack) - 1 /\ m <= Len(stack) /\ m + 1 = Len(stack)
    BY <1>1, BeforeLemma
  <2>2. m <= Len(stack) /\ m + 1 = Len(stack) /\ Len(stack) \in Nat
    BY <2>1, <1>1
  <2>3. \A i \in m + 1..Len(stack') : FrameOnWay(stack'[i], actions, gmcp_handlers)
    BY <2>2
  <2>4. \A i \in 1..m : Edited(stack[i], stack'[i], {}, {})
    BY <2>1 DEF Edited
  <2>5. Ways /\ Keeps(actions, actions, {}) /\ Keeps(gmcp_handlers, gmcp_handlers, {})
    BY KeepsAll DEF IInv
  <2> QED
    BY <1>1, <1>2, <2>2, <2>3, <2>4, <2>5, WaysLemma
<1>4. TypeOK'
  BY <1>2 DEF TypeOK, Sorted
<1>5. Lost'
  BY DEF Lost
<1> QED
  BY <1>2, <1>3, <1>4, <1>5 DEF IInv

\* The frame on top, which is not a #return, goes on or ends.
LEMMA TurnLemma ==
    ASSUME IInv, fault = "none", stack # <<>>, Top.kind # "return",
           stack' \in Seq(Frame), Len(stack') >= Len(stack) - 1,
           \A i \in 1..Len(stack) - 1 : stack'[i] = stack[i],
           \A i \in Len(stack)..Len(stack') :
                FrameOnWay(stack'[i], actions, gmcp_handlers) /\ stack'[i].kind # "return",
           UNCHANGED <<actionvars, pathvars, gmcpvars, nested, events, fault>>
    PROVE  IInv'
<1>1. /\ Len(stack) \in Nat \ {0} /\ Len(stack') \in Nat
      /\ stack[Len(stack)].kind # "return"
  BY TopLemma, LenProperties
<1>2. Tracked'
  <2>1. PICK m \in Nat : m = Len(stack) - 1 /\ m <= Len(stack) /\ m + 1 = Len(stack)
    BY <1>1, BeforeLemma
  <2>2. m <= Len(stack) /\ m <= Len(stack') /\ m + 1 = Len(stack) /\ Len(stack) \in Nat
    BY <2>1, <1>1
  <2>3. \A i \in m + 1..Len(stack') : stack'[i].kind # "return"
    BY <2>2
  <2>4. \A i \in m + 1..Len(stack) : stack[i].kind # "return"
    <3>1. \A i \in m + 1..Len(stack) : i = Len(stack)
      BY <2>2
    <3> QED
      BY <3>1, <1>1
  <2>5. \A i \in 1..m : Edited(stack[i], stack'[i], {}, {})
    BY <2>1 DEF Edited
  <2>6. Tracked /\ nested' = nested /\ UNCHANGED pathvars
    BY DEF IInv
  <2> QED
    BY <1>1, <2>2, <2>3, <2>4, <2>5, <2>6, TrackedLemma
<1>3. PathTypeOK' /\ nested' \in BOOLEAN /\ events' \in 0..MaxEvents
  BY SamePath DEF IInv, TypeOK
<1> QED
  BY <1>2, <1>3, StackLemma

\* The frame on top is left.
LEMMA PopLemma ==
    ASSUME IInv, fault = "none", stack # <<>>, Top.kind # "return", stack' = Below,
           UNCHANGED <<actionvars, pathvars, gmcpvars, nested, events, fault>>
    PROVE  IInv'
<1>1. PICK t : t = Below
  OBVIOUS
<1>2. /\ Len(stack) \in Nat \ {0}
      /\ t \in Seq(Frame) /\ Len(t) = Len(stack) - 1
      /\ \A i \in 1..Len(stack) - 1 : t[i] = stack[i]
  BY <1>1, TopLemma
<1>3. \A i \in Len(stack)..Len(t) : FALSE
  BY <1>2
<1>4. Len(t) >= Len(stack) - 1
  BY <1>2
<1> QED
  BY <1>1, <1>2, <1>3, <1>4, TurnLemma

LEMMA WalkEndsStep == ASSUME IInv, WalkEnds PROVE IInv'
BY PopLemma DEF WalkEnds, Walking

LEMMA InputEndsStep == ASSUME IInv, InputEnds PROVE IInv'
BY PopLemma DEF InputEnds

-----------------------------------------------------------------------------
(* A walk goes on.                                                           *)

LEMMA PositionLemma ==
    ASSUME NEW N, NEW s \in Seq(N), NEW a \in Range(s), NEW i, i = Position(s, a)
    PROVE  i \in 1..Len(s) /\ s[i] = a
BY RangeLemma DEF Position

\* The next node of the walk f over the list s; what is ahead of it.
LEMMA NextLemma ==
    ASSUME IInv, NEW f \in WalkFrame, Stands(f), NextOf(f) # NULL,
           NEW s, s = ListIn(f, actions, gmcp_handlers),
           NEW next, next = NextOf(f)
    PROVE  /\ next \in Range(s) /\ next \in Node \cup Handler /\ next # HEAD
           /\ OnWay(s, f.at, f.due) => OnWay(s, next, f.due \ {next})
<1>1. ListOf(f) = s
  BY DEF ListOf, ListIn
<1>2. s \in Seq(Node \cup Handler) /\ IsInjective(s)
  <2>1. /\ actions \in Seq(Node) /\ IsInjective(actions)
        /\ gmcp_handlers \in Seq(Handler) /\ IsInjective(gmcp_handlers)
    BY DEF IInv, TypeOK, ActionsTypeOK, GmcpTypeOK
  <2> QED
    BY <2>1 DEF ListIn
<1>3. PICK i : i = IF f.at = HEAD THEN 0 ELSE Position(s, f.at)
  OBVIOUS
<1>4. next = IF i < Len(s) THEN s[i + 1] ELSE NULL
  BY <1>1, <1>3 DEF NextOf
<1>5. /\ DOMAIN s = 1..Len(s) /\ Len(s) \in Nat
      /\ \A x : x \in Range(s) <=> \E j \in 1..Len(s) : s[j] = x
      /\ \A j \in 1..Len(s) : s[j] \in Node \cup Handler /\ s[j] \in Range(s)
      /\ \A j, k \in 1..Len(s) : s[j] = s[k] => j = k
  BY <1>2, RangeLemma DEF IsInjective
<1>6. /\ i \in 0..Len(s)
      /\ f.at = HEAD => i = 0
      /\ f.at # HEAD => i \in 1..Len(s) /\ s[i] = f.at
  <2>1. CASE f.at = HEAD
    BY <2>1, <1>3, <1>5
  <2>2. CASE f.at # HEAD
    <3>1. f.at \in Range(s) /\ i = Position(s, f.at)
      BY <2>2, <1>1, <1>3 DEF Stands
    <3>2. i \in 1..Len(s) /\ s[i] = f.at
      BY <3>1, <1>2, PositionLemma
    <3> QED
      BY <3>2, <2>2, <1>5
  <2> QED
    BY <2>1, <2>2
<1>7. i < Len(s) /\ i + 1 \in 1..Len(s) /\ next = s[i + 1]
  <2>1. i < Len(s)
    BY <1>4
  <2> QED
    BY <2>1, <1>4, <1>5, <1>6
<1>8. next \in Range(s) /\ next \in Node \cup Handler /\ next # HEAD
  BY <1>5, <1>7, ScriptAssumption
<1>9. ASSUME OnWay(s, f.at, f.due), NEW y \in f.due, y # next
      PROVE  Follows(s, next, y)
  <2>1. PICK j \in 1..Len(s) : s[j] = y /\ i < j
    <3>1. CASE f.at = HEAD
      <4>1. y \in Range(s) /\ i = 0
        BY <3>1, <1>6, <1>9 DEF OnWay
      <4> QED
        BY <4>1, <1>5
    <3>2. CASE f.at # HEAD
      <4>1. Follows(s, f.at, y)
        BY <3>2, <1>9 DEF OnWay
      <4>2. PICK k, j \in 1..Len(s) : s[k] = f.at /\ s[j] = y /\ k < j
        BY <4>1 DEF Follows
      <4>3. k = i
        BY <4>2, <3>2, <1>5, <1>6
      <4> QED
        BY <4>2, <4>3
    <3> QED
      BY <3>1, <3>2
  <2>2. j # i + 1
    BY <2>1, <1>7, <1>9
  <2>3. i + 1 < j
    BY <2>1, <2>2, <1>5, <1>6
  <2> QED
    BY <2>1, <2>3, <1>7 DEF Follows
<1>10. OnWay(s, f.at, f.due) => OnWay(s, next, f.due \ {next})
  BY <1>8, <1>9 DEF OnWay
<1> QED
  BY <1>8, <1>10

\* What the walk becomes.
Stepped(f, next) == [f EXCEPT !.at = next, !.due = @ \ {next}]

LEMMA StepLemma ==
    ASSUME NEW f \in WalkFrame, NEW next \in Node \cup Handler,
           NEW g, g = Stepped(f, next)
    PROVE  /\ g \in WalkFrame /\ g.kind = "walk" /\ g.list = f.list /\ g.cut = f.cut
           /\ g.at = next /\ g.due = f.due \ {next}
<1>1. /\ f = [kind |-> f.kind, list |-> f.list, what |-> f.what, at |-> f.at,
              due |-> f.due, cut |-> f.cut]
      /\ f.kind = "walk" /\ f.list \in {"actions", "handlers"} /\ f.what \in Line \cup Var
      /\ f.due \in SUBSET (Node \cup Handler) /\ f.cut \in BOOLEAN
  BY DEF WalkFrame
<1>2. PICK due : due = f.due \ {next}
  OBVIOUS
<1>3. PICK h : h = [f EXCEPT !.at = next]
  OBVIOUS
<1>4. h = [kind |-> f.kind, list |-> f.list, what |-> f.what, at |-> next,
           due |-> f.due, cut |-> f.cut]
  BY <1>1, <1>3
<1>5. g = [h EXCEPT !.due = due]
  BY <1>2, <1>3, <1>4 DEF Stepped
<1>6. g = [kind |-> f.kind, list |-> f.list, what |-> f.what, at |-> next,
           due |-> due, cut |-> f.cut]
  BY <1>4, <1>5
<1>7. due \in SUBSET (Node \cup Handler)
  BY <1>1, <1>2
<1>8. g \in WalkFrame
  BY <1>1, <1>6, <1>7 DEF WalkFrame
<1> QED
  BY <1>1, <1>2, <1>6, <1>8

LEMMA InputLemma ==
    ASSUME NEW commands \in Seq(Command), NEW f, f = Input(commands)
    PROVE  f \in Frame /\ f.kind = "input"
<1>1. f \in InputFrame
  BY DEF Input, InputFrame
<1> QED
  BY <1>1, FrameLemma

\* What a trigger or a handler runs are commands.
LEMMA RunsLemma ==
    ASSUME IInv, NEW list, NEW what, NEW a \in Hits(list, what), NEW c, c = Runs(list, a)
    PROVE  c \in Seq(Command)
<1>1. Code \in [Body \cup Func \cup Dir -> Seq(Command)]
  BY ScriptAssumption
<1>2. /\ actions \in Seq(Node) /\ node \in [Node -> Listnode]
      /\ gmcp_handlers \in Seq(Handler) /\ handler \in [Handler -> [var : Var, func : Func]]
  BY DEF IInv, TypeOK, ActionsTypeOK, GmcpTypeOK
<1>3. CASE list = "actions"
  <2>1. a \in Node
    BY <1>2, <1>3, RangeLemma DEF Hits
  <2>2. node[a].right \in Body
    BY <2>1, <1>2 DEF Listnode
  <2> QED
    BY <2>2, <1>1, <1>3 DEF Runs
<1>4. CASE list # "actions"
  <2>1. a \in Handler
    BY <1>2, <1>4, RangeLemma DEF Hits
  <2>2. handler[a].func \in Func
    BY <2>1, <1>2
  <2> QED
    BY <2>2, <1>1, <1>4 DEF Runs
<1> QED
  BY <1>3, <1>4

LEMMA WalkOnStep == ASSUME IInv, WalkOn PROVE IInv'
<1>1. /\ fault = "none" /\ stack # <<>> /\ Top.kind = "walk"
      /\ Stands(Top) /\ NextOf(Top) # NULL
      /\ UNCHANGED <<actionvars, pathvars, gmcpvars, nested, events, fault>>
  BY DEF WalkOn, Walking
<1>2. PICK f, s, next, g : /\ f = Top /\ s = ListIn(f, actions, gmcp_handlers)
                           /\ next = NextOf(f) /\ g = Stepped(f, next)
  OBVIOUS
<1>3. /\ Len(stack) \in Nat \ {0} /\ f = stack[Len(stack)] /\ f \in WalkFrame
      /\ Below \in Seq(Frame) /\ Len(Below) = Len(stack) - 1
      /\ \A i \in 1..Len(stack) - 1 : Below[i] = stack[i]
  BY <1>1, <1>2, TopLemma, FrameLemma
<1>4. /\ next \in Node \cup Handler
      /\ OnWay(s, f.at, f.due) => OnWay(s, next, f.due \ {next})
  BY <1>1, <1>2, <1>3, NextLemma
<1>5. /\ g \in WalkFrame /\ g.kind = "walk" /\ g.list = f.list /\ g.cut = f.cut
      /\ g.at = next /\ g.due = f.due \ {next}
  <2>1. f \in WalkFrame /\ next \in Node \cup Handler
    BY <1>3, <1>4
  <2>2. g = Stepped(f, next)
    BY <1>2
  <2> QED
    BY <2>1, <2>2, StepLemma
<1>6. g \in Frame /\ FrameOnWay(g, actions, gmcp_handlers)
  <2>1. FrameOnWay(f, actions, gmcp_handlers)
    <3>1. Len(stack) \in 1..Len(stack)
      BY <1>3
    <3> QED
      BY <3>1, <1>3 DEF IInv, Ways
  <2>2. ListIn(g, actions, gmcp_handlers) = s
    BY <1>2, <1>5 DEF ListIn
  <2>3. f.kind = "walk"
    BY <1>1, <1>2
  <2>4. FrameOnWay(g, actions, gmcp_handlers)
    BY <1>2, <1>4, <1>5, <2>1, <2>2, <2>3 DEF FrameOnWay
  <2> QED
    BY <2>4, <1>5, FrameLemma
<1>7. CASE next \notin Hits(f.list, f.what)
  <2>1. stack' = Below \o <<g>>
    BY <1>2, <1>7 DEF WalkOn, Stepped
  <2>2. PICK t : t = Append(Below, g)
    OBVIOUS
  <2>3. stack' = t
    BY <2>1, <2>2, <1>3, <1>6, AppendIsConcat
  <2>4. /\ t \in Seq(Frame) /\ Len(t) = Len(Below) + 1 /\ t[Len(Below) + 1] = g
        /\ \A i \in 1..Len(Below) : t[i] = Below[i]
    BY <2>2, <1>3, <1>6, PushLemma
  <2>5. Len(t) = Len(stack) /\ t[Len(stack)] = g /\ \A i \in 1..Len(stack) - 1 : t[i] = stack[i]
    BY <2>4, <1>3
  <2>6. \A i \in Len(stack)..Len(t) : FrameOnWay(t[i], actions, gmcp_handlers) /\ t[i].kind # "return"
    <3>1. \A i \in Len(stack)..Len(t) : i = Len(stack)
      BY <2>5, <1>3
    <3> QED
      BY <3>1, <2>5, <1>5, <1>6
  <2>7. Len(t) >= Len(stack) - 1
    BY <2>5, <1>3
  <2> QED
    BY <2>3, <2>4, <2>5, <2>6, <2>7, <1>1, TurnLemma
<1>8. CASE next \in Hits(f.list, f.what)
  <2>1. PICK h : h = Input(Runs(f.list, next))
    OBVIOUS
  <2>2. stack' = Below \o <<g, h>>
    BY <2>1, <1>2, <1>8 DEF WalkOn, Stepped
  <2>3. h \in Frame /\ h.kind = "input"
    <3>1. Runs(f.list, next) \in Seq(Command)
      BY <1>8, RunsLemma
    <3> QED
      BY <3>1, <2>1, InputLemma
  <2>4. PICK t : t = Below \o <<g, h>>
    OBVIOUS
  <2>5. /\ t \in Seq(Frame) /\ Len(t) = Len(Below) + 2
        /\ t[Len(Below) + 1] = g /\ t[Len(Below) + 2] = h
        /\ \A i \in 1..Len(Below) : t[i] = Below[i]
    <3>1. Below \in Seq(Frame) /\ g \in Frame /\ h \in Frame
      BY <2>3, <1>3, <1>6
    <3> QED
      BY <3>1, <2>4, PushTwoLemma
  <2>6. /\ Len(t) = Len(stack) + 1 /\ t[Len(stack)] = g /\ t[Len(stack) + 1] = h
        /\ \A i \in 1..Len(stack) - 1 : t[i] = stack[i]
    BY <2>5, <1>3
  <2>7. \A i \in Len(stack)..Len(t) : FrameOnWay(t[i], actions, gmcp_handlers) /\ t[i].kind # "return"
    <3>1. \A i \in Len(stack)..Len(t) : i = Len(stack) \/ i = Len(stack) + 1
      BY <2>6, <1>3
    <3>2. FrameOnWay(h, actions, gmcp_handlers) /\ h.kind # "return"
      BY <2>3 DEF FrameOnWay
    <3> QED
      BY <3>1, <3>2, <2>6, <1>5, <1>6
  <2>8. Len(t) >= Len(stack) - 1
    BY <2>6, <1>3
  <2> QED
    BY <2>2, <2>4, <2>5, <2>6, <2>7, <2>8, <1>1, TurnLemma
<1> QED
  BY <1>7, <1>8

\* A walk that does not stand on its list was cut.
LEMMA WalkOnFreedStep == ASSUME IInv, WalkOnFreed PROVE IInv'
<1>1. /\ stack # <<>> /\ Top.kind = "walk" /\ ~Stands(Top)
      /\ fault' = "freed_node"
      /\ UNCHANGED <<actionvars, pathvars, gmcpvars, stack, nested, events>>
  BY DEF WalkOnFreed, Walking, Crash
<1>2. Len(stack) \in Nat \ {0} /\ Top = stack[Len(stack)]
  BY <1>1, TopLemma
<1>3. PICK f : f = Top
  OBVIOUS
<1>4. FrameOnWay(f, actions, gmcp_handlers)
  <2>1. Len(stack) \in 1..Len(stack)
    BY <1>2
  <2> QED
    BY <2>1, <1>2, <1>3 DEF IInv, Ways
<1>5. f.cut
  BY <1>1, <1>3, <1>4 DEF FrameOnWay, OnWay, Stands, ListOf, ListIn
<1>6. stack' = stack /\ Top' = Top
  BY <1>1 DEF Top
<1>7. Lost'
  BY <1>1, <1>3, <1>5, <1>6 DEF Lost
<1>8. /\ Sorted' /\ actions' = actions /\ PathTypeOK'
      /\ GmcpTypeOK' /\ gmcp_handlers' = gmcp_handlers
  BY <1>1, SameActions, SameHandlers, SamePath
<1>9. TypeOK'
  BY <1>1, <1>6, <1>8 DEF IInv, TypeOK, Sorted
<1>10. Ways'
  BY <1>6, <1>8 DEF IInv, Ways
<1>11. Tracked'
  BY <1>1, <1>6 DEF IInv, Tracked, pathvars
<1> QED
  BY <1>7, <1>8, <1>9, <1>10, <1>11 DEF IInv

-----------------------------------------------------------------------------
(* #return.                                                                  *)

LEMMA ReturnStep == ASSUME IInv, ReturnCommand PROVE IInv'
<1>1. /\ fault = "none" /\ stack # <<>> /\ Top.kind = "input" /\ Top.rest # <<>>
      /\ path_length # 0 /\ path # <<>> /\ ReturnBegins /\ OnPath
      /\ UNCHANGED <<events, fault>>
  BY DEF ReturnCommand, Given, Running
<1>2. PICK f, g, h : /\ f = Input(Tail(Top.rest)) /\ g = Return(Last(path))
                     /\ h = Input(Code[step[Last(path)]])
  OBVIOUS
<1>3. PICK s, t : s = Append(Below, f) /\ t = s \o <<g, h>>
  OBVIOUS
<1>4. stack' = t
  BY <1>2, <1>3 DEF ReturnCommand, Frames
<1>5. /\ Len(stack) \in Nat \ {0} /\ Top = stack[Len(stack)] /\ Top \in Frame
      /\ Below \in Seq(Frame) /\ Len(Below) = Len(stack) - 1
      /\ \A i \in 1..Len(stack) - 1 : Below[i] = stack[i]
  BY <1>1, TopLemma
<1>6. f \in Frame /\ f.kind = "input"
  <2>1. Top \in InputFrame
    BY <1>1, <1>5, FrameLemma
  <2>2. Top.rest \in Seq(Command)
    BY <2>1 DEF InputFrame
  <2>3. Tail(Top.rest) \in Seq(Command)
    BY <2>2, <1>1, TailLemma
  <2> QED
    BY <2>3, <1>2, InputLemma
<1>7. Last(path) = path[Len(path)] /\ Last(path) \in Step
  BY <1>1, PathTypes, FrontLemma
<1>8. g \in Frame /\ g.kind = "return" /\ g.ln = path[Len(path)]
  <2>1. g = [kind |-> "return", ln |-> Last(path)]
    BY <1>2 DEF Return
  <2>2. g \in ReturnFrame /\ g.kind = "return" /\ g.ln = Last(path)
    BY <2>1, <1>7 DEF ReturnFrame
  <2> QED
    BY <2>2, <1>7, FrameLemma
<1>9. h \in Frame /\ h.kind = "input"
  <2>1. Code \in [Body \cup Func \cup Dir -> Seq(Command)]
    BY ScriptAssumption
  <2>2. step[Last(path)] \in Dir
    BY <1>7, PathTypes
  <2>3. Code[step[Last(path)]] \in Seq(Command)
    BY <2>1, <2>2
  <2> QED
    BY <2>3, <1>2, InputLemma
<1>10. /\ s \in Seq(Frame) /\ Len(s) = Len(stack) /\ s[Len(stack)] = f
       /\ \A i \in 1..Len(stack) - 1 : s[i] = stack[i]
  <2>1. /\ s \in Seq(Frame) /\ Len(s) = Len(Below) + 1 /\ s[Len(Below) + 1] = f
        /\ \A i \in 1..Len(Below) : s[i] = Below[i]
    BY <1>3, <1>5, <1>6, PushLemma
  <2> QED
    BY <2>1, <1>5
<1>11. /\ t \in Seq(Frame) /\ Len(t) = Len(stack) + 2
       /\ t[Len(stack)] = f /\ t[Len(stack) + 1] = g /\ t[Len(stack) + 2] = h
       /\ \A i \in 1..Len(stack) - 1 : t[i] = stack[i]
  <2>1. s \in Seq(Frame) /\ g \in Frame /\ h \in Frame
    BY <1>8, <1>9, <1>10
  <2>2. /\ t \in Seq(Frame) /\ Len(t) = Len(s) + 2
        /\ t[Len(s) + 1] = g /\ t[Len(s) + 2] = h
        /\ \A i \in 1..Len(s) : t[i] = s[i]
    BY <2>1, <1>3, PushTwoLemma
  <2>3. Len(stack) \in 1..Len(stack) /\ \A i \in 1..Len(stack) - 1 : i \in 1..Len(stack)
    BY <1>5
  <2> QED
    BY <2>2, <2>3, <1>10
<1>12. \A i \in Len(stack)..Len(t) : FrameOnWay(t[i], actions, gmcp_handlers)
  <2>1. \A i \in Len(stack)..Len(t) :
            i = Len(stack) \/ i = Len(stack) + 1 \/ i = Len(stack) + 2
    BY <1>5, <1>11
  <2>2. /\ FrameOnWay(f, actions, gmcp_handlers)
        /\ FrameOnWay(g, actions, gmcp_handlers)
        /\ FrameOnWay(h, actions, gmcp_handlers)
    BY <1>6, <1>8, <1>9 DEF FrameOnWay
  <2> QED
    BY <2>1, <2>2, <1>11
<1>13. /\ path' = path /\ step' = step
       /\ path_length' = path_length - 1 /\ return_flag' = FALSE
  BY <1>1 DEF ReturnBegins
<1>14. PathTypeOK'
  <2>1. path_length' \in 0..MAX_PATH_LENGTH
    BY <1>1, <1>13, PathTypes
  <2> QED
    BY <2>1, <1>13, PathTypes DEF PathTypeOK
<1>15. /\ nested' \in BOOLEAN /\ UNCHANGED <<actionvars, gmcpvars>>
       /\ ~nested' => NoReturn /\ path_length = Len(path)
  BY <1>1, OnPathLemma
<1>16. Tracked'
  <2>1. CASE nested'
    BY <2>1, TracksAnew
  <2>2. CASE ~nested'
    <3>1. PICK i : i = Len(stack) + 1
      OBVIOUS
    <3>2. i \in 1..Len(t) /\ t[i] = g
      BY <3>1, <1>5, <1>11
    <3>3. \A j \in 1..Len(t) : t[j].kind = "return" <=> i = j
      <4>1. \A j \in 1..Len(t) :
                \/ j \in 1..Len(stack) - 1 /\ j \in 1..Len(stack) /\ j # i
                \/ j = Len(stack) /\ j # i
                \/ j = i
                \/ j = Len(stack) + 2 /\ j # i
        BY <3>1, <1>5, <1>11
      <4>2. \A j \in 1..Len(stack) - 1 : j \in 1..Len(stack) => t[j].kind # "return"
        BY <2>2, <1>11, <1>15 DEF NoReturn
      <4>3. t[Len(stack)].kind # "return" /\ t[Len(stack) + 2].kind # "return"
        BY <1>6, <1>9, <1>11
      <4>4. t[i].kind = "return"
        BY <3>2, <1>8
      <4> QED
        BY <4>1, <4>2, <4>3, <4>4
    <3>4. path' # <<>> /\ t[i].ln = path'[Len(path')]
      BY <3>2, <1>1, <1>8, <1>13
    <3>5. path_length' = Len(path') - 1 /\ ~return_flag'
      BY <2>2, <1>13, <1>15
    <3> QED
      BY <3>2, <3>3, <3>4, <3>5, <1>4 DEF Tracked
  <2> QED
    BY <2>1, <2>2
<1>17. Len(t) >= Len(stack) - 1
  BY <1>5, <1>11
<1>18. fault' = "none" /\ events' \in 0..MaxEvents
  BY <1>1 DEF IInv, TypeOK
<1> QED
  BY <1>1, <1>4, <1>11, <1>12, <1>14, <1>15, <1>16, <1>17, <1>18, StackLemma

\* A list of distinct elements is as long as what it holds.
LEMMA CountLemma ==
    ASSUME NEW S, NEW s \in Seq(S), IsInjective(s)
    PROVE  /\ IsFiniteSet(Range(s)) /\ Cardinality(Range(s)) = Len(s)
<1>1. /\ Len(s) \in Nat /\ DOMAIN s = 1..Len(s) /\ s \in [1..Len(s) -> S]
      /\ \A x : x \in Range(s) <=> \E i \in 1..Len(s) : s[i] = x
      /\ \A i \in 1..Len(s) : s[i] \in Range(s)
  BY RangeLemma, LenProperties
<1>2. s \in [1..Len(s) -> Range(s)]
  BY <1>1
<1>3. s \in Surjection(1..Len(s), Range(s))
  BY <1>1, <1>2 DEF Surjection
<1>4. s \in Injection(1..Len(s), Range(s))
  BY <1>2 DEF Injection
<1>5. IsFiniteSet(1..Len(s)) /\ Cardinality(1..Len(s)) = Len(s)
  BY <1>1, FS_Interval, SMTT(30)
<1> QED
  BY <1>3, <1>4, <1>5, FS_Surjection

LEMMA ReturnedStep == ASSUME IInv, Returned PROVE IInv'
<1>1. /\ fault = "none" /\ stack # <<>> /\ Top.kind = "return" /\ ReturnEnds(Top.ln)
      /\ stack' = Below /\ UNCHANGED <<actionvars, gmcpvars, nested, events, fault>>
  BY DEF Returned
<1>2. PICK t, ln, p : t = Below /\ ln = Top.ln /\ p = Without(path, {ln})
  OBVIOUS
<1>3. /\ Len(stack) \in Nat \ {0} /\ Top = stack[Len(stack)]
      /\ t \in Seq(Frame) /\ Len(t) = Len(stack) - 1
      /\ \A i \in 1..Len(stack) - 1 : t[i] = stack[i]
  BY <1>1, <1>2, TopLemma
<1>4. path' = p /\ return_flag' = TRUE /\ step' = step /\ path_length' = path_length
  BY <1>1, <1>2 DEF ReturnEnds
<1>5. p \in Seq(Step) /\ IsInjective(p) /\ Range(p) = Range(path) \ {ln}
  BY <1>2, PathTypes, WithoutLemma
<1>6. PathTypeOK'
  BY <1>4, <1>5, PathTypes DEF IInv, TypeOK, PathTypeOK
<1>7. Tracked'
  <2>1. CASE nested
    BY <2>1, <1>1 DEF Tracked
  <2>2. CASE ~nested
    <3>1. Len(stack) \in 1..Len(stack) /\ stack[Len(stack)].kind = "return"
      BY <1>1, <1>3
    <3>2. /\ \A j \in 1..Len(stack) : stack[j].kind = "return" => j = Len(stack)
          /\ path # <<>> /\ ln = path[Len(path)] /\ path_length = Len(path) - 1
      BY <2>2, <3>1, <1>2, <1>3 DEF IInv, Tracked
    <3>3. NoReturn'
      <4>1. \A i \in 1..Len(stack) - 1 : i \in 1..Len(stack) /\ i # Len(stack)
        BY <1>3
      <4>2. \A i \in 1..Len(t) : t[i].kind # "return"
        BY <4>1, <3>2, <1>3
      <4> QED
        BY <4>2, <1>1, <1>2 DEF NoReturn
    <3>4. ln \in Range(path)
      <4>1. Len(path) \in 1..Len(path)
        BY <3>2, PathTypes, EmptySeq
      <4> QED
        BY <4>1, <3>2, PathTypes, RangeLemma
    <3>5. /\ IsFiniteSet(Range(path)) /\ Cardinality(Range(path)) = Len(path)
          /\ Cardinality(Range(p)) = Len(p)
      BY <1>5, PathTypes, CountLemma
    <3>6. Cardinality(Range(path) \ {ln}) = Cardinality(Range(path)) - 1
      BY <3>4, <3>5, FS_RemoveElement
    <3>7. path_length' = Len(path')
      BY <3>2, <3>5, <3>6, <1>4, <1>5
    <3> QED
      BY <3>3, <3>7, <1>4, TracksAnew
  <2> QED
    BY <2>1, <2>2
<1>8. \A i \in Len(stack)..Len(t) : FALSE
  BY <1>3
<1>9. Len(t) >= Len(stack) - 1 /\ nested' \in BOOLEAN /\ events' \in 0..MaxEvents
  BY <1>1, <1>3 DEF IInv, TypeOK
<1> QED
  BY <1>1, <1>2, <1>3, <1>6, <1>7, <1>8, <1>9, StackLemma

\* What ends the behaviour, other than a walk that lost its way or a bad row.
LEMMA CrashLemma ==
    ASSUME IInv, NEW what \in {"null_right", "stack_overflow"}, Crash(what)
    PROVE  IInv'
<1>1. fault' = what /\ UNCHANGED <<actionvars, pathvars, gmcpvars, stack, nested, events>>
  BY DEF Crash
<1>2. /\ Sorted' /\ actions' = actions /\ PathTypeOK'
      /\ GmcpTypeOK' /\ gmcp_handlers' = gmcp_handlers
  BY <1>1, SameActions, SameHandlers, SamePath
<1>3. TypeOK'
  BY <1>1, <1>2 DEF IInv, TypeOK, Sorted
<1>4. Lost' /\ Ways'
  BY <1>1, <1>2 DEF IInv, Lost, Ways
<1>5. Tracked'
  BY <1>1 DEF IInv, Tracked, pathvars
<1> QED
  BY <1>2, <1>3, <1>4, <1>5 DEF IInv

LEMMA ReturnOfHeadStep == ASSUME IInv, ReturnOfHead PROVE IInv'
BY CrashLemma DEF ReturnOfHead

LEMMA OverflowStep == ASSUME IInv, Overflow PROVE IInv'
BY CrashLemma DEF Overflow

-----------------------------------------------------------------------------
(* Events.                                                                   *)

LEMMA EventLemma ==
    ASSUME IInv, Event
    PROVE  /\ events' \in 0..MaxEvents /\ fault = "none" /\ stack = <<>> /\ Len(stack) = 0
           /\ ~nested => path_length = Len(path) /\ return_flag
<1>1. /\ fault = "none" /\ stack = <<>> /\ events < MaxEvents /\ events' = events + 1
      /\ events \in 0..MaxEvents /\ MaxEvents \in Nat
  BY ScriptAssumption DEF Event, IInv, TypeOK
<1>2. Len(stack) = 0
  BY <1>1
<1>3. ~nested => path_length = Len(path) /\ return_flag
  BY <1>2 DEF IInv, Tracked
<1>4. events' \in 0..MaxEvents
  BY <1>1
<1> QED
  BY <1>1, <1>2, <1>3, <1>4

\* One frame is put on the empty stack.
LEMMA StartLemma ==
    ASSUME IInv, Event, NEW f \in Frame, f.kind # "return", stack' = <<f>>,
           FrameOnWay(f, actions, gmcp_handlers),
           UNCHANGED <<actionvars, pathvars, gmcpvars, nested, fault>>
    PROVE  IInv'
<1>1. /\ events' \in 0..MaxEvents /\ fault = "none"
      /\ ~nested => path_length = Len(path) /\ return_flag
  BY EventLemma
<1>2. PICK t : t = <<f>>
  OBVIOUS
<1>3. t \in Seq(Frame) /\ Len(t) = 1 /\ t[1] = f
  BY <1>2
<1>4. \A i \in 1..Len(t) : i = 1
  BY <1>3
<1>5. /\ Sorted' /\ actions' = actions /\ PathTypeOK'
      /\ GmcpTypeOK' /\ gmcp_handlers' = gmcp_handlers
  BY SameActions, SameHandlers, SamePath
<1>6. TypeOK'
  BY <1>1, <1>2, <1>3, <1>5 DEF IInv, TypeOK, Sorted
<1>7. Lost'
  BY <1>1 DEF Lost
<1>8. \A i \in 1..Len(t) : FrameOnWay(t[i], actions, gmcp_handlers) /\ t[i].kind # "return"
  BY <1>3, <1>4
<1>9. Ways'
  BY <1>2, <1>5, <1>8 DEF Ways
<1>10. Tracked'
  <2>1. NoReturn'
    BY <1>2, <1>8 DEF NoReturn
  <2>2. path' = path /\ path_length' = path_length /\ return_flag' = return_flag
    BY DEF pathvars
  <2> QED
    BY <2>1, <2>2, <1>1, TracksAnew
<1> QED
  BY <1>5, <1>6, <1>7, <1>9, <1>10 DEF IInv

\* A walk starts at the head of its list, with all it has to run before it.
LEMMA WalkLemma ==
    ASSUME IInv, NEW list \in {"actions", "handlers"}, NEW what \in Line \cup Var,
           NEW f, f = Walk(list, what, Hits(list, what))
    PROVE  f \in Frame /\ f.kind = "walk" /\ FrameOnWay(f, actions, gmcp_handlers)
<1>1. PICK due : due = Hits(list, what)
  OBVIOUS
<1>2. f = [kind |-> "walk", list |-> list, what |-> what, at |-> HEAD, due |-> due, cut |-> FALSE]
  BY <1>1 DEF Walk
<1>3. /\ actions \in Seq(Node) /\ gmcp_handlers \in Seq(Handler)
  BY DEF IInv, TypeOK, ActionsTypeOK, GmcpTypeOK
<1>4. /\ \A y \in due : y \in Range(ListIn(f, actions, gmcp_handlers))
      /\ due \in SUBSET (Node \cup Handler)
  <2>1. f.list = list
    BY <1>2
  <2>2. CASE list = "actions"
    <3>1. ListIn(f, actions, gmcp_handlers) = actions
      BY <2>1, <2>2 DEF ListIn
    <3>2. \A y \in due : y \in Range(actions)
      BY <1>1, <2>2 DEF Hits
    <3>3. \A y \in Range(actions) : y \in Node
      BY <1>3, RangeLemma
    <3> QED
      BY <3>1, <3>2, <3>3
  <2>3. CASE list # "actions"
    <3>1. ListIn(f, actions, gmcp_handlers) = gmcp_handlers
      BY <2>1, <2>3 DEF ListIn
    <3>2. \A y \in due : y \in Range(gmcp_handlers)
      BY <1>1, <2>3 DEF Hits
    <3>3. \A y \in Range(gmcp_handlers) : y \in Handler
      BY <1>3, RangeLemma
    <3> QED
      BY <3>1, <3>2, <3>3
  <2> QED
    BY <2>2, <2>3
<1>5. f \in WalkFrame
  BY <1>2, <1>4 DEF WalkFrame
<1>6. f.kind = "walk" /\ f.at = HEAD /\ f.due = due
  BY <1>2
<1>7. FrameOnWay(f, actions, gmcp_handlers)
  BY <1>4, <1>6 DEF FrameOnWay, OnWay
<1> QED
  BY <1>5, <1>6, <1>7, FrameLemma

LEMMA LineStep == ASSUME IInv, NEW line \in Line, DoOneLine(line) PROVE IInv'
<1>1. PICK f : f = Walk("actions", line, Hits("actions", line))
  OBVIOUS
<1>2. /\ Event /\ stack' = <<f>>
      /\ UNCHANGED <<actionvars, pathvars, gmcpvars, nested, fault>>
  BY <1>1 DEF DoOneLine
<1>3. f \in Frame /\ f.kind = "walk" /\ FrameOnWay(f, actions, gmcp_handlers)
  BY <1>1, WalkLemma
<1> QED
  BY <1>2, <1>3, StartLemma

LEMMA MessageStep == ASSUME IInv, NEW var \in Var, GmcpMessage(var) PROVE IInv'
<1>1. PICK f : f = Walk("handlers", var, Hits("handlers", var))
  OBVIOUS
<1>2. /\ Event /\ stack' = <<f>>
      /\ UNCHANGED <<actionvars, pathvars, gmcpvars, nested, fault>>
  BY <1>1 DEF GmcpMessage
<1>3. f \in Frame /\ f.kind = "walk" /\ FrameOnWay(f, actions, gmcp_handlers)
  BY <1>1, WalkLemma
<1> QED
  BY <1>2, <1>3, StartLemma

LEMMA TypedStep == ASSUME IInv, NEW command \in Commands, Typed(command) PROVE IInv'
<1>1. PICK f : f = Input(<<command>>)
  OBVIOUS
<1>2. /\ Event /\ stack' = <<f>>
      /\ UNCHANGED <<actionvars, pathvars, gmcpvars, nested, fault>>
  BY <1>1 DEF Typed
<1>3. command \in Command
  BY ScriptAssumption
<1>4. <<command>> \in Seq(Command)
  BY <1>3
<1>5. f \in Frame /\ f.kind = "input"
  BY <1>1, <1>4, InputLemma
<1>6. FrameOnWay(f, actions, gmcp_handlers)
  BY <1>5 DEF FrameOnWay
<1> QED
  BY <1>2, <1>5, <1>6, StartLemma

-----------------------------------------------------------------------------
(* Commands that report: a walk over the triggers is put on the stack.       *)

LEMMA ReportLemma ==
    /\ Report.marked \in Line /\ Report.forgotten \in Line
    /\ Report.no_move \in Line /\ Report.no_place \in Line
BY ScriptAssumption

\* The stack once the command is taken from its line.
LEMMA FramesLemma ==
    ASSUME IInv, Running, NEW s, s = Frames
    PROVE  /\ fault = "none" /\ stack # <<>> /\ Top.kind # "return"
           /\ Len(stack) \in Nat \ {0}
           /\ s \in Seq(Frame) /\ Len(s) = Len(stack) /\ s[Len(stack)].kind = "input"
           /\ \A i \in 1..Len(stack) - 1 : s[i] = stack[i]
<1>1. /\ fault = "none" /\ stack # <<>> /\ Top.kind = "input" /\ Top.rest # <<>>
  BY DEF Running
<1>2. PICK f : f = Input(Tail(Top.rest))
  OBVIOUS
<1>3. /\ Len(stack) \in Nat \ {0} /\ Top = stack[Len(stack)] /\ Top \in Frame
      /\ Below \in Seq(Frame) /\ Len(Below) = Len(stack) - 1
      /\ \A i \in 1..Len(stack) - 1 : Below[i] = stack[i]
  BY <1>1, TopLemma
<1>4. f \in Frame /\ f.kind = "input"
  <2>1. Top \in InputFrame
    BY <1>1, <1>3, FrameLemma
  <2>2. Top.rest \in Seq(Command)
    BY <2>1 DEF InputFrame
  <2>3. Tail(Top.rest) \in Seq(Command)
    BY <2>2, <1>1, TailLemma
  <2> QED
    BY <2>3, <1>2, InputLemma
<1>5. s = Append(Below, f)
  BY <1>2 DEF Frames
<1>6. /\ s \in Seq(Frame) /\ Len(s) = Len(Below) + 1 /\ s[Len(Below) + 1] = f
      /\ \A i \in 1..Len(Below) : s[i] = Below[i]
  BY <1>5, <1>3, <1>4, PushLemma
<1> QED
  BY <1>1, <1>3, <1>4, <1>6

\* The command is taken, and a walk that has all to run put on top.
LEMMA PutsLemma ==
    ASSUME IInv, Running, NEW line \in Line, Puts(line)
    PROVE  /\ fault = "none" /\ stack # <<>> /\ Top.kind # "return"
           /\ Len(stack) \in Nat \ {0}
           /\ stack' \in Seq(Frame) /\ Len(stack') = Len(stack) + 1
           /\ \A i \in 1..Len(stack) - 1 : stack'[i] = stack[i]
           /\ \A i \in Len(stack)..Len(stack') :
                /\ FrameOnWay(stack'[i], actions, gmcp_handlers)
                /\ stack'[i].kind # "return"
           /\ UNCHANGED <<events, fault>>
<1>1. PICK s, f, t : /\ s = Frames /\ f = Walk("actions", line, Hits("actions", line))
                     /\ t = Append(s, f)
  OBVIOUS
<1>2. /\ fault = "none" /\ stack # <<>> /\ Top.kind # "return"
      /\ Len(stack) \in Nat \ {0}
      /\ s \in Seq(Frame) /\ Len(s) = Len(stack) /\ s[Len(stack)].kind = "input"
      /\ \A i \in 1..Len(stack) - 1 : s[i] = stack[i]
  BY <1>1, FramesLemma
<1>3. f \in Frame /\ f.kind = "walk" /\ FrameOnWay(f, actions, gmcp_handlers)
  BY <1>1, WalkLemma
<1>4. stack' = t /\ UNCHANGED <<events, fault>>
  <2>1. stack' = s \o <<f>> /\ UNCHANGED <<events, fault>>
    BY <1>1 DEF Puts
  <2> QED
    BY <2>1, <1>1, <1>2, <1>3, AppendIsConcat
<1>5. /\ t \in Seq(Frame) /\ Len(t) = Len(s) + 1 /\ t[Len(s) + 1] = f
      /\ \A i \in 1..Len(s) : t[i] = s[i]
  BY <1>1, <1>2, <1>3, PushLemma
<1>6. /\ Len(t) = Len(stack) + 1 /\ t[Len(stack) + 1] = f /\ t[Len(stack)] = s[Len(stack)]
      /\ \A i \in 1..Len(stack) - 1 : t[i] = stack[i]
  <2>1. Len(stack) \in 1..Len(stack) /\ \A i \in 1..Len(stack) - 1 : i \in 1..Len(stack)
    BY <1>2
  <2> QED
    BY <2>1, <1>2, <1>5
<1>7. \A i \in Len(stack)..Len(t) :
        FrameOnWay(t[i], actions, gmcp_handlers) /\ t[i].kind # "return"
  <2>1. \A i \in Len(stack)..Len(t) : i = Len(stack) \/ i = Len(stack) + 1
    BY <1>2, <1>6
  <2>2. FrameOnWay(t[Len(stack)], actions, gmcp_handlers)
    BY <1>2, <1>6 DEF FrameOnWay
  <2> QED
    BY <2>1, <2>2, <1>2, <1>3, <1>6
<1> QED
  BY <1>2, <1>4, <1>5, <1>6, <1>7

LEMMA PutsNoReturn ==
    ASSUME IInv, Running, NEW line \in Line, Puts(line), NoReturn
    PROVE  NoReturn'
<1>1. /\ Len(stack) \in Nat \ {0} /\ Len(stack') = Len(stack) + 1
      /\ \A i \in 1..Len(stack) - 1 : stack'[i] = stack[i]
      /\ \A i \in Len(stack)..Len(stack') : stack'[i].kind # "return"
  BY PutsLemma
<1>2. \A i \in 1..Len(stack') :
        \/ i \in 1..Len(stack) - 1 /\ i \in 1..Len(stack)
        \/ i \in Len(stack)..Len(stack')
  BY <1>1
<1> QED
  BY <1>1, <1>2 DEF NoReturn

LEMMA PutsStep ==
    ASSUME IInv, Running, NEW line \in Line, Puts(line), UNCHANGED <<actionvars, gmcpvars>>,
           PathTypeOK', Tracked', nested' \in BOOLEAN
    PROVE  IInv'
<1>1. /\ fault = "none" /\ stack # <<>> /\ Len(stack) \in Nat \ {0}
      /\ stack' \in Seq(Frame) /\ Len(stack') = Len(stack) + 1
      /\ \A i \in 1..Len(stack) - 1 : stack'[i] = stack[i]
      /\ \A i \in Len(stack)..Len(stack') : FrameOnWay(stack'[i], actions, gmcp_handlers)
      /\ UNCHANGED <<events, fault>>
  BY PutsLemma
<1>2. Len(stack') >= Len(stack) - 1
  BY <1>1
<1>3. fault' = "none" /\ events' \in 0..MaxEvents
  BY <1>1 DEF IInv, TypeOK
<1> QED
  BY <1>1, <1>2, <1>3, StackLemma

LEMMA PutsPlain ==
    ASSUME IInv, Running, NEW line \in Line, Puts(line),
           UNCHANGED <<actionvars, pathvars, gmcpvars, nested>>
    PROVE  IInv'
<1>1. /\ fault = "none" /\ stack # <<>> /\ Top.kind # "return" /\ Len(stack) \in Nat \ {0}
      /\ stack' \in Seq(Frame) /\ Len(stack') = Len(stack) + 1
      /\ \A i \in 1..Len(stack) - 1 : stack'[i] = stack[i]
      /\ \A i \in Len(stack)..Len(stack') :
            FrameOnWay(stack'[i], actions, gmcp_handlers) /\ stack'[i].kind # "return"
      /\ UNCHANGED <<events, fault>>
  BY PutsLemma
<1>2. Len(stack') >= Len(stack) - 1
  BY <1>1
<1> QED
  BY <1>1, <1>2, TurnLemma

LEMMA MarkStep == ASSUME IInv, MarkCommand PROVE IInv'
<1>1. Running /\ mark_command /\ OnPath /\ Puts(Report.marked)
  BY DEF MarkCommand, Given
<1>2. /\ path' = <<>> /\ path_length' = 0
      /\ step' = step /\ return_flag' = return_flag
  BY <1>1 DEF mark_command
<1>3. PathTypeOK'
  <2>1. <<>> \in Seq(Step) /\ IsInjective(<<>>)
    BY EmptyLemma DEF IsInjective
  <2>2. 0 \in 0..MAX_PATH_LENGTH
    BY PathTypes
  <2> QED
    BY <2>1, <2>2, <1>2, PathTypes DEF PathTypeOK
<1>4. /\ nested' \in BOOLEAN /\ UNCHANGED <<actionvars, gmcpvars>>
      /\ ~nested' => NoReturn /\ return_flag
  BY <1>1, OnPathLemma
<1>6. Report.marked \in Line
  BY ReportLemma
<1>5. Tracked'
  <2>1. CASE nested'
    BY <2>1, TracksAnew
  <2>2. CASE ~nested'
    <3>1. NoReturn' /\ return_flag'
      BY <2>2, <1>1, <1>2, <1>4, <1>6, PutsNoReturn
    <3>2. path_length' = Len(path')
      BY <1>2, EmptyLemma
    <3> QED
      BY <3>1, <3>2, TracksAnew
  <2> QED
    BY <2>1, <2>2
<1> QED
  BY <1>1, <1>3, <1>4, <1>5, <1>6, PutsStep

LEMMA UnpathStep == ASSUME IInv, UnpathCommand PROVE IInv'
<1>0. PICK line \in Line : line = IF path_length # 0 THEN Report.forgotten ELSE Report.no_move
  BY ReportLemma
<1>1. Running /\ unpath_command /\ OnPath /\ Puts(line)
  BY <1>0 DEF UnpathCommand, Given
<1>2. /\ nested' \in BOOLEAN /\ UNCHANGED <<actionvars, gmcpvars>>
      /\ ~nested' => NoReturn /\ path_length = Len(path) /\ return_flag
  BY <1>1, OnPathLemma
<1>3. ~nested' => NoReturn'
  BY <1>1, <1>2, PutsNoReturn
<1>4. CASE path_length = 0
  <2>1. UNCHANGED pathvars
    BY <1>1, <1>4 DEF unpath_command
  <2>2. PathTypeOK'
    BY <2>1, SamePath
  <2>3. path' = path /\ path_length' = path_length /\ return_flag' = return_flag
    BY <2>1 DEF pathvars
  <2>4. Tracked'
    BY <2>3, <1>2, <1>3, TracksAnew
  <2> QED
    BY <2>2, <2>4, <1>1, <1>2, PutsStep
<1>5. CASE path_length # 0
  <2>1. /\ path_length' = path_length - 1 /\ path' = Front(path)
        /\ step' = step /\ return_flag' = return_flag
    BY <1>1, <1>5 DEF unpath_command
  <2>2. PICK t : t = Front(path)
    OBVIOUS
  <2>3. /\ t \in Seq(Step) /\ IsInjective(t)
        /\ path # <<>> => Len(t) = Len(path) - 1
    BY <2>2, PathTypes, ShorterLemma
  <2>4. PathTypeOK'
    <3>1. path_length' \in 0..MAX_PATH_LENGTH
      BY <2>1, <1>5, PathTypes
    <3> QED
      BY <3>1, <2>1, <2>2, <2>3, PathTypes DEF PathTypeOK
  <2>5. Tracked'
    <3>1. CASE nested'
      BY <3>1, TracksAnew
    <3>2. CASE ~nested'
      <4>1. NoReturn' /\ return_flag' /\ path_length = Len(path)
        BY <3>2, <2>1, <1>2, <1>3
      <4>2. path # <<>>
        BY <4>1, <1>5, EmptyLemma
      <4>3. path_length' = Len(path')
        BY <4>1, <4>2, <2>1, <2>2, <2>3
      <4> QED
        BY <4>1, <4>3, TracksAnew
    <3> QED
      BY <3>1, <3>2
  <2> QED
    BY <2>4, <2>5, <1>1, <1>2, PutsStep
<1> QED
  BY <1>4, <1>5

LEMMA NoPlaceStep == ASSUME IInv, NoPlaceToReturn PROVE IInv'
<1>1. /\ Running /\ Puts(Report.no_place)
      /\ UNCHANGED <<actionvars, pathvars, gmcpvars, nested>>
  BY DEF NoPlaceToReturn, Given
<1> QED
  BY <1>1, ReportLemma, PutsPlain

LEMMA ShowStep == ASSUME IInv, Show PROVE IInv'
<1>1. /\ Running /\ Arg.op = "show" /\ Puts(Arg.line)
      /\ UNCHANGED <<actionvars, pathvars, gmcpvars, nested>>
  BY DEF Show, Given, Arg
<1>2. Arg \in Command
  <2>1. fault = "none" /\ stack # <<>> /\ Top.kind = "input" /\ Top.rest # <<>>
    BY <1>1 DEF Running
  <2>2. Top \in InputFrame
    BY <2>1, TopLemma, FrameLemma
  <2>3. Top.rest \in Seq(Command)
    BY <2>2 DEF InputFrame
  <2> QED
    BY <2>1, <2>3, TailLemma DEF Arg
<1>3. Arg.line \in Line
  BY <1>1, <1>2, CommandTypes
<1> QED
  BY <1>1, <1>3, PutsPlain

-----------------------------------------------------------------------------
(* The window.                                                               *)

\* A click only touches the triggers and the window.
LEMMA ClickLemma ==
    ASSUME IInv, Click, Sorted', fault' = "none" \/ (fault' = "freed_row" /\ behind')
    PROVE  IInv'
<1>1. /\ Event /\ UNCHANGED <<pathvars, gmcpvars, stack, nested>>
  BY DEF Click
<1>2. events' \in 0..MaxEvents /\ Len(stack) = 0 /\ stack' = stack
  BY <1>1, EventLemma
<1>3. PathTypeOK' /\ GmcpTypeOK'
  BY <1>1, SamePath, SameHandlers
<1>4. TypeOK'
  BY <1>1, <1>2, <1>3 DEF IInv, TypeOK, Sorted
<1>5. Lost'
  BY DEF Lost
<1>6. Ways'
  BY <1>2 DEF Ways
<1>7. Tracked'
  BY <1>1 DEF IInv, Tracked, pathvars
<1> QED
  BY <1>4, <1>5, <1>6, <1>7 DEF IInv

\* The rows are those of the list.
LEMMA RefillLemma ==
    ASSUME NEW acts \in Seq(Node), IsInjective(acts), NEW heap \in [Node -> Listnode],
           Rising(acts, heap), acts = actions', heap = node',
           enabled' \in [Class -> {"on", "off", "none"}], window' \in BOOLEAN,
           rows' = Filled(acts, heap), behind' = FALSE
    PROVE  Sorted'
<1>1. Filled(acts, heap) \in Seq(Row)
  BY FilledFacts
<1>2. ActionsTypeOK'
  BY <1>1 DEF ActionsTypeOK
<1>3. Rising(actions, node)' /\ RowsTrue'
  BY DEF RowsTrue
<1> QED
  BY <1>2, <1>3 DEF Sorted

LEMMA ActionsTypes ==
    ASSUME IInv
    PROVE  /\ ActionsTypeOK /\ Rising(actions, node) /\ RowsTrue
           /\ actions \in Seq(Node) /\ IsInjective(actions)
           /\ node \in [Node -> Listnode]
           /\ enabled \in [Class -> {"on", "off", "none"}]
           /\ window \in BOOLEAN /\ rows \in Seq(Row) /\ behind \in BOOLEAN
BY DEF IInv, Sorted, ActionsTypeOK

LEMMA OpenStep == ASSUME IInv, OpenTriggers PROVE IInv'
<1>1. /\ Click /\ window' = TRUE /\ rows' = Filled(actions, node) /\ behind' = FALSE
      /\ actions' = actions /\ node' = node /\ enabled' = enabled /\ fault' = fault
  BY DEF OpenTriggers
<1>2. Sorted'
  BY <1>1, ActionsTypes, RefillLemma
<1>3. fault' = "none"
  BY <1>1 DEF Click, Event
<1> QED
  BY <1>1, <1>2, <1>3, ClickLemma

LEMMA CloseStep == ASSUME IInv, CloseTriggers PROVE IInv'
<1>1. /\ Click /\ window' = FALSE /\ rows' = <<>> /\ behind' = FALSE
      /\ actions' = actions /\ node' = node /\ enabled' = enabled /\ fault' = fault
  BY DEF CloseTriggers
<1>2. ActionsTypeOK'
  <2>1. <<>> \in Seq(Row)
    OBVIOUS
  <2> QED
    BY <2>1, <1>1, ActionsTypes DEF ActionsTypeOK
<1>3. Rising(actions, node)'
  BY <1>1, ActionsTypes
<1>4. RowsTrue'
  BY <1>1 DEF RowsTrue
<1>5. fault' = "none"
  BY <1>1 DEF Click, Event
<1> QED
  BY <1>1, <1>2, <1>3, <1>4, <1>5, ClickLemma DEF Sorted

LEMMA AddStep ==
    ASSUME IInv, NEW left \in Left, NEW right \in Body, NEW class \in Class,
           AddTrigger(left, right, class)
    PROVE  IInv'
<1>1. /\ Click /\ Define(left, right, class, Same(left)) /\ Refill
      /\ window' = window /\ fault' = fault
  BY DEF AddTrigger
<1>2. PICK acts, heap : acts = actions' /\ heap = node'
  OBVIOUS
<1>3. /\ acts \in Seq(Node) /\ IsInjective(acts) /\ heap \in [Node -> Listnode]
      /\ enabled' \in [Class -> {"on", "off", "none"}]
      /\ Rising(acts, heap)
  BY <1>1, <1>2, ActionsTypes, DefineLemma
<1>4. rows' = Filled(acts, heap) /\ behind' = FALSE
  BY <1>1, <1>2 DEF Refill
<1>5. Sorted'
  BY <1>1, <1>2, <1>3, <1>4, ActionsTypes, RefillLemma
<1>6. fault' = "none"
  BY <1>1 DEF Click, Event
<1> QED
  BY <1>1, <1>5, <1>6, ClickLemma

LEMMA ToggleClassStep ==
    ASSUME IInv, NEW class \in Class, NEW on \in BOOLEAN, ToggleClass(class, on)
    PROVE  IInv'
<1>1. /\ Click /\ EnableClass(class, on)
      /\ IF window THEN Refill ELSE UNCHANGED <<rows, behind>>
      /\ window' = window /\ fault' = fault
  BY DEF ToggleClass
<1>2. PICK acts, heap : acts = actions' /\ heap = node'
  OBVIOUS
<1>3. /\ acts = actions /\ heap \in [Node -> Listnode]
      /\ enabled' \in [Class -> {"on", "off", "none"}]
      /\ Rising(acts, heap)
  BY <1>1, <1>2, ActionsTypes, EnableClassLemma
<1>4. acts \in Seq(Node) /\ IsInjective(acts)
  BY <1>3, ActionsTypes
<1>5. Sorted'
  <2>1. CASE window
    <3>1. rows' = Filled(acts, heap) /\ behind' = FALSE
      BY <2>1, <1>1, <1>2 DEF Refill
    <3> QED
      BY <3>1, <1>1, <1>2, <1>3, <1>4, ActionsTypes, RefillLemma
  <2>2. CASE ~window
    <3>1. rows' = rows /\ behind' = behind /\ window' = FALSE
      BY <2>2, <1>1, ActionsTypes
    <3>2. ActionsTypeOK'
      BY <3>1, <1>2, <1>3, <1>4, ActionsTypes DEF ActionsTypeOK
    <3>3. Rising(actions, node)' /\ RowsTrue'
      BY <3>1, <1>2, <1>3 DEF RowsTrue
    <3> QED
      BY <3>2, <3>3 DEF Sorted
  <2> QED
    BY <2>1, <2>2
<1>6. fault' = "none"
  BY <1>1 DEF Click, Event
<1> QED
  BY <1>1, <1>5, <1>6, ClickLemma

\* A row of a window that is not behind is of a trigger of the list.
LEMMA RowLemma ==
    ASSUME IInv, window, ~behind, NEW i \in DOMAIN rows, NEW d, d = rows[i].data
    PROVE  /\ rows = Filled(actions, node) /\ i \in 1..Len(rows)
           /\ d \in Range(actions) /\ d \in Node /\ rows[i].left = node[d].left
<1>1. rows = Filled(actions, node)
  BY ActionsTypes DEF RowsTrue
<1>2. PICK o : o = NodesShown(actions, node)
  OBVIOUS
<1>3. /\ o \in Seq(Node) /\ Range(o) = Shown(actions, node)
      /\ Len(rows) = Len(o)
      /\ \A k \in 1..Len(o) : rows[k] = RowOf(o[k], node)
  BY <1>1, <1>2, ActionsTypes, FilledFacts
<1>4. DOMAIN rows = 1..Len(rows)
  BY ActionsTypes, RangeLemma
<1>5. i \in 1..Len(o)
  BY <1>3, <1>4
<1>6. o[i] \in Node /\ o[i] \in Range(actions)
  <2>1. o[i] \in Node /\ o[i] \in Range(o)
    BY <1>3, <1>5, RangeLemma
  <2> QED
    BY <2>1, <1>3 DEF Shown
<1>7. rows[i].data = o[i] /\ rows[i].left = node[o[i]].left
  <2>1. rows[i] = RowOf(o[i], node)
    BY <1>3, <1>5
  <2>2. RowOf(o[i], node).data = o[i] /\ RowOf(o[i], node).left = node[o[i]].left
    BY DEF RowOf
  <2> QED
    BY <2>1, <2>2
<1> QED
  BY <1>1, <1>4, <1>6, <1>7

\* No two triggers have one pattern.
LEMMA OneOfPattern ==
    ASSUME IInv, NEW a \in Range(actions), NEW b \in Range(actions),
           node[a].left = node[b].left
    PROVE  a = b
<1>1. PICK i, j \in 1..Len(actions) : actions[i] = a /\ actions[j] = b
  BY ActionsTypes, RangeLemma
<1>2. i \in Nat /\ j \in Nat
  BY ActionsTypes, LenProperties
<1>3. node[a].left \in Nat /\ node[b].left \in Nat
  BY ActionsTypes, RangeLemma, LeftLemma
<1>4. ~(i < j) /\ ~(j < i)
  BY <1>1, <1>3, ActionsTypes DEF Rising, Follows
<1>5. i = j
  BY <1>2, <1>4
<1> QED
  BY <1>1, <1>5

LEMMA DeleteStep == ASSUME IInv, NEW i \in DOMAIN rows, DeleteTrigger(i) PROVE IInv'
<1>1. PICK gone, q, d : /\ gone = Wild(rows[i].left) /\ q = RemoveAt(rows, i)
                        /\ d = rows[i].data
  OBVIOUS
<1>2. /\ Click /\ window /\ rows' = q /\ Undefine(gone)
      /\ behind' = (behind \/ Glob[rows[i].left] # {rows[i].left})
      /\ window' = window /\ fault' = fault
  BY <1>1 DEF DeleteTrigger
<1>3. PICK acts, heap : acts = actions' /\ heap = node'
  OBVIOUS
<1>4. /\ acts \in Seq(Node) /\ IsInjective(acts) /\ heap \in [Node -> Listnode]
      /\ enabled' \in [Class -> {"on", "off", "none"}]
      /\ Rising(acts, heap)
      /\ \A x \in Node : x \notin gone => heap[x] = node[x]
  BY <1>2, <1>3, ActionsTypes, UndefineLemma
<1>5. q \in Seq(Row)
  <2>1. i \in 1..Len(rows)
    BY ActionsTypes, RangeLemma
  <2> QED
    BY <2>1, <1>1, ActionsTypes, RemoveLemma
<1>6. behind' \in BOOLEAN
  BY <1>2, ActionsTypes
<1>7. ActionsTypeOK'
  BY <1>2, <1>3, <1>4, <1>5, <1>6, ActionsTypes DEF ActionsTypeOK
<1>8. RowsTrue'
  <2>1. CASE behind'
    BY <2>1 DEF RowsTrue
  <2>2. CASE ~behind'
    <3>1. ~behind /\ Glob[rows[i].left] = {rows[i].left}
      BY <2>2, <1>2
    <3>2. /\ rows = Filled(actions, node) /\ i \in 1..Len(rows)
          /\ d \in Range(actions) /\ d \in Node /\ rows[i].left = node[d].left
      BY <3>1, <1>1, <1>2, RowLemma
    <3>3. gone = {d}
      <4>1. gone = {a \in Range(actions) : node[a].left = node[d].left}
        BY <3>1, <3>2, <1>1 DEF Wild
      <4> QED
        BY <4>1, <3>2, OneOfPattern
    <3>4. acts = Without(actions, {d})
      BY <3>3, <1>2, <1>3 DEF Undefine
    <3>5. \A x \in Node : x # d => heap[x] = node[x]
      BY <3>3, <1>4
    <3>6. Filled(acts, heap) = q
      <4>1. /\ actions \in Seq(Node) /\ IsInjective(actions) /\ node \in [Node -> Listnode]
            /\ Rising(actions, node)
        BY ActionsTypes
      <4>2. rows = Filled(actions, node) /\ i \in 1..Len(rows) /\ d = rows[i].data
        BY <3>2, <1>1
      <4>3. heap \in [Node -> Listnode]
        BY <1>4
      <4>4. Filled(acts, heap) = RemoveAt(rows, i)
        BY <4>1, <4>2, <4>3, <3>4, <3>5, DeletedLemma
      <4> QED
        BY <4>4, <1>1
    <3> QED
      BY <3>6, <1>2, <1>3 DEF RowsTrue
  <2> QED
    BY <2>1, <2>2
<1>9. fault' = "none"
  BY <1>2 DEF Click, Event
<1> QED
  BY <1>2, <1>3, <1>4, <1>7, <1>8, <1>9, ClickLemma DEF Sorted

LEMMA DoubleClickStep == ASSUME IInv, NEW i \in DOMAIN rows, DoubleClick(i) PROVE IInv'
<1>1. PICK d : d = rows[i].data
  OBVIOUS
<1>2. /\ Click /\ window
      /\ actions' = actions /\ enabled' = enabled /\ window' = window /\ behind' = behind
  BY DEF DoubleClick
<1>3. CASE Freed(d)
  <2>1. fault' = "freed_row" /\ node' = node /\ rows' = rows
    BY <1>1, <1>3 DEF DoubleClick
  <2>2. behind
    BY <1>1, <1>2, <1>3, RowLemma DEF Freed
  <2>3. UNCHANGED actionvars
    BY <2>1, <1>2 DEF actionvars
  <2> QED
    BY <2>1, <2>2, <2>3, <1>2, SameActions, ClickLemma
<1>4. CASE ~Freed(d)
  <2>1. PICK b : b = ~node[d].enabled
    OBVIOUS
  <2>2. d \in Range(actions) /\ d \in Node
    BY <1>4, ActionsTypes, RangeLemma DEF Freed
  <2>3. node[d] \in Listnode /\ node[d].enabled \in BOOLEAN
    BY <2>2, ActionsTypes DEF Listnode
  <2>4. b \in BOOLEAN
    BY <2>1, <2>3
  <2>5. PICK heap, q : /\ heap = [node EXCEPT ![d] = [node[d] EXCEPT !.enabled = b]]
                       /\ q = [rows EXCEPT ![i] = [rows[i] EXCEPT !.pixmap = b]]
    OBVIOUS
  <2>6. \A n \in Listnode : /\ [n EXCEPT !.enabled = b] \in Listnode
                            /\ [n EXCEPT !.enabled = b].left = n.left
                            /\ [n EXCEPT !.enabled = b].enabled = b
    BY <2>4 DEF Listnode
  <2>7. /\ node' = heap /\ fault' = fault
        /\ rows' = [rows EXCEPT ![i].pixmap = node'[d].enabled]
    BY <1>1, <1>4, <2>1, <2>5 DEF DoubleClick, Toggled
  <2>8. /\ heap \in [Node -> Listnode]
        /\ \A x \in Node : heap[x].left = node[x].left
        /\ heap[d].enabled = b
    <3>1. [node[d] EXCEPT !.enabled = b] \in Listnode
      BY <2>3, <2>6
    <3>2. heap \in [Node -> Listnode] /\ heap[d] = [node[d] EXCEPT !.enabled = b]
      BY <3>1, <2>2, <2>5, ActionsTypes
    <3>3. \A x \in Node : x # d => heap[x] = node[x]
      BY <2>2, <2>5, ActionsTypes
    <3>4. heap[d].left = node[d].left /\ heap[d].enabled = b
      BY <3>2, <2>3, <2>6
    <3> QED
      BY <3>2, <3>3, <3>4
  <2>9. rows' = q
    BY <2>5, <2>7, <2>8
  <2>10. q \in Seq(Row)
    <3>1. rows \in Seq(Row) /\ DOMAIN rows = 1..Len(rows) /\ Len(rows) \in Nat
          /\ \A k \in 1..Len(rows) : rows[k] \in Row
      BY ActionsTypes, RangeLemma
    <3>2. \A r \in Row : [r EXCEPT !.pixmap = b] \in Row
      BY <2>4 DEF Row
    <3>3. q = [k \in 1..Len(rows) |-> q[k]]
      BY <3>1, <2>5
    <3>4. \A k \in 1..Len(rows) : q[k] \in Row
      BY <3>1, <3>2, <2>5
    <3> QED
      BY <3>1, <3>3, <3>4, IsASeq
  <2>11. ActionsTypeOK'
    BY <2>7, <2>8, <2>9, <2>10, <1>2, ActionsTypes DEF ActionsTypeOK
  <2>12. Rising(actions, heap)
    <3>1. \A x, y : Follows(actions, x, y) => x \in Node /\ y \in Node
      BY ActionsTypes, FollowsLemma
    <3> QED
      BY <3>1, <2>8, ActionsTypes, RisingLemma
  <2>13. RowsTrue'
    <3>1. CASE behind
      BY <3>1, <1>2 DEF RowsTrue
    <3>2. CASE ~behind
      <4>1. rows = Filled(actions, node) /\ i \in 1..Len(rows)
        BY <3>2, <1>2, RowLemma
      <4>2. Filled(actions, heap) = q
        <5>1. actions \in Seq(Node) /\ IsInjective(actions) /\ node \in [Node -> Listnode]
          BY ActionsTypes
        <5>2. heap = Ball(node, d, b) /\ q = RowBall(rows, i, b)
          BY <2>5 DEF Ball, RowBall
        <5> QED
          BY <5>1, <5>2, <4>1, <2>4, <1>1, ToggledLemma
      <4> QED
        BY <4>2, <2>7, <2>9, <1>2 DEF RowsTrue
    <3> QED
      BY <3>1, <3>2
  <2>14. fault' = "none"
    BY <2>7, <1>2 DEF Click, Event
  <2> QED
    BY <2>7, <2>11, <2>12, <2>13, <2>14, <1>2, ClickLemma DEF Sorted
<1> QED
  BY <1>3, <1>4

-----------------------------------------------------------------------------
(* The invariant.                                                            *)

LEMMA Starts == Init => IInv
<1> SUFFICES ASSUME Init
             PROVE  IInv
  OBVIOUS
<1>1. /\ actions = <<>> /\ node = [a \in Node |-> Blank]
      /\ enabled = [c \in Class |-> "none"]
      /\ window = FALSE /\ rows = <<>> /\ behind = FALSE
  BY DEF Init, ActionsInit
<1>2. /\ path = <<>> /\ step = [a \in Step |-> CHOOSE d \in Dir : TRUE]
      /\ path_length = 0 /\ return_flag = TRUE
  BY DEF Init, PathInit
<1>3. gmcp_handlers = <<>> /\ handler = [h \in Handler |-> Unset]
  BY DEF Init, GmcpInit
<1>4. stack = <<>> /\ nested = FALSE /\ events = 0 /\ fault = "none"
  BY DEF Init
<1>5. IsInjective(<<>>) /\ Len(<<>>) = 0 /\ \A S : <<>> \in Seq(S)
  BY EmptyLemma DEF IsInjective
<1>6. ActionsTypeOK
  BY <1>1, <1>5, BlankLemma DEF ActionsTypeOK
<1>7. PathTypeOK
  <2>1. (CHOOSE d \in Dir : TRUE) \in Dir
    BY PathAssumption
  <2>2. step \in [Step -> Dir]
    BY <2>1, <1>2
  <2>3. path_length \in 0..MAX_PATH_LENGTH
    BY <1>2, PathAssumption
  <2> QED
    BY <2>2, <2>3, <1>2, <1>5 DEF PathTypeOK
<1>8. GmcpTypeOK
  BY <1>3, <1>5, UnsetLemma DEF GmcpTypeOK
<1>9. TypeOK
  <2>1. events \in 0..MaxEvents
    BY <1>4, ScriptAssumption
  <2> QED
    BY <2>1, <1>4, <1>5, <1>6, <1>7, <1>8 DEF TypeOK
<1>10. Rising(actions, node) /\ RowsTrue
  BY <1>1, <1>5 DEF Rising, Follows, RowsTrue
<1>11. Lost /\ Ways /\ Tracked
  BY <1>2, <1>4, <1>5 DEF Lost, Ways, Tracked
<1> QED
  BY <1>6, <1>9, <1>10, <1>11 DEF IInv, Sorted

LEMMA StayStep == ASSUME IInv, UNCHANGED vars PROVE IInv'
<1>1. /\ UNCHANGED <<actionvars, pathvars, gmcpvars>>
      /\ stack' = stack /\ nested' = nested /\ events' = events /\ fault' = fault
  BY DEF vars
<1>2. /\ Sorted' /\ actions' = actions /\ behind' = behind /\ PathTypeOK'
      /\ GmcpTypeOK' /\ gmcp_handlers' = gmcp_handlers
  BY <1>1, SameActions, SameHandlers, SamePath
<1>3. TypeOK'
  BY <1>1, <1>2 DEF IInv, TypeOK, Sorted
<1>4. Lost'
  BY <1>1, <1>2 DEF IInv, Lost, Top
<1>5. Ways'
  BY <1>1, <1>2 DEF IInv, Ways
<1>6. Tracked'
  BY <1>1 DEF IInv, Tracked, pathvars
<1> QED
  BY <1>2, <1>3, <1>4, <1>5, <1>6 DEF IInv

LEMMA Steps == IInv /\ [Next]_vars => IInv'
<1> SUFFICES ASSUME IInv, [Next]_vars
             PROVE  IInv'
  OBVIOUS
<1>1. CASE Program
  <2>1. CASE WalkOn \/ WalkEnds \/ WalkOnFreed
    BY <2>1, WalkOnStep, WalkEndsStep, WalkOnFreedStep
  <2>2. CASE ActionCommand \/ UnactionCommand \/ ClassCommand
    BY <2>2, ActionStep, UnactionStep, ClassStep
  <2>3. CASE RegisterHandler \/ UnregisterHandler
    BY <2>3, RegisterStep, UnregisterStep
  <2>4. CASE Move \/ MarkCommand \/ UnpathCommand
    BY <2>4, MoveStep, MarkStep, UnpathStep
  <2>5. CASE ReturnCommand \/ ReturnOfHead \/ NoPlaceToReturn \/ Returned
    BY <2>5, ReturnStep, ReturnOfHeadStep, NoPlaceStep, ReturnedStep
  <2>6. CASE Show \/ Send \/ InputEnds \/ Overflow
    BY <2>6, ShowStep, SendStep, InputEndsStep, OverflowStep
  <2> QED
    BY <2>1, <2>2, <2>3, <2>4, <2>5, <2>6, <1>1 DEF Program
<1>2. CASE Window
  <2>1. CASE OpenTriggers \/ CloseTriggers
    BY <2>1, OpenStep, CloseStep
  <2>2. CASE \E left \in Left, right \in Body, class \in Class : AddTrigger(left, right, class)
    BY <2>2, AddStep
  <2>3. CASE \E i \in DOMAIN rows : DeleteTrigger(i) \/ DoubleClick(i)
    BY <2>3, DeleteStep, DoubleClickStep
  <2>4. CASE \E class \in Class, on \in BOOLEAN : ToggleClass(class, on)
    BY <2>4, ToggleClassStep
  <2> QED
    BY <2>1, <2>2, <2>3, <2>4, <1>2 DEF Window
<1>3. CASE \E line \in Line : DoOneLine(line)
  BY <1>3, LineStep
<1>4. CASE \E var \in Var : GmcpMessage(var)
  BY <1>4, MessageStep
<1>5. CASE \E command \in Commands : Typed(command)
  BY <1>5, TypedStep
<1>6. CASE UNCHANGED vars
  BY <1>6, StayStep
<1> QED
  BY <1>1, <1>2, <1>3, <1>4, <1>5, <1>6 DEF Next

\* The inductive invariant holds.
THEOREM Inductive == Spec => []IInv
BY Starts, Steps, PTL DEF Spec

\* Every variable keeps its type, whatever the triggers and handlers do; the
\* lists never hold an address twice.
THEOREM TypeCorrect == Spec => []TypeOK
<1>1. IInv => TypeOK
  BY DEF IInv
<1> QED
  BY <1>1, Inductive, PTL

-----------------------------------------------------------------------------
(* The properties.                                                           *)

\* insertnode_list(), deletenode_list() and the trigger window keep the list of
\* triggers sorted, with one trigger of each pattern.
THEOREM StaysOrdered == Spec => []Ordered
<1>1. IInv => Ordered
  <2> SUFFICES ASSUME IInv, NEW i \in 1..Len(actions) - 1
               PROVE  node[actions[i]].left < node[actions[i + 1]].left
    BY DEF Ordered
  <2>1. i \in 1..Len(actions) /\ i + 1 \in 1..Len(actions) /\ i < i + 1
    BY ActionsTypes, LenProperties
  <2>2. Follows(actions, actions[i], actions[i + 1])
    BY <2>1 DEF Follows
  <2> QED
    BY <2>2, ActionsTypes DEF Rising
<1> QED
  BY <1>1, Inductive, PTL

\* check_all_actions() and gmcp() meet every trigger and handler they have to
\* run, and no freed one, unless a command removes the node they stand on.
THEOREM WalksKeepWay == Spec => []WalkKeepsItsWay
<1>1. IInv => WalkKeepsItsWay
  <2> SUFFICES ASSUME IInv
               PROVE  WalkKeepsItsWay
    OBVIOUS
  <2>1. DOMAIN stack = 1..Len(stack)
    BY RangeLemma DEF IInv, TypeOK
  <2>2. ASSUME NEW i \in Walks, ~stack[i].cut
        PROVE  Stands(stack[i]) /\ stack[i].due \subseteq Ahead(stack[i])
    <3>1. PICK f, s : f = stack[i] /\ s = ListIn(f, actions, gmcp_handlers)
      OBVIOUS
    <3>2. OnWay(s, f.at, f.due)
      BY <3>1, <2>1, <2>2 DEF Walks, IInv, Ways, FrameOnWay
    <3>3. ListOf(f) = s
      BY <3>1 DEF ListOf, ListIn
    <3>4. Stands(f)
      BY <3>2, <3>3 DEF Stands, OnWay
    <3>5. DOMAIN s = 1..Len(s)
      <4>1. actions \in Seq(Node) /\ gmcp_handlers \in Seq(Handler)
        BY DEF IInv, TypeOK, ActionsTypeOK, GmcpTypeOK
      <4> QED
        BY <4>1, <3>1, RangeLemma DEF ListIn
    <3>6. ASSUME NEW y \in f.due
          PROVE  y \in Ahead(f)
      <4>1. CASE f.at = HEAD
        BY <4>1, <3>2, <3>3, <3>6 DEF OnWay, Ahead
      <4>2. CASE f.at # HEAD
        <5>1. Follows(s, f.at, y)
          BY <4>2, <3>2, <3>6 DEF OnWay
        <5>2. PICK k, j \in 1..Len(s) : s[k] = f.at /\ s[j] = y /\ k < j
          BY <5>1 DEF Follows
        <5>3. j \in {l \in DOMAIN s : \E m \in DOMAIN s : s[m] = f.at /\ m < l}
          BY <5>2, <3>5
        <5> QED
          BY <5>2, <5>3, <4>2, <3>3 DEF Ahead
      <4> QED
        BY <4>1, <4>2
    <3> QED
      BY <3>1, <3>4, <3>6
  <2>3. fault = "freed_node" => Top.cut
    BY DEF IInv, Lost
  <2> QED
    BY <2>2, <2>3 DEF WalkKeepsItsWay
<1> QED
  BY <1>1, Inductive, PTL

\* The pointers in the rows of the trigger window are good, and its balls true,
\* as long as the window made all the changes.
THEOREM RowsStayTriggers == Spec => []RowsAreTriggers
<1>1. IInv => RowsAreTriggers
  BY DEF IInv, Sorted, Lost, RowsAreTriggers
<1> QED
  BY <1>1, Inductive, PTL

\* path_length counts the moves of the path, one less while #return walks back,
\* and stays within MAX_PATH_LENGTH.
THEOREM PathIsCounted == Spec => []PathCounted
<1>1. IInv => PathCounted
  <2> SUFFICES ASSUME IInv
               PROVE  PathCounted
    OBVIOUS
  <2>1. DOMAIN stack = 1..Len(stack)
    BY RangeLemma DEF IInv, TypeOK
  <2>2. ASSUME ~nested, \A i \in 1..Len(stack) : stack[i].kind # "return",
               path_length = Len(path), return_flag
        PROVE  path_length = Len(path) - Cardinality(Returns) /\ return_flag = (Returns = {})
    <3>1. Returns = {}
      BY <2>1, <2>2 DEF Returns
    <3>2. Cardinality(Returns) = 0
      BY <3>1, FS_EmptySet
    <3>3. path_length = Len(path) - Cardinality(Returns)
      BY <3>2, <2>2, PathTypes
    <3>4. return_flag = TRUE
      BY <2>2, PathTypes
    <3> QED
      BY <3>1, <3>3, <3>4
  <2>3. ASSUME ~nested, NEW i \in 1..Len(stack),
               \A j \in 1..Len(stack) : stack[j].kind = "return" <=> i = j,
               path_length = Len(path) - 1, ~return_flag
        PROVE  path_length = Len(path) - Cardinality(Returns) /\ return_flag = (Returns = {})
    <3>1. Returns = {i}
      BY <2>1, <2>3 DEF Returns
    <3>2. Cardinality(Returns) = 1
      BY <3>1, FS_Singleton
    <3>3. path_length = Len(path) - Cardinality(Returns)
      BY <3>2, <2>3
    <3>4. return_flag = FALSE /\ Returns # {}
      BY <3>1, <2>3, PathTypes
    <3> QED
      BY <3>3, <3>4
  <2>4. path_length <= MAX_PATH_LENGTH
    BY PathTypes
  <2>5. ~nested => path_length = Len(path) - Cardinality(Returns) /\ return_flag = (Returns = {})
    BY <2>2, <2>3 DEF IInv, Tracked
  <2> QED
    BY <2>4, <2>5 DEF PathCounted
<1> QED
  BY <1>1, Inductive, PTL
=============================================================================
