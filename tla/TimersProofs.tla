--------------------------- MODULE TimersProofs ---------------------------
(***************************************************************************)
(* Proofs about the timers, for any number of them, any names, periods and *)
(* tick sizes, and any number of commands: the types (TypeCorrect), what   *)
(* it takes to go through freed memory (StopsHarmOnly), the tick counter   *)
(* (CountsToTheSecond), and, when a pass falls in every second (Late = 1), *)
(* that timers end and are announced in their second (EndsInItsSecond and  *)
(* AnnouncedOnce).                                                         *)
(***************************************************************************)
EXTENDS Timers, SequenceTheorems, TLAPS

-----------------------------------------------------------------------------
(* Lists whose elements are distinct: what they hold, and what an element    *)
(* more, at either end, or less leaves of them.                              *)

\* What is in a list is what its positions hold.
LEMMA RangeLemma ==
    ASSUME NEW S, NEW s \in Seq(S)
    PROVE  /\ DOMAIN s = 1..Len(s) /\ Len(s) \in Nat
           /\ \A x : x \in Range(s) <=> \E i \in 1..Len(s) : s[i] = x
           /\ \A i \in 1..Len(s) : s[i] \in S /\ s[i] \in Range(s)
           /\ Range(s) \subseteq S
BY LenProperties, ElementOfSeq DEF Range

\* An empty list, and a list with one more element at its end.
LEMMA EmptyLemma ==
    \A S : <<>> \in Seq(S) /\ Len(<<>>) = 0 /\ DOMAIN <<>> = {} /\ Range(<<>>) = {}
BY EmptySeq DEF Range

LEMMA AppendLemma ==
    ASSUME NEW S, NEW s \in Seq(S), NEW x \in S
    PROVE  /\ Append(s, x) \in Seq(S) /\ Append(s, x) # <<>>
           /\ Range(Append(s, x)) = Range(s) \cup {x}
           /\ IsInjective(s) /\ x \notin Range(s) => IsInjective(Append(s, x))
<1> DEFINE t == Append(s, x)
<1>1. /\ t \in Seq(S) /\ t # <<>> /\ Len(t) = Len(s) + 1
      /\ \A i \in 1..Len(s) : t[i] = s[i]
      /\ t[Len(s) + 1] = x
  BY AppendProperties
<1> HIDE DEF t
<1>2. /\ DOMAIN s = 1..Len(s) /\ Len(s) \in Nat
      /\ \A y : y \in Range(s) <=> \E i \in 1..Len(s) : s[i] = y
  BY RangeLemma
<1>3. /\ DOMAIN t = 1..Len(s) + 1
      /\ \A y : y \in Range(t) <=> \E i \in 1..Len(s) + 1 : t[i] = y
  BY <1>1, RangeLemma
<1>4. Range(t) = Range(s) \cup {x}
  BY <1>1, <1>2, <1>3
<1>5. ASSUME IsInjective(s), x \notin Range(s)
      PROVE  IsInjective(t)
  BY <1>1, <1>2, <1>3, <1>5 DEF IsInjective
<1> QED
  BY <1>1, <1>4, <1>5 DEF t

\* The first element of a list taken off.
LEMMA TailLemma ==
    ASSUME NEW S, NEW s \in Seq(S), s # <<>>
    PROVE  /\ Head(s) \in S /\ Head(s) \in Range(s)
           /\ Head(s) = s[1] /\ 1 \in DOMAIN s
           /\ Tail(s) \in Seq(S)
           /\ Len(Tail(s)) = Len(s) - 1
           /\ \A i \in DOMAIN Tail(s) : i + 1 \in DOMAIN s /\ Tail(s)[i] = s[i + 1]
           /\ \A i \in DOMAIN s : i # 1 => i - 1 \in DOMAIN Tail(s) /\ Tail(s)[i - 1] = s[i]
           /\ Range(Tail(s)) \subseteq Range(s)
           /\ IsInjective(s) => IsInjective(Tail(s)) /\ Head(s) \notin Range(Tail(s))
<1> DEFINE t == Tail(s)
           n == Len(s)
<1>1. /\ t \in Seq(S) /\ Len(t) = n - 1
      /\ \A i \in 1..Len(t) : t[i] = s[i + 1]
      /\ Head(s) = s[1]
  BY HeadTailProperties
<1>2. /\ DOMAIN s = 1..n /\ n \in Nat /\ n >= 1
      /\ \A y : y \in Range(s) <=> \E i \in 1..n : s[i] = y
      /\ \A i \in 1..n : s[i] \in S
  BY RangeLemma, EmptySeq
<1> HIDE DEF t, n
<1>3. /\ DOMAIN t = 1..n - 1
      /\ \A y : y \in Range(t) <=> \E i \in 1..n - 1 : t[i] = y
  BY <1>1, RangeLemma
<1>4. \A i \in 1..n - 1 : i + 1 \in 1..n /\ t[i] = s[i + 1] /\ i + 1 # 1
  BY <1>1, <1>2
<1>5. \A i \in 1..n : i # 1 => i - 1 \in 1..n - 1 /\ i - 1 + 1 = i
  BY <1>2
<1>6. 1 \in 1..n
  BY <1>2
<1>7. Range(t) \subseteq Range(s)
  BY <1>2, <1>3, <1>4
<1>8. ASSUME IsInjective(s)
      PROVE  IsInjective(t) /\ s[1] \notin Range(t)
  <2>1. \A i, j \in 1..n : s[i] = s[j] => i = j
    BY <1>2, <1>8 DEF IsInjective
  <2>2. \A i, j \in 1..n - 1 : i + 1 = j + 1 => i = j
    BY <1>2
  <2>3. IsInjective(t)
    BY <2>1, <2>2, <1>3, <1>4 DEF IsInjective
  <2> QED
    BY <2>1, <2>3, <1>3, <1>4, <1>6
<1> QED
  BY <1>1, <1>2, <1>3, <1>4, <1>5, <1>6, <1>7, <1>8 DEF t, n

\* Taking one element out: those before it stay, those behind it move up.
LEMMA RemoveLemma ==
    ASSUME NEW S, NEW s \in Seq(S), NEW i \in 1..Len(s)
    PROVE  /\ RemoveAt(s, i) \in Seq(S)
           /\ Len(RemoveAt(s, i)) = Len(s) - 1
           /\ \A j \in 1..Len(s) - 1 :
                RemoveAt(s, i)[j] = IF j < i THEN s[j] ELSE s[j + 1]
<1>1. DOMAIN s = 1..Len(s) /\ Len(s) \in Nat /\ \A j \in 1..Len(s) : s[j] \in S
  BY RangeLemma
<1>4. RemoveAt(s, i) = SubSeq(s, 1, i - 1) \o SubSeq(s, i + 1, Len(s))
  BY DEF RemoveAt
<1> DEFINE a == SubSeq(s, 1, i - 1)
           b == SubSeq(s, i + 1, Len(s))
<1>5. a \in Seq(S) /\ Len(a) = i - 1 /\ \A j \in 1..i - 1 : a[j] = s[j]
  <2>1. 1 \in Int /\ i - 1 \in Int /\ \A j \in 1..i - 1 : s[j] \in S
    BY <1>1
  <2> QED
    BY <2>1, SubSeqProperties
<1>6. b \in Seq(S) /\ Len(b) = Len(s) - i /\ \A j \in 1..Len(s) - i : b[j] = s[j + i]
  <2>1. i + 1 \in Int /\ Len(s) \in Int /\ \A j \in i + 1..Len(s) : s[j] \in S
    BY <1>1
  <2>2. /\ b \in Seq(S)
        /\ Len(b) = IF i + 1 <= Len(s) THEN Len(s) - (i + 1) + 1 ELSE 0
        /\ \A j \in 1..Len(s) - (i + 1) + 1 : b[j] = s[i + 1 + j - 1]
    BY <2>1, SubSeqProperties
  <2> HIDE DEF b
  <2>3. \A j \in 1..Len(s) - i : i + 1 + j - 1 = j + i
    BY <1>1
  <2>4. ASSUME NEW n \in Nat, NEW k \in 1..n
        PROVE  n - (k + 1) + 1 = n - k /\ (~(k + 1 <= n) => n - k = 0)
    OBVIOUS
  <2> QED
    BY <1>1, <2>2, <2>3, <2>4
<1> HIDE DEF a, b
<1>7. /\ a \o b \in Seq(S) /\ Len(a \o b) = Len(a) + Len(b)
      /\ \A j \in 1..Len(a) + Len(b) : (a \o b)[j] = IF j <= Len(a) THEN a[j] ELSE b[j - Len(a)]
  BY <1>5, <1>6, ConcatProperties
<1>8. \A j \in 1..Len(s) - 1 : (a \o b)[j] = (IF j < i THEN s[j] ELSE s[j + 1])
  <2> TAKE j \in 1..Len(s) - 1
  <2>1. CASE j < i
    BY <2>1, <1>1, <1>5, <1>6, <1>7
  <2>2. CASE j >= i
    <3>1. j - (i - 1) \in 1..Len(s) - i /\ j - (i - 1) + i = j + 1 /\ ~(j <= i - 1)
      BY <2>2, <1>1
    <3>2. (a \o b)[j] = b[j - (i - 1)]
      BY <3>1, <1>1, <1>5, <1>6, <1>7
    <3>3. \A k \in 1..Len(s) - i : k + i = j + 1 => b[k] = s[j + 1]
      BY <1>6
    <3>4. b[j - (i - 1)] = s[j + 1]
      BY <3>1, <3>3
    <3>5. ~(j < i)
      BY <2>2, <1>1
    <3> QED
      BY <3>2, <3>4, <3>5
  <2>3. j < i \/ j >= i
    BY <1>1
  <2> QED
    BY <2>1, <2>2, <2>3
<1>9. Len(a \o b) = Len(s) - 1
  BY <1>1, <1>5, <1>6, <1>7
<1>10. RemoveAt(s, i) = a \o b
  BY <1>4 DEF a, b
<1> QED
  BY <1>7, <1>8, <1>9, <1>10

\* Taking one element out of a list leaves the others, each once.
LEMMA RemovedLemma ==
    ASSUME NEW S, NEW s \in Seq(S), IsInjective(s), NEW i \in 1..Len(s)
    PROVE  /\ RemoveAt(s, i) \in Seq(S)
           /\ IsInjective(RemoveAt(s, i))
           /\ Range(RemoveAt(s, i)) = Range(s) \ {s[i]}
<1> DEFINE r == RemoveAt(s, i)
<1>2. /\ r \in Seq(S) /\ Len(r) = Len(s) - 1
      /\ \A j \in 1..Len(s) - 1 : r[j] = IF j < i THEN s[j] ELSE s[j + 1]
  BY RemoveLemma
<1>3. /\ DOMAIN s = 1..Len(s) /\ Len(s) \in Nat /\ DOMAIN r = 1..Len(s) - 1
      /\ \A j, k \in 1..Len(s) : s[j] = s[k] => j = k
      /\ \A x : x \in Range(s) <=> \E j \in 1..Len(s) : s[j] = x
      /\ \A x : x \in Range(r) <=> \E j \in 1..Len(s) - 1 : r[j] = x
  <2>1. /\ DOMAIN s = 1..Len(s) /\ Len(s) \in Nat
        /\ \A x : x \in Range(s) <=> \E j \in 1..Len(s) : s[j] = x
    BY RangeLemma
  <2>2. /\ DOMAIN r = 1..Len(s) - 1
        /\ \A x : x \in Range(r) <=> \E j \in 1..Len(s) - 1 : r[j] = x
    BY <1>2, RangeLemma
  <2> QED
    BY <2>1, <2>2 DEF IsInjective
<1> HIDE DEF r
<1>4. IsInjective(r)
  BY <1>2, <1>3 DEF IsInjective
<1>5. ASSUME NEW x \in Range(r)
      PROVE  x \in Range(s) \ {s[i]}
  <2>1. PICK j \in 1..Len(s) - 1 : r[j] = x
    BY <1>3
  <2>2. CASE j < i
    BY <2>1, <2>2, <1>2, <1>3
  <2>3. CASE j >= i
    <3>1. j + 1 \in 1..Len(s) /\ j + 1 # i /\ x = s[j + 1]
      BY <2>1, <2>3, <1>2, <1>3
    <3> QED
      BY <3>1, <1>3
  <2> QED
    BY <2>2, <2>3, <1>3
<1>6. ASSUME NEW x \in Range(s), x # s[i]
      PROVE  x \in Range(r)
  <2>1. PICK k \in 1..Len(s) : s[k] = x /\ k # i
    BY <1>3, <1>6
  <2>2. CASE k < i
    BY <2>1, <2>2, <1>2, <1>3
  <2>3. CASE k > i
    <3>1. k - 1 \in 1..Len(s) - 1 /\ r[k - 1] = s[k]
      BY <2>1, <2>3, <1>2, <1>3
    <3> QED
      BY <2>1, <3>1, <1>3
  <2> QED
    BY <2>1, <2>2, <2>3, <1>3
<1> QED
  BY <1>2, <1>4, <1>5, <1>6 DEF r

-----------------------------------------------------------------------------
(***************************************************************************)
(* The inductive invariant, in three parts.                                *)
(*                                                                         *)
(* Clocked: how far the clock is from the second of the last pass.         *)
(* Walk: no timer is in the list twice; when the cell the walk holds, or   *)
(*     the timer whose message is shown, is not in the list any more, a    *)
(*     command of this pass took it out.                                   *)
(* Timely: every timer no walk has gone past is on its way to its end.     *)
(*     This part needs Late = 1.                                           *)
(***************************************************************************)
\* The walk is at d, or has still to come to it.
AheadIn(s, p, d) ==
    \E i, j \in 1..Len(s) : s[i] = p /\ s[j] = d /\ i <= j
Ahead(d) == AheadIn(timers, next, d)

Clocked ==
    /\ now <= time /\ time <= now + Late /\ 1 <= time
    /\ pc # "idle" => 1 <= now

Walk ==
    /\ IsInjective(timers)
    /\ pc \in {"idle", "tick", "ticks"} => next = NULL
    /\ next # NULL /\ next \notin Listed => next \in cut
    /\ pc \in {"warns", "expires"} => /\ this \in Timer /\ this # next
                                      /\ this \notin Listed => this \in cut

\* A timer begun at since that ends at finish, last seen at seen and announced
\* warnings times, in a pass of the second n that has it ahead or not, and that shows
\* its warning, or its end.
OnTrack(since, warnings, finish, seen, n, ahead, warned, ended) ==
    /\ since < finish /\ seen <= n
    /\ seen = 0 => since >= n - 1 /\ (~ahead => since >= n)
    /\ seen > 0 => seen <= since + 1 \/ seen <= finish - 10
    /\ finish - since >= 2 /\ ~ended => finish >= n /\ (~ahead => finish > n)
    /\ warned => since >= n \/ (finish = n + 10 /\ ~ahead)
    /\ finish - since >= 12 =>
         \/ finish - n < 10 /\ warnings = 1
         \/ finish - n > 10 /\ warnings = 0
         \/ finish - n = 10 /\ warnings = 1 /\ (seen = n \/ warned)
         \/ finish - n = 10 /\ warnings = 0 /\ ahead /\ seen < n

Kept(d) ==
    OnTrack(told[d].since, told[d].warnings, data[d].finish, data[d].last, now, Ahead(d),
            pc = "warns" /\ this = d, pc = "expires" /\ this = d)

Timely == \A d \in Listed : ~told[d].astray => Kept(d)

IInv == TypeOK /\ Clocked /\ Walk /\ OnlyStopsHarm

-----------------------------------------------------------------------------
(* The list, and what lies ahead in it. *)

\* The listed timers, before and after a step.
LEMMA ListedLemma ==
    /\ Listed = Range(timers) /\ Listed' = Range(timers')
    /\ Range(<<>>) = {}
BY EmptyLemma DEF Listed, ToSet, Range

\* Place() is the position in the list, which is one; what comes behind it and what
\* is left without it follow.
LEMMA PlaceLemma ==
    ASSUME timers \in Seq(Timer), IsInjective(timers), NEW i \in 1..Len(timers)
    PROVE  /\ Place(timers[i]) = i
           /\ Without(timers[i]) = RemoveAt(timers, i)
           /\ After(timers[i]) = IF i = Len(timers) THEN NULL ELSE timers[i + 1]
<1>1. \A j \in DOMAIN timers : timers[j] = timers[i] <=> j = i
  BY RangeLemma DEF IsInjective
<1>2. Place(timers[i]) = i
  BY <1>1, RangeLemma DEF Place
<1> QED
  BY <1>2 DEF Without, After

\* g_list_remove(): the other timers stay, each once.
LEMMA WithoutLemma ==
    ASSUME timers \in Seq(Timer), IsInjective(timers), NEW d \in Listed
    PROVE  /\ d \in Timer
           /\ Without(d) \in Seq(Timer) /\ IsInjective(Without(d))
           /\ Range(Without(d)) = Listed \ {d}
<1>1. PICK i \in 1..Len(timers) : timers[i] = d
  BY ListedLemma, RangeLemma
<1>2. Without(d) = RemoveAt(timers, i)
  BY <1>1, PlaceLemma
<1>3. d \in Timer
  BY <1>1, RangeLemma
<1> QED
  BY <1>1, <1>2, <1>3, RemovedLemma, ListedLemma

\* What is ahead of the walk, by position.
LEMMA AheadLemma ==
    ASSUME NEW S, NEW s \in Seq(S), IsInjective(s),
           NEW i \in 1..Len(s), NEW j \in 1..Len(s)
    PROVE  AheadIn(s, s[i], s[j]) <=> i <= j
<1>1. \A k, l \in 1..Len(s) : s[k] = s[l] => k = l
  BY RangeLemma DEF IsInjective
<1> QED
  BY <1>1 DEF AheadIn

\* A walk that holds nothing, or a cell that is not in the list, has nothing ahead.
LEMMA NothingAhead ==
    ASSUME NEW S, NEW s \in Seq(S), NEW p, p \notin Range(s), NEW d
    PROVE  ~AheadIn(s, p, d)
BY RangeLemma DEF AheadIn

\* A timer that joins the list at its end puts no other ahead of the walk.
LEMMA AheadAppend ==
    ASSUME NEW S, NEW s \in Seq(S), NEW x \in S, x \notin Range(s),
           NEW p, NEW d \in Range(s)
    PROVE  AheadIn(Append(s, x), p, d) <=> AheadIn(s, p, d)
<1> DEFINE t == Append(s, x)
           n == Len(s)
<1>1. /\ n \in Nat /\ Len(t) = n + 1
      /\ \A i \in 1..n : i \in 1..n + 1 /\ t[i] = s[i]
      /\ t[n + 1] = x
  <2>1. /\ t \in Seq(S) /\ Len(t) = Len(s) + 1
        /\ \A i \in 1..Len(s) : t[i] = s[i]
        /\ t[Len(s) + 1] = x
    BY AppendProperties
  <2> HIDE DEF t
  <2> QED
    BY <2>1, RangeLemma
<1>2. \A i \in 1..n : s[i] # x
  BY RangeLemma
<1>3. d # x
  OBVIOUS
<1> HIDE DEF t, n
<1>4. \A j \in 1..n + 1 : t[j] = d => j \in 1..n
  BY <1>1, <1>3
<1>5. \A i \in 1..n + 1, j \in 1..n : i <= j => i \in 1..n
  BY <1>1
<1>6. AheadIn(t, p, d) <=> \E i, j \in 1..n + 1 : t[i] = p /\ t[j] = d /\ i <= j
  BY <1>1 DEF AheadIn
<1>7. AheadIn(s, p, d) <=> \E i, j \in 1..n : s[i] = p /\ s[j] = d /\ i <= j
  BY DEF AheadIn, n
<1>8. ASSUME AheadIn(t, p, d) PROVE AheadIn(s, p, d)
  <2>1. PICK i \in 1..n + 1, j \in 1..n + 1 : t[i] = p /\ t[j] = d /\ i <= j
    BY <1>6, <1>8
  <2>2. i \in 1..n /\ j \in 1..n
    BY <2>1, <1>4, <1>5
  <2> QED
    BY <2>1, <2>2, <1>1, <1>7
<1>9. ASSUME AheadIn(s, p, d) PROVE AheadIn(t, p, d)
  BY <1>1, <1>6, <1>7, <1>9
<1> QED
  BY <1>8, <1>9 DEF t

\* Taking a timer out changes nothing for the others, unless the walk holds it.
LEMMA AheadRemove ==
    ASSUME NEW S, NEW s \in Seq(S), IsInjective(s), NEW k \in 1..Len(s),
           NEW p, p # s[k], NEW d, d # s[k]
    PROVE  AheadIn(RemoveAt(s, k), p, d) <=> AheadIn(s, p, d)
<1> DEFINE t == RemoveAt(s, k)
           n == Len(s)
           at(i) == IF i < k THEN i ELSE i + 1
<1>1. /\ n \in Nat /\ Len(t) = n - 1
      /\ \A i \in 1..n - 1 : t[i] = IF i < k THEN s[i] ELSE s[i + 1]
  BY RemoveLemma, RangeLemma
<1> HIDE DEF t, n
<1>2. k \in 1..n
  BY DEF n
<1>3. \A i \in 1..n - 1 : at(i) \in 1..n /\ t[i] = s[at(i)]
  BY <1>1, <1>2
<1>4. \A i, j \in 1..n - 1 : i <= j <=> at(i) <= at(j)
  BY <1>1, <1>2
<1>5. ASSUME NEW m \in 1..n, m # k
      PROVE  \E i \in 1..n - 1 : at(i) = m
  <2>1. CASE m < k
    BY <2>1, <1>1, <1>2
  <2>2. CASE m > k
    <3>1. m - 1 \in 1..n - 1 /\ at(m - 1) = m
      BY <2>2, <1>1, <1>2
    <3> QED
      BY <3>1
  <2> QED
    BY <2>1, <2>2, <1>5, <1>1, <1>2
<1> HIDE DEF at
<1>6. AheadIn(t, p, d) <=> \E i, j \in 1..n - 1 : t[i] = p /\ t[j] = d /\ i <= j
  BY <1>1 DEF AheadIn
<1>7. AheadIn(s, p, d) <=> \E i, j \in 1..n : s[i] = p /\ s[j] = d /\ i <= j
  BY DEF AheadIn, n
<1>8. ASSUME AheadIn(t, p, d) PROVE AheadIn(s, p, d)
  <2>1. PICK i \in 1..n - 1, j \in 1..n - 1 : t[i] = p /\ t[j] = d /\ i <= j
    BY <1>6, <1>8
  <2> QED
    BY <2>1, <1>3, <1>4, <1>7
<1>9. ASSUME AheadIn(s, p, d) PROVE AheadIn(t, p, d)
  <2>1. PICK a \in 1..n, b \in 1..n : s[a] = p /\ s[b] = d /\ a <= b
    BY <1>7, <1>9
  <2>2. a # k /\ b # k
    BY <2>1
  <2>3. PICK i \in 1..n - 1, j \in 1..n - 1 : at(i) = a /\ at(j) = b
    BY <2>2, <1>5
  <2> QED
    BY <2>1, <2>3, <1>3, <1>4, <1>6
<1> QED
  BY <1>8, <1>9 DEF t

\* A walk that goes on by one cell leaves the timer of that cell behind, and no other.
LEMMA AheadNext ==
    ASSUME timers \in Seq(Timer), IsInjective(timers), NULL \notin Timer,
           NEW p \in Listed
    PROVE  /\ After(p) \in Listed \cup {NULL} /\ After(p) # p
           /\ AheadIn(timers, p, p)
           /\ \A d \in Listed : AheadIn(timers, After(p), d)
                                  <=> AheadIn(timers, p, d) /\ d # p
<1>1. PICK i \in 1..Len(timers) : timers[i] = p
  BY RangeLemma, ListedLemma
<1>2. /\ Len(timers) \in Nat
      /\ \A k \in 1..Len(timers) : timers[k] \in Timer /\ timers[k] \in Listed
      /\ \A d \in Listed : \E k \in 1..Len(timers) : timers[k] = d
      /\ \A k, l \in 1..Len(timers) : timers[k] = timers[l] => k = l
  BY RangeLemma, ListedLemma DEF IsInjective
<1>3. After(p) = IF i = Len(timers) THEN NULL ELSE timers[i + 1]
  BY <1>1, PlaceLemma
<1>4. AheadIn(timers, p, p)
  BY <1>1, <1>2, AheadLemma
<1>5. CASE i = Len(timers)
  <2>1. After(p) = NULL
    BY <1>3, <1>5
  <2>2. ASSUME NEW d \in Listed
        PROVE  ~AheadIn(timers, NULL, d) /\ (AheadIn(timers, p, d) => d = p)
    <3>1. PICK j \in 1..Len(timers) : timers[j] = d
      BY <1>2
    <3>2. NULL \notin Range(timers)
      BY RangeLemma
    <3>3. AheadIn(timers, p, d) => i <= j
      BY <3>1, <1>1, AheadLemma
    <3>4. i <= j => j = i
      BY <1>5, <1>2
    <3> QED
      BY <3>1, <3>2, <3>3, <3>4, <1>1, NothingAhead
  <2> QED
    BY <2>1, <2>2, <1>1, <1>2, <1>4
<1>6. CASE i # Len(timers)
  <2>1. i + 1 \in 1..Len(timers) /\ After(p) = timers[i + 1]
    BY <1>2, <1>3, <1>6
  <2>2. After(p) # p
    BY <2>1, <1>1, <1>2
  <2>3. ASSUME NEW d \in Listed
        PROVE  AheadIn(timers, After(p), d) <=> AheadIn(timers, p, d) /\ d # p
    <3>1. PICK j \in 1..Len(timers) : timers[j] = d
      BY <1>2
    <3>2. AheadIn(timers, p, d) <=> i <= j
      BY <3>1, <1>1, AheadLemma
    <3>3. AheadIn(timers, After(p), d) <=> i + 1 <= j
      BY <3>1, <2>1, AheadLemma
    <3>4. i + 1 <= j <=> i <= j /\ j # i
      BY <1>2
    <3>5. d = p <=> j = i
      BY <3>1, <1>1, <1>2
    <3> QED
      BY <3>2, <3>3, <3>4, <3>5
  <2> QED
    BY <2>1, <2>2, <2>3, <1>2, <1>4
<1> QED
  BY <1>5, <1>6

-----------------------------------------------------------------------------
(* Types. *)

Data == [string : Maybe(Name), finish : Nat, last : Nat]
Told == [since : Nat, warnings : Nat, astray : BOOLEAN]

\* The clock, the list and what is known of each timer.
LEMMA TypeFacts ==
    ASSUME TypeOK
    PROVE  /\ timers \in Seq(Timer) /\ data \in [Timer -> Data] /\ told \in [Timer -> Told]
           /\ time \in Nat /\ now \in Nat /\ next \in Maybe(Timer) /\ this \in Maybe(Timer)
BY DEF TypeOK, Data, Told

\* Commands are given where they may be, and leave the pass where it is.
LEMMA GivenFacts ==
    ASSUME TypeOK, Given
    PROVE  /\ UNCHANGED <<time, session, use_tickcounter, pc, now, next, this, last, fault>>
           /\ commands' \in Nat /\ fault = "none"
BY DEF Given, Open, TypeOK, user, locals

LEMMA StartTypes ==
    ASSUME TypeOK, NEW name \in Maybe(Name), NEW length \in Lengths, do_timer(name, length)
    PROVE  TypeOK'
<1>1. PICK d \in Timer \ Listed :
         /\ timers' = Append(timers, d)
         /\ data' = [data EXCEPT ![d] = [string |-> name, finish |-> time + length,
                                         last |-> 0]]
         /\ told' = [told EXCEPT ![d] = [since |-> time, warnings |-> 0,
                                         astray |-> FALSE]]
  BY DEF do_timer
<1>2. timers' \in Seq(Timer)
  BY <1>1, TypeFacts, AppendProperties
<1>3. [string |-> name, finish |-> time + length, last |-> 0] \in Data
  <2>1. time \in Nat /\ length \in Nat
    BY TypeFacts, TimersAssumption, SMTT(30)
  <2>2. time + length \in Nat
    BY <2>1
  <2> QED
    BY <2>2 DEF Data
<1>4. [since |-> time, warnings |-> 0, astray |-> FALSE] \in Told
  BY TypeFacts DEF Told
<1>5. data' \in [Timer -> Data] /\ told' \in [Timer -> Told]
  BY <1>1, <1>3, <1>4, TypeFacts
<1>6. Given /\ UNCHANGED <<counter, cut>>
  BY DEF do_timer
<1> QED
  BY <1>2, <1>5, <1>6, GivenFacts DEF TypeOK, counter, Data, Told

LEMMA StopTypes ==
    ASSUME TypeOK, Walk, NEW name \in Name, do_stoptimer(name)
    PROVE  TypeOK'
<1>1. PICK d \in Listed :
         /\ timers' = Without(d)
         /\ cut' = cut \cup {d}
         /\ told' = IF d = next THEN [t \in Timer |-> [told[t] EXCEPT !.astray = TRUE]]
                    ELSE told
  BY DEF do_stoptimer, get_timer_by_name
<1>2. d \in Timer /\ timers' \in Seq(Timer)
  BY <1>1, WithoutLemma, TypeFacts DEF Walk
<1>3. \A r \in Told : [r EXCEPT !.astray = TRUE] \in Told
  BY DEF Told
<1>4. told' \in [Timer -> Told]
  BY <1>1, <1>3, TypeFacts
<1>5. Given /\ UNCHANGED <<data, counter>>
  BY DEF do_stoptimer
<1> QED
  BY <1>1, <1>2, <1>4, <1>5, GivenFacts DEF TypeOK, counter, Told

LEMMA CommandTypes ==
    ASSUME TypeOK, Walk, Commands
    PROVE  TypeOK'
<1>1. ASSUME tickon_command \/ tickoff_command \/ tickset_command
      PROVE  TypeOK'
  <2>1. /\ Given /\ UNCHANGED <<timers, data, told, tick_size, cut>>
        /\ tickstatus' \in BOOLEAN /\ time0' \in {time0, time}
    BY <1>1 DEF tickon_command, tickoff_command, tickset_command, list
  <2> QED
    BY <2>1, GivenFacts DEF TypeOK
<1>2. ASSUME NEW size \in Sizes, ticksize_command(size)
      PROVE  TypeOK'
  <2>1. /\ Given /\ UNCHANGED <<timers, data, told, tickstatus, cut>>
        /\ time0' = time /\ tick_size' \in Nat \ {0}
    BY <1>2, TimersAssumption, SMTT(30) DEF ticksize_command, list
  <2> QED
    BY <2>1, GivenFacts DEF TypeOK
<1>3. ASSUME NEW size \in Sizes, NEW use \in BOOLEAN, prefs_apply_settings(use, size)
      PROVE  TypeOK'
  <2>1. /\ UNCHANGED <<time, timers, data, told, session, pc, now, next, this, last, cut,
                       fault>>
        /\ tick_size' \in Nat \ {0} /\ use_tickcounter' \in BOOLEAN
        /\ commands' = commands + 1
        /\ \/ tickstatus' = use /\ time0' \in {time0, time}
           \/ UNCHANGED <<tickstatus, time0>>
    BY <1>3, TimersAssumption, SMTT(30) DEF prefs_apply_settings, list, walk, locals
  <2> QED
    BY <2>1 DEF TypeOK
<1> QED
  BY <1>1, <1>2, <1>3, StartTypes, StopTypes DEF Commands

LEMMA PassTypes ==
    ASSUME IInv, checktick
    PROVE  TypeOK'
<1> USE DEF TypeOK, IInv, list, counter, user, locals, walk, Points, Faults
<1>1. CASE Begin
  <2>1. next' \in Maybe(Timer)
    BY <1>1, HeadTailProperties, EmptySeq DEF Begin, Maybe
  <2> QED
    BY <1>1, <2>1 DEF Begin, Clocked
<1>2. CASE Asked
  BY <1>2 DEF Asked
<1>3. CASE WalkOnFreed
  BY <1>3 DEF WalkOnFreed, Crash, Walking
<1>4. next \in Listed => After(next) \in Maybe(Timer)
  BY TimersAssumption, AheadNext, ListedLemma, RangeLemma, SMTT(30) DEF Maybe, Walk
<1>5. CASE Pass
  <2>1. next \in Timer
    BY <1>5 DEF Pass, Walking, Maybe
  <2>2. data' \in [Timer -> [string : Maybe(Name), finish : Nat, last : Nat]]
    BY <1>5, <2>1 DEF Pass
  <2> QED
    BY <1>5, <1>4, <2>2 DEF Pass
<1>6. CASE Announce
  <2>1. next \in Timer
    BY <1>6 DEF Announce, Walking, Maybe
  <2>2. CASE UNCHANGED told
    BY <1>6, <1>4, <2>2 DEF Announce, Crash, Maybe
  <2>3. CASE told' = [told EXCEPT ![next].warnings = @ + 1]
    <3>1. ASSUME NEW r \in Told PROVE [r EXCEPT !.warnings = @ + 1] \in Told
      <4>1. r.warnings + 1 \in Nat
        BY DEF Told
      <4> QED
        BY <4>1 DEF Told
    <3>2. told' = [told EXCEPT ![next] = [told[next] EXCEPT !.warnings = @ + 1]]
      BY <2>3
    <3>3. told' \in [Timer -> Told]
      BY <2>1, <3>1, <3>2, TypeFacts
    <3> QED
      BY <1>6, <1>4, <3>3 DEF Announce, Crash, Maybe, Told
  <2> QED
    BY <1>6, <2>2, <2>3 DEF Announce, Crash
<1>7. CASE Warned
  <2>1. CASE this \notin Listed
    BY <1>7, <2>1 DEF Warned, Crash
  <2>2. CASE this \in Listed
    <3>1. this \in Timer
      BY <2>2, WithoutLemma, TypeFacts DEF Walk
    <3>2. now \in Nat /\ \A r \in Data : [r EXCEPT !.last = now] \in Data
      BY TypeFacts DEF Data
    <3>3. data' = [data EXCEPT ![this] = [data[this] EXCEPT !.last = now]]
      BY <1>7, <2>2 DEF Warned, Noted
    <3>4. data' \in [Timer -> Data]
      BY <3>1, <3>2, <3>3, TypeFacts
    <3> QED
      BY <1>7, <2>2, <3>4 DEF Warned, Maybe, Data
  <2> QED
    BY <2>1, <2>2
<1>8. CASE Expired
  <2>1. CASE this \notin Listed
    BY <1>8, <2>1 DEF Expired, Crash
  <2>2. CASE this \in Listed
    <3>1. timers' \in Seq(Timer)
      BY <1>8, <2>2, WithoutLemma, TypeFacts DEF Expired, Walk
    <3> QED
      BY <1>8, <2>2, <3>1 DEF Expired, Maybe
  <2> QED
    BY <2>1, <2>2
<1>9. CASE WalkEnds
  BY <1>9 DEF WalkEnds
<1>10. CASE CountStarts
  BY <1>10 DEF CountStarts, Counting
<1>11. CASE Count
  BY <1>11 DEF Count, Counting, Reached
<1>12. CASE Ticked
  BY <1>12 DEF Ticked
<1>13. CASE CountEnds
  BY <1>13 DEF CountEnds, Counting
<1> QED
  BY <1>1, <1>2, <1>3, <1>5, <1>6, <1>7, <1>8, <1>9, <1>10, <1>11, <1>12, <1>13
     DEF checktick

-----------------------------------------------------------------------------
(* The clock, the place in the walk, and what makes it go wrong. *)

LEMMA ClockedStep ==
    ASSUME TypeOK, Clocked, Walk, [Next]_vars
    PROVE  Clocked'
<1>1. time \in Nat /\ now \in Nat /\ Late \in Nat \ {0} /\ Late >= 1
  BY TypeFacts, TimersAssumption
<1>2. CASE Clock
  <2>1. time - now < Late /\ time' = time + 1 /\ UNCHANGED <<now, pc>>
    BY <1>2 DEF Clock, walk, locals
  <2> QED
    BY <1>1, <2>1 DEF Clocked
<1>3. CASE Begin
  <2>1. now' = time /\ time' = time
    BY <1>3 DEF Begin
  <2> QED
    BY <1>1, <2>1 DEF Clocked
<1>4. ASSUME UNCHANGED <<time, now>>, pc' = "idle" \/ pc # "idle" \/ pc' = pc
      PROVE  Clocked'
  BY <1>4 DEF Clocked
<1>5. CASE Commands \/ ChangeSession
  <2>1. UNCHANGED <<time, now, pc>>
    BY <1>5 DEF Commands, ChangeSession, do_timer, do_stoptimer, tickon_command,
                tickoff_command, tickset_command, ticksize_command, prefs_apply_settings,
                Given, walk, locals
  <2> QED
    BY <2>1, <1>4
<1>6. CASE checktick /\ ~Begin
  <2>1. UNCHANGED <<time, now>> /\ pc # "idle"
    BY <1>6 DEF checktick, Asked, WalkOnFreed, Pass, Announce, Warned, Expired, WalkEnds,
                CountStarts, Count, Ticked, CountEnds, Crash, Walking, Counting, walk,
                locals
  <2> QED
    BY <2>1, <1>4
<1>7. CASE UNCHANGED vars
  BY <1>7, <1>4 DEF vars, walk, locals
<1> QED
  BY <1>2, <1>3, <1>5, <1>6, <1>7 DEF Next

\* What Walk and OnlyStopsHarm speak of, left alone but for the place of the pass.
LEMMA WalkSame ==
    ASSUME Walk, OnlyStopsHarm, UNCHANGED <<timers, next, this, cut, fault>>,
           \/ pc' = pc
           \/ pc' \in {"walk", "asks"}
           \/ pc' \in {"idle", "tick", "ticks"} /\ next = NULL
    PROVE  Walk' /\ OnlyStopsHarm'
BY DEF Walk, OnlyStopsHarm, Listed, ToSet

\* A step into freed memory: the command that freed it was of this pass.
LEMMA CrashWalk ==
    ASSUME Walk, UNCHANGED walk, UNCHANGED list, NEW kind, fault' = kind,
           kind \in {"null_session", "freed_cell", "freed_timer", "double_free"},
           kind = "freed_cell" => next \in cut,
           kind \in {"freed_timer", "double_free"} => this \in cut
    PROVE  Walk' /\ OnlyStopsHarm'
BY DEF Walk, OnlyStopsHarm, Listed, ToSet, walk, list, locals

LEMMA WalkCommands ==
    ASSUME TypeOK, Walk, OnlyStopsHarm, Commands
    PROVE  Walk' /\ OnlyStopsHarm'
<1>0. ASSUME Given, IsInjective(timers'), Listed \ Listed' \subseteq cut', cut \subseteq cut'
      PROVE  Walk' /\ OnlyStopsHarm'
  <2>1. UNCHANGED <<pc, next, this, fault>> /\ fault = "none"
    BY <1>0, GivenFacts
  <2>2. next # NULL /\ next \notin Listed' => next \in cut'
    BY <1>0 DEF Walk
  <2>3. pc \in {"warns", "expires"} =>
          this \in Timer /\ this # next /\ (this \notin Listed' => this \in cut')
    BY <1>0 DEF Walk
  <2>4. pc \in {"idle", "tick", "ticks"} => next = NULL
    BY DEF Walk
  <2>5. OnlyStopsHarm'
    BY <2>1 DEF OnlyStopsHarm
  <2> QED
    BY <1>0, <2>1, <2>2, <2>3, <2>4, <2>5 DEF Walk
<1>1. ASSUME NEW name \in Maybe(Name), NEW length \in Lengths, do_timer(name, length)
      PROVE  Walk' /\ OnlyStopsHarm'
  <2>1. PICK d \in Timer \ Listed : timers' = Append(timers, d)
    BY <1>1 DEF do_timer
  <2>2. IsInjective(timers') /\ Listed' = Listed \cup {d}
    BY <2>1, TypeFacts, AppendLemma, ListedLemma DEF Walk
  <2>3. Given /\ cut' = cut
    BY <1>1 DEF do_timer
  <2> QED
    BY <2>2, <2>3, <1>0
<1>2. ASSUME NEW name \in Name, do_stoptimer(name)
      PROVE  Walk' /\ OnlyStopsHarm'
  <2>1. PICK d \in Listed : timers' = Without(d) /\ cut' = cut \cup {d}
    BY <1>2 DEF do_stoptimer, get_timer_by_name
  <2>2. IsInjective(timers') /\ Listed' = Listed \ {d}
    BY <2>1, TypeFacts, WithoutLemma, ListedLemma DEF Walk
  <2>3. Given
    BY <1>2 DEF do_stoptimer
  <2> QED
    BY <2>1, <2>2, <2>3, <1>0
<1>3. ASSUME tickon_command \/ tickoff_command \/ tickset_command
               \/ (\E size \in Sizes : ticksize_command(size))
               \/ (\E size \in Sizes, use \in BOOLEAN : prefs_apply_settings(use, size))
      PROVE  Walk' /\ OnlyStopsHarm'
  <2>1. UNCHANGED <<timers, next, this, cut, fault, pc>>
    BY <1>3, GivenFacts DEF tickon_command, tickoff_command, tickset_command,
              ticksize_command, prefs_apply_settings, walk, locals, list
  <2> QED
    BY <2>1, WalkSame
<1> QED
  BY <1>1, <1>2, <1>3 DEF Commands

LEMMA WalkStep ==
    ASSUME TypeOK, Walk, OnlyStopsHarm, [Next]_vars
    PROVE  Walk' /\ OnlyStopsHarm'
<1>1. CASE Clock \/ ChangeSession \/ UNCHANGED vars
  <2>1. UNCHANGED <<timers, next, this, cut, fault, pc>>
    BY <1>1 DEF Clock, ChangeSession, vars, walk, locals, list
  <2> QED
    BY <2>1, WalkSame
<1>2. CASE Commands
  BY <1>2, WalkCommands
<1>3. CASE Begin
  <2>1. /\ pc = "idle" /\ pc' = "asks" /\ timers' = timers /\ fault' = fault /\ fault = "none"
        /\ next' = IF timers = <<>> THEN NULL ELSE Head(timers)
    BY <1>3 DEF Begin, list
  <2>2. next' # NULL => next' \in Listed
    BY <2>1, TypeFacts, TailLemma, ListedLemma
  <2>3. Listed' = Listed
    BY <2>1 DEF Listed
  <2> QED
    BY <2>1, <2>2, <2>3 DEF Walk, OnlyStopsHarm
<1>4. CASE Asked \/ WalkEnds \/ Count \/ CountStarts \/ Ticked \/ CountEnds
  <2>1. UNCHANGED <<timers, next, this, cut, fault>>
    BY <1>4 DEF Asked, WalkEnds, Count, CountStarts, Ticked, CountEnds, list, locals
  <2>2. \/ pc' \in {"walk", "asks"}
        \/ pc' \in {"idle", "tick", "ticks"} /\ next = NULL
    BY <1>4 DEF Asked, WalkEnds, Count, CountStarts, Ticked, CountEnds, Counting, Walk
  <2> QED
    BY <2>1, <2>2, WalkSame
<1>5. CASE WalkOnFreed
  <2>1. next \in cut /\ fault' = "freed_cell" /\ UNCHANGED <<walk, list>>
    BY <1>5 DEF WalkOnFreed, Walking, Crash, Walk
  <2> QED
    BY <2>1, CrashWalk
<1>6. next \in Listed => After(next) \in Listed \cup {NULL} /\ After(next) # next
  BY AheadNext, TypeFacts, TimersAssumption, SMTT(30) DEF Walk
<1>7. CASE Pass
  <2>1. /\ next \in Listed /\ next' = After(next) /\ UNCHANGED <<timers, fault, pc, cut>>
        /\ pc = "walk" /\ fault = "none"
    BY <1>7 DEF Pass, Walking
  <2>2. Listed' = Listed
    BY <2>1 DEF Listed
  <2> QED
    BY <1>6, <2>1, <2>2 DEF Walk, OnlyStopsHarm
<1>8. CASE Announce
  <2>1. CASE Crash("null_session")
    BY <2>1, CrashWalk DEF Crash
  <2>2. CASE ~Crash("null_session")
    <3>1. /\ next \in Listed /\ next' = After(next) /\ this' = next
          /\ UNCHANGED <<timers, fault, cut>> /\ pc' \in {"warns", "expires"}
          /\ fault = "none"
      BY <1>8, <2>2 DEF Announce, Walking
    <3>2. Listed' = Listed /\ next \in Timer
      BY <3>1, TypeFacts, WithoutLemma DEF Listed, Walk
    <3> QED
      BY <1>6, <3>1, <3>2 DEF Walk, OnlyStopsHarm
  <2> QED
    BY <2>1, <2>2
<1>9. CASE Warned
  <2>1. CASE this \notin Listed
    <3>1. this \in cut /\ fault' = "freed_timer" /\ UNCHANGED <<walk, list>>
      BY <1>9, <2>1 DEF Warned, Crash, Walk
    <3> QED
      BY <3>1, CrashWalk
  <2>2. CASE this \in Listed
    <3>1. UNCHANGED <<timers, next, cut, fault>> /\ pc' = "walk" /\ fault = "none"
      BY <1>9, <2>2 DEF Warned
    <3>2. Listed' = Listed
      BY <3>1 DEF Listed
    <3> QED
      BY <3>1, <3>2 DEF Walk, OnlyStopsHarm
  <2> QED
    BY <2>1, <2>2
<1>10. CASE Expired
  <2>1. CASE this \notin Listed
    <3>1. this \in cut /\ fault' = "double_free" /\ UNCHANGED <<walk, list>>
      BY <1>10, <2>1 DEF Expired, Crash, Walk
    <3> QED
      BY <3>1, CrashWalk
  <2>2. CASE this \in Listed
    <3>1. /\ UNCHANGED <<next, cut, fault>> /\ pc' = "walk" /\ fault = "none"
          /\ timers' = Without(this) /\ pc = "expires"
      BY <1>10, <2>2 DEF Expired
    <3>2. Listed' = Listed \ {this} /\ IsInjective(timers')
      BY <2>2, <3>1, WithoutLemma, TypeFacts, ListedLemma DEF Walk
    <3> QED
      BY <3>1, <3>2 DEF Walk, OnlyStopsHarm
  <2> QED
    BY <2>1, <2>2
<1> QED
  BY <1>1, <1>2, <1>3, <1>4, <1>5, <1>7, <1>8, <1>9, <1>10 DEF Next, checktick

-----------------------------------------------------------------------------
(* One timer on its way, in numbers. *)

\* It begins on its way, whatever the pass is doing and wherever the walk stands.
LEMMA BornOnTrack ==
    ASSUME NEW n \in Nat, NEW t \in Nat, n <= t, NEW length \in Nat, 1 <= length,
           NEW ahead \in BOOLEAN, NEW warned \in BOOLEAN, NEW ended \in BOOLEAN
    PROVE  OnTrack(t, 0, t + length, 0, n, ahead, warned, ended)
BY DEF OnTrack

\* The next pass, in the same second or in the one after, has it ahead again.
LEMMA NextPassOnTrack ==
    ASSUME NEW since \in Nat, NEW warnings \in Nat, NEW finish \in Nat, NEW seen \in Nat,
           NEW n \in Nat, NEW m \in {n, n + 1},
           OnTrack(since, warnings, finish, seen, n, FALSE, FALSE, FALSE)
    PROVE  OnTrack(since, warnings, finish, seen, m, TRUE, FALSE, FALSE)
<1>1. CASE m = n
  BY <1>1 DEF OnTrack
<1>2. CASE m = n + 1
  BY <1>2 DEF OnTrack
<1> QED
  BY <1>1, <1>2

\* A pass goes by without a message.
LEMMA PassedOnTrack ==
    ASSUME NEW since \in Nat, NEW warnings \in Nat, NEW finish \in Nat, NEW seen \in Nat,
           NEW n \in Nat, 1 <= n,
           OnTrack(since, warnings, finish, seen, n, TRUE, FALSE, FALSE),
           ~(seen > 0 /\ seen < n /\ (finish - n = 0 \/ finish - n = 10))
    PROVE  OnTrack(since, warnings, finish, IF seen > 0 /\ seen < n THEN seen ELSE n, n,
                   FALSE, FALSE, FALSE)
<1>1. CASE seen > 0 /\ seen < n
  BY <1>1 DEF OnTrack
<1>2. CASE ~(seen > 0 /\ seen < n)
  BY <1>2 DEF OnTrack
<1> QED
  BY <1>1, <1>2

\* A pass shows its end, or its warning, and then notes the second.
LEMMA EndedOnTrack ==
    ASSUME NEW since \in Nat, NEW warnings \in Nat, NEW finish \in Nat, NEW seen \in Nat,
           NEW n \in Nat, finish = n, seen > 0,
           OnTrack(since, warnings, finish, seen, n, TRUE, FALSE, FALSE)
    PROVE  OnTrack(since, warnings, finish, seen, n, FALSE, FALSE, TRUE)
BY DEF OnTrack

LEMMA WarnedOnTrack ==
    ASSUME NEW since \in Nat, NEW warnings \in Nat, NEW finish \in Nat, NEW seen \in Nat,
           NEW n \in Nat, finish = n + 10, seen > 0, seen < n,
           OnTrack(since, warnings, finish, seen, n, TRUE, FALSE, FALSE)
    PROVE  OnTrack(since, warnings + 1, finish, seen, n, FALSE, TRUE, FALSE)
BY DEF OnTrack

LEMMA NotedOnTrack ==
    ASSUME NEW since \in Nat, NEW warnings \in Nat, NEW finish \in Nat, NEW seen \in Nat,
           NEW n \in Nat, 1 <= n, NEW ahead \in BOOLEAN,
           OnTrack(since, warnings, finish, seen, n, ahead, TRUE, FALSE)
    PROVE  OnTrack(since, warnings, finish, n, n, ahead, FALSE, FALSE)
BY DEF OnTrack

-----------------------------------------------------------------------------
(* Every timer stays on its way. *)

\* What is known of a listed timer.
LEMMA TimerFacts ==
    ASSUME TypeOK, NEW d \in Timer
    PROVE  /\ told[d].since \in Nat /\ told[d].warnings \in Nat
           /\ told[d].astray \in BOOLEAN
           /\ data[d].finish \in Nat /\ data[d].last \in Nat
BY TypeFacts DEF Told, Data

LEMMA AheadBoolean == Ahead(this) \in BOOLEAN /\ \A d : Ahead(d) \in BOOLEAN
BY DEF Ahead, AheadIn

\* A timer a step leaves alone, with what is ahead of the walk and what it shows.
LEMMA KeptSame ==
    ASSUME NEW d, Kept(d), data'[d] = data[d], told'[d] = told[d], now' = now,
           Ahead(d)' <=> Ahead(d),
           (pc' = "warns" /\ this' = d) <=> (pc = "warns" /\ this = d),
           (pc' = "expires" /\ this' = d) <=> (pc = "expires" /\ this = d)
    PROVE  Kept(d)'
<1>1. /\ Ahead(d)' = Ahead(d)
      /\ (pc' = "warns" /\ this' = d) = (pc = "warns" /\ this = d)
      /\ (pc' = "expires" /\ this' = d) = (pc = "expires" /\ this = d)
  BY DEF Ahead, AheadIn
<1> QED
  BY <1>1 DEF Kept

LEMMA TimelySame ==
    ASSUME Timely, UNCHANGED <<timers, data, told, now, next, this>>,
           pc' = pc \/ {pc, pc'} \cap {"warns", "expires"} = {}
    PROVE  Timely'
<1> SUFFICES ASSUME NEW d \in Listed', ~told[d].astray
             PROVE  Kept(d)'
  BY DEF Timely
<1>1. d \in Listed
  BY DEF Listed
<1>2. Ahead(d)' <=> Ahead(d)
  BY DEF Ahead
<1>3. Kept(d)
  BY <1>1 DEF Timely
<1> QED
  BY <1>2, <1>3, KeptSame

LEMMA StartTimely ==
    ASSUME TypeOK, Clocked, Walk, Timely,
           NEW name \in Maybe(Name), NEW length \in Lengths, do_timer(name, length)
    PROVE  Timely'
<1>1. PICK x \in Timer \ Listed :
         /\ timers' = Append(timers, x)
         /\ data' = [data EXCEPT ![x] = [string |-> name, finish |-> time + length,
                                         last |-> 0]]
         /\ told' = [told EXCEPT ![x] = [since |-> time, warnings |-> 0,
                                         astray |-> FALSE]]
  BY DEF do_timer
<1>2. UNCHANGED <<time, pc, now, next, this>>
  BY GivenFacts DEF do_timer
<1>3. Listed' = Listed \cup {x} /\ Listed = Range(timers)
  BY <1>1, TypeFacts, AppendLemma, ListedLemma
<1>4. Listed \subseteq Timer
  BY <1>3, TypeFacts, RangeLemma
<1>5. ASSUME NEW d \in Listed, ~told'[d].astray
      PROVE  Kept(d)'
  <2>1. d # x /\ data'[d] = data[d] /\ told'[d] = told[d]
    BY <1>1, <1>4, TypeFacts
  <2>2. Kept(d)
    BY <1>5, <2>1 DEF Timely
  <2>3. Ahead(d)' <=> Ahead(d)
    BY <1>1, <1>2, <1>3, TypeFacts, AheadAppend DEF Ahead
  <2> QED
    BY <1>2, <2>1, <2>2, <2>3, KeptSame
<1>6. Kept(x)'
  <2>1. /\ told'[x].since = time /\ told'[x].warnings = 0
        /\ data'[x].finish = time + length /\ data'[x].last = 0
    BY <1>1, TypeFacts
  <2>2. /\ time \in Nat /\ now \in Nat /\ now <= time /\ length \in Nat /\ 1 <= length
    <3>1. length \in 1..7200
      BY TimersAssumption
    <3> QED
      BY <3>1, TypeFacts DEF Clocked
  <2>3. /\ Ahead(x)' \in BOOLEAN /\ (pc' = "warns" /\ this' = x) \in BOOLEAN
        /\ (pc' = "expires" /\ this' = x) \in BOOLEAN
    BY DEF Ahead, AheadIn
  <2>4. OnTrack(time, 0, time + length, 0, now, Ahead(x)',
                pc' = "warns" /\ this' = x, pc' = "expires" /\ this' = x)
    BY <2>2, <2>3, BornOnTrack
  <2> QED
    BY <2>1, <2>4, <1>2 DEF Kept
<1> QED
  BY <1>3, <1>5, <1>6 DEF Timely

LEMMA StopTimely ==
    ASSUME TypeOK, Walk, Timely, NEW name \in Name, do_stoptimer(name)
    PROVE  Timely'
<1>1. PICK x \in Listed :
         /\ timers' = Without(x)
         /\ told' = IF x = next THEN [t \in Timer |-> [told[t] EXCEPT !.astray = TRUE]]
                    ELSE told
  BY DEF do_stoptimer, get_timer_by_name
<1>2. UNCHANGED <<pc, now, next, this, data>>
  BY GivenFacts DEF do_stoptimer
<1>3. /\ Listed' = Listed \ {x} /\ Listed = Range(timers) /\ Listed \subseteq Timer
      /\ timers \in Seq(Timer) /\ IsInjective(timers)
  BY <1>1, TypeFacts, WithoutLemma, ListedLemma DEF Walk
<1> SUFFICES ASSUME NEW d \in Listed', ~told'[d].astray
             PROVE  Kept(d)'
  BY DEF Timely
<1>4. x # next
  <2> SUFFICES ASSUME x = next PROVE FALSE
    OBVIOUS
  <2>1. told'[d] = [told[d] EXCEPT !.astray = TRUE] /\ told[d] \in Told
    BY <1>1, <1>3, TypeFacts
  <2>2. told'[d].astray
    BY <2>1 DEF Told
  <2> QED
    BY <2>2
<1>5. told' = told /\ Kept(d) /\ d # x
  BY <1>1, <1>3, <1>4 DEF Timely
<1>6. Ahead(d)' <=> Ahead(d)
  <2>1. PICK k \in 1..Len(timers) : timers[k] = x
    BY <1>3, RangeLemma
  <2>2. timers' = RemoveAt(timers, k)
    BY <1>1, <1>3, <2>1, PlaceLemma
  <2> QED
    BY <1>2, <1>3, <1>4, <1>5, <2>1, <2>2, AheadRemove DEF Ahead
<1> QED
  BY <1>2, <1>5, <1>6, KeptSame

LEMMA BeginTimely ==
    ASSUME TypeOK, Clocked, Walk, Timely, Late = 1, Begin
    PROVE  Timely'
<1>1. /\ now' = time /\ pc = "idle" /\ pc' = "asks" /\ UNCHANGED <<timers, data, told>>
      /\ next' = IF timers = <<>> THEN NULL ELSE Head(timers)
  BY DEF Begin, list
<1> SUFFICES ASSUME NEW d \in Listed', ~told'[d].astray
             PROVE  Kept(d)'
  BY DEF Timely
<1>2. d \in Listed /\ Kept(d) /\ d \in Range(timers)
  BY <1>1, ListedLemma DEF Timely, Listed
<1>3. timers \in Seq(Timer) /\ IsInjective(timers) /\ timers # <<>> /\ d \in Timer
  BY <1>2, TypeFacts, RangeLemma, ListedLemma DEF Walk
<1>4. ~Ahead(d)
  <2>1. next = NULL /\ NULL \notin Range(timers)
    BY <1>1, <1>3, TimersAssumption, RangeLemma, SMTT(30) DEF Walk
  <2> QED
    BY <2>1, <1>3, NothingAhead DEF Ahead
<1>5. Ahead(d)'
  <2>1. PICK j \in 1..Len(timers) : timers[j] = d
    BY <1>2, <1>3, RangeLemma
  <2>2. next' = timers[1] /\ 1 \in 1..Len(timers) /\ 1 <= j
    BY <1>1, <1>3, TailLemma, RangeLemma
  <2> QED
    BY <1>1, <1>3, <2>1, <2>2, AheadLemma DEF Ahead
<1>6. now' \in {now, now + 1} /\ now \in Nat
  BY <1>1, TypeFacts DEF Clocked
<1>7. OnTrack(told[d].since, told[d].warnings, data[d].finish, data[d].last, now,
              FALSE, FALSE, FALSE)
  <2>1. /\ Ahead(d) = FALSE /\ (pc = "warns" /\ this = d) = FALSE
        /\ (pc = "expires" /\ this = d) = FALSE
    BY <1>1, <1>4 DEF Ahead, AheadIn
  <2> QED
    BY <1>2, <2>1 DEF Kept
<1>8. OnTrack(told[d].since, told[d].warnings, data[d].finish, data[d].last, now',
              TRUE, FALSE, FALSE)
  BY <1>3, <1>6, <1>7, TimerFacts, NextPassOnTrack
<1>9. /\ Ahead(d)' = TRUE /\ (pc' = "warns" /\ this' = d) = FALSE
      /\ (pc' = "expires" /\ this' = d) = FALSE
  BY <1>1, <1>5 DEF Ahead, AheadIn
<1> QED
  BY <1>1, <1>8, <1>9 DEF Kept

\* A pass goes on from p, the timer the walk held: the others stay on their way.
LEMMA OthersOnTrack ==
    ASSUME TypeOK, Walk, Timely, NEW p \in Listed, p = next, next' = After(p),
           UNCHANGED <<timers, now>>, pc = "walk",
           \/ pc' = "walk"
           \/ pc' \in {"warns", "expires"} /\ this' = p,
           NEW d \in Listed, d # p, ~told[d].astray,
           data'[d] = data[d], told'[d] = told[d]
    PROVE  Kept(d)'
<1>1. Kept(d)
  BY DEF Timely
<1>2. AheadIn(timers, After(p), d) <=> AheadIn(timers, p, d)
  BY AheadNext, TypeFacts, TimersAssumption, SMTT(30) DEF Walk
<1>3. Ahead(d)' <=> Ahead(d)
  BY <1>2 DEF Ahead
<1> QED
  BY <1>1, <1>3, KeptSame

\* p itself, before the step and after it.
LEMMA HeldOnTrack ==
    ASSUME TypeOK, Walk, Timely, NEW p \in Listed, p = next, pc = "walk",
           next' = After(p), timers' = timers, ~told[p].astray
    PROVE  /\ OnTrack(told[p].since, told[p].warnings, data[p].finish, data[p].last, now,
                      TRUE, FALSE, FALSE)
           /\ Ahead(p)' = FALSE
<1>1. Kept(p)
  BY DEF Timely
<1>2. AheadIn(timers, p, p) /\ ~AheadIn(timers, After(p), p)
  BY AheadNext, TypeFacts, TimersAssumption, SMTT(30) DEF Walk
<1>3. Ahead(p) = TRUE /\ Ahead(p)' = FALSE
  BY <1>2 DEF Ahead, AheadIn
<1>4. (pc = "warns" /\ this = p) = FALSE /\ (pc = "expires" /\ this = p) = FALSE
  OBVIOUS
<1> QED
  BY <1>1, <1>3, <1>4 DEF Kept

LEMMA PassTimely ==
    ASSUME TypeOK, Clocked, Walk, Timely, Pass
    PROVE  Timely'
<1>1. PICK p \in Listed : p = next
  BY DEF Pass
<1>2. /\ pc = "walk" /\ ~Announces(p) /\ next' = After(p)
      /\ data' = IF Due(p) THEN data ELSE [data EXCEPT ![p].last = now]
      /\ UNCHANGED <<timers, told, pc, now, this>>
  BY <1>1 DEF Pass, Walking
<1>3. Listed' = Listed /\ Listed \subseteq Timer /\ p \in Timer
  BY <1>2, TypeFacts, WithoutLemma DEF Listed, Walk
<1>4. ASSUME NEW d \in Listed, d # p, ~told[d].astray
      PROVE  Kept(d)'
  <2>1. data'[d] = data[d]
    BY <1>2, <1>3, <1>4, TypeFacts
  <2> QED
    BY <1>1, <1>2, <1>4, <2>1, OthersOnTrack
<1>5. ASSUME ~told[p].astray
      PROVE  Kept(p)'
  <2>1. data'[p].finish = data[p].finish
        /\ data'[p].last = IF Due(p) THEN data[p].last ELSE now
    BY <1>2, <1>3, TypeFacts DEF Data
  <2>2. Due(p) <=> data[p].last > 0 /\ data[p].last < now
    BY DEF Due
  <2>3. ~(data[p].last > 0 /\ data[p].last < now
            /\ (data[p].finish - now = 0 \/ data[p].finish - now = 10))
    BY <1>2 DEF Announces, Due, Left, WARNING
  <2>4. now \in Nat /\ 1 <= now
    BY <1>2, TypeFacts DEF Clocked
  <2>5. OnTrack(told[p].since, told[p].warnings, data[p].finish, data[p].last, now,
                TRUE, FALSE, FALSE)
        /\ Ahead(p)' = FALSE
    BY <1>1, <1>2, <1>5, HeldOnTrack
  <2>6. OnTrack(told[p].since, told[p].warnings, data[p].finish,
                IF data[p].last > 0 /\ data[p].last < now THEN data[p].last ELSE now,
                now, FALSE, FALSE, FALSE)
    BY <1>3, <2>3, <2>4, <2>5, TimerFacts, PassedOnTrack
  <2>7. (pc' = "warns" /\ this' = p) = FALSE /\ (pc' = "expires" /\ this' = p) = FALSE
    BY <1>2
  <2> QED
    BY <1>2, <2>1, <2>2, <2>5, <2>6, <2>7 DEF Kept
<1> QED
  BY <1>2, <1>3, <1>4, <1>5 DEF Timely

LEMMA AnnounceTimely ==
    ASSUME TypeOK, Walk, Timely, Announce, fault' = "none"
    PROVE  Timely'
<1>1. PICK p \in Listed : p = next
  BY DEF Announce
<1>2. /\ pc = "walk" /\ Announces(p) /\ this' = p /\ next' = After(p)
      /\ UNCHANGED <<timers, data, now>>
      /\ \/ Left(p) = 0 /\ pc' = "expires" /\ told' = told
         \/ Left(p) # 0 /\ pc' = "warns" /\ told' = [told EXCEPT ![p].warnings = @ + 1]
  BY <1>1 DEF Announce, Walking, Crash
<1>3. Listed' = Listed /\ Listed \subseteq Timer /\ p \in Timer
  BY <1>2, TypeFacts, WithoutLemma DEF Listed, Walk
<1>4. ASSUME NEW d \in Listed, d # p, ~told[d].astray
      PROVE  Kept(d)'
  <2>1. told'[d] = told[d] /\ data'[d] = data[d]
    BY <1>2, <1>3, <1>4, TypeFacts
  <2> QED
    BY <1>1, <1>2, <1>4, <2>1, OthersOnTrack
<1>5. /\ told'[p].since = told[p].since /\ told'[p].astray = told[p].astray
      /\ told'[p].warnings = IF Left(p) = 0 THEN told[p].warnings
                             ELSE told[p].warnings + 1
  BY <1>2, <1>3, TypeFacts DEF Told
<1>6. ASSUME ~told[p].astray
      PROVE  Kept(p)'
  <2>1. /\ data[p].last > 0 /\ data[p].last < now /\ Left(p) \in {0, 10}
        /\ Left(p) = data[p].finish - now
    BY <1>2 DEF Announces, Due, Left, WARNING
  <2>2. now \in Nat
    BY TypeFacts
  <2>3. OnTrack(told[p].since, told[p].warnings, data[p].finish, data[p].last, now,
                TRUE, FALSE, FALSE)
        /\ Ahead(p)' = FALSE
    BY <1>1, <1>2, <1>6, HeldOnTrack
  <2>4. CASE Left(p) = 0
    <3>1. data[p].finish = now
      BY <1>3, <2>1, <2>2, <2>4, TimerFacts
    <3>2. OnTrack(told[p].since, told[p].warnings, data[p].finish, data[p].last, now,
                  FALSE, FALSE, TRUE)
      BY <1>3, <2>1, <2>2, <2>3, <3>1, TimerFacts, EndedOnTrack
    <3>3. (pc' = "warns" /\ this' = p) = FALSE /\ (pc' = "expires" /\ this' = p) = TRUE
      BY <1>2, <2>4
    <3> QED
      BY <1>2, <1>5, <2>3, <2>4, <3>2, <3>3 DEF Kept
  <2>5. CASE Left(p) # 0
    <3>1. data[p].finish = now + 10
      BY <1>3, <2>1, <2>2, <2>5, TimerFacts
    <3>2. OnTrack(told[p].since, told[p].warnings + 1, data[p].finish, data[p].last, now,
                  FALSE, TRUE, FALSE)
      BY <1>3, <2>1, <2>2, <2>3, <3>1, TimerFacts, WarnedOnTrack
    <3>3. (pc' = "warns" /\ this' = p) = TRUE /\ (pc' = "expires" /\ this' = p) = FALSE
      BY <1>2, <2>5
    <3> QED
      BY <1>2, <1>5, <2>3, <2>5, <3>2, <3>3 DEF Kept
  <2> QED
    BY <2>4, <2>5
<1>7. ASSUME NEW d \in Listed, ~told'[d].astray
      PROVE  ~told[d].astray
  BY <1>2, <1>3, <1>5, <1>7, TypeFacts
<1> QED
  BY <1>3, <1>4, <1>6, <1>7 DEF Timely

LEMMA WarnedTimely ==
    ASSUME TypeOK, Clocked, Walk, Timely, Warned, fault' = "none"
    PROVE  Timely'
<1>1. PICK p \in Listed : p = this
  BY DEF Warned, Crash
<1>2. /\ pc = "warns" /\ pc' = "walk" /\ data' = [data EXCEPT ![p].last = now]
      /\ UNCHANGED <<timers, told, now, next>>
  BY <1>1 DEF Warned, Noted
<1>3. Listed' = Listed /\ Listed \subseteq Timer /\ p \in Timer
  BY <1>2, TypeFacts, WithoutLemma DEF Listed, Walk
<1>4. \A d : Ahead(d)' = Ahead(d)
  BY <1>2 DEF Ahead, AheadIn
<1>5. ASSUME NEW d \in Listed, d # p, ~told[d].astray
      PROVE  Kept(d)'
  <2>1. data'[d] = data[d] /\ Kept(d)
    BY <1>2, <1>3, <1>5, TypeFacts DEF Timely
  <2> QED
    BY <1>1, <1>2, <1>4, <1>5, <2>1, KeptSame
<1>6. ASSUME ~told[p].astray
      PROVE  Kept(p)'
  <2>1. /\ (pc = "warns" /\ this = p) = TRUE /\ (pc = "expires" /\ this = p) = FALSE
        /\ (pc' = "warns" /\ this' = p) = FALSE /\ (pc' = "expires" /\ this' = p) = FALSE
    BY <1>1, <1>2
  <2>2. OnTrack(told[p].since, told[p].warnings, data[p].finish, data[p].last, now,
                Ahead(p), TRUE, FALSE)
    BY <1>6, <2>1 DEF Timely, Kept
  <2>3. now \in Nat /\ 1 <= now /\ Ahead(p) \in BOOLEAN
    BY <1>2, TypeFacts, AheadBoolean DEF Clocked
  <2>4. OnTrack(told[p].since, told[p].warnings, data[p].finish, now, now,
                Ahead(p), FALSE, FALSE)
    <3>1. /\ told[p].since \in Nat /\ told[p].warnings \in Nat
          /\ data[p].finish \in Nat /\ data[p].last \in Nat
      BY <1>3, TimerFacts
    <3> QED
      BY <2>2, <2>3, <3>1, NotedOnTrack, ZenonT(30)
  <2>5. data'[p].finish = data[p].finish /\ data'[p].last = now
    BY <1>2, <1>3, TypeFacts DEF Data
  <2> QED
    BY <1>2, <1>4, <2>1, <2>4, <2>5 DEF Kept
<1> QED
  BY <1>2, <1>3, <1>5, <1>6 DEF Timely

LEMMA ExpiredTimely ==
    ASSUME TypeOK, Walk, Timely, Expired, fault' = "none"
    PROVE  Timely'
<1>1. PICK p \in Listed : p = this
  BY DEF Expired, Crash
<1>2. /\ pc = "expires" /\ pc' = "walk" /\ timers' = Without(p) /\ p # next
      /\ UNCHANGED <<data, told, now, next>>
  BY <1>1 DEF Expired, Walk
<1>3. /\ Listed' = Listed \ {p} /\ timers \in Seq(Timer) /\ IsInjective(timers)
  BY <1>2, TypeFacts, WithoutLemma, ListedLemma DEF Walk
<1>4. PICK k \in 1..Len(timers) : timers[k] = p
  BY <1>3, ListedLemma, RangeLemma
<1>5. timers' = RemoveAt(timers, k)
  BY <1>2, <1>3, <1>4, PlaceLemma
<1>6. ASSUME NEW d \in Listed', ~told'[d].astray
      PROVE  Kept(d)'
  <2>1. Kept(d) /\ d # p
    BY <1>2, <1>3, <1>6 DEF Timely
  <2>2. Ahead(d)' <=> Ahead(d)
    BY <1>2, <1>3, <1>4, <1>5, <2>1, AheadRemove DEF Ahead
  <2> QED
    BY <1>1, <1>2, <2>1, <2>2, KeptSame
<1> QED
  BY <1>6 DEF Timely

\* After a crash nothing moves on.
LEMMA TimelyStep ==
    ASSUME TypeOK, Clocked, Walk, Timely, Late = 1, [Next]_vars
    PROVE  Timely'
<1>1. CASE Clock \/ ChangeSession \/ UNCHANGED vars
  <2>1. UNCHANGED <<timers, data, told, now, next, this, pc>>
    BY <1>1 DEF Clock, ChangeSession, vars, walk, locals, list
  <2> QED
    BY <2>1, TimelySame
<1>2. CASE Commands
  <2>1. ASSUME tickon_command \/ tickoff_command \/ tickset_command
               \/ (\E size \in Sizes : ticksize_command(size))
               \/ (\E size \in Sizes, use \in BOOLEAN : prefs_apply_settings(use, size))
        PROVE  UNCHANGED <<timers, data, told, now, next, this, pc>>
    BY <2>1, GivenFacts DEF tickon_command, tickoff_command, tickset_command,
              ticksize_command, prefs_apply_settings, walk, locals, list
  <2> QED
    BY <1>2, <2>1, TimelySame, StartTimely, StopTimely DEF Commands
<1>3. ASSUME NEW kind, Crash(kind)
      PROVE  Timely'
  <2>1. UNCHANGED <<timers, data, told, now, next, this, pc>>
    BY <1>3 DEF Crash, walk, locals, list
  <2> QED
    BY <2>1, TimelySame
<1>4. CASE Asked \/ WalkEnds \/ Count \/ CountStarts \/ Ticked \/ CountEnds
  <2>1. UNCHANGED <<timers, data, told, now, next, this>>
    BY <1>4 DEF Asked, WalkEnds, Count, CountStarts, Ticked, CountEnds, list, locals
  <2>2. {pc, pc'} \cap {"warns", "expires"} = {}
    BY <1>4 DEF Asked, WalkEnds, Count, CountStarts, Ticked, CountEnds, Counting
  <2> QED
    BY <2>1, <2>2, TimelySame
<1>5. CASE WalkOnFreed
  BY <1>5, <1>3 DEF WalkOnFreed
<1>6. CASE Announce \/ Warned \/ Expired
  <2>1. CASE fault' = "none"
    BY <1>6, <2>1, AnnounceTimely, WarnedTimely, ExpiredTimely
  <2>2. CASE fault' # "none"
    <3>1. \E kind \in Faults : Crash(kind)
      BY <1>6, <2>2 DEF Announce, Warned, Expired, Walking, Faults
    <3> QED
      BY <3>1, <1>3
  <2> QED
    BY <2>1, <2>2
<1> QED
  BY <1>1, <1>2, <1>4, <1>5, <1>6, BeginTimely, PassTimely DEF Next, checktick

\* Between two passes nothing is ahead.
LEMMA IdleLemma ==
    ASSUME TypeOK, Walk, pc = "idle", NEW d \in Listed
    PROVE  d \in Timer /\ ~Ahead(d)
<1>1. next = NULL /\ timers \in Seq(Timer) /\ d \in Timer
  BY TypeFacts, WithoutLemma DEF Walk
<1>2. NULL \notin Range(timers)
  BY <1>1, TimersAssumption, RangeLemma, SMTT(30)
<1> QED
  BY <1>1, <1>2, NothingAhead DEF Ahead

-----------------------------------------------------------------------------
(* Theorems. *)

\* The inductive invariant, whatever the delay between two passes.
THEOREM Inductive == Spec => []IInv
<1>1. Init => IInv
  <2> SUFFICES ASSUME Init PROVE IInv
    OBVIOUS
  <2>1. TypeOK
    <3>1. data \in [Timer -> [string : Maybe(Name), finish : Nat, last : Nat]]
      BY DEF Init, Maybe
    <3>2. told \in [Timer -> [since : Nat, warnings : Nat, astray : BOOLEAN]]
      BY DEF Init
    <3>3. timers \in Seq(Timer)
      BY EmptyLemma DEF Init
    <3>4. /\ time \in Nat /\ now \in Nat /\ commands \in Nat
          /\ time0 \in Nat \cup {-1} /\ tick_size \in Nat \ {0}
          /\ last \in Int /\ -1 <= last /\ last <= now + 1
      BY DEF Init
    <3> QED
      BY <3>1, <3>2, <3>3, <3>4 DEF Init, TypeOK, Maybe, Points, Faults
  <2>2. IsInjective(timers)
    BY EmptyLemma DEF Init, IsInjective
  <2>3. Clocked /\ Walk /\ OnlyStopsHarm
    BY <2>2, TimersAssumption DEF Init, Clocked, Walk, OnlyStopsHarm
  <2> QED
    BY <2>1, <2>3 DEF IInv
<1>2. IInv /\ [Next]_vars => IInv'
  <2> SUFFICES ASSUME IInv, [Next]_vars PROVE IInv'
    OBVIOUS
  <2>1. TypeOK'
    <3>1. CASE Clock \/ ChangeSession \/ UNCHANGED vars
      <4>1. /\ UNCHANGED <<timers, data, told, use_tickcounter, time0, tick_size, pc, now,
                           next, this, last, cut, commands, fault>>
            /\ time' \in {time, time + 1}
            /\ session' \in BOOLEAN /\ tickstatus' \in BOOLEAN
        BY <3>1 DEF IInv, TypeOK, Clock, ChangeSession, vars, list, counter, user, walk,
                    locals
      <4> QED
        BY <4>1 DEF IInv, TypeOK
    <3> QED
      BY <3>1, CommandTypes, PassTypes DEF Next, IInv
  <2> QED
    BY <2>1, ClockedStep, WalkStep DEF IInv
<1> QED
  BY <1>1, <1>2, PTL DEF Spec

\* Every variable keeps its type; the tick counter is never ahead of the coming second.
THEOREM TypeCorrect == Spec => []TypeOK
<1>1. IInv => TypeOK
  BY DEF IInv
<1> QED
  BY <1>1, Inductive, PTL

\* A pass goes through freed memory only if one of its commands stopped the timer it
\* shows, or the one it goes to next.
THEOREM StopsHarmOnly == Spec => []OnlyStopsHarm
<1>1. IInv => OnlyStopsHarm
  BY DEF IInv
<1> QED
  BY <1>1, Inductive, PTL

\* A pass that counts the tick gets to the coming second, however long the program
\* was busy before it and whatever commands run on its messages.
THEOREM CountsToTheSecond == Spec => Counted
<1>1. IInv /\ [Next]_vars => [pc = "tick" /\ pc' = "idle" => last' = now + 1]_vars
  <2> SUFFICES ASSUME IInv, Next, pc = "tick", pc' = "idle"
               PROVE  last' = now + 1
    OBVIOUS
  <2>1. last \in Int /\ now \in Nat /\ last <= now + 1
    BY DEF IInv, TypeOK
  <2>2. CountStarts \/ CountEnds
    BY GivenFacts
       DEF IInv, Next, checktick, Commands, Clock, ChangeSession, do_timer, do_stoptimer,
           tickon_command, tickoff_command, tickset_command, ticksize_command,
           prefs_apply_settings, Begin, Asked, WalkOnFreed, Pass, Announce, Warned,
           Expired, WalkEnds, Count, Ticked, Walking, walk
  <2>3. CASE CountStarts
    BY <2>3 DEF CountStarts
  <2>4. CASE CountEnds
    BY <2>1, <2>4 DEF CountEnds, Reached, locals
  <2> QED
    BY <2>2, <2>3, <2>4
<1> QED
  BY <1>1, Inductive, PTL DEF Spec, Counted

\* With a pass in every second, no timer leaves its way.
THEOREM StaysOnTrack ==
    ASSUME Late = 1
    PROVE  Spec => []Timely
<1>1. Init => Timely
  BY EmptyLemma, ListedLemma DEF Init, Timely
<1>2. IInv /\ Timely /\ [Next]_vars => Timely'
  BY TimelyStep DEF IInv
<1> QED
  BY <1>1, <1>2, Inductive, PTL DEF Spec

\* With a pass in every second, a timer of two seconds or more ends in its second,
\* unless a command stopped a timer while the walk held it.
THEOREM EndsInItsSecond ==
    ASSUME Late = 1
    PROVE  Spec => []OnTime
<1>1. IInv /\ Timely => OnTime
  <2> SUFFICES ASSUME IInv, Timely, pc = "idle", NEW d \in Listed,
                      Length(d) >= 2, ~told[d].astray
               PROVE  data[d].finish > now
    BY DEF OnTime
  <2>1. d \in Timer /\ ~Ahead(d)
    BY IdleLemma DEF IInv
  <2> QED
    BY <2>1, TimerFacts DEF IInv, Timely, Kept, OnTrack, Length
<1> QED
  BY <1>1, Inductive, StaysOnTrack, PTL

\* With a pass in every second, a timer of twelve seconds or more is announced ten
\* seconds before its end, and once.
THEOREM AnnouncedOnce ==
    ASSUME Late = 1
    PROVE  Spec => []WarnedOnce
<1>1. IInv /\ Timely => WarnedOnce
  <2> SUFFICES ASSUME IInv, Timely, pc = "idle", NEW d \in Listed,
                      Length(d) >= WARNING + 2, ~told[d].astray
               PROVE  told[d].warnings = IF Left(d) <= WARNING THEN 1 ELSE 0
    BY DEF WarnedOnce
  <2>1. d \in Timer /\ ~Ahead(d)
    BY IdleLemma DEF IInv
  <2>2. now \in Nat
    BY TypeFacts DEF IInv
  <2> QED
    BY <2>1, <2>2, TimerFacts DEF IInv, Timely, Kept, OnTrack, Length, Left, WARNING
<1> QED
  BY <1>1, Inductive, StaysOnTrack, PTL

=============================================================================
