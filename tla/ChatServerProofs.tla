-------------------------- MODULE ChatServerProofs --------------------------
(***************************************************************************)
(* Proofs about the chat server, for any set of connections and texts, any *)
(* size of the buffers, with and without a password and SIGPIPE: its lists *)
(* and messages keep their types (TypeCorrect), the walk over the players  *)
(* never loses its way (WalkNeverLost), a player marked for the kill is    *)
(* not read again (MarkedIsNotRead), and the server, whose broadcasts are  *)
(* series of sends that may block, implements the room (ServerIsARoom).    *)
(***************************************************************************)
EXTENDS ChatServer, SequenceTheorems, FiniteSetTheorems, TLAPS

-----------------------------------------------------------------------------
(* Lists whose elements are distinct: what they hold, and what an element    *)
(* more, at either end, or less leaves of them.                              *)

\* What is in a list is what its positions hold.
LEMMA RangeLemma ==
    ASSUME NEW S, NEW s \in Seq(S)
    PROVE  /\ DOMAIN s = 1..Len(s) /\ Len(s) \in Nat
           /\ \A x : x \in Range(s) <=> \E i \in 1..Len(s) : s[i] = x
           /\ \A i \in 1..Len(s) : s[i] \in S /\ s[i] \in Range(s)
           /\ Range(s) \subseteq S
BY LenProperties, ElementOfSeq DEF Range

\* An empty list, and a list with one more element at its end.
LEMMA EmptyLemma ==
    \A S : <<>> \in Seq(S) /\ Len(<<>>) = 0 /\ DOMAIN <<>> = {} /\ Range(<<>>) = {}
BY EmptySeq DEF Range

LEMMA AppendLemma ==
    ASSUME NEW S, NEW s \in Seq(S), NEW x \in S
    PROVE  /\ Append(s, x) \in Seq(S) /\ Append(s, x) # <<>>
           /\ Range(Append(s, x)) = Range(s) \cup {x}
           /\ IsInjective(s) /\ x \notin Range(s) => IsInjective(Append(s, x))
<1> DEFINE t == Append(s, x)
<1>1. /\ t \in Seq(S) /\ t # <<>> /\ Len(t) = Len(s) + 1
      /\ \A i \in 1..Len(s) : t[i] = s[i]
      /\ t[Len(s) + 1] = x
  BY AppendProperties
<1> HIDE DEF t
<1>2. /\ DOMAIN s = 1..Len(s) /\ Len(s) \in Nat
      /\ \A y : y \in Range(s) <=> \E i \in 1..Len(s) : s[i] = y
  BY RangeLemma
<1>3. /\ DOMAIN t = 1..Len(s) + 1
      /\ \A y : y \in Range(t) <=> \E i \in 1..Len(s) + 1 : t[i] = y
  BY <1>1, RangeLemma
<1>4. Range(t) = Range(s) \cup {x}
  BY <1>1, <1>2, <1>3
<1>5. ASSUME IsInjective(s), x \notin Range(s)
      PROVE  IsInjective(t)
  BY <1>1, <1>2, <1>3, <1>5 DEF IsInjective
<1> QED
  BY <1>1, <1>4, <1>5 DEF t

\* One more element in front.
LEMMA PrependLemma ==
    ASSUME NEW S, NEW s \in Seq(S), NEW x \in S
    PROVE  /\ <<x>> \o s \in Seq(S)
           /\ Range(<<x>> \o s) = Range(s) \cup {x}
           /\ IsInjective(s) /\ x \notin Range(s) => IsInjective(<<x>> \o s)
<1> DEFINE t == <<x>> \o s
           n == Len(s)
<1>1. <<x>> \in Seq(S) /\ Len(<<x>>) = 1 /\ <<x>>[1] = x
  OBVIOUS
<1>2. /\ DOMAIN s = 1..n /\ n \in Nat
      /\ \A y : y \in Range(s) <=> \E i \in 1..n : s[i] = y
  BY RangeLemma
<1>3. /\ t \in Seq(S) /\ Len(t) = 1 + n
      /\ \A i \in 1..1 + n : t[i] = IF i <= 1 THEN <<x>>[i] ELSE s[i - 1]
  BY <1>1, ConcatProperties
<1> HIDE DEF t
<1>4. t[1] = x /\ \A i \in 1..n : i + 1 \in 1..1 + n /\ t[i + 1] = s[i]
  BY <1>1, <1>2, <1>3
<1>5. \A j \in 1..1 + n : j = 1 \/ (j - 1 \in 1..n /\ j - 1 + 1 = j)
  BY <1>2
<1>6. /\ DOMAIN t = 1..1 + n
      /\ \A y : y \in Range(t) <=> \E i \in 1..1 + n : t[i] = y
  BY <1>3, RangeLemma
<1>7. 1 \in 1..1 + n
  BY <1>2
<1>8. \A j \in 1..1 + n : j # 1 => j - 1 \in 1..n /\ t[j] = s[j - 1]
  BY <1>4, <1>5
<1>9. Range(t) = Range(s) \cup {x}
  <2>1. ASSUME NEW y \in Range(t)
        PROVE  y \in Range(s) \cup {x}
    BY <1>2, <1>4, <1>6, <1>8
  <2>2. ASSUME NEW y \in Range(s) \cup {x}
        PROVE  y \in Range(t)
    BY <1>2, <1>4, <1>6, <1>7
  <2> QED
    BY <2>1, <2>2
<1>10. ASSUME IsInjective(s), x \notin Range(s)
      PROVE  IsInjective(t)
  <2>1. \A i, j \in 1..n : s[i] = s[j] => i = j
    BY <1>2, <1>10 DEF IsInjective
  <2>2. \A i \in 1..n : t[i + 1] # x
    BY <1>2, <1>4, <1>10
  <2>3. ASSUME NEW i \in 1..1 + n, NEW j \in 1..1 + n, t[i] = t[j]
        PROVE  i = j
    <3>1. CASE i = 1 \/ j = 1
      <4>1. \A k \in 1..1 + n : k # 1 => t[k] # x
        BY <2>2, <1>4, <1>5, ZenonT(30)
      <4> QED
        BY <4>1, <3>1, <2>3, <1>4
    <3>2. CASE i # 1 /\ j # 1
      <4>1. i - 1 = j - 1
        BY <3>2, <2>1, <2>3, <1>8
      <4> QED
        BY <4>1, <1>2
    <3> QED
      BY <3>1, <3>2
  <2> QED
    BY <2>3, <1>6 DEF IsInjective
<1> QED
  BY <1>3, <1>9, <1>10 DEF t

\* The first element of a list taken off.
LEMMA TailLemma ==
    ASSUME NEW S, NEW s \in Seq(S), s # <<>>
    PROVE  /\ Head(s) \in S /\ Head(s) \in Range(s)
           /\ Head(s) = s[1] /\ 1 \in DOMAIN s
           /\ Tail(s) \in Seq(S)
           /\ Len(Tail(s)) = Len(s) - 1
           /\ \A i \in DOMAIN Tail(s) : i + 1 \in DOMAIN s /\ Tail(s)[i] = s[i + 1]
           /\ \A i \in DOMAIN s : i # 1 => i - 1 \in DOMAIN Tail(s) /\ Tail(s)[i - 1] = s[i]
           /\ Range(Tail(s)) \subseteq Range(s)
           /\ IsInjective(s) => IsInjective(Tail(s)) /\ Head(s) \notin Range(Tail(s))
<1> DEFINE t == Tail(s)
           n == Len(s)
<1>1. /\ t \in Seq(S) /\ Len(t) = n - 1
      /\ \A i \in 1..Len(t) : t[i] = s[i + 1]
      /\ Head(s) = s[1]
  BY HeadTailProperties
<1>2. /\ DOMAIN s = 1..n /\ n \in Nat /\ n >= 1
      /\ \A y : y \in Range(s) <=> \E i \in 1..n : s[i] = y
      /\ \A i \in 1..n : s[i] \in S
  BY RangeLemma, EmptySeq
<1> HIDE DEF t, n
<1>3. /\ DOMAIN t = 1..n - 1
      /\ \A y : y \in Range(t) <=> \E i \in 1..n - 1 : t[i] = y
  BY <1>1, RangeLemma
<1>4. \A i \in 1..n - 1 : i + 1 \in 1..n /\ t[i] = s[i + 1] /\ i + 1 # 1
  BY <1>1, <1>2
<1>5. \A i \in 1..n : i # 1 => i - 1 \in 1..n - 1 /\ i - 1 + 1 = i
  BY <1>2
<1>6. 1 \in 1..n
  BY <1>2
<1>7. Range(t) \subseteq Range(s)
  BY <1>2, <1>3, <1>4
<1>8. ASSUME IsInjective(s)
      PROVE  IsInjective(t) /\ s[1] \notin Range(t)
  <2>1. \A i, j \in 1..n : s[i] = s[j] => i = j
    BY <1>2, <1>8 DEF IsInjective
  <2>2. \A i, j \in 1..n - 1 : i + 1 = j + 1 => i = j
    BY <1>2
  <2>3. IsInjective(t)
    BY <2>1, <2>2, <1>3, <1>4 DEF IsInjective
  <2> QED
    BY <2>1, <2>3, <1>3, <1>4, <1>6
<1> QED
  BY <1>1, <1>2, <1>3, <1>4, <1>5, <1>6, <1>7, <1>8 DEF t, n

\* Taking one element out: those before it stay, those behind it move up.
LEMMA RemoveLemma ==
    ASSUME NEW S, NEW s \in Seq(S), NEW i \in 1..Len(s)
    PROVE  /\ RemoveAt(s, i) \in Seq(S)
           /\ Len(RemoveAt(s, i)) = Len(s) - 1
           /\ \A j \in 1..Len(s) - 1 :
                RemoveAt(s, i)[j] = IF j < i THEN s[j] ELSE s[j + 1]
<1>1. DOMAIN s = 1..Len(s) /\ Len(s) \in Nat /\ \A j \in 1..Len(s) : s[j] \in S
  BY RangeLemma
<1>4. RemoveAt(s, i) = SubSeq(s, 1, i - 1) \o SubSeq(s, i + 1, Len(s))
  BY DEF RemoveAt
<1> DEFINE a == SubSeq(s, 1, i - 1)
           b == SubSeq(s, i + 1, Len(s))
<1>5. a \in Seq(S) /\ Len(a) = i - 1 /\ \A j \in 1..i - 1 : a[j] = s[j]
  <2>1. 1 \in Int /\ i - 1 \in Int /\ \A j \in 1..i - 1 : s[j] \in S
    BY <1>1
  <2> QED
    BY <2>1, SubSeqProperties
<1>6. b \in Seq(S) /\ Len(b) = Len(s) - i /\ \A j \in 1..Len(s) - i : b[j] = s[j + i]
  <2>1. i + 1 \in Int /\ Len(s) \in Int /\ \A j \in i + 1..Len(s) : s[j] \in S
    BY <1>1
  <2>2. /\ b \in Seq(S)
        /\ Len(b) = IF i + 1 <= Len(s) THEN Len(s) - (i + 1) + 1 ELSE 0
        /\ \A j \in 1..Len(s) - (i + 1) + 1 : b[j] = s[i + 1 + j - 1]
    BY <2>1, SubSeqProperties
  <2> HIDE DEF b
  <2>3. \A j \in 1..Len(s) - i : i + 1 + j - 1 = j + i
    BY <1>1
  <2>4. ASSUME NEW n \in Nat, NEW k \in 1..n
        PROVE  n - (k + 1) + 1 = n - k /\ (~(k + 1 <= n) => n - k = 0)
    OBVIOUS
  <2> QED
    BY <1>1, <2>2, <2>3, <2>4
<1> HIDE DEF a, b
<1>7. /\ a \o b \in Seq(S) /\ Len(a \o b) = Len(a) + Len(b)
      /\ \A j \in 1..Len(a) + Len(b) : (a \o b)[j] = IF j <= Len(a) THEN a[j] ELSE b[j - Len(a)]
  BY <1>5, <1>6, ConcatProperties
<1>8. \A j \in 1..Len(s) - 1 : (a \o b)[j] = (IF j < i THEN s[j] ELSE s[j + 1])
  <2> TAKE j \in 1..Len(s) - 1
  <2>1. CASE j < i
    BY <2>1, <1>1, <1>5, <1>6, <1>7
  <2>2. CASE j >= i
    <3>1. j - (i - 1) \in 1..Len(s) - i /\ j - (i - 1) + i = j + 1 /\ ~(j <= i - 1)
      BY <2>2, <1>1
    <3>2. (a \o b)[j] = b[j - (i - 1)]
      BY <3>1, <1>1, <1>5, <1>6, <1>7
    <3>3. \A k \in 1..Len(s) - i : k + i = j + 1 => b[k] = s[j + 1]
      BY <1>6
    <3>4. b[j - (i - 1)] = s[j + 1]
      BY <3>1, <3>3
    <3>5. ~(j < i)
      BY <2>2, <1>1
    <3> QED
      BY <3>2, <3>4, <3>5
  <2>3. j < i \/ j >= i
    BY <1>1
  <2> QED
    BY <2>1, <2>2, <2>3
<1>9. Len(a \o b) = Len(s) - 1
  BY <1>1, <1>5, <1>6, <1>7
<1>10. RemoveAt(s, i) = a \o b
  BY <1>4 DEF a, b
<1> QED
  BY <1>7, <1>8, <1>9, <1>10

\* Taking one element out of a list leaves the others, each once.
LEMMA RemovedLemma ==
    ASSUME NEW S, NEW s \in Seq(S), IsInjective(s), NEW i \in 1..Len(s)
    PROVE  /\ RemoveAt(s, i) \in Seq(S)
           /\ IsInjective(RemoveAt(s, i))
           /\ Range(RemoveAt(s, i)) = Range(s) \ {s[i]}
<1> DEFINE r == RemoveAt(s, i)
<1>2. /\ r \in Seq(S) /\ Len(r) = Len(s) - 1
      /\ \A j \in 1..Len(s) - 1 : r[j] = IF j < i THEN s[j] ELSE s[j + 1]
  BY RemoveLemma
<1>3. /\ DOMAIN s = 1..Len(s) /\ Len(s) \in Nat /\ DOMAIN r = 1..Len(s) - 1
      /\ \A j, k \in 1..Len(s) : s[j] = s[k] => j = k
      /\ \A x : x \in Range(s) <=> \E j \in 1..Len(s) : s[j] = x
      /\ \A x : x \in Range(r) <=> \E j \in 1..Len(s) - 1 : r[j] = x
  <2>1. /\ DOMAIN s = 1..Len(s) /\ Len(s) \in Nat
        /\ \A x : x \in Range(s) <=> \E j \in 1..Len(s) : s[j] = x
    BY RangeLemma
  <2>2. /\ DOMAIN r = 1..Len(s) - 1
        /\ \A x : x \in Range(r) <=> \E j \in 1..Len(s) - 1 : r[j] = x
    BY <1>2, RangeLemma
  <2> QED
    BY <2>1, <2>2 DEF IsInjective
<1> HIDE DEF r
<1>4. IsInjective(r)
  BY <1>2, <1>3 DEF IsInjective
<1>5. ASSUME NEW x \in Range(r)
      PROVE  x \in Range(s) \ {s[i]}
  <2>1. PICK j \in 1..Len(s) - 1 : r[j] = x
    BY <1>3
  <2>2. CASE j < i
    BY <2>1, <2>2, <1>2, <1>3
  <2>3. CASE j >= i
    <3>1. j + 1 \in 1..Len(s) /\ j + 1 # i /\ x = s[j + 1]
      BY <2>1, <2>3, <1>2, <1>3
    <3> QED
      BY <3>1, <1>3
  <2> QED
    BY <2>2, <2>3, <1>3
<1>6. ASSUME NEW x \in Range(s), x # s[i]
      PROVE  x \in Range(r)
  <2>1. PICK k \in 1..Len(s) : s[k] = x /\ k # i
    BY <1>3, <1>6
  <2>2. CASE k < i
    BY <2>1, <2>2, <1>2, <1>3
  <2>3. CASE k > i
    <3>1. k - 1 \in 1..Len(s) - 1 /\ r[k - 1] = s[k]
      BY <2>1, <2>3, <1>2, <1>3
    <3> QED
      BY <2>1, <3>1, <1>3
  <2> QED
    BY <2>1, <2>2, <2>3, <1>3
<1> QED
  BY <1>2, <1>4, <1>5, <1>6 DEF r

-----------------------------------------------------------------------------
(***************************************************************************)
(* The inductive invariant, in five parts.                                 *)
(*                                                                         *)
(* Types: what TypeOK says, and that player and out are functions.         *)
(* Lists: nobody is listed twice or while it waits for accept(), and who   *)
(*     is not listed left nothing behind.                                  *)
(* Recipients: a broadcast owes each listed player one send at most.       *)
(* Walk: what select() found ready and was not served lies ahead of the    *)
(*     walk, and no marked player is among it.                             *)
(* Messages: what a connection sent comes in whole messages.               *)
(***************************************************************************)
Token == Message \cup {MARK}

Player == [status : {"LOGGING", "LOGGED"}, name : Name,
           packetbuffer : Seq(Token), kill : BOOLEAN]

Types ==
    /\ peer \in [Conn -> {"none", "open", "closed", "reset", "dropped"}]
    /\ wire \in [Conn -> Seq(Token)]
    /\ out \in [Conn -> Seq(Event)]
    /\ \A p \in Conn : Len(out[p]) <= Window
    /\ backlog \in Seq(Conn) /\ playerlist \in Seq(Conn)
    /\ sent \in 0..MaxSent /\ hangups \in 0..MaxHangUps
    /\ player \in [Conn -> Player]
    /\ \A p \in Conn : Len(player[p].packetbuffer) < SOCKETBUFFERSIZE
    /\ idle \subseteq Conn /\ ready \subseteq Conn /\ knocked \in BOOLEAN
    /\ pc \in {"loop", "walk", "process", "accept", "dead"}
    /\ point \in Conn \cup {NULL}
    /\ pending \in Seq(Conn \X Event)
    /\ server_password \in BOOLEAN

Listed == Range(playerlist)

Lists ==
    /\ IsInjective(playerlist) /\ IsInjective(backlog)
    /\ \A p \in Range(backlog) : p \notin Listed
    /\ \A p \in Conn : peer[p] \in {"none", "dropped"} =>
            p \notin Listed /\ p \notin Range(backlog) /\ wire[p] = <<>>
    /\ \A p \in Conn : p \notin Listed => player[p] = NewPlayer /\ out[p] = <<>>

Recipients ==
    /\ \A i \in DOMAIN pending : pending[i][1] \in Listed
    /\ \A i, j \in DOMAIN pending : pending[i][1] = pending[j][1] => i = j
    /\ pc = "accept" => pending = <<>> /\ knocked
    /\ knocked /\ pc \in {"walk", "process", "accept"} => backlog # <<>>

\* The walk is at p, or has still to come to it.
Ahead(p) ==
    \E i, j \in DOMAIN playerlist :
        playerlist[i] = point /\ playerlist[j] = p /\ i <= j

Walk ==
    /\ pc \in {"walk", "process"} /\ point # NULL => point \in Listed
    /\ pc = "process" => point # NULL /\ point \notin ready
    /\ pc \in {"accept", "loop"} => ready = {}
    /\ ready \subseteq Listed
    /\ pc \in {"walk", "process"} => \A p \in ready : Ahead(p)
    /\ \A p \in Conn : player[p].kill => p \notin ready

\* What a connection sent and the server has not served.
Stream(p) == player[p].packetbuffer \o wire[p]

\* Whole messages, each followed by its marker.
Framed(s) ==
    /\ s # <<>> => s[1] \in Message
    /\ \A i \in 1..Len(s) :
        \/ s[i] \in Message /\ i + 1 <= Len(s) /\ s[i + 1] = MARK
        \/ s[i] = MARK /\ (i + 1 <= Len(s) => s[i + 1] \in Message)

Messages ==
    \A p \in Conn : Framed(Stream(p))

IInv == Types /\ Lists /\ Recipients /\ Walk /\ Messages

-----------------------------------------------------------------------------
(* The lists. *)

\* close_socket() unlinks the one node of the player: the others stay, each once.
LEMMA UnlinkLemma ==
    ASSUME NEW S, NEW s \in Seq(S), IsInjective(s), NEW i \in 1..Len(s)
    PROVE  Unlinked(s, s[i]) = RemoveAt(s, i)
<1>1. \A j \in DOMAIN s : s[j] = s[i] <=> j = i
  BY RangeLemma DEF IsInjective
<1>2. (CHOOSE j \in DOMAIN s : s[j] = s[i]) = i
  BY <1>1, RangeLemma
<1> QED
  BY <1>2 DEF Unlinked

LEMMA UnlinkedLemma ==
    ASSUME NEW S, NEW s \in Seq(S), IsInjective(s), NEW p \in Range(s)
    PROVE  /\ Unlinked(s, p) \in Seq(S)
           /\ IsInjective(Unlinked(s, p))
           /\ Range(Unlinked(s, p)) = Range(s) \ {p}
<1>1. PICK i \in 1..Len(s) : s[i] = p
  BY RangeLemma
<1>2. Unlinked(s, p) = RemoveAt(s, i)
  BY <1>1, UnlinkLemma
<1> QED
  BY <1>1, <1>2, RemovedLemma

\* A broadcast owes one send, of the same event, to every player of the list but
\* the one it is about.
LEMMA BroadcastLemma ==
    ASSUME NEW s \in Seq(Conn), IsInjective(s), NEW p, NEW event \in Event
    PROVE  /\ Broadcast(s, p, event) \in Seq(Conn \X Event)
           /\ \A i \in DOMAIN Broadcast(s, p, event) :
                /\ Broadcast(s, p, event)[i][1] \in Range(s) \ {p}
                /\ Broadcast(s, p, event)[i][2] = event
           /\ \A i, j \in DOMAIN Broadcast(s, p, event) :
                Broadcast(s, p, event)[i][1] = Broadcast(s, p, event)[j][1] => i = j
           /\ \A q \in Range(s) \ {p} :
                \E i \in DOMAIN Broadcast(s, p, event) : Broadcast(s, p, event)[i][1] = q
<1> DEFINE others == IF p \in Range(s) THEN Unlinked(s, p) ELSE s
           one(i) == <<others[i], event>>
           b == [i \in 1..Len(others) |-> one(i)]
<1>1. others \in Seq(Conn) /\ IsInjective(others) /\ Range(others) = Range(s) \ {p}
  BY UnlinkedLemma
<1> HIDE DEF others
<1>2. /\ DOMAIN others = 1..Len(others) /\ Len(others) \in Nat
      /\ \A x : x \in Range(others) <=> \E i \in 1..Len(others) : others[i] = x
      /\ \A i \in 1..Len(others) : others[i] \in Conn
  BY <1>1, RangeLemma
<1>3. Broadcast(s, p, event) = b
  BY <1>2 DEF Broadcast, others
<1>4. b \in Seq(Conn \X Event)
  <2>1. \A i \in 1..Len(others) : one(i) \in Conn \X Event
    BY <1>2
  <2> HIDE DEF one
  <2> QED
    BY <1>2, <2>1, IsASeq
<1>5. DOMAIN b = 1..Len(others) /\ \A i \in 1..Len(others) : b[i][1] = others[i] /\ b[i][2] = event
  OBVIOUS
<1> HIDE DEF b
<1>6. \A i \in DOMAIN b : b[i][1] \in Range(s) \ {p} /\ b[i][2] = event
  BY <1>1, <1>2, <1>5
<1>7. \A i, j \in DOMAIN b : b[i][1] = b[j][1] => i = j
  BY <1>1, <1>2, <1>5 DEF IsInjective
<1>8. \A q \in Range(s) \ {p} : \E i \in DOMAIN b : b[i][1] = q
  BY <1>1, <1>2, <1>5
<1> QED
  BY <1>3, <1>4, <1>6, <1>7, <1>8

-----------------------------------------------------------------------------
(* The walk. *)

\* point->next is the next player of the list, or NULL behind the last.
LEMMA NextPointLemma ==
    ASSUME Types, Lists, NEW i \in 1..Len(playerlist)
    PROVE  NextPoint(playerlist[i]) =
                IF i < Len(playerlist) THEN playerlist[i + 1] ELSE NULL
<1> DEFINE k == CHOOSE k \in DOMAIN playerlist : playerlist[k] = playerlist[i]
<1>1. DOMAIN playerlist = 1..Len(playerlist)
  BY RangeLemma DEF Types
<1>2. k = i
  BY <1>1 DEF Lists, IsInjective
<1>3. NextPoint(playerlist[i]) = IF k < Len(playerlist) THEN playerlist[k + 1] ELSE NULL
  BY DEF NextPoint
<1> HIDE DEF k
<1> QED
  BY <1>2, <1>3

\* When the walk goes on, whether it keeps the player it stood on in the list or
\* drops him, it stands on a player of the list and all that is still ready lies
\* ahead of it.
LEMMA WalkOn ==
    ASSUME IInv, pc \in {"walk", "process"}, point # NULL
    PROVE  LET next == NextPoint(point)
               rest == Unlinked(playerlist, point)
           IN /\ next \in Conn \cup {NULL}
              /\ next # NULL => next \in Range(rest)
              /\ \A q \in ready \ {point} :
                    /\ \E i, j \in DOMAIN playerlist :
                        playerlist[i] = next /\ playerlist[j] = q /\ i <= j
                    /\ \E i, j \in DOMAIN rest :
                        rest[i] = next /\ rest[j] = q /\ i <= j
<1> DEFINE n == Len(playerlist)
           next == NextPoint(point)
           rest == Unlinked(playerlist, point)
<1>1. playerlist \in Seq(Conn) /\ IsInjective(playerlist) /\ point \in Range(playerlist)
  BY DEF IInv, Types, Lists, Walk, Listed
<1>2. /\ DOMAIN playerlist = 1..n /\ n \in Nat
      /\ \A i \in 1..n : playerlist[i] \in Conn
      /\ \A i, j \in 1..n : playerlist[i] = playerlist[j] => i = j
  BY <1>1, RangeLemma DEF IsInjective
<1>3. PICK i \in 1..n : playerlist[i] = point
  BY <1>1, RangeLemma
<1>4. next = IF i < n THEN playerlist[i + 1] ELSE NULL
  BY <1>3, NextPointLemma DEF IInv
<1>5. /\ rest \in Seq(Conn) /\ Len(rest) = n - 1
      /\ \A j \in 1..n - 1 : rest[j] = IF j < i THEN playerlist[j] ELSE playerlist[j + 1]
  BY <1>1, <1>3, UnlinkLemma, RemoveLemma, ZenonT(30)
<1>6. DOMAIN rest = 1..n - 1 /\ \A x : x \in Range(rest) <=> \E j \in 1..n - 1 : rest[j] = x
  BY <1>5, RangeLemma
<1>7. NULL \notin Conn
  BY ChatServerAssumption
<1> HIDE DEF next, rest, n
<1>8. next \in Conn \cup {NULL} /\ (next # NULL => i < n)
  BY <1>2, <1>4
<1>9. ASSUME i < n
      PROVE  i \in 1..n - 1 /\ i + 1 \in 1..n /\ rest[i] = next
  BY <1>2, <1>4, <1>5, <1>9
<1>10. next # NULL => next \in Range(rest)
  BY <1>6, <1>8, <1>9
<1>11. ASSUME NEW q \in ready \ {point}
       PROVE  /\ \E k, j \in DOMAIN playerlist :
                    playerlist[k] = next /\ playerlist[j] = q /\ k <= j
              /\ \E k, j \in DOMAIN rest :
                    rest[k] = next /\ rest[j] = q /\ k <= j
  <2>1. Ahead(q)
    BY DEF IInv, Walk
  <2>2. PICK j \in 1..n : playerlist[j] = q /\ i <= j
    BY <1>2, <1>3, <2>1 DEF Ahead
  <2>3. i < j
    BY <1>2, <1>3, <2>2
  <2>4. i < n /\ i + 1 <= j /\ playerlist[i + 1] = next
    BY <1>2, <1>4, <2>2, <2>3
  <2>5. j - 1 \in 1..n - 1 /\ i <= j - 1 /\ rest[j - 1] = q
    <3>1. j - 1 \in 1..n - 1 /\ i <= j - 1 /\ ~(j - 1 < i) /\ j - 1 + 1 = j
      BY <1>2, <2>2, <2>3
    <3> QED
      BY <3>1, <1>5, <2>2
  <2> QED
    BY <1>2, <1>6, <1>9, <2>2, <2>4, <2>5
<1> QED
  BY <1>8, <1>10, <1>11 DEF next, rest

-----------------------------------------------------------------------------
(* Messages. *)

\* A message names a user, gives a password, says a text or asks who is there; the
\* marker is none of them.
LEMMA MessageKinds ==
    /\ MARK \notin Message /\ MARK \in Token
    /\ \A m \in Message :
        /\ m[1] = "U" => m[2] \in Conn \cup TooLong
        /\ m[1] = "W" => m[2] \in Text
        /\ m \in Token
    /\ \A name \in Conn \cup TooLong : <<"U", name>> \in Message
    /\ \A password \in {"right", "wrong"} : <<"P", password>> \in Message
<1>1. \A m \in Message : /\ m[1] \in {"U", "P", "W", "Z"}
                         /\ m[1] = "U" => m[2] \in Conn \cup TooLong
                         /\ m[1] = "W" => m[2] \in Text
  BY DEF Message, Chatting
<1>2. MARK[1] = "*-*"
  BY DEF MARK
<1>3. MARK \notin Message
  BY <1>1, <1>2
<1> QED
  BY <1>1, <1>3 DEF Message, Token

\* A stream of whole messages stays one when a message is sent.
LEMMA SentLemma ==
    ASSUME NEW s \in Seq(Token), Framed(s), NEW m \in Message
    PROVE  /\ s \o <<m, MARK>> \in Seq(Token)
           /\ Framed(s \o <<m, MARK>>)
           /\ s \o <<m, MARK>> # <<>>
           /\ s # <<>> => (s \o <<m, MARK>>)[1] = s[1]
<1> DEFINE n == Len(s)
           t == s \o <<m, MARK>>
<1>1. n \in Nat /\ (s # <<>> => n >= 1) /\ (s = <<>> => n = 0)
  BY EmptySeq
<1>2. <<m, MARK>> \in Seq(Token) /\ Len(<<m, MARK>>) = 2
  BY MessageKinds
<1>3. /\ t \in Seq(Token) /\ Len(t) = n + 2
      /\ \A i \in 1..n + 2 : t[i] = IF i <= n THEN s[i] ELSE <<m, MARK>>[i - n]
  BY <1>2, ConcatProperties
<1> HIDE DEF t
<1>4. \A i \in 1..n : i \in 1..n + 2 /\ t[i] = s[i]
  BY <1>1, <1>3
<1>5. t[n + 1] = m /\ t[n + 2] = MARK
  <2>1. n + 1 \in 1..n + 2 /\ n + 2 \in 1..n + 2 /\ ~(n + 1 <= n) /\ ~(n + 2 <= n)
        /\ n + 1 - n = 1 /\ n + 2 - n = 2
    BY <1>1
  <2> QED
    BY <2>1, <1>3
<1>6. t # <<>>
  BY <1>1, <1>3
<1>7. t[1] \in Message /\ (s # <<>> => t[1] = s[1])
  BY <1>1, <1>4, <1>5 DEF Framed
<1>8. ASSUME NEW i \in 1..n + 2
      PROVE  \/ t[i] \in Message /\ i + 1 <= n + 2 /\ t[i + 1] = MARK
             \/ t[i] = MARK /\ (i + 1 <= n + 2 => t[i + 1] \in Message)
  <2>1. CASE i < n
    <3>1. i \in 1..n /\ i + 1 \in 1..n /\ i + 1 <= n + 2
      BY <1>1, <2>1
    <3> QED
      BY <3>1, <1>4 DEF Framed
  <2>2. CASE i = n
    <3>1. i \in 1..n /\ ~(i + 1 <= n)
      BY <1>1, <2>2
    <3>2. t[i] = MARK
      BY <3>1, <1>4 DEF Framed
    <3> QED
      BY <3>2, <2>2, <1>5
  <2>3. CASE i = n + 1
    BY <2>3, <1>1, <1>5
  <2>4. CASE i = n + 2
    BY <2>4, <1>1, <1>5
  <2> QED
    BY <1>1, <2>1, <2>2, <2>3, <2>4
<1> QED
  BY <1>3, <1>6, <1>7, <1>8 DEF Framed, t

\* getmsg() takes one message and its marker from the front of the stream.
LEMMA GetMsgLemma ==
    ASSUME NEW b \in Seq(Token), NEW w \in Seq(Token), Framed(b \o w), Whole(b)
    PROVE  /\ Head(b) \in Message /\ Head(b) = (b \o w)[1] /\ b \o w # <<>>
           /\ AfterMsg(b) \in Seq(Token) /\ Len(AfterMsg(b)) < Len(b)
           /\ Framed(AfterMsg(b) \o w)
<1> DEFINE n == Len(b)
           k == Len(w)
           s == b \o w
<1>1. n \in Nat /\ k \in Nat /\ DOMAIN b = 1..n
  BY RangeLemma
<1>2. /\ s \in Seq(Token) /\ Len(s) = n + k
      /\ \A i \in 1..n + k : s[i] = IF i <= n THEN b[i] ELSE w[i - n]
  BY ConcatProperties
<1>3. PICK i \in 1..n : b[i] = MARK
  BY RangeLemma DEF Whole
<1>4. \A j \in 1..n : j \in 1..n + k /\ s[j] = b[j]
  BY <1>1, <1>2
<1> HIDE DEF s
<1>5. s # <<>> /\ 1 \in 1..n /\ b[1] \in Message
  BY <1>1, <1>2, <1>3, <1>4 DEF Framed, s
<1>6. n >= 2 /\ b[2] = MARK
  <2>1. s[2] = MARK
    BY <1>1, <1>2, <1>4, <1>5, MessageKinds DEF Framed, s
  <2>2. i # 1
    BY <1>3, <1>5, MessageKinds
  <2>3. 2 \in 1..n
    BY <2>2, <1>1, <1>3
  <2> QED
    BY <2>1, <2>3, <1>1, <1>4
<1>7. Head(b) = b[1]
  OBVIOUS
<1> DEFINE I == {j \in 1..n : b[j] = MARK}
           a == SubSeq(b, 3, n)
<1>8. Min(I) = 2 /\ I # {}
  <2>1. 2 \in I /\ \A j \in I : 2 <= j
    <3>1. 2 \in I
      BY <1>1, <1>6
    <3>2. \A j \in I : j # 1
      BY <1>5, MessageKinds
    <3> QED
      BY <1>1, <3>1, <3>2
  <2> HIDE DEF I
  <2>2. \A x \in I : (\A y \in I : x <= y) => x = 2
    <3>1. I \subseteq Nat
      BY <1>1 DEF I
    <3> QED
      BY <2>1, <3>1
  <2> QED
    BY <2>1, <2>2 DEF Min
<1>9. AfterMsg(b) = a
  <2>1. AfterMsg(b) = SubSeq(b, (IF I # {} THEN Min(I) ELSE 0) + 1, n)
    BY DEF AfterMsg, SelectInSeq
  <2> HIDE DEF I
  <2> QED
    BY <2>1, <1>8
<1>10. a \in Seq(Token) /\ Len(a) = n - 2 /\ \A j \in 1..n - 2 : a[j] = b[j + 2]
  <2>1. 3 \in Int /\ n \in Int /\ \A j \in 3..n : b[j] \in Token
    BY <1>1, RangeLemma
  <2>2. /\ a \in Seq(Token) /\ Len(a) = IF 3 <= n THEN n - 3 + 1 ELSE 0
        /\ \A j \in 1..n - 3 + 1 : a[j] = b[3 + j - 1]
    BY <2>1, SubSeqProperties
  <2>3. n - 3 + 1 = n - 2 /\ (~(3 <= n) => n - 2 = 0) /\ \A j \in 1..n - 2 : 3 + j - 1 = j + 2
    BY <1>1, <1>6
  <2> HIDE DEF a
  <2> QED
    BY <2>2, <2>3
<1> HIDE DEF a, I
<1> DEFINE t == a \o w
<1>11. /\ t \in Seq(Token) /\ Len(t) = n - 2 + k
       /\ \A j \in 1..n - 2 + k : t[j] = IF j <= n - 2 THEN a[j] ELSE w[j - (n - 2)]
  <2>1. a \in Seq(Token) /\ w \in Seq(Token)
    BY <1>10
  <2>2. /\ t \in Seq(Token) /\ Len(t) = Len(a) + Len(w)
        /\ \A j \in 1..Len(a) + Len(w) :
             t[j] = IF j <= Len(a) THEN a[j] ELSE w[j - Len(a)]
    BY <2>1, ConcatProperties
  <2>3. Len(a) = n - 2 /\ Len(w) = k
    BY <1>10
  <2>4. Len(t) = n - 2 + k
    BY <2>2, <2>3
  <2>5. \A j \in 1..n - 2 + k : t[j] = IF j <= n - 2 THEN a[j] ELSE w[j - (n - 2)]
    BY <2>2, <2>3
  <2> QED
    BY <2>2, <2>4, <2>5
<1> HIDE DEF t
<1>12. \A j \in 1..n - 2 + k : j + 2 \in 1..n + k /\ t[j] = s[j + 2]
  <2> TAKE j \in 1..n - 2 + k
  <2>1. /\ j + 2 \in 1..n + k /\ j + 2 - n = j - (n - 2) /\ (j <= n - 2 <=> j + 2 <= n)
        /\ (j <= n - 2 => j \in 1..n - 2)
    BY <1>1, <1>6
  <2> QED
    BY <2>1, <1>2, <1>10, <1>11
<1>13. Framed(t)
  <2>1. ASSUME t # <<>>
        PROVE  t[1] \in Message
    <3>1. 1 \in 1..n - 2 + k /\ 3 \in 1..n + k
      BY <2>1, <1>1, <1>6, <1>11, EmptySeq
    <3>2. s[2] = MARK /\ 2 \in 1..n + k /\ 2 + 1 <= n + k
      BY <3>1, <1>1, <1>4, <1>6
    <3>3. s[3] \in Message
      BY <3>2, <1>2, MessageKinds DEF Framed, s
    <3> QED
      BY <3>1, <3>3, <1>12
  <2>2. ASSUME NEW j \in 1..n - 2 + k
        PROVE  \/ t[j] \in Message /\ j + 1 <= n - 2 + k /\ t[j + 1] = MARK
               \/ t[j] = MARK /\ (j + 1 <= n - 2 + k => t[j + 1] \in Message)
    <3>1. /\ j + 2 \in 1..n + k /\ (j + 2 + 1 <= n + k <=> j + 1 <= n - 2 + k)
          /\ (j + 1 <= n - 2 + k => j + 1 \in 1..n - 2 + k)
          /\ j + 2 + 1 = j + 1 + 2
      BY <1>1, <1>6
    <3>2. \/ s[j + 2] \in Message /\ j + 2 + 1 <= n + k /\ s[j + 2 + 1] = MARK
          \/ s[j + 2] = MARK /\ (j + 2 + 1 <= n + k => s[j + 2 + 1] \in Message)
      BY <3>1, <1>2 DEF Framed, s
    <3> QED
      BY <3>1, <3>2, <1>12
  <2> QED
    BY <2>1, <2>2, <1>11 DEF Framed
<1>14. Len(AfterMsg(b)) < Len(b)
  BY <1>1, <1>9, <1>10
<1> QED
  BY <1>4, <1>5, <1>7, <1>9, <1>10, <1>13, <1>14 DEF s, t

\* process_input() moves what it reads from the wire to the buffer.
LEMMA ReadLemma ==
    ASSUME NEW b \in Seq(Token), NEW w \in Seq(Token), NEW n \in 1..Len(w)
    PROVE  /\ b \o SubSeq(w, 1, n) \in Seq(Token)
           /\ Len(b \o SubSeq(w, 1, n)) = Len(b) + n
           /\ SubSeq(w, n + 1, Len(w)) \in Seq(Token)
           /\ (b \o SubSeq(w, 1, n)) \o SubSeq(w, n + 1, Len(w)) = b \o w
<1> DEFINE u == SubSeq(w, 1, n)
           v == SubSeq(w, n + 1, Len(w))
<1>1. Len(w) \in Nat /\ \A j \in 1..Len(w) : w[j] \in Token
  BY RangeLemma
<1>2. u \in Seq(Token) /\ Len(u) = n
  <2>1. 1 \in Int /\ n \in Int /\ \A j \in 1..n : w[j] \in Token
    BY <1>1
  <2> QED
    BY <2>1, SubSeqProperties
<1>3. v \in Seq(Token)
  <2>1. n + 1 \in Int /\ Len(w) \in Int /\ \A j \in n + 1..Len(w) : w[j] \in Token
    BY <1>1
  <2> QED
    BY <2>1, SubSeqProperties
<1>4. u \o v = w
  <2>1. 1 \in 1..Len(w) + 1 /\ n \in 1 - 1..Len(w) /\ Len(w) \in n..Len(w)
    BY <1>1
  <2>2. u \o v = SubSeq(w, 1, Len(w))
    BY <2>1, ConcatAdjacentSubSeq
  <2> QED
    BY <2>2, SubSeqFull
<1> HIDE DEF u, v
<1>5. (b \o u) \o v = b \o (u \o v)
  BY <1>2, <1>3, ConcatAssociative, SMTT(30)
<1>6. b \o u \in Seq(Token) /\ Len(b \o u) = Len(b) + n
  BY <1>2, ConcatProperties
<1> QED
  BY <1>3, <1>4, <1>5, <1>6 DEF u, v

-----------------------------------------------------------------------------
(* The invariant holds initially, and every step of a client keeps it. *)

LEMMA InitInv == Init => IInv
<1> SUFFICES ASSUME Init PROVE IInv
  OBVIOUS
<1> USE ChatServerAssumption DEF Init
<1>1. \A S : <<>> \in Seq(S) /\ Len(<<>>) = 0 /\ DOMAIN <<>> = {} /\ Range(<<>>) = {}
  BY EmptyLemma
<1>2. NewPlayer \in Player /\ NewPlayer.packetbuffer = <<>> /\ ~NewPlayer.kill
      /\ NewPlayer.status = "LOGGING"
  BY <1>1 DEF NewPlayer, Player, Name
<1>3. Types
  <2>1. /\ peer \in [Conn -> {"none", "open", "closed", "reset", "dropped"}]
        /\ wire \in [Conn -> Seq(Token)] /\ out \in [Conn -> Seq(Event)]
        /\ player \in [Conn -> Player]
    BY <1>1, <1>2
  <2>2. /\ \A p \in Conn : out[p] = <<>> /\ player[p].packetbuffer = <<>>
        /\ Len(<<>>) <= Window /\ Len(<<>>) < SOCKETBUFFERSIZE
    BY <1>1, <1>2
  <2>3. sent \in 0..MaxSent /\ hangups \in 0..MaxHangUps /\ server_password \in BOOLEAN
    OBVIOUS
  <2>4. backlog \in Seq(Conn) /\ playerlist \in Seq(Conn) /\ pending \in Seq(Conn \X Event)
    BY <1>1
  <2> QED
    BY <2>1, <2>2, <2>3, <2>4 DEF Types
<1>4. Lists
  BY <1>1 DEF Lists, Listed, IsInjective
<1>5. Recipients
  BY <1>1 DEF Recipients
<1>6. Walk
  BY <1>1, <1>2 DEF Walk
<1>7. Messages
  <2>1. \A p \in Conn : Stream(p) = <<>>
    BY <1>1, <1>2, ConcatEmptySeq DEF Stream
  <2>2. Framed(<<>>)
    BY <1>1 DEF Framed
  <2> QED
    BY <2>1, <2>2, <1>2 DEF Messages
<1> QED
  BY <1>3, <1>4, <1>5, <1>6, <1>7 DEF IInv

LEMMA ChConnectStep ==
    ASSUME IInv, NEW p \in Conn, NEW name \in {p} \cup TooLong,
           NEW password \in {"right", "wrong"}, ChConnect(p, name, password)
    PROVE  IInv'
<1> DEFINE first == <<<<"U", name>>, MARK, <<"P", password>>, MARK>>
<1>1. /\ first \in Seq(Token) /\ Len(first) = 4
      /\ first[1] = <<"U", name>> /\ first[2] = MARK
      /\ first[3] = <<"P", password>> /\ first[4] = MARK
  BY MessageKinds DEF Token
<1> USE DEF IInv, ChConnect, players, loop
<1>2. p \notin Listed /\ p \notin Range(backlog) /\ player[p] = NewPlayer
  BY DEF Lists
<1> HIDE DEF first
<1>3. wire' = [wire EXCEPT ![p] = first]
  BY DEF first
<1>4. Types'
  <2>1. backlog' \in Seq(Conn)
    BY AppendProperties DEF Types
  <2> QED
    BY <1>1, <1>3, <2>1, ZenonT(30) DEF Types
<1>5. Range(backlog') = Range(backlog) \cup {p} /\ IsInjective(backlog')
  BY <1>2, AppendLemma DEF Types, Lists
<1>6. Lists'
  BY <1>2, <1>3, <1>5 DEF Lists, Types, Listed
<1>7. Recipients'
  <2>1. backlog' # <<>>
    BY AppendLemma DEF Types
  <2> QED
    BY <2>1 DEF Recipients, Listed
<1>8. Walk'
  BY DEF Walk, Listed, Ahead
<1>9. Messages'
  <2>1. Stream(p)' = first
    <3>1. player'[p].packetbuffer = <<>> /\ wire'[p] = first
      BY <1>2, <1>3 DEF NewPlayer, Types
    <3> QED
      BY <1>1, <3>1, ConcatEmptySeq DEF Stream
  <2>2. Framed(first)
    <3>1. \A i \in 1..4 : i = 1 \/ i = 2 \/ i = 3 \/ i = 4
      OBVIOUS
    <3>2. first[1] \in Message /\ first[3] \in Message
      BY <1>1, MessageKinds
    <3> HIDE DEF ChConnect
    <3> QED
      BY <1>1, <3>1, <3>2, SMTT(30) DEF Framed
  <2>3. \A q \in Conn \ {p} : Stream(q)' = Stream(q)
    BY <1>3 DEF Stream, Types
  <2> HIDE DEF ChConnect
  <2> QED
    BY <2>1, <2>2, <2>3 DEF Messages
<1> QED
  BY <1>4, <1>6, <1>7, <1>8, <1>9

LEMMA SendStep ==
    ASSUME IInv, NEW p \in Conn, NEW message \in Chatting, Send(p, message)
    PROVE  IInv'
<1>1. wire[p] \in Seq(Token) /\ player[p].packetbuffer \in Seq(Token)
  BY DEF IInv, Types, Player
<1>2. <<message, MARK>> \in Seq(Token)
  BY MessageKinds DEF Message
<1>3. (player[p].packetbuffer \o wire[p]) \o <<message, MARK>>
            = player[p].packetbuffer \o (wire[p] \o <<message, MARK>>)
  <2> DEFINE b == player[p].packetbuffer
             w == wire[p]
             c == <<message, MARK>>
  <2>1. b \in Seq(Token) /\ w \in Seq(Token) /\ c \in Seq(Token)
    BY <1>1, <1>2
  <2> HIDE DEF b, w, c
  <2>2. (b \o w) \o c = b \o (w \o c)
    BY <2>1, ConcatAssociative
  <2> QED
    BY <2>2 DEF b, w, c
<1> USE DEF IInv, Send, players, loop
<1>4. message \in Message /\ MARK \in Token /\ message \in Token
  BY MessageKinds DEF Message
<1>5. wire'[p] = wire[p] \o <<message, MARK>> /\ \A q \in Conn \ {p} : wire'[q] = wire[q]
  BY DEF Types
<1>6. wire' \in [Conn -> Seq(Token)]
  <2>1. wire[p] \o <<message, MARK>> \in Seq(Token)
    BY <1>1, <1>2, ConcatProperties
  <2> QED
    BY <2>1 DEF Types
<1>7. Types'
  <2>1. sent' \in 0..MaxSent
    BY ChatServerAssumption DEF Types
  <2> QED
    BY <1>6, <2>1 DEF Types
<1>8. Lists'
  BY <1>5 DEF Lists, Listed
<1>9. Recipients' /\ Walk'
  BY DEF Recipients, Walk, Listed, Ahead
<1>10. Messages'
  <2>1. Stream(p)' = Stream(p) \o <<message, MARK>>
    BY <1>5, <1>3 DEF Stream
  <2>2. Stream(p) \in Seq(Token) /\ Framed(Stream(p))
    BY <1>1, ConcatProperties DEF Stream, Messages
  <2>3. /\ Framed(Stream(p)') /\ Stream(p)' # <<>>
        /\ Stream(p) # <<>> => Stream(p)'[1] = Stream(p)[1]
    BY <1>4, <2>1, <2>2, SentLemma
  <2>4. \A q \in Conn \ {p} : Stream(q)' = Stream(q)
    BY <1>5 DEF Stream
  <2>5. player' = player /\ peer' = peer /\ peer[p] = "open"
    OBVIOUS
  <2> HIDE DEF Send
  <2> QED
    BY <2>3, <2>4, <2>5 DEF Messages
<1> QED
  BY <1>7, <1>8, <1>9, <1>10

LEMMA HearStep ==
    ASSUME IInv, NEW p \in Conn, Hear(p)
    PROVE  IInv'
<1> USE DEF IInv, Hear, players, loop
<1>1. Tail(out[p]) \in Seq(Event) /\ Len(Tail(out[p])) <= Window
  <2>1. Tail(out[p]) \in Seq(Event) /\ Len(Tail(out[p])) = Len(out[p]) - 1
    BY HeadTailProperties DEF Types
  <2>2. Len(out[p]) \in Nat /\ Len(out[p]) <= Window /\ Window \in Nat
    BY ChatServerAssumption, RangeLemma DEF Types
  <2> QED
    BY <2>1, <2>2
<1>2. Types'
  BY <1>1 DEF Types
<1>3. Lists'
  BY DEF Lists, Types, Listed
<1>4. Recipients' /\ Walk'
  BY DEF Recipients, Walk, Listed, Ahead
<1>5. Messages'
  BY DEF Messages, Stream
<1> QED
  BY <1>2, <1>3, <1>4, <1>5

LEMMA HangUpStep ==
    ASSUME IInv, NEW p \in Conn, HangUp(p)
    PROVE  IInv'
<1> USE DEF IInv, HangUp, players, loop
<1>1. <<>> \in Seq(Event) /\ Len(<<>>) <= Window
  BY ChatServerAssumption
<1>2. peer' \in [Conn -> {"none", "open", "closed", "reset", "dropped"}]
      /\ peer'[p] \in {"closed", "reset"} /\ \A q \in Conn \ {p} : peer'[q] = peer[q]
  BY DEF Types
<1>3. Types'
  BY <1>1, <1>2, ChatServerAssumption DEF Types
<1>4. Lists'
  BY <1>2 DEF Lists, Types, Listed
<1>5. Recipients' /\ Walk'
  BY DEF Recipients, Walk, Listed, Ahead
<1>6. Messages'
  BY <1>2 DEF Messages, Stream
<1> QED
  BY <1>3, <1>4, <1>5, <1>6

-----------------------------------------------------------------------------
(* The sends of a broadcast. *)

LEMMA SendOneStep ==
    ASSUME IInv, SendOne
    PROVE  IInv'
<1> DEFINE q == Head(pending)[1]
           event == Head(pending)[2]
<1>1. /\ pending \in Seq(Conn \X Event) /\ pending # <<>>
      /\ pending' = Tail(pending)
      /\ UNCHANGED <<wire, backlog, sent, hangups, players, loop, server_password>>
  BY DEF IInv, Types, SendOne
<1>2. /\ Head(pending) \in Conn \X Event /\ Head(pending) = pending[1] /\ 1 \in DOMAIN pending
      /\ pending' \in Seq(Conn \X Event)
      /\ \A i \in DOMAIN pending' : i + 1 \in DOMAIN pending /\ pending'[i] = pending[i + 1]
      /\ DOMAIN pending' \subseteq Nat
  BY <1>1, TailLemma, RangeLemma
<1>3. q \in Listed /\ q \in Conn /\ event \in Event
  BY <1>2 DEF IInv, Recipients
<1>4. \/ peer[q] = "open" /\ Len(out[q]) < Window
         /\ out' = [out EXCEPT ![q] = Append(@, event)] /\ peer' = peer
      \/ peer[q] = "closed" /\ peer'[q] \in {"closed", "reset"} /\ out' = out
         /\ \E end \in {"closed", "reset"} : peer' = [peer EXCEPT ![q] = end]
      \/ peer[q] = "reset" /\ peer' = peer /\ out' = out
  BY <1>3 DEF SendOne, IInv, Types
<1> HIDE DEF q, event
<1>5. /\ peer' \in [Conn -> {"none", "open", "closed", "reset", "dropped"}]
      /\ \A p \in Conn : peer'[p] # peer[p] => peer'[p] \in {"closed", "reset"}
  BY <1>3, <1>4 DEF IInv, Types
<1>6. /\ out' \in [Conn -> Seq(Event)] /\ \A p \in Conn : Len(out'[p]) <= Window
      /\ \A p \in Conn : p \notin Listed => out'[p] = out[p]
  <2>1. CASE out' = out
    BY <2>1 DEF IInv, Types
  <2>2. CASE Len(out[q]) < Window /\ out' = [out EXCEPT ![q] = Append(@, event)]
    <3>1. /\ Append(out[q], event) \in Seq(Event)
          /\ Len(Append(out[q], event)) = Len(out[q]) + 1
      BY <1>3, AppendProperties DEF IInv, Types
    <3>2. Len(out[q]) + 1 <= Window
      BY <1>3, <2>2, RangeLemma, ChatServerAssumption DEF IInv, Types
    <3> QED
      BY <3>1, <3>2, <2>2, <1>3 DEF IInv, Types
  <2> QED
    BY <1>4, <2>1, <2>2
<1>7. Types'
  BY <1>1, <1>2, <1>5, <1>6 DEF IInv, Types, players, loop
<1>8. Lists'
  <2>1. UNCHANGED <<playerlist, player, backlog, wire>> /\ Listed' = Listed
    BY <1>1 DEF players, Listed
  <2>2. \A p \in Conn : peer'[p] \in {"none", "dropped"} => peer[p] \in {"none", "dropped"}
    BY <1>5
  <2> QED
    BY <1>6, <2>1, <2>2 DEF IInv, Lists
<1>9. Recipients'
  <2>1. UNCHANGED <<playerlist, backlog, pc, knocked>> /\ Listed' = Listed
    BY <1>1 DEF players, loop, Listed
  <2>2. pc # "accept"
    BY <1>1 DEF IInv, Recipients
  <2>3. \A i \in DOMAIN pending' : pending'[i][1] \in Listed
    BY <1>2 DEF IInv, Recipients
  <2>4. ASSUME NEW i \in DOMAIN pending', NEW j \in DOMAIN pending',
               pending'[i][1] = pending'[j][1]
        PROVE  i = j
    <3>1. i + 1 = j + 1
      BY <1>2, <2>4 DEF IInv, Recipients
    <3> QED
      BY <3>1, <1>2
  <2> QED
    BY <2>1, <2>2, <2>3, <2>4 DEF IInv, Recipients
<1>10. Walk'
  BY <1>1 DEF IInv, Walk, players, loop, Listed, Ahead
<1>11. Messages'
  <2>1. player' = player /\ wire' = wire
    BY <1>1 DEF players
  <2>2. \A p \in Conn : peer'[p] = "open" => peer[p] = "open"
    BY <1>5
  <2> QED
    BY <2>1, <2>2 DEF IInv, Messages, Stream
<1> QED
  BY <1>7, <1>8, <1>9, <1>10, <1>11 DEF IInv

LEMMA KilledStep ==
    ASSUME IInv, Killed
    PROVE  IInv'
<1> USE DEF Killed, IInv, clients, players
<1>1. Types'
  BY DEF Types
<1>2. Lists'
  BY DEF Lists, Listed
<1>3. Recipients' /\ Walk'
  BY DEF Recipients, Walk, Listed, Ahead
<1>4. Messages'
  BY DEF Messages, Stream
<1> QED
  BY <1>1, <1>2, <1>3, <1>4

-----------------------------------------------------------------------------
(* close_socket(). *)

\* What close_socket() does to the lists, the player and the sends that are owed.
LEMMA CloseLemma ==
    ASSUME IInv, NEW p \in Listed, CloseSocket(p), UNCHANGED backlog
    PROVE  /\ Listed' = Listed \ {p} /\ p \in Conn
           /\ playerlist' = Unlinked(playerlist, p) /\ playerlist' \in Seq(Conn)
           /\ peer' \in [Conn -> {"none", "open", "closed", "reset", "dropped"}]
           /\ wire' \in [Conn -> Seq(Token)]
           /\ out' \in [Conn -> Seq(Event)] /\ \A q \in Conn : Len(out'[q]) <= Window
           /\ player' \in [Conn -> Player]
           /\ \A q \in Conn : Len(player'[q].packetbuffer) < SOCKETBUFFERSIZE
           /\ idle' \subseteq Conn
           /\ pending' \in Seq(Conn \X Event)
           /\ \A i \in DOMAIN pending' : pending'[i][1] \in Listed'
           /\ \A i, j \in DOMAIN pending' : pending'[i][1] = pending'[j][1] => i = j
           /\ \A q \in Conn : player'[q].kill => player[q].kill /\ q # p
           /\ Lists' /\ Messages'
<1>1. playerlist \in Seq(Conn) /\ IsInjective(playerlist) /\ p \in Range(playerlist)
  BY DEF IInv, Types, Lists, Listed
<1>2. p \in Conn
  BY <1>1, RangeLemma
<1>3. /\ playerlist' = Unlinked(playerlist, p) /\ playerlist' \in Seq(Conn)
      /\ IsInjective(playerlist') /\ Listed' = Listed \ {p}
  BY <1>1, UnlinkedLemma DEF CloseSocket, Listed
<1>4. /\ NewPlayer \in Player /\ NewPlayer.packetbuffer = <<>> /\ ~NewPlayer.kill
      /\ NewPlayer.status = "LOGGING" /\ <<>> \in Seq(Event) /\ <<>> \in Seq(Token)
      /\ Len(<<>>) <= Window /\ Len(<<>>) < SOCKETBUFFERSIZE
  BY ChatServerAssumption, EmptyLemma DEF NewPlayer, Player, Name
<1>5. /\ player' \in [Conn -> Player] /\ player'[p] = NewPlayer
      /\ \A q \in Conn \ {p} : player'[q] = player[q]
  BY <1>2, <1>4 DEF CloseSocket, IInv, Types
<1>6. /\ wire' \in [Conn -> Seq(Token)] /\ wire'[p] = <<>>
      /\ \A q \in Conn \ {p} : wire'[q] = wire[q]
  BY <1>2, <1>4 DEF CloseSocket, IInv, Types
<1>7. /\ out' \in [Conn -> Seq(Event)] /\ out'[p] = <<>>
      /\ \A q \in Conn \ {p} : out'[q] = out[q]
  BY <1>2, <1>4 DEF CloseSocket, IInv, Types
<1>8. /\ peer' \in [Conn -> {"none", "open", "closed", "reset", "dropped"}]
      /\ peer'[p] = "dropped" /\ \A q \in Conn \ {p} : peer'[q] = peer[q]
  BY <1>2 DEF CloseSocket, IInv, Types
<1>9. \A q \in Conn : Len(out'[q]) <= Window /\ Len(player'[q].packetbuffer) < SOCKETBUFFERSIZE
  BY <1>4, <1>5, <1>7 DEF IInv, Types
<1>10. /\ pending' \in Seq(Conn \X Event)
       /\ \A i \in DOMAIN pending' : pending'[i][1] \in Listed'
       /\ \A i, j \in DOMAIN pending' : pending'[i][1] = pending'[j][1] => i = j
  <2>1. CASE player[p].status = "LOGGED"
    <3> DEFINE event == <<"left", player[p].name>>
    <3>1. event \in Event
      <4>1. player[p].name \in Name
        BY <1>2 DEF IInv, Types, Player
      <4> QED
        BY <4>1 DEF Event
    <3>2. pending' = Broadcast(playerlist', NULL, event)
      BY <2>1 DEF CloseSocket
    <3> HIDE DEF event
    <3> QED
      BY <1>3, <3>1, <3>2, BroadcastLemma DEF Listed
  <2>2. CASE player[p].status # "LOGGED"
    <3>1. pending' = <<>>
      BY <2>2 DEF CloseSocket
    <3> QED
      BY <3>1, EmptyLemma
  <2> QED
    BY <2>1, <2>2
<1>11. idle' \subseteq Conn
  BY DEF CloseSocket, IInv, Types
<1>12. \A q \in Conn : player'[q].kill => player[q].kill /\ q # p
  BY <1>4, <1>5
<1>13. Lists'
  <2>1. \A q \in Conn : q \notin Listed' => player'[q] = NewPlayer /\ out'[q] = <<>>
    BY <1>3, <1>5, <1>7 DEF IInv, Lists
  <2>2. \A q \in Conn : peer'[q] \in {"none", "dropped"} =>
            q \notin Listed' /\ q \notin Range(backlog) /\ wire'[q] = <<>>
    BY <1>3, <1>6, <1>8 DEF IInv, Lists
  <2>3. backlog' = backlog
    OBVIOUS
  <2> QED
    BY <1>3, <2>1, <2>2, <2>3 DEF IInv, Lists
<1>14. Messages'
  <2>1. \A q \in Conn \ {p} : Stream(q)' = Stream(q)
    BY <1>5, <1>6 DEF Stream
  <2>2. Stream(p)' = <<>>
    BY <1>4, <1>5, <1>6, ConcatEmptySeq DEF Stream
  <2>3. Framed(<<>>)
    BY EmptyLemma DEF Framed
  <2>4. player'[p].status = "LOGGING" /\ peer'[p] # "open"
    BY <1>4, <1>5, <1>8
  <2> QED
    BY <2>1, <2>2, <2>3, <2>4, <1>5, <1>8 DEF IInv, Messages
<1> QED
  BY <1>2, <1>3, <1>5, <1>6, <1>7, <1>8, <1>9, <1>10, <1>11, <1>12, <1>13, <1>14

LEMMA KillMarkedStep ==
    ASSUME IInv, KillMarked
    PROVE  IInv'
<1>1. PICK i \in DOMAIN playerlist : CloseSocket(playerlist[i])
  BY DEF KillMarked, Marked
<1> DEFINE p == playerlist[i]
<1>2. p \in Listed /\ CloseSocket(p)
  BY <1>1, RangeLemma DEF Listed, IInv, Types
<1>3. pc = "loop" /\ UNCHANGED <<backlog, sent, hangups, loop, server_password>>
  BY DEF KillMarked
<1> HIDE DEF p
<1>4. Types'
  BY <1>2, <1>3, CloseLemma DEF Types, IInv, loop
<1>5. Recipients'
  BY <1>2, <1>3, CloseLemma DEF Recipients, loop
<1>6. Walk'
  BY <1>2, <1>3, CloseLemma DEF Walk, IInv, loop
<1>7. Lists' /\ Messages'
  BY <1>2, <1>3, CloseLemma
<1> QED
  BY <1>4, <1>5, <1>6, <1>7 DEF IInv

LEMMA DropStep ==
    ASSUME IInv, Walking, Drop
    PROVE  IInv'
<1>1. /\ pc = "walk" /\ point # NULL /\ point \in Listed
      /\ CloseSocket(point)
      /\ UNCHANGED <<backlog, sent, hangups, pc, knocked, server_password>>
      /\ ready' = ready \ {point} /\ point' = NextPoint(point)
  BY DEF Walking, Drop, IInv, Walk
<1>2. Types'
  <2>1. point' \in Conn \cup {NULL} /\ ready' \subseteq Conn
    BY <1>1, WalkOn DEF IInv, Types
  <2> QED
    BY <1>1, <2>1, CloseLemma DEF Types, IInv
<1>3. Lists' /\ Messages'
  BY <1>1, CloseLemma
<1>4. Recipients'
  BY <1>1, CloseLemma DEF IInv, Recipients
<1>5. Walk'
  <2>1. playerlist' = Unlinked(playerlist, point) /\ Listed' = Listed \ {point}
    BY <1>1, CloseLemma
  <2>2. point' # NULL => point' \in Listed'
    BY <1>1, <2>1, WalkOn DEF Listed
  <2>3. \A q \in ready' : Ahead(q)'
    BY <1>1, <2>1, WalkOn DEF Ahead
  <2>4. ready' \subseteq Listed'
    BY <1>1, <2>1 DEF IInv, Walk
  <2>5. \A q \in Conn : player'[q].kill => q \notin ready'
    BY <1>1, CloseLemma DEF IInv, Walk
  <2> QED
    BY <1>1, <2>2, <2>3, <2>4, <2>5 DEF Walk
<1> QED
  BY <1>2, <1>3, <1>4, <1>5 DEF IInv

-----------------------------------------------------------------------------
(* select() and the walk. *)

LEMMA TwelveHoursStep ==
    ASSUME IInv, NEW p \in Conn, TwelveHours(p)
    PROVE  IInv'
<1> USE DEF TwelveHours, IInv, clients, loop
<1>1. Types'
  BY DEF Types
<1>2. Lists'
  BY DEF Lists, Listed
<1>3. Recipients' /\ Walk'
  BY DEF Recipients, Walk, Listed, Ahead
<1>4. Messages'
  BY DEF Messages, Stream
<1> QED
  BY <1>1, <1>2, <1>3, <1>4

LEMMA SelectStep ==
    ASSUME IInv, Select
    PROVE  IInv'
<1>1. /\ pc = "loop" /\ pending = <<>> /\ Marked = {}
      /\ pc' = "walk" /\ ready' = Readable /\ knocked' = (backlog # <<>>)
      /\ point' = IF playerlist = <<>> THEN NULL ELSE Head(playerlist)
      /\ UNCHANGED <<clients, players, pending>>
  BY DEF Select, Selecting
<1>2. /\ DOMAIN playerlist = 1..Len(playerlist) /\ Len(playerlist) \in Nat
      /\ \A x : x \in Listed <=> \E i \in 1..Len(playerlist) : playerlist[i] = x
      /\ Listed \subseteq Conn
  BY RangeLemma DEF IInv, Types, Listed
<1>3. ready' \subseteq Listed
  BY <1>1 DEF Readable, Listed
<1>4. playerlist # <<>> =>
        point' = playerlist[1] /\ 1 \in 1..Len(playerlist) /\ point' \in Listed
  BY <1>1, TailLemma DEF IInv, Types, Listed
<1>5. playerlist = <<>> => Listed = {}
  BY EmptyLemma DEF Listed
<1>6. Types'
  BY <1>1, <1>2, <1>3, <1>4 DEF IInv, Types, clients, players
<1>7. Lists'
  BY <1>1 DEF IInv, Lists, Listed, clients, players
<1>8. Recipients'
  BY <1>1 DEF IInv, Recipients, Listed, clients, players
<1>9. Walk'
  <2>1. playerlist' = playerlist /\ player' = player
    BY <1>1 DEF players
  <2>2. \A q \in ready' : Ahead(q)'
    <3> SUFFICES ASSUME NEW q \in ready' PROVE Ahead(q)'
      OBVIOUS
    <3>1. PICK j \in 1..Len(playerlist) : playerlist[j] = q
      BY <1>2, <1>3
    <3>2. point' = playerlist[1] /\ 1 \in 1..Len(playerlist)
      BY <1>2, <1>3, <1>4, <1>5
    <3>3. 1 <= j
      BY <1>2
    <3> QED
      BY <1>2, <2>1, <3>1, <3>2, <3>3 DEF Ahead
  <2>3. \A q \in Conn : player[q].kill => q \notin Listed
    BY <1>1, <1>2 DEF Marked
  <2>4. point' # NULL => point' \in Listed'
    BY <1>1, <1>4, <2>1 DEF Listed
  <2>5. Listed' = Listed
    BY <2>1 DEF Listed
  <2> QED
    BY <1>1, <1>3, <2>1, <2>2, <2>3, <2>4, <2>5 DEF Walk
<1>10. Messages'
  BY <1>1 DEF IInv, Messages, Stream, clients, players
<1> QED
  BY <1>6, <1>7, <1>8, <1>9, <1>10 DEF IInv

LEMMA ReadInputStep ==
    ASSUME IInv, ReadInput
    PROVE  IInv'
<1>1. PICK n \in 1..SOCKETBUFFERSIZE :
        /\ Receives(n)
        /\ Len(Packet(point, n)) # SOCKETBUFFERSIZE
        /\ player' = [player EXCEPT ![point].packetbuffer = Packet(point, n)]
        /\ wire' = [wire EXCEPT ![point] = SubSeq(@, n + 1, Len(@))]
  BY DEF ReadInput
<1>2. /\ idle' = idle \ {point} /\ ready' = ready \ {point} /\ pc' = "process"
      /\ UNCHANGED <<peer, out, backlog, sent, hangups, playerlist, knocked, point,
                     pending, server_password>>
  BY DEF ReadInput
<1>3. /\ pc = "walk" /\ point # NULL /\ point \in ready /\ point \in Listed
      /\ point \in Conn /\ pending = <<>>
      /\ n \in 1..Len(wire[point])
      /\ n <= SOCKETBUFFERSIZE - Len(player[point].packetbuffer)
  BY <1>1 DEF Receives, Fits, Walking, IInv, Types, Walk
<1> DEFINE b == player[point].packetbuffer
           w == wire[point]
<1>4. b \in Seq(Token) /\ w \in Seq(Token)
  BY <1>3 DEF IInv, Types, Player
<1>5. /\ Packet(point, n) \in Seq(Token)
      /\ Len(Packet(point, n)) = Len(b) + n
      /\ SubSeq(w, n + 1, Len(w)) \in Seq(Token)
      /\ Packet(point, n) \o SubSeq(w, n + 1, Len(w)) = b \o w
  BY <1>3, <1>4, ReadLemma DEF Packet
<1>6. Len(Packet(point, n)) < SOCKETBUFFERSIZE
  <2>1. Len(b) \in Nat
    BY <1>4, RangeLemma
  <2> QED
    BY <2>1, <1>1, <1>3, <1>5, ChatServerAssumption, SMTT(30)
<1>7. player' \in [Conn -> Player]
  BY <1>1, <1>3, <1>5, ZenonT(30) DEF IInv, Types, Player
<1>8. /\ player'[point].packetbuffer = Packet(point, n)
      /\ \A p \in Conn : /\ player'[p].status = player[p].status
                         /\ player'[p].name = player[p].name
                         /\ player'[p].kill = player[p].kill
                         /\ p # point => player'[p] = player[p]
  BY <1>1, <1>3 DEF IInv, Types, Player
<1>9. /\ wire' \in [Conn -> Seq(Token)] /\ wire'[point] = SubSeq(w, n + 1, Len(w))
      /\ \A p \in Conn \ {point} : wire'[p] = wire[p]
  BY <1>1, <1>3, <1>5 DEF IInv, Types
<1>10. Types'
  <2>1. \A p \in Conn : Len(player'[p].packetbuffer) < SOCKETBUFFERSIZE
    BY <1>6, <1>8 DEF IInv, Types
  <2> QED
    BY <2>1, <1>2, <1>3, <1>7, <1>9 DEF IInv, Types
<1>11. Listed' = Listed
  BY <1>2 DEF Listed
<1>12. Lists'
  <2>1. \A p \in Conn : peer'[p] \in {"none", "dropped"} => p # point /\ wire'[p] = <<>>
    BY <1>2, <1>3, <1>9 DEF IInv, Lists
  <2>2. \A p \in Conn : p \notin Listed => player'[p] = NewPlayer /\ out'[p] = <<>>
    BY <1>2, <1>3, <1>8 DEF IInv, Lists
  <2> QED
    BY <2>1, <2>2, <1>2, <1>11 DEF IInv, Lists
<1>13. Recipients'
  BY <1>2, <1>3, <1>11 DEF IInv, Recipients
<1>14. Walk'
  <2>1. \A q \in ready' : Ahead(q)'
    BY <1>2, <1>3 DEF IInv, Walk, Ahead
  <2> QED
    BY <2>1, <1>2, <1>3, <1>8, <1>11 DEF IInv, Walk
<1>15. Messages'
  <2>1. \A p \in Conn : Stream(p)' = Stream(p)
    BY <1>5, <1>8, <1>9 DEF Stream
  <2> QED
    BY <2>1, <1>2, <1>8 DEF IInv, Messages
<1> QED
  BY <1>10, <1>12, <1>13, <1>14, <1>15 DEF IInv

\* The walk goes to the next player: past one that has nothing to say, or when all
\* that was read of one is served.
LEMMA GoOnStep ==
    ASSUME IInv, pc \in {"walk", "process"}, point # NULL, point \notin ready,
           pc' = "walk", point' = NextPoint(point),
           UNCHANGED <<clients, players, ready, knocked, pending>>
    PROVE  IInv'
<1> USE DEF IInv, clients, players
<1>1. point' \in Conn \cup {NULL}
  BY WalkOn
<1>2. point' # NULL => point' \in Listed
  <2>1. ASSUME point' # NULL
        PROVE  point' \in Range(Unlinked(playerlist, point))
    BY <2>1, WalkOn
  <2>2. Range(Unlinked(playerlist, point)) \subseteq Listed
    BY UnlinkedLemma DEF Types, Lists, Walk, Listed
  <2> QED
    BY <2>1, <2>2
<1>3. \A q \in ready' : Ahead(q)'
  BY WalkOn DEF Ahead
<1>4. Types'
  BY <1>1 DEF Types
<1>5. Lists'
  BY DEF Lists, Listed
<1>6. Recipients'
  BY DEF Recipients, Listed
<1>7. Walk'
  BY <1>2, <1>3 DEF Walk, Listed
<1>8. Messages'
  BY DEF Messages, Stream
<1> QED
  BY <1>4, <1>5, <1>6, <1>7, <1>8

LEMMA PassByStep ==
    ASSUME IInv, PassBy
    PROVE  IInv'
<1>1. /\ pc \in {"walk", "process"} /\ point # NULL /\ point \notin ready
      /\ pc' = "walk" /\ point' = NextPoint(point)
      /\ UNCHANGED <<clients, players, ready, knocked, pending>>
  BY DEF PassBy, Walking
<1> QED
  BY <1>1, GoOnStep

LEMMA ProcessedStep ==
    ASSUME IInv, Processed
    PROVE  IInv'
<1>1. /\ pc \in {"walk", "process"} /\ point # NULL /\ point \notin ready
      /\ pc' = "walk" /\ point' = NextPoint(point)
      /\ UNCHANGED <<clients, players, ready, knocked, pending>>
  BY DEF Processed, Processing, IInv, Walk
<1> QED
  BY <1>1, GoOnStep

LEMMA WalkEndsStep ==
    ASSUME IInv, WalkEnds
    PROVE  IInv'
<1> USE DEF WalkEnds, IInv, clients, players
<1>1. NULL \notin Listed
  BY RangeLemma, ChatServerAssumption DEF Types, Listed
<1>2. ready = {}
  <2>1. \A q \in ready : \E i \in DOMAIN playerlist : playerlist[i] = NULL
    BY DEF Walk, Ahead
  <2> QED
    BY <2>1, <1>1 DEF Listed, Range
<1>3. Types'
  BY DEF Types
<1>4. Lists'
  BY DEF Lists, Listed
<1>5. Recipients'
  BY DEF Recipients, Listed
<1>6. Walk'
  BY <1>2 DEF Walk, Listed
<1>7. Messages'
  BY DEF Messages, Stream
<1> QED
  BY <1>3, <1>4, <1>5, <1>6, <1>7

-----------------------------------------------------------------------------
(* process_player() and new_descriptor(). *)

\* A message that is served was sent whole, by a player that has a name.
LEMMA GotLemma ==
    ASSUME IInv, NEW kind, NEW status, Got(kind, status)
    PROVE  /\ pc = "process" /\ pending = <<>> /\ point \in Listed /\ point \in Conn
           /\ point \notin ready
           /\ player[point] \in Player /\ player[point].packetbuffer \in Seq(Token)
           /\ player[point].name \in Name /\ player[point].name # NULL
           /\ player[point].status = status
           /\ Whole(player[point].packetbuffer)
           /\ GetMsg \in Message /\ GetMsg[1] = kind
<1>1. /\ pc = "process" /\ pending = <<>> /\ point # NULL /\ point \in Listed
      /\ point \in Conn /\ point \notin ready
      /\ Whole(player[point].packetbuffer)
      /\ GetMsg[1] = kind /\ player[point].status = status
  BY DEF Got, Processing, IInv, Walk, Types
<1>2. /\ player[point] \in Player /\ player[point].packetbuffer \in Seq(Token)
      /\ player[point].name \in Name /\ wire[point] \in Seq(Token)
      /\ Framed(player[point].packetbuffer \o wire[point])
  BY <1>1 DEF IInv, Types, Player, Messages, Stream
<1>3. /\ GetMsg \in Message /\ Stream(point) # <<>> /\ GetMsg = Stream(point)[1]
  BY <1>1, <1>2, GetMsgLemma DEF GetMsg, Stream
<1>4. NULL \notin Name
  BY ChatServerAssumption DEF Name
<1> QED
  BY <1>1, <1>2, <1>3, <1>4

\* An iteration of process_player() keeps the invariant, if it owes each listed
\* player one send at most.
LEMMA EffectLemma ==
    ASSUME IInv, NEW kind, NEW status, Got(kind, status),
           NEW changed \in Player, changed.packetbuffer = player[point].packetbuffer,
           NEW sends \in Seq(Conn \X Event),
           \A i \in DOMAIN sends : sends[i][1] \in Listed,
           \A i, j \in DOMAIN sends : sends[i][1] = sends[j][1] => i = j,
           Effect(changed, sends)
    PROVE  IInv'
<1>1. /\ pc = "process" /\ pending = <<>> /\ point \in Listed /\ point \in Conn
      /\ point \notin ready
      /\ player[point].packetbuffer \in Seq(Token)
      /\ Whole(player[point].packetbuffer)
  BY GotLemma
<1> DEFINE b == player[point].packetbuffer
           w == wire[point]
           after == [changed EXCEPT !.packetbuffer = AfterMsg(@)]
<1>2. /\ player' = [player EXCEPT ![point] = after]
      /\ pending' = sends
      /\ UNCHANGED <<clients, playerlist, idle, loop>>
  BY DEF Effect
<1>3. b \in Seq(Token) /\ w \in Seq(Token) /\ Framed(b \o w)
  BY <1>1 DEF IInv, Types, Messages, Stream
<1>4. /\ AfterMsg(b) \in Seq(Token) /\ Len(AfterMsg(b)) < Len(b)
      /\ Framed(AfterMsg(b) \o w)
  BY <1>1, <1>3, GetMsgLemma
<1>5. /\ after \in Player /\ after.packetbuffer = AfterMsg(b)
  BY <1>4 DEF Player
<1> HIDE DEF after
<1>6. /\ player' \in [Conn -> Player] /\ player'[point] = after
      /\ \A p \in Conn \ {point} : player'[p] = player[p]
  BY <1>1, <1>2, <1>5 DEF IInv, Types
<1>7. Types'
  <2>1. Len(after.packetbuffer) < SOCKETBUFFERSIZE
    <3>1. /\ Len(b) \in Nat /\ Len(AfterMsg(b)) \in Nat
          /\ Len(b) < SOCKETBUFFERSIZE
      BY <1>1, <1>3, <1>4, RangeLemma DEF IInv, Types
    <3> QED
      BY <3>1, <1>4, <1>5, ChatServerAssumption
  <2>2. \A p \in Conn : Len(player'[p].packetbuffer) < SOCKETBUFFERSIZE
    BY <2>1, <1>6 DEF IInv, Types
  <2> QED
    BY <2>2, <1>2, <1>6 DEF IInv, Types, clients, loop
<1>8. Listed' = Listed
  BY <1>2 DEF Listed
<1>9. Lists'
  BY <1>1, <1>2, <1>6, <1>8 DEF IInv, Lists, clients
<1>10. Recipients'
  BY <1>1, <1>2, <1>8 DEF IInv, Recipients, clients, loop
<1>11. Walk'
  <2>1. \A p \in Conn : player'[p].kill => p \notin ready
    BY <1>1, <1>6 DEF IInv, Walk
  <2> QED
    BY <2>1, <1>2, <1>8 DEF IInv, Walk, Ahead, loop
<1>12. Messages'
  <2>1. \A p \in Conn : p = point => Stream(p)' = AfterMsg(b) \o w
    BY <1>2, <1>5, <1>6 DEF Stream, clients
  <2>2. \A p \in Conn \ {point} : Stream(p)' = Stream(p)
    BY <1>2, <1>6 DEF Stream, clients
  <2> QED
    BY <2>1, <2>2, <1>4 DEF IInv, Messages
<1> QED
  BY <1>7, <1>9, <1>10, <1>11, <1>12 DEF IInv

LEMMA NoSends ==
    /\ <<>> \in Seq(Conn \X Event) /\ DOMAIN <<>> = {}
BY EmptyLemma

LEMMA UserNameStep ==
    ASSUME IInv, UserName
    PROVE  IInv'
<1> DEFINE changed == [player[point] EXCEPT !.name = GetMsg[2]]
<1>1. Got("U", "LOGGING") /\ GetMsg[2] \notin TooLong /\ Effect(changed, <<>>)
  BY DEF UserName
<1>2. player[point] \in Player /\ GetMsg[2] \in Conn
  BY <1>1, GotLemma, MessageKinds
<1>3. changed \in Player /\ changed.packetbuffer = player[point].packetbuffer
  BY <1>2 DEF Player, Name
<1> HIDE DEF changed
<1> QED
  BY <1>1, <1>3, NoSends, EffectLemma

LEMMA PlainStep ==
    ASSUME IInv, LongName \/ NoPassword \/ Ignored
    PROVE  IInv'
<1>1. PICK kind \in {"U", "P", "W", "Z"} : Got(kind, "LOGGING")
  BY DEF LongName, NoPassword, Ignored
<1>2. Effect(player[point], <<>>)
  BY DEF LongName, NoPassword, Ignored
<1>3. player[point] \in Player
  BY <1>1, GotLemma
<1> QED
  BY <1>1, <1>2, <1>3, NoSends, EffectLemma

LEMMA WrongPasswordStep ==
    ASSUME IInv, WrongPassword
    PROVE  IInv'
<1> DEFINE changed == [player[point] EXCEPT !.kill = TRUE]
<1>1. Got("P", "LOGGING") /\ Effect(changed, <<>>)
  BY DEF WrongPassword
<1>2. player[point] \in Player /\ player[point].name \in Name
  BY <1>1, GotLemma
<1>3. changed \in Player /\ changed.packetbuffer = player[point].packetbuffer
  BY <1>2 DEF Player
<1> HIDE DEF changed
<1> QED
  BY <1>1, <1>3, NoSends, EffectLemma

\* What a broadcast over the player list owes, when no other is in progress.
LEMMA SendsLemma ==
    ASSUME IInv, NEW event \in Event
    PROVE  LET sends == Broadcast(playerlist, point, event)
           IN /\ sends \in Seq(Conn \X Event)
              /\ \A i \in DOMAIN sends : sends[i][1] \in Listed
              /\ \A i, j \in DOMAIN sends : sends[i][1] = sends[j][1] => i = j
<1>1. playerlist \in Seq(Conn) /\ IsInjective(playerlist)
  BY DEF IInv, Types, Lists
<1> QED
  BY <1>1, BroadcastLemma DEF Listed

LEMMA RightPasswordStep ==
    ASSUME IInv, RightPassword
    PROVE  IInv'
<1> DEFINE changed == [player[point] EXCEPT !.status = "LOGGED"]
           event == <<"joined", player[point].name>>
           sends == Broadcast(playerlist, point, event)
<1>1. Got("P", "LOGGING") /\ Effect(changed, sends)
  BY DEF RightPassword
<1>2. player[point] \in Player /\ player[point].name \in Name
  BY <1>1, GotLemma
<1>3. changed \in Player /\ changed.packetbuffer = player[point].packetbuffer
  BY <1>2 DEF Player
<1>4. event \in Event
  BY <1>2 DEF Event
<1> HIDE DEF changed, event
<1>5. /\ sends \in Seq(Conn \X Event)
      /\ \A i \in DOMAIN sends : sends[i][1] \in Listed
      /\ \A i, j \in DOMAIN sends : sends[i][1] = sends[j][1] => i = j
  BY <1>4, SendsLemma
<1> HIDE DEF sends
<1> QED
  BY <1>1, <1>3, <1>5, EffectLemma

LEMMA ChatStep ==
    ASSUME IInv, Chat
    PROVE  IInv'
<1> DEFINE event == <<"said", player[point].name, GetMsg[2]>>
           sends == Broadcast(playerlist, point, event)
<1>1. Got("W", "LOGGED") /\ Effect(player[point], sends)
  BY DEF Chat
<1>2. player[point] \in Player /\ player[point].name \in Name /\ GetMsg[2] \in Text
  BY <1>1, GotLemma, MessageKinds
<1>3. event \in Event
  BY <1>2 DEF Event
<1> HIDE DEF event
<1>4. /\ sends \in Seq(Conn \X Event)
      /\ \A i \in DOMAIN sends : sends[i][1] \in Listed
      /\ \A i, j \in DOMAIN sends : sends[i][1] = sends[j][1] => i = j
  BY <1>3, SendsLemma
<1> HIDE DEF sends
<1> QED
  BY <1>1, <1>2, <1>4, EffectLemma

LEMMA WhoStep ==
    ASSUME IInv, Who
    PROVE  IInv'
<1> DEFINE event == <<"who", Len(playerlist)>>
           sends == <<<<point, event>>>>
<1>1. Got("Z", "LOGGED") /\ Effect(player[point], sends)
  BY DEF Who
<1>2. player[point] \in Player /\ point \in Conn /\ point \in Listed
  BY <1>1, GotLemma
<1>3. event \in Event
  BY RangeLemma DEF Event, IInv, Types
<1> HIDE DEF event
<1>4. /\ sends \in Seq(Conn \X Event) /\ DOMAIN sends = {1}
      /\ sends[1][1] = point
  <2>1. <<point, event>> \in Conn \X Event
    BY <1>2, <1>3
  <2> QED
    BY <2>1
<1> HIDE DEF sends
<1> QED
  BY <1>1, <1>2, <1>4, EffectLemma

LEMMA NewDescriptorStep ==
    ASSUME IInv, NewDescriptor
    PROVE  IInv'
<1> DEFINE p == Head(backlog)
<1>1. /\ pc = "accept" /\ pending = <<>> /\ backlog # <<>> /\ ready = {}
  BY DEF NewDescriptor, IInv, Recipients, Walk
<1>2. /\ p \in Conn /\ p \in Range(backlog) /\ backlog' = Tail(backlog)
      /\ backlog' \in Seq(Conn) /\ IsInjective(backlog')
      /\ p \notin Range(backlog') /\ Range(backlog') \subseteq Range(backlog)
  BY <1>1, TailLemma DEF NewDescriptor, IInv, Types, Lists
<1>3. p \notin Listed /\ player[p] = NewPlayer /\ player' = player
  <2>1. p \notin Listed /\ player[p] = NewPlayer
    BY <1>2 DEF IInv, Lists
  <2>2. [player EXCEPT ![p] = NewPlayer] = player
    BY <2>1, <1>2 DEF IInv, Types
  <2> QED
    BY <2>1, <2>2 DEF NewDescriptor
<1>4. /\ playerlist' = <<p>> \o playerlist /\ pc' = "loop"
      /\ UNCHANGED <<peer, wire, out, sent, hangups, idle, ready, knocked, point,
                     pending, server_password>>
  BY DEF NewDescriptor
<1> HIDE DEF p
<1>5. /\ playerlist' \in Seq(Conn) /\ Listed' = Listed \cup {p} /\ IsInjective(playerlist')
  <2>1. playerlist \in Seq(Conn) /\ IsInjective(playerlist) /\ p \notin Range(playerlist)
    BY <1>3 DEF IInv, Types, Lists, Listed
  <2>2. /\ <<p>> \o playerlist \in Seq(Conn)
        /\ Range(<<p>> \o playerlist) = Range(playerlist) \cup {p}
        /\ IsInjective(<<p>> \o playerlist)
    BY <1>2, <2>1, PrependLemma
  <2> QED
    BY <1>4, <2>2 DEF Listed
<1>6. Types'
  BY <1>2, <1>3, <1>4, <1>5 DEF IInv, Types
<1>7. Lists'
  <2>1. peer[p] \notin {"none", "dropped"}
    BY <1>2 DEF IInv, Lists
  <2> QED
    BY <2>1, <1>2, <1>3, <1>4, <1>5 DEF IInv, Lists
<1>8. Recipients'
  BY <1>1, <1>4, NoSends DEF Recipients
<1>9. Walk'
  BY <1>1, <1>4 DEF Walk
<1>10. Messages'
  BY <1>3, <1>4 DEF IInv, Messages, Stream
<1> QED
  BY <1>6, <1>7, <1>8, <1>9, <1>10 DEF IInv

-----------------------------------------------------------------------------
(* The theorems. *)

LEMMA NextInv ==
    ASSUME IInv, [Next]_vars
    PROVE  IInv'
<1>1. CASE Server
  <2>1. CASE InputEnds \/ HeavyError \/ Inactive
    <3>1. Walking /\ Drop
      BY <2>1 DEF InputEnds, HeavyError, Inactive, Receives
    <3> QED
      BY <3>1, DropStep
  <2> QED
    BY <1>1, <2>1, SendOneStep, KilledStep, KillMarkedStep, SelectStep, ReadInputStep,
       PassByStep, WalkEndsStep, UserNameStep, PlainStep, WrongPasswordStep,
       RightPasswordStep, ChatStep, WhoStep, ProcessedStep, NewDescriptorStep DEF Server
<1>2. ASSUME NEW p \in Conn, Hear(p) \/ HangUp(p) \/ TwelveHours(p)
      PROVE  IInv'
  BY <1>2, HearStep, HangUpStep, TwelveHoursStep
<1>3. ASSUME NEW p \in Conn, NEW name \in {p} \cup TooLong,
             NEW password \in {"right", "wrong"}, ChConnect(p, name, password)
      PROVE  IInv'
  BY <1>3, ChConnectStep
<1>4. ASSUME NEW p \in Conn, NEW message \in Chatting, Send(p, message)
      PROVE  IInv'
  BY <1>4, SendStep
<1>5. CASE UNCHANGED vars
  <2> USE <1>5 DEF vars, clients, players, loop, IInv
  <2>1. Types' /\ Lists'
    BY DEF Types, Lists, Listed
  <2>2. Recipients' /\ Walk'
    BY DEF Recipients, Walk, Listed, Ahead
  <2>3. Messages'
    BY DEF Messages, Stream
  <2> QED
    BY <2>1, <2>2, <2>3
<1> QED
  BY <1>1, <1>2, <1>3, <1>4, <1>5 DEF Next

\* The inductive invariant, for every value of the constants.
THEOREM Inductive == Spec => []IInv
<1> QED
  BY InitInv, NextInv, PTL DEF Spec

LEMMA InjectiveConcat ==
    ASSUME NEW S, NEW s \in Seq(S), NEW t \in Seq(S), IsInjective(s), IsInjective(t),
           \A x \in Range(s) : x \notin Range(t)
    PROVE  IsInjective(s \o t)
<1> DEFINE m == Len(s)
           n == Len(t)
           u == s \o t
<1>1. /\ DOMAIN s = 1..m /\ m \in Nat /\ DOMAIN t = 1..n /\ n \in Nat
      /\ \A i \in 1..m : s[i] \in Range(s)
      /\ \A i \in 1..n : t[i] \in Range(t)
  BY RangeLemma
<1>2. /\ DOMAIN u = 1..m + n
      /\ \A i \in 1..m + n : u[i] = IF i <= m THEN s[i] ELSE t[i - m]
  BY ConcatProperties, RangeLemma
<1>3. /\ \A i, j \in 1..m : s[i] = s[j] => i = j
      /\ \A i, j \in 1..n : t[i] = t[j] => i = j
      /\ \A i \in 1..m, j \in 1..n : s[i] # t[j]
  BY <1>1 DEF IsInjective
<1> HIDE DEF u, m, n
<1>4. \A i \in 1..m + n :
        (i \in 1..m /\ u[i] = s[i]) \/ (i - m \in 1..n /\ u[i] = t[i - m])
  BY <1>1, <1>2
<1>5. ASSUME NEW i \in 1..m + n, NEW j \in 1..m + n, u[i] = u[j]
      PROVE  i = j
  <2>1. CASE i \in 1..m /\ u[i] = s[i]
    BY <2>1, <1>3, <1>4, <1>5
  <2>2. CASE i - m \in 1..n /\ u[i] = t[i - m]
    <3>1. j - m \in 1..n /\ u[j] = t[j - m]
      BY <2>2, <1>3, <1>4, <1>5
    <3>2. i - m = j - m
      BY <2>2, <3>1, <1>3, <1>5
    <3> QED
      BY <3>2, <1>1
  <2> QED
    BY <2>1, <2>2, <1>4
<1> QED
  BY <1>2, <1>5 DEF IsInjective, u

\* Every state is well typed: in particular no buffer overflows, no socket holds
\* more than its window, and nobody is both waiting and listed, or listed twice
\* (chatserver.c, process_input, new_descriptor, close_socket).
THEOREM TypeCorrect == Spec => []TypeOK
<1>1. IInv => TypeOK
  <2> SUFFICES ASSUME IInv PROVE TypeOK
    OBVIOUS
  <2>1. IsInjective(backlog \o playerlist)
    BY InjectiveConcat DEF IInv, Types, Lists, Listed
  <2>2. \A p \in Conn : /\ player[p].status \in {"LOGGING", "LOGGED"}
                        /\ player[p].name \in Name
                        /\ player[p].packetbuffer \in Seq(Token)
                        /\ player[p].kill \in BOOLEAN
                        /\ out[p] \in Seq(Event)
    BY DEF IInv, Types, Player
  <2> QED
    BY <2>1, <2>2 DEF IInv, Types, TypeOK, Token
<1> QED
  BY <1>1, Inductive, PTL

\* The walk of server_loop() stands on a listed player and has served, when it ends,
\* all that select() found ready, whoever was dropped under it.
THEOREM WalkNeverLost == Spec => []WalkServesAll
<1>1. IInv => WalkServesAll
  BY DEF IInv, Walk, WalkServesAll, Listed
<1> QED
  BY <1>1, Inductive, PTL

-----------------------------------------------------------------------------
(* Marked players. *)

LEMMA PrefixLemma ==
    ASSUME NEW S, NEW s \in Seq(S), NEW t \in Seq(S)
    PROVE  IsPrefix(s, s) /\ IsPrefix(s, s \o t)
<1>1. Len(s) \in Nat /\ Len(t) \in Nat /\ Len(s \o t) = Len(s) + Len(t)
  BY RangeLemma, ConcatProperties
<1>2. SubSeq(s \o t, 1, Len(s)) = SubSeq(s, 1, Len(s))
  <2>1. CASE Len(s) = 0
    <3>1. 1 \in Int /\ Len(s) \in Int /\ Len(s) < 1
      BY <2>1
    <3> QED
      BY <3>1, SubSeqEmpty
  <2>2. CASE Len(s) # 0
    <3>1. 1 \in 1..Len(s) /\ Len(s) \in 1..Len(s)
      BY <2>2, <1>1
    <3> QED
      BY <3>1, SubSeqOfConcat1
  <2> QED
    BY <2>1, <2>2
<1> QED
  BY <1>1, <1>2 DEF IsPrefix

\* What a step does to the wire of a player: it stays, a message is put behind it,
\* the player is dropped, or the walk reads it and he was ready.
LEMMA WireStep ==
    ASSUME IInv, [Next]_vars, NEW p \in Conn, p \in Listed
    PROVE  \/ wire'[p] = wire[p]
           \/ \E message \in Message : wire'[p] = wire[p] \o <<message, MARK>>
           \/ peer'[p] = "dropped"
           \/ p \in ready
<1> USE DEF clients, players, loop
<1>1. CASE Server
  <2>1. CASE InputEnds \/ HeavyError \/ Inactive \/ KillMarked
    <3>1. PICK q : CloseSocket(q)
      BY <2>1 DEF InputEnds, HeavyError, Inactive, KillMarked, Drop
    <3>2. CASE q = p
      BY <3>1, <3>2 DEF CloseSocket, IInv, Types
    <3>3. CASE q # p
      BY <3>1, <3>3 DEF CloseSocket, IInv, Types
    <3> QED
      BY <3>2, <3>3
  <2>2. CASE ReadInput
    <3>1. point \in ready
      BY <2>2 DEF ReadInput, Receives
    <3>2. p # point => wire'[p] = wire[p]
      BY <2>2 DEF ReadInput, IInv, Types
    <3> QED
      BY <3>1, <3>2
  <2>3. CASE SendOne \/ Killed \/ Select \/ PassBy \/ WalkEnds \/ Processed \/ NewDescriptor
    BY <2>3 DEF SendOne, Killed, Select, PassBy, WalkEnds, Processed, NewDescriptor
  <2>4. CASE \/ UserName \/ LongName \/ NoPassword \/ WrongPassword
             \/ RightPassword \/ Chat \/ Who \/ Ignored
    BY <2>4 DEF UserName, LongName, NoPassword, WrongPassword, RightPassword, Chat, Who, Ignored, Effect
  <2> QED
    BY <1>1, <2>1, <2>2, <2>3, <2>4 DEF Server
<1>2. ASSUME NEW q \in Conn, Hear(q) \/ HangUp(q) \/ TwelveHours(q)
      PROVE  wire'[p] = wire[p]
  BY <1>2 DEF Hear, HangUp, TwelveHours
<1>3. ASSUME NEW q \in Conn, NEW name \in {q} \cup TooLong,
             NEW password \in {"right", "wrong"}, ChConnect(q, name, password)
      PROVE  wire'[p] = wire[p]
  <2>1. q # p
    BY <1>3 DEF ChConnect, IInv, Lists
  <2> QED
    BY <2>1, <1>3 DEF ChConnect, IInv, Types
<1>4. ASSUME NEW q \in Conn, NEW message \in Chatting, Send(q, message)
      PROVE  wire'[p] = wire[p] \/ wire'[p] = wire[p] \o <<message, MARK>>
  BY <1>4 DEF Send, IInv, Types
<1>5. CASE UNCHANGED vars
  BY <1>5 DEF vars
<1>6. Chatting \subseteq Message
  BY DEF Message
<1> QED
  BY <1>1, <1>2, <1>3, <1>4, <1>5, <1>6 DEF Next

\* From the step that marks a player for the kill to the one that drops him, the
\* server reads nothing more from him; what it had read with the wrong password it
\* still processes (chatserver.c, process_player, server_loop).
THEOREM MarkedIsNotRead == Spec => MarkedIsOut
<1>1. IInv /\ [Next]_vars =>
        [\A p \in Conn : player[p].kill =>
            \/ IsPrefix(wire[p], wire'[p])
            \/ peer'[p] = "dropped"]_vars
  <2> SUFFICES ASSUME IInv, [Next]_vars, NEW p \in Conn, player[p].kill
               PROVE  IsPrefix(wire[p], wire'[p]) \/ peer'[p] = "dropped"
    OBVIOUS
  <2>1. p \in Listed /\ p \notin ready
    BY DEF IInv, Lists, Walk, NewPlayer
  <2>2. wire[p] \in Seq(Token)
    BY DEF IInv, Types
  <2>3. IsPrefix(wire[p], wire[p])
    BY <2>2, PrefixLemma
  <2>4. ASSUME NEW message \in Message
        PROVE  IsPrefix(wire[p], wire[p] \o <<message, MARK>>)
    <3> DEFINE pair == <<message, MARK>>
    <3>1. pair \in Seq(Token)
      BY MessageKinds
    <3> HIDE DEF pair
    <3>2. IsPrefix(wire[p], wire[p] \o pair)
      BY <2>2, <3>1, PrefixLemma
    <3> QED
      BY <3>2 DEF pair
  <2> QED
    BY <2>1, <2>3, <2>4, WireStep
<1> QED
  BY <1>1, Inductive, PTL DEF Spec, MarkedIsOut

-----------------------------------------------------------------------------
(***************************************************************************)
(* The refinement.  A player joins, speaks, asks or leaves in the one step *)
(* that fixes what is sent and to whom; the sends that follow move an      *)
(* event from pending to the player's socket and change nothing that is    *)
(* told, since none of them is owed twice.                                 *)
(***************************************************************************)

\* What a player is told is in his socket, but for the one send he may be owed.
OwedOnce == \A p \in Conn :
    /\ (\A i \in DOMAIN pending : pending[i][1] # p) => ToldTo(p) = out[p]
    /\ \A i \in DOMAIN pending :
            pending[i][1] = p => ToldTo(p) = Append(out[p], pending[i][2])

LEMMA ToldToLemma == Recipients => OwedOnce
<1> SUFFICES ASSUME Recipients, NEW p \in Conn
             PROVE  /\ (\A i \in DOMAIN pending : pending[i][1] # p) => ToldTo(p) = out[p]
                    /\ \A i \in DOMAIN pending :
                        pending[i][1] = p => ToldTo(p) = Append(out[p], pending[i][2])
  BY DEF OwedOnce
<1> DEFINE sends == {i \in DOMAIN pending : pending[i][1] = p}
           k == CHOOSE i \in sends : TRUE
<1>1. ToldTo(p) = IF sends = {} THEN out[p] ELSE Append(out[p], pending[k][2])
  BY DEF ToldTo
<1>2. ASSUME \A i \in DOMAIN pending : pending[i][1] # p
      PROVE  ToldTo(p) = out[p]
  <2>1. sends = {}
    BY <1>2
  <2> QED
    BY <1>1, <2>1
<1>3. ASSUME NEW i \in DOMAIN pending, pending[i][1] = p
      PROVE  ToldTo(p) = Append(out[p], pending[i][2])
  <2>1. i \in sends
    BY <1>3
  <2>2. k \in sends
    BY <2>1
  <2>3. k = i
    BY <2>1, <2>2 DEF Recipients
  <2> HIDE DEF k
  <2>4. sends # {}
    BY <2>1
  <2> QED
    BY <1>1, <2>3, <2>4
<1> QED
  BY <1>2, <1>3

LEMMA ToldToNext == Recipients' => OwedOnce'
BY ToldToLemma, PTL

\* A step that leaves the list, the members and what each that listens is told
\* alone is none of the room's.
LEMMA RoomStutter ==
    ASSUME playerlist' = playerlist, Listening' = Listening,
           \A p \in Conn : player'[p].status = player[p].status
                           /\ (player[p].status = "LOGGED" => player'[p].name = player[p].name),
           \A p \in Conn : p \in Listening => ToldTo(p)' = ToldTo(p)
    PROVE  UNCHANGED TheRoom!vars
<1>1. Members' = Members
  BY DEF Members
<1>2. Told' = Told
  BY DEF Told
<1>3. Range(playerlist)' = Range(playerlist)
  OBVIOUS
<1> QED
  BY <1>1, <1>2, <1>3 DEF TheRoom!vars

\* Most steps of the loop touch neither a socket nor what is owed.
LEMMA QuietStep ==
    ASSUME playerlist' = playerlist, peer' = peer, out' = out, pending' = pending,
           \A p \in Conn : player'[p].status = player[p].status
                           /\ (player[p].status = "LOGGED" => player'[p].name = player[p].name)
    PROVE  UNCHANGED TheRoom!vars
<1>1. Listening' = Listening
  BY DEF Listening
<1>2. \A p \in Conn : ToldTo(p)' = ToldTo(p)
  BY DEF ToldTo
<1> QED
  BY <1>1, <1>2, RoomStutter

\* The players that listen are the listed ones that have not hung up.
LEMMA ListeningLemma ==
    ASSUME IInv
    PROVE  /\ Listening \subseteq Conn /\ Listening \subseteq Listed
           /\ \A p \in Conn : p \in Listening <=> p \in Listed /\ peer[p] = "open"
BY RangeLemma DEF IInv, Types, Listening, Listed

LEMMA HearRefines ==
    ASSUME IInv, NEW p \in Conn, Hear(p)
    PROVE  TheRoom!Hear(p) \/ UNCHANGED TheRoom!vars
<1>1. /\ out[p] # <<>> /\ out' = [out EXCEPT ![p] = Tail(@)]
      /\ UNCHANGED <<peer, playerlist, player, pending>>
  BY DEF Hear, players
<1>2. out' \in [Conn -> Seq(Event)] /\ out'[p] = Tail(out[p])
      /\ (\A q \in Conn : q # p => out'[q] = out[q])
  BY <1>1, TailLemma DEF IInv, Types
<1>3. Listening' = Listening /\ Members' = Members
  BY <1>1 DEF Listening, Members
<1>4. \A q \in Conn : q # p => ToldTo(q)' = ToldTo(q)
  BY <1>1, <1>2 DEF ToldTo
<1>5. CASE p \notin Listening
  BY <1>1, <1>3, <1>4, <1>5, RoomStutter
<1>6. CASE p \in Listening
  <2>1. ToldTo(p) # <<>> /\ ToldTo(p)' = Tail(ToldTo(p))
    <3>1. CASE \A i \in DOMAIN pending : pending[i][1] # p
      <4>1. ToldTo(p) = out[p]
        BY <3>1, ToldToLemma DEF IInv, OwedOnce
      <4>2. ToldTo(p)' = out'[p]
        BY <3>1, <1>1 DEF ToldTo
      <4> QED
        BY <4>1, <4>2, <1>1, <1>2
    <3>2. CASE \E i \in DOMAIN pending : pending[i][1] = p
      <4>1. PICK i \in DOMAIN pending : pending[i][1] = p
        BY <3>2
      <4>2. ToldTo(p) = Append(out[p], pending[i][2])
        BY <4>1, ToldToLemma DEF IInv, OwedOnce
      <4>3. ToldTo(p)' = Append(out'[p], pending[i][2])
        <5>1. Recipients'
          BY HearStep DEF IInv
        <5>2. \A j \in DOMAIN pending' :
                pending'[j][1] = p => ToldTo(p)' = Append(out'[p], pending'[j][2])
          BY <5>1, ToldToNext DEF OwedOnce
        <5> QED
          BY <5>2, <4>1, <1>1
      <4>4. out[p] \in Seq(Event) /\ pending[i][2] \in Event
        BY <4>1, RangeLemma DEF IInv, Types
      <4>5. Tail(Append(out[p], pending[i][2])) = Append(Tail(out[p]), pending[i][2])
        BY <4>4, <1>1, HeadTailAppend
      <4>6. Append(out[p], pending[i][2]) # <<>>
        BY <4>4, AppendProperties
      <4> QED
        BY <4>2, <4>3, <4>5, <4>6, <1>2
    <3> QED
      BY <3>1, <3>2
  <2>2. Told[p] # <<>> /\ Told' = [Told EXCEPT ![p] = Tail(@)]
    BY <2>1, <1>3, <1>4, <1>6 DEF Told
  <2> QED
    BY <2>2, <1>1, <1>3 DEF TheRoom!Hear
<1> QED
  BY <1>5, <1>6

LEMMA HangUpRefines ==
    ASSUME IInv, NEW p \in Conn, HangUp(p)
    PROVE  TheRoom!HangUp(p) \/ UNCHANGED TheRoom!vars
<1>1. /\ peer[p] = "open" /\ peer'[p] # "open"
      /\ (\A q \in Conn : q # p => peer'[q] = peer[q] /\ out'[q] = out[q])
      /\ UNCHANGED <<playerlist, player, pending>>
  BY DEF HangUp, players, IInv, Types
<1>2. Members' = Members
  BY <1>1 DEF Members
<1>3. Listening' = Listening \ {p} /\ Listening \subseteq Conn
  BY <1>1, RangeLemma, SMTT(30) DEF Listening, IInv, Types
<1>4. \A q \in Conn : q # p => ToldTo(q)' = ToldTo(q)
  BY <1>1 DEF ToldTo
<1>5. CASE p \notin Listening
  <2>1. Listening' = Listening
    BY <1>3, <1>5
  <2> QED
    BY <2>1, <1>1, <1>4, <1>5, RoomStutter
<1>6. CASE p \in Listening
  <2>1. Told' = [Told EXCEPT ![p] = <<>>]
    BY <1>3, <1>4 DEF Told
  <2> QED
    BY <2>1, <1>1, <1>2, <1>3, <1>6 DEF TheRoom!HangUp
<1> QED
  BY <1>5, <1>6

LEMMA SendOneRefines ==
    ASSUME IInv, SendOne
    PROVE  UNCHANGED TheRoom!vars
<1> DEFINE q == Head(pending)[1]
           event == Head(pending)[2]
<1>1. /\ pending \in Seq(Conn \X Event) /\ pending # <<>>
      /\ pending' = Tail(pending)
      /\ playerlist' = playerlist /\ player' = player
  BY DEF IInv, Types, SendOne, players
<1>2. /\ Head(pending) = pending[1] /\ 1 \in DOMAIN pending /\ q \in Conn
      /\ (\A i \in DOMAIN pending' : i + 1 \in DOMAIN pending /\ pending'[i] = pending[i + 1])
      /\ (\A i \in DOMAIN pending : i # 1 => i - 1 \in DOMAIN pending' /\ pending'[i - 1] = pending[i])
      /\ DOMAIN pending' \subseteq Nat /\ (\A i \in DOMAIN pending' : i # 0)
  BY <1>1, TailLemma, RangeLemma
<1>3. \/ peer[q] = "open" /\ out' = [out EXCEPT ![q] = Append(@, event)] /\ peer' = peer
      \/ peer[q] # "open" /\ peer'[q] # "open" /\ out' = out
         /\ (\A p \in Conn : p # q => peer'[p] = peer[p])
  BY <1>2 DEF SendOne, IInv, Types
<1>4. Listening' = Listening
  <2>1. \A p \in Conn : peer'[p] = "open" <=> peer[p] = "open"
    BY <1>3
  <2> QED
    BY <2>1, <1>1, RangeLemma DEF Listening, IInv, Types
<1>5. Recipients /\ Recipients'
  BY SendOneStep DEF IInv
<1>6. pending[1][1] = q /\ pending[1][2] = event
  BY <1>2
<1>7. (\A i \in DOMAIN pending' : pending'[i][1] # q)
  <2> SUFFICES ASSUME NEW i \in DOMAIN pending', pending'[i][1] = q PROVE FALSE
    OBVIOUS
  <2>1. i + 1 = 1
    BY <1>2, <1>5, <1>6 DEF Recipients
  <2> QED
    BY <2>1, <1>2
<1> HIDE DEF q, event
<1>8. ASSUME NEW p \in Conn, p \in Listening
      PROVE  ToldTo(p)' = ToldTo(p)
  <2>1. CASE p = q
    <3>1. peer[p] = "open"
      BY <1>8 DEF Listening
    <3>2. out'[p] = Append(out[p], event)
      BY <3>1, <2>1, <1>3 DEF IInv, Types
    <3>3. ToldTo(p) = Append(out[p], event)
      BY <2>1, <1>2, <1>5, <1>6, ToldToLemma DEF OwedOnce
    <3>4. ToldTo(p)' = out'[p]
      BY <2>1, <1>5, <1>7, ToldToNext DEF OwedOnce
    <3> QED
      BY <3>2, <3>3, <3>4
  <2>2. CASE p # q
    <3>1. out'[p] = out[p]
      BY <2>2, <1>3 DEF IInv, Types
    <3>2. CASE \A i \in DOMAIN pending : pending[i][1] # p
      <4>1. \A i \in DOMAIN pending' : pending'[i][1] # p
        BY <3>2, <1>2
      <4>2. ToldTo(p)' = out'[p]
        BY <4>1, <1>5, ToldToNext DEF OwedOnce
      <4>3. ToldTo(p) = out[p]
        BY <3>2, <1>5, ToldToLemma DEF OwedOnce
      <4> QED
        BY <4>2, <4>3, <3>1
    <3>3. CASE \E i \in DOMAIN pending : pending[i][1] = p
      <4>1. PICK i \in DOMAIN pending : pending[i][1] = p
        BY <3>3
      <4>2. i - 1 \in DOMAIN pending' /\ pending'[i - 1] = pending[i]
        BY <4>1, <2>2, <1>2, <1>6
      <4>3. ToldTo(p)' = Append(out'[p], pending'[i - 1][2])
        BY <4>1, <4>2, <1>5, ToldToNext DEF OwedOnce
      <4>4. ToldTo(p) = Append(out[p], pending[i][2])
        BY <4>1, <1>5, ToldToLemma DEF OwedOnce
      <4> QED
        BY <4>2, <4>3, <4>4, <3>1
    <3> QED
      BY <3>2, <3>3
  <2> QED
    BY <2>1, <2>2
<1> QED
  BY <1>1, <1>4, <1>8, RoomStutter

\* When nothing was owed, a step that owes a player an event has told him of it.
LEMMA TellLemma ==
    ASSUME Recipients, Recipients', pending = <<>>, NEW q \in Conn, out'[q] = out[q]
    PROVE  /\ \A i \in DOMAIN pending' :
                pending'[i][1] = q => ToldTo(q)' = Append(ToldTo(q), pending'[i][2])
           /\ (\A i \in DOMAIN pending' : pending'[i][1] # q) => ToldTo(q)' = ToldTo(q)
<1>1. ToldTo(q) = out[q]
  BY EmptyLemma, ToldToLemma DEF OwedOnce
<1> QED
  BY <1>1, ToldToNext DEF OwedOnce

LEMMA CloseRefines ==
    ASSUME IInv, IInv', NEW p \in Listed, CloseSocket(p), pending = <<>>, UNCHANGED backlog
    PROVE  TheRoom!Leave(p)
<1> DEFINE event == <<"left", player[p].name>>
           list == playerlist'
<1>1. /\ p \in Conn /\ Listed' = Listed \ {p} /\ playerlist' \in Seq(Conn)
      /\ IsInjective(playerlist')
  BY CloseLemma DEF Lists
<1>2. /\ peer'[p] = "dropped" /\ (\A q \in Conn : q # p => peer'[q] = peer[q] /\ out'[q] = out[q])
      /\ player' = [player EXCEPT ![p] = NewPlayer]
      /\ pending' = IF player[p].status = "LOGGED" THEN Broadcast(list, NULL, event) ELSE <<>>
  BY <1>1 DEF CloseSocket, IInv, Types
<1>3. Members' = [Members EXCEPT ![p] = NULL]
  <2>1. \A q \in Conn : q # p => player'[q] = player[q]
    BY <1>2 DEF IInv, Types
  <2>2. player'[p].status = "LOGGING"
    BY <1>1, <1>2 DEF IInv, Types, NewPlayer
  <2> QED
    BY <2>1, <2>2, <1>1 DEF Members
<1>4. Members[p] = (IF player[p].status = "LOGGED" THEN player[p].name ELSE NULL)
      /\ (Members[p] # NULL <=> player[p].status = "LOGGED")
  <2>1. player[p].name \in Name
    BY <1>1 DEF IInv, Types, Player
  <2>2. player[p].name # NULL
    BY <2>1, ChatServerAssumption DEF Name
  <2> QED
    BY <1>1, <2>2 DEF Members
<1>5. Listening' = Listening \ {p}
  <2>1. Listed \subseteq Conn
    BY RangeLemma DEF IInv, Types, Listed
  <2>2. /\ Listening = {q \in Listed : peer[q] = "open"}
        /\ Listening' = {q \in Listed' : peer'[q] = "open"}
    BY DEF Listening, Listed
  <2> QED
    BY <1>1, <1>2, <2>1, <2>2
<1>6. Recipients /\ Recipients'
  BY DEF IInv
<1>7. ASSUME NEW q \in Conn, q # p, q \in Listening
      PROVE  ToldTo(q)' = IF Members[p] # NULL
                          THEN Append(ToldTo(q), <<"left", Members[p]>>) ELSE ToldTo(q)
  <2>1. out'[q] = out[q] /\ q \in Range(list) /\ q # NULL
    BY <1>1, <1>2, <1>7, ListeningLemma, ChatServerAssumption DEF Listed
  <2>2. CASE player[p].status = "LOGGED"
    <3>1. event \in Event
      <4>1. player[p].name \in Name
        BY <1>1 DEF IInv, Types, Player
      <4> QED
        BY <4>1 DEF Event
    <3>2. pending' = Broadcast(list, NULL, event)
      BY <1>2, <2>2
    <3> HIDE DEF event, list
    <3>3. \E i \in DOMAIN pending' : pending'[i][1] = q /\ pending'[i][2] = event
      BY <1>1, <2>1, <3>1, <3>2, BroadcastLemma DEF list
    <3>4. ToldTo(q)' = Append(ToldTo(q), event)
      BY <2>1, <3>3, <1>6, TellLemma
    <3> QED
      BY <2>2, <3>4, <1>4 DEF event
  <2>3. CASE player[p].status # "LOGGED"
    <3>1. \A i \in DOMAIN pending' : pending'[i][1] # q
      BY <1>2, <2>3, EmptyLemma
    <3> QED
      BY <2>1, <2>3, <3>1, <1>4, <1>6, TellLemma
  <2> QED
    BY <2>2, <2>3
<1> DEFINE then(q) == IF q = p THEN <<>>
                      ELSE IF q \in Listening /\ Members[p] # NULL
                           THEN Append(Told[q], <<"left", Members[p]>>) ELSE Told[q]
<1>8. \A q \in Conn : (IF q \in Listening' THEN ToldTo(q)' ELSE <<>>) = then(q)
  <2> SUFFICES ASSUME NEW q \in Conn
               PROVE  (IF q \in Listening' THEN ToldTo(q)' ELSE <<>>) = then(q)
    OBVIOUS
  <2>1. Told[q] = IF q \in Listening THEN ToldTo(q) ELSE <<>>
    BY DEF Told
  <2>2. CASE q = p
    BY <2>2, <1>5
  <2>3. CASE q # p /\ q \in Listening
    BY <2>1, <2>3, <1>5, <1>7
  <2>4. CASE q # p /\ q \notin Listening
    BY <2>1, <2>4, <1>5
  <2> QED
    BY <2>2, <2>3, <2>4
<1>9. Told' = [q \in Conn |-> then(q)]
  <2>1. Told' = [q \in Conn |-> IF q \in Listening' THEN ToldTo(q)' ELSE <<>>]
    BY DEF Told
  <2> HIDE DEF then
  <2> QED
    BY <2>1, <1>8
<1> QED
  BY <1>1, <1>3, <1>5, <1>9 DEF TheRoom!Leave, TheRoom!Others, Listed

\* What is told by an iteration of process_player() that owes an event to some.
LEMMA SpeakLemma ==
    ASSUME IInv, IInv', pending = <<>>, UNCHANGED <<clients, playerlist>>,
           NEW S, NEW event,
           \A i \in DOMAIN pending' : pending'[i][2] = event,
           \A q \in Listening : q \in S <=> \E i \in DOMAIN pending' : pending'[i][1] = q
    PROVE  TheRoom!Tell(Listening \cap S, event) /\ Listening' = Listening
<1>1. Listening' = Listening
  BY DEF Listening, clients
<1>2. Recipients /\ Recipients'
  BY DEF IInv
<1> DEFINE then(q) == IF q \in Listening \cap S THEN Append(Told[q], event) ELSE Told[q]
<1>3. \A q \in Conn : (IF q \in Listening' THEN ToldTo(q)' ELSE <<>>) = then(q)
  <2> SUFFICES ASSUME NEW q \in Conn
               PROVE  (IF q \in Listening' THEN ToldTo(q)' ELSE <<>>) = then(q)
    OBVIOUS
  <2>1. Told[q] = IF q \in Listening THEN ToldTo(q) ELSE <<>>
    BY DEF Told
  <2>2. out'[q] = out[q]
    BY DEF clients
  <2>3. CASE q \in Listening /\ q \in S
    <3>1. ToldTo(q)' = Append(ToldTo(q), event)
      BY <2>2, <2>3, <1>2, TellLemma
    <3> QED
      BY <2>1, <2>3, <3>1, <1>1
  <2>4. CASE q \in Listening /\ q \notin S
    <3>1. ToldTo(q)' = ToldTo(q)
      BY <2>2, <2>4, <1>2, TellLemma
    <3> QED
      BY <2>1, <2>4, <3>1, <1>1
  <2>5. CASE q \notin Listening
    BY <2>1, <2>5, <1>1
  <2> QED
    BY <2>3, <2>4, <2>5
<1>4. Told' = [q \in Conn |-> then(q)]
  <2>1. Told' = [q \in Conn |-> IF q \in Listening' THEN ToldTo(q)' ELSE <<>>]
    BY DEF Told
  <2> HIDE DEF then
  <2> QED
    BY <2>1, <1>3
<1> QED
  BY <1>1, <1>4 DEF TheRoom!Tell

\* broadcast(p, ...) tells all that listen, but not the player himself.
LEMMA BroadcastTells ==
    ASSUME IInv, IInv', pending = <<>>, UNCHANGED <<clients, playerlist>>,
           NEW event \in Event, pending' = Broadcast(playerlist, point, event)
    PROVE  TheRoom!Tell(Listening \ {point}, event) /\ Listening' = Listening
<1> DEFINE S == Listening \ {point}
<1>1. playerlist \in Seq(Conn) /\ IsInjective(playerlist)
  BY DEF IInv, Types, Lists
<1>2. /\ \A i \in DOMAIN pending' :
            pending'[i][1] \in Range(playerlist) \ {point} /\ pending'[i][2] = event
      /\ \A q \in Range(playerlist) \ {point} : \E i \in DOMAIN pending' : pending'[i][1] = q
  BY <1>1, BroadcastLemma
<1>3. \A q \in Listening : q \in S <=> \E i \in DOMAIN pending' : pending'[i][1] = q
  BY <1>2, ListeningLemma DEF Listed
<1> HIDE DEF S
<1>4. TheRoom!Tell(Listening \cap S, event) /\ Listening' = Listening
  BY <1>2, <1>3, SpeakLemma, ZenonT(30)
<1>5. Listening \cap S = Listening \ {point}
  BY DEF S
<1> QED
  BY <1>4, <1>5

LEMMA RightPasswordRefines ==
    ASSUME IInv, IInv', RightPassword
    PROVE  TheRoom!Join(point, player[point].name) /\ player[point].name \in Name /\ point \in Conn
<1> DEFINE event == <<"joined", player[point].name>>
<1>1. /\ Got("P", "LOGGING")
      /\ Effect([player[point] EXCEPT !.status = "LOGGED"], Broadcast(playerlist, point, event))
  BY DEF RightPassword
<1>2. /\ pending = <<>> /\ point \in Listed /\ point \in Conn /\ player[point] \in Player
      /\ player[point].name \in Name /\ player[point].status = "LOGGING"
  BY <1>1, GotLemma
<1>3. event \in Event
  BY <1>2 DEF Event
<1>4. UNCHANGED <<clients, playerlist>> /\ pending' = Broadcast(playerlist, point, event)
  BY <1>1 DEF Effect
<1>5. TheRoom!Tell(Listening \ {point}, event) /\ Listening' = Listening
  BY <1>2, <1>3, <1>4, BroadcastTells
<1>6. Members[point] = NULL /\ Members' = [Members EXCEPT ![point] = player[point].name]
  <2>1. /\ player'[point].status = "LOGGED" /\ player'[point].name = player[point].name
        /\ (\A q \in Conn : q # point => player'[q] = player[q])
    BY <1>1, <1>2 DEF Effect, IInv, Types, Player
  <2> QED
    BY <2>1, <1>2 DEF Members
<1> QED
  BY <1>2, <1>4, <1>5, <1>6 DEF TheRoom!Join, Listed

LEMMA ChatRefines ==
    ASSUME IInv, IInv', Chat
    PROVE  TheRoom!Say(point, GetMsg[2]) /\ GetMsg[2] \in Text /\ point \in Conn
<1> DEFINE event == <<"said", player[point].name, GetMsg[2]>>
<1>1. Got("W", "LOGGED") /\ Effect(player[point], Broadcast(playerlist, point, event))
  BY DEF Chat
<1>2. /\ pending = <<>> /\ point \in Listed /\ point \in Conn /\ player[point] \in Player
      /\ player[point].name \in Name /\ player[point].name # NULL
      /\ player[point].status = "LOGGED"
      /\ GetMsg[2] \in Text
  BY <1>1, GotLemma, MessageKinds
<1>3. event \in Event
  BY <1>2 DEF Event
<1>4. UNCHANGED <<clients, playerlist>> /\ pending' = Broadcast(playerlist, point, event)
  BY <1>1 DEF Effect
<1>5. TheRoom!Tell(Listening \ {point}, event) /\ Listening' = Listening
  BY <1>2, <1>3, <1>4, BroadcastTells
<1>6. Members[point] = player[point].name /\ Members[point] # NULL /\ Members' = Members
  <2>1. /\ player'[point].status = "LOGGED" /\ player'[point].name = player[point].name
        /\ (\A q \in Conn : q # point => player'[q] = player[q])
    BY <1>1, <1>2 DEF Effect, IInv, Types, Player
  <2> QED
    BY <2>1, <1>2, ChatServerAssumption DEF Members
<1> QED
  BY <1>2, <1>4, <1>5, <1>6 DEF TheRoom!Say, Listed

\* The number of players #chatwho reports is the number of those that are here.
LEMMA WhoCounts ==
    ASSUME NEW s \in Seq(Conn), IsInjective(s)
    PROVE  Cardinality(Range(s)) = Len(s)
<1>1. Len(s) \in Nat /\ DOMAIN s = 1..Len(s) /\ s \in [1..Len(s) -> Conn]
  BY LenProperties
<1>2. s \in [1..Len(s) -> Range(s)] /\ \A x \in Range(s) : \E i \in 1..Len(s) : s[i] = x
  BY <1>1, RangeLemma
<1>3. s \in Bijection(1..Len(s), Range(s))
  BY <1>1, <1>2 DEF Bijection, Injection, Surjection, IsInjective
<1>4. ExistsBijection(1..Len(s), Range(s))
  BY <1>3 DEF ExistsBijection
<1> QED
  BY <1>1, <1>4, FS_CountingElements

LEMMA WhoRefines ==
    ASSUME IInv, IInv', Who
    PROVE  TheRoom!Who(point) /\ point \in Conn
<1> DEFINE event == <<"who", Len(playerlist)>>
           S == {point}
<1>1. Got("Z", "LOGGED") /\ Effect(player[point], <<<<point, event>>>>)
  BY DEF Who
<1>2. /\ pending = <<>> /\ point \in Listed /\ point \in Conn /\ player[point] \in Player
      /\ player[point].name \in Name /\ player[point].name # NULL
      /\ player[point].status = "LOGGED"
  BY <1>1, GotLemma
<1>3. UNCHANGED <<clients, playerlist>> /\ pending' = <<<<point, event>>>>
  BY <1>1 DEF Effect
<1> HIDE DEF event
<1>4. DOMAIN pending' = {1} /\ pending'[1][1] = point /\ pending'[1][2] = event
  BY <1>3
<1>5. TheRoom!Tell(Listening \cap S, event) /\ Listening' = Listening
  <2>1. \A i \in DOMAIN pending' : pending'[i][2] = event
    BY <1>4
  <2>2. \A q \in Listening : q \in S <=> \E i \in DOMAIN pending' : pending'[i][1] = q
    BY <1>4
  <2> HIDE DEF S
  <2> QED
    BY <2>1, <2>2, <1>2, <1>3, SpeakLemma
<1>6. Members[point] # NULL /\ Members' = Members
  <2>1. /\ player'[point].status = "LOGGED" /\ player'[point].name = player[point].name
        /\ (\A q \in Conn : q # point => player'[q] = player[q])
    BY <1>1, <1>2 DEF Effect, IInv, Types, Player
  <2> QED
    BY <2>1, <1>2, ChatServerAssumption DEF Members
<1>7. event = <<"who", Cardinality(Range(playerlist))>>
  BY WhoCounts DEF event, IInv, Types, Lists
<1>8. TheRoom!Tell(Listening \cap {point}, <<"who", Cardinality(Range(playerlist))>>)
  BY <1>5, <1>7
<1> HIDE DEF S
<1>9. UNCHANGED <<Listed, Members, Listening>>
  BY <1>3, <1>5, <1>6 DEF Listed
<1>10. TheRoom!Cardinality(Range(playerlist)) = Cardinality(Range(playerlist))
  BY DEF TheRoom!Cardinality, Cardinality
<1> QED
  BY <1>2, <1>6, <1>8, <1>9, <1>10 DEF TheRoom!Who, Listed

\* The other messages are not heard in the room.
LEMMA SilentRefines ==
    ASSUME IInv, UserName \/ LongName \/ NoPassword \/ WrongPassword \/ Ignored
    PROVE  UNCHANGED TheRoom!vars
<1>1. PICK kind \in {"U", "P", "W", "Z"} : Got(kind, "LOGGING")
  BY DEF UserName, LongName, NoPassword, WrongPassword, Ignored
<1>2. PICK changed \in {[player[point] EXCEPT !.name = GetMsg[2]], player[point],
                        [player[point] EXCEPT !.kill = TRUE]} : Effect(changed, <<>>)
  BY DEF UserName, LongName, NoPassword, WrongPassword, Ignored
<1>3. /\ pending = <<>> /\ point \in Conn /\ player[point] \in Player
      /\ player[point].status = "LOGGING"
  BY <1>1, GotLemma
<1>4. changed.status = "LOGGING"
  BY <1>2, <1>3 DEF Player
<1>5. UNCHANGED <<clients, playerlist>> /\ pending' = pending
      /\ player' = [player EXCEPT ![point] = [changed EXCEPT !.packetbuffer = AfterMsg(@)]]
  BY <1>2, <1>3 DEF Effect
<1>6. /\ player'[point].status = "LOGGING"
      /\ (\A q \in Conn : q # point => player'[q] = player[q])
  BY <1>2, <1>3, <1>4, <1>5 DEF IInv, Types, Player
<1> QED
  BY <1>3, <1>5, <1>6, QuietStep DEF clients

LEMMA NewDescriptorRefines ==
    ASSUME IInv, IInv', NewDescriptor
    PROVE  \E p \in Conn : TheRoom!Enter(p)
<1> DEFINE p == Head(backlog)
<1>1. pending = <<>> /\ backlog # <<>>
  BY DEF NewDescriptor, IInv, Recipients
<1>2. p \in Conn /\ p \in Range(backlog)
  BY <1>1, TailLemma DEF IInv, Types
<1>3. p \notin Listed /\ player[p] = NewPlayer /\ out[p] = <<>>
  BY <1>2 DEF IInv, Lists
<1>4. /\ playerlist' = <<p>> \o playerlist
      /\ player' = [player EXCEPT ![p] = NewPlayer]
      /\ UNCHANGED <<peer, out, pending>>
  BY DEF NewDescriptor
<1> HIDE DEF p
<1>5. Range(playerlist)' = Range(playerlist) \cup {p}
  <2>1. playerlist \in Seq(Conn)
    BY DEF IInv, Types
  <2>2. Range(<<p>> \o playerlist) = Range(playerlist) \cup {p}
    BY <2>1, <1>2, PrependLemma
  <2> QED
    BY <2>2, <1>4
<1>6. Members' = Members
  <2>1. player' = player
    BY <1>2, <1>3, <1>4 DEF IInv, Types
  <2> QED
    BY <2>1 DEF Members
<1>7. Listening' = Listening \cup (IF peer[p] = "open" THEN {p} ELSE {})
  BY <1>4, <1>5 DEF Listening
<1>8. Told' = Told
  <2>1. \A q \in Conn : ToldTo(q)' = ToldTo(q)
    BY <1>4 DEF ToldTo
  <2>2. ToldTo(p) = <<>>
    BY <1>1, <1>2, <1>3, EmptyLemma, ToldToLemma DEF OwedOnce, IInv
  <2>3. p \notin Listening
    BY <1>3, ListeningLemma
  <2> QED
    BY <2>1, <2>2, <2>3, <1>7 DEF Told
<1>9. TheRoom!Enter(p)
  BY <1>3, <1>5, <1>6, <1>7, <1>8 DEF TheRoom!Enter, Listed
<1> QED
  BY <1>2, <1>9

LEMMA InitRefines == Init => TheRoom!Init
<1> SUFFICES ASSUME Init PROVE TheRoom!Init
  OBVIOUS
<1>1. /\ playerlist = <<>> /\ player = [p \in Conn |-> NewPlayer]
      /\ pending = <<>> /\ out = [p \in Conn |-> <<>>]
  BY DEF Init
<1>2. Range(playerlist) = {} /\ Listening = {}
  BY <1>1, EmptyLemma DEF Listening
<1>3. Members = [p \in Conn |-> NULL]
  BY <1>1 DEF Members, NewPlayer
<1>4. Told = [p \in Conn |-> <<>>]
  BY <1>2 DEF Told
<1> QED
  BY <1>2, <1>3, <1>4 DEF TheRoom!Init

LEMMA NextRefines ==
    ASSUME IInv, IInv', [Next]_vars
    PROVE  [TheRoom!Next]_(TheRoom!vars)
<1> USE DEF clients, players, loop
<1>1. CASE Server
  <2>1. CASE SendOne
    BY <2>1, SendOneRefines
  <2>2. CASE KillMarked
    <3>1. PICK i \in DOMAIN playerlist : CloseSocket(playerlist[i])
      BY <2>2 DEF KillMarked, Marked
    <3>2. playerlist[i] \in Listed /\ playerlist[i] \in Conn
      BY RangeLemma, SMTT(30) DEF Listed, IInv, Types
    <3>3. TheRoom!Leave(playerlist[i])
      BY <2>2, <3>1, <3>2, CloseRefines DEF KillMarked
    <3> QED
      BY <3>2, <3>3 DEF TheRoom!Next
  <2>3. CASE InputEnds \/ HeavyError \/ Inactive
    <3>1. Walking /\ Drop
      BY <2>3 DEF InputEnds, HeavyError, Inactive, Receives
    <3>2. /\ CloseSocket(point) /\ pending = <<>> /\ UNCHANGED backlog
          /\ point \in Listed /\ point \in Conn
      BY <3>1 DEF Walking, Drop, IInv, Walk, Types
    <3>3. TheRoom!Leave(point)
      BY <3>2, CloseRefines
    <3> QED
      BY <3>2, <3>3 DEF TheRoom!Next
  <2>4. CASE Killed \/ Select \/ PassBy \/ WalkEnds \/ Processed
    <3>1. UNCHANGED <<playerlist, peer, out, pending, player>>
      BY <2>4 DEF Killed, Select, PassBy, WalkEnds, Processed
    <3> QED
      BY <3>1, QuietStep
  <2>5. CASE ReadInput
    <3>1. /\ UNCHANGED <<playerlist, peer, out, pending>> /\ Walking
          /\ \E n : player' = [player EXCEPT ![point].packetbuffer = Packet(point, n)]
      BY <2>5 DEF ReadInput, Receives
    <3>2. PICK n : player' = [player EXCEPT ![point].packetbuffer = Packet(point, n)]
      BY <3>1
    <3> DEFINE read == Packet(point, n)
    <3>3. player' = [player EXCEPT ![point].packetbuffer = read]
      BY <3>2
    <3> HIDE DEF read
    <3>4. player \in [Conn -> Player]
      BY DEF IInv, Types
    <3>5. \A p \in Conn : player'[p].status = player[p].status
                          /\ player'[p].name = player[p].name
      <4> SUFFICES ASSUME NEW p \in Conn
                   PROVE  player'[p].status = player[p].status
                          /\ player'[p].name = player[p].name
        OBVIOUS
      <4>1. CASE p = point
        <5>1. player'[p] = [player[p] EXCEPT !.packetbuffer = read]
          BY <3>3, <3>4, <4>1
        <5> QED
          BY <5>1, <3>4 DEF Player
      <4>2. CASE p # point
        BY <3>3, <3>4, <4>2
      <4> QED
        BY <4>1, <4>2
    <3> QED
      BY <3>1, <3>5, QuietStep
  <2>6. CASE UserName \/ LongName \/ NoPassword \/ WrongPassword \/ Ignored
    BY <2>6, SilentRefines
  <2>7. CASE RightPassword
    BY <2>7, RightPasswordRefines DEF TheRoom!Next
  <2>8. CASE Chat
    BY <2>8, ChatRefines DEF TheRoom!Next
  <2>9. CASE Who
    BY <2>9, WhoRefines DEF TheRoom!Next
  <2>10. CASE NewDescriptor
    BY <2>10, NewDescriptorRefines DEF TheRoom!Next
  <2> QED
    BY <1>1, <2>1, <2>2, <2>3, <2>4, <2>5, <2>6, <2>7, <2>8, <2>9, <2>10 DEF Server
<1>2. ASSUME NEW p \in Conn, Hear(p)
      PROVE  [TheRoom!Next]_(TheRoom!vars)
  BY <1>2, HearRefines DEF TheRoom!Next
<1>3. ASSUME NEW p \in Conn, HangUp(p)
      PROVE  [TheRoom!Next]_(TheRoom!vars)
  BY <1>3, HangUpRefines DEF TheRoom!Next
<1>4. ASSUME NEW p \in Conn, TwelveHours(p)
      PROVE  UNCHANGED TheRoom!vars
  <2>1. UNCHANGED <<playerlist, peer, out, pending, player>>
    BY <1>4 DEF TwelveHours
  <2> QED
    BY <2>1, QuietStep
<1>5. ASSUME NEW p \in Conn, NEW name \in {p} \cup TooLong,
             NEW password \in {"right", "wrong"}, ChConnect(p, name, password)
      PROVE  UNCHANGED TheRoom!vars
  <2>1. UNCHANGED <<playerlist, out, pending, player>>
    BY <1>5 DEF ChConnect
  <2>2. p \notin Listed /\ \A q \in Conn : q # p => peer'[q] = peer[q]
    BY <1>5 DEF ChConnect, IInv, Lists, Types
  <2>3. Listening' = Listening
    <3>1. Listed \subseteq Conn
      BY RangeLemma DEF IInv, Types, Listed
    <3> QED
      BY <2>1, <2>2, <3>1 DEF Listening, Listed
  <2>4. \A q \in Conn : ToldTo(q)' = ToldTo(q)
    BY <2>1 DEF ToldTo
  <2> QED
    BY <2>1, <2>3, <2>4, RoomStutter
<1>6. ASSUME NEW p \in Conn, NEW message \in Chatting, Send(p, message)
      PROVE  UNCHANGED TheRoom!vars
  <2>1. UNCHANGED <<playerlist, peer, out, pending, player>>
    BY <1>6 DEF Send
  <2> QED
    BY <2>1, QuietStep
<1>7. CASE UNCHANGED vars
  <2>1. UNCHANGED <<playerlist, peer, out, pending, player>>
    BY <1>7 DEF vars
  <2> QED
    BY <2>1, QuietStep
<1> QED
  BY <1>1, <1>2, <1>3, <1>4, <1>5, <1>6, <1>7 DEF Next

\* The server implements the room: whatever clients say, read or hang up between
\* the sends of a broadcast, all players in the list, logged in or not, are told the
\* same events in the same order, each once (chatserver.c:99-103, process_player,
\* close_socket).
THEOREM ServerIsARoom == Spec => ImplementsRoom
<1>1. IInv /\ IInv' /\ [Next]_vars => [TheRoom!Next]_(TheRoom!vars)
  BY NextRefines
<1> QED
  BY <1>1, InitRefines, Inductive, PTL DEF Spec, ImplementsRoom, TheRoom!Spec

=============================================================================
