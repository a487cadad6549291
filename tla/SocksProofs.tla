---------------------------- MODULE SocksProofs ----------------------------
(***************************************************************************)
(* What holds of Socks for every user and password that fits, every proxy  *)
(* of either version, every length of its answer and any amount of mud:    *)
(* the buffer is never overrun, handle_request() never uses its iterations *)
(* up, and it returns 0 only when the proxy granted the connection, the    *)
(* session then reading the mud from its first byte.                       *)
(***************************************************************************)
EXTENDS Socks, SequenceTheorems, TLAPS

Bytes == Byte \cup {MUD}

Types ==
    /\ TypeOK
    /\ buffer \in Seq(Byte) /\ to_proxy \in Seq(Byte)
    /\ from_proxy \in Seq(Bytes) /\ mud \in Seq(Bytes)
    /\ datalen \in Nat /\ datadone \in Nat /\ bound \in Nat /\ i \in Nat

\* For each message of the client, named for the state it is sent in: what the
\* proxy waits for then, the version the message begins with, its length, and the
\* step of the loop that reaches it.
Stage(m) ==
    CASE m = "SENTV4REQ" -> "request" [] m = "SENTV5METHOD" -> "method"
      [] m = "SENTV5AUTH" -> "auth" [] m = "SENTV5CONNECT" -> "connect"
Size(m) ==
    CASE m = "SENTV4REQ" -> 9 [] m = "SENTV5METHOD" -> 4
      [] m = "SENTV5AUTH" -> 3 + socks_user + socks_password
      [] m = "SENTV5CONNECT" -> 10
Turn(m) ==
    CASE m = "SENTV4REQ" -> 1 [] m = "SENTV5METHOD" -> 1
      [] m = "SENTV5AUTH" -> 5 [] m = "SENTV5CONNECT" -> 9

\* b may be byte j of the message m: the version and the lengths are told.
Fits(m, j, b) ==
    /\ j = 1 => b = Version[Stage(m)]
    /\ m = "SENTV5METHOD" /\ j = 2 => b = 2
    /\ m = "SENTV5AUTH" /\ j = 2 => b = socks_user
    /\ m = "SENTV5AUTH" /\ j = 3 + socks_user => b = socks_password

\* The proxy waits for the message m, of which it has n bytes, or for one that m
\* cannot be taken for.
Asking(m, n) ==
    /\ proxy \in DOMAIN Version
    /\ proxy = Stage(m) \/ Version[proxy] # Version[Stage(m)]
    /\ from_proxy = <<>>
    /\ Len(to_proxy) = n /\ n <= Size(m)
    /\ \A j \in 1..n : Fits(m, j, to_proxy[j])

Silent == proxy = "gone" /\ from_proxy = <<>>

\* What the second byte of the answer to m says of the proxy.
Verdict(m, b) ==
    /\ m = "SENTV4REQ" /\ b = 90 => proxy = "relay"
    /\ m = "SENTV5METHOD" /\ b = 2 => proxy \in {"auth", "gone"}
    /\ m = "SENTV5METHOD" /\ b \notin {2, 255} => proxy \in {"connect", "gone"}
    /\ m = "SENTV5AUTH" /\ b = 0 => proxy \in {"connect", "gone"}
    /\ m = "SENTV5CONNECT" /\ b = 0 => proxy = "relay"

\* The proxy has answered m, or has gone, and d bytes of the answer were read:
\* those still in flight are the rest of it, and only a relay, which has sent the
\* whole answer before, sends more.
Answered(m, d) ==
    /\ proxy \in {"auth", "connect", "relay", "gone"}
    /\ proxy \in {"auth", "connect"} => to_proxy = <<>>
    /\ proxy # "relay" => d + Len(from_proxy) <= Reply(m).len
    /\ proxy = "relay" /\ line = "open" => d + Len(from_proxy) >= Reply(m).len
    /\ d >= 2 => Verdict(m, buffer[2])
    /\ d < 2 /\ d + Len(from_proxy) >= 2 => Verdict(m, from_proxy[2 - d])
    /\ \A j \in 1..Len(from_proxy) :
         /\ d + j <= Reply(m).len => from_proxy[j] \in Byte
         /\ d + j > Reply(m).len /\ bound = 10 => from_proxy[j] = MUD

\* The states of the client, each with what the proxy may be about.
Opening ==
    /\ i = 0 /\ proxy \in {"request", "method", "gone"}
    /\ to_proxy = <<>> /\ from_proxy = <<>>

Speaking(m) ==
    /\ i <= Turn(m) /\ datalen = Size(m) /\ datadone < datalen
    /\ \A j \in 1..datalen : Fits(m, j, buffer[j])
    /\ Asking(m, datadone) \/ Silent

Spoken(m) ==
    /\ i <= Turn(m) + 1
    /\ Asking(m, Size(m)) \/ Answered(m, 0)

Hearing(m) ==
    /\ i <= Turn(m) + 2 /\ datalen = Reply(m).len /\ datadone < datalen
    /\ (datadone = 0 /\ Asking(m, Size(m))) \/ Answered(m, datadone)

Heard(m) ==
    /\ i <= Turn(m) + 3 /\ Len(buffer) >= 2
    /\ Answered(m, Reply(m).len)

\* bound = 10: the answer is as long as recv_buffer() takes it to be.
Through ==
    /\ proxy = "relay"
    /\ bound = 10 => \A j \in 1..Len(from_proxy) : from_proxy[j] = MUD
    /\ bound = 10 => \A j \in 1..Len(mud) : mud[j] = MUD

Dialogue ==
    /\ state = "CONNECTED" => Opening
    /\ state = "SENDING" => nextstate \in Sent /\ Speaking(nextstate)
    /\ state \in Sent => Spoken(state)
    /\ state = "RECEIVING" =>
         \E m \in Sent : nextstate = Reply(m).got /\ Hearing(m)
    /\ state \in Got =>
         \E m \in Sent : state = Reply(m).got /\ Heard(m)
    /\ state # "CONNFAILED"
    /\ state # "DONE" => mud = <<>>
    /\ state = "DONE" => Through

IInv == Types /\ (rc = 0 => Dialogue)

-----------------------------------------------------------------------------
(* The tables of the dialogue, case by case. *)

LEMMA VersionFacts ==
    /\ DOMAIN Version = {"request", "method", "auth", "connect"}
    /\ Version["request"] = 4 /\ Version["method"] = 5
    /\ Version["auth"] = 1 /\ Version["connect"] = 5
BY DEF Version

LEMMA MessageFacts ==
    /\ Stage("SENTV4REQ") = "request" /\ Stage("SENTV5METHOD") = "method"
    /\ Stage("SENTV5AUTH") = "auth" /\ Stage("SENTV5CONNECT") = "connect"
    /\ Size("SENTV4REQ") = 9 /\ Size("SENTV5METHOD") = 4
    /\ Size("SENTV5AUTH") = 3 + socks_user + socks_password
    /\ Size("SENTV5CONNECT") = 10
    /\ Turn("SENTV4REQ") = 1 /\ Turn("SENTV5METHOD") = 1
    /\ Turn("SENTV5AUTH") = 5 /\ Turn("SENTV5CONNECT") = 9
<1>1. Stage("SENTV4REQ") = "request" /\ Stage("SENTV5METHOD") = "method"
  BY DEF Stage
<1>2. Stage("SENTV5AUTH") = "auth" /\ Stage("SENTV5CONNECT") = "connect"
  BY DEF Stage
<1>3. Size("SENTV4REQ") = 9 /\ Size("SENTV5METHOD") = 4
  BY DEF Size
<1>4. Size("SENTV5AUTH") = 3 + socks_user + socks_password /\ Size("SENTV5CONNECT") = 10
  BY DEF Size
<1>5. /\ Turn("SENTV4REQ") = 1 /\ Turn("SENTV5METHOD") = 1
      /\ Turn("SENTV5AUTH") = 5 /\ Turn("SENTV5CONNECT") = 9
  BY DEF Turn
<1> QED BY <1>1, <1>2, <1>3, <1>4, <1>5

LEMMA ReplyFacts ==
    /\ Reply("SENTV4REQ").len = 8 /\ Reply("SENTV4REQ").got = "GOTV4REQ"
    /\ Reply("SENTV5METHOD").len = 2 /\ Reply("SENTV5METHOD").got = "GOTV5METHOD"
    /\ Reply("SENTV5AUTH").len = 2 /\ Reply("SENTV5AUTH").got = "GOTV5AUTH"
    /\ Reply("SENTV5CONNECT").len = 10 /\ Reply("SENTV5CONNECT").got = "GOTV5CONNECT"
<1>1. Reply("SENTV4REQ") = [len |-> 8, got |-> "GOTV4REQ"]  BY DEF Reply
<1>2. Reply("SENTV5METHOD") = [len |-> 2, got |-> "GOTV5METHOD"]  BY DEF Reply
<1>3. Reply("SENTV5AUTH") = [len |-> 2, got |-> "GOTV5AUTH"]  BY DEF Reply
<1>4. Reply("SENTV5CONNECT") = [len |-> 10, got |-> "GOTV5CONNECT"]  BY DEF Reply
<1> QED BY <1>1, <1>2, <1>3, <1>4

LEMMA Lengths ==
    ASSUME NEW m \in Sent
    PROVE  /\ Size(m) \in Nat /\ Size(m) >= 3 /\ Size(m) <= 65
           /\ Reply(m).len \in Nat /\ Reply(m).len >= 2 /\ Reply(m).len <= 10
           /\ Turn(m) \in Nat /\ Turn(m) <= 9
           /\ Stage(m) \in DOMAIN Version /\ Reply(m).got \in Got
BY MessageFacts, ReplyFacts, VersionFacts, SocksAssumption DEF Sent, Got

LEMMA OneReply ==
    ASSUME NEW m \in Sent, NEW k \in Sent, Reply(m).got = Reply(k).got
    PROVE  m = k
BY ReplyFacts DEF Sent

-----------------------------------------------------------------------------
(* Sequences of bytes. *)

LEMMA AnysFacts ==
    ASSUME NEW n \in Nat
    PROVE  /\ Anys(n) \in Seq(Byte) /\ Len(Anys(n)) = n
           /\ \A j \in 1..n : Anys(n)[j] = ANY
BY DEF Anys, Byte

\* Concatenation, index by index.
LEMMA Concat ==
    ASSUME NEW S, NEW s \in Seq(S), NEW t \in Seq(S)
    PROVE  /\ s \o t \in Seq(S)
           /\ Len(s) \in Nat /\ Len(t) \in Nat /\ Len(s \o t) = Len(s) + Len(t)
           /\ \A j \in 1..Len(s) : (s \o t)[j] = s[j]
           /\ \A j \in 1..Len(t) : (s \o t)[Len(s) + j] = t[j]
BY SMTT(30)

\* Overlay writes new over old from at on, and leaves the rest.
LEMMA OverlayFacts ==
    ASSUME NEW S, NEW old \in Seq(S), NEW new \in Seq(S), NEW at \in Nat, at <= Len(old),
           NEW o, o = Overlay(old, at, new)
    PROVE  /\ o \in Seq(S)
           /\ Len(o) = IF at + Len(new) > Len(old) THEN at + Len(new) ELSE Len(old)
           /\ \A j \in 1..at : o[j] = old[j]
           /\ \A j \in 1..Len(new) : o[at + j] = new[j]
<1> DEFINE a == SubSeq(old, 1, at)
           c == SubSeq(old, at + Len(new) + 1, Len(old))
<1>1. a \in Seq(S) /\ Len(a) = at /\ \A j \in 1..at : a[j] = old[j]
  OBVIOUS
<1>2. c \in Seq(S)
  OBVIOUS
<1>3. Len(c) = IF at + Len(new) > Len(old) THEN 0 ELSE Len(old) - at - Len(new)
  OBVIOUS
<1>4. o = (a \o new) \o c
  BY DEF Overlay
<1> HIDE DEF a, c
<1> DEFINE b == a \o new
<1>5. /\ b \in Seq(S) /\ Len(new) \in Nat /\ Len(b) = at + Len(new)
      /\ \A j \in 1..at : b[j] = a[j]
      /\ \A j \in 1..Len(new) : b[at + j] = new[j]
  <2>1. a \in Seq(S) /\ new \in Seq(S)
    BY <1>1
  <2>2. /\ b \in Seq(S)
        /\ Len(a) \in Nat /\ Len(new) \in Nat /\ Len(b) = Len(a) + Len(new)
        /\ \A j \in 1..Len(a) : b[j] = a[j]
        /\ \A j \in 1..Len(new) : b[Len(a) + j] = new[j]
    BY <2>1, Concat
  <2> HIDE DEF a, b
  <2> QED BY <1>1, <2>2
<1> HIDE DEF b
<1>6. /\ o \in Seq(S) /\ Len(o) = at + Len(new) + Len(c)
      /\ \A j \in 1..(at + Len(new)) : o[j] = b[j]
  <2>1. o = b \o c /\ b \in Seq(S) /\ c \in Seq(S)
    BY <1>2, <1>4, <1>5 DEF b
  <2>2. /\ b \o c \in Seq(S) /\ Len(b \o c) = Len(b) + Len(c)
        /\ \A j \in 1..Len(b) : (b \o c)[j] = b[j]
    BY <2>1, Concat
  <2> QED BY <1>5, <2>1, <2>2
<1>7. Len(o) = IF at + Len(new) > Len(old) THEN at + Len(new) ELSE Len(old)
  <2>1. Len(old) \in Nat /\ at + Len(new) \in Nat /\ Len(c) \in Nat
    BY <1>2, <1>5
  <2>2. CASE at + Len(new) > Len(old)
    BY <1>3, <1>6, <2>1, <2>2
  <2>3. CASE ~(at + Len(new) > Len(old))
    <3>1. Len(c) = Len(old) - at - Len(new) /\ Len(new) \in Nat
      BY <1>3, <1>5, <2>3
    <3>2. at + Len(new) + Len(c) = Len(old)
      BY <2>1, <3>1
    <3> QED BY <1>6, <2>3, <3>2
  <2> QED BY <2>2, <2>3
<1>8. \A j \in 1..at : o[j] = old[j]
  BY <1>1, <1>5, <1>6
<1>9. \A j \in 1..Len(new) : o[at + j] = new[j]
  BY <1>5, <1>6
<1> QED BY <1>6, <1>7, <1>8, <1>9

LEMMA OverlayStart ==
    ASSUME NEW S, NEW old \in Seq(S), NEW new \in Seq(S)
    PROVE  /\ Overlay(old, 0, new) \in Seq(S)
           /\ Len(Overlay(old, 0, new)) =
                IF Len(new) > Len(old) THEN Len(new) ELSE Len(old)
           /\ \A j \in 1..Len(new) : Overlay(old, 0, new)[j] = new[j]
<1>1. PICK at \in Nat : at = 0 /\ at <= Len(old) /\ \A n \in Nat : at + n = n
  <2>1. Len(old) \in Nat
    OBVIOUS
  <2> QED BY <2>1
<1>2. PICK o : o = Overlay(old, at, new)
  OBVIOUS
<1>3. /\ o \in Seq(S)
      /\ Len(o) = IF at + Len(new) > Len(old) THEN at + Len(new) ELSE Len(old)
      /\ \A j \in 1..Len(new) : o[at + j] = new[j]
  BY <1>1, <1>2, OverlayFacts
<1>4. Len(new) \in Nat /\ at + Len(new) = Len(new)
  BY <1>1
<1>5. \A j \in 1..Len(new) : o[j] = new[j]
  BY <1>1, <1>3, <1>4
<1> QED BY <1>1, <1>2, <1>3, <1>4, <1>5

-----------------------------------------------------------------------------
(* The invariant holds at first. *)

LEMMA Given ==
    /\ socks_user \in 0..31 /\ socks_password \in 0..31
    /\ \A n \in Bound : n \in Nat /\ n >= 10
BY SocksAssumption

LEMMA Starts == Init => IInv
<1> SUFFICES ASSUME Init PROVE IInv
  OBVIOUS
<1>1. /\ <<>> \in Seq(Byte) /\ <<>> \in Seq(Bytes) /\ Len(<<>>) = 0 /\ DOMAIN <<>> = {}
  OBVIOUS
<1>2. speaks \in Proxies /\ proxy \in {"request", "method"}
  BY DEF Init
<1>3. TypeOK
  BY <1>1, <1>2 DEF Init, TypeOK, BUFFER, STEPS
<1>4. Types
  BY <1>1, <1>3, Given DEF Init, Types
<1>5. Opening
  BY <1>2 DEF Init, Opening
<1>6. Dialogue
  BY <1>5 DEF Init, Dialogue, Sent, Got
<1> QED BY <1>4, <1>6 DEF IInv

-----------------------------------------------------------------------------
(* The proxy's steps leave the client where it is, in a dialogue that goes on. *)

LEMMA ClientStays ==
    ASSUME Dialogue, UNCHANGED client, mud' = mud,
           \A m \in Sent : Asking(m, Size(m)) => Asking(m, Size(m))' \/ Answered(m, 0)',
           \A m \in Sent : \A n \in Nat :
               n < Size(m) /\ (Asking(m, n) \/ Silent) => Asking(m, n)' \/ Silent',
           \A m \in Sent : \A d \in Nat : Answered(m, d) => Answered(m, d)',
           Opening => Opening', Through => Through',
           datalen \in Nat, datadone \in Nat
    PROVE  Dialogue'
<1>1. /\ state' = state /\ nextstate' = nextstate /\ datalen' = datalen
      /\ datadone' = datadone /\ buffer' = buffer /\ i' = i
  BY DEF client
<1>2. state = "CONNECTED" => Opening'
  BY DEF Dialogue
<1>3. ASSUME NEW m \in Sent, Speaking(m)
      PROVE  Speaking(m)'
  <2>1. Asking(m, datadone)' \/ Silent'
    <3>1. datadone < Size(m) /\ (Asking(m, datadone) \/ Silent)
      BY <1>3 DEF Speaking
    <3>2. PICK n \in Nat : n = datadone
      OBVIOUS
    <3>3. Asking(m, n)' \/ Silent'
      BY <3>1, <3>2
    <3>4. n = datadone'
      BY <1>1, <3>2
    <3> QED BY <3>3, <3>4 DEF Asking
  <2> QED BY <1>1, <1>3, <2>1 DEF Speaking
<1>4. ASSUME NEW m \in Sent, Spoken(m)
      PROVE  Spoken(m)'
  <2>1. Asking(m, Size(m))' \/ Answered(m, 0)'
    BY <1>4 DEF Spoken
  <2> QED BY <1>1, <1>4, <2>1 DEF Spoken
<1>5. ASSUME NEW m \in Sent, Hearing(m)
      PROVE  Hearing(m)'
  <2>1. (datadone = 0 /\ Asking(m, Size(m))) \/ Answered(m, datadone)
    BY <1>5 DEF Hearing
  <2>2. PICK d \in Nat : d = datadone
    OBVIOUS
  <2>3. (d = 0 /\ Asking(m, Size(m))') \/ Answered(m, d)'
    BY <2>1, <2>2
  <2>4. d = datadone'
    BY <1>1, <2>2
  <2>5. (datadone' = 0 /\ Asking(m, Size(m))') \/ Answered(m, datadone)'
    BY <2>3, <2>4 DEF Answered
  <2> QED BY <1>1, <1>5, <2>5 DEF Hearing
<1>6. ASSUME NEW m \in Sent, Heard(m)
      PROVE  Heard(m)'
  <2>1. PICK d \in Nat : d = Reply(m).len
    BY Lengths
  <2>2. Answered(m, d)'
    BY <1>6, <2>1 DEF Heard
  <2>3. Answered(m, Reply(m).len)'
    BY <2>1, <2>2 DEF Answered
  <2> QED BY <1>1, <1>6, <2>3 DEF Heard
<1>7. state' = "CONNECTED" => Opening'
  BY <1>1, <1>2
<1>8. state' = "SENDING" => nextstate' \in Sent /\ Speaking(nextstate)'
  <2> SUFFICES ASSUME state = "SENDING" PROVE nextstate' \in Sent /\ Speaking(nextstate)'
    BY <1>1
  <2>1. PICK m \in Sent : m = nextstate /\ Speaking(m)
    BY DEF Dialogue
  <2>2. Speaking(m)' /\ m = nextstate'
    BY <1>1, <1>3, <2>1
  <2> QED BY <2>2 DEF Speaking, Asking
<1>9. state' \in Sent => Spoken(state)'
  <2> SUFFICES ASSUME state \in Sent PROVE Spoken(state)'
    BY <1>1 DEF Sent
  <2>1. PICK m \in Sent : m = state /\ Spoken(m)
    BY DEF Dialogue
  <2>2. Spoken(m)' /\ m = state'
    BY <1>1, <1>4, <2>1
  <2> QED BY <2>2 DEF Spoken, Asking, Answered
<1>10. state' = "RECEIVING" =>
         \E m \in Sent : nextstate' = Reply(m).got /\ Hearing(m)'
  BY <1>1, <1>5 DEF Dialogue
<1>11. state' \in Got => \E m \in Sent : state' = Reply(m).got /\ Heard(m)'
  BY <1>1, <1>6 DEF Dialogue
<1>12. /\ state' # "CONNFAILED"
       /\ state' # "DONE" => mud' = <<>>
       /\ state' = "DONE" => Through'
  BY <1>1 DEF Dialogue
<1> QED BY <1>7, <1>8, <1>9, <1>10, <1>11, <1>12 DEF Dialogue

\* A message the proxy understands is whole, and it is the one it waits for.
LEMMA Understanding ==
    ASSUME Types, Understood
    PROVE  /\ ~Opening /\ ~Through /\ ~Silent
           /\ \A m \in Sent : \A d : ~Answered(m, d)
           /\ \A m \in Sent : \A n \in Nat :
                Asking(m, n) => n = Size(m) /\ proxy = Stage(m)
<1>1. /\ proxy \in {"request", "method", "auth", "connect"}
      /\ to_proxy[1] = Version[proxy] /\ Whole(proxy, to_proxy)
  BY VersionFacts DEF Understood, Waiting, Foreign
<1>2. to_proxy \in Seq(Byte) /\ Len(to_proxy) \in Nat
  BY DEF Types
<1>3. Len(to_proxy) >= 2
  BY <1>1, <1>2 DEF Whole
<1>4. to_proxy # <<>>
  BY <1>3
<1>5. ~Opening /\ ~Through /\ ~Silent
  BY <1>1, <1>4 DEF Opening, Through, Silent
<1>6. \A m \in Sent : \A d : ~Answered(m, d)
  BY <1>1, <1>4 DEF Answered
<1>7. ASSUME NEW m \in Sent, NEW n \in Nat, Asking(m, n)
      PROVE  n = Size(m) /\ proxy = Stage(m)
  <2>1. Len(to_proxy) = n /\ n <= Size(m) /\ \A j \in 1..n : Fits(m, j, to_proxy[j])
    BY <1>7 DEF Asking
  <2>2. to_proxy[1] = Version[Stage(m)]
    BY <1>3, <2>1 DEF Fits
  <2>3. proxy = Stage(m)
    BY <1>1, <1>7, <2>2 DEF Asking
  <2>4. CASE m = "SENTV4REQ"
    BY <1>1, <2>1, <2>3, <2>4, MessageFacts DEF Whole
  <2>5. CASE m = "SENTV5METHOD"
    <3>1. to_proxy[2] = 2
      BY <1>3, <2>1, <2>5 DEF Fits
    <3> QED BY <1>1, <2>1, <2>3, <2>5, <3>1, MessageFacts DEF Whole
  <2>6. CASE m = "SENTV5AUTH"
    <3>1. to_proxy[2] = socks_user
      BY <1>3, <2>1, <2>6 DEF Fits
    <3>2. proxy = "auth" /\ Len(to_proxy) >= 3 + socks_user
      BY <1>1, <2>3, <2>6, <3>1, MessageFacts DEF Whole
    <3>3. to_proxy[3 + socks_user] = socks_password
      BY <2>1, <2>6, <3>2, Given DEF Fits
    <3>4. Len(to_proxy) >= 3 + socks_user + to_proxy[socks_user + 3]
      BY <1>1, <3>1, <3>2 DEF Whole
    <3>5. socks_user + 3 = 3 + socks_user
      BY Given
    <3> QED BY <2>1, <2>3, <2>6, <3>3, <3>4, <3>5, Given, MessageFacts
  <2>7. CASE m = "SENTV5CONNECT"
    BY <1>1, <2>1, <2>3, <2>7, MessageFacts DEF Whole
  <2> QED BY <2>4, <2>5, <2>6, <2>7 DEF Sent
<1> QED BY <1>5, <1>6, <1>7

\* b is no longer than the client takes the answer to m to be, but for the one
\* answer whose length the proxy chooses.
Suits(m, b, next) ==
    /\ next # "relay" \/ bound = 10 => Len(b) <= Reply(m).len
    /\ next = "relay" => Len(b) >= Reply(m).len

\* The first bytes of the answer to m, and what they mean.
LEMMA FirstAnswer ==
    ASSUME Types, NEW m \in Sent, NEW b \in Seq(Byte), NEW next, NEW end,
           Asking(m, Size(m)), Answers(b, next, end),
           next \in {"auth", "connect", "relay", "gone"},
           Len(b) >= 2, Suits(m, b, next), Verdict(m, b[2])'
    PROVE  Answered(m, 0)'
<1>1. from_proxy' = b /\ to_proxy' = <<>> /\ proxy' = next /\ bound' = bound
  BY DEF Answers, Asking, fixed
<1>2. Reply(m).len \in Nat /\ Len(b) \in Nat
  BY Lengths
<1>3. proxy' # "relay" => 0 + Len(from_proxy') <= Reply(m).len
  BY <1>1, <1>2 DEF Suits
<1>3a. proxy' = "relay" => 0 + Len(from_proxy') >= Reply(m).len
  BY <1>1, <1>2 DEF Suits
<1>4. Verdict(m, from_proxy[2 - 0])'
  <2>1. from_proxy'[2 - 0] = b[2]
    BY <1>1
  <2>2. PICK v : v = b[2]
    OBVIOUS
  <2>3. Verdict(m, v)'
    BY <2>2 DEF Verdict
  <2>4. v = from_proxy'[2 - 0]
    BY <2>1, <2>2
  <2> QED BY <2>3, <2>4 DEF Verdict
<1>5. ASSUME NEW j \in 1..Len(from_proxy')
      PROVE  /\ 0 + j <= Reply(m).len => from_proxy'[j] \in Byte
             /\ 0 + j > Reply(m).len /\ bound' = 10 => from_proxy'[j] = MUD
  BY <1>1, <1>2 DEF Suits
<1> QED BY <1>1, <1>3, <1>3a, <1>4, <1>5 DEF Answered

\* What the lists of the proxy's answers are.
LEMMA ShortAnswer ==
    ASSUME NEW r \in Byte
    PROVE  /\ <<5, r>> \in Seq(Byte) /\ Len(<<5, r>>) = 2 /\ <<5, r>>[2] = r
           /\ <<1, r>> \in Seq(Byte) /\ Len(<<1, r>>) = 2 /\ <<1, r>>[2] = r
BY DEF Byte

LEMMA LongAnswer ==
    ASSUME NEW s \in Seq(Byte), Len(s) >= 2, NEW n \in Nat
    PROVE  /\ s \o Anys(n) \in Seq(Byte) /\ Len(s \o Anys(n)) = Len(s) + n
           /\ (s \o Anys(n))[2] = s[2]
<1>1. PICK t \in Seq(Byte) : t = Anys(n) /\ Len(t) = n
  BY AnysFacts
<1>2. /\ s \o t \in Seq(Byte) /\ Len(s \o t) = Len(s) + Len(t)
      /\ (s \o t)[2] = s[2]
  BY Concat
<1> QED BY <1>1, <1>2

\* An answer keeps the types.
LEMMA AnswersTyped ==
    ASSUME Types, NEW b \in Seq(Byte), NEW next, NEW end,
           Answers(b, next, end), next \in {"auth", "connect", "relay", "gone"},
           end \in {"open", "closed"}
    PROVE  Types'
<1>1. /\ state' = state /\ nextstate' = nextstate /\ datalen' = datalen
      /\ datadone' = datadone /\ buffer' = buffer /\ i' = i /\ rc' = rc
      /\ socks_protocol' = socks_protocol /\ speaks' = speaks /\ bound' = bound
      /\ mud' = mud
  BY DEF Answers, client, fixed
<1>2. to_proxy' = <<>> /\ proxy' = next /\ line' = end /\ from_proxy' = from_proxy \o b
  BY DEF Answers
<1>3. from_proxy' \in Seq(Bytes) /\ to_proxy' \in Seq(Byte)
  <2>1. b \in Seq(Bytes)
    BY DEF Bytes
  <2> QED BY <1>2, <2>1 DEF Types
<1>4. TypeOK'
  BY <1>1, <1>2 DEF TypeOK, Types
<1> QED BY <1>1, <1>3, <1>4 DEF Types

\* It is an answer to the message the client sent.
LEMMA AnswerHeard ==
    ASSUME Types, rc = 0 => Dialogue, Understood, NEW b \in Seq(Byte), NEW next, NEW end,
           Answers(b, next, end), next \in {"auth", "connect", "relay", "gone"},
           end \in {"open", "closed"}, Len(b) >= 2,
           \A m \in Sent : proxy = Stage(m) => Suits(m, b, next) /\ Verdict(m, b[2])'
    PROVE  IInv'
<1>1. UNCHANGED client /\ mud' = mud /\ rc' = rc /\ datalen \in Nat /\ datadone \in Nat
  BY DEF Answers, client, Types
<1>2. \A m \in Sent : Asking(m, Size(m)) => Answered(m, 0)'
  <2> SUFFICES ASSUME NEW m \in Sent, Asking(m, Size(m)) PROVE Answered(m, 0)'
    OBVIOUS
  <2>1. proxy = Stage(m)
    <3>1. PICK n \in Nat : n = Size(m)
      BY Lengths
    <3>2. Asking(m, n)
      BY <3>1
    <3> QED BY <3>2, Understanding
  <2> QED BY <2>1, FirstAnswer
<1>3. \A m \in Sent : \A n \in Nat : n < Size(m) /\ (Asking(m, n) \/ Silent) => FALSE
  BY Understanding, Lengths
<1>4. rc = 0 => Dialogue'
  BY <1>1, <1>2, <1>3, Understanding, ClientStays
<1> QED BY <1>1, <1>4, AnswersTyped DEF IInv

LEMMA ProxyKeeps == IInv /\ Proxy => IInv'
<1> SUFFICES ASSUME IInv, Proxy PROVE IInv'
  OBVIOUS
<1>0. Types /\ (rc = 0 => Dialogue) /\ bound \in Nat /\ bound >= 10
  BY Given DEF IInv, Types, TypeOK
<1>0a. \A n \in 0..255 : n \in Byte
  BY DEF Byte
<1>1. ASSUME NEW result \in {90, 91}, Answers4(result)
      PROVE  IInv'
  <2>0. PICK b : b = <<0, result>> \o Anys(6)
    OBVIOUS
  <2>1. b \in Seq(Byte) /\ Len(b) = 8 /\ b[2] = result
    <3>1. PICK s : s = <<0, result>>
      OBVIOUS
    <3>2. s \in Seq(Byte) /\ Len(s) = 2 /\ s[2] = result
      BY <1>0a, <3>1
    <3>3. s \in Seq(Byte) /\ Len(s) >= 2
      BY <3>2
    <3>4. s \o Anys(6) \in Seq(Byte)
      BY <3>3, LongAnswer
    <3>5. Len(s \o Anys(6)) = Len(s) + 6
      BY <3>3, LongAnswer
    <3>6. (s \o Anys(6))[2] = s[2]
      BY <3>3, LongAnswer
    <3>7. b = s \o Anys(6)
      BY <2>0, <3>1
    <3>8. Len(s \o Anys(6)) = 8
      BY <3>2, <3>5
    <3>9. (s \o Anys(6))[2] = result
      BY <3>2, <3>6
    <3> QED BY <3>4, <3>7, <3>8, <3>9
  <2>2. PICK next, end : /\ Answers(b, next, end) /\ end \in {"open", "closed"}
                         /\ next = IF result = 90 THEN "relay" ELSE "gone"
    <3>1. CASE result = 90
      <4>1. Answers(b, "relay", "open")
        BY <1>1, <2>0, <3>1 DEF Answers4
      <4> QED BY <3>1, <4>1
    <3>2. CASE result = 91
      <4>1. Answers(b, "gone", "closed")
        BY <1>1, <2>0, <3>2 DEF Answers4
      <4> QED BY <3>2, <4>1
    <3> QED BY <3>1, <3>2
  <2>3. proxy' = next
    BY <2>2 DEF Answers
  <2>4. \A m \in Sent : proxy = Stage(m) => m = "SENTV4REQ"
    BY <1>1, MessageFacts DEF Answers4, Sent
  <2>5. Verdict("SENTV4REQ", b[2])'
    BY <2>1, <2>2, <2>3 DEF Verdict
  <2>6. \A m \in Sent : proxy = Stage(m) => Suits(m, b, next) /\ Verdict(m, b[2])'
    BY <2>1, <2>4, <2>5, ReplyFacts DEF Suits
  <2>7. Understood /\ next \in {"auth", "connect", "relay", "gone"}
    BY <1>1, <2>2 DEF Answers4
  <2> QED BY <1>0, <2>1, <2>2, <2>6, <2>7, AnswerHeard
<1>2. ASSUME NEW m \in Methods, ChoosesMethod(m)
      PROVE  IInv'
  <2> DEFINE b == <<5, m>>
  <2>0. m \in {0, 2, 255}
    BY SocksAssumption
  <2>1. b \in Seq(Byte) /\ Len(b) = 2 /\ b[2] = m
    BY <1>0a, <2>0, ShortAnswer
  <2> HIDE DEF b
  <2>2. PICK next, end : /\ Answers(b, next, end) /\ end \in {"open", "closed"}
                         /\ next \in {"auth", "connect", "gone"}
                         /\ m = 2 => next = "auth"
                         /\ m = 0 => next = "connect"
    <3>1. CASE m = 255
      BY <1>2, <3>1 DEF ChoosesMethod, b
    <3>2. CASE m = 2
      BY <1>2, <3>2 DEF ChoosesMethod, b
    <3>3. CASE m = 0
      BY <1>2, <3>3 DEF ChoosesMethod, b
    <3> QED BY <2>0, <3>1, <3>2, <3>3
  <2>3. proxy' = next
    BY <2>2 DEF Answers
  <2>4. \A k \in Sent : proxy = Stage(k) => k = "SENTV5METHOD"
    BY <1>2, MessageFacts DEF ChoosesMethod, Sent
  <2>5. Verdict("SENTV5METHOD", b[2])'
    BY <2>0, <2>1, <2>2, <2>3 DEF Verdict
  <2>6. \A k \in Sent : proxy = Stage(k) => Suits(k, b, next) /\ Verdict(k, b[2])'
    BY <2>1, <2>4, <2>5, ReplyFacts DEF Suits
  <2>7. Understood /\ next \in {"auth", "connect", "relay", "gone"}
    BY <1>2, <2>2, <2>3 DEF ChoosesMethod
  <2> QED BY <1>0, <2>1, <2>2, <2>6, <2>7, AnswerHeard
<1>3. ASSUME NEW status \in {0, 1}, ChecksCredentials(status)
      PROVE  IInv'
  <2> DEFINE b == <<1, status>>
  <2>1. b \in Seq(Byte) /\ Len(b) = 2 /\ b[2] = status
    BY <1>0a, ShortAnswer
  <2> HIDE DEF b
  <2>2. PICK next, end : /\ Answers(b, next, end) /\ end \in {"open", "closed"}
                         /\ next = IF status = 0 THEN "connect" ELSE "gone"
    <3>1. CASE status = 0
      <4>1. Answers(b, "connect", "open")
        BY <1>3, <3>1 DEF ChecksCredentials, b
      <4> QED BY <3>1, <4>1
    <3>2. CASE status = 1
      <4>1. Answers(b, "gone", "closed")
        BY <1>3, <3>2 DEF ChecksCredentials, b
      <4> QED BY <3>2, <4>1
    <3> QED BY <3>1, <3>2
  <2>3. proxy' = next
    BY <2>2 DEF Answers
  <2>4. \A m \in Sent : proxy = Stage(m) => m = "SENTV5AUTH"
    BY <1>3, MessageFacts DEF ChecksCredentials, Sent
  <2>5. Verdict("SENTV5AUTH", b[2])'
    BY <2>1, <2>2, <2>3 DEF Verdict
  <2>6. \A m \in Sent : proxy = Stage(m) => Suits(m, b, next) /\ Verdict(m, b[2])'
    BY <2>1, <2>4, <2>5, ReplyFacts DEF Suits
  <2>7. Understood /\ next \in {"auth", "connect", "relay", "gone"}
    BY <1>3, <2>2 DEF ChecksCredentials
  <2> QED BY <1>0, <2>1, <2>2, <2>6, <2>7, AnswerHeard
<1>4. ASSUME NEW reply \in {0, 5}, Answers5(reply)
      PROVE  IInv'
  <2>4. \A m \in Sent : proxy = Stage(m) => m = "SENTV5CONNECT"
    BY <1>4, MessageFacts DEF Answers5, Sent
  <2>6. CASE reply = 0
    <3>0. PICK b : b = <<5, reply, 0, 1>> \o Anys(bound - 4)
      OBVIOUS
    <3>1. b \in Seq(Byte) /\ Len(b) = bound /\ b[2] = reply
      <4>1. PICK n \in Nat : n = bound - 4 /\ 4 + n = bound
        BY <1>0
      <4>2. PICK s : s = <<5, reply, 0, 1>>
        OBVIOUS
      <4>3. s \in Seq(Byte) /\ Len(s) = 4 /\ s[2] = reply
        BY <1>0a, <4>2
      <4>4. /\ s \o Anys(n) \in Seq(Byte) /\ Len(s \o Anys(n)) = Len(s) + n
            /\ (s \o Anys(n))[2] = s[2]
        <5>1. s \in Seq(Byte) /\ Len(s) >= 2
          BY <4>3
        <5> QED BY <5>1, LongAnswer
      <4> QED BY <3>0, <4>1, <4>2, <4>3, <4>4
    <3>2. Answers(b, "relay", "open")
      BY <1>4, <2>6, <3>0 DEF Answers5
    <3>3. Verdict("SENTV5CONNECT", b[2])'
      BY <3>2 DEF Verdict, Answers
    <3>4. \A m \in Sent : proxy = Stage(m) => Suits(m, b, "relay") /\ Verdict(m, b[2])'
      BY <1>0, <2>4, <3>1, <3>3, ReplyFacts DEF Suits
    <3>5. Understood
      BY <1>4 DEF Answers5
    <3>6. Len(b) >= 2
      BY <1>0, <3>1
    <3> QED BY <1>0, <3>1, <3>2, <3>4, <3>5, <3>6, AnswerHeard
  <2>7. CASE reply = 5
    <3>0. PICK b : b = <<5, reply, 0, 1>> \o Anys(6)
      OBVIOUS
    <3>1. b \in Seq(Byte) /\ Len(b) = 10 /\ b[2] = reply
      <4>2. PICK s : s = <<5, reply, 0, 1>>
        OBVIOUS
      <4>3. s \in Seq(Byte) /\ Len(s) = 4 /\ s[2] = reply
        BY <1>0a, <4>2
      <4>4. /\ s \o Anys(6) \in Seq(Byte) /\ Len(s \o Anys(6)) = Len(s) + 6
            /\ (s \o Anys(6))[2] = s[2]
        <5>1. s \in Seq(Byte) /\ Len(s) >= 2
          BY <4>3
        <5> QED BY <5>1, LongAnswer
      <4> QED BY <3>0, <4>2, <4>3, <4>4
    <3>2. Answers(b, "gone", "closed")
      BY <1>4, <2>7, <3>0 DEF Answers5
    <3>3. Verdict("SENTV5CONNECT", b[2])'
      BY <2>7, <3>1 DEF Verdict
    <3>4. \A m \in Sent : proxy = Stage(m) => Suits(m, b, "gone") /\ Verdict(m, b[2])'
      BY <2>4, <3>1, <3>3, ReplyFacts DEF Suits
    <3>5. Understood
      BY <1>4 DEF Answers5
    <3>6. Len(b) >= 2
      BY <1>0, <3>1
    <3> QED BY <1>0, <3>1, <3>2, <3>4, <3>5, <3>6, AnswerHeard
  <2> QED BY <2>6, <2>7
<1>5. ASSUME Misunderstood
      PROVE  IInv'
  <2>1. Answers(<<>>, "gone", "closed") /\ <<>> \in Seq(Byte)
    BY <1>5 DEF Misunderstood
  <2>2. Types'
    BY <1>0, <2>1, AnswersTyped
  <2>3. UNCHANGED client /\ mud' = mud /\ rc' = rc /\ datalen \in Nat /\ datadone \in Nat
    BY <1>0, <2>1 DEF Answers, client, Types
  <2>4. to_proxy # <<>> /\ proxy \in {"request", "method", "auth", "connect"}
    BY <1>5, VersionFacts DEF Misunderstood, Waiting
  <2>5. ~Opening /\ ~Through /\ ~Silent /\ \A m \in Sent : \A d : ~Answered(m, d)
    BY <2>4 DEF Opening, Through, Silent, Answered
  <2>6. ASSUME NEW m \in Sent, NEW n \in Nat, Asking(m, n)
        PROVE  Answered(m, 0)' /\ Silent'
    <3>1. proxy' = "gone" /\ from_proxy' = <<>>
      BY <2>1, <2>6 DEF Answers, Asking
    <3> QED BY <3>1, Lengths DEF Answered, Silent
  <2>7. rc = 0 => Dialogue'
    BY <1>0, <2>3, <2>5, <2>6, ClientStays, Lengths
  <2> QED BY <2>2, <2>3, <2>7 DEF IInv
<1> QED BY <1>1, <1>2, <1>3, <1>4, <1>5 DEF Proxy

-----------------------------------------------------------------------------
(* The mud comes through, and the line breaks. *)

LEMMA RelaysKeeps == IInv /\ Relays => IInv'
<1> SUFFICES ASSUME IInv, Relays PROVE IInv'
  OBVIOUS
<1>1. /\ UNCHANGED client /\ mud' = mud /\ rc' = rc /\ bound' = bound
      /\ proxy = "relay" /\ proxy' = proxy /\ to_proxy' = to_proxy /\ line' = line
      /\ from_proxy' = Append(from_proxy, MUD)
      /\ socks_protocol' = socks_protocol /\ speaks' = speaks
  BY DEF Relays, client, fixed
<1>2. /\ state' = state /\ nextstate' = nextstate /\ datalen' = datalen
      /\ datadone' = datadone /\ buffer' = buffer /\ i' = i
  BY <1>1 DEF client
<1>3. from_proxy \in Seq(Bytes) /\ MUD \in Bytes /\ datalen \in Nat /\ datadone \in Nat
  BY DEF IInv, Types, Bytes
<1>4. PICK k \in Nat : k = Len(from_proxy)
  BY <1>3
<1>5. /\ from_proxy' \in Seq(Bytes) /\ Len(from_proxy') = k + 1
      /\ \A j \in 1..k : from_proxy'[j] = from_proxy[j]
      /\ from_proxy'[k + 1] = MUD
  BY <1>1, <1>3, <1>4
<1>6. Types'
  <2>1. TypeOK'
    BY <1>1, <1>2 DEF IInv, Types, TypeOK
  <2> QED BY <1>1, <1>2, <1>5, <2>1 DEF IInv, Types
<1>7. \A m \in Sent : ~Asking(m, Size(m))
  BY <1>1, VersionFacts DEF Asking
<1>8. \A m \in Sent : \A n \in Nat : ~Asking(m, n) /\ ~Silent /\ ~Opening
  BY <1>1, VersionFacts DEF Asking, Silent, Opening
<1>9. Through => Through'
  <2> SUFFICES ASSUME Through PROVE Through'
    OBVIOUS
  <2>1. bound = 10 => \A j \in 1..Len(from_proxy') : from_proxy'[j] = MUD
    BY <1>4, <1>5 DEF Through
  <2> QED BY <1>1, <2>1 DEF Through
<1>10. ASSUME NEW m \in Sent, NEW d \in Nat, Answered(m, d), line = "open"
       PROVE  Answered(m, d)'
  <2>1. PICK r \in Nat : r = Reply(m).len /\ r >= 2 /\ d + k >= r
    BY <1>1, <1>4, <1>10, Lengths DEF Answered
  <2>2. d + Len(from_proxy') >= r
    BY <1>4, <1>5, <2>1
  <2>3. d >= 2 => Verdict(m, buffer[2])'
    <3>1. PICK b : b = buffer[2]
      OBVIOUS
    <3>2. d >= 2 => Verdict(m, b)'
      BY <1>1, <1>10, <3>1 DEF Answered, Verdict
    <3> QED BY <1>2, <3>1, <3>2 DEF Verdict
  <2>4. ASSUME d < 2
        PROVE  Verdict(m, from_proxy[2 - d])'
    <3>1. 2 - d \in 1..k /\ d + k >= 2
      BY <1>4, <2>1, <2>4
    <3>2. from_proxy'[2 - d] = from_proxy[2 - d] /\ Verdict(m, from_proxy[2 - d])
      BY <1>4, <1>5, <1>10, <2>4, <3>1 DEF Answered
    <3> QED BY <1>1, <3>2 DEF Verdict
  <2>5. ASSUME NEW j \in 1..Len(from_proxy')
        PROVE  /\ d + j <= r => from_proxy'[j] \in Byte
               /\ d + j > r /\ bound' = 10 => from_proxy'[j] = MUD
    <3>1. CASE j \in 1..k
      BY <1>1, <1>4, <1>5, <1>10, <2>1, <3>1 DEF Answered
    <3>2. CASE j = k + 1
      BY <1>4, <1>5, <2>1, <3>2
    <3> QED BY <1>4, <1>5, <2>5, <3>1, <3>2
  <2> QED BY <1>1, <1>2, <2>1, <2>2, <2>3, <2>4, <2>5 DEF Answered
<1>11. rc = 0 => Dialogue'
  <2>1. line = "open"
    BY DEF Relays
  <2>2. \A m \in Sent : \A d \in Nat : Answered(m, d) => Answered(m, d)'
    BY <1>10, <2>1
  <2>3. \A m \in Sent : Asking(m, Size(m)) => Asking(m, Size(m))' \/ Answered(m, 0)'
    BY <1>7
  <2>4. \A m \in Sent : \A n \in Nat :
           n < Size(m) /\ (Asking(m, n) \/ Silent) => Asking(m, n)' \/ Silent'
    BY <1>8
  <2>5. ~Opening
    BY <1>1 DEF Opening
  <2> QED BY <1>1, <1>3, <1>9, <2>2, <2>3, <2>4, <2>5, ClientStays DEF IInv
<1> QED BY <1>1, <1>6, <1>11 DEF IInv

LEMMA BreaksKeeps == IInv /\ Breaks => IInv'
<1> SUFFICES ASSUME IInv, Breaks PROVE IInv'
  OBVIOUS
<1>1. /\ UNCHANGED client /\ mud' = mud /\ rc' = rc /\ bound' = bound
      /\ to_proxy' = to_proxy /\ line' \in {"closed", "reset"}
      /\ proxy' = (IF proxy = "relay" THEN "relay" ELSE "gone")
      /\ from_proxy' = <<>> \/ from_proxy' = from_proxy
      /\ socks_protocol' = socks_protocol /\ speaks' = speaks
  BY DEF Breaks, client, fixed
<1>2. /\ state' = state /\ nextstate' = nextstate /\ datalen' = datalen
      /\ datadone' = datadone /\ buffer' = buffer /\ i' = i
  BY <1>1 DEF client
<1>3. from_proxy \in Seq(Bytes) /\ datalen \in Nat /\ datadone \in Nat
  BY DEF IInv, Types
<1>4. Types'
  <2>1. TypeOK'
    BY <1>1, <1>2 DEF IInv, Types, TypeOK
  <2>2. from_proxy' \in Seq(Bytes)
    <3>1. <<>> \in Seq(Bytes)
      OBVIOUS
    <3> QED BY <1>1, <1>3, <3>1
  <2> QED BY <1>1, <1>2, <2>1, <2>2 DEF IInv, Types
<1>5. ASSUME NEW m \in Sent, NEW n \in Nat, Asking(m, n)
      PROVE  Answered(m, 0)' /\ Silent'
  <2>1. proxy' = "gone" /\ from_proxy' = <<>>
    BY <1>1, <1>5, VersionFacts DEF Asking
  <2> QED BY <2>1, Lengths DEF Answered, Silent
<1>6. Silent => Silent'
  BY <1>1 DEF Silent
<1>7. Opening => Opening'
  BY <1>1, <1>2 DEF Opening
<1>8. Through => Through'
  <2>1. CASE from_proxy' = <<>>
    BY <1>1, <2>1 DEF Through
  <2>2. CASE from_proxy' = from_proxy
    BY <1>1, <2>2 DEF Through
  <2> QED BY <1>1, <2>1, <2>2
<1>9. ASSUME NEW m \in Sent, NEW d \in Nat, Answered(m, d)
      PROVE  Answered(m, d)'
  <2>0. Reply(m).len \in Nat /\ Len(from_proxy) \in Nat
    BY <1>3, Lengths
  <2>1. /\ proxy' \in {"relay", "gone"} /\ (proxy' = "relay" <=> proxy = "relay")
        /\ \A b : Verdict(m, b) => Verdict(m, b)'
    BY <1>1, <1>9 DEF Answered, Verdict
  <2>2. d >= 2 => Verdict(m, buffer[2])'
    <3>1. PICK b : b = buffer[2]
      OBVIOUS
    <3> QED BY <1>2, <1>9, <2>1, <3>1 DEF Answered, Verdict
  <2>3. CASE from_proxy' = <<>>
    <3>1. d < 2 => ~(d + Len(from_proxy') >= 2)
      BY <2>3
    <3>2. proxy' # "relay" => d + Len(from_proxy') <= Reply(m).len
      BY <1>9, <2>0, <2>1, <2>3 DEF Answered
    <3>3. \A j \in 1..Len(from_proxy') : FALSE
      BY <2>3
    <3> QED BY <1>1, <2>1, <2>2, <3>1, <3>2, <3>3 DEF Answered
  <2>4. CASE from_proxy' = from_proxy
    <3>1. d < 2 /\ d + Len(from_proxy') >= 2 => Verdict(m, from_proxy[2 - d])'
      <4>1. PICK b : b = from_proxy[2 - d]
        OBVIOUS
      <4> QED BY <1>9, <2>1, <2>4, <4>1 DEF Answered, Verdict
    <3> QED BY <1>1, <1>9, <2>1, <2>2, <2>4, <3>1 DEF Answered
  <2> QED BY <1>1, <2>3, <2>4
<1>10. rc = 0 => Dialogue'
  <2>1. \A m \in Sent : Asking(m, Size(m)) => Answered(m, 0)'
    BY <1>5, Lengths
  <2>2. \A m \in Sent : \A n \in Nat :
           n < Size(m) /\ (Asking(m, n) \/ Silent) => Silent'
    BY <1>5, <1>6
  <2> QED BY <1>1, <1>3, <1>7, <1>8, <1>9, <2>1, <2>2, ClientStays DEF IInv
<1> QED BY <1>1, <1>4, <1>10 DEF IInv

\* Until the handshake is over, it is in one of its first twelve iterations.
LEMMA Early ==
    ASSUME IInv, rc = 0, state # "DONE"
    PROVE  i \in 0..12
<1>1. Dialogue /\ state # "CONNFAILED" /\ TypeOK /\ i \in Nat
  BY DEF IInv, Dialogue, Types
<1>2. state \in {"CONNECTED", "SENDING", "RECEIVING"} \cup Sent \cup Got
  BY <1>1 DEF TypeOK
<1>3. CASE state = "CONNECTED"
  BY <1>1, <1>3 DEF Dialogue, Opening
<1>4. CASE state = "SENDING"
  BY <1>1, <1>4, Lengths DEF Dialogue, Speaking
<1>5. CASE state \in Sent
  BY <1>1, <1>5, Lengths DEF Dialogue, Spoken
<1>6. CASE state = "RECEIVING"
  BY <1>1, <1>6, Lengths DEF Dialogue, Hearing
<1>7. CASE state \in Got
  BY <1>1, <1>7, Lengths DEF Dialogue, Heard
<1> QED BY <1>2, <1>3, <1>4, <1>5, <1>6, <1>7

\* The session reads: the handshake is over, and was granted.
LEMMA Over ==
    ASSUME IInv, rc = 0
    PROVE  Returned => state = "DONE" /\ Through
<1>1. Dialogue /\ state # "CONNFAILED"
  BY DEF IInv, Dialogue
<1>2. state = "DONE" => Through
  BY <1>1 DEF Dialogue
<1>3. state # "DONE" => i < STEPS
  BY Early DEF STEPS
<1> QED BY <1>1, <1>2, <1>3 DEF Returned, Looping

LEMMA ReadMudKeeps == IInv /\ ReadMud => IInv'
<1> SUFFICES ASSUME IInv, ReadMud PROVE IInv'
  OBVIOUS
<1>1. /\ rc = 0 /\ rc' = rc /\ state' = state /\ nextstate' = nextstate
      /\ datalen' = datalen /\ datadone' = datadone /\ buffer' = buffer /\ i' = i
      /\ to_proxy' = to_proxy /\ line' = line /\ proxy' = proxy
      /\ socks_protocol' = socks_protocol /\ speaks' = speaks /\ bound' = bound
  BY DEF ReadMud, client, fixed
<1>2. state = "DONE" /\ Through
  BY <1>1, Over DEF ReadMud
<1>3. /\ from_proxy \in Seq(Bytes) /\ from_proxy # <<>> /\ mud \in Seq(Bytes)
      /\ from_proxy' = Tail(from_proxy) /\ mud' = Append(mud, Head(from_proxy))
  BY DEF ReadMud, IInv, Types
<1>4. PICK n \in Nat : n = Len(from_proxy) /\ n >= 1 /\ Head(from_proxy) = from_proxy[1]
  BY <1>3
<1>5. /\ from_proxy' \in Seq(Bytes) /\ Len(from_proxy') = n - 1
      /\ \A j \in 1..n - 1 : from_proxy'[j] = from_proxy[j + 1]
  BY <1>3, <1>4
<1>6. PICK k \in Nat : k = Len(mud)
  BY <1>3
<1>7. from_proxy[1] \in Bytes
  BY <1>3, <1>4
<1>8. /\ mud' \in Seq(Bytes) /\ Len(mud') = k + 1 /\ mud'[k + 1] = from_proxy[1]
      /\ \A j \in 1..k : mud'[j] = mud[j]
  BY <1>3, <1>4, <1>6, <1>7
<1>9. TypeOK'
  BY <1>1 DEF IInv, Types, TypeOK
<1>10. Types'
  BY <1>1, <1>5, <1>8, <1>9 DEF IInv, Types
<1>11. ASSUME bound = 10
       PROVE  /\ \A j \in 1..n - 1 : from_proxy'[j] = MUD
              /\ \A j \in 1..k + 1 : mud'[j] = MUD
  <2>1. \A j \in 1..n : from_proxy[j] = MUD
    BY <1>2, <1>4, <1>11 DEF Through
  <2>2. \A j \in 1..k : mud[j] = MUD
    BY <1>2, <1>6, <1>11 DEF Through
  <2>3. \A j \in 1..n - 1 : j + 1 \in 1..n
    BY <1>4
  <2>4. \A j \in 1..n - 1 : from_proxy'[j] = MUD
    BY <1>5, <2>1, <2>3
  <2>5. from_proxy[1] = MUD
    BY <1>4, <2>1
  <2>6. \A j \in 1..k + 1 : j \in 1..k \/ j = k + 1
    OBVIOUS
  <2> QED BY <1>8, <2>2, <2>4, <2>5, <2>6
<1>12. Through'
  BY <1>1, <1>2, <1>5, <1>8, <1>11 DEF Through
<1>13. Dialogue'
  BY <1>1, <1>2, <1>12 DEF Dialogue, Sent, Got
<1> QED BY <1>10, <1>13 DEF IInv

-----------------------------------------------------------------------------
(* The client's steps. *)

\* What the steps of the client that do not touch the line leave alone.
LEMMA Quiet ==
    ASSUME OnlyClient
    PROVE  /\ to_proxy' = to_proxy /\ from_proxy' = from_proxy /\ line' = line
           /\ proxy' = proxy /\ mud' = mud /\ bound' = bound
           /\ socks_protocol' = socks_protocol /\ speaks' = speaks
           /\ \A m, n : Asking(m, n)' <=> Asking(m, n)
           /\ Silent' <=> Silent
BY DEF OnlyClient, fixed, Asking, Silent

\* A message written from the start of the buffer.
LEMMA Written ==
    ASSUME Types, NEW m \in Sent, NEW b \in Seq(Byte), Sending(b, m),
           Len(b) = Size(m), \A j \in 1..Len(b) : Fits(m, j, b[j]),
           i' = i + 1, i + 1 <= Turn(m), OnlyClient,
           Asking(m, 0) \/ Silent, mud = <<>>, rc = 0
    PROVE  IInv'
<1>1. /\ state' = "SENDING" /\ nextstate' = m /\ datalen' = Len(b) /\ datadone' = 0
      /\ buffer' = Overlay(buffer, 0, b) /\ rc' = rc
  BY DEF Sending
<1>2. /\ buffer \in Seq(Byte) /\ Len(buffer) \in Nat /\ Len(buffer) <= BUFFER
      /\ i \in Nat /\ Len(b) \in Nat /\ Len(b) >= 3 /\ Len(b) <= 65
  BY Lengths DEF Types, TypeOK
<1>3. /\ buffer' \in Seq(Byte)
      /\ Len(buffer') = IF Len(b) > Len(buffer) THEN Len(b) ELSE Len(buffer)
      /\ \A j \in 1..Len(b) : buffer'[j] = b[j]
  BY <1>1, <1>2, OverlayStart
<1>4. Len(buffer') <= BUFFER /\ Len(b) <= Len(buffer') /\ Len(buffer') \in Nat
  <2>1. CASE Len(b) > Len(buffer)
    BY <1>2, <1>3, <2>1 DEF BUFFER
  <2>2. CASE ~(Len(b) > Len(buffer))
    BY <1>2, <1>3, <2>2
  <2> QED BY <2>1, <2>2
<1>5. \A j \in 1..Len(b) : buffer'[j] = b[j]
  BY <1>3
<1>6. i' \in Nat /\ i' <= Turn(m) /\ i' \in 0..STEPS
  BY <1>2, Lengths DEF STEPS
<1>7. \A j \in DOMAIN buffer' : buffer'[j] \in Byte
  BY <1>3
<1>8. TypeOK'
  BY <1>1, <1>2, <1>4, <1>6, <1>7, Quiet DEF Types, TypeOK, Sent
<1>9. Types'
  BY <1>1, <1>2, <1>3, <1>6, <1>8, Quiet DEF Types
<1>10. Speaking(m)'
  <2>1. Asking(m, 0)' \/ Silent'
    BY Quiet
  <2>2. Asking(m, datadone)' \/ Silent'
    BY <1>1, <2>1 DEF Asking
  <2>3. \A j \in 1..datalen' : Fits(m, j, buffer[j])'
    BY <1>1, <1>5 DEF Fits
  <2>4. datalen' = Size(m) /\ datadone' < datalen'
    BY <1>1, <1>2
  <2> QED BY <1>6, <2>2, <2>3, <2>4 DEF Speaking
<1>11. Speaking(nextstate)'
  BY <1>1, <1>10 DEF Speaking, Asking
<1>12. Dialogue'
  BY <1>1, <1>11, Quiet DEF Dialogue, Sent, Got
<1> QED BY <1>9, <1>12 DEF IInv

\* The four messages: their lengths, and the bytes the proxy goes by.
LEMMA Request ==
    LET b == <<4, 1>> \o Anys(6) \o <<0>>
    IN  b \in Seq(Byte) /\ Len(b) = 9 /\ b[1] = 4
<1>1. PICK s : s = <<4, 1>>
  OBVIOUS
<1>2. s \in Seq(Byte) /\ Len(s) = 2 /\ s[1] = 4
  BY <1>1 DEF Byte
<1>3. PICK t \in Seq(Byte) : t = Anys(6) /\ Len(t) = 6
  BY AnysFacts
<1>4. PICK u : u = <<0>>
  OBVIOUS
<1>5. u \in Seq(Byte) /\ Len(u) = 1
  BY <1>4 DEF Byte
<1>6. PICK v : v = s \o t
  OBVIOUS
<1>7. v \in Seq(Byte) /\ Len(v) = Len(s) + Len(t) /\ \A j \in 1..Len(s) : v[j] = s[j]
  <2>1. s \in Seq(Byte) /\ t \in Seq(Byte)
    BY <1>2, <1>3
  <2> QED BY <1>6, <2>1, Concat
<1>8. Len(v) = 8 /\ v[1] = 4
  BY <1>2, <1>3, <1>7
<1>9. PICK w : w = v \o u
  OBVIOUS
<1>10. w \in Seq(Byte) /\ Len(w) = Len(v) + Len(u) /\ \A j \in 1..Len(v) : w[j] = v[j]
  <2>1. v \in Seq(Byte) /\ u \in Seq(Byte)
    BY <1>5, <1>7
  <2> QED BY <1>9, <2>1, Concat
<1>11. Len(w) = 9 /\ w[1] = 4
  BY <1>5, <1>8, <1>10
<1> QED BY <1>1, <1>3, <1>4, <1>6, <1>9, <1>10, <1>11

LEMMA MethodRequest ==
    LET b == <<5, 2, 0, 2>>
    IN  b \in Seq(Byte) /\ Len(b) = 4 /\ b[1] = 5 /\ b[2] = 2
BY DEF Byte

LEMMA ConnectRequest ==
    LET b == <<5, 1, 0, 1>> \o Anys(6)
    IN  b \in Seq(Byte) /\ Len(b) = 10 /\ b[1] = 5
<1>1. PICK s : s = <<5, 1, 0, 1>>
  OBVIOUS
<1>2. s \in Seq(Byte) /\ Len(s) = 4 /\ s[1] = 5
  BY <1>1 DEF Byte
<1>3. PICK t \in Seq(Byte) : t = Anys(6) /\ Len(t) = 6
  BY AnysFacts
<1>6. PICK v : v = s \o t
  OBVIOUS
<1>7. v \in Seq(Byte) /\ Len(v) = Len(s) + Len(t) /\ \A j \in 1..Len(s) : v[j] = s[j]
  <2>1. s \in Seq(Byte) /\ t \in Seq(Byte)
    BY <1>2, <1>3
  <2> QED BY <1>6, <2>1, Concat
<1>8. Len(v) = 10 /\ v[1] = 5
  BY <1>2, <1>3, <1>7
<1> QED BY <1>1, <1>3, <1>6, <1>7, <1>8

LEMMA CredentialBytes ==
    /\ Credentials \in Seq(Byte) /\ Len(Credentials) = 3 + socks_user + socks_password
    /\ Credentials[1] = 1 /\ Credentials[2] = socks_user
    /\ Credentials[3 + socks_user] = socks_password
<1>1. PICK u \in Nat, p \in Nat : u = socks_user /\ p = socks_password /\ u <= 31 /\ p <= 31
  BY Given
<1>2. PICK s : s = <<1, u>>
  OBVIOUS
<1>3. s \in Seq(Byte) /\ Len(s) = 2 /\ s[1] = 1 /\ s[2] = u
  BY <1>1, <1>2 DEF Byte
<1>4. PICK t \in Seq(Byte) : t = Anys(u) /\ Len(t) = u
  BY AnysFacts
<1>5. PICK q : q = <<p>>
  OBVIOUS
<1>6. q \in Seq(Byte) /\ Len(q) = 1 /\ q[1] = p
  BY <1>1, <1>5 DEF Byte
<1>7. PICK r \in Seq(Byte) : r = Anys(p) /\ Len(r) = p
  BY AnysFacts
<1>8. PICK v : v = s \o t
  OBVIOUS
<1>9. v \in Seq(Byte) /\ Len(v) = Len(s) + Len(t) /\ \A j \in 1..Len(s) : v[j] = s[j]
  <2>1. s \in Seq(Byte) /\ t \in Seq(Byte)
    BY <1>3, <1>4
  <2> QED BY <1>8, <2>1, Concat
<1>10. Len(v) = 2 + u /\ v[1] = 1 /\ v[2] = u
  BY <1>3, <1>4, <1>9
<1>11. PICK w : w = v \o q
  OBVIOUS
<1>12. /\ w \in Seq(Byte) /\ Len(w) = Len(v) + Len(q)
       /\ \A j \in 1..Len(v) : w[j] = v[j]
       /\ \A j \in 1..Len(q) : w[Len(v) + j] = q[j]
  <2>1. v \in Seq(Byte) /\ q \in Seq(Byte)
    BY <1>6, <1>9
  <2> QED BY <1>11, <2>1, Concat
<1>13. Len(w) = 3 + u /\ w[1] = 1 /\ w[2] = u
  BY <1>6, <1>10, <1>12
<1>14. w[3 + u] = p
  <2>1. w[Len(v) + 1] = q[1]
    BY <1>6, <1>12
  <2>2. Len(v) + 1 = 3 + u
    BY <1>10
  <2> QED BY <1>6, <2>1, <2>2
<1>15. PICK z : z = w \o r
  OBVIOUS
<1>16. z \in Seq(Byte) /\ Len(z) = Len(w) + Len(r) /\ \A j \in 1..Len(w) : z[j] = w[j]
  <2>1. w \in Seq(Byte) /\ r \in Seq(Byte)
    BY <1>7, <1>12
  <2> QED BY <1>15, <2>1, Concat
<1>17. Len(z) = 3 + u + p /\ z[1] = 1 /\ z[2] = u /\ z[3 + u] = p
  BY <1>7, <1>13, <1>14, <1>16
<1>18. Credentials = z
  BY <1>1, <1>2, <1>4, <1>5, <1>7, <1>8, <1>11, <1>15 DEF Credentials
<1> QED BY <1>1, <1>16, <1>17, <1>18

LEMMA Asks ==
    ASSUME NEW m \in Sent, to_proxy = <<>>, from_proxy = <<>>,
           \/ proxy = "gone"
           \/ /\ proxy \in DOMAIN Version
              /\ proxy = Stage(m) \/ Version[proxy] # Version[Stage(m)]
    PROVE  Asking(m, 0) \/ Silent
BY Lengths DEF Asking, Silent

LEMMA Connects == IInv /\ send_socks_request /\ OnlyClient => IInv'
<1> SUFFICES ASSUME IInv, send_socks_request, OnlyClient PROVE IInv'
  OBVIOUS
<1>1. /\ rc = 0 /\ state = "CONNECTED" /\ i' = i + 1 /\ Types /\ Opening /\ mud = <<>>
  BY DEF IInv, Dialogue, send_socks_request, Iteration, Looping
<1>2. i = 0 /\ to_proxy = <<>> /\ from_proxy = <<>> /\ proxy \in {"request", "method", "gone"}
  BY <1>1 DEF Opening
<1>3. CASE socks_protocol = 4
  <2>1. PICK b : b = <<4, 1>> \o Anys(6) \o <<0>>
    OBVIOUS
  <2>2. b \in Seq(Byte) /\ Len(b) = 9 /\ b[1] = 4
    BY <2>1, Request
  <2>3. Sending(b, "SENTV4REQ")
    BY <1>3, <2>1 DEF send_socks_request, send_socksv4_request
  <2>4. Asking("SENTV4REQ", 0) \/ Silent
    BY <1>2, Asks, VersionFacts, MessageFacts DEF Sent
  <2>5. \A j \in 1..Len(b) : Fits("SENTV4REQ", j, b[j])
    BY <2>2, VersionFacts, MessageFacts DEF Fits
  <2>6. i + 1 <= Turn("SENTV4REQ") /\ Len(b) = Size("SENTV4REQ") /\ "SENTV4REQ" \in Sent
    BY <1>2, <2>2, MessageFacts DEF Sent
  <2> QED BY <1>1, <2>2, <2>3, <2>4, <2>5, <2>6, Written
<1>4. CASE socks_protocol # 4
  <2>1. PICK b : b = <<5, 2, 0, 2>>
    OBVIOUS
  <2>2. b \in Seq(Byte) /\ Len(b) = 4 /\ b[1] = 5 /\ b[2] = 2
    BY <2>1, MethodRequest
  <2>3. Sending(b, "SENTV5METHOD")
    BY <1>4, <2>1 DEF send_socks_request, send_socksv5_method
  <2>4. Asking("SENTV5METHOD", 0) \/ Silent
    BY <1>2, Asks, VersionFacts, MessageFacts DEF Sent
  <2>5. \A j \in 1..Len(b) : Fits("SENTV5METHOD", j, b[j])
    BY <2>2, VersionFacts, MessageFacts DEF Fits
  <2>6. i + 1 <= Turn("SENTV5METHOD") /\ Len(b) = Size("SENTV5METHOD") /\ "SENTV5METHOD" \in Sent
    BY <1>2, <2>2, MessageFacts DEF Sent
  <2> QED BY <1>1, <2>2, <2>3, <2>4, <2>5, <2>6, Written
<1> QED BY <1>3, <1>4

LEMMA ReceiveKeeps ==
    ASSUME IInv, NEW m \in Sent, Receive(m), OnlyClient
    PROVE  IInv'
<1>1. /\ rc = 0 /\ state = m /\ i' = i + 1 /\ i < STEPS /\ Types /\ Spoken(m) /\ mud = <<>>
      /\ state' = "RECEIVING" /\ nextstate' = Reply(m).got /\ rc' = rc
      /\ datalen' = Reply(m).len /\ datadone' = 0
  BY DEF IInv, Dialogue, Receive, Iteration, Looping, Sent
<1>2. PICK d \in Nat : d = Reply(m).len /\ d >= 2 /\ d <= 10
  BY Lengths
<1>3. PICK k \in Nat : k = Len(buffer) /\ k <= BUFFER /\ buffer \in Seq(Byte)
  BY <1>1 DEF Types, TypeOK
<1>4. PICK n \in Nat : n = (IF k < d THEN d - k ELSE 0)
  BY <1>2, <1>3
<1>5. PICK t \in Seq(Byte) : t = Anys(n) /\ Len(t) = n
  BY AnysFacts
<1>6. buffer' = buffer \o t
  BY <1>1, <1>2, <1>3, <1>4, <1>5 DEF Receive
<1>7. PICK b : b = buffer /\ b \in Seq(Byte)
  BY <1>3
<1>8. b \o t \in Seq(Byte) /\ Len(b \o t) = Len(b) + Len(t)
  BY <1>7, Concat
<1>9. Len(buffer') = k + n /\ buffer' \in Seq(Byte)
  BY <1>3, <1>5, <1>6, <1>7, <1>8
<1>10. k + n >= d /\ k + n <= BUFFER
  BY <1>2, <1>3, <1>4 DEF BUFFER
<1>11. \A j \in DOMAIN buffer' : buffer'[j] \in Byte
  BY <1>9
<1>12. i' \in Nat /\ i' \in 0..STEPS
  BY <1>1 DEF Types, STEPS
<1>13. TypeOK'
  <2>1. /\ 0 <= datadone' /\ datadone' <= datalen' /\ datalen' <= Len(buffer')
        /\ Len(buffer') <= BUFFER
    BY <1>1, <1>2, <1>9, <1>10
  <2>2. state' \in {"RECEIVING"} /\ nextstate' \in Got
    BY <1>1, Lengths
  <2> QED BY <1>1, <1>11, <1>12, <2>1, <2>2, Quiet DEF Types, TypeOK
<1>14. Types'
  BY <1>1, <1>2, <1>9, <1>12, <1>13, Quiet DEF Types
<1>15. Hearing(m)'
  <2>1. Asking(m, Size(m))' \/ Answered(m, 0)'
    <3>1. Answered(m, 0) => Answered(m, 0)'
      BY Quiet DEF Answered, Verdict
    <3> QED BY <1>1, <3>1, Quiet DEF Spoken
  <2>2. (datadone' = 0 /\ Asking(m, Size(m))') \/ Answered(m, datadone)'
    BY <1>1, <2>1 DEF Answered
  <2>3. i' <= Turn(m) + 2
    BY <1>1, Lengths DEF Spoken, Types
  <2>4. datalen' = Reply(m).len /\ datadone' < datalen'
    BY <1>1, <1>2
  <2> QED BY <2>2, <2>3, <2>4 DEF Hearing
<1>16. Dialogue'
  BY <1>1, <1>15, Quiet DEF Dialogue, Sent, Got
<1> QED BY <1>14, <1>16 DEF IInv

\* The answer to m was read, and m is the one whose answer the state tells of.
LEMMA Reading ==
    ASSUME IInv, NEW m \in Sent, Iteration(Reply(m).got)
    PROVE  /\ Types /\ rc = 0 /\ i' = i + 1 /\ i < STEPS /\ mud = <<>> /\ Heard(m)
           /\ state = Reply(m).got
           /\ Verdict(m, buffer[2]) /\ buffer[2] \in Byte
           /\ proxy # "relay" => from_proxy = <<>>
           /\ proxy \in {"auth", "connect"} => to_proxy = <<>>
           /\ i + 1 <= Turn(m) + 4
<1>1. Types /\ Dialogue /\ rc = 0 /\ i' = i + 1 /\ i < STEPS /\ state = Reply(m).got
  BY DEF IInv, Iteration, Looping
<1>2. state \in Got /\ state # "DONE"
  BY <1>1, Lengths DEF Got
<1>3. PICK k \in Sent : state = Reply(k).got /\ Heard(k)
  BY <1>1, <1>2 DEF Dialogue
<1>4. Heard(m)
  BY <1>1, <1>3, OneReply
<1>5. Answered(m, Reply(m).len) /\ Reply(m).len >= 2 /\ Reply(m).len \in Nat
  BY <1>4, Lengths DEF Heard
<1>6. Verdict(m, buffer[2])
  BY <1>5 DEF Answered
<1>7. buffer[2] \in Byte
  BY <1>1, <1>4 DEF Heard, Types
<1>8. proxy # "relay" => from_proxy = <<>>
  <2> SUFFICES ASSUME proxy # "relay" PROVE from_proxy = <<>>
    OBVIOUS
  <2>1. PICK n \in Nat : n = Len(from_proxy) /\ from_proxy \in Seq(Bytes)
    BY <1>1 DEF Types
  <2>2. PICK r \in Nat : r = Reply(m).len /\ r + n <= r
    BY <1>5, <2>1 DEF Answered
  <2>3. n = 0
    BY <2>2
  <2>4. PICK f \in Seq(Bytes) : f = from_proxy /\ Len(f) = 0
    BY <2>1, <2>3
  <2>5. f = <<>>
    BY <2>4, EmptySeq
  <2> QED BY <2>4, <2>5
<1>9. proxy \in {"auth", "connect"} => to_proxy = <<>>
  BY <1>5 DEF Answered
<1>10. i + 1 <= Turn(m) + 4
  <2>1. PICK t \in Nat, l \in Nat : t = Turn(m) /\ l = i /\ l <= t + 3
    BY <1>1, <1>4, Lengths DEF Heard, Types
  <2>2. l + 1 <= t + 4
    BY <2>1
  <2> QED BY <2>1, <2>2
<1>11. mud = <<>>
  BY <1>1, <1>2 DEF Dialogue
<1> QED BY <1>1, <1>4, <1>6, <1>7, <1>8, <1>9, <1>10, <1>11

\* The two ways to go on from there.
LEMMA Refuses ==
    ASSUME Types, rc = 0, i' = i + 1, i < STEPS, Refused, OnlyClient
    PROVE  IInv'
<1>1. /\ state' = "CONNFAILED" /\ rc' = Error /\ nextstate' = nextstate
      /\ datalen' = datalen /\ datadone' = datadone /\ buffer' = buffer
  BY DEF Refused
<1>2. i' \in Nat /\ i' \in 0..STEPS
  BY DEF Types, STEPS
<1>3. TypeOK'
  BY <1>1, <1>2, Quiet DEF Types, TypeOK
<1>4. Types'
  BY <1>1, <1>2, <1>3, Quiet DEF Types
<1>5. rc' # 0
  BY <1>1 DEF Error
<1> QED BY <1>4, <1>5 DEF IInv

LEMMA GoesOn ==
    ASSUME Types, rc = 0, i' = i + 1, i < STEPS, mud = <<>>, OnlyClient,
           send_socksv5_connect, i + 1 <= 9,
           proxy \in {"connect", "gone"}, from_proxy = <<>>,
           proxy = "connect" => to_proxy = <<>>
    PROVE  IInv'
<1>1. PICK b : b = <<5, 1, 0, 1>> \o Anys(6)
  OBVIOUS
<1>2. b \in Seq(Byte) /\ Len(b) = 10 /\ b[1] = 5
  BY <1>1, ConnectRequest
<1>3. Sending(b, "SENTV5CONNECT")
  BY <1>1 DEF send_socksv5_connect
<1>4. Asking("SENTV5CONNECT", 0) \/ Silent
  BY Asks, VersionFacts, MessageFacts DEF Sent, Silent
<1>5. \A j \in 1..Len(b) : Fits("SENTV5CONNECT", j, b[j])
  BY <1>2, VersionFacts, MessageFacts DEF Fits
<1>6. /\ i + 1 <= Turn("SENTV5CONNECT") /\ Len(b) = Size("SENTV5CONNECT")
      /\ "SENTV5CONNECT" \in Sent
  BY <1>2, MessageFacts DEF Sent
<1> QED BY <1>2, <1>3, <1>4, <1>5, <1>6, Written

LEMMA GrantedKeeps ==
    ASSUME IInv, NEW m \in {"SENTV4REQ", "SENTV5CONNECT"}, NEW ok \in {0, 90},
           ok = IF m = "SENTV4REQ" THEN 90 ELSE 0,
           Iteration(Reply(m).got), Granted(ok), OnlyClient
    PROVE  IInv'
<1>1. /\ Types /\ rc = 0 /\ i' = i + 1 /\ i < STEPS /\ mud = <<>> /\ Heard(m)
      /\ Verdict(m, buffer[2])
  BY Reading DEF Sent
<1>2. CASE buffer[2] # ok
  BY <1>1, <1>2, Refuses DEF Granted
<1>3. CASE buffer[2] = ok
  <2>1. /\ state' = "DONE" /\ nextstate' = nextstate /\ datalen' = datalen
        /\ datadone' = datadone /\ buffer' = buffer /\ rc' = rc
    BY <1>3 DEF Granted
  <2>2. i' \in Nat /\ i' \in 0..STEPS
    BY <1>1 DEF Types, STEPS
  <2>3. TypeOK'
    BY <1>1, <2>1, <2>2, Quiet DEF Types, TypeOK
  <2>4. Types'
    BY <1>1, <2>1, <2>2, <2>3, Quiet DEF Types
  <2>5. proxy = "relay"
    BY <1>1, <1>3 DEF Verdict
  <2>6. bound = 10 => \A j \in 1..Len(from_proxy) : from_proxy[j] = MUD
    <3>1. PICK r \in Nat : r = Reply(m).len
      BY Lengths DEF Sent
    <3>2. \A j \in 1..Len(from_proxy) : r + j > r
      BY <3>1
    <3> QED BY <1>1, <3>1, <3>2 DEF Heard, Answered
  <2>7. Through'
    <3>1. \A j \in 1..Len(mud) : mud[j] = MUD
      BY <1>1
    <3> QED BY <2>5, <2>6, <3>1, Quiet DEF Through
  <2>8. Dialogue'
    BY <2>1, <2>7, Quiet DEF Dialogue, Sent, Got
  <2> QED BY <2>4, <2>8 DEF IInv
<1> QED BY <1>2, <1>3

LEMMA MethodRead == IInv /\ read_socksv5_method /\ OnlyClient => IInv'
<1> SUFFICES ASSUME IInv, read_socksv5_method, OnlyClient PROVE IInv'
  OBVIOUS
<1>0. "SENTV5METHOD" \in Sent
  BY DEF Sent
<1>1. /\ Types /\ rc = 0 /\ i' = i + 1 /\ i < STEPS /\ mud = <<>>
      /\ Verdict("SENTV5METHOD", buffer[2])
      /\ proxy # "relay" => from_proxy = <<>>
      /\ proxy \in {"auth", "connect"} => to_proxy = <<>>
      /\ i + 1 <= 5 /\ i + 1 <= 9 /\ i \in Nat
  <2>1. Iteration(Reply("SENTV5METHOD").got)
    BY ReplyFacts DEF read_socksv5_method
  <2> QED BY <1>0, <2>1, Reading, MessageFacts DEF Types
<1>2. CASE buffer[2] = 255
  BY <1>1, <1>2, Refuses DEF read_socksv5_method
<1>3. CASE buffer[2] = 2
  <2>1. ~(3 + socks_user + socks_password >= BUFFER)
    BY Given DEF BUFFER
  <2>2. Sending(Credentials, "SENTV5AUTH")
    BY <1>3, <2>1 DEF read_socksv5_method
  <2>3. PICK b : b = Credentials
    OBVIOUS
  <2>4. /\ b \in Seq(Byte) /\ Len(b) = 3 + socks_user + socks_password
        /\ b[1] = 1 /\ b[2] = socks_user /\ b[3 + socks_user] = socks_password
    BY <2>3, CredentialBytes
  <2>5. proxy \in {"auth", "gone"}
    BY <1>1, <1>3 DEF Verdict
  <2>6. Asking("SENTV5AUTH", 0) \/ Silent
    BY <1>0, <1>1, <2>5, Asks, VersionFacts, MessageFacts DEF Sent, Silent
  <2>7. \A j \in 1..Len(b) : Fits("SENTV5AUTH", j, b[j])
    BY <2>4, VersionFacts, MessageFacts DEF Fits
  <2>8. i + 1 <= Turn("SENTV5AUTH") /\ Len(b) = Size("SENTV5AUTH") /\ "SENTV5AUTH" \in Sent
    BY <1>1, <2>4, MessageFacts DEF Sent
  <2>9. Sending(b, "SENTV5AUTH")
    BY <2>2, <2>3
  <2> QED BY <1>1, <2>4, <2>6, <2>7, <2>8, <2>9, Written
<1>4. CASE buffer[2] \notin {2, 255}
  <2>1. send_socksv5_connect
    BY <1>4 DEF read_socksv5_method
  <2>2. proxy \in {"connect", "gone"}
    BY <1>1, <1>4 DEF Verdict
  <2> QED BY <1>1, <2>1, <2>2, GoesOn
<1> QED BY <1>2, <1>3, <1>4

LEMMA AuthRead == IInv /\ read_socksv5_auth /\ OnlyClient => IInv'
<1> SUFFICES ASSUME IInv, read_socksv5_auth, OnlyClient PROVE IInv'
  OBVIOUS
<1>1. /\ Types /\ rc = 0 /\ i' = i + 1 /\ i < STEPS /\ mud = <<>>
      /\ Verdict("SENTV5AUTH", buffer[2])
      /\ proxy # "relay" => from_proxy = <<>>
      /\ proxy \in {"auth", "connect"} => to_proxy = <<>>
      /\ i + 1 <= 9
  <2>1. Iteration(Reply("SENTV5AUTH").got) /\ "SENTV5AUTH" \in Sent
    BY ReplyFacts DEF read_socksv5_auth, Sent
  <2> QED BY <2>1, Reading, MessageFacts
<1>2. CASE buffer[2] # 0
  BY <1>1, <1>2, Refuses DEF read_socksv5_auth
<1>3. CASE buffer[2] = 0
  <2>1. send_socksv5_connect
    BY <1>3 DEF read_socksv5_auth
  <2>2. proxy \in {"connect", "gone"}
    BY <1>1, <1>3 DEF Verdict
  <2> QED BY <1>1, <2>1, <2>2, GoesOn
<1> QED BY <1>2, <1>3

LEMMA BrokenKeeps == IInv /\ Broken => IInv'
<1> SUFFICES ASSUME IInv, Broken PROVE IInv'
  OBVIOUS
<1>1. /\ state' = state /\ nextstate' = nextstate /\ datalen' = datalen
      /\ datadone' = datadone /\ buffer' = buffer /\ to_proxy' = to_proxy
      /\ from_proxy' = from_proxy /\ line' = line /\ proxy' = proxy /\ mud' = mud
      /\ socks_protocol' = socks_protocol /\ speaks' = speaks /\ bound' = bound
      /\ rc' = Error /\ i' = i + 1 /\ i < STEPS /\ Types
  BY DEF Broken, Looping, fixed, IInv
<1>2. i' \in Nat /\ i' \in 0..STEPS
  BY <1>1 DEF Types, STEPS
<1>3. TypeOK'
  BY <1>1, <1>2 DEF Types, TypeOK
<1>4. Types'
  BY <1>1, <1>2, <1>3 DEF Types
<1> QED BY <1>1, <1>4 DEF IInv, Error

\* Part of a message is sent: the proxy has that much more of it.
LEMMA SendKeeps ==
    ASSUME IInv, NEW n \in Nat, send_buffer(n)
    PROVE  IInv'
<1>1. /\ rc = 0 /\ state = "SENDING" /\ Types /\ Dialogue /\ n >= 1 /\ n <= datalen - datadone
      /\ to_proxy' = to_proxy \o SubSeq(buffer, datadone + 1, datadone + n)
      /\ nextstate' = nextstate /\ datalen' = datalen /\ buffer' = buffer /\ rc' = rc
      /\ from_proxy' = from_proxy /\ line' = line /\ proxy' = proxy /\ mud' = mud
      /\ socks_protocol' = socks_protocol /\ speaks' = speaks /\ bound' = bound
      /\ datadone' = datadone + n /\ i < STEPS
  BY DEF send_buffer, Looping, Moved, IInv, fixed
<1>2. PICK m \in Sent : m = nextstate /\ Speaking(m)
  BY <1>1 DEF Dialogue
<1>3. PICK d \in Nat, k \in Nat : d = datadone /\ k = datalen /\ k = Size(m) /\ d + n <= k
  <2>1. PICK d \in Nat, k \in Nat : d = datadone /\ k = datalen
    BY <1>1 DEF Types
  <2>2. k = Size(m)
    BY <1>2, <2>1 DEF Speaking
  <2>3. n <= k - d
    BY <1>1, <2>1
  <2>4. d + n <= k
    BY <2>3
  <2> QED BY <2>1, <2>2, <2>4
<1>4. PICK s \in Seq(Byte), b \in Seq(Byte) : s = to_proxy /\ b = buffer /\ k <= Len(b)
  BY <1>1, <1>3 DEF Types, TypeOK
<1>5. PICK c : c = SubSeq(b, d + 1, d + n)
  OBVIOUS
<1>6. c \in Seq(Byte) /\ Len(c) = n /\ \A j \in 1..n : c[j] = b[d + j]
  <2>1. Len(b) \in Nat /\ d + n <= Len(b)
    BY <1>3, <1>4
  <2> QED BY <1>3, <1>5, <2>1
<1>7. to_proxy' = s \o c
  BY <1>1, <1>3, <1>4, <1>5
<1>8. PICK t : t = s \o c
  OBVIOUS
<1>9. /\ t \in Seq(Byte) /\ Len(s) \in Nat /\ Len(t) = Len(s) + Len(c)
      /\ \A j \in 1..Len(s) : t[j] = s[j]
      /\ \A j \in 1..Len(c) : t[Len(s) + j] = c[j]
  <2>1. c \in Seq(Byte)
    BY <1>6
  <2> QED BY <1>8, <2>1, Concat
<1>10. to_proxy' = t /\ t \in Seq(Byte)
  BY <1>7, <1>8, <1>9
<1>11. Asking(m, d + n)' \/ Silent'
  <2>1. CASE Silent
    BY <1>1, <2>1 DEF Silent
  <2>2. CASE Asking(m, d)
    <3>1. Len(s) = d /\ Len(t) = d + n
      BY <1>4, <1>6, <1>9, <2>2 DEF Asking
    <3>2. \A j \in 1..d + n : Fits(m, j, t[j])
      <4> SUFFICES ASSUME NEW j \in 1..d + n PROVE Fits(m, j, t[j])
        OBVIOUS
      <4>1. CASE j <= d
        <5>1. Fits(m, j, s[j])
          BY <1>4, <2>2, <4>1 DEF Asking
        <5>2. t[j] = s[j]
          BY <1>9, <3>1, <4>1
        <5> QED BY <5>1, <5>2
      <4>2. CASE j > d
        <5>1. PICK l \in 1..n : j = d + l
          <6>1. j - d \in 1..n /\ j = d + (j - d)
            BY <4>2
          <6> QED BY <6>1
        <5>2. t[j] = b[j]
          BY <1>6, <1>9, <3>1, <5>1
        <5>3. Fits(m, j, b[j])
          BY <1>2, <1>3, <1>4 DEF Speaking
        <5> QED BY <5>2, <5>3
      <4> QED BY <4>1, <4>2
    <3>3. d + n <= Size(m)
      BY <1>3
    <3> QED BY <1>1, <1>10, <2>2, <3>1, <3>2, <3>3 DEF Asking
  <2>3. Asking(m, d) \/ Silent
    BY <1>2, <1>3 DEF Speaking, Asking
  <2> QED BY <2>1, <2>2, <2>3
<1>12. datadone' = d + n /\ datadone' \in Nat /\ datadone' <= datalen'
  BY <1>1, <1>3
<1>13. PICK l \in Nat : l = i /\ l <= Turn(m) /\ l < STEPS
  BY <1>1, <1>2 DEF Types, Speaking
<1>14. CASE d + n = k
  <2>1. state' = m /\ i' = l + 1
    BY <1>1, <1>2, <1>3, <1>13, <1>14 DEF send_buffer, Moved
  <2>2. i' \in Nat /\ i' \in 0..STEPS /\ i' <= Turn(m) + 1
    BY <1>13, <2>1, Lengths DEF STEPS
  <2>3. TypeOK'
    BY <1>1, <1>12, <2>1, <2>2 DEF Types, TypeOK
  <2>4. Types'
    BY <1>1, <1>10, <1>12, <2>2, <2>3 DEF Types
  <2>5. Asking(m, Size(m))' \/ Silent'
    BY <1>3, <1>11, <1>14 DEF Asking
  <2>6. Silent' => Answered(m, 0)'
    BY Lengths DEF Silent, Answered
  <2>7. Spoken(m)'
    BY <2>2, <2>5, <2>6 DEF Spoken
  <2>8. Spoken(state)'
    BY <2>1, <2>7 DEF Spoken, Asking, Answered
  <2>9. mud' = <<>>
    BY <1>1 DEF Dialogue
  <2>10. Dialogue'
    BY <2>1, <2>8, <2>9 DEF Dialogue, Sent, Got
  <2> QED BY <2>4, <2>10 DEF IInv
<1>15. CASE d + n # k
  <2>1. state' = state /\ i' = i
    BY <1>1, <1>3, <1>15 DEF send_buffer, Moved
  <2>2. TypeOK'
    BY <1>1, <1>12, <2>1 DEF Types, TypeOK
  <2>3. Types'
    BY <1>1, <1>10, <1>12, <2>1, <2>2 DEF Types
  <2>4. Asking(m, datadone)' \/ Silent'
    BY <1>11, <1>12 DEF Asking
  <2>5. Speaking(m)'
    <3>1. datadone' < datalen'
      <4>1. d + n < k
        BY <1>3, <1>15
      <4> QED BY <1>1, <1>3, <1>12, <4>1
    <3>2. \A j \in 1..datalen' : Fits(m, j, buffer[j])'
      BY <1>1, <1>2 DEF Speaking, Fits
    <3> QED BY <1>1, <1>2, <2>1, <2>4, <3>1, <3>2 DEF Speaking
  <2>6. nextstate' \in Sent /\ Speaking(nextstate)'
    BY <1>1, <1>2, <2>5 DEF Speaking, Asking
  <2>7. mud' = <<>>
    BY <1>1 DEF Dialogue
  <2>8. Dialogue'
    BY <1>1, <2>1, <2>6, <2>7 DEF Dialogue, Sent, Got
  <2> QED BY <2>3, <2>8 DEF IInv
<1> QED BY <1>14, <1>15

\* Part of an answer is read: what is in flight moves into the buffer.
LEMMA RecvKeeps ==
    ASSUME IInv, NEW n \in Nat, recv_buffer(n)
    PROVE  IInv'
<1>1. /\ rc = 0 /\ state = "RECEIVING" /\ Types /\ Dialogue
      /\ n >= 1 /\ n <= datalen - datadone /\ n <= Len(from_proxy)
      /\ buffer' = Overlay(buffer, datadone, SubSeq(from_proxy, 1, n))
      /\ from_proxy' = SubSeq(from_proxy, n + 1, Len(from_proxy))
      /\ nextstate' = nextstate /\ datalen' = datalen /\ rc' = rc
      /\ to_proxy' = to_proxy /\ line' = line /\ proxy' = proxy /\ mud' = mud
      /\ socks_protocol' = socks_protocol /\ speaks' = speaks /\ bound' = bound
      /\ datadone' = datadone + n /\ i < STEPS
  BY DEF recv_buffer, Looping, Moved, IInv, fixed
<1>2. PICK m \in Sent : nextstate = Reply(m).got /\ Hearing(m)
  BY <1>1 DEF Dialogue
<1>3. PICK d \in Nat, k \in Nat : d = datadone /\ k = datalen /\ k = Reply(m).len /\ d + n <= k
  <2>1. PICK d \in Nat, k \in Nat : d = datadone /\ k = datalen
    BY <1>1 DEF Types
  <2>2. k = Reply(m).len
    BY <1>2, <2>1 DEF Hearing
  <2>3. n <= k - d
    BY <1>1, <2>1
  <2>4. d + n <= k
    BY <2>3
  <2> QED BY <2>1, <2>2, <2>4
<1>4. PICK f \in Seq(Bytes), b \in Seq(Byte), h \in Nat, l \in Nat :
         /\ f = from_proxy /\ b = buffer /\ h = Len(f) /\ l = Len(b)
         /\ k <= l /\ l <= BUFFER /\ n <= h
  BY <1>1, <1>3 DEF Types, TypeOK
<1>5. Answered(m, d)
  <2>1. from_proxy # <<>>
    BY <1>1
  <2> QED BY <1>2, <1>3, <2>1 DEF Hearing, Asking
<1>6. /\ d + n <= k
      /\ \A j \in 1..h : d + j <= k => f[j] \in Byte
      /\ \A j \in 1..h : d + j > k /\ bound = 10 => f[j] = MUD
      /\ d >= 2 => Verdict(m, b[2])
      /\ d < 2 /\ d + h >= 2 => Verdict(m, f[2 - d])
      /\ proxy # "relay" => d + h <= k
      /\ proxy = "relay" /\ line = "open" => d + h >= k
  BY <1>3, <1>4, <1>5 DEF Answered
<1>7. PICK c : c = SubSeq(f, 1, n)
  OBVIOUS
<1>8. c \in Seq(Byte) /\ Len(c) = n /\ \A j \in 1..n : c[j] = f[j]
  <2>1. c \in Seq(Bytes) /\ Len(c) = n /\ \A j \in 1..n : c[j] = f[j]
    BY <1>4, <1>7
  <2>2. \A j \in 1..n : c[j] \in Byte
    <3>1. \A j \in 1..n : j \in 1..h /\ d + j <= k
      BY <1>3, <1>4
    <3> QED BY <1>6, <2>1, <3>1
  <2>3. c \in [1..n -> Byte]
    BY <2>1, <2>2
  <2> QED BY <2>1, <2>3, SeqDef
<1>9. PICK o : o = Overlay(b, d, c)
  OBVIOUS
<1>10. /\ o \in Seq(Byte) /\ Len(o) = l
       /\ \A j \in 1..d : o[j] = b[j]
       /\ \A j \in 1..n : o[d + j] = c[j]
  <2>1. c \in Seq(Byte) /\ d <= Len(b)
    BY <1>3, <1>4, <1>8
  <2>2. /\ o \in Seq(Byte)
        /\ Len(o) = IF d + Len(c) > Len(b) THEN d + Len(c) ELSE Len(b)
        /\ \A j \in 1..d : o[j] = b[j]
        /\ \A j \in 1..Len(c) : o[d + j] = c[j]
    <3>1. PICK w \in Seq(Byte) : w = c
      BY <2>1
    <3>2. /\ o \in Seq(Byte)
          /\ Len(o) = IF d + Len(w) > Len(b) THEN d + Len(w) ELSE Len(b)
          /\ \A j \in 1..d : o[j] = b[j]
          /\ \A j \in 1..Len(w) : o[d + j] = w[j]
      BY <1>9, <2>1, <3>1, OverlayFacts, SMTT(30)
    <3> QED BY <3>1, <3>2
  <2>3. ~(d + Len(c) > Len(b))
    BY <1>3, <1>4, <1>8
  <2> QED BY <1>4, <1>8, <2>2, <2>3
<1>11. buffer' = o
  BY <1>1, <1>3, <1>4, <1>7, <1>9
<1>12. PICK g : g = SubSeq(f, n + 1, h)
  OBVIOUS
<1>13. g \in Seq(Bytes) /\ Len(g) = h - n /\ \A j \in 1..h - n : g[j] = f[n + j]
  BY <1>4, <1>12
<1>14. from_proxy' = g
  BY <1>1, <1>4, <1>12
<1>15. PICK e \in Nat, r \in Nat : e = d + n /\ r = h - n /\ r + n = h
  <2>1. h - n \in Nat /\ (h - n) + n = h /\ d + n \in Nat
    BY <1>4
  <2> QED BY <2>1
<1>16. Answered(m, e)'
  <2>1. Len(from_proxy') = r
    BY <1>13, <1>14, <1>15
  <2>2. e + r = d + h
    BY <1>15
  <2>3. \A x : Verdict(m, x)' <=> Verdict(m, x)
    BY <1>1 DEF Verdict
  <2>4. e >= 2 => Verdict(m, buffer[2])'
    <3> SUFFICES ASSUME e >= 2 PROVE Verdict(m, buffer[2])'
      OBVIOUS
    <3>1. CASE d >= 2
      <4>1. o[2] = b[2]
        BY <1>10, <3>1
      <4>2. Verdict(m, o[2])'
        BY <1>6, <2>3, <3>1, <4>1
      <4> QED BY <1>11, <4>2 DEF Verdict
    <3>2. CASE d < 2
      <4>1. PICK j \in 1..n : d + j = 2 /\ j = 2 - d
        <5>1. 2 - d \in 1..n /\ d + (2 - d) = 2
          BY <1>15, <3>2
        <5> QED BY <5>1
      <4>2. o[2] = f[2 - d]
        BY <1>8, <1>10, <4>1
      <4>3. d + h >= 2
        BY <1>4, <1>15
      <4>4. Verdict(m, o[2])'
        BY <1>6, <2>3, <3>2, <4>2, <4>3
      <4> QED BY <1>11, <4>4 DEF Verdict
    <3> QED BY <3>1, <3>2
  <2>5. e < 2 /\ e + r >= 2 => Verdict(m, from_proxy[2 - e])'
    <3> SUFFICES ASSUME e < 2, e + r >= 2 PROVE Verdict(m, from_proxy[2 - e])'
      OBVIOUS
    <3>1. PICK j \in 1..h - n : j = 2 - e /\ n + j = 2 - d
      <4>1. 2 - e \in 1..h - n /\ n + (2 - e) = 2 - d
        BY <1>15
      <4> QED BY <4>1
    <3>2. g[j] = f[2 - d]
      BY <1>13, <3>1
    <3>3. d < 2 /\ d + h >= 2
      BY <1>15, <2>2
    <3>4. Verdict(m, g[j])'
      BY <1>6, <2>3, <3>2, <3>3
    <3> QED BY <1>14, <3>1, <3>4 DEF Verdict
  <2>6. ASSUME NEW j \in 1..r
        PROVE  /\ e + j <= k => g[j] \in Byte
               /\ e + j > k /\ bound = 10 => g[j] = MUD
    <3>1. n + j \in 1..h /\ d + (n + j) = e + j /\ j \in 1..h - n
      BY <1>15
    <3>2. g[j] = f[n + j]
      BY <1>13, <3>1
    <3> QED BY <1>6, <3>1, <3>2
  <2>7. /\ proxy \in {"auth", "connect", "relay", "gone"}
        /\ proxy \in {"auth", "connect"} => to_proxy = <<>>
    BY <1>5 DEF Answered
  <2>8. /\ proxy' # "relay" => e + Len(from_proxy') <= k
        /\ proxy' = "relay" /\ line' = "open" => e + Len(from_proxy') >= k
    BY <1>1, <1>6, <2>1, <2>2
  <2>9. e < 2 /\ e + Len(from_proxy') >= 2 => Verdict(m, from_proxy[2 - e])'
    BY <2>1, <2>5
  <2>10. \A j \in 1..Len(from_proxy') :
           /\ e + j <= k => from_proxy'[j] \in Byte
           /\ e + j > k /\ bound' = 10 => from_proxy'[j] = MUD
    BY <1>1, <1>14, <2>1, <2>6
  <2> QED BY <1>1, <1>3, <2>4, <2>7, <2>8, <2>9, <2>10 DEF Answered
<1>17. datadone' = e /\ e <= k /\ k <= Len(buffer') /\ Len(buffer') <= BUFFER
  BY <1>1, <1>3, <1>4, <1>10, <1>11, <1>15
<1>18. buffer' \in Seq(Byte) /\ from_proxy' \in Seq(Bytes)
       /\ \A j \in DOMAIN buffer' : buffer'[j] \in Byte
  BY <1>10, <1>11, <1>13, <1>14
<1>19. PICK q \in Nat : q = i /\ q <= Turn(m) + 2 /\ q < STEPS
  BY <1>1, <1>2 DEF Types, Hearing
<1>20. CASE e = k
  <2>1. state' = Reply(m).got /\ i' = q + 1
    BY <1>1, <1>2, <1>3, <1>15, <1>19, <1>20 DEF recv_buffer, Moved
  <2>2. i' \in Nat /\ i' \in 0..STEPS /\ i' <= Turn(m) + 3
    BY <1>19, <2>1, Lengths DEF STEPS
  <2>3. TypeOK'
    <3>1. 0 <= datadone' /\ datadone' <= datalen' /\ datalen' <= Len(buffer')
      BY <1>1, <1>3, <1>17
    <3>2. state' \in Got
      BY <2>1, Lengths
    <3> QED BY <1>1, <1>17, <1>18, <2>2, <3>1, <3>2 DEF Types, TypeOK
  <2>4. Types'
    BY <1>1, <1>17, <1>18, <2>2, <2>3 DEF Types
  <2>5. Heard(m)'
    <3>1. Len(buffer') >= 2
      BY <1>3, <1>4, <1>10, <1>11, Lengths
    <3>2. Answered(m, Reply(m).len)'
      BY <1>3, <1>16, <1>20 DEF Answered
    <3> QED BY <2>2, <3>1, <3>2 DEF Heard
  <2>6. mud' = <<>>
    BY <1>1 DEF Dialogue
  <2>7. state' \in Got
    BY <2>1, Lengths
  <2>8. Dialogue'
    BY <2>1, <2>5, <2>6, <2>7 DEF Dialogue, Sent, Got
  <2> QED BY <2>4, <2>8 DEF IInv
<1>21. CASE e # k
  <2>1. state' = state /\ i' = i
    BY <1>1, <1>3, <1>15, <1>21 DEF recv_buffer, Moved
  <2>2. 0 <= datadone' /\ datadone' <= datalen' /\ datadone' < datalen' /\ datalen' <= Len(buffer')
    <3>1. e < k
      BY <1>17, <1>21
    <3> QED BY <1>1, <1>3, <1>17, <3>1
  <2>3. TypeOK'
    BY <1>1, <1>17, <1>18, <2>1, <2>2 DEF Types, TypeOK
  <2>4. Types'
    BY <1>1, <1>17, <1>18, <2>1, <2>3 DEF Types
  <2>5. Hearing(m)'
    <3>1. Answered(m, datadone)'
      BY <1>16, <1>17 DEF Answered
    <3> QED BY <1>1, <1>2, <2>1, <2>2, <3>1 DEF Hearing
  <2>6. mud' = <<>>
    BY <1>1 DEF Dialogue
  <2>7. Dialogue'
    BY <1>1, <1>2, <2>1, <2>5, <2>6 DEF Dialogue, Sent, Got
  <2> QED BY <2>4, <2>7 DEF IInv
<1> QED BY <1>20, <1>21

-----------------------------------------------------------------------------
(* The invariant, and what follows from it. *)

LEMMA ClientKeeps == IInv /\ handle_request => IInv'
<1> SUFFICES ASSUME IInv, handle_request PROVE IInv'
  OBVIOUS
<1>1. CASE send_socks_request /\ OnlyClient
  BY <1>1, Connects
<1>2. CASE \E n \in 1..BUFFER : n <= datalen - datadone /\ send_buffer(n)
  BY <1>2, SendKeeps
<1>3. CASE \E n \in 1..BUFFER : n <= datalen - datadone /\ recv_buffer(n)
  BY <1>3, RecvKeeps
<1>4. CASE Broken
  BY <1>4, BrokenKeeps
<1>5. CASE \E sent \in Sent : Receive(sent) /\ OnlyClient
  BY <1>5, ReceiveKeeps
<1>6. CASE read_socksv5_method /\ OnlyClient
  BY <1>6, MethodRead
<1>7. CASE read_socksv5_auth /\ OnlyClient
  BY <1>7, AuthRead
<1>8. CASE read_socksv5_connect /\ OnlyClient
  BY <1>8, GrantedKeeps, ReplyFacts DEF read_socksv5_connect
<1>9. CASE read_socksv4_req /\ OnlyClient
  BY <1>9, GrantedKeeps, ReplyFacts DEF read_socksv4_req
<1> QED
  BY <1>1, <1>2, <1>3, <1>4, <1>5, <1>6, <1>7, <1>8, <1>9 DEF handle_request

LEMMA Steps == IInv /\ [Next]_vars => IInv'
<1> SUFFICES ASSUME IInv, [Next]_vars PROVE IInv'
  OBVIOUS
<1>1. CASE UNCHANGED vars
  <2>1. /\ UNCHANGED client /\ bound' = bound /\ rc' = rc /\ mud' = mud /\ line' = line
        /\ to_proxy' = to_proxy /\ from_proxy' = from_proxy /\ proxy' = proxy
        /\ socks_protocol' = socks_protocol /\ speaks' = speaks
    BY <1>1 DEF vars, client, fixed
  <2>2. Types'
    BY <2>1 DEF IInv, Types, TypeOK, client
  <2>3. rc = 0 => Dialogue'
    <3>1. \A m \in Sent : \A n \in Nat : Asking(m, n) => Asking(m, n)'
      BY <2>1 DEF Asking
    <3>2. \A m \in Sent : Asking(m, Size(m)) => Asking(m, Size(m))'
      BY <2>1 DEF Asking
    <3>3. \A m \in Sent : \A d \in Nat : Answered(m, d) => Answered(m, d)'
      BY <2>1 DEF Answered, Verdict, client
    <3>4. (Opening => Opening') /\ (Through => Through') /\ (Silent => Silent')
      BY <2>1 DEF Opening, Through, Silent, client
    <3> QED BY <2>1, <3>1, <3>2, <3>3, <3>4, ClientStays DEF IInv, Types
  <2> QED BY <2>1, <2>2, <2>3 DEF IInv
<1>2. CASE Next
  BY <1>2, ClientKeeps, ReadMudKeeps, ProxyKeeps, RelaysKeeps, BreaksKeeps DEF Next
<1> QED BY <1>1, <1>2

\* Where the client is in its dialogue says what the proxy may be about, and the
\* other way round: the invariant from which both properties follow.
THEOREM Inductive == Spec => []IInv
<1> QED BY Starts, Steps, PTL DEF Spec

\* The request and the answers stay inside struct connreq's buffer, and every byte
\* that handle_request() reads there was written in this dialogue.
THEOREM TypeCorrect == Spec => []TypeOK
<1>1. IInv => TypeOK
  BY DEF IInv, Types
<1> QED BY <1>1, Inductive, PTL

\* No step takes the loop to its last iteration.
LEMMA BudgetStep == IInv /\ BudgetLasts /\ [Next]_vars => BudgetLasts'
<1> SUFFICES ASSUME IInv, BudgetLasts, [Next]_vars PROVE BudgetLasts'
  OBVIOUS
<1>1. i \in Nat /\ i < STEPS
  BY DEF IInv, Types, BudgetLasts
<1>2. CASE i' = i
  BY <1>1, <1>2 DEF BudgetLasts
<1>3. CASE handle_request
  <2>1. Looping /\ i' \in {i, i + 1}
    <3>1. CASE \E n \in 1..BUFFER : send_buffer(n) \/ recv_buffer(n)
      BY <3>1 DEF send_buffer, recv_buffer, Moved
    <3>2. CASE Broken
      BY <3>2 DEF Broken
    <3>3. CASE \E s \in {"CONNECTED"} \cup Sent \cup Got : Iteration(s)
      BY <3>3 DEF Iteration
    <3> QED
      BY <1>3, <3>1, <3>2, <3>3
         DEF handle_request, send_socks_request, Receive, read_socksv5_method,
             read_socksv5_auth, read_socksv5_connect, read_socksv4_req, Sent, Got
  <2>2. i \in 0..12
    BY <2>1, Early DEF Looping
  <2> QED BY <2>1, <2>2 DEF BudgetLasts, STEPS
<1>4. CASE ReadMud \/ Proxy \/ Relays \/ Breaks
  <2>1. CASE ReadMud \/ Relays \/ Breaks
    BY <2>1, <1>2 DEF ReadMud, Relays, Breaks, client
  <2>2. CASE Proxy
    <3>1. \A bytes, next, end : Answers(bytes, next, end) => i' = i
      BY DEF Answers, client
    <3>2. \A result : Answers4(result) => i' = i
      BY <3>1, Zenon DEF Answers4
    <3>3. ASSUME NEW m \in Methods, ChoosesMethod(m) PROVE i' = i
      <4>1. m = 255 \/ m = 2 \/ m = 0
        BY SocksAssumption
      <4> QED BY <3>1, <3>3, <4>1 DEF ChoosesMethod
    <3>4. \A status : ChecksCredentials(status) => i' = i
      BY <3>1, Zenon DEF ChecksCredentials
    <3>5. \A reply : Answers5(reply) => i' = i
      BY <3>1, Zenon DEF Answers5
    <3>6. Misunderstood => i' = i
      BY <3>1, Zenon DEF Misunderstood
    <3>7. i' = i
      BY <2>2, <3>2, <3>3, <3>4, <3>5, <3>6 DEF Proxy
    <3> QED BY <3>7, <1>2
  <2> QED BY <1>4, <2>1, <2>2
<1>5. CASE UNCHANGED vars
  BY <1>2, <1>5 DEF vars, client
<1> QED BY <1>3, <1>4, <1>5 DEF Next

\* handle_request() never reaches its 20th iteration, after which it would return
\* what it returns for success, whatever the proxy answers and in whatever parts.
THEOREM BudgetNeverEnds == Spec => []BudgetLasts
<1>1. Init => BudgetLasts
  BY DEF Init, BudgetLasts, STEPS
<1> QED BY <1>1, BudgetStep, Inductive, PTL DEF Spec

\* handle_request() returns 0 only when the proxy granted the connection, and the
\* session then reads the mud from its first byte.
THEOREM SuccessMeansGranted == Spec => []SuccessIsGranted
<1>1. IInv => SuccessIsGranted
  <2> SUFFICES ASSUME IInv, Returned, rc = 0
               PROVE  /\ state = "DONE" /\ proxy = "relay"
                      /\ bound = 10 => Range(mud \o from_proxy) \subseteq {MUD}
    BY DEF SuccessIsGranted
  <2>1. state = "DONE" /\ Through
    BY Over
  <2>2. ASSUME bound = 10
        PROVE  Range(mud \o from_proxy) \subseteq {MUD}
    <3>1. PICK s \in Seq(Bytes), t \in Seq(Bytes) : s = mud /\ t = from_proxy
      BY DEF IInv, Types
    <3>2. /\ \A j \in 1..Len(s) : s[j] = MUD
          /\ \A j \in 1..Len(t) : t[j] = MUD
      BY <2>1, <2>2, <3>1 DEF Through
    <3>3. /\ Len(s) \in Nat /\ Len(t) \in Nat /\ Len(s \o t) = Len(s) + Len(t)
          /\ \A j \in 1..Len(s) : (s \o t)[j] = s[j]
          /\ \A j \in 1..Len(t) : (s \o t)[Len(s) + j] = t[j]
          /\ s \o t \in Seq(Bytes)
      BY Concat
    <3>4. DOMAIN (s \o t) = 1..Len(s) + Len(t)
      BY <3>3
    <3>5. ASSUME NEW j \in 1..Len(s) + Len(t)
          PROVE  (s \o t)[j] = MUD
      <4>1. CASE j <= Len(s)
        BY <3>2, <3>3, <4>1
      <4>2. CASE j > Len(s)
        <5>1. PICK l \in 1..Len(t) : j = Len(s) + l
          <6>1. j - Len(s) \in 1..Len(t) /\ j = Len(s) + (j - Len(s))
            BY <3>3, <4>2
          <6> QED BY <6>1
        <5> QED BY <3>2, <3>3, <5>1
      <4> QED BY <3>3, <4>1, <4>2
    <3> QED BY <3>1, <3>4, <3>5 DEF Range
  <2> QED BY <2>1, <2>2 DEF Through
<1> QED BY <1>1, Inductive, PTL
=============================================================================
