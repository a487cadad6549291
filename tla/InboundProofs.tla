---------------------------- MODULE InboundProofs ---------------------------
(***************************************************************************)
(* Proofs about the input side of a session, for every size of a read, any *)
(* number of items, any items, requests and versions of MCCP.              *)
(*                                                                         *)
(* In every run the types are right (TypeCorrect).  If every read ends     *)
(* between two items (WholeReads), what is shown is what was sent, nothing *)
(* is held back, every request is answered once, and both ends switch to   *)
(* compression and back at the same byte (StreamImplemented, AllIsShown,   *)
(* EachAnsweredOnce, StaysInStep).  Wherever the reads end, without offers *)
(* of compression no letter is shown twice and no request answered twice   *)
(* (TwiceNothing).                                                         *)
(*                                                                         *)
(* The bytes between the mud and the player are whole items, written one   *)
(* after the other: rows that lead from one state of the conversation to   *)
(* another.  "Leads" is defined as the least such relation, so that a      *)
(* proof about all rows of items is a proof about one more item.           *)
(***************************************************************************)
EXTENDS Inbound, SequenceTheorems, FiniteSetTheorems, WellFoundedInduction, TLAPS

WireByte == [byte : Byte, last : BOOLEAN, text : BOOLEAN]

-----------------------------------------------------------------------------
(* Numbers and sequences.                                                    *)

\* A set of naturals that is not empty has a least element.
LEMMA LeastNumber ==
    ASSUME NEW T, T \subseteq Nat, T # {}
    PROVE  \E m \in T : \A k \in T : m <= k
<1> DEFINE R == {p \in Nat \X Nat : p[1] < p[2]}
<1>1. IsWellFoundedOn(R, Nat)
  BY NatLessThanWellFounded DEF OpToRel
<1>2. \A i, j \in Nat : i < j => <<i, j>> \in R
  OBVIOUS
<1> HIDE DEF R
<1>3. PICK m \in T : \A k \in T : ~(<<k, m>> \in R)
  BY <1>1, WFMin
<1>4. ASSUME NEW k \in T
      PROVE  m <= k
  <2>1. m \in Nat /\ k \in Nat
    OBVIOUS
  <2>2. ~(k < m)
    BY <2>1, <1>2, <1>3
  <2> QED
    BY <2>1, <2>2
<1> QED
  BY <1>4

LEMMA FirstLemma ==
    ASSUME NEW T, T \subseteq Nat
    PROVE  /\ First(T) \in Nat
           /\ T = {} => First(T) = 0
           /\ T # {} => First(T) \in T
           /\ \A i \in T : First(T) <= i
<1>1. CASE T = {}
  BY <1>1 DEF First
<1>2. CASE T # {}
  <2>1. \E m \in T : \A k \in T : m <= k
    BY <1>2, LeastNumber
  <2>2. Min(T) \in T /\ \A k \in T : Min(T) <= k
    BY <2>1 DEF Min
  <2> QED
    BY <1>2, <2>2 DEF First
<1> QED
  BY <1>1, <1>2

\* The greatest element of a set of naturals up to n that holds 0.
LEMMA GreatestLemma ==
    ASSUME NEW n \in Nat, NEW T, T \subseteq 0..n, T # {}
    PROVE  Max(T) \in T /\ \A i \in T : i <= Max(T)
<1> DEFINE U == {m \in Nat : \A i \in T : i <= m}
<1>1. U \subseteq Nat /\ n \in U
  OBVIOUS
<1>2. PICK m \in U : \A k \in U : m <= k
  BY <1>1, LeastNumber
<1>3. m \in T
  <2>1. SUFFICES ASSUME m \notin T PROVE FALSE
    OBVIOUS
  <2>2. m \in Nat /\ \A i \in T : i \in Nat /\ i <= m /\ i # m
    BY <2>1
  <2>3. m # 0
    <3>1. PICK i : i \in T
      OBVIOUS
    <3> QED
      BY <2>2, <3>1
  <2>4. m - 1 \in Nat /\ \A i \in T : i <= m - 1
    BY <2>2, <2>3
  <2>5. m - 1 \in U
    BY <2>4
  <2> QED
    BY <2>2, <2>5, <1>2
<1>4. \E x \in T : \A y \in T : x >= y
  <2>1. m \in Nat /\ \A i \in T : i \in Nat /\ i <= m
    BY <1>2
  <2> QED
    BY <1>3, <2>1
<1>5. Max(T) \in T /\ \A y \in T : Max(T) >= y
  BY <1>4 DEF Max
<1> QED
  BY <1>5

\* A part of a sequence is a sequence of the same elements.
LEMMA PartLemma ==
    ASSUME NEW Item, NEW s \in Seq(Item), NEW m \in Nat \ {0}, NEW n \in Nat, n <= Len(s)
    PROVE  /\ SubSeq(s, m, n) \in Seq(Item)
           /\ Len(SubSeq(s, m, n)) = IF m <= n THEN n - m + 1 ELSE 0
           /\ \A i \in 1..n - m + 1 : SubSeq(s, m, n)[i] = s[m + i - 1]
<1>1. Len(s) \in Nat /\ \A i \in 1..Len(s) : s[i] \in Item
  BY LenProperties, ElementOfSeq
<1>2. \A i \in m..n : s[i] \in Item
  BY <1>1
<1>3. m \in Int /\ n \in Int
  OBVIOUS
<1> QED
  BY <1>2, <1>3, SubSeqProperties

\* A sequence cut in two.
LEMMA CutLemma ==
    ASSUME NEW Item, NEW s \in Seq(Item), NEW n \in 0..Len(s)
    PROVE  /\ SubSeq(s, 1, n) \in Seq(Item) /\ Len(SubSeq(s, 1, n)) = n
           /\ SubSeq(s, n + 1, Len(s)) \in Seq(Item)
           /\ Len(SubSeq(s, n + 1, Len(s))) = Len(s) - n
           /\ \A i \in 1..n : SubSeq(s, 1, n)[i] = s[i]
           /\ \A i \in 1..Len(s) - n : SubSeq(s, n + 1, Len(s))[i] = s[n + i]
           /\ s = SubSeq(s, 1, n) \o SubSeq(s, n + 1, Len(s))
<1>1. Len(s) \in Nat
  BY LenProperties
<1>2. n \in Nat /\ n + 1 \in Nat \ {0} /\ n <= Len(s)
  BY <1>1
<1>3. /\ SubSeq(s, 1, n) \in Seq(Item)
      /\ Len(SubSeq(s, 1, n)) = IF 1 <= n THEN n - 1 + 1 ELSE 0
      /\ \A i \in 1..n - 1 + 1 : SubSeq(s, 1, n)[i] = s[1 + i - 1]
  BY <1>2, PartLemma
<1>4. /\ SubSeq(s, n + 1, Len(s)) \in Seq(Item)
      /\ Len(SubSeq(s, n + 1, Len(s))) = IF n + 1 <= Len(s) THEN Len(s) - (n + 1) + 1 ELSE 0
      /\ \A i \in 1..Len(s) - (n + 1) + 1 : SubSeq(s, n + 1, Len(s))[i] = s[n + 1 + i - 1]
  BY <1>1, <1>2, PartLemma
<1>5. SubSeq(s, 1, n) \o SubSeq(s, n + 1, Len(s)) = SubSeq(s, 1, Len(s))
  <2>1. 1 \in 1..Len(s) + 1 /\ n \in 1 - 1..Len(s) /\ Len(s) \in n..Len(s)
    BY <1>1, <1>2
  <2> QED
    BY <2>1, ConcatAdjacentSubSeq
<1>6. SubSeq(s, 1, Len(s)) = s
  BY SubSeqFull
<1>7. Len(SubSeq(s, 1, n)) = n /\ \A i \in 1..n : SubSeq(s, 1, n)[i] = s[i]
  BY <1>1, <1>2, <1>3
<1>8. /\ Len(SubSeq(s, n + 1, Len(s))) = Len(s) - n
      /\ \A i \in 1..Len(s) - n : SubSeq(s, n + 1, Len(s))[i] = s[n + i]
  BY <1>1, <1>2, <1>4
<1> QED
  BY <1>3, <1>4, <1>5, <1>6, <1>7, <1>8

-----------------------------------------------------------------------------
(* Types.                                                                    *)

\* What the mud writes: bytes, and the end of the compressed stream.
Writable == 0..255 \cup {Z_END}

LEMMA ConstantFacts ==
    /\ INPUT_CHUNK \in Nat \ {0}
    /\ \A r \in Requests : r[1] \in Verbs /\ r[2] \in 0..255
    /\ \A r \in Requests : r[2] # COMPRESS /\ r[2] # COMPRESS2
    /\ Versions \subseteq {COMPRESS, COMPRESS2}
BY InboundAssumption DEF Verbs, WILL, WONT, DO, DONT, MSP, COMPRESS, COMPRESS2

LEMMA WrittenLemma ==
    ASSUME NEW s \in Seq(Writable), NEW isText \in BOOLEAN
    PROVE  /\ OnTheWire(s, isText) \in Seq(WireByte)
           /\ Len(OnTheWire(s, isText)) = Len(s)
           /\ \A i \in 1..Len(s) : OnTheWire(s, isText)[i] =
                [byte |-> IF zip = "zipped" /\ s[i] # Z_END THEN ZIP + s[i] ELSE s[i],
                 last |-> i = Len(s), text |-> isText]
<1> DEFINE b(i) == IF zip = "zipped" /\ s[i] # Z_END THEN ZIP + s[i] ELSE s[i]
           e(i) == [byte |-> b(i), last |-> i = Len(s), text |-> isText]
<1>1. Len(s) \in Nat /\ \A i \in 1..Len(s) : s[i] \in Writable
  BY LenProperties, ElementOfSeq
<1>2. \A i \in 1..Len(s) : b(i) \in Byte
  <2>1. \A x \in Writable : x \in Byte /\ (x # Z_END => ZIP + x \in Byte)
    BY DEF Writable, Byte, Z_END, ZIP
  <2> QED
    BY <1>1, <2>1
<1> HIDE DEF b
<1>3. \A i \in 1..Len(s) : e(i) \in WireByte
  BY <1>2 DEF WireByte
<1>4. [i \in 1..Len(s) |-> e(i)] \in Seq(WireByte)
  <2> HIDE DEF e
  <2> QED
    BY <1>1, <1>3, IsASeq
<1>5. OnTheWire(s, isText) = [i \in 1..Len(s) |-> e(i)]
  BY DEF OnTheWire, b
<1>6. Len([i \in 1..Len(s) |-> e(i)]) = Len(s)
  <2> HIDE DEF e
  <2> QED
    BY <1>1
<1> QED
  BY <1>4, <1>5, <1>6 DEF b

\* What an item is written as.
LEMMA EncodedLemma ==
    ASSUME TypeOK, NEW item \in Items
    PROVE  Encoded(item) \in Seq(Writable) /\ Shown(item) \in Seq(Byte)
<1>1. items \in Nat /\ items % 26 \in 0..25
  BY DEF TypeOK
<1>2. 97 + (items % 26) \in 0..255
  BY <1>1
<1> DEFINE letter == 97 + (items % 26)
<1> HIDE DEF letter
<1>3. Shown(item) \in {<<letter>>, <<NL>>, <<IAC>>, <<>>}
  BY DEF Shown, letter
<1>4. Encoded(item) \in {<<IAC, IAC>>, <<0>>, <<IAC, GA>>,
                           <<IAC, SB, TERMINAL_TYPE, SEND, IAC, SE>>, Shown(item)}
  BY DEF Encoded
<1>5. /\ letter \in Writable /\ letter \in Byte
      /\ {0, NL, IAC, GA, SB, TERMINAL_TYPE, SEND, SE} \subseteq Writable
      /\ {NL, IAC} \subseteq Byte
  BY <1>2 DEF letter, Writable, Byte, Z_END, ZIP, NL, IAC, GA, SB, TERMINAL_TYPE, SEND, SE
<1>6. Shown(item) \in Seq(Writable) /\ Shown(item) \in Seq(Byte)
  <2>1. CASE Shown(item) = <<letter>>
    BY <2>1, <1>5
  <2>2. CASE Shown(item) = <<NL>>
    BY <2>2, <1>5
  <2>3. CASE Shown(item) = <<IAC>>
    BY <2>3, <1>5
  <2>4. CASE Shown(item) = <<>>
    BY <2>4, EmptySeq
  <2> QED
    BY <1>3, <2>1, <2>2, <2>3, <2>4
<1>7. /\ <<IAC, IAC>> \in Seq(Writable) /\ <<0>> \in Seq(Writable)
      /\ <<IAC, GA>> \in Seq(Writable)
      /\ <<IAC, SB, TERMINAL_TYPE, SEND, IAC, SE>> \in Seq(Writable)
  BY <1>5
<1> QED
  BY <1>4, <1>6, <1>7

LEMMA InitTypes == ASSUME Init PROVE TypeOK
<1>1. <<>> \in Seq(WireByte) /\ <<>> \in Seq(Byte)
      /\ <<>> \in Seq(Verbs \X Byte) /\ <<>> \in Seq((Verbs \cup {SB}) \X Byte)
  BY EmptySeq
<1>2. /\ wire = <<>> /\ sent = <<>> /\ asked = <<>> /\ answers = <<>> /\ inbuf = <<>>
      /\ outbuf = <<>> /\ telnet_buf = <<>> /\ last_line = <<>> /\ rest = <<>>
      /\ text = <<>> /\ shown = <<>>
  BY DEF Init
<1>3. /\ items \in Nat /\ zip \in {"plain", "zipped", "ended"} /\ stream \in BOOLEAN
      /\ got_v2 \in BOOLEAN /\ resp_v1 \in {-1, 0, 1} /\ resp_v2 \in BOOLEAN
      /\ error \in BOOLEAN /\ more_coming \in BOOLEAN /\ old_more_coming \in BOOLEAN
      /\ pc \in Points /\ at \in Nat
  BY DEF Init, Points
<1> QED
  BY <1>1, <1>2, <1>3 DEF TypeOK, WireByte

\* Sending changes the mud's part, in its types.
LEMMA SendsTypes ==
    ASSUME TypeOK, NEW s \in Seq(Writable), NEW isText \in BOOLEAN, Sends(s, isText),
           sent' \in Seq(Byte), asked' \in Seq(Verbs \X Byte),
           zip' \in {"plain", "zipped", "ended"}
    PROVE  TypeOK'
<1>1. wire' \in Seq(WireByte)
  <2>1. wire \in Seq(WireByte) /\ OnTheWire(s, isText) \in Seq(WireByte)
    BY WrittenLemma DEF TypeOK, WireByte
  <2>2. wire' = wire \o OnTheWire(s, isText)
    BY DEF Sends
  <2> QED
    BY <2>1, <2>2, ConcatProperties
<1>2. items' \in Nat
  BY DEF TypeOK, Sends
<1>3. /\ UNCHANGED <<answers, stream, inbuf, outbuf, got_v2, resp_v1, resp_v2, error, telnet_buf>>
      /\ UNCHANGED <<more_coming, old_more_coming, last_line, shown, pc, at, rest, text>>
  BY DEF Sends, mccp, lines
<1> QED
  BY <1>1, <1>2, <1>3 DEF TypeOK, WireByte

LEMMA RequestTypes ==
    ASSUME TypeOK, NEW verb \in Verbs, NEW option \in 0..255, SendRequest(verb, option)
    PROVE  TypeOK'
<1>1. /\ Sends(<<IAC, verb, option>>, FALSE) /\ asked' = Append(asked, <<verb, option>>)
      /\ UNCHANGED <<sent, zip>>
  BY DEF SendRequest
<1>2. IAC \in Writable /\ verb \in Writable /\ option \in Writable /\ option \in Byte
  BY DEF Writable, Verbs, WILL, WONT, DO, DONT, Byte, Z_END, ZIP, IAC
<1>3. <<IAC, verb, option>> \in Seq(Writable)
  BY <1>2
<1>4. asked' \in Seq(Verbs \X Byte)
  <2>1. asked \in Seq(Verbs \X Byte) /\ <<verb, option>> \in Verbs \X Byte
    BY <1>2 DEF TypeOK
  <2> QED
    BY <2>1, <1>1, AppendProperties
<1>5. sent' \in Seq(Byte) /\ zip' \in {"plain", "zipped", "ended"}
  BY <1>1 DEF TypeOK
<1> QED
  BY <1>1, <1>3, <1>4, <1>5, SendsTypes

LEMMA MudTypes == ASSUME TypeOK, Mud PROVE TypeOK'
<1>1. ASSUME NEW item \in Items, SendText(item)
      PROVE  TypeOK'
  <2>1. /\ Sends(Encoded(item), Shown(item) # <<>>)
        /\ sent' = sent \o Shown(item)
        /\ UNCHANGED <<asked, zip>>
    BY <1>1 DEF SendText
  <2>2. Encoded(item) \in Seq(Writable) /\ Shown(item) \in Seq(Byte)
    BY EncodedLemma
  <2>3. sent' \in Seq(Byte)
    <3>1. sent \in Seq(Byte)
      BY DEF TypeOK
    <3> QED
      BY <3>1, <2>1, <2>2, ConcatProperties
  <2>4. asked' \in Seq(Verbs \X Byte) /\ zip' \in {"plain", "zipped", "ended"}
    BY <2>1 DEF TypeOK
  <2>5. (Shown(item) # <<>>) \in BOOLEAN
    OBVIOUS
  <2> QED
    BY <2>1, <2>2, <2>3, <2>4, <2>5, SendsTypes
<1>2. ASSUME NEW request \in Requests, SendRequest(request[1], request[2])
      PROVE  TypeOK'
  BY <1>2, RequestTypes, ConstantFacts
<1>3. ASSUME NEW version \in Versions, Offer(version)
      PROVE  TypeOK'
  <2>1. WILL \in Verbs /\ version \in 0..255
    BY ConstantFacts DEF Verbs, COMPRESS, COMPRESS2
  <2> QED
    BY <1>3, <2>1, RequestTypes DEF Offer
<1>4. ASSUME NEW version \in Versions, StartZip(version)
      PROVE  TypeOK'
  <2> DEFINE s == <<IAC, SB, version>>
                    \o (IF version = COMPRESS THEN <<WILL, SE>> ELSE <<IAC, SE>>)
  <2>1. Sends(s, FALSE) /\ zip' = "zipped" /\ UNCHANGED <<sent, asked>>
    BY <1>4 DEF StartZip
  <2>2. /\ {IAC, SB, WILL, SE} \subseteq Writable
        /\ version \in Writable
    BY ConstantFacts DEF Writable, IAC, SB, WILL, SE, COMPRESS, COMPRESS2
  <2>3. /\ <<IAC, SB, version>> \in Seq(Writable)
        /\ <<WILL, SE>> \in Seq(Writable) /\ <<IAC, SE>> \in Seq(Writable)
    BY <2>2
  <2>4. s \in Seq(Writable)
    BY <2>3, ConcatProperties
  <2>5. sent' \in Seq(Byte) /\ asked' \in Seq(Verbs \X Byte) /\ zip' \in {"plain", "zipped", "ended"}
    BY <2>1 DEF TypeOK
  <2> QED
    BY <2>1, <2>4, <2>5, SendsTypes
<1>5. ASSUME EndZip
      PROVE  TypeOK'
  <2>1. Sends(<<Z_END>>, FALSE) /\ zip' = "ended" /\ UNCHANGED <<sent, asked>>
    BY <1>5 DEF EndZip
  <2>2. <<Z_END>> \in Seq(Writable)
    BY DEF Writable
  <2>3. sent' \in Seq(Byte) /\ asked' \in Seq(Verbs \X Byte) /\ zip' \in {"plain", "zipped", "ended"}
    BY <2>1 DEF TypeOK
  <2> QED
    BY <2>1, <2>2, <2>3, SendsTypes
<1> QED
  BY <1>1, <1>2, <1>3, <1>4, <1>5 DEF Mud

\* A state whose sequences are well typed, the rest of it unchanged or small.
LEMMA RecvTypes == ASSUME TypeOK, NEW n \in 1..INPUT_CHUNK, Recv(n) PROVE TypeOK'
<1> DEFINE data == [i \in 1..n |-> wire[i].byte]
<1>1. n \in Nat \ {0} /\ n <= Len(wire) /\ wire \in Seq(WireByte)
  BY ConstantFacts DEF Recv, TypeOK, WireByte
<1>2. data \in Seq(Byte)
  <2>1. \A i \in 1..n : wire[i].byte \in Byte
    <3>1. \A i \in 1..n : wire[i] \in WireByte
      BY <1>1, LenProperties, ElementOfSeq
    <3> QED
      BY <3>1 DEF WireByte
  <2> QED
    BY <1>1, <2>1, IsASeq
<1> HIDE DEF data
<1>3. /\ inbuf' \in {inbuf, inbuf \o data}
      /\ outbuf' \in {outbuf, outbuf \o data}
      /\ pc' \in {"respond", "inflate", "scan"}
  BY DEF Recv, data
<1>4. inbuf' \in Seq(Byte) /\ outbuf' \in Seq(Byte)
  <2>1. inbuf \in Seq(Byte) /\ outbuf \in Seq(Byte)
    BY DEF TypeOK
  <2>2. inbuf \o data \in Seq(Byte) /\ outbuf \o data \in Seq(Byte)
    BY <2>1, <1>2, ConcatProperties
  <2> QED
    BY <2>1, <2>2, <1>3
<1>5. wire' \in Seq(WireByte)
  <2>1. wire' = SubSeq(wire, n + 1, Len(wire))
    BY DEF Recv
  <2>2. n \in 0..Len(wire)
    BY <1>1, LenProperties
  <2> QED
    BY <2>1, <2>2, <1>1, CutLemma
<1>6. old_more_coming' \in BOOLEAN /\ more_coming' \in BOOLEAN
  BY DEF Recv, TypeOK, More
<1>7. /\ UNCHANGED <<sent, asked, items, zip, answers, stream, got_v2, resp_v1, resp_v2>>
      /\ UNCHANGED <<error, telnet_buf, last_line, at, rest, text, shown>>
  BY DEF Recv
<1>8. pc' \in Points
  BY <1>3 DEF Points
<1> QED
  BY <1>4, <1>5, <1>6, <1>7, <1>8 DEF TypeOK, WireByte

\* What the steps of a read do not touch keeps its type.
SameMud == UNCHANGED <<wire, sent, asked, items, zip, more_coming, old_more_coming>>

ReadTypes ==
    /\ shown \in Seq(Byte) /\ answers \in Seq((Verbs \cup {SB}) \X Byte)
    /\ stream \in BOOLEAN /\ inbuf \in Seq(Byte) /\ outbuf \in Seq(Byte)
    /\ got_v2 \in BOOLEAN /\ resp_v1 \in {-1, 0, 1} /\ resp_v2 \in BOOLEAN
    /\ error \in BOOLEAN /\ telnet_buf \in Seq(Byte) /\ last_line \in Seq(Byte)
    /\ pc \in Points /\ at \in Nat
    /\ rest \in Seq(Byte) /\ text \in Seq(Byte)
   

LEMMA ReadTypesLemma ==
    /\ TypeOK => ReadTypes
    /\ TypeOK /\ SameMud /\ ReadTypes' => TypeOK'
BY DEF TypeOK, ReadTypes, SameMud

LEMMA PlainTypes == ASSUME TypeOK, ScanPlain PROVE TypeOK'
<1>1. at' \in Nat
  BY DEF ScanPlain, TypeOK
<1>2. /\ UNCHANGED <<shown, answers, stream, inbuf, outbuf, got_v2, resp_v1, resp_v2, error>>
      /\ UNCHANGED <<telnet_buf, last_line, pc, rest, text>> /\ SameMud
  BY DEF ScanPlain, mud, mccp, lines, SameMud
<1>3. ReadTypes'
  BY <1>1, <1>2, ReadTypesLemma DEF ReadTypes
<1> QED
  BY <1>2, <1>3, ReadTypesLemma

\* What there is before the marker, and from it on.
LEMMA HereLemma ==
    ASSUME TypeOK, Scanning, at # 0
    PROVE  /\ Here \in Seq(Byte) /\ Len(Here) = Len(outbuf) - at + 1
           /\ \A i \in 1..Len(outbuf) - at + 1 : Here[i] = outbuf[at + i - 1]
           /\ SubSeq(outbuf, 1, at - 1) \in Seq(Byte)
           /\ at \in 1..Len(outbuf) /\ Len(outbuf) \in Nat
           /\ outbuf = SubSeq(outbuf, 1, at - 1) \o Here
<1>1. /\ outbuf \in Seq(Byte) /\ Len(outbuf) \in Nat /\ at \in Nat \ {0} /\ at <= Len(outbuf)
  BY LenProperties DEF TypeOK, Scanning
<1>2. PICK n : n = at - 1
  OBVIOUS
<1>3. n \in 0..Len(outbuf) /\ at = n + 1
  BY <1>1, <1>2
<1>4. /\ SubSeq(outbuf, 1, n) \in Seq(Byte)
      /\ SubSeq(outbuf, n + 1, Len(outbuf)) \in Seq(Byte)
      /\ Len(SubSeq(outbuf, n + 1, Len(outbuf))) = Len(outbuf) - n
      /\ \A i \in 1..Len(outbuf) - n : SubSeq(outbuf, n + 1, Len(outbuf))[i] = outbuf[n + i]
      /\ outbuf = SubSeq(outbuf, 1, n) \o SubSeq(outbuf, n + 1, Len(outbuf))
  BY <1>1, <1>3, CutLemma
<1>5. Here = SubSeq(outbuf, n + 1, Len(outbuf))
  BY <1>3 DEF Here
<1>6. Len(outbuf) - n = Len(outbuf) - at + 1
  BY <1>1, <1>3
<1>7. \A i \in 1..Len(outbuf) - n : n + i = at + i - 1
  BY <1>1, <1>3
<1>8. at \in 1..Len(outbuf) /\ at - 1 = n
  BY <1>1, <1>2
<1>9. \A i \in 1..Len(outbuf) - at + 1 : Here[i] = outbuf[at + i - 1]
  BY <1>4, <1>5, <1>6, <1>7
<1> QED
  BY <1>1, <1>4, <1>5, <1>6, <1>8, <1>9

\* The bytes from a position on.
LEMMA FromLemma ==
    ASSUME NEW s \in Seq(Byte), NEW n \in Nat \ {0}
    PROVE  SubSeq(s, n, Len(s)) \in Seq(Byte)
<1>1. Len(s) \in Nat
  BY LenProperties
<1> QED
  BY <1>1, PartLemma

\* The two kinds of marker step.
LEMMA PartialTypes == ASSUME TypeOK, at # 0, ScanPartial PROVE TypeOK'
<1>1. Scanning
  BY DEF ScanPartial, AtMarker
<1>2. SubSeq(outbuf, 1, at - 1) \in Seq(Byte)
  BY <1>1, HereLemma
<1>3. outbuf' = SubSeq(outbuf, 1, at - 1) /\ pc' = "get" /\ at' = 1
  BY DEF ScanPartial
<1>4. /\ UNCHANGED <<shown, answers, stream, inbuf, got_v2, resp_v1, resp_v2, error>>
      /\ UNCHANGED <<telnet_buf, last_line, rest, text>> /\ SameMud
  BY DEF ScanPartial, mud, lines, SameMud
<1>5. pc' \in Points /\ at' \in Nat
  BY <1>3 DEF Points
<1>6. ReadTypes'
  BY <1>2, <1>3, <1>4, <1>5, ReadTypesLemma DEF ReadTypes
<1> QED
  BY <1>4, <1>6, ReadTypesLemma

LEMMA WillTypes == ASSUME TypeOK, at # 0, ScanWill PROVE TypeOK'
<1>1. Scanning
  BY DEF ScanWill, AtMarker
<1>2. outbuf' \in Seq(Byte)
  <2>1. SubSeq(outbuf, 1, at - 1) \in Seq(Byte)
    BY <1>1, HereLemma
  <2>2. SubSeq(outbuf, at + 3, Len(outbuf)) \in Seq(Byte)
    <3>1. outbuf \in Seq(Byte) /\ at + 3 \in Nat \ {0}
      BY DEF TypeOK
    <3> QED
      BY <3>1, FromLemma
  <2>3. outbuf' = SubSeq(outbuf, 1, at - 1) \o SubSeq(outbuf, at + 3, Len(outbuf))
    BY DEF ScanWill
  <2> QED
    BY <2>1, <2>2, <2>3, ConcatProperties
<1>3. resp_v1' \in {-1, 0, 1} /\ resp_v2' \in BOOLEAN /\ got_v2' \in BOOLEAN
  BY DEF ScanWill, TypeOK
<1>4. /\ UNCHANGED <<shown, answers, stream, inbuf, error>>
      /\ UNCHANGED <<telnet_buf, last_line, pc, at, rest, text>> /\ SameMud
  BY DEF ScanWill, mud, lines, SameMud
<1>5. ReadTypes'
  BY <1>2, <1>3, <1>4, ReadTypesLemma DEF ReadTypes
<1> QED
  BY <1>4, <1>5, ReadTypesLemma

LEMMA OnTypes == ASSUME TypeOK, at # 0, ScanOn PROVE TypeOK'
<1>1. Scanning
  BY DEF ScanOn, AtMarker
<1>2. inbuf' \in Seq(Byte) /\ outbuf' \in Seq(Byte)
  <2>1. SubSeq(outbuf, 1, at - 1) \in Seq(Byte)
    BY <1>1, HereLemma
  <2>2. SubSeq(outbuf, at + 5, Len(outbuf)) \in Seq(Byte)
    <3>1. outbuf \in Seq(Byte) /\ at + 5 \in Nat \ {0}
      BY DEF TypeOK
    <3> QED
      BY <3>1, FromLemma
  <2> QED
    BY <2>1, <2>2 DEF ScanOn
<1>3. stream' \in BOOLEAN /\ pc' \in Points /\ at' \in Nat
  BY DEF ScanOn, Points
<1>4. /\ UNCHANGED <<shown, answers, got_v2, resp_v1, resp_v2, error>>
      /\ UNCHANGED <<telnet_buf, last_line, rest, text>> /\ SameMud
  BY DEF ScanOn, mud, lines, SameMud
<1>5. ReadTypes'
  BY <1>2, <1>3, <1>4, ReadTypesLemma DEF ReadTypes
<1> QED
  BY <1>4, <1>5, ReadTypesLemma

LEMMA EndsTypes ==
    ASSUME TypeOK, ScanEnds \/ GetEnds \/ ParseEnds
    PROVE  TypeOK'
<1>1. pc' \in Points /\ at' \in Nat
  BY DEF ScanEnds, GetEnds, ParseEnds, TypeOK, Points
<1>2. /\ UNCHANGED <<shown, answers, stream, inbuf, outbuf, got_v2, resp_v1, resp_v2, error>>
      /\ UNCHANGED <<telnet_buf, last_line, rest, text>> /\ SameMud
  BY DEF ScanEnds, GetEnds, ParseEnds, mud, mccp, lines, SameMud
<1>3. ReadTypes'
  BY <1>1, <1>2, ReadTypesLemma DEF ReadTypes
<1> QED
  BY <1>2, <1>3, ReadTypesLemma

\* Where the compressed stream ends, what comes before it and what after it.
LEMMA ZipEndLemma ==
    ASSUME TypeOK
    PROVE  /\ ZipEnd \in 0..Len(inbuf) /\ Len(inbuf) \in Nat
           /\ ZipEnd = 0 => \A i \in 1..Len(inbuf) : inbuf[i] # Z_END
           /\ ZipEnd # 0 => inbuf[ZipEnd] = Z_END
           /\ \A i \in 1..Len(inbuf) : i < ZipEnd => inbuf[i] # Z_END
           /\ Zipped \in Seq(Byte) /\ Tail_ \in Seq(Byte)
<1> DEFINE T == {i \in 1..Len(inbuf) : inbuf[i] = Z_END}
<1>1. inbuf \in Seq(Byte) /\ Len(inbuf) \in Nat
  BY LenProperties DEF TypeOK
<1>2. T \subseteq Nat /\ ZipEnd = First(T)
  BY <1>1 DEF ZipEnd
<1>3. /\ First(T) \in Nat
      /\ T = {} => First(T) = 0
      /\ T # {} => First(T) \in T
      /\ \A i \in T : First(T) <= i
  BY <1>2, FirstLemma
<1>4. ZipEnd \in 0..Len(inbuf)
  BY <1>1, <1>2, <1>3
<1>5. ZipEnd = 0 => T = {}
  BY <1>1, <1>2, <1>3
<1>6. ZipEnd # 0 => inbuf[ZipEnd] = Z_END
  BY <1>2, <1>3
<1>7. \A i \in 1..Len(inbuf) : i < ZipEnd => i \notin T
  BY <1>1, <1>2, <1>3
<1>8. Zipped \in Seq(Byte)
  <2>1. CASE ZipEnd = 0
    BY <1>1, <2>1 DEF Zipped
  <2>2. CASE ZipEnd # 0
    <3>1. ZipEnd - 1 \in 0..Len(inbuf)
      BY <1>1, <1>4, <2>2
    <3> QED
      BY <1>1, <2>2, <3>1, CutLemma DEF Zipped
  <2> QED
    BY <2>1, <2>2
<1>9. Tail_ \in Seq(Byte)
  BY <1>1, <1>4, EmptySeq, CutLemma DEF Tail_
<1> QED
  BY <1>1, <1>4, <1>5, <1>6, <1>7, <1>8, <1>9

LEMMA InflateTypes == ASSUME TypeOK, Inflate PROVE TypeOK'
<1> DEFINE plain == [i \in 1..Len(Zipped) |-> Zipped[i] - ZIP]
<1>1. /\ UNCHANGED <<shown, answers, got_v2, resp_v1, resp_v2>>
      /\ UNCHANGED <<telnet_buf, last_line, at, rest, text>> /\ SameMud
      /\ pc' = "get"
  BY DEF Inflate, mud, lines, SameMud
<1>2. pc' \in Points
  BY <1>1 DEF Points
<1>3. CASE \A i \in 1..Len(Zipped) : Zipped[i] \in ZIP .. Z_END - 1
  <2>1. Zipped \in Seq(Byte) /\ Tail_ \in Seq(Byte) /\ Len(Zipped) \in Nat
    BY ZipEndLemma, LenProperties
  <2>2. \A i \in 1..Len(Zipped) : Zipped[i] - ZIP \in Byte
    <3>1. \A b \in ZIP .. Z_END - 1 : b - ZIP \in Byte
      BY DEF Byte, ZIP, Z_END
    <3> QED
      BY <1>3, <3>1
  <2>3. plain \in Seq(Byte)
    BY <2>1, <2>2, IsASeq
  <2>4. outbuf' = (outbuf \o plain) \o Tail_ /\ inbuf' = <<>> /\ stream' = (ZipEnd = 0)
        /\ UNCHANGED error
    BY <1>3 DEF Inflate
  <2> HIDE DEF plain
  <2>5. outbuf' \in Seq(Byte)
    <3>1. outbuf \in Seq(Byte)
      BY DEF TypeOK
    <3>2. outbuf \o plain \in Seq(Byte)
      BY <2>3, <3>1, ConcatProperties
    <3> QED
      BY <2>1, <2>4, <3>2, ConcatProperties
  <2>6. inbuf' \in Seq(Byte) /\ stream' \in BOOLEAN
    BY <2>4, EmptySeq
  <2>7. ReadTypes'
    BY <1>1, <1>2, <2>4, <2>5, <2>6, ReadTypesLemma DEF ReadTypes
  <2> QED
    BY <1>1, <2>7, ReadTypesLemma
<1>4. CASE ~(\A i \in 1..Len(Zipped) : Zipped[i] \in ZIP .. Z_END - 1)
  <2>1. error' = TRUE /\ UNCHANGED <<stream, inbuf, outbuf>>
    BY <1>4 DEF Inflate
  <2>2. ReadTypes'
    BY <1>1, <1>2, <2>1, ReadTypesLemma DEF ReadTypes
  <2> QED
    BY <1>1, <2>2, ReadTypesLemma
<1> QED
  BY <1>3, <1>4

LEMMA GetTypes == ASSUME TypeOK, Get PROVE TypeOK'
<1>1. /\ UNCHANGED <<shown, answers, stream, inbuf, got_v2, resp_v1, resp_v2, error>>
      /\ UNCHANGED <<last_line, at, text>> /\ SameMud
  BY DEF Get, mud, lines, SameMud
<1>2. /\ rest' = SubSeq(telnet_buf \o outbuf, 1, Len(outbuf))
      /\ telnet_buf' = <<>> /\ outbuf' = <<>> /\ pc' = "parse"
  BY DEF Get
<1>3. rest' \in Seq(Byte)
  <2>1. telnet_buf \in Seq(Byte) /\ outbuf \in Seq(Byte) /\ Len(outbuf) \in Nat
        /\ Len(telnet_buf) \in Nat
    BY LenProperties DEF TypeOK
  <2>2. telnet_buf \o outbuf \in Seq(Byte)
        /\ Len(telnet_buf \o outbuf) = Len(telnet_buf) + Len(outbuf)
    BY <2>1, ConcatProperties
  <2>3. Len(outbuf) \in 0..Len(telnet_buf \o outbuf)
    BY <2>1, <2>2
  <2> QED
    BY <1>2, <2>2, <2>3, CutLemma
<1>4. pc' \in Points /\ <<>> \in Seq(Byte)
  BY <1>2, EmptySeq DEF Points
<1>5. ReadTypes'
  BY <1>1, <1>2, <1>3, <1>4, ReadTypesLemma DEF ReadTypes
<1> QED
  BY <1>1, <1>5, ReadTypesLemma

LEMMA ByteTypes == ASSUME TypeOK, ParseByte PROVE TypeOK'
<1>1. /\ UNCHANGED <<shown, answers, stream, inbuf, outbuf, got_v2, resp_v1, resp_v2, error>>
      /\ UNCHANGED <<telnet_buf, last_line, pc, at>> /\ SameMud
  BY DEF ParseByte, mud, mccp, lines, SameMud
<1>2. rest \in Seq(Byte) /\ rest # <<>> /\ text \in Seq(Byte)
  BY DEF ParseByte, TypeOK
<1>3. Head(rest) \in Byte /\ Tail(rest) \in Seq(Byte)
  BY <1>2, HeadTailProperties
<1>4. rest' = Tail(rest) /\ text' \in {text, Append(text, Head(rest))}
  BY DEF ParseByte
<1>5. rest' \in Seq(Byte) /\ text' \in Seq(Byte)
  <2>1. Append(text, Head(rest)) \in Seq(Byte)
    BY <1>2, <1>3, AppendProperties
  <2> QED
    BY <1>2, <1>3, <1>4, <2>1
<1>6. ReadTypes'
  BY <1>1, <1>5, ReadTypesLemma DEF ReadTypes
<1> QED
  BY <1>1, <1>6, ReadTypesLemma

LEMMA ParsePartialTypes == ASSUME TypeOK, ParsePartial PROVE TypeOK'
<1>1. /\ UNCHANGED <<shown, answers, stream, inbuf, outbuf, got_v2, resp_v1, resp_v2, error>>
      /\ UNCHANGED <<last_line, pc, at, text>> /\ SameMud
  BY DEF ParsePartial, mud, mccp, lines, SameMud
<1>2. telnet_buf' = telnet_buf \o rest /\ rest' = <<>>
  BY DEF ParsePartial
<1>3. telnet_buf' \in Seq(Byte) /\ rest' \in Seq(Byte)
  <2>1. telnet_buf \in Seq(Byte) /\ rest \in Seq(Byte)
    BY DEF TypeOK
  <2> QED
    BY <2>1, <1>2, ConcatProperties, EmptySeq
<1>4. ReadTypes'
  BY <1>1, <1>3, ReadTypesLemma DEF ReadTypes
<1> QED
  BY <1>1, <1>4, ReadTypesLemma

\* Where a subnegotiation ends.
LEMMA EndOfSubLemma ==
    ASSUME rest \in Seq(Byte)
    PROVE  /\ EndOfSub \in 0..Len(rest) /\ Len(rest) \in Nat
           /\ EndOfSub # 0 => EndOfSub >= 4
<1>1. Len(rest) \in Nat
  BY LenProperties
<1>2. PICK T : /\ T \subseteq 4..Len(rest)
               /\ EndOfSub = First(T)
  BY DEF EndOfSub
<1>3. T \subseteq Nat
  BY <1>1, <1>2
<1>4. /\ T = {} => EndOfSub = 0
      /\ T # {} => EndOfSub \in T
  BY <1>2, <1>3, FirstLemma
<1>5. EndOfSub = 0 \/ EndOfSub \in 4..Len(rest)
  BY <1>2, <1>4
<1> HIDE DEF EndOfSub
<1> QED
  BY <1>1, <1>5

\* What every answer of the telnet parser is made of.
LEMMA AnswerLemma ==
    \A verb \in Verbs : \A option : Answer(verb, option) \in Verbs /\ Refusal(verb) \in Verbs
BY DEF Answer, Refusal, Verbs, WILL, WONT, DO, DONT

LEMMA RequestStepTypes == ASSUME TypeOK, ParseRequest PROVE TypeOK'
<1>1. /\ UNCHANGED <<shown, stream, inbuf, outbuf, got_v2, resp_v1, resp_v2, error>>
      /\ UNCHANGED <<telnet_buf, last_line, pc, at, text>> /\ SameMud
  BY DEF ParseRequest, mud, mccp, lines, SameMud
<1>2. rest \in Seq(Byte) /\ Len(rest) >= 3 /\ Len(rest) \in Nat /\ Command \in Verbs
  BY LenProperties DEF ParseRequest, Whole, TypeOK
<1>3. rest[3] \in Byte
  BY <1>2, ElementOfSeq
<1>4. answers' = Append(answers, <<Answer(Command, rest[3]), rest[3]>>)
      /\ rest' = SubSeq(rest, 4, Len(rest))
  BY DEF ParseRequest
<1>5. answers' \in Seq((Verbs \cup {SB}) \X Byte)
  <2>1. <<Answer(Command, rest[3]), rest[3]>> \in (Verbs \cup {SB}) \X Byte
    BY <1>2, <1>3, AnswerLemma
  <2>2. answers \in Seq((Verbs \cup {SB}) \X Byte)
    BY DEF TypeOK
  <2> QED
    BY <2>1, <2>2, <1>4, AppendProperties
<1>6. rest' \in Seq(Byte)
  BY <1>2, <1>4, FromLemma
<1>7. ReadTypes'
  BY <1>1, <1>5, <1>6, ReadTypesLemma DEF ReadTypes
<1> QED
  BY <1>1, <1>7, ReadTypesLemma

LEMMA SubTypes == ASSUME TypeOK, ParseSub PROVE TypeOK'
<1>1. /\ UNCHANGED <<shown, stream, inbuf, outbuf, got_v2, resp_v1, resp_v2, error>>
      /\ UNCHANGED <<telnet_buf, last_line, pc, at, text>> /\ SameMud
  BY DEF ParseSub, mud, mccp, lines, SameMud
<1>2. rest \in Seq(Byte)
  BY DEF TypeOK
<1>3. /\ answers' \in {answers, Append(answers, <<SB, TERMINAL_TYPE>>)}
      /\ rest' = SubSeq(rest, EndOfSub + 1, Len(rest))
  BY DEF ParseSub
<1>4. answers' \in Seq((Verbs \cup {SB}) \X Byte)
  <2>1. <<SB, TERMINAL_TYPE>> \in (Verbs \cup {SB}) \X Byte
    BY DEF TERMINAL_TYPE, Byte, Z_END, ZIP
  <2>2. answers \in Seq((Verbs \cup {SB}) \X Byte)
    BY DEF TypeOK
  <2> QED
    BY <2>1, <2>2, <1>3, AppendProperties, SMTT(30)
<1>5. rest' \in Seq(Byte)
  <2>1. EndOfSub + 1 \in Nat \ {0}
    BY <1>2, EndOfSubLemma
  <2> QED
    BY <2>1, <1>2, <1>3, FromLemma
<1>6. ReadTypes'
  BY <1>1, <1>4, <1>5, ReadTypesLemma DEF ReadTypes
<1> QED
  BY <1>1, <1>6, ReadTypesLemma

LEMMA OtherTypes == ASSUME TypeOK, ParseOther PROVE TypeOK'
<1>1. /\ UNCHANGED <<shown, answers, stream, inbuf, outbuf, got_v2, resp_v1, resp_v2, error>>
      /\ UNCHANGED <<telnet_buf, last_line, pc, at>> /\ SameMud
  BY DEF ParseOther, mud, mccp, lines, SameMud
<1>2. rest \in Seq(Byte) /\ text \in Seq(Byte) /\ IAC \in Byte
  BY DEF TypeOK, IAC, Byte, Z_END, ZIP
<1>3. rest' = SubSeq(rest, 3, Len(rest)) /\ text' \in {text, Append(text, IAC)}
  BY DEF ParseOther
<1>4. rest' \in Seq(Byte) /\ text' \in Seq(Byte)
  <2>1. SubSeq(rest, 3, Len(rest)) \in Seq(Byte)
    BY <1>2, FromLemma
  <2>2. Append(text, IAC) \in Seq(Byte)
    BY <1>2, AppendProperties
  <2> QED
    BY <1>2, <1>3, <2>1, <2>2
<1>5. ReadTypes'
  BY <1>1, <1>4, ReadTypesLemma DEF ReadTypes
<1> QED
  BY <1>1, <1>5, ReadTypesLemma

LEMMA RespondTypes == ASSUME TypeOK, Respond PROVE TypeOK'
<1>1. /\ UNCHANGED <<shown, stream, inbuf, outbuf, got_v2, error>>
      /\ UNCHANGED <<telnet_buf, last_line, at, rest, text>> /\ SameMud
  BY DEF Respond, mud, lines, SameMud
<1>2. /\ answers' \in {answers, Append(answers, <<DO, COMPRESS>>),
                       Append(answers, <<DONT, COMPRESS>>), Append(answers, <<DO, COMPRESS2>>)}
      /\ resp_v1' \in {0, resp_v1} /\ resp_v2' \in {FALSE, resp_v2}
      /\ pc' \in {"idle", "lines"}
  BY DEF Respond, StillOwed
<1>3. answers' \in Seq((Verbs \cup {SB}) \X Byte)
  <2>1. answers \in Seq((Verbs \cup {SB}) \X Byte)
    BY DEF TypeOK
  <2>2. \A v \in {DO, DONT}, o \in {COMPRESS, COMPRESS2} : <<v, o>> \in (Verbs \cup {SB}) \X Byte
    BY DEF Verbs, COMPRESS, COMPRESS2, Byte, Z_END, ZIP
  <2>3. ASSUME NEW x \in (Verbs \cup {SB}) \X Byte
        PROVE  Append(answers, x) \in Seq((Verbs \cup {SB}) \X Byte)
    BY <2>1, AppendProperties
  <2> QED
    BY <2>1, <2>2, <2>3, <1>2
<1>4. resp_v1' \in {-1, 0, 1} /\ resp_v2' \in BOOLEAN /\ pc' \in Points
  BY <1>2 DEF TypeOK, Points
<1>5. ReadTypes'
  BY <1>1, <1>3, <1>4, ReadTypesLemma DEF ReadTypes
<1> QED
  BY <1>1, <1>5, ReadTypesLemma

\* How much is shown of what a read brought: all, or up to its last newline.
LEMMA CompleteLemma ==
    ASSUME NEW buf \in Seq(Byte)
    PROVE  /\ Complete(buf) \in 0..Len(buf) /\ Len(buf) \in Nat
           /\ ~more_coming => Complete(buf) = Len(buf)
<1>1. Len(buf) \in Nat
  BY LenProperties
<1>2. CASE more_coming
  <2> DEFINE T == {0} \cup {i \in 1..Len(buf) : buf[i] = NL}
  <2>1. T \subseteq 0..Len(buf) /\ T # {}
    BY <1>1
  <2>2. Max(T) \in T
    BY <1>1, <2>1, GreatestLemma
  <2> QED
    BY <1>1, <1>2, <2>1, <2>2 DEF Complete
<1>3. CASE ~more_coming
  BY <1>1, <1>3 DEF Complete
<1> QED
  BY <1>2, <1>3

LEMMA DisplayTypes == ASSUME TypeOK, Display PROVE TypeOK'
<1> DEFINE buf == IF Merges THEN last_line \o text ELSE text
           kept == SubSeq(buf, Complete(buf) + 1, Len(buf))
<1>1. /\ UNCHANGED <<answers, stream, inbuf, outbuf, got_v2, resp_v1, resp_v2, error>>
      /\ UNCHANGED <<telnet_buf, at, rest>> /\ SameMud
      /\ pc' = "idle" /\ text' = <<>>
      /\ shown' = shown \o SubSeq(buf, 1, Complete(buf))
      /\ last_line' = IF kept # <<>> THEN kept ELSE Leftover
  BY DEF Display, mud, mccp, SameMud
<1>2. last_line \in Seq(Byte) /\ text \in Seq(Byte) /\ shown \in Seq(Byte) /\ <<>> \in Seq(Byte)
  BY EmptySeq DEF TypeOK
<1>3. buf \in Seq(Byte) /\ Leftover \in Seq(Byte)
  BY <1>2, ConcatProperties DEF Leftover
<1>4. SubSeq(buf, 1, Complete(buf)) \in Seq(Byte) /\ kept \in Seq(Byte)
  <2> HIDE DEF buf
  <2>1. Complete(buf) \in 0..Len(buf)
    BY <1>3, CompleteLemma
  <2> QED
    BY <2>1, <1>3, CutLemma
<1>5. shown' \in Seq(Byte) /\ last_line' \in Seq(Byte)
  <2> HIDE DEF buf, kept
  <2> QED
    BY <1>1, <1>2, <1>3, <1>4, ConcatProperties
<1>6. pc' \in Points /\ text' \in Seq(Byte)
  BY <1>1, <1>2 DEF Points
<1>7. ReadTypes'
  <2> HIDE DEF buf, kept
  <2> QED
    BY <1>1, <1>5, <1>6, ReadTypesLemma DEF ReadTypes
<1> QED
  BY <1>1, <1>7, ReadTypesLemma

LEMMA NextTypes == ASSUME TypeOK, at # 0, [Next]_vars PROVE TypeOK' /\ at' # 0
<1>1. ASSUME Mud
      PROVE  at' # 0
  BY <1>1 DEF Mud, SendText, SendRequest, Offer, StartZip, EndZip, Sends
<1>2. ASSUME Read
      PROVE  TypeOK' /\ at' # 0
  BY <1>2, RecvTypes DEF Read, Recv
<1>3. ASSUME Mccp
      PROVE  TypeOK' /\ at' # 0
  <2>1. at' # 0
    <3>1. at \in Nat
      BY DEF TypeOK
    <3>2. ScanPlain => at' # 0
      BY <3>1 DEF ScanPlain
    <3>3. ScanPartial \/ ScanOn \/ ScanEnds => at' # 0
      BY DEF ScanPartial, ScanOn, ScanEnds
    <3>4. ScanWill \/ Inflate => at' = at
      BY DEF ScanWill, Inflate
    <3> QED
      BY <1>3, <3>2, <3>3, <3>4 DEF Mccp
  <2> QED
    BY <1>3, <2>1, PlainTypes, PartialTypes, WillTypes, OnTypes, EndsTypes, InflateTypes DEF Mccp
<1>4. ASSUME Parse
      PROVE  TypeOK' /\ at' # 0
  <2>1. at' # 0
    BY <1>4 DEF Parse, Get, GetEnds, ParseByte, ParsePartial, ParseRequest, ParseSub, ParseOther,
                ParseEnds, Respond
  <2> QED
    BY <1>4, <2>1, GetTypes, EndsTypes, ByteTypes, ParsePartialTypes, RequestStepTypes, SubTypes,
       OtherTypes, RespondTypes DEF Parse
<1>5. ASSUME Display
      PROVE  TypeOK' /\ at' # 0
  BY <1>5, DisplayTypes DEF Display
<1>6. ASSUME UNCHANGED vars
      PROVE  TypeOK' /\ at' # 0
  <2>1. SameMud /\ at' = at
    BY <1>6 DEF vars, mud, mccp, lines, SameMud
  <2>2. ReadTypes'
    BY <1>6, ReadTypesLemma DEF vars, mud, mccp, lines, ReadTypes
  <2> QED
    BY <2>1, <2>2, ReadTypesLemma
<1> QED
  BY <1>1, <1>2, <1>3, <1>4, <1>5, <1>6, MudTypes DEF Next

\* Every variable of the three layers keeps its type, for every chunk size, every
\* mud and however the stream is cut.
THEOREM TypeCorrect == Spec => []TypeOK
<1>1. Init => TypeOK /\ at # 0
  <2>1. Init => at # 0
    BY DEF Init
  <2> QED
    BY <2>1, InitTypes
<1>2. (TypeOK /\ at # 0) /\ [Next]_vars => (TypeOK /\ at # 0)'
  BY NextTypes
<1> QED
  BY <1>1, <1>2, PTL DEF Spec

-----------------------------------------------------------------------------
(* Streams made of items.                                                    *)
(*                                                                           *)
(* An item is a triple <<e, x, y>> of a set R: the sequence e takes a state  *)
(* from x to y.  Leads(R, D, x, s, y) says that s is a row of such items     *)
(* that takes x to y.  It is stated as the least relation closed under one   *)
(* more item, which gives induction over the items of a stream at once.      *)

Extended(R, G) ==
    \A p, y, e, z : <<p, y>> \in G /\ <<e, y, z>> \in R => <<p \o e, z>> \in G

Leads(R, D, x, s, y) ==
    /\ <<s, y>> \in D
    /\ \A G \in SUBSET D : <<<<>>, x>> \in G /\ Extended(R, G) => <<s, y>> \in G

LEMMA LeadsInduction ==
    ASSUME NEW R, NEW D, NEW x, NEW s, NEW y, Leads(R, D, x, s, y),
           NEW G, G \subseteq D, <<<<>>, x>> \in G, Extended(R, G)
    PROVE  <<s, y>> \in G
BY DEF Leads

LEMMA LeadsTypes ==
    ASSUME NEW B, NEW St, NEW R, NEW x, NEW s, NEW y, Leads(R, Seq(B) \X St, x, s, y)
    PROVE  s \in Seq(B) /\ y \in St
BY DEF Leads

LEMMA LeadsNothing ==
    ASSUME NEW B, NEW St, NEW R, NEW x \in St
    PROVE  Leads(R, Seq(B) \X St, x, <<>>, x)
<1>1. <<<<>>, x>> \in Seq(B) \X St
  BY EmptySeq
<1> QED
  BY <1>1 DEF Leads

LEMMA LeadsStep ==
    ASSUME NEW B, NEW St, NEW R, R \subseteq Seq(B) \X St \X St,
           NEW x, NEW s, NEW y, Leads(R, Seq(B) \X St, x, s, y),
           NEW e, NEW z, <<e, y, z>> \in R
    PROVE  Leads(R, Seq(B) \X St, x, s \o e, z)
<1>1. s \in Seq(B) /\ e \in Seq(B) /\ z \in St
  BY LeadsTypes
<1>2. <<s \o e, z>> \in Seq(B) \X St
  BY <1>1, ConcatProperties
<1>3. ASSUME NEW G \in SUBSET (Seq(B) \X St), <<<<>>, x>> \in G, Extended(R, G)
      PROVE  <<s \o e, z>> \in G
  <2>1. <<s, y>> \in G
    BY <1>3 DEF Leads
  <2> QED
    BY <1>3, <2>1 DEF Extended
<1> QED
  BY <1>2, <1>3 DEF Leads

LEMMA LeadsOne ==
    ASSUME NEW B, NEW St, NEW R, R \subseteq Seq(B) \X St \X St,
           NEW x, NEW e, NEW y, <<e, x, y>> \in R
    PROVE  Leads(R, Seq(B) \X St, x, e, y)
<1>1. x \in St /\ e \in Seq(B)
  OBVIOUS
<1>2. Leads(R, Seq(B) \X St, x, <<>>, x)
  BY <1>1, LeadsNothing
<1>3. Leads(R, Seq(B) \X St, x, <<>> \o e, y)
  BY <1>2, LeadsStep
<1>4. <<>> \o e = e
  BY <1>1, ConcatEmptySeq
<1> QED
  BY <1>3, <1>4

LEMMA LeadsConcat ==
    ASSUME NEW B, NEW St, NEW R, R \subseteq Seq(B) \X St \X St,
           NEW x, NEW s, NEW y, Leads(R, Seq(B) \X St, x, s, y),
           NEW t, NEW z, Leads(R, Seq(B) \X St, y, t, z)
    PROVE  Leads(R, Seq(B) \X St, x, s \o t, z)
<1> DEFINE D == Seq(B) \X St
           G == {p \in D : Leads(R, D, x, s \o p[1], p[2])}
<1>1. G \subseteq D
  OBVIOUS
<1>2. s \in Seq(B) /\ y \in St
  BY LeadsTypes
<1>3. <<<<>>, y>> \in G
  <2>1. <<>> \in Seq(B) /\ s \o <<>> = s
    BY <1>2, EmptySeq, ConcatEmptySeq
  <2> QED
    BY <1>2, <2>1
<1>4. Extended(R, G)
  <2>1. ASSUME NEW p, NEW w, NEW e, NEW v, <<p, w>> \in G, <<e, w, v>> \in R
        PROVE  <<p \o e, v>> \in G
    <3>1. p \in Seq(B) /\ e \in Seq(B) /\ v \in St /\ Leads(R, D, x, s \o p, w)
      BY <2>1
    <3>2. Leads(R, D, x, (s \o p) \o e, v)
      BY <2>1, <3>1, LeadsStep
    <3>3. (s \o p) \o e = s \o (p \o e)
      BY <1>2, <3>1, ConcatAssociative, SMTT(30)
    <3>4. p \o e \in Seq(B)
      BY <3>1, ConcatProperties
    <3>5. <<p \o e, v>> \in D
      BY <3>1, <3>4
    <3> QED
      BY <3>2, <3>3, <3>5
  <2> HIDE DEF G
  <2> QED
    BY <2>1 DEF Extended
<1>5. <<t, z>> \in G
  <2> HIDE DEF G
  <2> QED
    BY <1>1, <1>3, <1>4, LeadsInduction
<1> QED
  BY <1>5

\* A stream is empty, or an item and a stream.
Headed(R, D, x, s, y) ==
    \/ s = <<>> /\ y = x
    \/ \E e, w, t : <<e, x, w>> \in R /\ s = e \o t /\ Leads(R, D, w, t, y)

LEMMA LeadsHead ==
    ASSUME NEW B, NEW St, NEW R, R \subseteq Seq(B) \X St \X St,
           NEW x \in St, NEW s, NEW y, Leads(R, Seq(B) \X St, x, s, y)
    PROVE  Headed(R, Seq(B) \X St, x, s, y)
<1> DEFINE D == Seq(B) \X St
           G == {p \in D : Headed(R, D, x, p[1], p[2])}
<1>1. G \subseteq D
  OBVIOUS
<1>2. <<<<>>, x>> \in G
  BY EmptySeq DEF Headed
<1>3. ASSUME NEW p, NEW z, NEW e, NEW v, <<p, z>> \in G, <<e, z, v>> \in R
      PROVE  <<p \o e, v>> \in G
  <2>1. p \in Seq(B) /\ e \in Seq(B) /\ z \in St /\ v \in St /\ Headed(R, D, x, p, z)
    BY <1>3
  <2>2. Headed(R, D, x, p \o e, v)
    <3>1. CASE p = <<>> /\ z = x
      <4>1. p \o e = e /\ e \o <<>> = e
        BY <2>1, <3>1, ConcatEmptySeq
      <4>2. Leads(R, D, v, <<>>, v)
        BY <2>1, LeadsNothing
      <4> QED
        BY <1>3, <3>1, <4>1, <4>2 DEF Headed
    <3>2. ASSUME NEW e1, NEW w, NEW t, <<e1, x, w>> \in R, p = e1 \o t, Leads(R, D, w, t, z)
          PROVE  Headed(R, D, x, p \o e, v)
      <4>1. e1 \in Seq(B) /\ t \in Seq(B)
        BY <3>2, LeadsTypes
      <4>2. (e1 \o t) \o e = e1 \o (t \o e)
        BY <2>1, <4>1, ConcatAssociative
      <4>3. Leads(R, D, w, t \o e, v)
        BY <1>3, <3>2, LeadsStep
      <4> QED
        BY <3>2, <4>2, <4>3 DEF Headed
    <3> QED
      BY <2>1, <3>1, <3>2 DEF Headed
  <2>3. <<p \o e, v>> \in D
    BY <2>1, ConcatProperties
  <2> QED
    BY <2>2, <2>3
<1> HIDE DEF G
<1>4. Extended(R, G)
  BY <1>3 DEF Extended
<1>5. <<s, y>> \in G
  BY <1>1, <1>2, <1>4, LeadsInduction
<1> QED
  BY <1>5 DEF G

\* No item is empty.
Solid(R) == \A e, x, y : <<e, x, y>> \in R => e # <<>>

LEMMA LeadsSame ==
    ASSUME NEW B, NEW St, NEW R, R \subseteq Seq(B) \X St \X St, Solid(R),
           NEW x \in St, NEW s, NEW y, Leads(R, Seq(B) \X St, x, s, y)
    PROVE  s = <<>> => y = x
<1>1. ASSUME NEW e, NEW w, NEW t, <<e, x, w>> \in R, s = e \o t,
             Leads(R, Seq(B) \X St, w, t, y)
      PROVE  s # <<>>
  <2>1. e \in Seq(B) /\ t \in Seq(B) /\ e # <<>>
    BY <1>1, LeadsTypes DEF Solid
  <2>2. e \o t = <<>> <=> e = <<>> /\ t = <<>>
    BY <2>1, ConcatEqualIffEmpty
  <2> QED
    BY <1>1, <2>1, <2>2
<1>2. Headed(R, Seq(B) \X St, x, s, y)
  BY LeadsHead
<1> QED
  BY <1>1, <1>2 DEF Headed

\* What every item of a stream keeps, the stream keeps.
LEMMA LeadsKeeps ==
    ASSUME NEW B, NEW St, NEW R, R \subseteq Seq(B) \X St \X St,
           NEW x \in St, NEW s, NEW y, Leads(R, Seq(B) \X St, x, s, y),
           NEW U, x \in U, \A e, v, w : <<e, v, w>> \in R /\ v \in U => w \in U
    PROVE  y \in U
<1> DEFINE G == {p \in Seq(B) \X St : p[2] \in U}
<1>1. G \subseteq Seq(B) \X St
  OBVIOUS
<1>2. <<<<>>, x>> \in G
  BY EmptySeq
<1>3. ASSUME NEW p, NEW z, NEW e, NEW v, <<p, z>> \in G, <<e, z, v>> \in R
      PROVE  <<p \o e, v>> \in G
  <2>1. p \in Seq(B) /\ e \in Seq(B) /\ v \in St /\ v \in U
    BY <1>3
  <2>2. <<p \o e, v>> \in Seq(B) \X St
    BY <2>1, ConcatProperties
  <2> QED
    BY <2>1, <2>2
<1> HIDE DEF G
<1>4. Extended(R, G)
  BY <1>3 DEF Extended
<1>5. <<s, y>> \in G
  BY <1>1, <1>2, <1>4, LeadsInduction
<1> QED
  BY <1>5 DEF G

-----------------------------------------------------------------------------
(* What the mud writes, item by item, and what it makes of the mud's state:  *)
(* the text sent and the requests made so far.                               *)

Text == Seq(Byte)
Asked == Seq(Verbs \X Byte)
PlainState == Text \X Asked

TTYPE == <<IAC, SB, TERMINAL_TYPE, SEND, IAC, SE>>

PlainItem(e, x, y) ==
    \/ \E b \in 1..254 : e = <<b>> /\ y = <<Append(x[1], b), x[2]>>
    \/ e = <<IAC, IAC>> /\ y = <<Append(x[1], IAC), x[2]>>
    \/ e \in {<<0>>, <<IAC, GA>>, TTYPE} /\ y = x
    \/ \E v \in Verbs, o \in 0..254 :
         /\ o # COMPRESS /\ o # COMPRESS2
         /\ e = <<IAC, v, o>> /\ y = <<x[1], Append(x[2], <<v, o>>)>>

Plain == {i \in Text \X PlainState \X PlainState : PlainItem(i[1], i[2], i[3])}

\* With MCCP the state has the versions offered and the mode, too.
RawState == PlainState \X (SUBSET {COMPRESS, COMPRESS2}) \X {"plain", "zipped", "ended"}

Packed(d) == [i \in 1..Len(d) |-> ZIP + d[i]]

Telnet_(e, x, y) ==         \* an item of the other kind, compressed or not
    /\ y[2] = x[2] /\ y[3] = x[3]
    /\ \/ x[3] # "zipped" /\ <<e, x[1], y[1]>> \in Plain
       \/ x[3] = "zipped" /\ \E d : <<d, x[1], y[1]>> \in Plain /\ e = Packed(d)

Offered_(e, x, y) ==
    /\ y[1] = x[1] /\ x[3] = "plain" /\ y[3] = "plain"
    /\ \/ e = will_v1 /\ COMPRESS \notin x[2] /\ y[2] = x[2] \cup {COMPRESS}
       \/ e = will_v2 /\ x[2] = {} /\ y[2] = {COMPRESS2}

Started(e, x, y) ==
    /\ y[1] = x[1] /\ y[2] = x[2] /\ x[3] = "plain" /\ y[3] = "zipped"
    /\ \/ e = on_v2 /\ COMPRESS2 \in x[2]
       \/ e = on_v1 /\ x[2] = {COMPRESS}

Ended(e, x, y) ==
    /\ y[1] = x[1] /\ y[2] = x[2] /\ x[3] = "zipped" /\ y[3] = "ended"
    /\ e = <<Z_END>>

RawItem(e, x, y) ==
    Telnet_(e, x, y) \/ Offered_(e, x, y) \/ Started(e, x, y) \/ Ended(e, x, y)

Raw == {i \in Text \X RawState \X RawState : RawItem(i[1], i[2], i[3])}

\* On the wire a byte knows whether it is the last one of its item, and of a text.
Bytes(w) == [i \in 1..Len(w) |-> w[i].byte]

WireItem(w, x, y) ==
    /\ <<Bytes(w), x, y>> \in Raw
    /\ \A i \in 1..Len(w) : w[i].last <=> i = Len(w)
    /\ (\E i \in 1..Len(w) : w[i].text) => Len(y[1][1]) > Len(x[1][1])

Wired == {i \in Seq(WireByte) \X RawState \X RawState : WireItem(i[1], i[2], i[3])}

PlainLeads(x, s, y) == Leads(Plain, Seq(Byte) \X PlainState, x, s, y)
RawLeads(x, s, y) == Leads(Raw, Seq(Byte) \X RawState, x, s, y)
WireLeads(x, s, y) == Leads(Wired, Seq(WireByte) \X RawState, x, s, y)

LEMMA ItemSets ==
    /\ Plain \subseteq Seq(Byte) \X PlainState \X PlainState
    /\ Raw \subseteq Seq(Byte) \X RawState \X RawState
    /\ Wired \subseteq Seq(WireByte) \X RawState \X RawState
BY DEF Plain, Raw, Wired, Text

LEMMA PlainItemLemma ==
    ASSUME NEW e, NEW x, NEW y
    PROVE  <<e, x, y>> \in Plain <=>
             e \in Seq(Byte) /\ x \in PlainState /\ y \in PlainState /\ PlainItem(e, x, y)
<1> HIDE DEF PlainItem
<1> QED
  BY DEF Plain, Text

LEMMA RawItemLemma ==
    ASSUME NEW e, NEW x, NEW y
    PROVE  <<e, x, y>> \in Raw <=>
             e \in Seq(Byte) /\ x \in RawState /\ y \in RawState /\ RawItem(e, x, y)
<1> HIDE DEF RawItem
<1> QED
  BY DEF Raw, Text

LEMMA WireItemLemma ==
    ASSUME NEW w, NEW x, NEW y
    PROVE  <<w, x, y>> \in Wired <=>
             w \in Seq(WireByte) /\ x \in RawState /\ y \in RawState /\ WireItem(w, x, y)
<1> HIDE DEF WireItem
<1> QED
  BY DEF Wired

LEMMA StateFacts ==
    /\ \A x \in PlainState : x = <<x[1], x[2]>> /\ x[1] \in Text /\ x[2] \in Asked
    /\ \A t \in Text, a \in Asked : <<t, a>> \in PlainState
    /\ \A x \in RawState : /\ x = <<x[1], x[2], x[3]>>
                           /\ x[1] \in PlainState /\ x[2] \in SUBSET {COMPRESS, COMPRESS2}
                           /\ x[3] \in {"plain", "zipped", "ended"}
    /\ \A p \in PlainState, o \in SUBSET {COMPRESS, COMPRESS2}, m \in {"plain", "zipped", "ended"} :
         <<p, o, m>> \in RawState
BY DEF PlainState, RawState

\* The bytes an item is made of.
LEMMA PlainByteLemma ==
    ASSUME NEW e, NEW x, NEW y, <<e, x, y>> \in Plain
    PROVE  /\ e \in Seq(0..255) /\ Len(e) \in Nat /\ Len(e) # 0 /\ e # <<>>
           /\ \A i \in 1..Len(e) : e[i] \in 0..255
<1>1. PlainItem(e, x, y)
  BY PlainItemLemma
<1>2. {0, IAC, GA, SB, TERMINAL_TYPE, SEND, SE} \subseteq 0..255 /\ Verbs \subseteq 0..255
  BY DEF IAC, GA, SB, TERMINAL_TYPE, SEND, SE, Verbs, WILL, WONT, DO, DONT
<1>3. ASSUME NEW b \in 1..254, e = <<b>>
      PROVE  e \in Seq(0..255) /\ Len(e) # 0
  BY <1>3
<1>4. ASSUME e = << 0 >> \/ e = <<IAC, GA>> \/ e = <<IAC, IAC>>
      PROVE  e \in Seq(0..255) /\ Len(e) # 0
  <2>1. CASE e = <<0>>
    BY <1>2, <2>1
  <2>2. CASE e = <<IAC, GA>>
    BY <1>2, <2>2
  <2>3. CASE e = <<IAC, IAC>>
    BY <1>2, <2>3
  <2> QED
    BY <1>4, <2>1, <2>2, <2>3
<1>5. ASSUME e = TTYPE
      PROVE  e \in Seq(0..255) /\ Len(e) # 0
  BY <1>2, <1>5 DEF TTYPE
<1>6. ASSUME NEW v \in Verbs, NEW o \in 0..254, e = <<IAC, v, o>>
      PROVE  e \in Seq(0..255) /\ Len(e) # 0
  <2>1. v \in 0..255 /\ o \in 0..255 /\ IAC \in 0..255
    BY <1>2
  <2> QED
    BY <1>6, <2>1
<1>7. e \in Seq(0..255) /\ Len(e) # 0
  <2> HIDE DEF TTYPE
  <2> QED
    BY <1>1, <1>3, <1>4, <1>5, <1>6 DEF PlainItem
<1>8. Len(e) \in Nat /\ e # <<>>
  BY <1>7, LenProperties, EmptySeq
<1> QED
  BY <1>7, <1>8, ElementOfSeq

LEMMA ZipLemma ==
    ASSUME NEW d \in Seq(0..255)
    PROVE  /\ Packed(d) \in Seq(Byte) /\ Len(Packed(d)) = Len(d)
           /\ \A i \in 1..Len(d) : Packed(d)[i] = ZIP + d[i] /\ Packed(d)[i] \in ZIP..Z_END - 1
<1>1. Len(d) \in Nat /\ \A i \in 1..Len(d) : d[i] \in 0..255
  BY LenProperties, ElementOfSeq
<1>2. \A b \in 0..255 : ZIP + b \in Byte /\ ZIP + b \in ZIP..Z_END - 1
  BY DEF Byte, ZIP, Z_END
<1>3. \A i \in 1..Len(d) : ZIP + d[i] \in Byte /\ ZIP + d[i] \in ZIP..Z_END - 1
  BY <1>1, <1>2
<1>4. Packed(d) \in Seq(Byte)
  BY <1>1, <1>3, IsASeq DEF Packed
<1>5. Len(Packed(d)) = Len(d) /\ \A i \in 1..Len(d) : Packed(d)[i] = ZIP + d[i]
  BY <1>1 DEF Packed
<1> QED
  BY <1>3, <1>4, <1>5

LEMMA SolidItems == Solid(Plain) /\ Solid(Raw) /\ Solid(Wired)
<1>1. Solid(Plain)
  BY PlainByteLemma DEF Solid
<1>2. ASSUME NEW e, NEW x, NEW y, <<e, x, y>> \in Raw
      PROVE  e # <<>>
  <2>1. RawItem(e, x, y)
    BY <1>2, RawItemLemma
  <2>2. CASE Telnet_(e, x, y)
    <3>1. ASSUME NEW d, <<d, x[1], y[1]>> \in Plain, e = Packed(d)
          PROVE  e # <<>>
      <4>1. d \in Seq(0..255) /\ Len(d) # 0
        BY <3>1, PlainByteLemma
      <4>2. Len(e) = Len(d)
        BY <3>1, <4>1, ZipLemma
      <4> QED
        BY <4>1, <4>2, EmptySeq
    <3> QED
      BY <2>2, <3>1, <1>1 DEF Telnet_, Solid
  <2>3. CASE Offered_(e, x, y)
    BY <2>3 DEF Offered_, will_v1, will_v2
  <2>4. CASE Started(e, x, y)
    <3>1. on_v1 # <<>> /\ on_v2 # <<>>
      <4>1. Len(on_v1) = 5 /\ Len(on_v2) = 5
        BY DEF on_v1, on_v2
      <4> QED
        BY <4>1, EmptySeq
    <3> QED
      BY <2>4, <3>1 DEF Started
  <2>5. CASE Ended(e, x, y)
    BY <2>5 DEF Ended
  <2> QED
    BY <2>1, <2>2, <2>3, <2>4, <2>5 DEF RawItem
<1>3. ASSUME NEW w, NEW x, NEW y, <<w, x, y>> \in Wired
      PROVE  w # <<>>
  <2>1. <<Bytes(w), x, y>> \in Raw
    BY <1>3, WireItemLemma DEF WireItem
  <2>2. Bytes(w) # <<>>
    BY <2>1, <1>2
  <2>3. w = <<>> => Bytes(w) = <<>>
    BY DEF Bytes
  <2> QED
    BY <2>2, <2>3
<1> QED
  BY <1>1, <1>2, <1>3 DEF Solid

\* The text of a stream is written behind the text before it.
Begins(t, u) == \E r \in Text : u = t \o r

LEMMA BeginsLemma ==
    /\ \A t \in Text : Begins(t, t)
    /\ \A t \in Text : \A u, v : Begins(t, u) /\ Begins(u, v) => Begins(t, v)
    /\ \A t \in Text : \A u : Begins(t, u) => u \in Text /\ Len(t) <= Len(u)
    /\ \A t \in Text, b \in Byte : Begins(t, Append(t, b))
<1>1. ASSUME NEW t \in Text
      PROVE  Begins(t, t)
  <2>1. <<>> \in Text /\ t \o <<>> = t
    BY EmptySeq, ConcatEmptySeq DEF Text
  <2> QED
    BY <2>1 DEF Begins
<1>2. ASSUME NEW t \in Text, NEW u, NEW v, Begins(t, u), Begins(u, v)
      PROVE  Begins(t, v)
  <2>1. PICK r \in Text : u = t \o r
    BY <1>2 DEF Begins
  <2>2. PICK q \in Text : v = u \o q
    BY <1>2 DEF Begins
  <2>3. v = t \o (r \o q) /\ r \o q \in Text
    BY <2>1, <2>2, ConcatAssociative, ConcatProperties DEF Text
  <2> QED
    BY <2>3 DEF Begins
<1>3. ASSUME NEW t \in Text, NEW u, Begins(t, u)
      PROVE  u \in Text /\ Len(t) <= Len(u)
  <2>1. PICK r \in Text : u = t \o r
    BY <1>3 DEF Begins
  <2>2. u \in Text /\ Len(u) = Len(t) + Len(r) /\ Len(t) \in Nat /\ Len(r) \in Nat
    BY <2>1, ConcatProperties, LenProperties DEF Text
  <2> QED
    BY <2>2
<1>4. ASSUME NEW t \in Text, NEW b \in Byte
      PROVE  Begins(t, Append(t, b))
  <2>1. Append(t, b) = t \o <<b>> /\ <<b>> \in Text
    BY AppendIsConcat DEF Text
  <2> QED
    BY <2>1 DEF Begins
<1> QED
  BY <1>1, <1>2, <1>3, <1>4

LEMMA PlainBegins ==
    ASSUME NEW e, NEW x, NEW y, <<e, x, y>> \in Plain
    PROVE  x \in PlainState /\ y \in PlainState /\ Begins(x[1], y[1])
<1>1. x \in PlainState /\ y \in PlainState /\ PlainItem(e, x, y) /\ x[1] \in Text
  BY PlainItemLemma, StateFacts
<1>2. IAC \in Byte /\ \A b \in 1..254 : b \in Byte
  BY DEF IAC, Byte, Z_END, ZIP
<1>3. y[1] = x[1] \/ \E b \in Byte : y[1] = Append(x[1], b)
  <2>1. ASSUME NEW b \in 1..254, y = <<Append(x[1], b), x[2]>>
        PROVE  \E c \in Byte : y[1] = Append(x[1], c)
    BY <1>2, <2>1
  <2>2. ASSUME y = <<Append(x[1], IAC), x[2]>>
        PROVE  \E c \in Byte : y[1] = Append(x[1], c)
    BY <1>2, <2>2
  <2>3. ASSUME NEW q, y = <<x[1], q>>
        PROVE  y[1] = x[1]
    BY <2>3
  <2> QED
    BY <1>1, <2>1, <2>2, <2>3 DEF PlainItem
<1> QED
  BY <1>1, <1>3, BeginsLemma

LEMMA RawBegins ==
    ASSUME NEW e, NEW x, NEW y, <<e, x, y>> \in Raw
    PROVE  /\ x \in RawState /\ y \in RawState
           /\ x[1][1] \in Text /\ y[1][1] \in Text
           /\ Begins(x[1][1], y[1][1]) 
           /\ x[2] \subseteq y[2]
           /\ x[2] = {COMPRESS} => y[2] = {COMPRESS}
<1>1. x \in RawState /\ y \in RawState /\ RawItem(e, x, y)
  BY RawItemLemma
<1>2. x[1] \in PlainState /\ y[1] \in PlainState /\ x[1][1] \in Text /\ y[1][1] \in Text
  BY <1>1, StateFacts
<1>3. CASE Telnet_(e, x, y)
  <2>1. \E d : <<d, x[1], y[1]>> \in Plain
    BY <1>3 DEF Telnet_
  <2> QED
    BY <1>1, <1>2, <1>3, <2>1, PlainBegins DEF Telnet_
<1>4. CASE Offered_(e, x, y)
  BY <1>1, <1>2, <1>4, BeginsLemma DEF Offered_
<1>5. CASE Started(e, x, y) \/ Ended(e, x, y)
  BY <1>1, <1>2, <1>5, BeginsLemma DEF Started, Ended
<1> QED
  BY <1>1, <1>3, <1>4, <1>5 DEF RawItem

\* So it is with a stream of items.
Later(x, y) ==
    /\ Begins(x[1][1], y[1][1]) /\ x[2] \subseteq y[2]
    /\ x[2] = {COMPRESS} => y[2] = {COMPRESS}

LEMMA LaterLemma ==
    /\ \A x \in RawState : Later(x, x)
    /\ \A x \in RawState, y \in RawState : \A z : Later(x, y) /\ Later(y, z) => Later(x, z)
<1>1. \A x \in RawState : x[1][1] \in Text
  BY StateFacts
<1> QED
  BY <1>1, BeginsLemma DEF Later

LEMMA PlainStreamBegins ==
    ASSUME NEW x \in PlainState, NEW s, NEW y, PlainLeads(x, s, y)
    PROVE  Begins(x[1], y[1]) /\ y \in PlainState /\ s \in Seq(Byte)
<1> DEFINE U == {z \in PlainState : Begins(x[1], z[1])}
<1>1. x[1] \in Text /\ x \in U
  BY StateFacts, BeginsLemma
<1>2. ASSUME NEW e, NEW v, NEW w, <<e, v, w>> \in Plain, v \in U
      PROVE  w \in U
  BY <1>1, <1>2, PlainBegins, BeginsLemma
<1> HIDE DEF U
<1>3. y \in U
  BY <1>1, <1>2, ItemSets, LeadsKeeps DEF PlainLeads
<1> QED
  BY <1>3, LeadsTypes DEF U, PlainLeads

LEMMA RawStreamLater ==
    ASSUME NEW x \in RawState, NEW s, NEW y, RawLeads(x, s, y)
    PROVE  Later(x, y) /\ y \in RawState /\ s \in Seq(Byte)
<1> DEFINE U == {z \in RawState : Later(x, z)}
<1>1. x \in U
  BY LaterLemma
<1>2. ASSUME NEW e, NEW v, NEW w, <<e, v, w>> \in Raw, v \in U
      PROVE  w \in U
  <2>1. Later(v, w) /\ w \in RawState /\ v \in RawState /\ Later(x, v)
    BY <1>2, RawBegins DEF Later
  <2> QED
    BY <2>1, LaterLemma
<1> HIDE DEF U
<1>3. y \in U
  BY <1>1, <1>2, ItemSets, LeadsKeeps DEF RawLeads
<1> QED
  BY <1>3, LeadsTypes DEF U, RawLeads

LEMMA WireStreamLater ==
    ASSUME NEW x \in RawState, NEW s, NEW y, WireLeads(x, s, y)
    PROVE  Later(x, y) /\ y \in RawState /\ s \in Seq(WireByte)
<1> DEFINE U == {z \in RawState : Later(x, z)}
<1>1. x \in U
  BY LaterLemma
<1>2. ASSUME NEW e, NEW v, NEW w, <<e, v, w>> \in Wired, v \in U
      PROVE  w \in U
  <2>1. <<Bytes(e), v, w>> \in Raw
    BY <1>2, WireItemLemma DEF WireItem
  <2>2. Later(v, w) /\ w \in RawState /\ v \in RawState /\ Later(x, v)
    BY <1>2, <2>1, RawBegins DEF Later
  <2> QED
    BY <2>2, LaterLemma
<1> HIDE DEF U
<1>3. y \in U
  BY <1>1, <1>2, ItemSets, LeadsKeeps DEF WireLeads
<1> QED
  BY <1>3, LeadsTypes DEF U, WireLeads

\* A row without its first n elements.
After(s, n) == SubSeq(s, n + 1, Len(s))

\* A row cut within its first part, or between its parts.
LEMMA JoinLemma ==
    ASSUME NEW Item, NEW s \in Seq(Item), NEW t \in Seq(Item), NEW n \in 0..Len(s)
    PROVE  /\ s \o t \in Seq(Item) /\ Len(s \o t) = Len(s) + Len(t)
           /\ SubSeq(s \o t, 1, n) = SubSeq(s, 1, n)
           /\ After(s \o t, n) = After(s, n) \o t
           /\ SubSeq(s \o t, 1, Len(s)) = s
           /\ After(s \o t, Len(s)) = t
<1> DEFINE u == s \o t
<1>1. Len(s) \in Nat /\ Len(t) \in Nat
  BY LenProperties
<1>2. /\ u \in Seq(Item) /\ Len(u) = Len(s) + Len(t)
      /\ \A i \in 1..Len(s) + Len(t) : u[i] = IF i <= Len(s) THEN s[i] ELSE t[i - Len(s)]
  BY ConcatProperties
<1> HIDE DEF u
<1>3. n \in 0..Len(u) /\ Len(s) \in 0..Len(u) /\ Len(s) \in 0..Len(s)
  BY <1>1, <1>2
<1>4. /\ SubSeq(u, 1, n) \in Seq(Item) /\ Len(SubSeq(u, 1, n)) = n
      /\ SubSeq(u, n + 1, Len(u)) \in Seq(Item) /\ Len(SubSeq(u, n + 1, Len(u))) = Len(u) - n
      /\ \A i \in 1..n : SubSeq(u, 1, n)[i] = u[i]
      /\ \A i \in 1..Len(u) - n : SubSeq(u, n + 1, Len(u))[i] = u[n + i]
  BY <1>2, <1>3, CutLemma
<1>5. /\ SubSeq(s, 1, n) \in Seq(Item) /\ Len(SubSeq(s, 1, n)) = n
      /\ SubSeq(s, n + 1, Len(s)) \in Seq(Item) /\ Len(SubSeq(s, n + 1, Len(s))) = Len(s) - n
      /\ \A i \in 1..n : SubSeq(s, 1, n)[i] = s[i]
      /\ \A i \in 1..Len(s) - n : SubSeq(s, n + 1, Len(s))[i] = s[n + i]
  BY CutLemma
<1>6. SubSeq(u, 1, n) = SubSeq(s, 1, n)
  <2>1. \A i \in 1..n : u[i] = s[i]
    BY <1>1, <1>2
  <2>2. \A i \in 1..Len(SubSeq(u, 1, n)) : SubSeq(u, 1, n)[i] = SubSeq(s, 1, n)[i]
    BY <2>1, <1>4, <1>5
  <2> QED
    BY <2>2, <1>4, <1>5, SeqEqual
<1> DEFINE v == SubSeq(s, n + 1, Len(s))
           w == SubSeq(u, n + 1, Len(u))
<1>7. w = v \o t
  <2>1. /\ v \in Seq(Item) /\ Len(v) = Len(s) - n /\ \A i \in 1..Len(s) - n : v[i] = s[n + i]
        /\ w \in Seq(Item) /\ Len(w) = Len(u) - n /\ \A i \in 1..Len(u) - n : w[i] = u[n + i]
    BY <1>4, <1>5
  <2> HIDE DEF v, w
  <2>2. /\ v \o t \in Seq(Item) /\ Len(v \o t) = Len(v) + Len(t)
        /\ \A i \in 1..Len(v) + Len(t) : (v \o t)[i] = IF i <= Len(v) THEN v[i] ELSE t[i - Len(v)]
    BY <2>1, ConcatProperties
  <2>3. Len(w) = Len(v \o t)
    BY <2>1, <2>2, <1>1, <1>2
  <2>4. ASSUME NEW i \in 1..Len(w)
        PROVE  w[i] = (v \o t)[i]
    <3>1. w[i] = u[n + i] /\ n + i \in 1..Len(s) + Len(t) /\ i \in 1..Len(v) + Len(t)
      BY <2>1, <1>1, <1>2
    <3>2. CASE i <= Len(v)
      <4>1. (v \o t)[i] = s[n + i] /\ n + i <= Len(s)
        BY <3>1, <3>2, <2>1, <2>2, <1>1, SMTT(30)
      <4> QED
        BY <4>1, <3>1, <1>2
    <3>3. CASE ~(i <= Len(v))
      <4>1. (v \o t)[i] = t[i - Len(v)] /\ ~(n + i <= Len(s)) /\ i - Len(v) = n + i - Len(s)
        BY <3>1, <3>3, <2>1, <2>2, <1>1, SMTT(30)
      <4> QED
        BY <4>1, <3>1, <1>2, SMTT(30)
    <3> QED
      BY <3>2, <3>3
  <2> QED
    BY <2>1, <2>2, <2>3, <2>4, SeqEqual
<1>8. SubSeq(u, 1, Len(s)) = s /\ SubSeq(u, Len(s) + 1, Len(u)) = t
  <2>1. /\ SubSeq(u, 1, Len(s)) \in Seq(Item) /\ Len(SubSeq(u, 1, Len(s))) = Len(s)
        /\ SubSeq(u, Len(s) + 1, Len(u)) \in Seq(Item)
        /\ Len(SubSeq(u, Len(s) + 1, Len(u))) = Len(u) - Len(s)
        /\ \A i \in 1..Len(s) : SubSeq(u, 1, Len(s))[i] = u[i]
        /\ \A i \in 1..Len(u) - Len(s) : SubSeq(u, Len(s) + 1, Len(u))[i] = u[Len(s) + i]
    BY <1>2, <1>3, CutLemma
  <2>2. \A i \in 1..Len(s) : u[i] = s[i]
    BY <1>1, <1>2
  <2>3. \A i \in 1..Len(t) : u[Len(s) + i] = t[i]
    <3>1. ASSUME NEW i \in 1..Len(t) PROVE u[Len(s) + i] = t[i]
      <4>1. Len(s) + i \in 1..Len(s) + Len(t) /\ ~(Len(s) + i <= Len(s)) /\ Len(s) + i - Len(s) = i
        BY <1>1
      <4> QED
        BY <4>1, <1>2
    <3> QED
      BY <3>1
  <2>4. SubSeq(u, 1, Len(s)) = s
    <3>1. \A i \in 1..Len(SubSeq(u, 1, Len(s))) : SubSeq(u, 1, Len(s))[i] = s[i]
      BY <2>1, <2>2
    <3> QED
      BY <3>1, <2>1, SeqEqual
  <2>5. SubSeq(u, Len(s) + 1, Len(u)) = t
    <3>1. Len(u) - Len(s) = Len(t)
      BY <1>1, <1>2
    <3>2. \A i \in 1..Len(t) : SubSeq(u, Len(s) + 1, Len(u))[i] = t[i]
      BY <2>1, <2>3, <3>1
    <3> QED
      BY <3>1, <3>2, <2>1, SeqEqual
  <2> QED
    BY <2>4, <2>5
<1> QED
  BY <1>2, <1>6, <1>7, <1>8 DEF u, After

LEMMA BytesLemma ==
    /\ \A w \in Seq(WireByte) : /\ Bytes(w) \in Seq(Byte) /\ Len(Bytes(w)) = Len(w)
                                /\ \A i \in 1..Len(w) : Bytes(w)[i] = w[i].byte
    /\ \A w \in Seq(WireByte), v \in Seq(WireByte) : Bytes(w \o v) = Bytes(w) \o Bytes(v)
    /\ Bytes(<<>>) = <<>>
<1>1. ASSUME NEW w \in Seq(WireByte)
      PROVE  /\ Bytes(w) \in Seq(Byte) /\ Len(Bytes(w)) = Len(w)
             /\ \A i \in 1..Len(w) : Bytes(w)[i] = w[i].byte
  <2>1. Len(w) \in Nat /\ \A i \in 1..Len(w) : w[i].byte \in Byte
    <3>1. \A i \in 1..Len(w) : w[i] \in WireByte
      BY ElementOfSeq
    <3>2. \A b \in WireByte : b.byte \in Byte
      BY DEF WireByte
    <3> QED
      BY <3>1, <3>2, LenProperties
  <2>2. Bytes(w) \in Seq(Byte)
    <3> DEFINE e(i) == w[i].byte
    <3>1. Bytes(w) = [i \in 1..Len(w) |-> e(i)] /\ \A i \in 1..Len(w) : e(i) \in Byte
      BY <2>1 DEF Bytes
    <3> HIDE DEF e
    <3> QED
      BY <3>1, <2>1, IsASeq
  <2> QED
    BY <2>1, <2>2 DEF Bytes
<1>2. ASSUME NEW w \in Seq(WireByte), NEW v \in Seq(WireByte)
      PROVE  Bytes(w \o v) = Bytes(w) \o Bytes(v)
  <2>1. /\ w \o v \in Seq(WireByte) /\ Len(w \o v) = Len(w) + Len(v)
        /\ \A i \in 1..Len(w) + Len(v) : (w \o v)[i] = IF i <= Len(w) THEN w[i] ELSE v[i - Len(w)]
    BY ConcatProperties
  <2>2. /\ Bytes(w) \in Seq(Byte) /\ Len(Bytes(w)) = Len(w)
        /\ \A i \in 1..Len(w) : Bytes(w)[i] = w[i].byte
        /\ Bytes(v) \in Seq(Byte) /\ Len(Bytes(v)) = Len(v)
        /\ \A i \in 1..Len(v) : Bytes(v)[i] = v[i].byte
        /\ Bytes(w \o v) \in Seq(Byte) /\ Len(Bytes(w \o v)) = Len(w) + Len(v)
        /\ \A i \in 1..Len(w) + Len(v) : Bytes(w \o v)[i] = (w \o v)[i].byte
    BY <1>1, <2>1
  <2>3. /\ Bytes(w) \o Bytes(v) \in Seq(Byte) /\ Len(Bytes(w) \o Bytes(v)) = Len(w) + Len(v)
        /\ \A i \in 1..Len(w) + Len(v) :
             (Bytes(w) \o Bytes(v))[i] = IF i <= Len(w) THEN Bytes(w)[i] ELSE Bytes(v)[i - Len(w)]
    <3>1. Bytes(w) \in Seq(Byte) /\ Bytes(v) \in Seq(Byte)
      BY <2>2
    <3>2. /\ Bytes(w) \o Bytes(v) \in Seq(Byte)
          /\ Len(Bytes(w) \o Bytes(v)) = Len(Bytes(w)) + Len(Bytes(v))
          /\ \A i \in 1..Len(Bytes(w)) + Len(Bytes(v)) :
               (Bytes(w) \o Bytes(v))[i] =
                 IF i <= Len(Bytes(w)) THEN Bytes(w)[i] ELSE Bytes(v)[i - Len(Bytes(w))]
      BY <3>1, ConcatProperties
    <3> QED
      BY <3>2, <2>2
  <2>4. Len(w) \in Nat /\ Len(v) \in Nat
    BY LenProperties
  <2>5. ASSUME NEW i \in 1..Len(w) + Len(v)
        PROVE  Bytes(w \o v)[i] = (Bytes(w) \o Bytes(v))[i]
    <3>1. CASE i <= Len(w)
      <4>1. i \in 1..Len(w)
        BY <2>4, <3>1
      <4> QED
        BY <4>1, <3>1, <2>1, <2>2, <2>3
    <3>2. CASE ~(i <= Len(w))
      <4>1. i - Len(w) \in 1..Len(v)
        BY <2>4, <3>2
      <4> QED
        BY <4>1, <3>2, <2>1, <2>2, <2>3
    <3> QED
      BY <3>1, <3>2
  <2> QED
    BY <2>2, <2>3, <2>5, SeqEqual
<1>3. Bytes(<<>>) = <<>>
  BY DEF Bytes
<1> QED
  BY <1>1, <1>2, <1>3

\* What is in flight is a raw stream.
LEMMA BytesLeads ==
    ASSUME NEW x \in RawState, NEW w, NEW y, WireLeads(x, w, y)
    PROVE  RawLeads(x, Bytes(w), y)
<1> DEFINE D == Seq(WireByte) \X RawState
           G == {p \in D : RawLeads(x, Bytes(p[1]), p[2])}
<1>1. G \subseteq D
  OBVIOUS
<1>2. <<<<>>, x>> \in G
  <2>1. RawLeads(x, <<>>, x)
    BY LeadsNothing DEF RawLeads
  <2>2. <<<<>>, x>> \in D
    BY EmptySeq
  <2> QED
    BY <2>1, <2>2, BytesLemma
<1>3. ASSUME NEW p, NEW z, NEW e, NEW v, <<p, z>> \in G, <<e, z, v>> \in Wired
      PROVE  <<p \o e, v>> \in G
  <2>1. p \in Seq(WireByte) /\ z \in RawState /\ RawLeads(x, Bytes(p), z)
    BY <1>3
  <2>2. e \in Seq(WireByte) /\ v \in RawState /\ <<Bytes(e), z, v>> \in Raw
    BY <1>3, WireItemLemma DEF WireItem
  <2>3. RawLeads(x, Bytes(p) \o Bytes(e), v)
    BY <2>1, <2>2, ItemSets, LeadsStep DEF RawLeads
  <2>4. Bytes(p \o e) = Bytes(p) \o Bytes(e) /\ p \o e \in Seq(WireByte)
    BY <2>1, <2>2, BytesLemma, ConcatProperties
  <2>5. <<p \o e, v>> \in D
    BY <2>2, <2>4
  <2> QED
    BY <2>3, <2>4, <2>5
<1>4. Extended(Wired, G)
  <2> HIDE DEF G
  <2> QED
    BY <1>3 DEF Extended
<1>5. <<w, y>> \in G
  <2> HIDE DEF G
  <2> QED
    BY <1>1, <1>2, <1>4, LeadsInduction DEF WireLeads
<1> QED
  BY <1>5

\* Cut behind the last byte of an item, the stream is two streams.
Cuts(x, w, n, y) ==
    \E z \in RawState : /\ WireLeads(x, SubSeq(w, 1, n), z)
                        /\ WireLeads(z, After(w, n), y)

LEMMA CutAtLast ==
    ASSUME NEW x \in RawState, NEW w, NEW y, WireLeads(x, w, y)
    PROVE  \A n \in 1..Len(w) : w[n].last => Cuts(x, w, n, y)
<1> DEFINE D == Seq(WireByte) \X RawState
           Good(s, u) == \A n \in 1..Len(s) : s[n].last => Cuts(x, s, n, u)
           G == {p \in D : Good(p[1], p[2])}
<1>1. G \subseteq D
  OBVIOUS
<1>2. <<<<>>, x>> \in G
  <2>1. <<<<>>, x>> \in D
    BY EmptySeq
  <2>2. 1..Len(<<>>) = {}
    BY Len(<<>>) = 0
  <2> QED
    BY <2>1, <2>2
<1>3. ASSUME NEW p, NEW z, NEW e, NEW v, <<p, z>> \in G, <<e, z, v>> \in Wired,
             WireLeads(x, p, z)
      PROVE  <<p \o e, v>> \in G
  <2>1. p \in Seq(WireByte) /\ z \in RawState /\ Good(p, z)
    BY <1>3
  <2>2. /\ e \in Seq(WireByte) /\ v \in RawState
        /\ \A i \in 1..Len(e) : e[i].last <=> i = Len(e)
    BY <1>3, WireItemLemma DEF WireItem
  <2>0. \A n \in 0..Len(p) :
          /\ SubSeq(p \o e, 1, n) = SubSeq(p, 1, n)
          /\ After(p \o e, n) = After(p, n) \o e
    <3>1. p \in Seq(WireByte) /\ e \in Seq(WireByte)
      BY <2>1, <2>2
    <3> QED
      BY <3>1, JoinLemma
  <2>3. Len(p) \in Nat /\ Len(e) \in Nat
    BY <2>1, <2>2, LenProperties
  <2>4. /\ p \o e \in Seq(WireByte) /\ Len(p \o e) = Len(p) + Len(e)
        /\ \A i \in 1..Len(p) + Len(e) : (p \o e)[i] = IF i <= Len(p) THEN p[i] ELSE e[i - Len(p)]
    BY <2>1, <2>2, ConcatProperties
  <2>5. ASSUME NEW n \in 1..Len(p \o e), (p \o e)[n].last
        PROVE  Cuts(x, p \o e, n, v)
    <3>1. CASE n <= Len(p)
      <4>1. n \in 1..Len(p) /\ n \in 0..Len(p) /\ p[n].last
        BY <2>3, <2>4, <2>5, <3>1
      <4>2. PICK q \in RawState : /\ WireLeads(x, SubSeq(p, 1, n), q)
                                  /\ WireLeads(q, After(p, n), z)
        BY <4>1, <2>1 DEF Cuts
      <4>3. WireLeads(q, After(p, n) \o e, v)
        BY <4>2, <1>3, ItemSets, LeadsStep DEF WireLeads
      <4>4. /\ SubSeq(p \o e, 1, n) = SubSeq(p, 1, n)
            /\ After(p \o e, n) = After(p, n) \o e
        BY <4>1, <2>0
      <4> QED
        BY <4>2, <4>3, <4>4 DEF Cuts
    <3>2. CASE ~(n <= Len(p))
      <4>1. n - Len(p) \in 1..Len(e) /\ e[n - Len(p)].last
        BY <2>3, <2>4, <2>5, <3>2
      <4>2. n = Len(p \o e)
        BY <4>1, <2>2, <2>3, <2>4
      <4>3. SubSeq(p \o e, 1, n) = p \o e
        BY <4>2, <2>4, SubSeqFull
      <4>4. After(p \o e, n) = <<>>
        <5>1. n + 1 \in Int /\ n \in Int /\ n < n + 1
          BY <4>2, <2>3, <2>4
        <5> QED
          BY <5>1, <4>2, SubSeqEmpty DEF After
      <4>5. WireLeads(x, p \o e, v)
        BY <1>3, ItemSets, LeadsStep DEF WireLeads
      <4>6. WireLeads(v, <<>>, v)
        BY <2>2, LeadsNothing DEF WireLeads
      <4> QED
        BY <2>2, <4>3, <4>4, <4>5, <4>6 DEF Cuts
    <3> QED
      BY <3>1, <3>2
  <2>6. <<p \o e, v>> \in D
    BY <2>2, <2>4
  <2> QED
    BY <2>5, <2>6
<1> DEFINE H == {p \in G : WireLeads(x, p[1], p[2])}
<1>4. Extended(Wired, H)
  <2>1. ASSUME NEW p, NEW z, NEW e, NEW v, <<p, z>> \in H, <<e, z, v>> \in Wired
        PROVE  <<p \o e, v>> \in H
    <3>1. <<p, z>> \in G /\ WireLeads(x, p, z)
      BY <2>1
    <3>2. <<p \o e, v>> \in G
      BY <1>3, <2>1, <3>1
    <3>3. WireLeads(x, p \o e, v)
      BY <3>1, <2>1, ItemSets, LeadsStep DEF WireLeads
    <3> HIDE DEF G
    <3> QED
      BY <3>2, <3>3
  <2> HIDE DEF H
  <2> QED
    BY <2>1 DEF Extended
<1>5. <<<<>>, x>> \in H
  <2>1. WireLeads(x, <<>>, x)
    BY LeadsNothing DEF WireLeads
  <2> HIDE DEF G
  <2> QED
    BY <1>2, <2>1
<1>6. <<w, y>> \in H
  <2> HIDE DEF G
  <2>1. H \subseteq D
    BY <1>1
  <2> HIDE DEF H
  <2> QED
    BY <2>1, <1>4, <1>5, LeadsInduction DEF WireLeads
<1> QED
  BY <1>6

\* A byte of text in the stream means text that was not there before.
LEMMA TextInStream ==
    ASSUME NEW x \in RawState, NEW w, NEW y, WireLeads(x, w, y)
    PROVE  (\E i \in 1..Len(w) : w[i].text) => Len(y[1][1]) > Len(x[1][1])
<1> DEFINE D == Seq(WireByte) \X RawState
           Good(s, u) == (\E i \in 1..Len(s) : s[i].text) => Len(u[1][1]) > Len(x[1][1])
           G == {p \in D : Later(x, p[2]) /\ Good(p[1], p[2])}
<1>1. G \subseteq D
  OBVIOUS
<1>2. <<<<>>, x>> \in G
  <2>1. <<<<>>, x>> \in D
    BY EmptySeq
  <2>2. 1..Len(<<>>) = {}
    BY Len(<<>>) = 0
  <2> QED
    BY <2>1, <2>2, LaterLemma
<1>3. ASSUME NEW p, NEW z, NEW e, NEW v, <<p, z>> \in G, <<e, z, v>> \in Wired
      PROVE  <<p \o e, v>> \in G
  <2>1. p \in Seq(WireByte) /\ z \in RawState /\ Good(p, z) /\ Later(x, z)
    BY <1>3
  <2>2. /\ e \in Seq(WireByte) /\ v \in RawState /\ <<Bytes(e), z, v>> \in Raw
        /\ (\E i \in 1..Len(e) : e[i].text) => Len(v[1][1]) > Len(z[1][1])
    BY <1>3, WireItemLemma DEF WireItem
  <2>3. Later(z, v) /\ Later(x, v)
    BY <2>1, <2>2, RawBegins, LaterLemma DEF Later
  <2>4. x[1][1] \in Text /\ z[1][1] \in Text /\ v[1][1] \in Text
    BY <2>1, <2>2, StateFacts
  <2>5. /\ Len(x[1][1]) \in Nat /\ Len(z[1][1]) \in Nat /\ Len(v[1][1]) \in Nat
        /\ Len(x[1][1]) <= Len(z[1][1]) /\ Len(z[1][1]) <= Len(v[1][1])
    BY <2>1, <2>3, <2>4, BeginsLemma, LenProperties DEF Later, Text
  <2>6. Len(p) \in Nat /\ Len(e) \in Nat
    BY <2>1, <2>2, LenProperties
  <2>7. /\ p \o e \in Seq(WireByte) /\ Len(p \o e) = Len(p) + Len(e)
        /\ \A i \in 1..Len(p) + Len(e) : (p \o e)[i] = IF i <= Len(p) THEN p[i] ELSE e[i - Len(p)]
    BY <2>1, <2>2, ConcatProperties
  <2>8. ASSUME NEW i \in 1..Len(p \o e), (p \o e)[i].text
        PROVE  Len(v[1][1]) > Len(x[1][1])
    <3>1. CASE i <= Len(p)
      <4>1. i \in 1..Len(p) /\ p[i].text
        BY <2>6, <2>7, <2>8, <3>1
      <4>2. Len(z[1][1]) > Len(x[1][1])
        BY <2>1, <4>1
      <4> QED
        BY <2>5, <4>2, SMTT(30)
    <3>2. CASE ~(i <= Len(p))
      <4>1. i - Len(p) \in 1..Len(e) /\ e[i - Len(p)].text
        BY <2>6, <2>7, <2>8, <3>2
      <4>2. Len(v[1][1]) > Len(z[1][1])
        BY <2>2, <4>1
      <4> QED
        BY <2>5, <4>2, SMTT(30)
    <3> QED
      BY <3>1, <3>2
  <2>9. <<p \o e, v>> \in D
    BY <2>2, <2>7
  <2> QED
    BY <2>3, <2>8, <2>9
<1> HIDE DEF G
<1>4. Extended(Wired, G)
  BY <1>3 DEF Extended
<1>5. <<w, y>> \in G
  BY <1>1, <1>2, <1>4, LeadsInduction DEF WireLeads
<1> QED
  BY <1>5 DEF G

\* Compressing a row item by item.
LEMMA ZipConcat ==
    ASSUME NEW d \in Seq(0..255), NEW e \in Seq(0..255)
    PROVE  d \o e \in Seq(0..255) /\ Packed(d \o e) = Packed(d) \o Packed(e)
<1>1. /\ d \o e \in Seq(0..255) /\ Len(d \o e) = Len(d) + Len(e)
      /\ \A i \in 1..Len(d) + Len(e) : (d \o e)[i] = IF i <= Len(d) THEN d[i] ELSE e[i - Len(d)]
  BY ConcatProperties
<1>2. Len(d) \in Nat /\ Len(e) \in Nat
  BY LenProperties
<1>3. /\ Packed(d) \in Seq(Byte) /\ Len(Packed(d)) = Len(d) /\ \A i \in 1..Len(d) : Packed(d)[i] = ZIP + d[i]
      /\ Packed(e) \in Seq(Byte) /\ Len(Packed(e)) = Len(e) /\ \A i \in 1..Len(e) : Packed(e)[i] = ZIP + e[i]
  BY ZipLemma
<1>4. /\ Packed(d \o e) \in Seq(Byte) /\ Len(Packed(d \o e)) = Len(d) + Len(e)
      /\ \A i \in 1..Len(d) + Len(e) : Packed(d \o e)[i] = ZIP + (d \o e)[i]
  <2>1. /\ Packed(d \o e) \in Seq(Byte) /\ Len(Packed(d \o e)) = Len(d \o e)
        /\ \A i \in 1..Len(d \o e) : Packed(d \o e)[i] = ZIP + (d \o e)[i]
    BY <1>1, ZipLemma
  <2> QED
    BY <1>1, <2>1
<1>5. /\ Packed(d) \o Packed(e) \in Seq(Byte) /\ Len(Packed(d) \o Packed(e)) = Len(d) + Len(e)
      /\ \A i \in 1..Len(d) + Len(e) :
           (Packed(d) \o Packed(e))[i] = IF i <= Len(d) THEN Packed(d)[i] ELSE Packed(e)[i - Len(d)]
  <2>1. Packed(d) \in Seq(Byte) /\ Packed(e) \in Seq(Byte)
    BY <1>3
  <2>2. /\ Packed(d) \o Packed(e) \in Seq(Byte) /\ Len(Packed(d) \o Packed(e)) = Len(Packed(d)) + Len(Packed(e))
        /\ \A i \in 1..Len(Packed(d)) + Len(Packed(e)) :
             (Packed(d) \o Packed(e))[i] = IF i <= Len(Packed(d)) THEN Packed(d)[i] ELSE Packed(e)[i - Len(Packed(d))]
    BY <2>1, ConcatProperties
  <2> QED
    BY <2>2, <1>3
<1>6. ASSUME NEW i \in 1..Len(d) + Len(e)
      PROVE  Packed(d \o e)[i] = (Packed(d) \o Packed(e))[i]
  <2>1. CASE i <= Len(d)
    <3>1. i \in 1..Len(d)
      BY <1>2, <2>1
    <3> QED
      BY <3>1, <2>1, <1>1, <1>3, <1>4, <1>5
  <2>2. CASE ~(i <= Len(d))
    <3>1. i - Len(d) \in 1..Len(e)
      BY <1>2, <2>2
    <3> QED
      BY <3>1, <2>2, <1>1, <1>3, <1>4, <1>5
  <2> QED
    BY <2>1, <2>2
<1>7. Packed(d \o e) = Packed(d) \o Packed(e)
  BY <1>4, <1>5, <1>6, SeqEqual
<1> QED
  BY <1>1, <1>7

\* A row of items written compressed, as long as the mud compresses, and then plain.
StillZipped(x, s, y) ==
    /\ y[3] = "zipped"
    /\ \E d \in Seq(0..255) : s = Packed(d) /\ PlainLeads(x[1], d, y[1])

Unzipped(x, s, y) ==
    /\ y[3] = "ended"
    /\ \E d \in Seq(0..255), u \in Text :
         s = (Packed(d) \o <<Z_END>>) \o u /\ PlainLeads(x[1], d \o u, y[1])

LEMMA DecodeItem ==
    ASSUME NEW x \in RawState, NEW s \in Text, NEW z, StillZipped(x, s, z),
           NEW e, NEW y, <<e, z, y>> \in Raw
    PROVE  /\ StillZipped(x, s \o e, y) \/ Unzipped(x, s \o e, y)
           /\ y[2] = z[2]
<1>1. PICK d \in Seq(0..255) : s = Packed(d) /\ PlainLeads(x[1], d, z[1])
  BY DEF StillZipped
<1>2. z[3] = "zipped" /\ e \in Seq(Byte) /\ z \in RawState /\ y \in RawState /\ RawItem(e, z, y)
  BY RawItemLemma DEF StillZipped
<1>3. Telnet_(e, z, y) \/ Ended(e, z, y)
  BY <1>2 DEF RawItem, Offered_, Started
<1>4. CASE Telnet_(e, z, y)
  <2>1. PICK c : <<c, z[1], y[1]>> \in Plain /\ e = Packed(c)
    BY <1>2, <1>4 DEF Telnet_
  <2>2. c \in Seq(0..255)
    BY <2>1, PlainByteLemma
  <2>3. s \o e = Packed(d \o c) /\ d \o c \in Seq(0..255)
    BY <1>1, <2>1, <2>2, ZipConcat, ZenonT(30)
  <2>4. PlainLeads(x[1], d \o c, y[1])
    BY <1>1, <2>1, ItemSets, LeadsStep DEF PlainLeads
  <2>5. y[3] = "zipped" /\ y[2] = z[2]
    BY <1>2, <1>4 DEF Telnet_
  <2> QED
    BY <2>3, <2>4, <2>5 DEF StillZipped
<1>5. CASE Ended(e, z, y)
  <2>1. y[3] = "ended" /\ y[1] = z[1] /\ y[2] = z[2] /\ e = <<Z_END>>
    BY <1>5 DEF Ended
  <2>2. <<>> \in Text /\ d \o <<>> = d /\ s \o e \in Seq(Byte)
    BY <1>1, <1>2, EmptySeq, ConcatEmptySeq, ConcatProperties DEF Text
  <2>3. s \o e = (Packed(d) \o <<Z_END>>) \o <<>>
    <3>1. (s \o e) \o <<>> = s \o e
      BY <2>2, ConcatEmptySeq
    <3> QED
      BY <3>1, <1>1, <2>1
  <2>4. PlainLeads(x[1], d \o <<>>, y[1])
    BY <1>1, <2>1, <2>2
  <2> QED
    BY <2>1, <2>2, <2>3, <2>4 DEF Unzipped
<1> QED
  BY <1>3, <1>4, <1>5

LEMMA UnzippedItem ==
    ASSUME NEW x \in RawState, NEW s \in Text, NEW z, Unzipped(x, s, z),
           NEW e, NEW y, <<e, z, y>> \in Raw
    PROVE  Unzipped(x, s \o e, y) /\ y[2] = z[2]
<1>1. PICK d, u : /\ d \in Seq(0..255) /\ u \in Text
                  /\ s = (Packed(d) \o <<Z_END>>) \o u /\ PlainLeads(x[1], d \o u, z[1])
  BY DEF Unzipped
<1>2. z[3] = "ended" /\ e \in Seq(Byte) /\ z \in RawState /\ y \in RawState /\ RawItem(e, z, y)
  BY RawItemLemma DEF Unzipped
<1>3. Telnet_(e, z, y)
  BY <1>2 DEF RawItem, Offered_, Started, Ended
<1>4. <<e, z[1], y[1]>> \in Plain /\ y[3] = "ended" /\ y[2] = z[2]
  BY <1>2, <1>3 DEF Telnet_
<1>5. PlainLeads(x[1], (d \o u) \o e, y[1])
  BY <1>1, <1>4, ItemSets, LeadsStep DEF PlainLeads
<1>6. d \in Seq(Byte) /\ u \in Seq(Byte) /\ Packed(d) \in Seq(Byte) /\ <<Z_END>> \in Seq(Byte)
  <2>1. 0..255 \subseteq Byte /\ Z_END \in Byte
    BY DEF Byte, Z_END, ZIP
  <2>2. d \in Seq(Byte)
    BY <1>1, <2>1, SeqMonotonic
  <2> QED
    BY <1>1, <2>1, <2>2, ZipLemma DEF Text
<1>7. (d \o u) \o e = d \o (u \o e) /\ u \o e \in Text
  <2>1. d \in Seq(Byte) /\ e \in Seq(Byte) /\ u \in Seq(Byte)
    BY <1>2, <1>6
  <2> QED
    BY <2>1, ConcatAssociative, ConcatProperties, SMTT(30) DEF Text
<1>8. s \o e = (Packed(d) \o <<Z_END>>) \o (u \o e)
  <2>1. Packed(d) \o <<Z_END>> \in Seq(Byte)
    BY <1>6, ConcatProperties
  <2>2. ((Packed(d) \o <<Z_END>>) \o u) \o e = (Packed(d) \o <<Z_END>>) \o (u \o e)
    <3>1. e \in Seq(Byte) /\ u \in Seq(Byte)
      BY <1>2, <1>6
    <3> QED
      BY <2>1, <3>1, ConcatAssociative, SMTT(30)
  <2> QED
    BY <2>2, <1>1
<1>9. PlainLeads(x[1], d \o (u \o e), y[1])
  BY <1>5, <1>7
<1> QED
  BY <1>1, <1>4, <1>7, <1>8, <1>9 DEF Unzipped

LEMMA Decode ==
    ASSUME NEW x \in RawState, x[3] = "zipped", NEW s, NEW y, RawLeads(x, s, y)
    PROVE  /\ StillZipped(x, s, y) \/ Unzipped(x, s, y)
           /\ y[2] = x[2]
<1> DEFINE D == Seq(Byte) \X RawState
           Good(p, z) == (StillZipped(x, p, z) \/ Unzipped(x, p, z)) /\ z[2] = x[2]
           G == {q \in D : Good(q[1], q[2])}
<1>1. G \subseteq D
  OBVIOUS
<1>2. <<<<>>, x>> \in G
  <2>1. <<<<>>, x>> \in D /\ <<>> \in Seq(0..255)
    BY EmptySeq
  <2>2. PlainLeads(x[1], <<>>, x[1])
    BY StateFacts, LeadsNothing DEF PlainLeads
  <2>3. Packed(<<>>) = <<>>
    BY DEF Packed
  <2>4. StillZipped(x, <<>>, x)
    BY <2>1, <2>2, <2>3 DEF StillZipped
  <2> QED
    BY <2>1, <2>4
<1>3. ASSUME NEW p, NEW z, NEW e, NEW v, <<p, z>> \in G, <<e, z, v>> \in Raw
      PROVE  <<p \o e, v>> \in G
  <2>1. p \in Seq(Byte) /\ z \in RawState /\ Good(p, z)
    BY <1>3
  <2>2. e \in Seq(Byte) /\ v \in RawState
    BY <1>3, RawItemLemma
  <2>3. p \in Text
    BY <2>1 DEF Text
  <2>4. Good(p \o e, v)
    <3>1. CASE StillZipped(x, p, z)
      BY <3>1, <2>1, <2>3, <1>3, DecodeItem
    <3>2. CASE Unzipped(x, p, z)
      BY <3>2, <2>1, <2>3, <1>3, UnzippedItem
    <3> QED
      BY <2>1, <3>1, <3>2
  <2>5. <<p \o e, v>> \in D
    BY <2>1, <2>2, ConcatProperties
  <2> HIDE DEF Good
  <2> QED
    BY <2>4, <2>5
<1>4. Extended(Raw, G)
  <2> HIDE DEF G
  <2> QED
    BY <1>3 DEF Extended
<1>5. <<s, y>> \in G
  <2> HIDE DEF G
  <2> QED
    BY <1>1, <1>2, <1>4, LeadsInduction DEF RawLeads
<1> QED
  BY <1>5

-----------------------------------------------------------------------------
(* Whole reads: the runs of the program in which every read ends between two *)
(* items of the mud and brings some text or is a full one, COMPRESS is never  *)
(* offered before COMPRESS2, and no option is the byte IAC, which the scan    *)
(* for the markers would take for the beginning of one.                      *)
WholeReads ==
    /\ ~Splits /\ ~Silence /\ ~V1First
    /\ \A r \in Requests : r[2] # IAC

AllVersions == {COMPRESS, COMPRESS2}
Options == Byte \ AllVersions
Said(version) == \E i \in 1..Len(answers) : answers[i] = <<DO, version>>

\* Four states of the mud's conversation: m, as it has been written; c, as it has
\* been received; r, behind what is compressed or not yet scanned (Q); t, behind
\* what is not yet parsed (P).
Paths(m, c, r, t, P, Q) ==
    /\ m \in RawState /\ c \in RawState /\ r \in RawState /\ t \in PlainState
    /\ WireLeads(c, wire, m) /\ RawLeads(r, Q, c) /\ PlainLeads(t, P, r[1])

SentIs(m) ==
    /\ m[1][1] = sent /\ m[3] = zip
    /\ \A o \in Options : Count(m[1][2], o) = Count(asked, o)
    /\ \A v \in AllVersions : /\ Count(asked, v) = IF v \in m[2] THEN 1 ELSE 0
                              /\ v \in m[2] => Offered(v)

AnsweredIs(r, t) ==
    /\ \A o \in Options : Count(t[2], o) = Count(answers, o)
    /\ \A v \in AllVersions : Count(answers, v) + Owed(v) = IF v \in r[2] THEN 1 ELSE 0

AgreedIs(r) ==
    /\ got_v2 <=> COMPRESS2 \in r[2]
    /\ resp_v1 = 1 \/ Said(COMPRESS) => r[2] = {COMPRESS}
    /\ Said(COMPRESS2) => COMPRESS2 \in r[2]
    /\ stream <=> r[3] = "zipped"

ReadIs(c, t) ==
    /\ t[1] = (shown \o last_line) \o text
    /\ last_line # <<>> => IF pc = "idle" THEN more_coming ELSE old_more_coming
    /\ pc # "idle" /\ ~more_coming /\ last_line # <<>> =>
         Len(c[1][1]) > Len(shown \o last_line)
    /\ pc \in {"idle", "scan", "inflate"} => text = <<>>
    /\ pc = "lines" => text # <<>>

\* The scan has passed the IAC that begins an item.  The only other one left in
\* an item is the one before a SE.
Harmless(P) == \A i \in at..Len(P) : P[i] = IAC => i < Len(P) /\ P[i + 1] = SE

BuffersAre(r, P, Q) ==
    /\ ~error /\ telnet_buf = <<>>
    /\ pc # "scan" => at = 1
    /\ pc = "scan" => /\ outbuf = P \o Q /\ inbuf = <<>> /\ rest = <<>>
                      /\ r[3] # "zipped" /\ at - 1 <= Len(P) /\ Harmless(P)
    /\ pc = "inflate" => outbuf = P /\ inbuf = Q /\ rest = <<>> /\ r[3] = "zipped"
    /\ pc = "get" => outbuf = P /\ inbuf = <<>> /\ Q = <<>> /\ rest = <<>>
    /\ pc = "parse" => outbuf = <<>> /\ inbuf = <<>> /\ Q = <<>> /\ rest = P
    /\ pc \in {"idle", "respond", "lines"} =>
         outbuf = <<>> /\ inbuf = <<>> /\ Q = <<>> /\ rest = <<>> /\ P = <<>>

Inv(m, c, r, t, P, Q) ==
    /\ Paths(m, c, r, t, P, Q) /\ SentIs(m) /\ AnsweredIs(r, t) /\ AgreedIs(r)
    /\ ReadIs(c, t) /\ BuffersAre(r, P, Q)

IInv == TypeOK /\ at # 0 /\ \E m, c, r, t, P, Q : Inv(m, c, r, t, P, Q)

LEMMA InvFrame ==
    ASSUME NEW m, NEW c, NEW r, NEW t, NEW P, NEW Q
    PROVE  /\ Paths(m, c, r, t, P, Q) /\ UNCHANGED wire => Paths(m, c, r, t, P, Q)'
           /\ SentIs(m) /\ UNCHANGED <<sent, asked, zip>> => SentIs(m)'
           /\ AnsweredIs(r, t) /\ UNCHANGED <<answers, resp_v1, resp_v2>> => AnsweredIs(r, t)'
           /\ AgreedIs(r) /\ UNCHANGED <<got_v2, resp_v1, answers, stream>> => AgreedIs(r)'
           /\ ReadIs(c, t) /\ UNCHANGED <<shown, last_line, text, pc, more_coming, old_more_coming>>
                => ReadIs(c, t)'
           /\ BuffersAre(r, P, Q) /\ UNCHANGED <<error, telnet_buf, pc, at, outbuf, inbuf, rest>>
                => BuffersAre(r, P, Q)'
<1>1. Paths(m, c, r, t, P, Q) /\ UNCHANGED wire => Paths(m, c, r, t, P, Q)'
  BY DEF Paths
<1>2. SentIs(m) /\ UNCHANGED <<sent, asked, zip>> => SentIs(m)'
  BY DEF SentIs, Offered
<1>3. AnsweredIs(r, t) /\ UNCHANGED <<answers, resp_v1, resp_v2>> => AnsweredIs(r, t)'
  BY DEF AnsweredIs, Owed
<1>4. AgreedIs(r) /\ UNCHANGED <<got_v2, resp_v1, answers, stream>> => AgreedIs(r)'
  BY DEF AgreedIs, Said
<1>5. ReadIs(c, t) /\ UNCHANGED <<shown, last_line, text, pc, more_coming, old_more_coming>>
        => ReadIs(c, t)'
  BY DEF ReadIs
<1>6. BuffersAre(r, P, Q) /\ UNCHANGED <<error, telnet_buf, pc, at, outbuf, inbuf, rest>>
        => BuffersAre(r, P, Q)'
  BY DEF BuffersAre, Harmless
<1> QED
  BY <1>1, <1>2, <1>3, <1>4, <1>5, <1>6

\* One more request, or answer, counts for its option only.
LEMMA CountLemma ==
    /\ \A o : Count(<<>>, o) = 0
    /\ \A s \in Seq((Verbs \cup {SB}) \X Byte) : \A o :
         /\ Count(s, o) \in Nat
         /\ (\E i \in 1..Len(s) : s[i][2] = o /\ s[i][1] # SB) => Count(s, o) # 0
         /\ \A v \in Verbs, b \in Byte :
              Count(Append(s, <<v, b>>), o) = Count(s, o) + (IF b = o THEN 1 ELSE 0)
         /\ \A b \in Byte : Count(Append(s, <<SB, b>>), o) = Count(s, o)
<1>1. ASSUME NEW o PROVE Count(<<>>, o) = 0
  <2>1. {i \in 1..Len(<<>>) : <<>>[i][2] = o /\ <<>>[i][1] # SB} = {}
    BY Len(<<>>) = 0
  <2> QED
    BY <2>1, FS_EmptySet DEF Count
<1>2. ASSUME NEW s \in Seq((Verbs \cup {SB}) \X Byte), NEW o
      PROVE  /\ Count(s, o) \in Nat
             /\ (\E i \in 1..Len(s) : s[i][2] = o /\ s[i][1] # SB) => Count(s, o) # 0
             /\ \A v \in Verbs, b \in Byte :
                  Count(Append(s, <<v, b>>), o) = Count(s, o) + (IF b = o THEN 1 ELSE 0)
             /\ \A b \in Byte : Count(Append(s, <<SB, b>>), o) = Count(s, o)
  <2> DEFINE T == {i \in 1..Len(s) : s[i][2] = o /\ s[i][1] # SB}
  <2>1. Len(s) \in Nat
    BY LenProperties
  <2>2. IsFiniteSet(T) /\ Cardinality(T) \in Nat
    <3>1. IsFiniteSet(1..Len(s))
      BY <2>1, FS_Interval
    <3>2. IsFiniteSet(T)
      BY <3>1, FS_Subset
    <3> QED
      BY <3>2, FS_CardinalityType
  <2>3. Count(s, o) = Cardinality(T)
    BY DEF Count
  <2>4. T # {} => Cardinality(T) # 0
    BY <2>2, FS_EmptySet
  <2>5. ASSUME NEW v \in Verbs \cup {SB}, NEW b \in Byte
        PROVE  LET u == Append(s, <<v, b>>)
               IN  {i \in 1..Len(u) : u[i][2] = o /\ u[i][1] # SB} =
                     IF b = o /\ v # SB THEN T \cup {Len(s) + 1} ELSE T
    <3> DEFINE u == Append(s, <<v, b>>)
    <3>1. <<v, b>> \in (Verbs \cup {SB}) \X Byte
      OBVIOUS
    <3>2. /\ Len(u) = Len(s) + 1
          /\ \A i \in 1..Len(s) : u[i] = s[i]
          /\ u[Len(s) + 1] = <<v, b>>
      BY <3>1, AppendProperties
    <3> HIDE DEF u
    <3>3. \A i \in 1..Len(u) : i \in 1..Len(s) \/ i = Len(s) + 1
      BY <2>1, <3>2
    <3>4. \A i \in 1..Len(s) : i \in 1..Len(u) /\ i # Len(s) + 1
      BY <2>1, <3>2
    <3>5. Len(s) + 1 \in 1..Len(u)
      BY <2>1, <3>2
    <3>6. u[Len(s) + 1][1] = v /\ u[Len(s) + 1][2] = b
      BY <3>2
    <3>7. CASE b = o /\ v # SB
      <4>1. {i \in 1..Len(u) : u[i][2] = o /\ u[i][1] # SB} = T \cup {Len(s) + 1}
        BY <3>2, <3>3, <3>4, <3>5, <3>6, <3>7
      <4> QED
        BY <4>1, <3>7 DEF u
    <3>8. CASE ~(b = o /\ v # SB)
      <4>1. {i \in 1..Len(u) : u[i][2] = o /\ u[i][1] # SB} = T
        BY <3>2, <3>3, <3>4, <3>6, <3>8
      <4> QED
        BY <4>1, <3>8 DEF u
    <3> QED
      BY <3>7, <3>8
  <2>6. ASSUME NEW v \in Verbs, NEW b \in Byte
        PROVE  Count(Append(s, <<v, b>>), o) = Count(s, o) + (IF b = o THEN 1 ELSE 0)
    <3>1. v # SB /\ v \in Verbs \cup {SB}
      BY DEF Verbs, SB, WILL, WONT, DO, DONT
    <3>2. Len(s) + 1 \notin T
      BY <2>1
    <3>3. CASE b = o
      <4>1. Count(Append(s, <<v, b>>), o) = Cardinality(T \cup {Len(s) + 1})
        BY <2>5, <3>1, <3>3 DEF Count
      <4>2. Cardinality(T \cup {Len(s) + 1}) = Cardinality(T) + 1
        BY <2>2, <3>2, FS_AddElement
      <4> QED
        BY <4>1, <4>2, <3>3, <2>3
    <3>4. CASE b # o
      <4>1. Count(Append(s, <<v, b>>), o) = Cardinality(T)
        BY <2>5, <3>1, <3>4 DEF Count
      <4> QED
        BY <4>1, <3>4, <2>2, <2>3
    <3> QED
      BY <3>3, <3>4
  <2>7. ASSUME NEW b \in Byte
        PROVE  Count(Append(s, <<SB, b>>), o) = Count(s, o)
    <3>1. Count(Append(s, <<SB, b>>), o) = Cardinality(T)
      BY <2>5 DEF Count
    <3> QED
      BY <3>1, <2>3
  <2>8. (\E i \in 1..Len(s) : s[i][2] = o /\ s[i][1] # SB) => T # {}
    OBVIOUS
  <2> HIDE DEF T
  <2> QED
    BY <2>2, <2>3, <2>4, <2>6, <2>7, <2>8
<1> QED
  BY <1>1, <1>2

LEMMA AskedCounts == Asked \subseteq Seq((Verbs \cup {SB}) \X Byte)
<1>1. ASSUME NEW s \in Asked PROVE s \in Seq((Verbs \cup {SB}) \X Byte)
  <2>1. Verbs \X Byte \subseteq (Verbs \cup {SB}) \X Byte
    OBVIOUS
  <2> QED
    BY <2>1, SeqMonotonic DEF Asked
<1> QED
  BY <1>1

LEMMA Starts == ASSUME Init PROVE IInv
<1> DEFINE t == <<<<>>, <<>>>>
           m == <<t, {}, "plain">>
<1>1. TypeOK /\ at # 0
  <2>1. at # 0
    BY DEF Init
  <2> QED
    BY <2>1, InitTypes
<1>2. t \in PlainState
  BY EmptySeq DEF PlainState, Text, Asked
<1>3. m \in RawState
  BY <1>2 DEF RawState
<1>4. Paths(m, m, m, t, <<>>, <<>>)
  <2>1. WireLeads(m, <<>>, m) /\ RawLeads(m, <<>>, m)
    BY <1>3, LeadsNothing DEF WireLeads, RawLeads
  <2>2. PlainLeads(t, <<>>, t)
    BY <1>2, LeadsNothing DEF PlainLeads
  <2>3. wire = <<>> /\ m[1] = t
    BY DEF Init
  <2> HIDE DEF t, m
  <2> QED
    BY <1>2, <1>3, <2>1, <2>2, <2>3 DEF Paths
<1>5. m[1][1] = <<>> /\ m[1][2] = <<>> /\ m[2] = {} /\ m[3] = "plain" /\ t[1] = <<>> /\ t[2] = <<>>
  OBVIOUS
<1> HIDE DEF t, m
<1>6. SentIs(m)
  BY <1>5, CountLemma DEF SentIs, Init
<1>7. AnsweredIs(m, t)
  BY <1>5, CountLemma DEF AnsweredIs, Init, Owed
<1>8. AgreedIs(m)
  <2>1. ~Said(COMPRESS) /\ ~Said(COMPRESS2)
    BY Len(<<>>) = 0 DEF Said, Init
  <2> QED
    BY <1>5, <2>1 DEF AgreedIs, Init
<1>9. ReadIs(m, t)
  <2>1. (<<>> \o <<>>) \o <<>> = <<>>
    OBVIOUS
  <2> QED
    BY <1>5, <2>1 DEF ReadIs, Init
<1>10. BuffersAre(m, <<>>, <<>>)
  BY DEF BuffersAre, Init
<1> QED
  BY <1>1, <1>4, <1>6, <1>7, <1>8, <1>9, <1>10 DEF IInv, Inv

-----------------------------------------------------------------------------
(* The mud writes an item.                                                   *)

LEMMA WrittenFields ==
    ASSUME NEW s \in Seq(Writable), NEW isText \in BOOLEAN
    PROVE  \A i \in 1..Len(s) :
             LET b == OnTheWire(s, isText)[i]
             IN  /\ b.byte = IF zip = "zipped" /\ s[i] # Z_END THEN ZIP + s[i] ELSE s[i]
                 /\ b.last = (i = Len(s)) /\ b.text = isText
<1>1. TAKE i \in 1..Len(s)
<1>2. OnTheWire(s, isText)[i] =
        [byte |-> IF zip = "zipped" /\ s[i] # Z_END THEN ZIP + s[i] ELSE s[i],
         last |-> i = Len(s), text |-> isText]
  BY WrittenLemma
<1> QED
  BY <1>2

LEMMA OnWireLemma ==
    ASSUME NEW s \in Seq(Writable), NEW isText \in BOOLEAN
    PROVE  /\ zip # "zipped" => Bytes(OnTheWire(s, isText)) = s
           /\ zip = "zipped" /\ s \in Seq(0..255) => Bytes(OnTheWire(s, isText)) = Packed(s)
           /\ s = <<Z_END>> => Bytes(OnTheWire(s, isText)) = s
<1> DEFINE w == OnTheWire(s, isText)
<1>1. /\ w \in Seq(WireByte) /\ Len(w) = Len(s)
      /\ \A i \in 1..Len(s) :
           w[i].byte = IF zip = "zipped" /\ s[i] # Z_END THEN ZIP + s[i] ELSE s[i]
  BY WrittenLemma, WrittenFields
<1> HIDE DEF w
<1>2. /\ Bytes(w) \in Seq(Byte) /\ Len(Bytes(w)) = Len(s)
      /\ \A i \in 1..Len(s) :
           Bytes(w)[i] = IF zip = "zipped" /\ s[i] # Z_END THEN ZIP + s[i] ELSE s[i]
  <2>1. /\ Bytes(w) \in Seq(Byte) /\ Len(Bytes(w)) = Len(w)
        /\ \A i \in 1..Len(w) : Bytes(w)[i] = w[i].byte
    BY <1>1, BytesLemma
  <2> QED
    BY <1>1, <2>1
<1>3. s \in Seq(Byte)
  <2>1. Writable \subseteq Byte
    BY DEF Writable, Byte, Z_END, ZIP
  <2> QED
    BY <2>1, SeqMonotonic
<1>4. ASSUME \A i \in 1..Len(s) : Bytes(w)[i] = s[i]
      PROVE  Bytes(w) = s
  BY <1>2, <1>3, <1>4, SeqEqual
<1>5. ASSUME zip # "zipped" PROVE Bytes(w) = s
  BY <1>2, <1>4, <1>5
<1>6. ASSUME s = <<Z_END>> PROVE Bytes(w) = s
  <2>1. \A i \in 1..Len(s) : s[i] = Z_END
    BY <1>6
  <2> QED
    BY <1>2, <1>4, <2>1
<1>7. ASSUME zip = "zipped", s \in Seq(0..255) PROVE Bytes(w) = Packed(s)
  <2>1. \A i \in 1..Len(s) : s[i] # Z_END
    <3>1. \A i \in 1..Len(s) : s[i] \in 0..255
      BY <1>7, ElementOfSeq
    <3>2. Z_END \notin 0..255
      BY DEF Z_END, ZIP
    <3> QED
      BY <3>1, <3>2
  <2>2. /\ Packed(s) \in Seq(Byte) /\ Len(Packed(s)) = Len(s)
        /\ \A i \in 1..Len(s) : Packed(s)[i] = ZIP + s[i]
    BY <1>7, ZipLemma
  <2>3. \A i \in 1..Len(s) : Bytes(w)[i] = Packed(s)[i]
    BY <1>2, <1>7, <2>1, <2>2
  <2> QED
    BY <1>2, <2>2, <2>3, SeqEqual
<1> QED
  BY <1>5, <1>6, <1>7 DEF w

\* A plain item, written as the mode demands.
LEMMA TelnetItem ==
    ASSUME NEW m \in RawState, m[3] = zip, NEW e, NEW p, <<e, m[1], p>> \in Plain,
           NEW isText \in BOOLEAN
    PROVE  /\ <<Bytes(OnTheWire(e, isText)), m, <<p, m[2], m[3]>>>> \in Raw
           /\ e \in Seq(Writable)
<1> DEFINE b == Bytes(OnTheWire(e, isText))
           y == <<p, m[2], m[3]>>
<1>1. e \in Seq(0..255) /\ e \in Seq(Byte) /\ p \in PlainState
  BY PlainByteLemma, PlainItemLemma
<1>2. e \in Seq(Writable)
  <2>1. 0..255 \subseteq Writable
    BY DEF Writable
  <2> QED
    BY <1>1, <2>1, SeqMonotonic
<1>3. y \in RawState
  BY <1>1, StateFacts
<1>4. y[1] = p /\ y[2] = m[2] /\ y[3] = m[3]
  OBVIOUS
<1>5. IF zip = "zipped" THEN b = Packed(e) ELSE b = e
  BY <1>1, <1>2, OnWireLemma
<1> HIDE DEF b, y
<1>6. Telnet_(b, m, y)
  BY <1>4, <1>5 DEF Telnet_
<1>7. b \in Seq(Byte)
  BY <1>1, <1>5, ZipLemma
<1>8. <<b, m, y>> \in Raw
  BY <1>3, <1>6, <1>7, RawItemLemma DEF RawItem
<1> QED
  BY <1>2, <1>8 DEF b, y

\* The items without an answer.
LEMMA TextItem ==
    ASSUME TypeOK, NEW item \in Items, NEW x \in PlainState
    PROVE  <<Encoded(item), x, <<x[1] \o Shown(item), x[2]>>>> \in Plain
<1> DEFINE y == <<x[1] \o Shown(item), x[2]>>
           letter == 97 + (items % 26)
<1>1. items % 26 \in 0..25
  BY DEF TypeOK
<1>2. letter \in 1..254 /\ letter \in Byte
  BY <1>1 DEF Byte, Z_END, ZIP
<1> HIDE DEF letter
<1>3. x = <<x[1], x[2]>> /\ x[1] \in Text /\ x[2] \in Asked
  BY StateFacts
<1>4. /\ 0 \in Byte /\ NL \in 1..254
      /\ {NL, IAC, GA, SB, TERMINAL_TYPE, SEND, SE} \subseteq Byte
  BY DEF Byte, Z_END, ZIP, NL, IAC, GA, SB, TERMINAL_TYPE, SEND, SE
<1>5. item \in {"letter", "newline", "nul", "literal", "goahead", "ttype"}
  BY InboundAssumption
<1>6. ASSUME NEW b \in Byte, Shown(item) = <<b>>
      PROVE  y = <<Append(x[1], b), x[2]>> /\ y \in PlainState
  <2>1. Append(x[1], b) = x[1] \o <<b>> /\ Append(x[1], b) \in Text
    BY <1>3, AppendIsConcat, AppendProperties DEF Text
  <2> QED
    BY <1>3, <1>6, <2>1, StateFacts
<1>7. ASSUME Shown(item) = <<>>
      PROVE  y = x
  <2>1. x[1] \o <<>> = x[1]
    BY <1>3, ConcatEmptySeq DEF Text
  <2> QED
    BY <1>3, <1>7, <2>1
<1>8. Encoded(item) \in Seq(Byte)
  <2>1. Writable \subseteq Byte
    BY DEF Writable, Byte, Z_END, ZIP
  <2> QED
    BY <2>1, EncodedLemma, SeqMonotonic
<1>9. y \in PlainState /\ PlainItem(Encoded(item), x, y)
  <2>1. CASE item = "letter"
    <3>1. Shown(item) = <<letter>> /\ Encoded(item) = <<letter>>
      BY <2>1 DEF Shown, Encoded, letter
    <3> HIDE DEF y
    <3> QED
      BY <3>1, <1>2, <1>6 DEF PlainItem
  <2>2. CASE item = "newline"
    <3>1. Shown(item) = <<NL>> /\ Encoded(item) = <<NL>> /\ NL \in Byte
      BY <2>2, <1>4 DEF Shown, Encoded
    <3> HIDE DEF y
    <3> QED
      BY <3>1, <1>4, <1>6 DEF PlainItem
  <2>3. CASE item = "literal"
    <3>1. Shown(item) = <<IAC>> /\ Encoded(item) = <<IAC, IAC>> /\ IAC \in Byte
      BY <2>3, <1>4 DEF Shown, Encoded
    <3> HIDE DEF y
    <3> QED
      BY <3>1, <1>6 DEF PlainItem
  <2>4. CASE item = "nul"
    <3>1. Shown(item) = <<>> /\ Encoded(item) = <<0>>
      BY <2>4 DEF Shown, Encoded
    <3> HIDE DEF y
    <3> QED
      BY <3>1, <1>7 DEF PlainItem
  <2>5. CASE item = "goahead"
    <3>1. Shown(item) = <<>> /\ Encoded(item) = <<IAC, GA>>
      BY <2>5 DEF Shown, Encoded
    <3> HIDE DEF y
    <3> QED
      BY <3>1, <1>7 DEF PlainItem
  <2>6. CASE item = "ttype"
    <3>1. Shown(item) = <<>> /\ Encoded(item) = TTYPE
      BY <2>6 DEF Shown, Encoded, TTYPE
    <3> HIDE DEF y
    <3> QED
      BY <3>1, <1>7 DEF PlainItem
  <2> QED
    BY <1>5, <2>1, <2>2, <2>3, <2>4, <2>5, <2>6
<1> QED
  BY <1>8, <1>9, PlainItemLemma

LEMMA SendsKeeps ==
    ASSUME NEW m, NEW c, NEW r, NEW t, NEW P, NEW Q, Inv(m, c, r, t, P, Q),
           NEW s \in Seq(Writable), NEW isText \in BOOLEAN, Sends(s, isText),
           NEW y, <<Bytes(OnTheWire(s, isText)), m, y>> \in Raw,
           isText => Len(y[1][1]) > Len(m[1][1]),
           SentIs(y)'
    PROVE  Inv(y, c, r, t, P, Q)'
<1> DEFINE w == OnTheWire(s, isText)
<1>1. /\ w \in Seq(WireByte) /\ Len(w) = Len(s)
      /\ \A i \in 1..Len(s) : w[i].last = (i = Len(s)) /\ w[i].text = isText
  BY WrittenLemma, WrittenFields
<1>2. wire' = wire \o w
  BY DEF Sends
<1>3. /\ UNCHANGED <<answers, stream, inbuf, outbuf, got_v2, resp_v1, resp_v2, error>>
      /\ UNCHANGED <<telnet_buf, more_coming, old_more_coming, last_line, shown>>
      /\ UNCHANGED <<pc, at, rest, text>>
  BY DEF Sends, mccp, lines
<1>4. y \in RawState
  BY RawItemLemma
<1> HIDE DEF w
<1>5. <<w, m, y>> \in Wired
  <2>1. <<Bytes(w), m, y>> \in Raw
    BY DEF w
  <2>2. m \in RawState
    BY <2>1, RawItemLemma
  <2>3. WireItem(w, m, y)
    BY <2>1, <1>1 DEF WireItem
  <2> QED
    BY <1>1, <1>4, <2>2, <2>3, WireItemLemma
<1>6. Paths(m, c, r, t, P, Q)
  BY DEF Inv
<1>7. WireLeads(c, wire \o w, y)
  BY <1>5, <1>6, ItemSets, LeadsStep DEF WireLeads, Paths
<1>8. Paths(y, c, r, t, P, Q)'
  BY <1>2, <1>4, <1>6, <1>7 DEF Paths
<1>9. AnsweredIs(r, t)' /\ AgreedIs(r)' /\ ReadIs(c, t)' /\ BuffersAre(r, P, Q)'
  BY <1>3, InvFrame DEF Inv
<1> QED
  BY <1>8, <1>9 DEF Inv

LEMMA SendTextKeeps ==
    ASSUME TypeOK, NEW m, NEW c, NEW r, NEW t, NEW P, NEW Q, Inv(m, c, r, t, P, Q),
           NEW item \in Items, SendText(item)
    PROVE  \E y : Inv(y, c, r, t, P, Q)'
<1>1. m \in RawState /\ m[3] = zip /\ m[1][1] = sent /\ SentIs(m)
  BY DEF Inv, Paths, SentIs
<1>2. m[1] \in PlainState
  BY <1>1, StateFacts
<1>3. PICK p : p = <<sent \o Shown(item), m[1][2]>>
  OBVIOUS
<1>4. PICK y : y = <<p, m[2], m[3]>>
  OBVIOUS
<1>5. PICK isText \in BOOLEAN : isText = (Shown(item) # <<>>)
  OBVIOUS
<1>6. PICK s : s = Encoded(item)
  OBVIOUS
<1>7. <<s, m[1], p>> \in Plain
  BY <1>1, <1>2, <1>3, <1>6, TextItem
<1>8. y[1][1] = sent \o Shown(item) /\ y[1][2] = m[1][2] /\ y[2] = m[2] /\ y[3] = m[3]
  BY <1>3, <1>4
<1>9. <<Bytes(OnTheWire(s, isText)), m, y>> \in Raw /\ s \in Seq(Writable)
  BY <1>1, <1>4, <1>7, TelnetItem
<1>10. isText => Len(y[1][1]) > Len(m[1][1])
  <2>1. Shown(item) \in Seq(Byte) /\ sent \in Seq(Byte)
    BY EncodedLemma DEF TypeOK
  <2>2. Len(sent \o Shown(item)) = Len(sent) + Len(Shown(item))
    BY <2>1, ConcatProperties
  <2>3. Shown(item) # <<>> => Len(Shown(item)) \in Nat \ {0}
    BY <2>1, EmptySeq
  <2>4. Len(sent) \in Nat
    BY <2>1, LenProperties
  <2>5. y[1][1] = sent \o Shown(item) /\ m[1][1] = sent
    BY <1>1, <1>8
  <2>6. isText => Len(sent \o Shown(item)) > Len(sent)
    <3>1. isText => Shown(item) # <<>>
      BY <1>5, Zenon
    <3>2. Shown(item) # <<>> => Len(sent \o Shown(item)) > Len(sent)
      BY <2>2, <2>3, <2>4
    <3> QED
      BY <3>1, <3>2
  <2> QED
    BY <2>5, <2>6
<1>11. sent' = sent \o Shown(item) /\ UNCHANGED <<asked, zip>> /\ Sends(s, isText)
  BY <1>5, <1>6 DEF SendText
<1>12. SentIs(y)'
  <2>1. \A v : Offered(v) => Offered(v)'
    BY <1>11 DEF Offered
  <2> HIDE DEF Offered
  <2>2. y[1][1] = sent' /\ y[3] = zip'
    BY <1>1, <1>8, <1>11
  <2>3. \A o \in Options : Count(y[1][2], o) = Count(asked', o)
    BY <1>1, <1>8, <1>11 DEF SentIs
  <2>4. \A v \in AllVersions : /\ Count(asked', v) = IF v \in y[2] THEN 1 ELSE 0
                               /\ v \in y[2] => Offered(v)'
    BY <1>1, <1>8, <1>11, <2>1 DEF SentIs
  <2> QED
    BY <2>2, <2>3, <2>4 DEF SentIs
<1>13. Inv(y, c, r, t, P, Q)'
  BY <1>9, <1>10, <1>11, <1>12, SendsKeeps
<1> QED
  BY <1>13

LEMMA AskedLemma ==
    ASSUME TypeOK, NEW verb \in Verbs, NEW option \in Byte,
           asked' = Append(asked, <<verb, option>>)
    PROVE  /\ \A o : Count(asked', o) = Count(asked, o) + (IF option = o THEN 1 ELSE 0)
           /\ \A v : Offered(v) => Offered(v)'
           /\ verb = WILL => Offered(option)'
<1>1. asked \in Seq(Verbs \X Byte)
  BY DEF TypeOK
<1>2. asked \in Seq((Verbs \cup {SB}) \X Byte)
  BY <1>1, AskedCounts DEF Asked
<1>3. \A o : Count(asked', o) = Count(asked, o) + (IF option = o THEN 1 ELSE 0)
  BY <1>2, CountLemma
<1>4. <<verb, option>> \in Verbs \X Byte
  OBVIOUS
<1>5. /\ Len(asked) \in Nat /\ Len(asked') = Len(asked) + 1
      /\ \A i \in 1..Len(asked) : asked'[i] = asked[i]
      /\ asked'[Len(asked) + 1] = <<verb, option>>
  BY <1>1, <1>4, AppendProperties, LenProperties
<1>6. ASSUME NEW v, Offered(v) PROVE Offered(v)'
  <2>1. PICK i \in 1..Len(asked) : asked[i] = <<WILL, v>>
    BY <1>6 DEF Offered
  <2>2. i \in 1..Len(asked') /\ asked'[i] = <<WILL, v>>
    BY <1>5, <2>1
  <2> QED
    BY <2>2 DEF Offered
<1>7. ASSUME verb = WILL PROVE Offered(option)'
  <2>1. Len(asked) + 1 \in 1..Len(asked')
    BY <1>5
  <2>2. asked'[Len(asked) + 1] = <<WILL, option>>
    BY <1>5, <1>7
  <2> QED
    BY <2>1, <2>2 DEF Offered
<1> QED
  BY <1>3, <1>6, <1>7

\* Short rows of bytes are writable.
LEMMA WritableRows ==
    /\ \A v \in 0..255, o \in 0..255 : <<IAC, v, o>> \in Seq(Writable)
    /\ on_v1 \in Seq(Writable) /\ on_v2 \in Seq(Writable) /\ <<Z_END>> \in Seq(Writable)
    /\ will_v1 \in Text /\ will_v2 \in Text /\ on_v1 \in Text /\ on_v2 \in Text
    /\ <<Z_END>> \in Text /\ Verbs \subseteq 0..255
<1>1. /\ {IAC, SB, SE, WILL, COMPRESS, COMPRESS2, Z_END} \subseteq Writable
      /\ {IAC, SB, SE, WILL, COMPRESS, COMPRESS2, Z_END} \subseteq Byte
      /\ 0..255 \subseteq Writable
  BY DEF Writable, Byte, Z_END, ZIP, IAC, SB, SE, WILL, COMPRESS, COMPRESS2
<1>2. \A v \in 0..255, o \in 0..255 : <<IAC, v, o>> \in Seq(Writable)
  BY <1>1
<1>3. on_v1 \in Seq(Writable) /\ on_v1 \in Text
  BY <1>1 DEF on_v1, Text
<1>4. on_v2 \in Seq(Writable) /\ on_v2 \in Text
  BY <1>1 DEF on_v2, Text
<1>5. <<Z_END>> \in Seq(Writable) /\ <<Z_END>> \in Text
  BY <1>1 DEF Text
<1>6. will_v1 \in Text /\ will_v2 \in Text
  BY <1>1 DEF will_v1, will_v2, Text
<1>7. Verbs \subseteq 0..255
  BY DEF Verbs, WILL, WONT, DO, DONT
<1> QED
  BY <1>2, <1>3, <1>4, <1>5, <1>6, <1>7

LEMMA RequestKeeps ==
    ASSUME TypeOK, NEW m, NEW c, NEW r, NEW t, NEW P, NEW Q, Inv(m, c, r, t, P, Q),
           NEW verb \in Verbs, NEW option \in 0..254, option \notin AllVersions,
           SendRequest(verb, option)
    PROVE  \E y : Inv(y, c, r, t, P, Q)'
<1>1. m \in RawState /\ m[3] = zip /\ m[1][1] = sent /\ SentIs(m)
  BY DEF Inv, Paths, SentIs
<1>2. m[1] \in PlainState /\ m[1] = <<m[1][1], m[1][2]>> /\ m[1][1] \in Text /\ m[1][2] \in Asked
  BY <1>1, StateFacts
<1>3. option \in Byte /\ option \in 0..255
  BY DEF Byte, Z_END, ZIP
<1>4. PICK p : p = <<m[1][1], Append(m[1][2], <<verb, option>>)>>
  OBVIOUS
<1>5. PICK y : y = <<p, m[2], m[3]>>
  OBVIOUS
<1>6. PICK s : s = <<IAC, verb, option>>
  OBVIOUS
<1>7. <<verb, option>> \in Verbs \X Byte
  BY <1>3
<1>8. Append(m[1][2], <<verb, option>>) \in Asked
  BY <1>2, <1>7, AppendProperties DEF Asked
<1>9. <<s, m[1], p>> \in Plain
  <2>1. p \in PlainState
    BY <1>2, <1>4, <1>8, StateFacts
  <2>2. PlainItem(s, m[1], p)
    BY <1>4, <1>6 DEF PlainItem, AllVersions
  <2>3. s \in Seq(Byte)
    <3>1. verb \in Byte /\ IAC \in Byte
      BY DEF Verbs, WILL, WONT, DO, DONT, Byte, Z_END, ZIP, IAC
    <3> QED
      BY <3>1, <1>3, <1>6
  <2> QED
    BY <1>2, <2>1, <2>2, <2>3, PlainItemLemma
<1>10. <<Bytes(OnTheWire(s, FALSE)), m, y>> \in Raw /\ s \in Seq(Writable)
  BY <1>1, <1>5, <1>9, TelnetItem
<1>11. /\ asked' = Append(asked, <<verb, option>>) /\ UNCHANGED <<sent, zip>>
       /\ Sends(s, FALSE)
  BY <1>6 DEF SendRequest
<1>12. SentIs(y)'
  <2>1. /\ \A o : Count(asked', o) = Count(asked, o) + (IF option = o THEN 1 ELSE 0)
        /\ \A v : Offered(v) => Offered(v)'
    BY <1>3, <1>11, AskedLemma
  <2>2. /\ y[1][1] = sent' /\ y[3] = zip' /\ y[2] = m[2]
        /\ y[1][2] = Append(m[1][2], <<verb, option>>)
    BY <1>1, <1>4, <1>5, <1>11
  <2>3. \A o : Count(y[1][2], o) = Count(m[1][2], o) + (IF option = o THEN 1 ELSE 0)
    <3>1. m[1][2] \in Seq((Verbs \cup {SB}) \X Byte)
      BY <1>2, AskedCounts
    <3>2. \A o : Count(Append(m[1][2], <<verb, option>>), o) =
                  Count(m[1][2], o) + (IF option = o THEN 1 ELSE 0)
      BY <3>1, <1>3, CountLemma
    <3> QED
      BY <2>2, <3>2
  <2>4. \A o \in Options : Count(y[1][2], o) = Count(asked', o)
    BY <2>1, <2>3, <1>1 DEF SentIs
  <2>5. ASSUME NEW v \in AllVersions
        PROVE  /\ Count(asked', v) = IF v \in y[2] THEN 1 ELSE 0
               /\ v \in y[2] => Offered(v)'
    <3>1. Count(asked, v) = IF v \in m[2] THEN 1 ELSE 0
      BY <1>1 DEF SentIs
    <3>2. v \in m[2] => Offered(v)
      BY <1>1 DEF SentIs
    <3>3. Count(asked', v) = Count(asked, v) + 0
      BY <2>1
    <3> QED
      BY <3>1, <3>2, <3>3, <2>1, <2>2
  <2> QED
    BY <2>2, <2>4, <2>5 DEF SentIs
<1>13. Inv(y, c, r, t, P, Q)'
  BY <1>10, <1>11, <1>12, SendsKeeps
<1> QED
  BY <1>13

LEMMA OfferKeeps ==
    ASSUME TypeOK, WholeReads,
           NEW m, NEW c, NEW r, NEW t, NEW P, NEW Q, Inv(m, c, r, t, P, Q),
           NEW version \in AllVersions, Offer(version)
    PROVE  \E y : Inv(y, c, r, t, P, Q)'
<1>1. m \in RawState /\ m[3] = zip /\ m[1][1] = sent /\ SentIs(m) /\ zip = "plain"
  BY DEF Inv, Paths, SentIs, Offer
<1>2. m[1] \in PlainState /\ m[2] \subseteq AllVersions
  BY <1>1, StateFacts DEF AllVersions
<1>3. version \in Byte /\ version \in 0..255 /\ version \notin Options
  BY DEF Byte, Z_END, ZIP, AllVersions, COMPRESS, COMPRESS2, Options
<1>4. PICK y : y = <<m[1], m[2] \cup {version}, "plain">>
  OBVIOUS
<1>5. PICK s : s = <<IAC, WILL, version>>
  OBVIOUS
<1>6. version \notin m[2] /\ (version = COMPRESS2 => m[2] = {})
  <2>1. \A v \in AllVersions : v \in m[2] => Offered(v)
    BY <1>1 DEF SentIs
  <2>2. ~Offered(version) /\ (version = COMPRESS2 => ~Offered(COMPRESS))
    BY DEF Offer, WholeReads
  <2> QED
    BY <2>1, <2>2, <1>2 DEF AllVersions
<1>7. y \in RawState /\ y[1] = m[1] /\ y[2] = m[2] \cup {version} /\ y[3] = "plain"
  <2>1. m[2] \cup {version} \in SUBSET {COMPRESS, COMPRESS2}
    BY <1>2 DEF AllVersions
  <2> QED
    BY <1>2, <1>4, <2>1, StateFacts
<1>8. s \in Seq(Writable) /\ s \in Seq(Byte)
  <2>1. IAC \in Byte /\ WILL \in Byte /\ WILL \in 0..255
    BY DEF IAC, WILL, Byte, Z_END, ZIP
  <2>2. <<IAC, WILL, version>> \in Seq(Writable)
    BY <2>1, <1>3, WritableRows
  <2>3. <<IAC, WILL, version>> \in Seq(Byte)
    BY <2>1, <1>3
  <2> QED
    BY <2>2, <2>3, <1>5
<1>9. <<Bytes(OnTheWire(s, FALSE)), m, y>> \in Raw
  <2>1. Bytes(OnTheWire(s, FALSE)) = s
    BY <1>1, <1>8, OnWireLemma
  <2>2. Offered_(s, m, y)
    <3>1. CASE version = COMPRESS
      <4>1. s = will_v1
        BY <1>5, <3>1 DEF will_v1
      <4> QED
        BY <4>1, <3>1, <1>1, <1>6, <1>7 DEF Offered_
    <3>2. CASE version = COMPRESS2
      <4>1. s = will_v2
        BY <1>5, <3>2 DEF will_v2
      <4>2. y[2] = {COMPRESS2} /\ m[2] = {}
        BY <3>2, <1>6, <1>7
      <4> QED
        BY <4>1, <4>2, <1>1, <1>7 DEF Offered_
    <3> QED
      BY <3>1, <3>2 DEF AllVersions
  <2> QED
    BY <2>1, <2>2, <1>1, <1>7, <1>8, RawItemLemma DEF RawItem
<1>10. /\ asked' = Append(asked, <<WILL, version>>) /\ UNCHANGED <<sent, zip>>
       /\ Sends(s, FALSE)
  BY <1>5 DEF SendRequest, Offer
<1>11. SentIs(y)'
  <2>1. /\ \A o : Count(asked', o) = Count(asked, o) + (IF version = o THEN 1 ELSE 0)
        /\ \A v : Offered(v) => Offered(v)'
        /\ Offered(version)'
    <3>1. WILL \in Verbs
      BY DEF Verbs
    <3> QED
      BY <3>1, <1>3, <1>10, AskedLemma
  <2>2. y[1][1] = sent' /\ y[3] = zip' /\ y[1][2] = m[1][2]
    BY <1>1, <1>7, <1>10
  <2>3. \A o \in Options : Count(y[1][2], o) = Count(asked', o)
    <3>1. ASSUME NEW o \in Options
          PROVE  Count(y[1][2], o) = Count(asked', o)
      <4>1. Count(asked', o) = Count(asked, o) + 0
        BY <2>1, <1>3
      <4>2. Count(asked, o) \in Nat
        <5>1. asked \in Seq((Verbs \cup {SB}) \X Byte)
          BY AskedCounts DEF Asked, TypeOK
        <5> QED
          BY <5>1, CountLemma
      <4>3. Count(m[1][2], o) = Count(asked, o)
        BY <1>1 DEF SentIs
      <4> QED
        BY <4>1, <4>2, <4>3, <2>2
    <3> QED
      BY <3>1
  <2>4. ASSUME NEW v \in AllVersions
        PROVE  /\ Count(asked', v) = IF v \in y[2] THEN 1 ELSE 0
               /\ v \in y[2] => Offered(v)'
    <3>1. Count(asked, v) = IF v \in m[2] THEN 1 ELSE 0
      BY <1>1 DEF SentIs
    <3>2. v \in m[2] => Offered(v)
      BY <1>1 DEF SentIs
    <3>3. CASE v = version
      BY <3>1, <3>3, <2>1, <1>6, <1>7
    <3>4. CASE v # version
      <4>1. Count(asked', v) = Count(asked, v) + 0 /\ (v \in y[2] <=> v \in m[2])
        BY <3>4, <2>1, <1>7
      <4> QED
        BY <4>1, <3>1, <3>2, <2>1
    <3> QED
      BY <3>3, <3>4
  <2> QED
    BY <2>2, <2>3, <2>4 DEF SentIs
<1>12. Inv(y, c, r, t, P, Q)'
  BY <1>8, <1>9, <1>10, <1>11, SendsKeeps
<1> QED
  BY <1>12

\* What has been received was offered before, and written before.
LEMMA PathsLater ==
    ASSUME NEW m, NEW c, NEW r, NEW t, NEW P, NEW Q, Paths(m, c, r, t, P, Q)
    PROVE  /\ Later(r, c) /\ Later(c, m) /\ Begins(t[1], r[1][1])
           /\ Q \in Seq(Byte) /\ P \in Seq(Byte) /\ wire \in Seq(WireByte)
<1>1. /\ m \in RawState /\ c \in RawState /\ r \in RawState /\ t \in PlainState
      /\ WireLeads(c, wire, m) /\ RawLeads(r, Q, c) /\ PlainLeads(t, P, r[1])
  BY DEF Paths
<1> QED
  BY <1>1, RawStreamLater, WireStreamLater, PlainStreamBegins

LEMMA StartZipKeeps ==
    ASSUME TypeOK, NEW m, NEW c, NEW r, NEW t, NEW P, NEW Q, Inv(m, c, r, t, P, Q),
           NEW version \in AllVersions, StartZip(version)
    PROVE  \E y : Inv(y, c, r, t, P, Q)'
<1>1. m \in RawState /\ m[3] = zip /\ m[1][1] = sent /\ SentIs(m) /\ zip = "plain" /\ AgreedIs(r)
  BY DEF Inv, Paths, SentIs, StartZip
<1>2. m[1] \in PlainState /\ m[2] \in SUBSET {COMPRESS, COMPRESS2}
  BY <1>1, StateFacts
<1>3. PICK y : y = <<m[1], m[2], "zipped">>
  OBVIOUS
<1>4. y \in RawState /\ y[1] = m[1] /\ y[2] = m[2] /\ y[3] = "zipped"
  BY <1>2, <1>3, StateFacts
<1>5. PICK s : s = IF version = COMPRESS THEN on_v1 ELSE on_v2
  OBVIOUS
<1>6. Later(r, m)
  <2>1. Later(r, c) /\ Later(c, m) /\ r \in RawState /\ c \in RawState
    BY PathsLater DEF Inv, Paths
  <2> QED
    BY <2>1, LaterLemma
<1>7. Said(version)
  BY DEF StartZip, Said
<1>8. (version = COMPRESS => m[2] = {COMPRESS}) /\ (version = COMPRESS2 => COMPRESS2 \in m[2])
  BY <1>1, <1>6, <1>7 DEF AgreedIs, Later
<1>9. s \in Seq(Writable) /\ s \in Seq(Byte)
  BY <1>5, WritableRows DEF Text
<1>10. <<Bytes(OnTheWire(s, FALSE)), m, y>> \in Raw
  <2>1. Bytes(OnTheWire(s, FALSE)) = s
    BY <1>1, <1>9, OnWireLemma
  <2>2. Started(s, m, y)
    BY <1>1, <1>4, <1>5, <1>8 DEF Started, AllVersions
  <2> QED
    BY <2>1, <2>2, <1>1, <1>4, <1>9, RawItemLemma DEF RawItem
<1>11. Sends(s, FALSE) /\ zip' = "zipped" /\ UNCHANGED <<sent, asked>>
  <2>1. s = <<IAC, SB, version>> \o (IF version = COMPRESS THEN <<WILL, SE>> ELSE <<IAC, SE>>)
    <3>1. CASE version = COMPRESS
      BY <3>1, <1>5 DEF on_v1
    <3>2. CASE version # COMPRESS
      <4>1. version = COMPRESS2
        BY <3>2 DEF AllVersions
      <4> QED
        BY <4>1, <3>2, <1>5 DEF on_v2
    <3> QED
      BY <3>1, <3>2
  <2> QED
    BY <2>1 DEF StartZip
<1>12. SentIs(y)'
  <2>1. \A v : Offered(v) => Offered(v)'
    BY <1>11 DEF Offered
  <2> HIDE DEF Offered
  <2>2. y[1][1] = sent' /\ y[3] = zip' /\ y[1][2] = m[1][2] /\ asked' = asked
    BY <1>1, <1>4, <1>11
  <2>3. \A o \in Options : Count(y[1][2], o) = Count(asked', o)
    BY <1>1, <2>2 DEF SentIs
  <2>4. \A v \in AllVersions : /\ Count(asked', v) = IF v \in y[2] THEN 1 ELSE 0
                               /\ v \in y[2] => Offered(v)'
    BY <1>1, <1>4, <2>1, <2>2 DEF SentIs
  <2> QED
    BY <2>2, <2>3, <2>4 DEF SentIs
<1>13. Inv(y, c, r, t, P, Q)'
  BY <1>9, <1>10, <1>11, <1>12, SendsKeeps
<1> QED
  BY <1>13

LEMMA EndZipKeeps ==
    ASSUME TypeOK, NEW m, NEW c, NEW r, NEW t, NEW P, NEW Q, Inv(m, c, r, t, P, Q), EndZip
    PROVE  \E y : Inv(y, c, r, t, P, Q)'
<1>1. m \in RawState /\ m[3] = zip /\ m[1][1] = sent /\ SentIs(m) /\ zip = "zipped"
  BY DEF Inv, Paths, SentIs, EndZip
<1>2. m[1] \in PlainState /\ m[2] \in SUBSET {COMPRESS, COMPRESS2}
  BY <1>1, StateFacts
<1>3. PICK y : y = <<m[1], m[2], "ended">>
  OBVIOUS
<1>4. y \in RawState /\ y[1] = m[1] /\ y[2] = m[2] /\ y[3] = "ended"
  BY <1>2, <1>3, StateFacts
<1>5. PICK s : s = <<Z_END>>
  OBVIOUS
<1>6. s \in Seq(Writable) /\ s \in Seq(Byte)
  BY <1>5, WritableRows DEF Text
<1>7. <<Bytes(OnTheWire(s, FALSE)), m, y>> \in Raw
  <2>1. Bytes(OnTheWire(s, FALSE)) = s
    BY <1>5, <1>6, OnWireLemma
  <2>2. Ended(s, m, y)
    BY <1>1, <1>4, <1>5 DEF Ended
  <2> QED
    BY <2>1, <2>2, <1>1, <1>4, <1>6, RawItemLemma DEF RawItem
<1>8. Sends(s, FALSE) /\ zip' = "ended" /\ UNCHANGED <<sent, asked>>
  BY <1>5 DEF EndZip
<1>9. SentIs(y)'
  <2>1. \A v : Offered(v) => Offered(v)'
    BY <1>8 DEF Offered
  <2> HIDE DEF Offered
  <2>2. y[1][1] = sent' /\ y[3] = zip' /\ y[1][2] = m[1][2] /\ asked' = asked
    BY <1>1, <1>4, <1>8
  <2>3. \A o \in Options : Count(y[1][2], o) = Count(asked', o)
    BY <1>1, <2>2 DEF SentIs
  <2>4. \A v \in AllVersions : /\ Count(asked', v) = IF v \in y[2] THEN 1 ELSE 0
                               /\ v \in y[2] => Offered(v)'
    BY <1>1, <1>4, <2>1, <2>2 DEF SentIs
  <2> QED
    BY <2>2, <2>3, <2>4 DEF SentIs
<1>10. Inv(y, c, r, t, P, Q)'
  BY <1>6, <1>7, <1>8, <1>9, SendsKeeps
<1> QED
  BY <1>10

LEMMA MudKeeps ==
    ASSUME TypeOK, WholeReads,
           NEW m, NEW c, NEW r, NEW t, NEW P, NEW Q, Inv(m, c, r, t, P, Q), Mud
    PROVE  \E y : Inv(y, c, r, t, P, Q)'
<1>1. ASSUME NEW request \in Requests, SendRequest(request[1], request[2])
      PROVE  \E y : Inv(y, c, r, t, P, Q)'
  <2>1. /\ request[1] \in Verbs /\ request[2] \in 0..255 /\ request[2] # IAC
        /\ request[2] # COMPRESS /\ request[2] # COMPRESS2
    BY ConstantFacts DEF WholeReads
  <2>2. request[2] \in 0..254 /\ request[2] \notin AllVersions
    BY <2>1 DEF IAC, AllVersions
  <2> QED
    BY <2>1, <2>2, <1>1, RequestKeeps
<1>2. \A version \in Versions : version \in AllVersions
  BY ConstantFacts DEF AllVersions
<1> QED
  BY <1>1, <1>2, SendTextKeeps, OfferKeeps, StartZipKeeps, EndZipKeeps DEF Mud

-----------------------------------------------------------------------------
(* A read: what arrives, and the scan for the markers.                       *)

LEMMA RecvKeeps ==
    ASSUME TypeOK, WholeReads,
           NEW m, NEW c, NEW r, NEW t, NEW P, NEW Q, Inv(m, c, r, t, P, Q),
           NEW n \in 1..INPUT_CHUNK, Recv(n)
    PROVE  \E z, q : Inv(m, z, r, t, P, q)'
<1>1. /\ m \in RawState /\ c \in RawState /\ r \in RawState /\ t \in PlainState
      /\ WireLeads(c, wire, m) /\ RawLeads(r, Q, c) /\ PlainLeads(t, P, r[1])
      /\ AgreedIs(r) /\ ReadIs(c, t)
  BY DEF Inv, Paths
<1>2. /\ ~error /\ telnet_buf = <<>> /\ at = 1 /\ pc = "idle" /\ text = <<>>
      /\ outbuf = <<>> /\ inbuf = <<>> /\ Q = <<>> /\ rest = <<>> /\ P = <<>>
  BY DEF Inv, BuffersAre, ReadIs, Recv
<1>3. r = c /\ t = r[1]
  <2>1. r = c
    BY <1>1, <1>2, ItemSets, SolidItems, LeadsSame DEF RawLeads
  <2>2. r[1] = t
    BY <1>1, <1>2, ItemSets, SolidItems, LeadsSame DEF PlainLeads
  <2> QED
    BY <2>1, <2>2
<1>4. wire \in Seq(WireByte) /\ Len(wire) \in Nat /\ n \in 1..Len(wire) /\ n \in 0..Len(wire)
  <2>1. wire \in Seq(WireByte)
    BY DEF TypeOK, WireByte
  <2>2. n <= Len(wire) /\ n \in Nat /\ n >= 1
    BY ConstantFacts DEF Recv
  <2>3. Len(wire) \in Nat
    BY <2>1, LenProperties
  <2> QED
    BY <2>1, <2>2, <2>3
<1>5. wire[n].last
  BY DEF Recv, WholeReads
<1>6. PICK z \in RawState : WireLeads(c, SubSeq(wire, 1, n), z) /\ WireLeads(z, After(wire, n), m)
  BY <1>1, <1>4, <1>5, CutAtLast DEF Cuts
<1>7. /\ SubSeq(wire, 1, n) \in Seq(WireByte) /\ Len(SubSeq(wire, 1, n)) = n
      /\ \A i \in 1..n : SubSeq(wire, 1, n)[i] = wire[i]
  BY <1>4, CutLemma
<1>8. PICK q : q = Bytes(SubSeq(wire, 1, n))
  OBVIOUS
<1>9. q \in Seq(Byte) /\ q = [i \in 1..n |-> wire[i].byte]
  <2>1. q \in Seq(Byte)
    BY <1>7, <1>8, BytesLemma
  <2>2. Bytes(SubSeq(wire, 1, n)) = [i \in 1..n |-> SubSeq(wire, 1, n)[i].byte]
    BY <1>7 DEF Bytes
  <2>3. [i \in 1..n |-> SubSeq(wire, 1, n)[i].byte] = [i \in 1..n |-> wire[i].byte]
    BY <1>7
  <2> QED
    BY <1>8, <2>1, <2>2, <2>3
<1>10. RawLeads(r, q, z)
  BY <1>1, <1>3, <1>6, <1>8, BytesLeads
<1>11. /\ wire' = After(wire, n) /\ old_more_coming' = more_coming /\ more_coming' = More(n)
       /\ UNCHANGED <<sent, asked, zip, answers, stream, got_v2, resp_v1, resp_v2>>
       /\ UNCHANGED <<error, telnet_buf, last_line, at, rest, text, shown>>
  BY DEF Recv, After
<1>12. IF stream THEN inbuf' = q /\ pc' = "inflate" /\ outbuf' = <<>>
       ELSE outbuf' = q /\ pc' = "scan" /\ inbuf' = <<>>
  <2>1. <<>> \o q = q
    BY <1>9, ConcatEmptySeq
  <2>2. IF stream THEN inbuf' = inbuf \o q /\ pc' = "inflate" /\ outbuf' = outbuf
        ELSE outbuf' = outbuf \o q /\ pc' = "scan" /\ inbuf' = inbuf
    BY <1>2, <1>9 DEF Recv
  <2> QED
    BY <1>2, <2>1, <2>2
<1>13. pc' \in {"scan", "inflate"}
  BY <1>12
<1>14. Paths(m, z, r, t, P, q)'
  BY <1>1, <1>6, <1>10, <1>11 DEF Paths
<1>15. SentIs(m)' /\ AnsweredIs(r, t)' /\ AgreedIs(r)'
  BY <1>11, InvFrame DEF Inv
<1>16. ReadIs(z, t)'
  <2>1. /\ t[1] = (shown \o last_line) \o text
        /\ last_line # <<>> => more_coming
    BY <1>1, <1>2 DEF ReadIs
  <2>2. shown \o last_line \in Seq(Byte)
    BY ConcatProperties DEF TypeOK
  <2>3. t[1] = shown \o last_line
    BY <1>2, <2>1, <2>2, ConcatEmptySeq
  <2>4. ASSUME ~More(n) PROVE Len(z[1][1]) > Len(shown \o last_line)
    <3>1. \E i \in 1..n : wire[i].text
      BY <2>4 DEF Recv, WholeReads
    <3>2. \E i \in 1..Len(SubSeq(wire, 1, n)) : SubSeq(wire, 1, n)[i].text
      BY <3>1, <1>7
    <3>3. Len(z[1][1]) > Len(c[1][1])
      BY <3>2, <1>1, <1>6, TextInStream
    <3> QED
      BY <3>3, <1>3, <2>3
  <2>5. pc' # "idle" /\ pc' # "lines"
    BY <1>13
  <2> QED
    BY <1>2, <1>11, <2>1, <2>4, <2>5 DEF ReadIs
<1>17. BuffersAre(r, P, q)'
  <2>1. <<>> \o q = q
    BY <1>9, ConcatEmptySeq
  <2>2. CASE stream
    <3>1. r[3] = "zipped"
      BY <1>1, <2>2 DEF AgreedIs
    <3> QED
      BY <1>2, <1>11, <1>12, <2>2, <3>1 DEF BuffersAre
  <2>3. CASE ~stream
    <3>1. r[3] # "zipped"
      BY <1>1, <2>3 DEF AgreedIs
    <3>2. Len(<<>>) = 0 /\ at' - 1 <= Len(<<>>) /\ at'..Len(<<>>) = {}
      BY <1>2, <1>11
    <3>3. Harmless(<<>>)'
      BY <3>2 DEF Harmless
    <3>4. outbuf' = <<>> \o q
      BY <2>1, <1>12, <2>3
    <3> QED
      BY <1>2, <1>11, <1>12, <2>3, <3>1, <3>2, <3>3, <3>4 DEF BuffersAre
  <2> QED
    BY <2>2, <2>3
<1> QED
  BY <1>14, <1>15, <1>16, <1>17 DEF Inv

\* When one sequence begins another.
LEMMA PrefixLemma ==
    ASSUME NEW s \in Seq(Byte), NEW u \in Seq(Byte)
    PROVE  /\ IsPrefix(s, u) => Len(s) <= Len(u) /\ \A i \in 1..Len(s) : s[i] = u[i]
           /\ Len(s) <= Len(u) /\ (\A i \in 1..Len(s) : s[i] = u[i]) => IsPrefix(s, u)
<1>1. Len(s) \in Nat /\ Len(u) \in Nat
  BY LenProperties
<1>2. SubSeq(s, 1, Len(s)) = s
  BY SubSeqFull
<1>3. ASSUME Len(s) <= Len(u)
      PROVE  /\ SubSeq(u, 1, Len(s)) \in Seq(Byte) /\ Len(SubSeq(u, 1, Len(s))) = Len(s)
             /\ \A i \in 1..Len(s) : SubSeq(u, 1, Len(s))[i] = u[i]
  <2>1. Len(s) \in 0..Len(u)
    BY <1>1, <1>3
  <2> QED
    BY <2>1, CutLemma
<1>4. ASSUME IsPrefix(s, u)
      PROVE  Len(s) <= Len(u) /\ \A i \in 1..Len(s) : s[i] = u[i]
  <2>1. Len(s) <= Len(u) /\ s = SubSeq(u, 1, Len(s))
    BY <1>2, <1>4 DEF IsPrefix
  <2> QED
    BY <1>3, <2>1
<1>5. ASSUME Len(s) <= Len(u), \A i \in 1..Len(s) : s[i] = u[i]
      PROVE  IsPrefix(s, u)
  <2>1. s = SubSeq(u, 1, Len(s))
    <3>1. \A i \in 1..Len(s) : s[i] = SubSeq(u, 1, Len(s))[i]
      BY <1>3, <1>5
    <3> QED
      BY <1>3, <1>5, <3>1, SeqEqual
  <2> QED
    BY <1>2, <1>5, <2>1 DEF IsPrefix
<1> QED
  BY <1>4, <1>5

LEMMA MarkerFacts ==
    /\ will_v1 \in Seq(Byte) /\ Len(will_v1) = 3 /\ will_v1[1] = IAC /\ will_v1[2] = WILL
       /\ will_v1[3] = COMPRESS
    /\ will_v2 \in Seq(Byte) /\ Len(will_v2) = 3 /\ will_v2[1] = IAC /\ will_v2[2] = WILL
       /\ will_v2[3] = COMPRESS2
    /\ On \in Seq(Byte) /\ Len(On) = 5 /\ On[1] = IAC /\ On[2] = SB /\ On[3] \in AllVersions
    /\ On \in {on_v1, on_v2}
<1>1. /\ Len(on_v1) = 5 /\ on_v1[1] = IAC /\ on_v1[2] = SB /\ on_v1[3] = COMPRESS
      /\ Len(on_v2) = 5 /\ on_v2[1] = IAC /\ on_v2[2] = SB /\ on_v2[3] = COMPRESS2
  BY DEF on_v1, on_v2
<1>2. On \in {on_v1, on_v2}
  BY DEF On
<1>3. /\ Len(will_v1) = 3 /\ will_v1[1] = IAC /\ will_v1[2] = WILL /\ will_v1[3] = COMPRESS
      /\ Len(will_v2) = 3 /\ will_v2[1] = IAC /\ will_v2[2] = WILL /\ will_v2[3] = COMPRESS2
  BY DEF will_v1, will_v2
<1>4. /\ will_v1 \in Seq(Byte) /\ will_v2 \in Seq(Byte) /\ on_v1 \in Seq(Byte)
      /\ on_v2 \in Seq(Byte)
  BY WritableRows DEF Text
<1> QED
  BY <1>1, <1>2, <1>3, <1>4 DEF AllVersions

\* What matches a marker agrees with it as far as both go.
LEMMA MatchLemma ==
    ASSUME Here \in Seq(Byte), NEW marker \in Seq(Byte)
    PROVE  /\ Matches(marker) =>
                \A i \in 1..Len(marker) : i <= Len(Here) => Here[i] = marker[i]
           /\ Len(marker) <= Len(Here) /\ (\A i \in 1..Len(marker) : Here[i] = marker[i])
                => Matches(marker)
<1> DEFINE h == Here
<1>1. Len(h) \in Nat /\ Len(marker) \in Nat /\ h \in Seq(Byte)
  BY LenProperties
<1>2. Matches(marker) <=> IsPrefix(marker, h) \/ IsPrefix(h, marker)
  BY DEF Matches
<1> HIDE DEF h
<1>3. ASSUME IsPrefix(marker, h)
      PROVE  \A i \in 1..Len(marker) : i <= Len(h) => h[i] = marker[i]
  BY <1>1, <1>3, PrefixLemma
<1>4. ASSUME IsPrefix(h, marker)
      PROVE  \A i \in 1..Len(marker) : i <= Len(h) => h[i] = marker[i]
  <2>1. \A i \in 1..Len(h) : h[i] = marker[i]
    BY <1>1, <1>4, PrefixLemma
  <2> QED
    BY <1>1, <2>1
<1>5. ASSUME Len(marker) <= Len(h), \A i \in 1..Len(marker) : h[i] = marker[i]
      PROVE  IsPrefix(marker, h)
  BY <1>1, <1>5, PrefixLemma
<1> QED
  BY <1>2, <1>3, <1>4, <1>5 DEF h

LEMMA NoMarker ==
    ASSUME Here \in Seq(Byte), Len(Here) >= 2,
           \/ Here[2] # WILL /\ Here[2] # SB
           \/ Len(Here) >= 3 /\ Here[3] \notin AllVersions
    PROVE  Marker = <<>>
<1>1. Len(Here) \in Nat
  BY LenProperties
<1>2. ASSUME NEW marker \in Seq(Byte), Len(marker) \in {3, 5}, marker[2] \in {WILL, SB},
             marker[3] \in AllVersions
      PROVE  ~Matches(marker)
  <2>1. 2 \in 1..Len(marker) /\ 3 \in 1..Len(marker)
    BY <1>2
  <2>2. Matches(marker) => Here[2] = marker[2] /\ (Len(Here) >= 3 => Here[3] = marker[3])
    BY <2>1, <1>1, MatchLemma
  <2> QED
    BY <2>2, <1>2
<1>3. ~Matches(will_v1) /\ ~Matches(will_v2)
  BY <1>2, MarkerFacts DEF AllVersions
<1>4. ~Matches(On)
  BY <1>2, MarkerFacts
<1> QED
  BY <1>3, <1>4 DEF Marker

LEMMA MarkerIs ==
    ASSUME Here \in Seq(Byte), NEW marker \in {will_v1, will_v2, On},
           Len(marker) <= Len(Here), \A i \in 1..Len(marker) : Here[i] = marker[i]
    PROVE  Marker = marker
<1>1. Len(Here) \in Nat /\ marker \in Seq(Byte) /\ Len(marker) >= 3
  <2>1. Len(Here) \in Nat
    BY LenProperties
  <2>2. CASE marker = will_v1
    BY <2>1, <2>2, MarkerFacts
  <2>3. CASE marker = will_v2
    BY <2>1, <2>3, MarkerFacts
  <2>4. CASE marker = On
    BY <2>1, <2>4, MarkerFacts
  <2> QED
    BY <2>2, <2>3, <2>4
<1>2. Matches(marker)
  BY <1>1, MatchLemma
<1>3. Here[2] = marker[2] /\ Here[3] = marker[3] /\ Len(Here) >= 3
  <2>1. Len(marker) \in Nat
    BY <1>1, LenProperties
  <2>2. 2 \in 1..Len(marker) /\ 3 \in 1..Len(marker)
    BY <1>1, <2>1
  <2> QED
    BY <1>1, <2>1, <2>2
<1>4. Matches(will_v1) => Here[2] = WILL /\ Here[3] = COMPRESS
  <2>1. /\ will_v1 \in Seq(Byte) /\ Len(will_v1) = 3
        /\ will_v1[2] = WILL /\ will_v1[3] = COMPRESS
    BY MarkerFacts
  <2>2. ASSUME Matches(will_v1)
        PROVE  \A i \in 1..3 : i <= Len(Here) => Here[i] = will_v1[i]
    BY <2>1, <2>2, MatchLemma
  <2>3. 2 \in 1..3 /\ 3 \in 1..3 /\ 2 <= Len(Here) /\ 3 <= Len(Here)
    BY <1>1, <1>3
  <2> QED
    BY <2>1, <2>2, <2>3
<1>5. Matches(will_v2) => Here[2] = WILL /\ Here[3] = COMPRESS2
  <2>1. /\ will_v2 \in Seq(Byte) /\ Len(will_v2) = 3
        /\ will_v2[2] = WILL /\ will_v2[3] = COMPRESS2
    BY MarkerFacts
  <2>2. ASSUME Matches(will_v2)
        PROVE  \A i \in 1..3 : i <= Len(Here) => Here[i] = will_v2[i]
    BY <2>1, <2>2, MatchLemma
  <2>3. 2 \in 1..3 /\ 3 \in 1..3 /\ 2 <= Len(Here) /\ 3 <= Len(Here)
    BY <1>1, <1>3
  <2> QED
    BY <2>1, <2>2, <2>3
<1>6. WILL # SB /\ COMPRESS # COMPRESS2
  BY DEF WILL, SB, COMPRESS, COMPRESS2
<1>7. CASE marker = will_v1
  BY <1>2, <1>7 DEF Marker
<1>8. CASE marker = will_v2
  <2>1. ~Matches(will_v1)
    BY <1>3, <1>4, <1>6, <1>8, MarkerFacts
  <2> QED
    BY <2>1, <1>2, <1>8 DEF Marker
<1>9. CASE marker = On
  <2>1. ~Matches(will_v1) /\ ~Matches(will_v2)
    BY <1>3, <1>4, <1>5, <1>6, <1>9, MarkerFacts
  <2> QED
    BY <2>1, <1>2, <1>9 DEF Marker
<1> QED
  BY <1>7, <1>8, <1>9

\* How an item looks to the scan.
LEMMA PlainScan ==
    ASSUME NEW e, NEW x, NEW y, <<e, x, y>> \in Plain
    PROVE  \/ Len(e) = 1 /\ e[1] # IAC
           \/ Len(e) = 2 /\ e[1] = IAC /\ e[2] = IAC
           \/ /\ Len(e) >= 2 /\ e[1] = IAC /\ e[2] # IAC
              /\ \/ e[2] # WILL /\ e[2] # SB
                 \/ Len(e) >= 3 /\ e[3] \notin AllVersions
              /\ \A i \in 2..Len(e) : e[i] = IAC => i < Len(e) /\ e[i + 1] = SE
<1>1. PlainItem(e, x, y)
  BY PlainItemLemma
<1>2. ASSUME NEW b \in 1..254, e = <<b>>
      PROVE  Len(e) = 1 /\ e[1] # IAC
  BY <1>2 DEF IAC
<1>3. ASSUME e = <<IAC, IAC>>
      PROVE  Len(e) = 2 /\ e[1] = IAC /\ e[2] = IAC
  BY <1>3
<1>4. ASSUME e = << 0 >>
      PROVE  Len(e) = 1 /\ e[1] # IAC
  BY <1>4 DEF IAC
<1>5. ASSUME e = <<IAC, GA>>
      PROVE  /\ Len(e) >= 2 /\ e[1] = IAC /\ e[2] # IAC /\ e[2] # WILL /\ e[2] # SB
             /\ \A i \in 2..Len(e) : e[i] # IAC
  <2>1. Len(e) = 2 /\ e[1] = IAC /\ e[2] = GA /\ 2..2 = {2}
    BY <1>5
  <2> QED
    BY <2>1 DEF IAC, GA, WILL, SB
<1>6. ASSUME e = TTYPE
      PROVE  /\ Len(e) >= 3 /\ e[1] = IAC /\ e[2] # IAC /\ e[3] \notin AllVersions
             /\ \A i \in 2..Len(e) : e[i] = IAC => i < Len(e) /\ e[i + 1] = SE
  <2>1. /\ Len(e) = 6 /\ e[1] = IAC /\ e[2] = SB /\ e[3] = TERMINAL_TYPE /\ e[4] = SEND
        /\ e[5] = IAC /\ e[6] = SE
    BY <1>6 DEF TTYPE
  <2>2. \A i \in 2..6 : i \in {2, 3, 4, 5, 6}
    OBVIOUS
  <2>3. /\ SB # IAC /\ TERMINAL_TYPE # IAC /\ SEND # IAC /\ SE # IAC
        /\ TERMINAL_TYPE \notin AllVersions
    BY DEF SB, IAC, TERMINAL_TYPE, SEND, SE, AllVersions, COMPRESS, COMPRESS2
  <2>4. ASSUME NEW i \in 2..Len(e), e[i] = IAC
        PROVE  i < Len(e) /\ e[i + 1] = SE
    <3>1. i \in {2, 3, 4, 5, 6}
      BY <2>1, <2>2
    <3>2. i = 5
      BY <3>1, <2>1, <2>3, <2>4
    <3> QED
      BY <3>2, <2>1
  <2> QED
    BY <2>1, <2>3, <2>4
<1>7. ASSUME NEW v \in Verbs, NEW o \in 0..254, o # COMPRESS, o # COMPRESS2, e = <<IAC, v, o>>
      PROVE  /\ Len(e) >= 3 /\ e[1] = IAC /\ e[2] # IAC /\ e[3] \notin AllVersions
             /\ \A i \in 2..Len(e) : e[i] # IAC
  <2>1. Len(e) = 3 /\ e[1] = IAC /\ e[2] = v /\ e[3] = o
    BY <1>7
  <2>2. v # IAC /\ o # IAC
    BY DEF Verbs, WILL, WONT, DO, DONT, IAC
  <2>3. \A i \in 2..3 : i \in {2, 3}
    OBVIOUS
  <2> QED
    BY <2>1, <2>2, <2>3, <1>7 DEF AllVersions
<1>8. Len(e) >= 3 => Len(e) >= 2
  BY PlainByteLemma
<1> HIDE DEF TTYPE
<1> QED
  BY <1>1, <1>2, <1>3, <1>4, <1>5, <1>6, <1>7, <1>8, ZenonT(30) DEF PlainItem

\* The scan is inside an item it has begun to pass,
InItem == outbuf[at] # IAC \/ (~Escape /\ Marker = <<>>)

\* or it is at the first byte of one: it will pass it,
Passes(e) ==
    \/ Len(e) = 1 /\ outbuf[at] # IAC
    \/ Len(e) = 2 /\ outbuf[at] = IAC /\ Escape
    \/ /\ Len(e) >= 2 /\ outbuf[at] = IAC /\ ~Escape /\ Marker = <<>>
       /\ \A i \in 2..Len(e) : e[i] = IAC => i < Len(e) /\ e[i + 1] = SE

\* or it finds a marker.
Finds(e) == outbuf[at] = IAC /\ ~Escape /\ Marker = e /\ Len(Here) >= Len(e)

AtItem(e, r, w, c, P, Q, q) ==
    /\ at = Len(P) + 1 /\ Here = e \o q /\ SubSeq(outbuf, 1, at - 1) = P /\ Q = e \o q
    /\ <<e, r, w>> \in Raw /\ RawLeads(w, q, c)
    /\ \/ <<e, r[1], w[1]>> \in Plain /\ w[2] = r[2] /\ w[3] = r[3] /\ Passes(e)
       \/ e \in {will_v1, will_v2} /\ Offered_(e, r, w) /\ Finds(e)
       \/ e = On /\ Started(e, r, w) /\ Finds(e)

LEMMA HereFinds ==
    ASSUME TypeOK, at # 0, Scanning, NEW e \in Seq(Byte), NEW q \in Seq(Byte), Here = e \o q,
           e \in {will_v1, will_v2, On}
    PROVE  Finds(e)
<1>1. Here \in Seq(Byte) /\ Here[1] = outbuf[at] /\ Len(Here) = Len(outbuf) - at + 1
      /\ Len(outbuf) \in Nat /\ at \in 1..Len(outbuf)
      /\ (at < Len(outbuf) => Here[2] = outbuf[at + 1])
  <2>1. /\ Here \in Seq(Byte) /\ Len(Here) = Len(outbuf) - at + 1
        /\ \A i \in 1..Len(outbuf) - at + 1 : Here[i] = outbuf[at + i - 1]
        /\ at \in 1..Len(outbuf) /\ Len(outbuf) \in Nat
    BY HereLemma
  <2>2. 1 \in 1..Len(outbuf) - at + 1 /\ at + 1 - 1 = at
    BY <2>1
  <2>3. at < Len(outbuf) => 2 \in 1..Len(outbuf) - at + 1 /\ at + 2 - 1 = at + 1
    BY <2>1
  <2> HIDE DEF Here
  <2> QED
    BY <2>1, <2>2, <2>3
<1>2. /\ Len(e) \in Nat /\ Len(q) \in Nat /\ Len(e \o q) = Len(e) + Len(q)
      /\ \A i \in 1..Len(e) + Len(q) : (e \o q)[i] = IF i <= Len(e) THEN e[i] ELSE q[i - Len(e)]
  BY ConcatProperties, LenProperties
<1>3. Len(e) <= Len(Here) /\ \A i \in 1..Len(e) : Here[i] = e[i]
  BY <1>2
<1>4. Marker = e
  BY <1>1, <1>3, MarkerIs
<1>5. e[1] = IAC /\ e[2] # IAC /\ Len(e) >= 3
  <2>1. WILL # IAC /\ SB # IAC
    BY DEF WILL, SB, IAC
  <2>2. CASE e = will_v1
    BY <2>1, <2>2, MarkerFacts
  <2>3. CASE e = will_v2
    BY <2>1, <2>3, MarkerFacts
  <2>4. CASE e = On
    BY <2>1, <2>4, MarkerFacts
  <2> QED
    BY <2>2, <2>3, <2>4
<1>6. Here[1] = IAC /\ Here[2] # IAC
  <2>1. 1 \in 1..Len(e) /\ 2 \in 1..Len(e)
    BY <1>2, <1>5
  <2> QED
    BY <2>1, <1>3, <1>5
<1>7. outbuf[at] = IAC /\ ~Escape
  BY <1>1, <1>6 DEF Escape
<1> QED
  BY <1>3, <1>4, <1>7 DEF Finds

LEMMA HerePasses ==
    ASSUME TypeOK, at # 0, Scanning, NEW e \in Seq(Byte), NEW q \in Seq(Byte), Here = e \o q,
           NEW x, NEW y, <<e, x, y>> \in Plain
    PROVE  Passes(e)
<1>1. Here \in Seq(Byte) /\ Here[1] = outbuf[at] /\ Len(Here) = Len(outbuf) - at + 1
      /\ Len(outbuf) \in Nat /\ at \in 1..Len(outbuf)
      /\ (at < Len(outbuf) => Here[2] = outbuf[at + 1])
  <2>1. /\ Here \in Seq(Byte) /\ Len(Here) = Len(outbuf) - at + 1
        /\ \A i \in 1..Len(outbuf) - at + 1 : Here[i] = outbuf[at + i - 1]
        /\ at \in 1..Len(outbuf) /\ Len(outbuf) \in Nat
    BY HereLemma
  <2>2. 1 \in 1..Len(outbuf) - at + 1 /\ at + 1 - 1 = at
    BY <2>1
  <2>3. at < Len(outbuf) => 2 \in 1..Len(outbuf) - at + 1 /\ at + 2 - 1 = at + 1
    BY <2>1
  <2> HIDE DEF Here
  <2> QED
    BY <2>1, <2>2, <2>3
<1>2. /\ Len(e) \in Nat /\ Len(q) \in Nat /\ Len(e \o q) = Len(e) + Len(q)
      /\ \A i \in 1..Len(e) + Len(q) : (e \o q)[i] = IF i <= Len(e) THEN e[i] ELSE q[i - Len(e)]
  BY ConcatProperties, LenProperties
<1>3. Len(e) <= Len(Here) /\ \A i \in 1..Len(e) : Here[i] = e[i]
  BY <1>2
<1>4. Len(e) # 0
  BY PlainByteLemma
<1>5. outbuf[at] = e[1]
  <2>1. 1 \in 1..Len(e)
    BY <1>2, <1>4
  <2> QED
    BY <2>1, <1>1, <1>3
<1>6. Len(e) >= 2 => at < Len(outbuf) /\ outbuf[at + 1] = e[2] /\ Here[2] = e[2] /\ Len(Here) >= 2
  <2>1. Len(e) >= 2 => 2 \in 1..Len(e)
    BY <1>2
  <2>2. Len(e) >= 2 => at < Len(outbuf)
    BY <1>1, <1>2, <1>3
  <2> HIDE DEF Here
  <2> QED
    BY <2>1, <2>2, <1>1, <1>2, <1>3
<1>7. Len(e) >= 3 => Len(Here) >= 3 /\ Here[3] = e[3]
  <2>1. Len(e) >= 3 => 3 \in 1..Len(e)
    BY <1>2
  <2> HIDE DEF Here
  <2> QED
    BY <2>1, <1>1, <1>2, <1>3
<1>8. CASE Len(e) = 1 /\ e[1] # IAC
  BY <1>5, <1>8 DEF Passes
<1>9. CASE Len(e) = 2 /\ e[1] = IAC /\ e[2] = IAC
  BY <1>5, <1>6, <1>9 DEF Passes, Escape
<1>10. CASE /\ Len(e) >= 2 /\ e[1] = IAC /\ e[2] # IAC
            /\ \/ e[2] # WILL /\ e[2] # SB
               \/ Len(e) >= 3 /\ e[3] \notin AllVersions
            /\ \A i \in 2..Len(e) : e[i] = IAC => i < Len(e) /\ e[i + 1] = SE
  <2>1. ~Escape
    BY <1>6, <1>10 DEF Escape
  <2>2. Marker = <<>>
    <3>1. \/ Here[2] # WILL /\ Here[2] # SB
          \/ Len(Here) >= 3 /\ Here[3] \notin AllVersions
      BY <1>6, <1>7, <1>10
    <3> QED
      BY <3>1, <1>1, <1>6, <1>10, NoMarker
  <2> QED
    BY <2>1, <2>2, <1>5, <1>10 DEF Passes
<1> QED
  BY <1>8, <1>9, <1>10, PlainScan

LEMMA ScanPosition ==
    ASSUME TypeOK, at # 0, Scanning,
           NEW m, NEW c, NEW r, NEW t, NEW P, NEW Q, Inv(m, c, r, t, P, Q)
    PROVE  \/ at <= Len(P) /\ InItem
           \/ \E e, w, q : AtItem(e, r, w, c, P, Q, q)
<1>1. /\ r \in RawState /\ c \in RawState /\ RawLeads(r, Q, c) /\ AgreedIs(r)
      /\ P \in Seq(Byte) /\ Q \in Seq(Byte)
  BY PathsLater DEF Inv, Paths
<1>2. outbuf = P \o Q /\ r[3] # "zipped" /\ at - 1 <= Len(P) /\ Harmless(P) /\ pc = "scan"
  BY DEF Inv, BuffersAre, Scanning
<1>3. /\ Here \in Seq(Byte) /\ Len(Here) = Len(outbuf) - at + 1
      /\ \A i \in 1..Len(outbuf) - at + 1 : Here[i] = outbuf[at + i - 1]
      /\ at \in 1..Len(outbuf) /\ Len(outbuf) \in Nat
  BY HereLemma
<1>4. /\ Len(P) \in Nat /\ Len(Q) \in Nat /\ Len(outbuf) = Len(P) + Len(Q)
      /\ \A i \in 1..Len(P) + Len(Q) : outbuf[i] = IF i <= Len(P) THEN P[i] ELSE Q[i - Len(P)]
  BY <1>1, <1>2, ConcatProperties, LenProperties
<1>5. CASE at <= Len(P)
  <2>1. CASE outbuf[at] # IAC
    BY <1>5, <2>1 DEF InItem
  <2>2. CASE outbuf[at] = IAC
    <3>1. P[at] = IAC /\ at \in at..Len(P)
      BY <1>3, <1>4, <1>5, <2>2
    <3>2. at < Len(P) /\ P[at + 1] = SE
      BY <3>1, <1>2 DEF Harmless
    <3>3. outbuf[at + 1] = SE /\ at < Len(outbuf)
      BY <3>2, <1>3, <1>4
    <3>4. ~Escape
      BY <3>3 DEF Escape, SE, IAC
    <3>5. Here[2] = SE /\ Len(Here) >= 2
      <4>1. 2 \in 1..Len(outbuf) - at + 1 /\ at + 2 - 1 = at + 1
        BY <3>3, <1>3
      <4> HIDE DEF Here
      <4> QED
        BY <4>1, <3>3, <1>3
    <3>6. Marker = <<>>
      <4>1. SE # WILL /\ SE # SB
        BY DEF SE, WILL, SB
      <4> QED
        BY <4>1, <3>5, <1>3, NoMarker
    <3> QED
      BY <3>4, <3>6, <1>5 DEF InItem
  <2> QED
    BY <2>1, <2>2
<1>6. CASE at = Len(P) + 1
  <2>1. SubSeq(outbuf, 1, at - 1) = P /\ Here = Q
    <3>1. Len(P) \in 0..Len(P) /\ at - 1 = Len(P)
      BY <1>4, <1>6
    <3>2. SubSeq(P \o Q, 1, Len(P)) = P /\ After(P \o Q, Len(P)) = Q
      BY <1>1, <3>1, JoinLemma
    <3>3. Here = After(outbuf, Len(P))
      BY <1>6 DEF Here, After
    <3> QED
      BY <3>1, <3>2, <3>3, <1>2
  <2>2. Q # <<>>
    BY <1>3, <1>4, <1>6, Len(<<>>) = 0
  <2>3. \E e, w, q : <<e, r, w>> \in Raw /\ Q = e \o q /\ RawLeads(w, q, c)
    <3>1. Headed(Raw, Seq(Byte) \X RawState, r, Q, c)
      BY <1>1, ItemSets, LeadsHead DEF RawLeads
    <3> QED
      BY <3>1, <2>2 DEF Headed, RawLeads
  <2>4. PICK e, w, q : <<e, r, w>> \in Raw /\ Q = e \o q /\ RawLeads(w, q, c)
    BY <2>3
  <2>5. e \in Seq(Byte) /\ w \in RawState /\ RawItem(e, r, w) /\ q \in Seq(Byte)
    BY <2>4, RawItemLemma, LeadsTypes DEF RawLeads
  <2>6. Here = e \o q
    BY <2>1, <2>4
  <2> HIDE DEF Here
  <2>7. CASE Telnet_(e, r, w)
    <3>1. <<e, r[1], w[1]>> \in Plain /\ w[2] = r[2] /\ w[3] = r[3]
      BY <2>7, <1>2 DEF Telnet_
    <3>2. Passes(e)
      BY <3>1, <2>5, <2>6, HerePasses
    <3> QED
      BY <3>1, <3>2, <2>1, <2>4, <2>6, <1>6 DEF AtItem
  <2>8. CASE Offered_(e, r, w)
    <3>1. e \in {will_v1, will_v2}
      BY <2>8 DEF Offered_
    <3>2. Finds(e)
      BY <3>1, <2>5, <2>6, HereFinds
    <3> QED
      BY <3>1, <3>2, <2>1, <2>4, <2>6, <2>8, <1>6 DEF AtItem
  <2>9. CASE Started(e, r, w)
    <3>1. e = On
      <4>1. COMPRESS # COMPRESS2
        BY DEF COMPRESS, COMPRESS2
      <4>2. got_v2 <=> COMPRESS2 \in r[2]
        BY <1>1 DEF AgreedIs
      <4> QED
        BY <4>1, <4>2, <2>9 DEF Started, On
    <3>2. Finds(e)
      BY <3>1, <2>5, <2>6, HereFinds
    <3> QED
      BY <3>1, <3>2, <2>1, <2>4, <2>6, <2>9, <1>6 DEF AtItem
  <2>10. ~Ended(e, r, w)
    BY <1>2 DEF Ended
  <2> QED
    BY <2>5, <2>7, <2>8, <2>9, <2>10 DEF RawItem
<1> QED
  BY <1>2, <1>3, <1>4, <1>5, <1>6

LEMMA ScanPlainKeeps ==
    ASSUME TypeOK, at # 0,
           NEW m, NEW c, NEW r, NEW t, NEW P, NEW Q, Inv(m, c, r, t, P, Q), ScanPlain
    PROVE  \E w, p, q : Inv(m, c, w, t, p, q)'
<1>1. /\ Paths(m, c, r, t, P, Q) /\ P \in Seq(Byte) /\ Q \in Seq(Byte)
      /\ AnsweredIs(r, t) /\ AgreedIs(r) /\ BuffersAre(r, P, Q)
  BY PathsLater DEF Inv
<1>2. /\ pc = "scan" /\ outbuf = P \o Q /\ inbuf = <<>> /\ rest = <<>>
      /\ r[3] # "zipped" /\ at - 1 <= Len(P) /\ Harmless(P) /\ Scanning
  BY <1>1 DEF BuffersAre, ScanPlain, Scanning
<1>3. /\ UNCHANGED <<wire, sent, asked, items, zip, answers, stream, inbuf, outbuf, got_v2>>
      /\ UNCHANGED <<resp_v1, resp_v2, error, telnet_buf, more_coming, old_more_coming>>
      /\ UNCHANGED <<last_line, shown, pc, rest, text>>
  BY DEF ScanPlain, mud, mccp, lines
<1>4. SentIs(m)' /\ ReadIs(c, t)'
  BY <1>3, InvFrame DEF Inv
<1>5. at \in Nat /\ Len(P) \in Nat
  BY <1>1, LenProperties DEF TypeOK
<1>6. ASSUME at <= Len(P), InItem
      PROVE  Inv(m, c, r, t, P, Q)'
  <2>1. at' = at + 1
    BY <1>6 DEF ScanPlain, InItem, AtMarker, Escape
  <2>2. Harmless(P)'
    <3>1. \A i \in at'..Len(P) : i \in at..Len(P)
      BY <2>1, <1>5
    <3> QED
      BY <3>1, <1>2 DEF Harmless
  <2>3. at' - 1 <= Len(P)
    BY <2>1, <1>5, <1>6
  <2>4. BuffersAre(r, P, Q)'
    BY <1>1, <1>2, <1>3, <2>2, <2>3 DEF BuffersAre
  <2>5. Paths(m, c, r, t, P, Q)' /\ AnsweredIs(r, t)' /\ AgreedIs(r)'
    BY <1>1, <1>3, InvFrame
  <2> QED
    BY <1>4, <2>4, <2>5 DEF Inv
<1>7. ASSUME NEW e, NEW w, NEW q, AtItem(e, r, w, c, P, Q, q)
      PROVE  Inv(m, c, w, t, P \o e, q)'
  <2>1. /\ at = Len(P) + 1 /\ Q = e \o q /\ <<e, r, w>> \in Raw /\ RawLeads(w, q, c)
        /\ e \in Seq(Byte) /\ w \in RawState /\ q \in Seq(Byte)
    BY <1>7, RawItemLemma, LeadsTypes DEF AtItem, RawLeads
  <2>2. ~(e \in {will_v1, will_v2, On} /\ Finds(e))
    <3>1. \A k \in {will_v1, will_v2, On} : k # <<>>
      <4>1. Len(will_v1) # 0 /\ Len(will_v2) # 0 /\ Len(On) # 0
        BY MarkerFacts
      <4> QED
        BY <4>1, Len(<<>>) = 0
    <3> QED
      BY <3>1 DEF Finds, ScanPlain, AtMarker
  <2>3. <<e, r[1], w[1]>> \in Plain /\ w[2] = r[2] /\ w[3] = r[3] /\ Passes(e)
    BY <2>2, <1>7 DEF AtItem
  <2>4. /\ at' = at + 1 \/ at' = at + 2
        /\ Len(e) = 1 => at' = at + 1
        /\ at' = at + 2 => Len(e) = 2
        /\ at' = at + 1 /\ Len(e) # 1 =>
             \A i \in 2..Len(e) : e[i] = IAC => i < Len(e) /\ e[i + 1] = SE
    <3>1. at' = at + 1 \/ at' = at + 2
      BY DEF ScanPlain
    <3>2. Len(e) \in Nat /\ Len(e) # 0
      BY <2>1, <2>3, PlainByteLemma
    <3>3. at + 1 # at + 2
      BY <1>5
    <3>4. CASE Len(e) = 1 /\ outbuf[at] # IAC
      <4>1. at' = at + 1
        BY <3>4 DEF ScanPlain, AtMarker, Escape
      <4> QED
        BY <4>1, <3>3, <3>4
    <3>5. CASE Len(e) = 2 /\ outbuf[at] = IAC /\ Escape
      <4>1. at' = at + 2
        BY <3>5 DEF ScanPlain, AtMarker
      <4> QED
        BY <4>1, <3>3, <3>5
    <3>6. CASE /\ Len(e) >= 2 /\ outbuf[at] = IAC /\ ~Escape /\ Marker = <<>>
               /\ \A i \in 2..Len(e) : e[i] = IAC => i < Len(e) /\ e[i + 1] = SE
      <4>1. at' = at + 1
        BY <3>6 DEF ScanPlain, AtMarker
      <4>2. Len(e) # 1
        BY <3>2, <3>6
      <4> QED
        BY <4>1, <4>2, <3>3, <3>6
    <3> QED
      BY <2>3, <3>4, <3>5, <3>6 DEF Passes
  <2>5. /\ P \o e \in Seq(Byte) /\ Len(P \o e) = Len(P) + Len(e)
        /\ \A i \in 1..Len(P) + Len(e) : (P \o e)[i] = IF i <= Len(P) THEN P[i] ELSE e[i - Len(P)]
        /\ Len(e) \in Nat /\ Len(e) # 0
    <3>1. Len(e) \in Nat /\ Len(e) # 0
      BY <2>3, PlainByteLemma
    <3> QED
      BY <3>1, <1>1, <2>1, ConcatProperties
  <2>6. at' - 1 <= Len(P \o e)
    <3>1. at \in Nat /\ at = Len(P) + 1 /\ Len(P) \in Nat /\ Len(e) \in Nat /\ Len(e) >= 1
      BY <2>1, <2>5, <1>5
    <3>2. at' - 1 <= Len(P) + Len(e)
      <4>1. CASE at' = at + 1
        BY <3>1, <4>1
      <4>2. CASE at' = at + 2
        <5>1. Len(e) = 2
          BY <2>4, <4>2
        <5> QED
          BY <3>1, <4>2, <5>1
      <4> QED
        BY <2>4, <4>1, <4>2
    <3> QED
      BY <3>2, <2>5
  <2>7. Harmless(P \o e)'
    <3>1. ASSUME NEW i \in at'..Len(P \o e), (P \o e)[i] = IAC
          PROVE  i < Len(P \o e) /\ (P \o e)[i + 1] = SE
      <4>1. at' = at + 1 /\ Len(e) # 1
        BY <3>1, <2>1, <2>4, <2>5, <1>5
      <4>2. PICK j : j = i - Len(P)
        OBVIOUS
      <4>3. j \in 2..Len(e) /\ i = Len(P) + j /\ i \in 1..Len(P) + Len(e) /\ ~(i <= Len(P))
        BY <4>1, <4>2, <2>1, <2>5, <1>5
      <4>4. (P \o e)[i] = e[j]
        BY <4>2, <4>3, <2>5
      <4>5. j < Len(e) /\ e[j + 1] = SE
        BY <4>1, <4>3, <4>4, <3>1, <2>4
      <4>6. i + 1 \in 1..Len(P) + Len(e) /\ ~(i + 1 <= Len(P)) /\ i + 1 - Len(P) = j + 1
        BY <4>3, <4>5, <1>5, <2>5
      <4> QED
        BY <4>3, <4>5, <4>6, <2>5, <1>5
    <3> QED
      BY <3>1 DEF Harmless
  <2>8. PlainLeads(t, P \o e, w[1])
    BY <1>1, <2>3, ItemSets, LeadsStep DEF PlainLeads, Paths
  <2>9. Paths(m, c, w, t, P \o e, q)'
    BY <1>1, <1>3, <2>1, <2>8 DEF Paths
  <2>10. outbuf = (P \o e) \o q
    <3>1. (P \o e) \o q = P \o (e \o q)
      <4>1. P \in Seq(Byte) /\ e \in Seq(Byte) /\ q \in Seq(Byte)
        BY <1>1, <2>1
      <4> QED
        BY <4>1, ConcatAssociative, SMTT(30)
    <3> QED
      BY <3>1, <1>2, <2>1
  <2>11. BuffersAre(w, P \o e, q)'
    BY <1>1, <1>2, <1>3, <2>3, <2>6, <2>7, <2>10 DEF BuffersAre
  <2>12. AnsweredIs(w, t)'
    <3>1. AnsweredIs(r, t)'
      BY <1>1, <1>3, InvFrame
    <3> QED
      BY <3>1, <2>3 DEF AnsweredIs
  <2>13. AgreedIs(w)'
    <3>1. AgreedIs(r)'
      BY <1>1, <1>3, InvFrame
    <3> QED
      BY <3>1, <2>3 DEF AgreedIs
  <2> QED
    BY <1>4, <2>9, <2>11, <2>12, <2>13 DEF Inv
<1>8. \/ at <= Len(P) /\ InItem
      \/ \E e, w, q : AtItem(e, r, w, c, P, Q, q)
  BY <1>2, ScanPosition
<1>9. CASE at <= Len(P) /\ InItem
  BY <1>6, <1>9
<1>10. CASE \E e, w, q : AtItem(e, r, w, c, P, Q, q)
  <2>1. PICK e, w, q : AtItem(e, r, w, c, P, Q, q)
    BY <1>10
  <2> QED
    BY <2>1, <1>7
<1> QED
  BY <1>8, <1>9, <1>10

\* A marker that is found is all there.
LEMMA MarkerWhole ==
    ASSUME TypeOK, at # 0,
           NEW m, NEW c, NEW r, NEW t, NEW P, NEW Q, Inv(m, c, r, t, P, Q),
           NEW marker \in {will_v1, will_v2, On}, AtMarker(marker)
    PROVE  /\ Len(Here) >= Len(marker)
           /\ \E w, q : /\ AtItem(marker, r, w, c, P, Q, q)
                        /\ Offered_(marker, r, w) \/ Started(marker, r, w)
<1>1. Scanning /\ outbuf[at] = IAC /\ ~Escape /\ Marker = marker
  BY DEF AtMarker
<1>2. marker # <<>>
  <2>1. Len(will_v1) # 0 /\ Len(will_v2) # 0 /\ Len(On) # 0
    BY MarkerFacts
  <2> QED
    BY <2>1, Len(<<>>) = 0
<1>3. ~InItem
  BY <1>1, <1>2 DEF InItem
<1>4. PICK e, w, q : AtItem(e, r, w, c, P, Q, q)
  BY <1>1, <1>3, ScanPosition
<1>5. ~Passes(e)
  BY <1>1, <1>2 DEF Passes
<1>6. Finds(e) /\ (Offered_(e, r, w) \/ Started(e, r, w))
  BY <1>4, <1>5 DEF AtItem
<1>7. e = marker /\ Len(Here) >= Len(marker)
  BY <1>6, <1>1 DEF Finds
<1> QED
  BY <1>4, <1>6, <1>7

\* No read ends within a marker.
LEMMA NoPartial ==
    ASSUME TypeOK, at # 0,
           NEW m, NEW c, NEW r, NEW t, NEW P, NEW Q, Inv(m, c, r, t, P, Q)
    PROVE  ~ScanPartial
<1>1. SUFFICES ASSUME ScanPartial PROVE FALSE
  OBVIOUS
<1>2. PICK marker \in {will_v1, will_v2, On} : Len(Here) < Len(marker) /\ AtMarker(marker)
  BY <1>1 DEF ScanPartial
<1>3. Len(Here) >= Len(marker)
  BY <1>2, MarkerWhole
<1>4. Len(Here) \in Nat
  <2>1. Scanning
    BY <1>2 DEF AtMarker
  <2>2. Here \in Seq(Byte)
    BY <2>1, HereLemma
  <2> QED
    BY <2>2, LenProperties
<1>5. Len(marker) \in Nat
  <2>1. Len(will_v1) \in Nat /\ Len(will_v2) \in Nat /\ Len(On) \in Nat
    BY MarkerFacts
  <2> QED
    BY <2>1
<1> QED
  BY <1>2, <1>3, <1>4, <1>5

\* What is before a marker, and behind it.
LEMMA AroundMarker ==
    ASSUME NEW P \in Seq(Byte), NEW e \in Seq(Byte), NEW q \in Seq(Byte),
           outbuf = P \o (e \o q), at = Len(P) + 1
    PROVE  /\ SubSeq(outbuf, 1, at - 1) = P
           /\ Len(e) = 3 => SubSeq(outbuf, at + 3, Len(outbuf)) = q
           /\ Len(e) = 5 => SubSeq(outbuf, at + 5, Len(outbuf)) = q
<1>1. Len(P) \in Nat /\ Len(P) \in 0..Len(P) /\ at - 1 = Len(P)
  BY LenProperties
<1>2. e \o q \in Seq(Byte) /\ P \o e \in Seq(Byte) /\ outbuf = (P \o e) \o q
      /\ Len(P \o e) = Len(P) + Len(e)
  <2>1. e \o q \in Seq(Byte) /\ P \o e \in Seq(Byte) /\ Len(P \o e) = Len(P) + Len(e)
    BY ConcatProperties
  <2>2. (P \o e) \o q = P \o (e \o q)
    BY ConcatAssociative
  <2> QED
    BY <2>1, <2>2
<1>3. SubSeq(P \o (e \o q), 1, Len(P)) = P
  BY <1>1, <1>2, JoinLemma
<1>4. After((P \o e) \o q, Len(P \o e)) = q
  <2>1. Len(P \o e) \in 0..Len(P \o e)
    BY <1>2, LenProperties
  <2> QED
    BY <2>1, <1>2, JoinLemma, ZenonT(30)
<1>5. SubSeq(outbuf, (Len(P) + Len(e)) + 1, Len(outbuf)) = q
  BY <1>2, <1>4 DEF After
<1>6. Len(e) = 3 => (Len(P) + Len(e)) + 1 = at + 3
  BY <1>1
<1>7. Len(e) = 5 => (Len(P) + Len(e)) + 1 = at + 5
  BY <1>1
<1>8. SubSeq(outbuf, 1, at - 1) = P
  BY <1>1, <1>3
<1> QED
  BY <1>5, <1>6, <1>7, <1>8

LEMMA ScanWillKeeps ==
    ASSUME TypeOK, at # 0,
           NEW m, NEW c, NEW r, NEW t, NEW P, NEW Q, Inv(m, c, r, t, P, Q), ScanWill
    PROVE  \E w, q : Inv(m, c, w, t, P, q)'
<1>1. /\ Paths(m, c, r, t, P, Q) /\ P \in Seq(Byte) /\ Q \in Seq(Byte)
      /\ AnsweredIs(r, t) /\ AgreedIs(r) /\ BuffersAre(r, P, Q)
  BY PathsLater DEF Inv
<1>2. PICK marker \in {will_v1, will_v2} :
        /\ AtMarker(marker)
        /\ IF marker = will_v1
           THEN resp_v1' = (IF got_v2 THEN -1 ELSE 1) /\ UNCHANGED <<resp_v2, got_v2>>
           ELSE resp_v2' = TRUE /\ got_v2' = TRUE /\ UNCHANGED resp_v1
  BY DEF ScanWill
<1>3. PICK w, q : /\ AtItem(marker, r, w, c, P, Q, q)
                  /\ Offered_(marker, r, w) \/ Started(marker, r, w)
  BY <1>2, MarkerWhole
<1>4. Scanning
  BY <1>2 DEF AtMarker
<1>5. /\ pc = "scan" /\ outbuf = P \o Q /\ inbuf = <<>> /\ rest = <<>>
      /\ r[3] # "zipped" /\ at - 1 <= Len(P) /\ Harmless(P)
  BY <1>1, <1>4 DEF BuffersAre, Scanning
<1>6. /\ at = Len(P) + 1 /\ Q = marker \o q /\ <<marker, r, w>> \in Raw /\ RawLeads(w, q, c)
      /\ marker \in Seq(Byte) /\ w \in RawState /\ r \in RawState /\ q \in Seq(Byte)
  BY <1>3, RawItemLemma, LeadsTypes DEF AtItem, RawLeads
<1>7. Len(marker) = 3
  BY MarkerFacts
<1>8. outbuf' = P \o q
  <2>1. /\ SubSeq(outbuf, 1, at - 1) = P
        /\ SubSeq(outbuf, at + 3, Len(outbuf)) = q
    BY <1>1, <1>5, <1>6, <1>7, AroundMarker
  <2>2. outbuf' = SubSeq(outbuf, 1, at - 1) \o SubSeq(outbuf, at + 3, Len(outbuf))
    BY DEF ScanWill
  <2> QED
    BY <2>1, <2>2
<1>9. /\ UNCHANGED <<wire, sent, asked, items, zip, answers, stream, inbuf>>
      /\ UNCHANGED <<error, telnet_buf, more_coming, old_more_coming>>
      /\ UNCHANGED <<last_line, shown, pc, at, rest, text>>
  BY DEF ScanWill, mud, lines
<1>10. Offered_(marker, r, w)
  <2>1. ~Started(marker, r, w)
    <3>1. Len(on_v1) # 3 /\ Len(on_v2) # 3
      BY DEF on_v1, on_v2
    <3> QED
      BY <3>1, <1>7 DEF Started
  <2> QED
    BY <2>1, <1>3
<1>11. w[1] = r[1] /\ w[3] = "plain" /\ r[3] = "plain"
  BY <1>10 DEF Offered_
<1>12. SentIs(m)' /\ ReadIs(c, t)'
  BY <1>9, InvFrame DEF Inv
<1>13. Paths(m, c, w, t, P, q)'
  BY <1>1, <1>6, <1>9, <1>11 DEF Paths
<1>14. BuffersAre(w, P, q)'
  <2>1. Harmless(P)'
    BY <1>5, <1>9 DEF Harmless
  <2> QED
    BY <2>1, <1>1, <1>5, <1>8, <1>9, <1>11 DEF BuffersAre
<1>15. COMPRESS # COMPRESS2 /\ 1 # 0 /\ -1 # 0 /\ 1 # -1
  BY DEF COMPRESS, COMPRESS2
<1>16. will_v1 # will_v2
  BY <1>15, MarkerFacts
<1>17. r[2] \subseteq AllVersions /\ AllVersions = {COMPRESS, COMPRESS2}
  BY <1>6, StateFacts DEF AllVersions
<1>18. \A v \in AllVersions : Count(answers, v) + Owed(v) = IF v \in r[2] THEN 1 ELSE 0
  BY <1>1 DEF AnsweredIs
<1>19. \A v \in AllVersions : Count(answers, v) \in Nat /\ Owed(v) \in {0, 1}
  <2>1. answers \in Seq((Verbs \cup {SB}) \X Byte)
    BY DEF TypeOK
  <2> QED
    BY <2>1, CountLemma DEF Owed
<1>20. CASE marker = will_v1
  <2>1. COMPRESS \notin r[2] /\ w[2] = r[2] \cup {COMPRESS}
    BY <1>10, <1>16, <1>20 DEF Offered_
  <2>2. resp_v1' = (IF got_v2 THEN -1 ELSE 1) /\ UNCHANGED <<resp_v2, got_v2>>
    BY <1>2, <1>20
  <2>3. AnsweredIs(w, t)'
    <3>1. Count(answers, COMPRESS) = 0
      BY <1>17, <1>18, <1>19, <2>1
    <3>2. Owed(COMPRESS)' = 1 /\ Owed(COMPRESS2)' = Owed(COMPRESS2)
      BY <1>15, <2>2 DEF Owed
    <3>3. Count(answers, COMPRESS2) + Owed(COMPRESS2) = IF COMPRESS2 \in w[2] THEN 1 ELSE 0
      BY <1>15, <1>17, <1>18, <2>1
    <3>4. \A v \in AllVersions : Count(answers', v) + Owed(v)' = IF v \in w[2] THEN 1 ELSE 0
      <4>1. answers' = answers
        BY <1>9
      <4>2. COMPRESS \in w[2] /\ 0 + 1 = 1
        BY <2>1
      <4>3. Count(answers', COMPRESS) + Owed(COMPRESS)' = 1
        BY <4>1, <4>2, <3>1, <3>2
      <4>4. Count(answers', COMPRESS2) + Owed(COMPRESS2)' = IF COMPRESS2 \in w[2] THEN 1 ELSE 0
        BY <4>1, <3>2, <3>3
      <4> HIDE DEF Owed
      <4> QED
        BY <4>2, <4>3, <4>4, <1>17
    <3> QED
      BY <3>4, <1>1, <1>9 DEF AnsweredIs
  <2>4. AgreedIs(w)'
    <3>1. \A v : Said(v)' <=> Said(v)
      BY <1>9 DEF Said
    <3>2. r[2] # {COMPRESS}
      BY <2>1
    <3>3. ~Said(COMPRESS) /\ (Said(COMPRESS2) => COMPRESS2 \in r[2])
          /\ (got_v2 <=> COMPRESS2 \in r[2]) /\ ~stream
      BY <1>1, <1>11, <3>2 DEF AgreedIs
    <3>4. resp_v1' = 1 => w[2] = {COMPRESS}
      BY <1>15, <1>17, <2>1, <2>2, <3>3
    <3> QED
      BY <3>1, <3>3, <3>4, <1>9, <1>11, <1>15, <2>1, <2>2 DEF AgreedIs
  <2> QED
    BY <2>3, <2>4, <1>12, <1>13, <1>14 DEF Inv
<1>21. CASE marker = will_v2
  <2>1. r[2] = {} /\ w[2] = {COMPRESS2}
    BY <1>10, <1>16, <1>21 DEF Offered_
  <2>2. resp_v2' = TRUE /\ got_v2' = TRUE /\ UNCHANGED resp_v1
    BY <1>2, <1>16, <1>21
  <2>3. AnsweredIs(w, t)'
    <3>1. Count(answers, COMPRESS2) = 0 /\ Count(answers, COMPRESS) + Owed(COMPRESS) = 0
      BY <1>17, <1>18, <1>19, <2>1
    <3>2. Owed(COMPRESS2)' = 1 /\ Owed(COMPRESS)' = Owed(COMPRESS)
      BY <1>15, <2>2 DEF Owed
    <3>3. \A v \in AllVersions : Count(answers', v) + Owed(v)' = IF v \in w[2] THEN 1 ELSE 0
      <4>1. answers' = answers
        BY <1>9
      <4>2. COMPRESS \notin w[2] /\ COMPRESS2 \in w[2] /\ 0 + 1 = 1
        BY <2>1, <1>15
      <4>3. Count(answers', COMPRESS) + Owed(COMPRESS)' = 0
        BY <4>1, <3>1, <3>2
      <4>4. Count(answers', COMPRESS2) + Owed(COMPRESS2)' = 1
        BY <4>1, <4>2, <3>1, <3>2
      <4> HIDE DEF Owed
      <4> QED
        BY <4>2, <4>3, <4>4, <1>17
    <3> QED
      BY <3>3, <1>1, <1>9 DEF AnsweredIs
  <2>4. AgreedIs(w)'
    <3>1. \A v : Said(v)' <=> Said(v)
      BY <1>9 DEF Said
    <3>2. r[2] # {COMPRESS}
      BY <2>1
    <3>3. ~Said(COMPRESS) /\ resp_v1 # 1 /\ ~stream
      BY <1>1, <1>11, <3>2 DEF AgreedIs
    <3> QED
      BY <3>1, <3>3, <1>9, <1>11, <1>15, <2>1, <2>2 DEF AgreedIs
  <2> QED
    BY <2>3, <2>4, <1>12, <1>13, <1>14 DEF Inv
<1> QED
  BY <1>20, <1>21

LEMMA ScanOnKeeps ==
    ASSUME TypeOK, at # 0,
           NEW m, NEW c, NEW r, NEW t, NEW P, NEW Q, Inv(m, c, r, t, P, Q), ScanOn
    PROVE  \E w, q : Inv(m, c, w, t, P, q)'
<1>1. /\ Paths(m, c, r, t, P, Q) /\ P \in Seq(Byte) /\ Q \in Seq(Byte)
      /\ AnsweredIs(r, t) /\ AgreedIs(r) /\ BuffersAre(r, P, Q) /\ ReadIs(c, t)
  BY PathsLater DEF Inv
<1>2. PICK marker : marker = On
  OBVIOUS
<1>3. AtMarker(marker) /\ marker \in {will_v1, will_v2, On}
  BY <1>2 DEF ScanOn
<1>4. PICK w, q : /\ AtItem(marker, r, w, c, P, Q, q)
                  /\ Offered_(marker, r, w) \/ Started(marker, r, w)
  BY <1>3, MarkerWhole
<1>5. Scanning
  BY <1>3 DEF AtMarker
<1>6. pc = "scan" /\ outbuf = P \o Q /\ rest = <<>>
  BY <1>1, <1>5 DEF BuffersAre, Scanning
<1>7. /\ at = Len(P) + 1 /\ Q = marker \o q /\ <<marker, r, w>> \in Raw /\ RawLeads(w, q, c)
      /\ marker \in Seq(Byte) /\ w \in RawState /\ q \in Seq(Byte)
  BY <1>4, RawItemLemma, LeadsTypes DEF AtItem, RawLeads
<1>8. Len(marker) = 5
  BY <1>2, MarkerFacts
<1>9. outbuf' = P /\ inbuf' = q
  <2>1. /\ SubSeq(outbuf, 1, at - 1) = P
        /\ SubSeq(outbuf, at + 5, Len(outbuf)) = q
    BY <1>1, <1>6, <1>7, <1>8, AroundMarker
  <2> QED
    BY <2>1 DEF ScanOn
<1>10. /\ stream' = TRUE /\ pc' = "inflate" /\ at' = 1
       /\ UNCHANGED <<wire, sent, asked, items, zip, answers, got_v2, resp_v1, resp_v2>>
       /\ UNCHANGED <<error, telnet_buf, more_coming, old_more_coming>>
       /\ UNCHANGED <<last_line, shown, rest, text>>
  BY DEF ScanOn, mud, lines
<1>11. Started(marker, r, w)
  <2>1. ~Offered_(marker, r, w)
    <3>1. Len(will_v1) # 5 /\ Len(will_v2) # 5
      BY MarkerFacts
    <3> QED
      BY <3>1, <1>8 DEF Offered_
  <2> QED
    BY <2>1, <1>4
<1>12. w[1] = r[1] /\ w[2] = r[2] /\ w[3] = "zipped"
  BY <1>11 DEF Started
<1>13. SentIs(m)'
  BY <1>10, InvFrame DEF Inv
<1>14. ReadIs(c, t)'
  BY <1>1, <1>6, <1>10 DEF ReadIs
<1>15. Paths(m, c, w, t, P, q)'
  BY <1>1, <1>7, <1>10, <1>12 DEF Paths
<1>16. BuffersAre(w, P, q)'
  BY <1>1, <1>6, <1>9, <1>10, <1>12 DEF BuffersAre
<1>17. AnsweredIs(w, t)'
  <2>1. AnsweredIs(r, t)'
    BY <1>1, <1>10, InvFrame
  <2> QED
    BY <2>1, <1>12 DEF AnsweredIs
<1>18. AgreedIs(w)'
  <2>1. \A v : Said(v)' <=> Said(v)
    BY <1>10 DEF Said
  <2> QED
    BY <2>1, <1>1, <1>10, <1>12 DEF AgreedIs
<1> QED
  BY <1>13, <1>14, <1>15, <1>16, <1>17, <1>18 DEF Inv

LEMMA ScanEndsKeeps ==
    ASSUME TypeOK,
           NEW m, NEW c, NEW r, NEW t, NEW P, NEW Q, Inv(m, c, r, t, P, Q), ScanEnds
    PROVE  Inv(m, c, r, t, P, Q)'
<1>1. /\ Paths(m, c, r, t, P, Q) /\ P \in Seq(Byte) /\ Q \in Seq(Byte)
      /\ AnsweredIs(r, t) /\ AgreedIs(r) /\ BuffersAre(r, P, Q) /\ ReadIs(c, t)
  BY PathsLater DEF Inv
<1>2. /\ pc = "scan" /\ outbuf = P \o Q /\ inbuf = <<>> /\ rest = <<>> /\ at - 1 <= Len(P)
      /\ at > Len(outbuf)
  BY <1>1 DEF BuffersAre, ScanEnds
<1>3. Q = <<>>
  <2>1. /\ Len(P) \in Nat /\ Len(Q) \in Nat /\ Len(P \o Q) = Len(P) + Len(Q) /\ at \in Nat
        /\ (Q # <<>> => Len(Q) # 0)
    BY <1>1, LenProperties, ConcatProperties, EmptySeq DEF TypeOK
  <2> QED
    BY <2>1, <1>2
<1>4. outbuf = P
  BY <1>1, <1>2, <1>3, ConcatEmptySeq
<1>5. /\ UNCHANGED <<wire, sent, asked, items, zip, answers, stream, inbuf, outbuf, got_v2>>
      /\ UNCHANGED <<resp_v1, resp_v2, error, telnet_buf, more_coming, old_more_coming>>
      /\ UNCHANGED <<last_line, shown, rest, text>> /\ pc' = "get" /\ at' = 1
  BY DEF ScanEnds, mud, mccp, lines
<1>6. Paths(m, c, r, t, P, Q)' /\ SentIs(m)' /\ AnsweredIs(r, t)' /\ AgreedIs(r)'
  BY <1>1, <1>5, InvFrame DEF Inv
<1>7. ReadIs(c, t)'
  BY <1>1, <1>2, <1>5 DEF ReadIs
<1>8. BuffersAre(r, P, Q)'
  BY <1>1, <1>2, <1>3, <1>4, <1>5 DEF BuffersAre
<1> QED
  BY <1>6, <1>7, <1>8 DEF Inv

-----------------------------------------------------------------------------
(* The rest of a read: inflate, parse, respond, show.                        *)

\* What follows a word is what was put after it.
LEMMA LaterPart == \A e \in Seq(Byte), p \in Seq(Byte) : After(e \o p, Len(e)) = p
<1>1. ASSUME NEW e \in Seq(Byte), NEW p \in Seq(Byte)
      PROVE  After(e \o p, Len(e)) = p
  <2>1. Len(e) \in 0..Len(e)
    BY LenProperties
  <2> QED
    BY <2>1, JoinLemma, ZenonT(30)
<1> QED
  BY <1>1

\* Where the compressed row ends, and that all of it inflates.
LEMMA ZippedLemma ==
    ASSUME TypeOK, NEW d, d \in Seq(0..255)
    PROVE  /\ inbuf = Packed(d) => ZipEnd = 0 /\ Zipped = Packed(d) /\ Tail_ = <<>>
           /\ \A u \in Text : inbuf = (Packed(d) \o <<Z_END>>) \o u =>
                ZipEnd # 0 /\ Zipped = Packed(d) /\ Tail_ = u
<1>1. /\ ZipEnd \in 0..Len(inbuf) /\ Len(inbuf) \in Nat
      /\ ZipEnd = 0 => \A i \in 1..Len(inbuf) : inbuf[i] # Z_END
      /\ ZipEnd # 0 => inbuf[ZipEnd] = Z_END
      /\ \A i \in 1..Len(inbuf) : i < ZipEnd => inbuf[i] # Z_END
  BY ZipEndLemma
<1>2. /\ Packed(d) \in Seq(Byte) /\ Len(Packed(d)) = Len(d) /\ Len(d) \in Nat
      /\ \A i \in 1..Len(d) : Packed(d)[i] \in ZIP..Z_END - 1
  BY ZipLemma, LenProperties
<1>3. \A b \in ZIP..Z_END - 1 : b # Z_END
  BY DEF Z_END, ZIP
<1>4. ASSUME inbuf = Packed(d) PROVE ZipEnd = 0 /\ Zipped = Packed(d) /\ Tail_ = <<>>
  <2>1. ZipEnd = 0
    <3>1. \A i \in 1..Len(inbuf) : inbuf[i] # Z_END
      BY <1>2, <1>3, <1>4
    <3>2. ZipEnd # 0 => ZipEnd \in 1..Len(inbuf)
      BY <1>1
    <3> QED
      BY <3>1, <3>2, <1>1
  <2> QED
    BY <2>1, <1>4 DEF Zipped, Tail_
<1>5. ASSUME NEW u \in Text, inbuf = (Packed(d) \o <<Z_END>>) \o u
      PROVE  ZipEnd # 0 /\ Zipped = Packed(d) /\ Tail_ = u
  <2> DEFINE z == Packed(d)
             v == z \o <<Z_END>>
  <2>1. <<Z_END>> \in Seq(Byte) /\ u \in Seq(Byte)
    BY WritableRows DEF Text
  <2>2. /\ v \in Seq(Byte) /\ Len(v) = Len(d) + 1
        /\ \A i \in 1..Len(d) : v[i] = z[i]
        /\ v[Len(d) + 1] = Z_END
    <3>1. Z_END \in Byte
      BY DEF Byte, Z_END, ZIP
    <3>2. v = Append(z, Z_END)
      BY <3>1, <1>2, AppendIsConcat
    <3> HIDE DEF v, z
    <3> QED
      BY <3>1, <3>2, <1>2, AppendProperties DEF z
  <2> HIDE DEF z, v
  <2>3. inbuf = v \o u
    BY <1>5 DEF v, z
  <2>4. /\ Len(inbuf) = Len(v) + Len(u) /\ Len(u) \in Nat
        /\ \A i \in 1..Len(v) + Len(u) : inbuf[i] = IF i <= Len(v) THEN v[i] ELSE u[i - Len(v)]
    <3>1. v \in Seq(Byte) /\ u \in Seq(Byte)
      BY <2>1, <2>2
    <3>2. Len(u) \in Nat
      BY <3>1, LenProperties
    <3>3. /\ Len(v \o u) = Len(v) + Len(u)
          /\ \A i \in 1..Len(v) + Len(u) :
               (v \o u)[i] = IF i <= Len(v) THEN v[i] ELSE u[i - Len(v)]
      BY <3>1, ConcatProperties
    <3> QED
      BY <2>3, <3>2, <3>3
  <2>5. inbuf[Len(d) + 1] = Z_END /\ Len(d) + 1 \in 1..Len(inbuf)
    <3>1. Len(d) + 1 \in 1..Len(v) + Len(u) /\ Len(d) + 1 <= Len(v)
      BY <2>2, <2>4, <1>2
    <3> QED
      BY <3>1, <2>2, <2>4
  <2>6. \A i \in 1..Len(d) : inbuf[i] # Z_END
    <3>1. ASSUME NEW i \in 1..Len(d) PROVE inbuf[i] # Z_END
      <4>1. i \in 1..Len(v) + Len(u) /\ i <= Len(v)
        BY <2>2, <2>4, <1>2
      <4>2. inbuf[i] = z[i]
        BY <4>1, <2>2, <2>4
      <4> QED
        BY <4>2, <1>2, <1>3 DEF z
    <3> QED
      BY <3>1
  <2>7. ZipEnd = Len(d) + 1
    <3>1. ZipEnd # 0
      BY <2>5, <1>1
    <3>2. ~(Len(d) + 1 < ZipEnd)
      BY <2>5, <1>1
    <3>3. ~(ZipEnd \in 1..Len(d))
      BY <2>6, <3>1, <1>1
    <3> QED
      BY <3>1, <3>2, <3>3, <1>1, <1>2
  <2>8. Zipped = z
    <3>1. ZipEnd # 0 /\ ZipEnd - 1 = Len(d) /\ Len(d) \in 0..Len(z) /\ Len(d) = Len(z)
      BY <2>7, <1>2 DEF z
    <3>2. inbuf = z \o (<<Z_END>> \o u) /\ <<Z_END>> \o u \in Seq(Byte) /\ z \in Seq(Byte)
      <4>1. z \in Seq(Byte)
        BY <1>2 DEF z
      <4>2. (z \o <<Z_END>>) \o u = z \o (<<Z_END>> \o u)
        BY <4>1, <2>1, ConcatAssociative
      <4>3. <<Z_END>> \o u \in Seq(Byte)
        BY <2>1, ConcatProperties
      <4> QED
        BY <4>1, <4>2, <4>3, <2>3 DEF v
    <3>3. SubSeq(z \o (<<Z_END>> \o u), 1, Len(z)) = z
      BY <3>1, <3>2, JoinLemma
    <3>4. Zipped = SubSeq(inbuf, 1, Len(z))
      BY <3>1 DEF Zipped
    <3> QED
      BY <3>2, <3>3, <3>4
  <2>9. Tail_ = u
    <3>1. After(v \o u, Len(v)) = u
      <4>1. v \in Seq(Byte) /\ u \in Seq(Byte)
        BY <2>1, <2>2, <1>2
      <4> QED
        BY <4>1, LaterPart
    <3>2. ZipEnd # 0 /\ ZipEnd = Len(v)
      BY <2>2, <2>7, <1>2
    <3> QED
      BY <3>1, <3>2, <2>3 DEF Tail_, After
  <2>10. ZipEnd # 0
    BY <2>7, <1>2
  <2> QED
    BY <2>8, <2>9, <2>10 DEF z
<1> QED
  BY <1>4, <1>5

LEMMA InflateKeeps ==
    ASSUME TypeOK,
           NEW m, NEW c, NEW r, NEW t, NEW P, NEW Q, Inv(m, c, r, t, P, Q), Inflate
    PROVE  \E p : Inv(m, c, c, t, p, <<>>)'
<1>1. /\ Paths(m, c, r, t, P, Q) /\ P \in Seq(Byte) /\ Q \in Seq(Byte)
      /\ AnsweredIs(r, t) /\ AgreedIs(r) /\ BuffersAre(r, P, Q) /\ ReadIs(c, t)
      /\ r \in RawState /\ c \in RawState /\ t \in PlainState /\ RawLeads(r, Q, c)
      /\ PlainLeads(t, P, r[1])
  BY PathsLater DEF Inv, Paths
<1>2. pc = "inflate" /\ outbuf = P /\ inbuf = Q /\ rest = <<>> /\ r[3] = "zipped" /\ at = 1
  BY <1>1 DEF BuffersAre, Inflate
<1>3. /\ UNCHANGED <<wire, sent, asked, items, zip, answers, got_v2>>
      /\ UNCHANGED <<resp_v1, resp_v2, telnet_buf, more_coming, old_more_coming>>
      /\ UNCHANGED <<last_line, shown, rest, text, at>> /\ pc' = "get"
  BY DEF Inflate, mud, lines
<1>4. c[2] = r[2] /\ (StillZipped(r, Q, c) \/ Unzipped(r, Q, c))
  BY <1>1, <1>2, Decode
<1>5. PICK d, u : /\ d \in Seq(0..255) /\ u \in Text /\ PlainLeads(r[1], d \o u, c[1])
                  /\ Zipped = Packed(d) /\ Tail_ = u
                  /\ ZipEnd = 0 <=> c[3] = "zipped"
  <2>1. CASE StillZipped(r, Q, c)
    <3>1. PICK d \in Seq(0..255) : Q = Packed(d) /\ PlainLeads(r[1], d, c[1])
      BY <2>1 DEF StillZipped
    <3>2. ZipEnd = 0 /\ Zipped = Packed(d) /\ Tail_ = <<>>
      BY <3>1, <1>2, ZippedLemma
    <3>3. d \o <<>> = d /\ <<>> \in Text
      BY ConcatEmptySeq, EmptySeq DEF Text
    <3>4. c[3] = "zipped"
      BY <2>1 DEF StillZipped
    <3> QED
      BY <3>1, <3>2, <3>3, <3>4
  <2>2. CASE Unzipped(r, Q, c)
    <3>1. PICK d \in Seq(0..255), u \in Text :
            Q = (Packed(d) \o <<Z_END>>) \o u /\ PlainLeads(r[1], d \o u, c[1])
      BY <2>2 DEF Unzipped
    <3>2. ZipEnd # 0 /\ Zipped = Packed(d) /\ Tail_ = u
      BY <3>1, <1>2, ZippedLemma
    <3>3. c[3] # "zipped"
      BY <2>2 DEF Unzipped
    <3> QED
      BY <3>1, <3>2, <3>3
  <2> QED
    BY <1>4, <2>1, <2>2
<1>6. /\ Len(Zipped) = Len(d) /\ Len(d) \in Nat
      /\ \A i \in 1..Len(d) : Zipped[i] = ZIP + d[i] /\ Zipped[i] \in ZIP..Z_END - 1
      /\ \A i \in 1..Len(d) : d[i] \in 0..255
  BY <1>5, ZipLemma, LenProperties, ElementOfSeq, SMTT(30)
<1>7. [i \in 1..Len(Zipped) |-> Zipped[i] - ZIP] = d
  <2>1. ASSUME NEW i \in 1..Len(d)
        PROVE  Zipped[i] - ZIP = d[i]
    <3>1. Zipped[i] = ZIP + d[i] /\ d[i] \in 0..255
      BY <1>6
    <3>2. ZIP \in Int
      BY DEF ZIP
    <3>3. \A n \in 0..255 : (ZIP + n) - ZIP = n
      BY <3>2
    <3> QED
      BY <3>1, <3>3
  <2>2. d \in [1..Len(d) -> 0..255]
    BY <1>5, LenProperties
  <2>3. d = [i \in 1..Len(d) |-> d[i]]
    BY <2>2
  <2>4. [i \in 1..Len(d) |-> Zipped[i] - ZIP] = [i \in 1..Len(d) |-> d[i]]
    BY <2>1
  <2> QED
    BY <1>6, <2>3, <2>4
<1>8. \A i \in 1..Len(Zipped) : Zipped[i] \in ZIP..Z_END - 1
  BY <1>6
<1>9. outbuf' = (P \o d) \o u /\ inbuf' = <<>> /\ stream' = (ZipEnd = 0) /\ UNCHANGED error
  <2>1. /\ outbuf' = (outbuf \o [i \in 1..Len(Zipped) |-> Zipped[i] - ZIP]) \o Tail_
        /\ inbuf' = <<>> /\ stream' = (ZipEnd = 0) /\ UNCHANGED error
    BY <1>8 DEF Inflate
  <2> QED
    BY <2>1, <1>2, <1>5, <1>7
<1>10. (P \o d) \o u = P \o (d \o u)
  <2>1. 0..255 \subseteq Byte
    BY DEF Byte, Z_END, ZIP
  <2>2. d \in Seq(Byte)
    BY <2>1, <1>5, SeqMonotonic
  <2>3. u \in Seq(Byte) /\ P \in Seq(Byte)
    BY <1>1, <1>5 DEF Text
  <2> QED
    BY <2>2, <2>3, ConcatAssociative
<1>11. PlainLeads(t, P \o (d \o u), c[1])
  BY <1>1, <1>5, ItemSets, LeadsConcat DEF PlainLeads
<1>12. RawLeads(c, <<>>, c)
  BY <1>1, LeadsNothing DEF RawLeads
<1>13. Paths(m, c, c, t, P \o (d \o u), <<>>)'
  BY <1>1, <1>3, <1>11, <1>12 DEF Paths
<1>14. SentIs(m)'
  BY <1>3, InvFrame DEF Inv
<1>15. ReadIs(c, t)'
  BY <1>1, <1>2, <1>3 DEF ReadIs
<1>16. AnsweredIs(c, t)'
  <2>1. AnsweredIs(r, t)'
    BY <1>1, <1>3, InvFrame
  <2> QED
    BY <2>1, <1>4 DEF AnsweredIs
<1>17. AgreedIs(c)'
  <2>1. \A v : Said(v)' <=> Said(v)
    BY <1>3 DEF Said
  <2>2. stream' <=> c[3] = "zipped"
    BY <1>5, <1>9
  <2> QED
    BY <2>1, <2>2, <1>1, <1>3, <1>4 DEF AgreedIs
<1>18. BuffersAre(c, P \o (d \o u), <<>>)'
  BY <1>1, <1>2, <1>3, <1>9, <1>10 DEF BuffersAre
<1> QED
  BY <1>13, <1>14, <1>15, <1>16, <1>17, <1>18 DEF Inv

LEMMA GetKeeps ==
    ASSUME TypeOK,
           NEW m, NEW c, NEW r, NEW t, NEW P, NEW Q, Inv(m, c, r, t, P, Q), Get
    PROVE  Inv(m, c, r, t, P, Q)'
<1>1. /\ Paths(m, c, r, t, P, Q) /\ P \in Seq(Byte) /\ Q \in Seq(Byte)
      /\ AnsweredIs(r, t) /\ AgreedIs(r) /\ BuffersAre(r, P, Q) /\ ReadIs(c, t)
  BY PathsLater DEF Inv
<1>2. /\ pc = "get" /\ outbuf = P /\ inbuf = <<>> /\ Q = <<>> /\ rest = <<>> /\ at = 1
      /\ telnet_buf = <<>> /\ ~error
  BY <1>1 DEF BuffersAre, Get
<1>3. rest' = P /\ telnet_buf' = <<>> /\ outbuf' = <<>> /\ pc' = "parse"
  <2>1. SubSeq(<<>> \o P, 1, Len(P)) = P
    BY <1>1, ConcatEmptySeq, SubSeqFull
  <2> QED
    BY <2>1, <1>2 DEF Get
<1>4. /\ UNCHANGED <<wire, sent, asked, items, zip, answers, stream, inbuf, got_v2>>
      /\ UNCHANGED <<resp_v1, resp_v2, error, more_coming, old_more_coming>>
      /\ UNCHANGED <<last_line, shown, text, at>>
  BY DEF Get, mud, lines
<1>5. Paths(m, c, r, t, P, Q)' /\ SentIs(m)' /\ AnsweredIs(r, t)' /\ AgreedIs(r)'
  BY <1>1, <1>4, InvFrame DEF Inv
<1>6. ReadIs(c, t)'
  BY <1>1, <1>2, <1>3, <1>4 DEF ReadIs
<1>7. BuffersAre(r, P, Q)'
  BY <1>1, <1>2, <1>3, <1>4 DEF BuffersAre
<1> QED
  BY <1>5, <1>6, <1>7 DEF Inv

LEMMA GetEndsKeeps ==
    ASSUME TypeOK,
           NEW m, NEW c, NEW r, NEW t, NEW P, NEW Q, Inv(m, c, r, t, P, Q), GetEnds
    PROVE  Inv(m, c, r, t, P, Q)'
<1>1. /\ Paths(m, c, r, t, P, Q)
      /\ AnsweredIs(r, t) /\ AgreedIs(r) /\ BuffersAre(r, P, Q) /\ ReadIs(c, t)
  BY DEF Inv
<1>2. pc = "get" /\ outbuf = P /\ inbuf = <<>> /\ Q = <<>> /\ rest = <<>> /\ ~error
  BY <1>1 DEF BuffersAre, GetEnds
<1>3. P = <<>>
  BY <1>2 DEF GetEnds, Pending
<1>4. /\ UNCHANGED <<wire, sent, asked, items, zip, answers, stream, inbuf, outbuf, got_v2>>
      /\ UNCHANGED <<resp_v1, resp_v2, error, telnet_buf, more_coming, old_more_coming>>
      /\ UNCHANGED <<last_line, shown, rest, text, at>> /\ pc' = "respond"
  BY DEF GetEnds, mud, mccp, lines
<1>5. Paths(m, c, r, t, P, Q)' /\ SentIs(m)' /\ AnsweredIs(r, t)' /\ AgreedIs(r)'
  BY <1>1, <1>4, InvFrame DEF Inv
<1>6. ReadIs(c, t)'
  BY <1>1, <1>2, <1>4 DEF ReadIs
<1>7. BuffersAre(r, P, Q)'
  BY <1>1, <1>2, <1>3, <1>4 DEF BuffersAre
<1> QED
  BY <1>5, <1>6, <1>7 DEF Inv

-----------------------------------------------------------------------------
(* The telnet parser.                                                        *)

\* The next item to parse, and the rest of the stream.
AtHead(e, y, p, r, t) ==
    /\ <<e, t, y>> \in Plain /\ rest = e \o p /\ PlainLeads(y, p, r[1])
    /\ e \in Seq(Byte) /\ p \in Seq(Byte) /\ PlainItem(e, t, y)
    /\ t \in PlainState /\ y \in PlainState

LEMMA ParseHead ==
    ASSUME NEW m, NEW c, NEW r, NEW t, NEW P, NEW Q, Inv(m, c, r, t, P, Q),
           pc = "parse", rest # <<>>
    PROVE  \E e, y, p : AtHead(e, y, p, r, t)
<1>1. PlainLeads(t, P, r[1]) /\ rest = P /\ t \in PlainState
  BY DEF Inv, Paths, BuffersAre
<1>2. Headed(Plain, Seq(Byte) \X PlainState, t, P, r[1])
  BY <1>1, ItemSets, LeadsHead DEF PlainLeads
<1>3. PICK e, y, p : <<e, t, y>> \in Plain /\ P = e \o p /\ PlainLeads(y, p, r[1])
  BY <1>1, <1>2 DEF Headed, PlainLeads
<1>4. e \in Seq(Byte) /\ y \in PlainState /\ PlainItem(e, t, y)
  BY <1>3, PlainItemLemma
<1>5. p \in Seq(Byte)
  BY <1>3, LeadsTypes DEF PlainLeads
<1> QED
  BY <1>1, <1>3, <1>4, <1>5 DEF AtHead

\* What the parser sees of the item, and what it leaves.
Sees(e, p) ==
    /\ rest \in Seq(Byte) /\ rest # <<>> /\ Head(rest) = e[1]
    /\ Len(rest) \in Nat /\ Len(e) \in Nat /\ Len(e) <= Len(rest)
    /\ \A i \in 1..Len(e) : rest[i] = e[i]
    /\ After(rest, Len(e)) = p
    /\ Len(e) = 1 => Tail(rest) = p

LEMMA HeadLemma ==
    ASSUME NEW e, NEW y, NEW p, NEW r, NEW t, AtHead(e, y, p, r, t)
    PROVE  Sees(e, p)
<1>0. rest = e \o p /\ e \in Seq(Byte) /\ p \in Seq(Byte) /\ Len(e) # 0
  BY PlainByteLemma DEF AtHead
<1>1. Len(e) \in Nat /\ Len(p) \in Nat
  BY <1>0, LenProperties
<1>2. /\ e \o p \in Seq(Byte) /\ Len(e \o p) = Len(e) + Len(p)
      /\ \A i \in 1..Len(e) + Len(p) :
           (e \o p)[i] = IF i <= Len(e) THEN e[i] ELSE p[i - Len(e)]
  BY <1>0, <1>1, ConcatProperties
<1>3. Len(rest) = Len(e) + Len(p) /\ rest \in Seq(Byte)
  BY <1>0, <1>2
<1>4. \A i \in 1..Len(e) : rest[i] = e[i]
  <2>1. \A i \in 1..Len(e) : i \in 1..Len(e) + Len(p) /\ i <= Len(e)
    BY <1>1
  <2> QED
    BY <2>1, <1>0, <1>2
<1>5. After(rest, Len(e)) = p
  BY <1>0, LaterPart
<1>6. rest # <<>>
  <2>1. Len(rest) # 0
    BY <1>0, <1>1, <1>3
  <2> QED
    BY <2>1, Len(<<>>) = 0
<1>7. Head(rest) = rest[1] /\ Tail(rest) = SubSeq(rest, 2, Len(rest))
  BY <1>3, <1>6, HeadTailProperties
<1>8. Head(rest) = e[1]
  <2>1. 1 \in 1..Len(e)
    BY <1>0, <1>1
  <2> QED
    BY <2>1, <1>4, <1>7
<1>9. Len(e) = 1 => Tail(rest) = p
  BY <1>5, <1>7 DEF After
<1> QED
  BY <1>1, <1>3, <1>4, <1>5, <1>6, <1>8, <1>9 DEF Sees

\* A step of the parser that does with an item what it means.
LEMMA ParseKeeps ==
    ASSUME TypeOK, NEW m, NEW c, NEW r, NEW t, NEW P, NEW Q, Inv(m, c, r, t, P, Q),
           pc = "parse", NEW e, NEW y, NEW p, AtHead(e, y, p, r, t),
           rest' = p, UNCHANGED <<mud, mccp, telnet_buf, lines, pc, at>>,
           y[1] = (shown \o last_line) \o text',
           AnsweredIs(r, y)', \A v \in AllVersions : Said(v)' => Said(v)
    PROVE  Inv(m, c, r, y, p, Q)'
<1>1. /\ Paths(m, c, r, t, P, Q) /\ AgreedIs(r) /\ BuffersAre(r, P, Q) /\ ReadIs(c, t)
  BY DEF Inv
<1>2. /\ outbuf = <<>> /\ inbuf = <<>> /\ Q = <<>> /\ at = 1 /\ telnet_buf = <<>>
      /\ ~error
  BY <1>1 DEF BuffersAre
<1>3. /\ UNCHANGED <<wire, sent, asked, items, zip, stream, inbuf, outbuf, got_v2>>
      /\ UNCHANGED <<resp_v1, resp_v2, error, telnet_buf, more_coming, old_more_coming>>
      /\ UNCHANGED <<last_line, shown, at, pc>>
  BY DEF mud, mccp, lines
<1>4. SentIs(m)'
  BY <1>3, InvFrame DEF Inv
<1>5. Paths(m, c, r, y, p, Q)'
  BY <1>1, <1>3 DEF Paths, AtHead
<1>6. AgreedIs(r)'
  <2>1. COMPRESS \in AllVersions /\ COMPRESS2 \in AllVersions
    BY DEF AllVersions
  <2>2. (Said(COMPRESS)' => Said(COMPRESS)) /\ (Said(COMPRESS2)' => Said(COMPRESS2))
    BY <2>1
  <2> QED
    BY <2>2, <1>1, <1>3 DEF AgreedIs
<1>7. ReadIs(c, y)'
  BY <1>1, <1>3 DEF ReadIs
<1>8. BuffersAre(r, p, Q)'
  BY <1>2, <1>3 DEF BuffersAre
<1> QED
  BY <1>4, <1>5, <1>6, <1>7, <1>8 DEF Inv

\* A byte of text goes behind what has been read so far.
LEMMA Stored ==
    ASSUME TypeOK, NEW b \in Byte
    PROVE  Append((shown \o last_line) \o text, b) = (shown \o last_line) \o Append(text, b)
<1>1. shown \in Seq(Byte) /\ last_line \in Seq(Byte) /\ text \in Seq(Byte) /\ <<b>> \in Seq(Byte)
  BY DEF TypeOK
<1>2. shown \o last_line \in Seq(Byte)
  BY <1>1, ConcatProperties
<1> DEFINE s == shown \o last_line
           u == <<b>>
<1>3. s \in Seq(Byte) /\ text \in Seq(Byte) /\ u \in Seq(Byte) /\ s \o text \in Seq(Byte)
  BY <1>1, <1>2, ConcatProperties
<1>4. Append(s \o text, b) = (s \o text) \o u
  BY <1>3, AppendIsConcat
<1>5. Append(text, b) = text \o u
  BY <1>1, AppendIsConcat
<1> HIDE DEF s, u
<1>6. (s \o text) \o u = s \o (text \o u)
  BY <1>3, ConcatAssociative, SMTT(30)
<1> QED
  BY <1>4, <1>5, <1>6 DEF s

\* What one more answer means for MCCP.
LEMMA SaidLemma ==
    ASSUME TypeOK, NEW w \in Verbs \cup {SB}, NEW o \in Byte,
           answers' = Append(answers, <<w, o>>)
    PROVE  \A v : Said(v)' => Said(v) \/ (w = DO /\ o = v)
<1>1. <<w, o>> \in (Verbs \cup {SB}) \X Byte /\ answers \in Seq((Verbs \cup {SB}) \X Byte)
  BY DEF TypeOK
<1>2. /\ Len(answers') = Len(answers) + 1 /\ Len(answers) \in Nat
      /\ \A i \in 1..Len(answers) : answers'[i] = answers[i]
      /\ answers'[Len(answers) + 1] = <<w, o>>
  BY <1>1, AppendProperties, LenProperties
<1>3. ASSUME NEW v, NEW i \in 1..Len(answers'), answers'[i] = <<DO, v>>
      PROVE  Said(v) \/ (w = DO /\ o = v)
  <2>1. CASE i = Len(answers) + 1
    BY <2>1, <1>2, <1>3
  <2>2. CASE i \in 1..Len(answers)
    BY <2>2, <1>2, <1>3 DEF Said
  <2> QED
    BY <2>1, <2>2, <1>2
<1> QED
  BY <1>3 DEF Said

\* The five things the parser does with what is at the head.
ParseStep == ParseByte \/ ParsePartial \/ ParseRequest \/ ParseSub \/ ParseOther

LEMMA ParseFrame ==
    ASSUME ParseStep
    PROVE  UNCHANGED <<mud, mccp, lines, pc, at>> /\ pc = "parse" /\ rest # <<>>
BY DEF ParseStep, ParseByte, ParsePartial, ParseRequest, ParseSub, ParseOther, Telnet

LEMMA OneByteKeeps ==
    ASSUME TypeOK, NEW m, NEW c, NEW r, NEW t, NEW P, NEW Q, Inv(m, c, r, t, P, Q), ParseStep,
           NEW e, NEW y, NEW p, AtHead(e, y, p, r, t), NEW b, e = <<b>>,
           \/ b \in 1..254 /\ y = <<Append(t[1], b), t[2]>>
           \/ b = 0 /\ y = t
    PROVE  Inv(m, c, r, y, p, Q)'
<1>1. /\ AnsweredIs(r, t) /\ AgreedIs(r) /\ ReadIs(c, t) /\ rest = e \o p
      /\ e \in Seq(Byte) /\ p \in Seq(Byte)
  BY DEF Inv, AtHead
<1>2. Len(e) = 1 /\ e[1] = b
  OBVIOUS
<1>3. Head(rest) = b /\ Tail(rest) = p
  <2>1. Sees(e, p)
    BY HeadLemma
  <2> QED
    BY <2>1, <1>2 DEF Sees
<1>4. b # IAC /\ b \in Byte
  <2>1. b \in 0..254
    OBVIOUS
  <2> QED
    BY <2>1 DEF IAC, Byte, Z_END, ZIP
<1>5. ParseByte
  BY <1>3, <1>4 DEF ParseStep, ParsePartial, ParseRequest, ParseSub, ParseOther, Telnet
<1>6. UNCHANGED <<mud, mccp, telnet_buf, lines, pc, at>> /\ pc = "parse" /\ UNCHANGED answers
      /\ rest' = p /\ text' = IF b = 0 THEN text ELSE Append(text, b)
  BY <1>3, <1>5 DEF ParseByte
<1>7. y[1] = (shown \o last_line) \o text' /\ y[2] = t[2]
  <2>1. t[1] = (shown \o last_line) \o text
    BY <1>1 DEF ReadIs
  <2>2. CASE b = 0
    BY <2>1, <2>2, <1>6
  <2>3. CASE b # 0
    <3>1. y[1] = Append(t[1], b) /\ y[2] = t[2]
      BY <2>3
    <3> QED
      BY <3>1, <2>1, <2>3, <1>4, <1>6, Stored
  <2> QED
    BY <2>2, <2>3
<1>8. AnsweredIs(r, y)'
  <2>1. AnsweredIs(r, t)'
    BY <1>1, <1>6, InvFrame DEF mccp
  <2> QED
    BY <2>1, <1>7 DEF AnsweredIs
<1>9. \A v \in AllVersions : Said(v)' => Said(v)
  BY <1>6 DEF Said
<1> HIDE DEF ParseStep
<1> QED
  BY <1>6, <1>7, <1>8, <1>9, ParseKeeps

LEMMA EscapeKeeps ==
    ASSUME TypeOK, NEW m, NEW c, NEW r, NEW t, NEW P, NEW Q, Inv(m, c, r, t, P, Q), ParseStep,
           NEW e, NEW y, NEW p, AtHead(e, y, p, r, t), NEW b, e = <<IAC, b>>,
           \/ b = IAC /\ y = <<Append(t[1], IAC), t[2]>>
           \/ b = GA /\ y = t
    PROVE  Inv(m, c, r, y, p, Q)'
<1>1. /\ AnsweredIs(r, t) /\ AgreedIs(r) /\ ReadIs(c, t) /\ rest = e \o p
      /\ e \in Seq(Byte) /\ p \in Seq(Byte)
  BY DEF Inv, AtHead
<1>2. Len(e) = 2 /\ e[1] = IAC /\ e[2] = b
  OBVIOUS
<1>3. Head(rest) = IAC /\ rest[2] = b /\ After(rest, 2) = p /\ Len(rest) >= 2
  <2>1. Sees(e, p)
    BY HeadLemma
  <2> QED
    BY <2>1, <1>2 DEF Sees
<1>4. b \notin Verbs \cup {SB} /\ (b = IAC <=> b # GA) /\ IAC \in Byte
  BY DEF IAC, GA, Byte, Z_END, ZIP, Verbs, SB, WILL, WONT, DO, DONT
<1>5. Command = b /\ Whole
  BY <1>3, <1>4 DEF Command, Whole
<1>6. ParseOther
  BY <1>3, <1>4, <1>5 DEF ParseStep, ParsePartial, ParseRequest, ParseSub, ParseByte
<1>7. UNCHANGED <<mud, mccp, telnet_buf, lines, pc, at>> /\ pc = "parse" /\ UNCHANGED answers
      /\ rest' = p /\ text' = IF b = IAC THEN Append(text, IAC) ELSE text
  <2>1. rest' = After(rest, 2)
    BY <1>6 DEF ParseOther, After
  <2>2. UNCHANGED <<mud, mccp, telnet_buf, lines, pc, at>> /\ pc = "parse" /\ UNCHANGED answers
    BY <1>6 DEF ParseOther, Telnet
  <2>3. text' = IF b = IAC THEN Append(text, IAC) ELSE text
    BY <1>5, <1>6 DEF ParseOther
  <2> QED
    BY <1>3, <2>1, <2>2, <2>3
<1>8. y[1] = (shown \o last_line) \o text' /\ y[2] = t[2]
  <2>1. t[1] = (shown \o last_line) \o text
    BY <1>1 DEF ReadIs
  <2>2. CASE b = GA
    BY <2>1, <2>2, <1>4, <1>7
  <2>3. CASE b # GA
    <3>1. y[1] = Append(t[1], IAC) /\ y[2] = t[2]
      BY <2>3
    <3> QED
      BY <3>1, <2>1, <2>3, <1>4, <1>7, Stored
  <2> QED
    BY <2>2, <2>3
<1>9. AnsweredIs(r, y)'
  <2>1. AnsweredIs(r, t)'
    BY <1>1, <1>7, InvFrame DEF mccp
  <2> QED
    BY <2>1, <1>8 DEF AnsweredIs
<1>10. \A v \in AllVersions : Said(v)' => Said(v)
  BY <1>7 DEF Said
<1> QED
  BY <1>7, <1>8, <1>9, <1>10, ParseKeeps

LEMMA RequestStepKeeps ==
    ASSUME TypeOK, NEW m, NEW c, NEW r, NEW t, NEW P, NEW Q, Inv(m, c, r, t, P, Q), ParseStep,
           NEW e, NEW y, NEW p, AtHead(e, y, p, r, t),
           NEW v \in Verbs, NEW o \in 0..254, o \notin AllVersions, e = <<IAC, v, o>>,
           y = <<t[1], Append(t[2], <<v, o>>)>>
    PROVE  Inv(m, c, r, y, p, Q)'
<1>1. /\ AnsweredIs(r, t) /\ AgreedIs(r) /\ ReadIs(c, t) /\ rest = e \o p
      /\ e \in Seq(Byte) /\ p \in Seq(Byte) /\ t \in PlainState
  BY DEF Inv, AtHead
<1>2. Len(e) = 3 /\ e[1] = IAC /\ e[2] = v /\ e[3] = o
  OBVIOUS
<1>3. /\ Head(rest) = IAC /\ rest[2] = v /\ rest[3] = o /\ After(rest, 3) = p
      /\ Len(rest) >= 3 /\ Len(rest) >= 2
  <2>1. Sees(e, p)
    BY HeadLemma
  <2> QED
    BY <2>1, <1>2 DEF Sees
<1>4. v # SB /\ o \in Byte /\ v \in Verbs \cup {SB}
  BY DEF Byte, Z_END, ZIP, Verbs, SB, WILL, WONT, DO, DONT
<1>5. Command = v /\ Whole
  BY <1>3, <1>4 DEF Command, Whole
<1>6. ParseRequest
  BY <1>3, <1>4, <1>5 DEF ParseStep, ParsePartial, ParseOther, ParseSub, ParseByte
<1>a. PICK w : w = Answer(v, o)
  OBVIOUS
<1>7. /\ UNCHANGED <<mud, mccp, telnet_buf, lines, pc, at>> /\ pc = "parse" /\ UNCHANGED text
      /\ rest' = p /\ answers' = Append(answers, <<w, o>>)
  <2>1. rest' = After(rest, 3)
    BY <1>6 DEF ParseRequest, After
  <2>2. UNCHANGED <<mud, mccp, telnet_buf, lines, pc, at>> /\ pc = "parse" /\ UNCHANGED text
    BY <1>6 DEF ParseRequest, Telnet
  <2>3. answers' = Append(answers, <<w, o>>)
    BY <1>3, <1>5, <1>6, <1>a DEF ParseRequest
  <2> QED
    BY <1>3, <2>1, <2>2, <2>3
<1>8. w \in Verbs /\ w \in Verbs \cup {SB}
  BY <1>a, AnswerLemma
<1>9. y[1] = (shown \o last_line) \o text' /\ y[2] = Append(t[2], <<v, o>>)
  BY <1>1, <1>7 DEF ReadIs, lines
<1>10. AnsweredIs(r, y)'
  <2>1. /\ t[2] \in Seq((Verbs \cup {SB}) \X Byte)
        /\ answers \in Seq((Verbs \cup {SB}) \X Byte)
    BY <1>1, StateFacts, AskedCounts DEF TypeOK
  <2>2. \A u : Count(y[2], u) = Count(t[2], u) + (IF o = u THEN 1 ELSE 0)
    <3>1. \A s \in Seq((Verbs \cup {SB}) \X Byte) : \A u :
            Count(Append(s, <<v, o>>), u) = Count(s, u) + (IF o = u THEN 1 ELSE 0)
      BY <1>4, CountLemma
    <3> QED
      BY <3>1, <2>1, <1>9
  <2>3. \A u : Count(answers', u) = Count(answers, u) + (IF o = u THEN 1 ELSE 0)
    <3>1. \A s \in Seq((Verbs \cup {SB}) \X Byte) : \A u :
            Count(Append(s, <<w, o>>), u) = Count(s, u) + (IF o = u THEN 1 ELSE 0)
      <4>1. o \in Byte /\ w \in Verbs
        BY <1>4, <1>8
      <4> QED
        BY <4>1, CountLemma
    <3> QED
      BY <3>1, <2>1, <1>7
  <2>4. \A u : Count(answers, u)' = Count(answers', u)
    BY DEF Count
  <2>5. \A u : Count(answers, u) \in Nat
    BY <2>1, CountLemma
  <2>6. ASSUME NEW u \in AllVersions PROVE Count(answers, u)' = Count(answers, u)
    <3>1. o # u
      OBVIOUS
    <3>2. Count(answers', u) = Count(answers, u) + 0
      BY <3>1, <2>3
    <3> QED
      BY <3>2, <2>4, <2>5
  <2>7. \A u \in Options : Count(y[2], u) = Count(answers, u)'
    BY <2>2, <2>3, <2>4, <1>1 DEF AnsweredIs
  <2>8. \A u : Owed(u)' = Owed(u)
    BY <1>7 DEF Owed, mccp
  <2> QED
    BY <2>6, <2>7, <2>8, <1>1 DEF AnsweredIs
<1>11. \A u \in AllVersions : Said(u)' => Said(u)
  BY <1>4, <1>7, <1>8, SaidLemma, SMTT(30)
<1> QED
  BY <1>7, <1>9, <1>10, <1>11, ParseKeeps

\* The one subnegotiation there is ends with its sixth byte.
LEMMA SubEnds ==
    ASSUME rest \in Seq(Byte), Len(rest) >= 6,
           \A i \in 1..6 : rest[i] = TTYPE[i]
    PROVE  EndOfSub = 6
<1>1. /\ rest[3] = TERMINAL_TYPE /\ rest[4] = SEND /\ rest[5] = IAC /\ rest[6] = SE
  BY DEF TTYPE
<1>2. Len(rest) \in Nat
  BY LenProperties
<1> DEFINE Row(i) == {j \in 3..i - 1 : \A k \in j..i - 1 : rest[k] = IAC}
           T == {i \in 4..Len(rest) : rest[i] = SE /\ Cardinality(Row(i)) % 2 = 1}
<1>3. EndOfSub = First(T)
  BY DEF EndOfSub
<1>4. Row(6) = {5}
  <2>1. ASSUME NEW j \in 3..5, \A k \in j..5 : rest[k] = IAC PROVE j = 5
    <3>1. CASE j = 3
      <4>1. rest[3] = IAC
        BY <2>1, <3>1
      <4> QED
        BY <4>1, <1>1 DEF TERMINAL_TYPE, IAC
    <3>2. CASE j = 4
      <4>1. rest[4] = IAC
        BY <2>1, <3>2
      <4> QED
        BY <4>1, <1>1 DEF SEND, IAC
    <3> QED
      BY <3>1, <3>2
  <2>2. \A k \in 5..5 : rest[k] = IAC
    BY <1>1
  <2>3. 6 - 1 = 5 /\ 5 \in 3..5
    OBVIOUS
  <2> QED
    BY <2>1, <2>2, <2>3
<1>5. Cardinality(Row(6)) = 1
  BY <1>4, FS_Singleton
<1>6. 6 \in T
  <2>1. 6 \in 4..Len(rest) /\ 1 % 2 = 1
    BY <1>2
  <2> HIDE DEF Row
  <2> QED
    BY <2>1, <1>1, <1>5
<1>7. 4 \notin T /\ 5 \notin T
  <2>1. rest[4] # SE /\ rest[5] # SE
    BY <1>1 DEF SEND, SE, IAC
  <2> HIDE DEF Row
  <2> QED
    BY <2>1
<1>8. T \subseteq 4..Len(rest)
  OBVIOUS
<1> HIDE DEF T
<1>9. First(T) \in T /\ First(T) <= 6
  <2>1. T \subseteq Nat /\ T # {}
    BY <1>2, <1>6, <1>8
  <2> QED
    BY <2>1, <1>6, FirstLemma
<1>10. First(T) \in 4..Len(rest) /\ First(T) # 4 /\ First(T) # 5
  BY <1>7, <1>8, <1>9
<1>11. \A n \in 4..Len(rest) : n <= 6 /\ n # 4 /\ n # 5 => n = 6
  BY <1>2
<1> QED
  BY <1>3, <1>9, <1>10, <1>11

LEMMA SubKeeps ==
    ASSUME TypeOK, NEW m, NEW c, NEW r, NEW t, NEW P, NEW Q, Inv(m, c, r, t, P, Q), ParseStep,
           NEW e, NEW y, NEW p, AtHead(e, y, p, r, t), e = TTYPE, y = t
    PROVE  Inv(m, c, r, y, p, Q)'
<1>1. AnsweredIs(r, t) /\ AgreedIs(r) /\ ReadIs(c, t) /\ t \in PlainState
  BY DEF Inv, AtHead
<1>2. Len(e) = 6 /\ e[1] = IAC /\ e[2] = SB /\ e[3] = TERMINAL_TYPE /\ e[4] = SEND
  BY DEF TTYPE
<1>3. /\ Head(rest) = IAC /\ rest[2] = SB /\ rest[3] = TERMINAL_TYPE /\ rest[4] = SEND
      /\ After(rest, 6) = p /\ Len(rest) >= 6 /\ Len(rest) \in Nat
      /\ rest \in Seq(Byte) /\ \A i \in 1..6 : rest[i] = TTYPE[i]
  <2>1. Sees(e, p)
    BY HeadLemma
  <2> QED
    BY <2>1, <1>2 DEF Sees
<1>4. EndOfSub = 6
  BY <1>3, SubEnds
<1>5. Command = SB /\ Whole
  <2>1. SB \notin Verbs
    BY DEF SB, Verbs, WILL, WONT, DO, DONT
  <2>2. EndOfSub # 0 /\ Len(rest) >= 2
    BY <1>3, <1>4
  <2> QED
    BY <2>1, <2>2, <1>3 DEF Command, Whole
<1>6. ParseSub
  <2>1. SB \notin Verbs /\ SB \in Verbs \cup {SB}
    BY DEF SB, Verbs, WILL, WONT, DO, DONT
  <2> QED
    BY <2>1, <1>3, <1>5 DEF ParseStep, ParsePartial, ParseOther, ParseRequest, ParseByte
<1>7. /\ UNCHANGED <<mud, mccp, telnet_buf, lines, pc, at>> /\ pc = "parse" /\ UNCHANGED text
      /\ rest' = p /\ answers' = Append(answers, <<SB, TERMINAL_TYPE>>)
  <2>1. rest' = After(rest, 6)
    BY <1>4, <1>6 DEF ParseSub, After
  <2>2. UNCHANGED <<mud, mccp, telnet_buf, lines, pc, at>> /\ pc = "parse" /\ UNCHANGED text
    BY <1>6 DEF ParseSub, Telnet
  <2>3. answers' = Append(answers, <<SB, TERMINAL_TYPE>>)
    BY <1>3, <1>6 DEF ParseSub
  <2> QED
    BY <1>3, <2>1, <2>2, <2>3
<1>8. y[1] = (shown \o last_line) \o text' /\ y[2] = t[2]
  BY <1>1, <1>7 DEF ReadIs, lines
<1>9. TERMINAL_TYPE \in Byte
  BY DEF TERMINAL_TYPE, Byte, Z_END, ZIP
<1>10. AnsweredIs(r, y)'
  <2>1. answers \in Seq((Verbs \cup {SB}) \X Byte)
    BY DEF TypeOK
  <2>2. \A s \in Seq((Verbs \cup {SB}) \X Byte) : \A u :
          Count(Append(s, <<SB, TERMINAL_TYPE>>), u) = Count(s, u)
    BY <1>9, CountLemma
  <2>3. \A u : Count(answers', u) = Count(answers, u)
    BY <2>1, <2>2, <1>7
  <2>4. \A u : Count(answers, u)' = Count(answers', u)
    BY DEF Count
  <2>5. \A u : Owed(u)' = Owed(u)
    BY <1>7 DEF Owed, mccp
  <2> QED
    BY <2>3, <2>4, <2>5, <1>1 DEF AnsweredIs
<1>11. \A u \in AllVersions : Said(u)' => Said(u)
  <2>1. TERMINAL_TYPE \notin AllVersions
    BY DEF TERMINAL_TYPE, AllVersions, COMPRESS, COMPRESS2
  <2>2. SB \in Verbs \cup {SB}
    OBVIOUS
  <2> QED
    BY <2>1, <2>2, <1>7, <1>9, SaidLemma
<1> QED
  BY <1>7, <1>8, <1>10, <1>11, ParseKeeps

LEMMA ParseStepKeeps ==
    ASSUME TypeOK, NEW m, NEW c, NEW r, NEW t, NEW P, NEW Q, Inv(m, c, r, t, P, Q), ParseStep
    PROVE  \E y, p : Inv(m, c, r, y, p, Q)'
<1>1. PICK e, y, p : AtHead(e, y, p, r, t)
  BY ParseHead, ParseFrame
<1>2. Inv(m, c, r, y, p, Q)'
  <2>1. PlainItem(e, t, y)
    BY <1>1 DEF AtHead
  <2>2. ASSUME NEW b \in 1..254, e = <<b>>, y = <<Append(t[1], b), t[2]>>
        PROVE  Inv(m, c, r, y, p, Q)'
    BY <1>1, <2>2, OneByteKeeps
  <2>3. ASSUME e = <<IAC, IAC>>, y = <<Append(t[1], IAC), t[2]>>
        PROVE  Inv(m, c, r, y, p, Q)'
    BY <1>1, <2>3, EscapeKeeps
  <2>4. ASSUME e = << 0 >>, y = t
        PROVE  Inv(m, c, r, y, p, Q)'
    BY <1>1, <2>4, OneByteKeeps
  <2>5. ASSUME e = <<IAC, GA>>, y = t
        PROVE  Inv(m, c, r, y, p, Q)'
    BY <1>1, <2>5, EscapeKeeps
  <2>6. ASSUME e = TTYPE, y = t
        PROVE  Inv(m, c, r, y, p, Q)'
    BY <1>1, <2>6, SubKeeps
  <2>7. ASSUME NEW v \in Verbs, NEW o \in 0..254, o # COMPRESS, o # COMPRESS2,
               e = <<IAC, v, o>>, y = <<t[1], Append(t[2], <<v, o>>)>>
        PROVE  Inv(m, c, r, y, p, Q)'
    <3>1. o \notin AllVersions
      BY <2>7 DEF AllVersions
    <3> QED
      BY <1>1, <2>7, <3>1, RequestStepKeeps, ZenonT(30)
  <2> QED
    BY <2>1, <2>2, <2>3, <2>4, <2>5, <2>6, <2>7 DEF PlainItem
<1> QED
  BY <1>2

LEMMA ParseEndsKeeps ==
    ASSUME TypeOK,
           NEW m, NEW c, NEW r, NEW t, NEW P, NEW Q, Inv(m, c, r, t, P, Q), ParseEnds
    PROVE  Inv(m, c, r, t, P, Q)'
<1>1. /\ Paths(m, c, r, t, P, Q)
      /\ AnsweredIs(r, t) /\ AgreedIs(r) /\ BuffersAre(r, P, Q) /\ ReadIs(c, t)
  BY DEF Inv
<1>2. pc = "parse" /\ outbuf = <<>> /\ inbuf = <<>> /\ Q = <<>> /\ P = <<>> /\ rest = <<>>
  BY <1>1 DEF BuffersAre, ParseEnds
<1>3. /\ UNCHANGED <<wire, sent, asked, items, zip, answers, stream, inbuf, outbuf, got_v2>>
      /\ UNCHANGED <<resp_v1, resp_v2, error, telnet_buf, more_coming, old_more_coming>>
      /\ UNCHANGED <<last_line, shown, rest, text, at>> /\ pc' = "get"
  BY DEF ParseEnds, mud, mccp, lines
<1>4. Paths(m, c, r, t, P, Q)' /\ SentIs(m)' /\ AnsweredIs(r, t)' /\ AgreedIs(r)'
  BY <1>1, <1>3, InvFrame DEF Inv
<1>5. ReadIs(c, t)'
  BY <1>1, <1>2, <1>3 DEF ReadIs
<1>6. BuffersAre(r, P, Q)'
  BY <1>1, <1>2, <1>3 DEF BuffersAre
<1> QED
  BY <1>4, <1>5, <1>6 DEF Inv

-----------------------------------------------------------------------------
(* The end of a read: the answers of MCCP, and the lines.                    *)

\* When nothing is left to scan or to parse, all that was received is told apart.
LEMMA AllRead ==
    ASSUME NEW m, NEW c, NEW r, NEW t, Paths(m, c, r, t, <<>>, <<>>)
    PROVE  c = r /\ r[1] = t
<1>1. /\ r \in RawState /\ t \in PlainState
      /\ RawLeads(r, <<>>, c) /\ PlainLeads(t, <<>>, r[1])
  BY DEF Paths
<1>2. Leads(Raw, Seq(Byte) \X RawState, r, <<>>, c)
  BY <1>1 DEF RawLeads
<1>3. Leads(Plain, Seq(Byte) \X PlainState, t, <<>>, r[1])
  BY <1>1 DEF PlainLeads
<1>4. c = r
  BY <1>1, <1>2, ItemSets, SolidItems, LeadsSame
<1>5. r[1] = t
  BY <1>1, <1>3, ItemSets, SolidItems, LeadsSame
<1> QED
  BY <1>4, <1>5

\* One answer more for a version of MCCP.
LEMMA VersionAnswered ==
    ASSUME TypeOK, NEW w \in Verbs, NEW v \in AllVersions,
           answers' = Append(answers, <<w, v>>)
    PROVE  /\ \A o : Count(answers, o)' = Count(answers, o) + (IF v = o THEN 1 ELSE 0)
           /\ \A o : Count(answers, o) \in Nat
           /\ \A u : Said(u)' => Said(u) \/ (w = DO /\ v = u)
<1>1. answers \in Seq((Verbs \cup {SB}) \X Byte) /\ v \in Byte /\ w \in Verbs \cup {SB}
  BY DEF TypeOK, AllVersions, COMPRESS, COMPRESS2, Byte, Z_END, ZIP
<1>2. \A s \in Seq((Verbs \cup {SB}) \X Byte) : \A u :
        Count(Append(s, <<w, v>>), u) = Count(s, u) + (IF v = u THEN 1 ELSE 0)
  BY <1>1, CountLemma
<1>3. \A u : Count(answers', u) = Count(answers, u) + (IF v = u THEN 1 ELSE 0)
  BY <1>1, <1>2
<1>4. \A u : Count(answers, u)' = Count(answers', u)
  BY DEF Count
<1>5. \A o : Count(answers, o) \in Nat
  BY <1>1, CountLemma
<1>6. \A u : Said(u)' => Said(u) \/ (w = DO /\ v = u)
  BY <1>1, SaidLemma
<1> QED
  BY <1>3, <1>4, <1>5, <1>6

LEMMA RespondAnswers ==
    ASSUME TypeOK, NEW r, NEW t, AnsweredIs(r, t), AgreedIs(r), Respond
    PROVE  AnsweredIs(r, t)' /\ AgreedIs(r)'
<1>1. /\ COMPRESS \in AllVersions /\ COMPRESS2 \in AllVersions /\ COMPRESS # COMPRESS2
      /\ \A v \in AllVersions : v = COMPRESS \/ v = COMPRESS2
      /\ \A o \in Options : o # COMPRESS /\ o # COMPRESS2
      /\ DO \in Verbs /\ DONT \in Verbs /\ DO # DONT
  BY DEF AllVersions, Options, COMPRESS, COMPRESS2, Verbs, DO, DONT
<1>2. UNCHANGED <<got_v2, stream>> /\ resp_v1 \in {-1, 0, 1} /\ resp_v2 \in BOOLEAN
  BY DEF Respond, TypeOK
<1>3. CASE resp_v1 # 0
  <2>1. PICK w \in Verbs : /\ answers' = Append(answers, <<w, COMPRESS>>)
                           /\ w = DO => resp_v1 = 1
    BY <1>1, <1>3 DEF Respond
  <2>2. resp_v1' = 0 /\ resp_v2' = resp_v2
    BY <1>3 DEF Respond, StillOwed
  <2>3. /\ \A o : Count(answers, o)' = Count(answers, o) + (IF COMPRESS = o THEN 1 ELSE 0)
        /\ \A o : Count(answers, o) \in Nat
        /\ \A u : Said(u)' => Said(u) \/ (w = DO /\ COMPRESS = u)
    BY <1>1, <2>1, VersionAnswered
  <2>4. /\ Owed(COMPRESS) = 1 /\ Owed(COMPRESS)' = 0
        /\ Owed(COMPRESS2)' = Owed(COMPRESS2)
    BY <1>1, <1>3, <2>2 DEF Owed
  <2>5. \A o \in Options : Count(answers, o)' = Count(answers, o)
    BY <1>1, <2>3
  <2>6. /\ Count(answers, COMPRESS)' = Count(answers, COMPRESS) + 1
        /\ Count(answers, COMPRESS2)' = Count(answers, COMPRESS2)
    BY <1>1, <2>3
  <2>7. \A v \in AllVersions : Count(answers, v)' + Owed(v)' = Count(answers, v) + Owed(v)
    <3>1. Count(answers, COMPRESS) \in Nat
      BY <2>3
    <3>2. Count(answers, COMPRESS)' + Owed(COMPRESS)' = Count(answers, COMPRESS) + Owed(COMPRESS)
      BY <3>1, <2>4, <2>6
    <3> QED
      BY <3>2, <2>4, <2>6, <1>1
  <2>8. AnsweredIs(r, t)'
    BY <2>5, <2>7 DEF AnsweredIs
  <2>9. AgreedIs(r)'
    BY <1>1, <1>2, <2>1, <2>2, <2>3 DEF AgreedIs
  <2> QED
    BY <2>8, <2>9
<1>4. CASE resp_v1 = 0 /\ resp_v2
  <2>1. answers' = Append(answers, <<DO, COMPRESS2>>) /\ resp_v2' = FALSE /\ resp_v1' = 0
    BY <1>4 DEF Respond
  <2>2. /\ \A o : Count(answers, o)' = Count(answers, o) + (IF COMPRESS2 = o THEN 1 ELSE 0)
        /\ \A o : Count(answers, o) \in Nat
        /\ \A u : Said(u)' => Said(u) \/ COMPRESS2 = u
    BY <1>1, <2>1, VersionAnswered
  <2>3. /\ Owed(COMPRESS2) = 1 /\ Owed(COMPRESS2)' = 0
        /\ Owed(COMPRESS)' = Owed(COMPRESS)
    BY <1>1, <1>4, <2>1 DEF Owed
  <2>4. \A o \in Options : Count(answers, o)' = Count(answers, o)
    BY <1>1, <2>2
  <2>5. /\ Count(answers, COMPRESS2)' = Count(answers, COMPRESS2) + 1
        /\ Count(answers, COMPRESS)' = Count(answers, COMPRESS)
    BY <1>1, <2>2
  <2>6. Count(answers, COMPRESS2) \in Nat
    BY <2>2
  <2>7. \A v \in AllVersions : Count(answers, v)' + Owed(v)' = Count(answers, v) + Owed(v)
    <3>1. Count(answers, COMPRESS2)' + Owed(COMPRESS2)'
            = Count(answers, COMPRESS2) + Owed(COMPRESS2)
      BY <2>3, <2>5, <2>6
    <3> QED
      BY <3>1, <2>3, <2>5, <1>1
  <2>8. AnsweredIs(r, t)'
    BY <2>4, <2>7 DEF AnsweredIs
  <2>9. COMPRESS2 \in r[2]
    <3>1. Count(answers, COMPRESS2) + Owed(COMPRESS2) = IF COMPRESS2 \in r[2] THEN 1 ELSE 0
      BY <1>1 DEF AnsweredIs
    <3> QED
      BY <3>1, <2>3, <2>6
  <2>10. AgreedIs(r)'
    BY <1>1, <1>2, <2>1, <2>2, <2>9 DEF AgreedIs
  <2> QED
    BY <2>8, <2>10
<1>5. CASE resp_v1 = 0 /\ ~resp_v2
  <2>1. UNCHANGED <<answers, resp_v1, resp_v2, got_v2, stream>>
    BY <1>2, <1>5 DEF Respond
  <2> QED
    BY <2>1, InvFrame
<1> QED
  BY <1>2, <1>3, <1>4, <1>5

LEMMA RespondKeeps ==
    ASSUME TypeOK,
           NEW m, NEW c, NEW r, NEW t, NEW P, NEW Q, Inv(m, c, r, t, P, Q), Respond
    PROVE  Inv(m, c, r, t, P, Q)'
<1>1. /\ Paths(m, c, r, t, P, Q)
      /\ AnsweredIs(r, t) /\ AgreedIs(r) /\ BuffersAre(r, P, Q) /\ ReadIs(c, t)
  BY DEF Inv
<1>2. /\ pc = "respond" /\ outbuf = <<>> /\ inbuf = <<>> /\ Q = <<>> /\ rest = <<>>
      /\ P = <<>> /\ at = 1
  BY <1>1 DEF BuffersAre, Respond
<1>3. /\ UNCHANGED <<wire, sent, asked, items, zip, stream, inbuf, outbuf, got_v2>>
      /\ UNCHANGED <<error, telnet_buf, more_coming, old_more_coming>>
      /\ UNCHANGED <<last_line, shown, rest, text, at>>
      /\ pc' = IF text = <<>> THEN "idle" ELSE "lines"
  BY DEF Respond, mud, lines
<1>4. Paths(m, c, r, t, P, Q)' /\ SentIs(m)'
  BY <1>1, <1>3, InvFrame DEF Inv
<1>5. AnsweredIs(r, t)' /\ AgreedIs(r)'
  BY <1>1, RespondAnswers
<1>6. ASSUME text = <<>>, last_line # <<>>
      PROVE  more_coming
  <2>1. c = r /\ r[1] = t
    BY <1>1, <1>2, AllRead
  <2>2. shown \o last_line \in Seq(Byte)
    BY ConcatProperties DEF TypeOK
  <2>3. (shown \o last_line) \o <<>> = shown \o last_line
    BY <2>2, ConcatEmptySeq
  <2>4. c[1][1] = shown \o last_line
    BY <2>1, <2>3, <1>1, <1>6 DEF ReadIs
  <2>5. ~(Len(c[1][1]) > Len(shown \o last_line))
    BY <2>2, <2>4, LenProperties
  <2> QED
    BY <2>5, <1>1, <1>2, <1>6 DEF ReadIs
<1>7. ReadIs(c, t)'
  BY <1>1, <1>2, <1>3, <1>6 DEF ReadIs
<1>8. BuffersAre(r, P, Q)'
  BY <1>1, <1>2, <1>3 DEF BuffersAre
<1> QED
  BY <1>4, <1>5, <1>7, <1>8 DEF Inv

LEMMA Regroup ==
    \A s \in Seq(Byte), u \in Seq(Byte), v \in Seq(Byte) : (s \o u) \o v = s \o (u \o v)
BY ConcatAssociative

\* Of the line kept from the last read and the text of this one, one part is
\* shown and the other is kept.
Splits_(n) ==
    LET buf == last_line \o text
    IN  /\ n \in 0..Len(buf)
        /\ shown' = shown \o SubSeq(buf, 1, n) /\ last_line' = After(buf, n)
        /\ ~more_coming => n = Len(buf)

LEMMA DisplaySplits ==
    ASSUME TypeOK, last_line # <<>> => old_more_coming, Display
    PROVE  \E n : Splits_(n)
<1>1. last_line \in Seq(Byte) /\ text \in Seq(Byte) /\ last_line \o text \in Seq(Byte)
  BY ConcatProperties DEF TypeOK
<1> DEFINE buf == IF Merges THEN last_line \o text ELSE text
           n == Complete(buf)
           kept == SubSeq(buf, n + 1, Len(buf))
<1>2. shown' = shown \o SubSeq(buf, 1, n) /\ last_line' = IF kept # <<>> THEN kept ELSE Leftover
  BY DEF Display
<1>3. buf = last_line \o text
  <2>1. CASE last_line = <<>>
    BY <2>1, <1>1, ConcatEmptySeq DEF Merges
  <2>2. CASE last_line # <<>>
    BY <2>2 DEF Merges
  <2> QED
    BY <2>1, <2>2
<1>4. Leftover = <<>>
  BY DEF Leftover, Merges
<1>5. n \in 0..Len(buf) /\ (~more_coming => n = Len(buf))
  <2>1. buf \in Seq(Byte)
    BY <1>1, <1>3
  <2> HIDE DEF buf
  <2> QED
    BY <2>1, CompleteLemma
<1> HIDE DEF buf, n
<1>6. last_line' = kept
  BY <1>2, <1>4
<1>7. Splits_(n)
  BY <1>2, <1>3, <1>5, <1>6 DEF Splits_, After
<1> QED
  BY <1>7

LEMMA DisplayKeeps ==
    ASSUME TypeOK,
           NEW m, NEW c, NEW r, NEW t, NEW P, NEW Q, Inv(m, c, r, t, P, Q), Display
    PROVE  Inv(m, c, r, t, P, Q)'
<1>1. /\ Paths(m, c, r, t, P, Q)
      /\ AnsweredIs(r, t) /\ AgreedIs(r) /\ BuffersAre(r, P, Q) /\ ReadIs(c, t)
  BY DEF Inv
<1>2. /\ pc = "lines" /\ outbuf = <<>> /\ inbuf = <<>> /\ Q = <<>> /\ rest = <<>>
      /\ P = <<>> /\ at = 1
  BY <1>1 DEF BuffersAre, Display
<1>3. /\ UNCHANGED <<wire, sent, asked, items, zip, answers, stream, inbuf, outbuf, got_v2>>
      /\ UNCHANGED <<resp_v1, resp_v2, error, telnet_buf, more_coming, old_more_coming>>
      /\ UNCHANGED <<rest, at>> /\ pc' = "idle" /\ text' = <<>>
  BY DEF Display, mud, mccp
<1>4. Paths(m, c, r, t, P, Q)' /\ SentIs(m)' /\ AnsweredIs(r, t)' /\ AgreedIs(r)'
  BY <1>1, <1>3, InvFrame DEF Inv
<1>5. last_line # <<>> => old_more_coming
  BY <1>1, <1>2 DEF ReadIs
<1>6. PICK n : Splits_(n)
  BY <1>5, DisplaySplits
<1>7. PICK buf : buf = last_line \o text
  OBVIOUS
<1>8. /\ shown \in Seq(Byte) /\ last_line \in Seq(Byte) /\ text \in Seq(Byte)
      /\ buf \in Seq(Byte)
  BY <1>7, ConcatProperties DEF TypeOK
<1>9. /\ n \in 0..Len(buf) /\ shown' = shown \o SubSeq(buf, 1, n)
      /\ last_line' = After(buf, n) /\ (~more_coming => n = Len(buf))
  BY <1>6, <1>7 DEF Splits_
<1>10. /\ SubSeq(buf, 1, n) \in Seq(Byte) /\ After(buf, n) \in Seq(Byte)
       /\ Len(After(buf, n)) = Len(buf) - n
       /\ buf = SubSeq(buf, 1, n) \o After(buf, n)
  BY <1>8, <1>9, CutLemma DEF After
<1>11. shown' \o last_line' = shown \o buf
  <2>1. (shown \o SubSeq(buf, 1, n)) \o After(buf, n)
          = shown \o (SubSeq(buf, 1, n) \o After(buf, n))
    BY <1>8, <1>10, Regroup, ZenonT(30)
  <2> QED
    BY <2>1, <1>9, <1>10
<1>12. t[1] = (shown' \o last_line') \o text'
  <2>1. t[1] = (shown \o last_line) \o text
    BY <1>1 DEF ReadIs
  <2>2. (shown \o last_line) \o text = shown \o (last_line \o text)
    BY <1>8, Regroup, SMTT(30)
  <2>3. shown \o buf \in Seq(Byte)
    BY <1>8, ConcatProperties
  <2>4. (shown \o buf) \o <<>> = shown \o buf
    BY <2>3, ConcatEmptySeq
  <2> QED
    BY <2>1, <2>2, <2>4, <1>3, <1>7, <1>11
<1>13. last_line' # <<>> => more_coming'
  <2>1. ~more_coming => Len(After(buf, n)) = 0
    BY <1>8, <1>9, <1>10, LenProperties
  <2>2. ~more_coming => After(buf, n) = <<>>
    BY <2>1, <1>10, EmptySeq
  <2> QED
    BY <2>2, <1>3, <1>9
<1>14. ReadIs(c, t)'
  BY <1>3, <1>12, <1>13 DEF ReadIs
<1>15. BuffersAre(r, P, Q)'
  BY <1>1, <1>2, <1>3 DEF BuffersAre
<1> QED
  BY <1>4, <1>14, <1>15 DEF Inv

-----------------------------------------------------------------------------
(* The invariant is inductive.                                               *)

LEMMA ParseStepsKeep ==
    ASSUME TypeOK, NEW m, NEW c, NEW r, NEW t, NEW P, NEW Q, Inv(m, c, r, t, P, Q), Parse
    PROVE  \E cc, y, p, q : Inv(m, cc, r, y, p, q)'
<1>1. CASE Get
  BY <1>1, GetKeeps
<1>2. CASE GetEnds
  BY <1>2, GetEndsKeeps
<1>3. CASE ParseByte \/ ParsePartial \/ ParseRequest \/ ParseSub \/ ParseOther
  <2>1. ParseStep
    BY <1>3 DEF ParseStep
  <2> QED
    BY <2>1, ParseStepKeeps
<1>4. CASE ParseEnds
  BY <1>4, ParseEndsKeeps
<1>5. CASE Respond
  BY <1>5, RespondKeeps
<1> QED
  BY <1>1, <1>2, <1>3, <1>4, <1>5 DEF Parse

LEMMA MccpKeeps ==
    ASSUME TypeOK, at # 0,
           NEW m, NEW c, NEW r, NEW t, NEW P, NEW Q, Inv(m, c, r, t, P, Q), Mccp
    PROVE  \E w, p, q : Inv(m, c, w, t, p, q)'
<1>1. CASE ScanPlain
  BY <1>1, ScanPlainKeeps
<1>2. CASE ScanPartial
  BY <1>2, NoPartial
<1>3. CASE ScanWill
  BY <1>3, ScanWillKeeps
<1>4. CASE ScanOn
  BY <1>4, ScanOnKeeps
<1>5. CASE ScanEnds
  BY <1>5, ScanEndsKeeps
<1>6. CASE Inflate
  BY <1>6, InflateKeeps
<1> QED
  BY <1>1, <1>2, <1>3, <1>4, <1>5, <1>6 DEF Mccp

\* Every step leaves six such states behind.
LEMMA NextKeeps ==
    ASSUME TypeOK, at # 0, WholeReads,
           NEW m, NEW c, NEW r, NEW t, NEW P, NEW Q, Inv(m, c, r, t, P, Q), [Next]_vars
    PROVE  \E y, z, w, u, p, q : Inv(y, z, w, u, p, q)'
<1>1. CASE Mud
  BY <1>1, MudKeeps
<1>2. CASE Read
  <2>1. PICK n \in 1..INPUT_CHUNK : Recv(n)
    BY <1>2 DEF Read
  <2> QED
    BY <2>1, RecvKeeps
<1>3. CASE Mccp
  BY <1>3, MccpKeeps
<1>4. CASE Parse
  BY <1>4, ParseStepsKeep
<1>5. CASE Display
  BY <1>5, DisplayKeeps
<1>6. CASE UNCHANGED vars
  <2>1. UNCHANGED <<wire, sent, asked, items, zip, answers, stream, inbuf, outbuf, got_v2,
                    resp_v1, resp_v2, error, telnet_buf, more_coming, old_more_coming,
                    last_line, shown, pc, at, rest, text>>
    BY <1>6 DEF vars, mud, mccp, lines
  <2>2. Inv(m, c, r, t, P, Q)'
    BY <2>1, InvFrame DEF Inv
  <2> QED
    BY <2>2
<1> QED
  BY <1>1, <1>2, <1>3, <1>4, <1>5, <1>6 DEF Next

LEMMA Steps == ASSUME WholeReads, IInv, [Next]_vars PROVE IInv'
<1>1. TypeOK /\ at # 0
  BY DEF IInv
<1>2. PICK m, c, r, t, P, Q : Inv(m, c, r, t, P, Q)
  BY DEF IInv
<1>3. TypeOK' /\ at' # 0
  BY <1>1, NextTypes
<1>4. \E y, z, w, u, p, q : Inv(y, z, w, u, p, q)'
  BY <1>1, <1>2, NextKeeps
<1> QED
  BY <1>3, <1>4 DEF IInv

\* When everything that arrived has been read, the four states are one.
LEMMA CaughtUp ==
    ASSUME NEW m, NEW c, NEW r, NEW t, NEW P, NEW Q, Inv(m, c, r, t, P, Q), Caught
    PROVE  m = r /\ m[1] = t
<1>1. Paths(m, c, r, t, P, Q) /\ P = <<>> /\ Q = <<>> /\ wire = <<>> /\ c \in RawState
  BY DEF Inv, BuffersAre, Caught, Paths
<1>2. c = r /\ r[1] = t
  BY <1>1, AllRead
<1>3. Leads(Wired, Seq(WireByte) \X RawState, c, <<>>, m)
  BY <1>1 DEF Paths, WireLeads
<1>4. m = c
  BY <1>1, <1>3, ItemSets, SolidItems, LeadsSame
<1> QED
  BY <1>2, <1>4

\* What the player has been shown, what is kept and what is being read begin what
\* the mud has sent.
LEMMA ReadBegins ==
    ASSUME IInv
    PROVE  Begins((shown \o last_line) \o text, sent)
<1>1. PICK m, c, r, t, P, Q : Inv(m, c, r, t, P, Q)
  BY DEF IInv
<1>2. /\ Later(r, c) /\ Later(c, m) /\ Begins(t[1], r[1][1])
      /\ t \in PlainState /\ r \in RawState
  BY <1>1, PathsLater DEF Inv, Paths
<1>3. t[1] \in Text
  BY <1>2, StateFacts
<1>4. Begins(t[1], m[1][1])
  <2>1. Begins(r[1][1], c[1][1]) /\ Begins(c[1][1], m[1][1])
    BY <1>2 DEF Later
  <2>2. r[1][1] \in Text
    BY <1>2, <1>3, BeginsLemma
  <2>3. Begins(r[1][1], m[1][1])
    BY <2>1, <2>2, BeginsLemma
  <2> QED
    BY <2>3, <1>2, <1>3, BeginsLemma
<1>5. t[1] = (shown \o last_line) \o text /\ m[1][1] = sent
  BY <1>1 DEF Inv, ReadIs, SentIs
<1> QED
  BY <1>4, <1>5

-----------------------------------------------------------------------------
(* What holds of every run with whole reads.                                 *)

LEMMA Inductive == WholeReads => (Spec => []IInv)
<1> SUFFICES ASSUME WholeReads PROVE Spec => []IInv
  OBVIOUS
<1>1. Init => IInv
  BY Starts
<1>2. IInv /\ [Next]_vars => IInv'
  BY Steps
<1> QED
  BY <1>1, <1>2, PTL DEF Spec

\* With whole reads, when everything that arrived has been read, client and mud
\* agree on whether the next byte is a compressed one.
THEOREM StaysInStep == WholeReads => (Spec => []InStep)
<1> SUFFICES ASSUME WholeReads PROVE Spec => []InStep
  OBVIOUS
<1>1. IInv => InStep
  <2>1. SUFFICES ASSUME IInv, Caught PROVE ~error /\ (stream <=> zip = "zipped")
    BY DEF InStep
  <2>2. PICK m, c, r, t, P, Q : Inv(m, c, r, t, P, Q)
    BY <2>1 DEF IInv
  <2>3. m = r
    BY <2>1, <2>2, CaughtUp
  <2> QED
    BY <2>2, <2>3 DEF Inv, BuffersAre, AgreedIs, SentIs
<1> QED
  BY <1>1, Inductive, PTL

\* With whole reads, when everything that arrived has been read, all of it has been
\* shown, but for the last line that a full read may have cut.
THEOREM AllIsShown == WholeReads => (Spec => []NothingHeldBack)
<1> SUFFICES ASSUME WholeReads PROVE Spec => []NothingHeldBack
  OBVIOUS
<1>1. IInv => NothingHeldBack
  <2>1. SUFFICES ASSUME IInv, Caught
                 PROVE  shown \o (IF more_coming THEN last_line ELSE <<>>) = sent
    BY DEF NothingHeldBack
  <2>2. PICK m, c, r, t, P, Q : Inv(m, c, r, t, P, Q)
    BY <2>1 DEF IInv
  <2>3. m[1] = t /\ m[1][1] = sent /\ t[1] = (shown \o last_line) \o text
    BY <2>1, <2>2, CaughtUp DEF Inv, SentIs, ReadIs
  <2>4. text = <<>> /\ (last_line # <<>> => more_coming)
    BY <2>1, <2>2 DEF Inv, ReadIs, Caught
  <2>5. shown \in Seq(Byte) /\ last_line \in Seq(Byte) /\ shown \o last_line \in Seq(Byte)
    BY <2>1, ConcatProperties DEF IInv, TypeOK
  <2>6. (shown \o last_line) \o <<>> = shown \o last_line
    BY <2>5, ConcatEmptySeq
  <2> QED
    BY <2>3, <2>4, <2>6
<1> QED
  BY <1>1, Inductive, PTL

\* With whole reads, when everything that arrived has been read, every request of
\* the mud has been answered once, but for the answer MCCP keeps for the next read.
THEOREM EachAnsweredOnce == WholeReads => (Spec => []AnsweredOnce)
<1> SUFFICES ASSUME WholeReads PROVE Spec => []AnsweredOnce
  OBVIOUS
<1>1. IInv => AnsweredOnce
  <2>1. SUFFICES ASSUME IInv, Caught, NEW o \in Byte
                 PROVE  Count(asked, o) = Count(answers, o) + Owed(o)
    <3>1. IInv => \A i \in 1..Len(asked) : asked[i][2] \in Byte
      <4>1. SUFFICES ASSUME IInv, NEW i \in 1..Len(asked) PROVE asked[i][2] \in Byte
        OBVIOUS
      <4>2. asked \in Seq(Verbs \X Byte)
        BY <4>1 DEF IInv, TypeOK
      <4>3. asked[i] \in Verbs \X Byte
        BY <4>2, ElementOfSeq
      <4> QED
        BY <4>3
    <3> QED
      BY <3>1 DEF AnsweredOnce
  <2>2. PICK m, c, r, t, P, Q : Inv(m, c, r, t, P, Q)
    BY <2>1 DEF IInv
  <2>3. m = r /\ m[1] = t
    BY <2>1, <2>2, CaughtUp
  <2>4. CASE o \in AllVersions
    BY <2>2, <2>3, <2>4 DEF Inv, SentIs, AnsweredIs
  <2>5. CASE o \notin AllVersions
    <3>1. o \in Options
      BY <2>5 DEF Options
    <3>2. Count(asked, o) = Count(answers, o)
      BY <2>2, <2>3, <3>1 DEF Inv, SentIs, AnsweredIs
    <3>3. Owed(o) = 0
      BY <2>5 DEF Owed, AllVersions
    <3>4. Count(answers, o) \in Nat
      BY <2>1, CountLemma DEF IInv, TypeOK
    <3> QED
      BY <3>2, <3>3, <3>4
  <2> QED
    BY <2>4, <2>5
<1> QED
  BY <1>1, Inductive, PTL

\* What has been shown is the beginning of what was sent.
ShownIs ==
    /\ Len(shown) \in Nat /\ Len(sent) \in Nat /\ Len(shown) <= Len(sent)
    /\ shown = SubSeq(sent, 1, Len(shown))

LEMMA ShownBegins == ASSUME IInv PROVE ShownIs
<1>1. /\ shown \in Seq(Byte) /\ last_line \in Seq(Byte) /\ text \in Seq(Byte)
      /\ sent \in Seq(Byte)
  BY DEF IInv, TypeOK
<1>2. PICK d : d \in Text /\ sent = ((shown \o last_line) \o text) \o d
  BY ReadBegins DEF Begins
<1>3. PICK u : u = (last_line \o text) \o d
  OBVIOUS
<1>4. d \in Seq(Byte)
  BY <1>2 DEF Text
<1>5. last_line \o text \in Seq(Byte) /\ u \in Seq(Byte)
  <2>1. last_line \o text \in Seq(Byte)
    BY <1>1, ConcatProperties
  <2> QED
    BY <2>1, <1>3, <1>4, ConcatProperties
<1>6. sent = shown \o u
  <2>1. (shown \o last_line) \o text = shown \o (last_line \o text)
    BY <1>1, Regroup, SMTT(30)
  <2>2. PICK w : w = last_line \o text
    OBVIOUS
  <2>3. shown \in Seq(Byte) /\ w \in Seq(Byte) /\ d \in Seq(Byte)
    BY <2>2, <1>1, <1>4, <1>5
  <2>4. (shown \o w) \o d = shown \o (w \o d)
    BY <2>3, Regroup
  <2> QED
    BY <2>1, <2>2, <2>4, <1>2, <1>3
<1>7. SubSeq(shown \o u, 1, Len(shown)) = shown /\ Len(shown \o u) = Len(shown) + Len(u)
  <2>1. Len(shown) \in 0..Len(shown)
    BY <1>1, LenProperties
  <2> QED
    BY <2>1, <1>1, <1>5, JoinLemma
<1>8. Len(shown) \in Nat /\ Len(u) \in Nat
  BY <1>1, <1>5, LenProperties
<1>9. Len(shown) <= Len(sent) /\ Len(sent) \in Nat
  BY <1>6, <1>7, <1>8
<1> QED
  BY <1>6, <1>7, <1>8, <1>9 DEF ShownIs

\* Every step of the program is a step of Stream, or none.
LEMMA StepsOfStream ==
    ASSUME IInv, ShownIs, ShownIs', [Next]_vars
    PROVE  [S!Next]_<<sent, shown>>
<1>1. CASE UNCHANGED sent
  <2>1. PICK d \in Seq(Byte) : shown' = shown \o d
    <3>1. shown \in Seq(Byte) /\ <<>> \in Seq(Byte)
      BY EmptySeq DEF IInv, TypeOK
    <3>2. CASE UNCHANGED shown
      <4>1. shown' = shown \o <<>>
        BY <3>1, <3>2, ConcatEmptySeq
      <4> QED
        BY <3>1, <4>1
    <3>3. CASE Display
      <4>1. TypeOK /\ (last_line # <<>> => old_more_coming)
        <5>1. PICK m, c, r, t, P, Q : Inv(m, c, r, t, P, Q)
          BY DEF IInv
        <5>2. pc = "lines"
          BY <3>3 DEF Display
        <5> QED
          BY <5>1, <5>2 DEF Inv, ReadIs, IInv
      <4>2. PICK n : Splits_(n)
        BY <3>3, <4>1, DisplaySplits
      <4>3. PICK buf : buf = last_line \o text
        OBVIOUS
      <4>4. buf \in Seq(Byte) /\ n \in 0..Len(buf) /\ shown' = shown \o SubSeq(buf, 1, n)
        BY <4>1, <4>2, <4>3, ConcatProperties DEF Splits_, TypeOK
      <4>5. SubSeq(buf, 1, n) \in Seq(Byte)
        BY <4>4, CutLemma
      <4> QED
        BY <4>4, <4>5
    <3>4. UNCHANGED shown \/ Display
      <4>1. Mud => UNCHANGED shown
        BY DEF Mud, SendText, SendRequest, Offer, StartZip, EndZip, Sends, lines
      <4>2. Read => UNCHANGED shown
        BY DEF Read, Recv
      <4>3. Mccp => UNCHANGED shown
        BY DEF Mccp, ScanPlain, ScanPartial, ScanWill, ScanOn, ScanEnds, Inflate, lines
      <4>4. Parse => UNCHANGED shown
        BY DEF Parse, Get, GetEnds, ParseByte, ParsePartial, ParseRequest, ParseSub,
               ParseOther, ParseEnds, Respond, lines
      <4>5. UNCHANGED vars => UNCHANGED shown
        BY DEF vars, lines
      <4> QED
        BY <4>1, <4>2, <4>3, <4>4, <4>5 DEF Next
    <3> QED
      BY <3>2, <3>3, <3>4
  <2>2. CASE d = <<>>
    <3>1. shown' = shown
      BY <2>1, <2>2, ConcatEmptySeq DEF IInv, TypeOK
    <3> QED
      BY <3>1, <1>1
  <2>3. CASE d # <<>>
    <3>1. Len(shown') = Len(shown) + Len(d) /\ Len(d) \in Nat /\ Len(d) # 0
      <4>1. shown \in Seq(Byte) /\ d \in Seq(Byte)
        BY <2>1 DEF IInv, TypeOK
      <4> QED
        BY <4>1, <2>1, <2>3, ConcatProperties, EmptySeq, LenProperties
    <3>2. Len(shown) \in Nat
      BY DEF ShownIs
    <3>3. shown' = SubSeq(sent, 1, Len(shown')) /\ Len(shown') <= Len(sent) /\ Len(sent) \in Nat
      <4>1. shown' = SubSeq(sent', 1, Len(shown')) /\ Len(shown') <= Len(sent')
            /\ Len(sent') \in Nat
        BY DEF ShownIs
      <4> QED
        BY <4>1, <1>1
    <3>4. Len(shown') \in Len(shown) + 1..Len(sent)
      BY <3>1, <3>2, <3>3
    <3>5. S!Show
      BY <1>1, <3>3, <3>4 DEF S!Show
    <3> QED
      BY <3>5 DEF S!Next
  <2> QED
    BY <2>2, <2>3
<1>2. CASE \E item \in Items : SendText(item)
  <2>1. PICK item \in Items : SendText(item)
    BY <1>2
  <2>2. PICK d : d = Shown(item)
    OBVIOUS
  <2>3. sent' = sent \o d /\ UNCHANGED shown /\ d \in Seq(Byte) /\ sent \in Seq(Byte)
    BY <2>1, <2>2, EncodedLemma DEF SendText, Sends, lines, IInv, TypeOK
  <2>4. CASE d = <<>>
    BY <2>3, <2>4, ConcatEmptySeq
  <2>5. CASE d # <<>>
    <3>1. /\ Len(sent \o d) = Len(sent) + Len(d) /\ Len(d) \in Nat /\ Len(sent) \in Nat
          /\ Len(d) # 0
      BY <2>3, <2>5, ConcatProperties, EmptySeq, LenProperties
    <3>2. SubSeq(sent \o d, 1, Len(sent)) = sent
      <4>1. Len(sent) \in 0..Len(sent)
        BY <3>1
      <4> QED
        BY <4>1, <2>3, JoinLemma
    <3>3. Len(d) \in 1..Len(sent') /\ Len(sent') - Len(d) = Len(sent)
      BY <2>3, <3>1
    <3>4. sent = SubSeq(sent', 1, Len(sent') - Len(d))
      BY <2>3, <3>2, <3>3
    <3>5. S!Write
      BY <2>3, <3>3, <3>4 DEF S!Write
    <3> QED
      BY <3>5 DEF S!Next
  <2> QED
    BY <2>4, <2>5
<1>3. UNCHANGED sent \/ \E item \in Items : SendText(item)
  <2>1. Mud => UNCHANGED sent \/ \E item \in Items : SendText(item)
    BY DEF Mud, SendRequest, Offer, StartZip, EndZip
  <2>2. Read => UNCHANGED sent
    BY DEF Read, Recv
  <2>3. Mccp => UNCHANGED sent
    BY DEF Mccp, ScanPlain, ScanPartial, ScanWill, ScanOn, ScanEnds, Inflate, mud
  <2>4. Parse => UNCHANGED sent
    BY DEF Parse, Get, GetEnds, ParseByte, ParsePartial, ParseRequest, ParseSub,
           ParseOther, ParseEnds, Respond, mud
  <2>5. Display => UNCHANGED sent
    BY DEF Display, mud
  <2>6. UNCHANGED vars => UNCHANGED sent
    BY DEF vars, mud
  <2> QED
    BY <2>1, <2>2, <2>3, <2>4, <2>5, <2>6 DEF Next
<1> QED
  BY <1>1, <1>2, <1>3

\* With whole reads, what is shown is what the mud sent, in its order, nothing twice
\* and nothing left out: decompressor, parser and line layer together implement Stream.
THEOREM StreamImplemented == WholeReads => (Spec => ImplementsStream)
<1> SUFFICES ASSUME WholeReads PROVE Spec => ImplementsStream
  OBVIOUS
<1>1. Init => S!Init
  BY DEF Init, S!Init
<1>2. IInv => ShownIs
  BY ShownBegins
<1>3. IInv /\ ShownIs /\ ShownIs' /\ [Next]_vars => [S!Next]_<<sent, shown>>
  BY StepsOfStream
<1> QED
  BY <1>1, <1>2, <1>3, Inductive, PTL DEF Spec, ImplementsStream, S!Spec

-----------------------------------------------------------------------------
(* However the reads cut the stream: how often a byte is there.              *)

Occ(s, b) == Cardinality({i \in 1..Len(s) : s[i] = b})

LEMMA OccTypes ==
    /\ \A s \in Seq(Byte) : \A b : Occ(s, b) \in Nat
    /\ \A b : Occ(<<>>, b) = 0
    /\ \A s \in Seq(Byte) : \A b : \A i \in 1..Len(s) : s[i] = b => Occ(s, b) >= 1
    /\ \A s \in Seq(Byte) : \A b : \A i, j \in 1..Len(s) :
         s[i] = b /\ s[j] = b /\ i # j => Occ(s, b) >= 2
    /\ \A s \in Seq(Byte) : \A b : (\A i \in 1..Len(s) : s[i] # b) => Occ(s, b) = 0
<1>1. ASSUME NEW s \in Seq(Byte), NEW b
      PROVE  /\ Occ(s, b) \in Nat
             /\ \A i \in 1..Len(s) : s[i] = b => Occ(s, b) >= 1
             /\ \A i, j \in 1..Len(s) : s[i] = b /\ s[j] = b /\ i # j => Occ(s, b) >= 2
             /\ (\A i \in 1..Len(s) : s[i] # b) => Occ(s, b) = 0
  <2> DEFINE T == {i \in 1..Len(s) : s[i] = b}
  <2>1. IsFiniteSet(T)
    <3>1. IsFiniteSet(1..Len(s))
      BY LenProperties, FS_Interval
    <3>2. T \in SUBSET (1..Len(s))
      OBVIOUS
    <3> HIDE DEF T
    <3> QED
      BY <3>1, <3>2, FS_Subset
  <2>2. Occ(s, b) = Cardinality(T)
    BY DEF Occ
  <2>3. Cardinality(T) \in Nat
    BY <2>1, FS_CardinalityType
  <2>4. ASSUME NEW i \in 1..Len(s), s[i] = b PROVE Occ(s, b) >= 1
    <3>1. T # {}
      BY <2>4
    <3>2. Cardinality(T) # 0
      BY <2>1, <3>1, FS_EmptySet
    <3> QED
      BY <2>2, <2>3, <3>2
  <2>5. ASSUME NEW i \in 1..Len(s), NEW j \in 1..Len(s), s[i] = b, s[j] = b, i # j
        PROVE  Occ(s, b) >= 2
    <3>1. {i} \cup {j} \in SUBSET T
      BY <2>5
    <3>2. IsFiniteSet({i}) /\ Cardinality({i}) = 1
      BY FS_Singleton
    <3>3. Cardinality({i} \cup {j}) = 2
      <4>1. PICK V : V = {i}
        OBVIOUS
      <4>2. IsFiniteSet(V) /\ Cardinality(V) = 1 /\ j \notin V
        BY <3>2, <4>1, <2>5
      <4>3. Cardinality(V \cup {j}) = Cardinality(V) + 1
        BY <4>2, FS_AddElement
      <4> QED
        BY <4>1, <4>2, <4>3, SMTT(30)
    <3> HIDE DEF T
    <3>4. Cardinality({i} \cup {j}) <= Cardinality(T)
      BY <3>1, <2>1, FS_Subset
    <3> QED
      BY <3>3, <3>4, <2>2, <2>3
  <2>6. ASSUME \A i \in 1..Len(s) : s[i] # b PROVE Occ(s, b) = 0
    <3>1. T = {}
      BY <2>6
    <3> QED
      BY <3>1, <2>2, FS_EmptySet
  <2> HIDE DEF T
  <2> QED
    BY <2>2, <2>3, <2>4, <2>5, <2>6
<1>2. ASSUME NEW b PROVE Occ(<<>>, b) = 0
  <2>1. {i \in 1..Len(<<>>) : <<>>[i] = b} = {}
    BY Len(<<>>) = 0
  <2> QED
    BY <2>1, FS_EmptySet DEF Occ
<1> QED
  BY <1>1, <1>2

\* Two rows hold what each of them holds.
LEMMA OccConcat ==
    \A s \in Seq(Byte), t \in Seq(Byte) : \A b : Occ(s \o t, b) = Occ(s, b) + Occ(t, b)
<1>1. ASSUME NEW s \in Seq(Byte), NEW t \in Seq(Byte), NEW b
      PROVE  Occ(s \o t, b) = Occ(s, b) + Occ(t, b)
  <2> DEFINE A == {i \in 1..Len(s) : s[i] = b}
             T == {j \in 1..Len(t) : t[j] = b}
             B == {i \in Len(s) + 1..Len(s) + Len(t) : t[i - Len(s)] = b}
             f == [j \in T |-> Len(s) + j]
  <2>1. Len(s) \in Nat /\ Len(t) \in Nat
    BY LenProperties
  <2>2. /\ Len(s \o t) = Len(s) + Len(t)
        /\ \A i \in 1..Len(s) + Len(t) :
             (s \o t)[i] = IF i <= Len(s) THEN s[i] ELSE t[i - Len(s)]
    BY ConcatProperties
  <2>3. {i \in 1..Len(s \o t) : (s \o t)[i] = b} = A \cup B
    <3>1. \A i \in 1..Len(s) + Len(t) :
            IF i <= Len(s) THEN i \in 1..Len(s) ELSE i \in Len(s) + 1..Len(s) + Len(t)
      BY <2>1
    <3>2. \A i \in 1..Len(s) : i \in 1..Len(s) + Len(t) /\ i <= Len(s)
      BY <2>1
    <3>3. \A i \in Len(s) + 1..Len(s) + Len(t) : i \in 1..Len(s) + Len(t) /\ ~(i <= Len(s))
      BY <2>1
    <3>4. ASSUME NEW i \in 1..Len(s) + Len(t), (s \o t)[i] = b PROVE i \in A \cup B
      BY <3>1, <3>4, <2>2
    <3>5. ASSUME NEW i \in A PROVE i \in 1..Len(s) + Len(t) /\ (s \o t)[i] = b
      BY <3>2, <2>2
    <3>6. ASSUME NEW i \in B PROVE i \in 1..Len(s) + Len(t) /\ (s \o t)[i] = b
      BY <3>3, <2>2
    <3> HIDE DEF A, B
    <3> QED
      BY <3>4, <3>5, <3>6, <2>2
  <2>4. A \cap B = {}
    <3>1. \A i \in 1..Len(s) : i \notin Len(s) + 1..Len(s) + Len(t)
      BY <2>1
    <3> QED
      BY <3>1
  <2>5. IsFiniteSet(A) /\ IsFiniteSet(T)
    <3>1. IsFiniteSet(1..Len(s)) /\ IsFiniteSet(1..Len(t))
      BY <2>1, FS_Interval
    <3>2. A \in SUBSET (1..Len(s)) /\ T \in SUBSET (1..Len(t))
      OBVIOUS
    <3> HIDE DEF A, T
    <3> QED
      BY <3>1, <3>2, FS_Subset
  <2>6. f \in Surjection(T, B) /\ f \in Injection(T, B)
    <3>1. ASSUME NEW j \in T PROVE Len(s) + j \in B
      <4>1. Len(s) + j \in Len(s) + 1..Len(s) + Len(t) /\ (Len(s) + j) - Len(s) = j
        BY <2>1
      <4> QED
        BY <4>1
    <3>2. ASSUME NEW i \in B PROVE \E j \in T : Len(s) + j = i
      <4>1. i - Len(s) \in 1..Len(t) /\ Len(s) + (i - Len(s)) = i
        BY <2>1
      <4> QED
        BY <4>1
    <3>3. \A j \in T : j \in Int
      BY <2>1
    <3>4. ASSUME NEW j \in T, NEW k \in T, Len(s) + j = Len(s) + k PROVE j = k
      BY <2>1, <3>3, <3>4
    <3> HIDE DEF T, B
    <3>5. f \in [T -> B]
      BY <3>1
    <3>6. \A i \in B : \E j \in T : f[j] = i
      BY <3>2
    <3>7. \A j, k \in T : f[j] = f[k] => j = k
      BY <3>4
    <3> HIDE DEF f
    <3> QED
      BY <3>5, <3>6, <3>7 DEF Surjection, Injection, IsInjective
  <2> HIDE DEF f
  <2>7. IsFiniteSet(B) /\ Cardinality(B) = Cardinality(T)
    <3> HIDE DEF T, B
    <3> QED
      BY <2>5, <2>6, FS_Surjection
  <2>8. Cardinality(A \cup B) = Cardinality(A) + Cardinality(B)
    <3>1. Cardinality(A \cup B) = Cardinality(A) + Cardinality(B) - Cardinality(A \cap B)
      <4> HIDE DEF A, B
      <4> QED
        BY <2>5, <2>7, FS_Union
    <3>2. Cardinality({}) = 0
      BY FS_EmptySet
    <3>3. Cardinality(A) \in Nat /\ Cardinality(B) \in Nat
      BY <2>5, <2>7, FS_CardinalityType
    <3>4. Cardinality(A \cap B) = 0
      BY <3>2, <2>4
    <3> HIDE DEF A, B
    <3> QED
      BY <3>1, <3>3, <3>4
  <2>9. Occ(s \o t, b) = Cardinality(A \cup B)
    BY <2>3 DEF Occ
  <2>10. Occ(s, b) = Cardinality(A) /\ Occ(t, b) = Cardinality(T)
    BY DEF Occ
  <2> HIDE DEF A, B, T
  <2> QED
    BY <2>7, <2>8, <2>9, <2>10
<1> QED
  BY <1>1

\* A row holds what its two parts hold.
LEMMA OccParts ==
    \A s \in Seq(Byte) : \A b : \A n \in 0..Len(s) :
      /\ Occ(s, b) = Occ(SubSeq(s, 1, n), b) + Occ(After(s, n), b)
      /\ Occ(SubSeq(s, 1, n), b) \in Nat /\ Occ(After(s, n), b) \in Nat
<1>1. ASSUME NEW s \in Seq(Byte), NEW b, NEW n \in 0..Len(s)
      PROVE  /\ Occ(s, b) = Occ(SubSeq(s, 1, n), b) + Occ(After(s, n), b)
             /\ Occ(SubSeq(s, 1, n), b) \in Nat /\ Occ(After(s, n), b) \in Nat
  <2>1. PICK u, v : u = SubSeq(s, 1, n) /\ v = After(s, n)
    OBVIOUS
  <2>2. u \in Seq(Byte) /\ v \in Seq(Byte) /\ s = u \o v
    BY <2>1, CutLemma DEF After
  <2>3. Occ(u \o v, b) = Occ(u, b) + Occ(v, b) /\ Occ(u, b) \in Nat /\ Occ(v, b) \in Nat
    BY <2>2, OccConcat, OccTypes
  <2> QED
    BY <2>1, <2>2, <2>3
<1> QED
  BY <1>1

LEMMA OccAppend ==
    \A s \in Seq(Byte), x \in Byte : \A b :
      Occ(Append(s, x), b) = Occ(s, b) + (IF x = b THEN 1 ELSE 0)
<1>1. ASSUME NEW x \in Byte, NEW b PROVE Occ(<<x>>, b) = IF x = b THEN 1 ELSE 0
  <2>1. CASE x = b
    <3>1. {i \in 1..Len(<<x>>) : <<x>>[i] = b} = {1}
      BY <2>1
    <3> QED
      BY <2>1, <3>1, FS_Singleton DEF Occ
  <2>2. CASE x # b
    <3>1. {i \in 1..Len(<<x>>) : <<x>>[i] = b} = {}
      BY <2>2
    <3> QED
      BY <2>2, <3>1, FS_EmptySet DEF Occ
  <2> QED
    BY <2>1, <2>2
<1>2. ASSUME NEW s \in Seq(Byte), NEW x \in Byte, NEW b
      PROVE  Occ(Append(s, x), b) = Occ(s, b) + (IF x = b THEN 1 ELSE 0)
  <2>1. PICK u : u = <<x>>
    OBVIOUS
  <2>2. u \in Seq(Byte) /\ Append(s, x) = s \o u
    BY <2>1, AppendIsConcat
  <2>3. Occ(s \o u, b) = Occ(s, b) + Occ(u, b)
    BY <2>2, OccConcat
  <2> QED
    BY <2>1, <2>2, <2>3, <1>1
<1> QED
  BY <1>2

\* The runs in which no compression is offered, every letter is another one, and
\* the options of the requests are bytes that nothing else is written with.
Letters == 97..97 + 25
OtherBytes(item) ==
    CASE item = "newline" -> {NL}
      [] item = "nul"     -> {0}
      [] item = "literal" -> {IAC}
      [] item = "goahead" -> {IAC, GA}
      [] item = "ttype"   -> {IAC, SB, TERMINAL_TYPE, SEND, SE}
      [] OTHER            -> {}
ToldApart ==
    /\ Versions = {} /\ MaxItems <= 26
    /\ \A r \in Requests : /\ r[2] \notin Letters \cup Verbs \cup {IAC}
                           /\ \A item \in Items : r[2] \notin OtherBytes(item)

\* The bytes that count: no other byte is a letter, an option or a version of MCCP.
Kept == Letters \cup AllVersions \cup {r[2] : r \in Requests}

\* How often a byte is anywhere between the mud and the player, and how often the
\* mud has sent it.
Held(b) ==
    Occ(shown, b) + Occ(last_line, b) + Occ(text, b) + Occ(rest, b) + Occ(telnet_buf, b)
      + Occ(outbuf, b) + Occ(inbuf, b) + Occ(Bytes(wire), b) + Count(answers, b)
Due(b) ==
    IF b \in Letters THEN IF b - 97 < items THEN 1 ELSE 0
    ELSE IF b \in AllVersions THEN 0 ELSE Count(asked, b)

PlainOnly ==
    /\ zip = "plain" /\ ~stream /\ pc # "inflate" /\ resp_v1 = 0 /\ ~resp_v2
    /\ \A i \in 1..Len(asked) : asked[i] \in Requests
NoneTwice == \A b \in Kept : Held(b) <= Due(b)
KInv == TypeOK /\ at # 0 /\ PlainOnly /\ NoneTwice

LEMMA KeptLemma ==
    ASSUME ToldApart
    PROVE  /\ Kept \subseteq Byte
           /\ \A b \in Kept : b # IAC /\ b \notin Verbs
           /\ \A b \in Kept : b \notin Letters => \A item \in Items : b \notin OtherBytes(item)
           /\ \A r \in Requests : r[2] \in Kept /\ r[2] \notin Letters /\ r[2] \notin AllVersions
<1>1. Letters \subseteq Byte /\ AllVersions \subseteq Byte /\ 0..255 \subseteq Byte
  BY DEF Letters, AllVersions, Byte, Z_END, ZIP, COMPRESS, COMPRESS2
<1>2. \A r \in Requests : r[2] \in 0..255 /\ r[2] # COMPRESS /\ r[2] # COMPRESS2
  BY ConstantFacts
<1>3. \A b \in Letters : b # IAC /\ b \notin Verbs
  BY DEF Letters, IAC, Verbs, WILL, WONT, DO, DONT
<1>4. \A b \in AllVersions : b # IAC /\ b \notin Verbs
  BY DEF AllVersions, COMPRESS, COMPRESS2, IAC, Verbs, WILL, WONT, DO, DONT
<1>5. ASSUME NEW b \in AllVersions, NEW item \in Items PROVE b \notin OtherBytes(item)
  <2>1. b \notin {NL} /\ b \notin {0} /\ b \notin {IAC} /\ b \notin {IAC, GA}
        /\ b \notin {IAC, SB, TERMINAL_TYPE, SEND, SE} /\ b \notin {}
    BY DEF AllVersions, COMPRESS, COMPRESS2, NL, IAC, GA, SB, TERMINAL_TYPE, SEND, SE
  <2> QED
    BY <2>1 DEF OtherBytes
<1>6. \A r \in Requests : /\ r[2] \notin Letters /\ r[2] \notin Verbs /\ r[2] # IAC
                          /\ \A item \in Items : r[2] \notin OtherBytes(item)
  BY DEF ToldApart
<1>7. Kept \subseteq Byte
  BY <1>1, <1>2 DEF Kept
<1>8. \A b \in Kept : b # IAC /\ b \notin Verbs
  BY <1>3, <1>4, <1>6 DEF Kept
<1>9. \A b \in Kept : b \notin Letters => \A item \in Items : b \notin OtherBytes(item)
  BY <1>5, <1>6 DEF Kept
<1>10. \A r \in Requests : r[2] \in Kept /\ r[2] \notin Letters /\ r[2] \notin AllVersions
  BY <1>2, <1>6 DEF Kept, AllVersions
<1> QED
  BY <1>7, <1>8, <1>9, <1>10

\* The sum, before a step and behind it.
LEMMA HeldTypes ==
    ASSUME TypeOK
    PROVE  \A b : /\ Occ(shown, b) \in Nat /\ Occ(last_line, b) \in Nat /\ Occ(text, b) \in Nat
                  /\ Occ(rest, b) \in Nat /\ Occ(telnet_buf, b) \in Nat
                  /\ Occ(outbuf, b) \in Nat /\ Occ(inbuf, b) \in Nat
                  /\ Occ(Bytes(wire), b) \in Nat /\ Count(answers, b) \in Nat
<1>1. /\ shown \in Seq(Byte) /\ last_line \in Seq(Byte) /\ text \in Seq(Byte)
      /\ rest \in Seq(Byte) /\ telnet_buf \in Seq(Byte) /\ outbuf \in Seq(Byte)
      /\ inbuf \in Seq(Byte) /\ answers \in Seq((Verbs \cup {SB}) \X Byte)
  BY DEF TypeOK
<1>2. Bytes(wire) \in Seq(Byte)
  BY BytesLemma DEF TypeOK, WireByte
<1> QED
  BY <1>1, <1>2, OccTypes, CountLemma

LEMMA HeldPrimes ==
    \A b : Held(b)' = Occ(shown', b) + Occ(last_line', b) + Occ(text', b) + Occ(rest', b)
                        + Occ(telnet_buf', b) + Occ(outbuf', b) + Occ(inbuf', b)
                        + Occ(Bytes(wire'), b) + Count(answers', b)
BY DEF Held, Occ, Count, Bytes

\* A step that hands no byte on twice.
Less(b) ==
    Occ(shown', b) + Occ(last_line', b) + Occ(text', b) + Occ(rest', b)
      + Occ(telnet_buf', b) + Occ(outbuf', b) + Occ(inbuf', b)
      + Occ(Bytes(wire'), b) + Count(answers', b)
    <= Occ(shown, b) + Occ(last_line, b) + Occ(text, b) + Occ(rest, b) + Occ(telnet_buf, b)
      + Occ(outbuf, b) + Occ(inbuf, b) + Occ(Bytes(wire), b) + Count(answers, b)

LEMMA LessKeeps ==
    ASSUME TypeOK, TypeOK', ToldApart, NoneTwice, \A b \in Kept : Less(b),
           UNCHANGED <<items, asked>>
    PROVE  NoneTwice'
<1>1. ASSUME NEW b \in Kept PROVE Held(b)' <= Due(b)'
  <2>1. Due(b)' = Due(b)
    BY DEF Due, Count
  <2>2. Held(b)' <= Held(b)
    BY HeldPrimes DEF Less, Held
  <2>3. Held(b) <= Due(b)
    BY DEF NoneTwice
  <2>4. Held(b) \in Int
    BY HeldTypes DEF Held
  <2>5. Held(b)' \in Int
    <3>1. /\ Occ(shown', b) \in Nat /\ Occ(last_line', b) \in Nat /\ Occ(text', b) \in Nat
          /\ Occ(rest', b) \in Nat /\ Occ(telnet_buf', b) \in Nat
          /\ Occ(outbuf', b) \in Nat /\ Occ(inbuf', b) \in Nat
          /\ Occ(Bytes(wire'), b) \in Nat /\ Count(answers', b) \in Nat
      <4>1. /\ shown' \in Seq(Byte) /\ last_line' \in Seq(Byte) /\ text' \in Seq(Byte)
            /\ rest' \in Seq(Byte) /\ telnet_buf' \in Seq(Byte) /\ outbuf' \in Seq(Byte)
            /\ inbuf' \in Seq(Byte) /\ answers' \in Seq((Verbs \cup {SB}) \X Byte)
        BY DEF TypeOK
      <4>2. Bytes(wire') \in Seq(Byte)
        BY BytesLemma DEF TypeOK, WireByte
      <4> QED
        BY <4>1, <4>2, OccTypes, CountLemma
    <3> QED
      BY <3>1, HeldPrimes
  <2>6. Due(b) \in Int
    <3>1. asked \in Seq((Verbs \cup {SB}) \X Byte)
      BY AskedCounts DEF TypeOK, Asked
    <3> QED
      BY <3>1, CountLemma DEF Due
  <2> QED
    BY <2>1, <2>2, <2>3, <2>4, <2>5, <2>6
<1> QED
  BY <1>1 DEF NoneTwice

\* What a step changes, it changes in a few rows.
Rows(b) == Occ(text, b) + Occ(rest, b) + Occ(telnet_buf, b) + Occ(outbuf, b) + Occ(inbuf, b)

LEMMA LessRows ==
    ASSUME TypeOK, NEW b, UNCHANGED <<shown, last_line, wire>>,
           NEW n \in Nat, Count(answers', b) = Count(answers, b) + n,
           Occ(text', b) + Occ(rest', b) + Occ(telnet_buf', b) + Occ(outbuf', b)
             + Occ(inbuf', b) + n <= Rows(b),
           TypeOK'
    PROVE  Less(b)
<1>1. /\ Occ(shown', b) = Occ(shown, b) /\ Occ(last_line', b) = Occ(last_line, b)
      /\ Occ(Bytes(wire'), b) = Occ(Bytes(wire), b)
  OBVIOUS
<1>2. /\ Occ(shown, b) \in Nat /\ Occ(last_line, b) \in Nat /\ Occ(text, b) \in Nat
      /\ Occ(rest, b) \in Nat /\ Occ(telnet_buf, b) \in Nat
      /\ Occ(outbuf, b) \in Nat /\ Occ(inbuf, b) \in Nat
      /\ Occ(Bytes(wire), b) \in Nat /\ Count(answers, b) \in Nat
  BY HeldTypes
<1>3. /\ Occ(text', b) \in Nat /\ Occ(rest', b) \in Nat /\ Occ(telnet_buf', b) \in Nat
      /\ Occ(outbuf', b) \in Nat /\ Occ(inbuf', b) \in Nat
  <2>1. /\ text' \in Seq(Byte) /\ rest' \in Seq(Byte) /\ telnet_buf' \in Seq(Byte)
        /\ outbuf' \in Seq(Byte) /\ inbuf' \in Seq(Byte)
    BY DEF TypeOK
  <2> QED
    BY <2>1, OccTypes
<1> QED
  BY <1>1, <1>2, <1>3 DEF Less, Rows

\* The parser hands on what it takes.
LEMMA BeginsRest ==
    ASSUME TypeOK, NEW n \in Nat, n <= Len(rest)
    PROVE  \A b : /\ Occ(SubSeq(rest, n + 1, Len(rest)), b) \in Nat /\ Occ(rest, b) \in Nat
                  /\ Occ(SubSeq(rest, n + 1, Len(rest)), b) <= Occ(rest, b)
                  /\ \A i \in 1..n : rest[i] = b =>
                       Occ(SubSeq(rest, n + 1, Len(rest)), b) + 1 <= Occ(rest, b)
<1>1. rest \in Seq(Byte) /\ Len(rest) \in Nat /\ n \in 0..Len(rest)
  BY LenProperties DEF TypeOK
<1>2. ASSUME NEW b
      PROVE  /\ Occ(rest, b) = Occ(SubSeq(rest, 1, n), b) + Occ(After(rest, n), b)
             /\ Occ(SubSeq(rest, 1, n), b) \in Nat /\ Occ(After(rest, n), b) \in Nat
             /\ \A i \in 1..n : rest[i] = b => Occ(SubSeq(rest, 1, n), b) >= 1
  <2>1. PICK u : u = SubSeq(rest, 1, n)
    OBVIOUS
  <2>2. u \in Seq(Byte) /\ Len(u) = n /\ \A i \in 1..n : u[i] = rest[i]
    BY <1>1, <2>1, CutLemma
  <2>3. \A i \in 1..n : rest[i] = b => Occ(u, b) >= 1
    BY <2>2, OccTypes
  <2>4. /\ Occ(rest, b) = Occ(SubSeq(rest, 1, n), b) + Occ(After(rest, n), b)
        /\ Occ(SubSeq(rest, 1, n), b) \in Nat /\ Occ(After(rest, n), b) \in Nat
    BY <1>1, OccParts
  <2> QED
    BY <2>1, <2>3, <2>4
<1>3. ASSUME NEW b
      PROVE  /\ Occ(After(rest, n), b) \in Nat /\ Occ(rest, b) \in Nat
             /\ Occ(After(rest, n), b) <= Occ(rest, b)
             /\ \A i \in 1..n : rest[i] = b => Occ(After(rest, n), b) + 1 <= Occ(rest, b)
  BY <1>2
<1> QED
  BY <1>3 DEF After

\* What the parser does not touch.
LEMMA ParseLess ==
    ASSUME TypeOK, TypeOK', NEW b, ParseStep, NEW n \in Nat,
           Count(answers', b) = Count(answers, b) + n,
           Occ(text', b) + Occ(rest', b) + Occ(telnet_buf', b) + n
             <= Occ(text, b) + Occ(rest, b) + Occ(telnet_buf, b)
    PROVE  Less(b)
<1>1. UNCHANGED <<shown, last_line, wire, outbuf, inbuf>>
  BY ParseFrame DEF mud, lines, mccp
<1>2. Occ(outbuf', b) = Occ(outbuf, b) /\ Occ(inbuf', b) = Occ(inbuf, b)
  BY <1>1
<1>3. /\ Occ(text, b) \in Nat /\ Occ(rest, b) \in Nat /\ Occ(telnet_buf, b) \in Nat
      /\ Occ(outbuf, b) \in Nat /\ Occ(inbuf, b) \in Nat
  BY HeldTypes
<1>4. /\ Occ(text', b) \in Nat /\ Occ(rest', b) \in Nat /\ Occ(telnet_buf', b) \in Nat
  <2>1. text' \in Seq(Byte) /\ rest' \in Seq(Byte) /\ telnet_buf' \in Seq(Byte)
    BY DEF TypeOK
  <2> QED
    BY <2>1, OccTypes
<1>5. Occ(text', b) + Occ(rest', b) + Occ(telnet_buf', b) + Occ(outbuf', b)
        + Occ(inbuf', b) + n <= Rows(b)
  BY <1>2, <1>3, <1>4 DEF Rows
<1> QED
  BY <1>1, <1>5, LessRows

LEMMA ByteLess ==
    ASSUME TypeOK, TypeOK', ParseByte
    PROVE  \A b : Less(b)
<1>1. /\ rest # <<>> /\ rest' = Tail(rest) /\ UNCHANGED <<answers, telnet_buf>>
      /\ text' = text \/ text' = Append(text, Head(rest))
  BY DEF ParseByte
<1>2. /\ rest \in Seq(Byte) /\ Head(rest) \in Byte /\ text \in Seq(Byte) /\ Len(rest) \in Nat
      /\ Len(rest) # 0 /\ Head(rest) = rest[1] /\ Tail(rest) = SubSeq(rest, 2, Len(rest))
  BY <1>1, HeadTailProperties, EmptySeq, LenProperties DEF TypeOK
<1>3. ASSUME NEW b PROVE Less(b)
  <2>1. /\ Occ(rest', b) \in Nat /\ Occ(rest, b) \in Nat /\ Occ(rest', b) <= Occ(rest, b)
        /\ rest[1] = b => Occ(rest', b) + 1 <= Occ(rest, b)
    <3>1. 1 \in Nat /\ 1 <= Len(rest) /\ 1 + 1 = 2 /\ 1 \in 1..1
      BY <1>2
    <3>2. rest' = SubSeq(rest, 1 + 1, Len(rest))
      BY <3>1, <1>1, <1>2
    <3> QED
      BY <3>1, <3>2, BeginsRest
  <2>2. Occ(text', b) = Occ(text, b)
          \/ (rest[1] = b /\ Occ(text', b) = Occ(text, b) + 1)
    <3>1. \A x \in Byte : Occ(Append(text, x), b) = Occ(text, b) + (IF x = b THEN 1 ELSE 0)
      BY <1>2, OccAppend
    <3>2. CASE text' = text
      BY <3>2
    <3>3. CASE text' = Append(text, Head(rest))
      <4>1. Occ(text', b) = Occ(text, b) + (IF Head(rest) = b THEN 1 ELSE 0)
        BY <3>1, <3>3, <1>2
      <4>2. Occ(text, b) \in Nat
        BY HeldTypes
      <4> QED
        BY <4>1, <4>2, <1>2
    <3> QED
      BY <3>2, <3>3, <1>1
  <2>3. Occ(telnet_buf', b) = Occ(telnet_buf, b) /\ Count(answers', b) = Count(answers, b) + 0
    <3>1. Count(answers, b) \in Nat
      BY HeldTypes
    <3> QED
      BY <3>1, <1>1
  <2>4. Occ(text, b) \in Nat /\ Occ(telnet_buf, b) \in Nat
    BY HeldTypes
  <2>5. Occ(text', b) + Occ(rest', b) + Occ(telnet_buf', b) + 0
          <= Occ(text, b) + Occ(rest, b) + Occ(telnet_buf, b)
    BY <2>1, <2>2, <2>3, <2>4
  <2>6. ParseStep
    BY DEF ParseStep
  <2> QED
    BY <2>3, <2>5, <2>6, ParseLess
<1> QED
  BY <1>3

LEMMA PartialLess ==
    ASSUME TypeOK, TypeOK', ParsePartial
    PROVE  \A b : Less(b)
<1>1. rest' = <<>> /\ telnet_buf' = telnet_buf \o rest /\ UNCHANGED <<answers, text>>
  BY DEF ParsePartial
<1>2. rest \in Seq(Byte) /\ telnet_buf \in Seq(Byte)
  BY DEF TypeOK
<1>3. ASSUME NEW b PROVE Less(b)
  <2>1. /\ Occ(rest', b) = 0 /\ Occ(text', b) = Occ(text, b)
        /\ Occ(telnet_buf', b) = Occ(telnet_buf, b) + Occ(rest, b)
    BY <1>1, <1>2, OccTypes, OccConcat
  <2>2. /\ Occ(text, b) \in Nat /\ Occ(telnet_buf, b) \in Nat /\ Occ(rest, b) \in Nat
        /\ Count(answers, b) \in Nat
    BY HeldTypes
  <2>3. Count(answers', b) = Count(answers, b) + 0
    BY <2>2, <1>1
  <2>4. Occ(text', b) + Occ(rest', b) + Occ(telnet_buf', b) + 0
          <= Occ(text, b) + Occ(rest, b) + Occ(telnet_buf, b)
    BY <2>1, <2>2
  <2>5. ParseStep
    BY DEF ParseStep
  <2> QED
    BY <2>3, <2>4, <2>5, ParseLess
<1> QED
  BY <1>3

LEMMA RequestLess ==
    ASSUME TypeOK, TypeOK', ParseRequest
    PROVE  \A b : Less(b)
<1>1. /\ rest \in Seq(Byte) /\ Len(rest) \in Nat /\ Len(rest) >= 3 /\ Command \in Verbs
      /\ UNCHANGED <<text, telnet_buf>>
      /\ answers' = Append(answers, <<Answer(Command, rest[3]), rest[3]>>)
      /\ rest' = SubSeq(rest, 4, Len(rest))
  BY LenProperties DEF ParseRequest, Whole, TypeOK
<1>2. /\ rest[3] \in Byte /\ Answer(Command, rest[3]) \in Verbs
      /\ answers \in Seq((Verbs \cup {SB}) \X Byte)
  <2>1. rest[3] \in Byte
    BY <1>1, ElementOfSeq
  <2> QED
    BY <2>1, <1>1, AnswerLemma DEF TypeOK
<1>3. ASSUME NEW b PROVE Less(b)
  <2>1. /\ Occ(rest', b) \in Nat /\ Occ(rest, b) \in Nat /\ Occ(rest', b) <= Occ(rest, b)
        /\ rest[3] = b => Occ(rest', b) + 1 <= Occ(rest, b)
    <3>1. 3 \in Nat /\ 3 <= Len(rest) /\ 3 + 1 = 4 /\ 3 \in 1..3
      BY <1>1
    <3>2. rest' = SubSeq(rest, 3 + 1, Len(rest))
      BY <3>1, <1>1
    <3> QED
      BY <3>1, <3>2, BeginsRest
  <2>2. PICK n : n = IF rest[3] = b THEN 1 ELSE 0
    OBVIOUS
  <2>3. n \in Nat /\ Count(answers', b) = Count(answers, b) + n
    <3>1. \A v \in Verbs, o \in Byte :
            Count(Append(answers, <<v, o>>), b) = Count(answers, b) + (IF o = b THEN 1 ELSE 0)
      BY <1>2, CountLemma
    <3> QED
      BY <3>1, <1>1, <1>2, <2>2
  <2>4. Occ(text, b) \in Nat /\ Occ(telnet_buf, b) \in Nat
    BY HeldTypes
  <2>5. Occ(rest', b) + n <= Occ(rest, b)
    BY <2>1, <2>2
  <2>6. Occ(text', b) + Occ(rest', b) + Occ(telnet_buf', b) + n
          <= Occ(text, b) + Occ(rest, b) + Occ(telnet_buf, b)
    <3>1. Occ(text', b) = Occ(text, b) /\ Occ(telnet_buf', b) = Occ(telnet_buf, b)
      BY <1>1
    <3> QED
      BY <3>1, <2>1, <2>3, <2>4, <2>5
  <2>7. ParseStep
    BY DEF ParseStep
  <2> QED
    BY <2>3, <2>6, <2>7, ParseLess
<1> QED
  BY <1>3

LEMMA SubLess ==
    ASSUME TypeOK, TypeOK', ParseSub
    PROVE  \A b : Less(b)
<1>1. /\ rest \in Seq(Byte) /\ Len(rest) \in Nat /\ UNCHANGED <<text, telnet_buf>>
      /\ answers' = answers \/ answers' = Append(answers, <<SB, TERMINAL_TYPE>>)
      /\ rest' = SubSeq(rest, EndOfSub + 1, Len(rest))
  BY LenProperties DEF ParseSub, TypeOK
<1>2. TERMINAL_TYPE \in Byte /\ answers \in Seq((Verbs \cup {SB}) \X Byte)
  BY DEF TERMINAL_TYPE, Byte, Z_END, ZIP, TypeOK
<1>3. EndOfSub \in Nat /\ EndOfSub <= Len(rest)
  BY <1>1, EndOfSubLemma
<1>4. ASSUME NEW b PROVE Less(b)
  <2>1. Occ(rest', b) \in Nat /\ Occ(rest, b) \in Nat /\ Occ(rest', b) <= Occ(rest, b)
    BY <1>1, <1>3, BeginsRest
  <2>2. Count(answers, b) \in Nat /\ Occ(text, b) \in Nat /\ Occ(telnet_buf, b) \in Nat
    BY HeldTypes
  <2>3. Count(answers', b) = Count(answers, b)
    <3>1. Count(Append(answers, <<SB, TERMINAL_TYPE>>), b) = Count(answers, b)
      BY <1>2, CountLemma
    <3> QED
      BY <3>1, <1>1
  <2>4. Count(answers', b) = Count(answers, b) + 0
    BY <2>2, <2>3
  <2>5. Occ(text', b) + Occ(rest', b) + Occ(telnet_buf', b) + 0
          <= Occ(text, b) + Occ(rest, b) + Occ(telnet_buf, b)
    <3>1. Occ(text', b) = Occ(text, b) /\ Occ(telnet_buf', b) = Occ(telnet_buf, b)
      BY <1>1
    <3> QED
      BY <3>1, <2>1, <2>2
  <2>6. ParseStep
    BY DEF ParseStep
  <2> QED
    BY <2>4, <2>5, <2>6, ParseLess
<1> QED
  BY <1>4

LEMMA OtherLess ==
    ASSUME TypeOK, TypeOK', ParseOther
    PROVE  \A b \in Byte : Less(b)
<1>1. /\ rest \in Seq(Byte) /\ Len(rest) \in Nat /\ Len(rest) >= 2
      /\ UNCHANGED <<answers, telnet_buf>>
      /\ text' = IF rest[2] = IAC THEN Append(text, IAC) ELSE text
      /\ rest' = SubSeq(rest, 3, Len(rest))
  BY LenProperties DEF ParseOther, Whole, TypeOK, Command
<1>2. IAC \in Byte /\ text \in Seq(Byte)
  BY DEF IAC, Byte, Z_END, ZIP, TypeOK
<1>3. ASSUME NEW b PROVE Less(b)
  <2>1. /\ Occ(rest', b) \in Nat /\ Occ(rest, b) \in Nat /\ Occ(rest', b) <= Occ(rest, b)
        /\ rest[2] = b => Occ(rest', b) + 1 <= Occ(rest, b)
    <3>1. 2 \in Nat /\ 2 <= Len(rest) /\ 2 + 1 = 3 /\ 2 \in 1..2
      BY <1>1
    <3>2. rest' = SubSeq(rest, 2 + 1, Len(rest))
      BY <3>1, <1>1
    <3> QED
      BY <3>1, <3>2, BeginsRest
  <2>2. /\ Occ(text, b) \in Nat /\ Occ(telnet_buf, b) \in Nat /\ Count(answers, b) \in Nat
    BY HeldTypes
  <2>3. Occ(text', b) = Occ(text, b)
          \/ (rest[2] = b /\ Occ(text', b) = Occ(text, b) + 1)
    <3>1. Occ(Append(text, IAC), b) = Occ(text, b) + (IF IAC = b THEN 1 ELSE 0)
      BY <1>2, OccAppend
    <3> QED
      BY <3>1, <1>1, <2>2
  <2>4. Occ(telnet_buf', b) = Occ(telnet_buf, b) /\ Count(answers', b) = Count(answers, b) + 0
    BY <1>1, <2>2
  <2>5. Occ(text', b) + Occ(rest', b) + Occ(telnet_buf', b) + 0
          <= Occ(text, b) + Occ(rest, b) + Occ(telnet_buf, b)
    BY <2>1, <2>2, <2>3, <2>4
  <2>6. ParseStep
    BY DEF ParseStep
  <2> QED
    BY <2>4, <2>5, <2>6, ParseLess
<1> QED
  BY <1>3

\* Outside the parser.
LEMMA GetLess ==
    ASSUME TypeOK, TypeOK', Get
    PROVE  \A b : Less(b)
<1>1. UNCHANGED <<shown, last_line, wire, answers, text, inbuf>> /\ rest \in Seq(Byte)
  BY DEF Get, mud, lines, TypeOK
<1>2. ASSUME NEW b PROVE Less(b)
  <2>1. /\ Occ(text, b) \in Nat /\ Occ(rest, b) \in Nat /\ Occ(telnet_buf, b) \in Nat
        /\ Occ(outbuf, b) \in Nat /\ Occ(inbuf, b) \in Nat /\ Count(answers, b) \in Nat
    BY HeldTypes
  <2>2. /\ Count(answers', b) = Count(answers, b) + 0
        /\ Occ(text', b) = Occ(text, b) /\ Occ(inbuf', b) = Occ(inbuf, b)
    BY <1>1, <2>1
  <2>3. /\ rest' = SubSeq(telnet_buf \o outbuf, 1, Len(outbuf))
        /\ telnet_buf' = <<>> /\ outbuf' = <<>>
    BY DEF Get
  <2>4. Occ(rest', b) + Occ(telnet_buf', b) + Occ(outbuf', b)
          <= Occ(rest, b) + Occ(telnet_buf, b) + Occ(outbuf, b)
    <3>1. PICK u : u = telnet_buf \o outbuf
      OBVIOUS
    <3>2. /\ u \in Seq(Byte) /\ Occ(u, b) = Occ(telnet_buf, b) + Occ(outbuf, b)
          /\ Len(u) = Len(telnet_buf) + Len(outbuf)
          /\ Len(telnet_buf) \in Nat /\ Len(outbuf) \in Nat
      <4>1. telnet_buf \in Seq(Byte) /\ outbuf \in Seq(Byte)
        BY DEF TypeOK
      <4>2. Occ(telnet_buf \o outbuf, b) = Occ(telnet_buf, b) + Occ(outbuf, b)
        BY <4>1, OccConcat
      <4>3. /\ telnet_buf \o outbuf \in Seq(Byte)
            /\ Len(telnet_buf \o outbuf) = Len(telnet_buf) + Len(outbuf)
        BY <4>1, ConcatProperties
      <4>4. Len(telnet_buf) \in Nat /\ Len(outbuf) \in Nat
        BY <4>1, LenProperties
      <4> QED
        BY <3>1, <4>2, <4>3, <4>4
    <3>3. Len(outbuf) \in 0..Len(u)
      BY <3>2
    <3>4. /\ Occ(u, b) = Occ(SubSeq(u, 1, Len(outbuf)), b) + Occ(After(u, Len(outbuf)), b)
          /\ Occ(SubSeq(u, 1, Len(outbuf)), b) \in Nat /\ Occ(After(u, Len(outbuf)), b) \in Nat
      BY <3>2, <3>3, OccParts
    <3>5. Occ(rest', b) = Occ(SubSeq(u, 1, Len(outbuf)), b)
      BY <3>1, <2>3
    <3>6. Occ(telnet_buf', b) = 0 /\ Occ(outbuf', b) = 0
      BY <2>3, OccTypes
    <3> QED
      BY <3>2, <3>4, <3>5, <3>6, <2>1, SMTT(30)
  <2>5. Occ(rest', b) \in Nat /\ Occ(telnet_buf', b) \in Nat /\ Occ(outbuf', b) \in Nat
    <3>1. rest' \in Seq(Byte) /\ telnet_buf' \in Seq(Byte) /\ outbuf' \in Seq(Byte)
      BY DEF TypeOK
    <3> QED
      BY <3>1, OccTypes
  <2>6. Occ(text', b) + Occ(rest', b) + Occ(telnet_buf', b) + Occ(outbuf', b)
          + Occ(inbuf', b) + 0 <= Rows(b)
    BY <2>1, <2>2, <2>4, <2>5 DEF Rows
  <2> QED
    BY <1>1, <2>2, <2>6, LessRows
<1> QED
  BY <1>2

\* A step that moves no byte.
LEMMA SameLess ==
    ASSUME TypeOK,
           UNCHANGED <<shown, last_line, wire, answers, text, rest, telnet_buf, outbuf, inbuf>>
    PROVE  \A b : Less(b)
<1>1. ASSUME NEW b PROVE Less(b)
  <2>1. /\ Occ(shown, b) \in Nat /\ Occ(last_line, b) \in Nat /\ Occ(text, b) \in Nat
        /\ Occ(rest, b) \in Nat /\ Occ(telnet_buf, b) \in Nat
        /\ Occ(outbuf, b) \in Nat /\ Occ(inbuf, b) \in Nat
        /\ Occ(Bytes(wire), b) \in Nat /\ Count(answers, b) \in Nat
    BY HeldTypes
  <2> QED
    BY <2>1 DEF Less
<1> QED
  BY <1>1

LEMMA PartialMarkerLess ==
    ASSUME TypeOK, TypeOK', at # 0, ScanPartial
    PROVE  \A b : Less(b)
<1>1. /\ UNCHANGED <<shown, last_line, wire, answers, text, rest, telnet_buf>>
      /\ inbuf' = inbuf /\ outbuf' = SubSeq(outbuf, 1, at - 1) /\ Scanning
  BY DEF ScanPartial, AtMarker, mud, lines
<1>2. PICK u, v : u = SubSeq(outbuf, 1, at - 1) /\ v = Here
  OBVIOUS
<1>3. u \in Seq(Byte) /\ v \in Seq(Byte) /\ outbuf = u \o v
  BY <1>1, <1>2, HereLemma
<1>4. ASSUME NEW b PROVE Less(b)
  <2>1. /\ Occ(text, b) \in Nat /\ Occ(rest, b) \in Nat /\ Occ(telnet_buf, b) \in Nat
        /\ Occ(outbuf, b) \in Nat /\ Occ(inbuf, b) \in Nat /\ Count(answers, b) \in Nat
    BY HeldTypes
  <2>2. Occ(u \o v, b) = Occ(u, b) + Occ(v, b) /\ Occ(u, b) \in Nat /\ Occ(v, b) \in Nat
    BY <1>3, OccConcat, OccTypes
  <2>3. /\ Occ(outbuf', b) <= Occ(outbuf, b) /\ Occ(inbuf', b) = Occ(inbuf, b)
        /\ Occ(outbuf', b) \in Nat
    <3>1. Occ(outbuf, b) = Occ(u, b) + Occ(v, b) /\ Occ(outbuf', b) = Occ(u, b)
      BY <1>1, <1>2, <1>3, <2>2
    <3> QED
      BY <3>1, <1>1, <2>2
  <2>4. /\ Occ(text', b) = Occ(text, b) /\ Occ(rest', b) = Occ(rest, b)
        /\ Occ(telnet_buf', b) = Occ(telnet_buf, b)
        /\ Count(answers', b) = Count(answers, b) + 0
    BY <1>1, <2>1
  <2>5. Occ(text', b) + Occ(rest', b) + Occ(telnet_buf', b) + Occ(outbuf', b)
          + Occ(inbuf', b) + 0 <= Rows(b)
    BY <2>1, <2>3, <2>4 DEF Rows
  <2> QED
    BY <1>1, <2>4, <2>5, LessRows
<1> QED
  BY <1>4

\* Without an offer no marker is found.
LEMMA NoOffer ==
    ASSUME TypeOK, at # 0, NoneTwice
    PROVE  ~ScanWill /\ ~ScanOn
<1>1. ASSUME NEW marker \in {will_v1, will_v2, On}, AtMarker(marker), Len(Here) >= Len(marker)
      PROVE  FALSE
  <2>1. Scanning /\ Marker = marker
    BY <1>1 DEF AtMarker
  <2>2. /\ Here \in Seq(Byte) /\ Len(Here) = Len(outbuf) - at + 1
        /\ \A i \in 1..Len(outbuf) - at + 1 : Here[i] = outbuf[at + i - 1]
        /\ at \in 1..Len(outbuf) /\ Len(outbuf) \in Nat
    BY <2>1, HereLemma
  <2>3. marker # <<>>
    <3>1. Len(will_v1) # 0 /\ Len(will_v2) # 0 /\ Len(On) # 0
      BY MarkerFacts
    <3> QED
      BY <3>1, Len(<<>>) = 0
  <2>4. Matches(marker)
    BY <2>1, <2>3 DEF Marker
  <2>5. marker \in Seq(Byte) /\ Len(marker) \in {3, 5} /\ marker[3] \in AllVersions
    BY MarkerFacts DEF AllVersions
  <2> HIDE DEF Here
  <2>6. 3 \in 1..Len(marker) /\ 3 <= Len(Here)
    BY <1>1, <2>2, <2>5
  <2>7. Here[3] = marker[3]
    BY <2>2, <2>4, <2>5, <2>6, MatchLemma
  <2>8. 3 \in 1..Len(outbuf) - at + 1 /\ at + 3 - 1 \in 1..Len(outbuf)
    BY <2>2, <2>6
  <2>9. outbuf[at + 3 - 1] \in AllVersions
    BY <2>2, <2>5, <2>7, <2>8
  <2>10. PICK v : v \in AllVersions /\ outbuf[at + 3 - 1] = v
    BY <2>9
  <2>11. Occ(outbuf, v) >= 1
    <3>1. outbuf \in Seq(Byte)
      BY DEF TypeOK
    <3> QED
      BY <3>1, <2>8, <2>10, OccTypes
  <2>12. Due(v) = 0
    BY <2>10 DEF Due, AllVersions, Letters, COMPRESS, COMPRESS2
  <2>13. Held(v) <= 0
    BY <2>10, <2>12 DEF NoneTwice, Kept
  <2> QED
    BY <2>11, <2>13, HeldTypes DEF Held
<1>2. ~ScanWill
  BY <1>1 DEF ScanWill
<1>3. ~ScanOn
  BY <1>1 DEF ScanOn
<1> QED
  BY <1>2, <1>3

\* A read takes its bytes off the wire.
LEMMA RecvLess ==
    ASSUME TypeOK, TypeOK', ~stream, NEW n \in 1..INPUT_CHUNK, Recv(n)
    PROVE  \A b : Less(b)
<1>1. wire \in Seq(WireByte) /\ Len(wire) \in Nat /\ n \in 1..Len(wire) /\ n \in 0..Len(wire)
  <2>1. wire \in Seq(WireByte)
    BY DEF TypeOK, WireByte
  <2>2. n <= Len(wire) /\ n \in Nat /\ n >= 1
    BY ConstantFacts DEF Recv
  <2>3. Len(wire) \in Nat
    BY <2>1, LenProperties
  <2> QED
    BY <2>1, <2>2, <2>3
<1>2. PICK u, w : u = SubSeq(wire, 1, n) /\ w = After(wire, n)
  OBVIOUS
<1>3. /\ u \in Seq(WireByte) /\ w \in Seq(WireByte) /\ Len(u) = n
      /\ \A i \in 1..n : u[i] = wire[i]
      /\ wire = u \o w
  BY <1>1, <1>2, CutLemma DEF After
<1>4. PICK q : q = Bytes(u)
  OBVIOUS
<1>5. q \in Seq(Byte) /\ q = [i \in 1..n |-> wire[i].byte]
  <2>1. q \in Seq(Byte)
    BY <1>3, <1>4, BytesLemma
  <2>2. Bytes(u) = [i \in 1..n |-> u[i].byte]
    BY <1>3 DEF Bytes
  <2>3. [i \in 1..n |-> u[i].byte] = [i \in 1..n |-> wire[i].byte]
    BY <1>3
  <2> QED
    BY <1>4, <2>1, <2>2, <2>3
<1>6. Bytes(w) \in Seq(Byte) /\ Bytes(wire) = q \o Bytes(w)
  BY <1>3, <1>4, BytesLemma
<1>7. /\ wire' = w /\ UNCHANGED <<shown, last_line, text, rest, telnet_buf, answers>>
  BY <1>2 DEF Recv, After
<1>8. \/ UNCHANGED <<inbuf, outbuf>>
      \/ UNCHANGED inbuf /\ outbuf' = outbuf \o q
  BY <1>5 DEF Recv
<1>9. ASSUME NEW b PROVE Less(b)
  <2>1. /\ Occ(shown, b) \in Nat /\ Occ(last_line, b) \in Nat /\ Occ(text, b) \in Nat
        /\ Occ(rest, b) \in Nat /\ Occ(telnet_buf, b) \in Nat
        /\ Occ(outbuf, b) \in Nat /\ Occ(inbuf, b) \in Nat
        /\ Occ(Bytes(wire), b) \in Nat /\ Count(answers, b) \in Nat
    BY HeldTypes
  <2>2. PICK k : k = Bytes(w)
    OBVIOUS
  <2>3. k \in Seq(Byte) /\ Bytes(wire) = q \o k
    BY <2>2, <1>6
  <2>4. /\ Occ(q \o k, b) = Occ(q, b) + Occ(k, b) /\ Occ(q, b) \in Nat /\ Occ(k, b) \in Nat
    BY <1>5, <2>3, OccConcat, OccTypes, ZenonT(30)
  <2>5. Occ(Bytes(wire'), b) = Occ(k, b) /\ Occ(Bytes(wire), b) = Occ(q, b) + Occ(k, b)
    BY <2>2, <2>3, <2>4, <1>7
  <2>6. Occ(outbuf', b) + Occ(inbuf', b) <= Occ(outbuf, b) + Occ(inbuf, b) + Occ(q, b)
    <3>1. CASE UNCHANGED <<inbuf, outbuf>>
      <4>1. Occ(outbuf', b) = Occ(outbuf, b) /\ Occ(inbuf', b) = Occ(inbuf, b)
        BY <3>1
      <4> QED
        BY <4>1, <2>1, <2>4
    <3>2. CASE UNCHANGED inbuf /\ outbuf' = outbuf \o q
      <4>1. outbuf \in Seq(Byte) /\ q \in Seq(Byte)
        BY <1>5 DEF TypeOK
      <4>2. Occ(outbuf \o q, b) = Occ(outbuf, b) + Occ(q, b)
        BY <4>1, OccConcat
      <4>3. Occ(outbuf', b) = Occ(outbuf, b) + Occ(q, b) /\ Occ(inbuf', b) = Occ(inbuf, b)
        BY <3>2, <4>2
      <4> QED
        BY <4>3, <2>1, <2>4
    <3> QED
      BY <1>8, <3>1, <3>2
  <2>7. Occ(outbuf', b) \in Nat /\ Occ(inbuf', b) \in Nat
    <3>1. outbuf' \in Seq(Byte) /\ inbuf' \in Seq(Byte)
      BY DEF TypeOK
    <3> QED
      BY <3>1, OccTypes
  <2>8. /\ Occ(shown', b) = Occ(shown, b) /\ Occ(last_line', b) = Occ(last_line, b)
        /\ Occ(text', b) = Occ(text, b) /\ Occ(rest', b) = Occ(rest, b)
        /\ Occ(telnet_buf', b) = Occ(telnet_buf, b) /\ Count(answers', b) = Count(answers, b)
    BY <1>7
  <2> QED
    BY <2>1, <2>4, <2>5, <2>6, <2>7, <2>8 DEF Less
<1> QED
  BY <1>9

\* The lines, whatever was kept of the last read.
LEMMA DisplayLess ==
    ASSUME TypeOK, TypeOK', Display
    PROVE  \A b : Less(b)
<1>1. PICK buf : buf = IF Merges THEN last_line \o text ELSE text
  OBVIOUS
<1>2. PICK n : n = Complete(buf)
  OBVIOUS
<1>3. PICK kept, gone : kept = After(buf, n) /\ gone = SubSeq(buf, 1, n)
  OBVIOUS
<1>4. /\ UNCHANGED <<answers, inbuf, outbuf, telnet_buf, rest, wire>> /\ text' = <<>>
      /\ shown' = shown \o gone /\ last_line' = IF kept # <<>> THEN kept ELSE Leftover
  BY <1>1, <1>2, <1>3 DEF Display, mud, mccp, After
<1>5. last_line \in Seq(Byte) /\ text \in Seq(Byte) /\ shown \in Seq(Byte)
  BY DEF TypeOK
<1>6. buf \in Seq(Byte)
  BY <1>1, <1>5, ConcatProperties
<1>7. n \in 0..Len(buf)
  BY <1>2, <1>6, CompleteLemma
<1>8. gone \in Seq(Byte) /\ kept \in Seq(Byte)
  BY <1>3, <1>6, <1>7, CutLemma DEF After
<1>9. ASSUME NEW b PROVE Less(b)
  <2>1. /\ Occ(shown, b) \in Nat /\ Occ(last_line, b) \in Nat /\ Occ(text, b) \in Nat
        /\ Occ(rest, b) \in Nat /\ Occ(telnet_buf, b) \in Nat
        /\ Occ(outbuf, b) \in Nat /\ Occ(inbuf, b) \in Nat
        /\ Occ(Bytes(wire), b) \in Nat /\ Count(answers, b) \in Nat
    BY HeldTypes
  <2>2. /\ Occ(buf, b) = Occ(gone, b) + Occ(kept, b)
        /\ Occ(gone, b) \in Nat /\ Occ(kept, b) \in Nat
    BY <1>3, <1>6, <1>7, OccParts
  <2>3. Occ(shown', b) = Occ(shown, b) + Occ(gone, b)
    BY <1>4, <1>5, <1>8, OccConcat
  <2>4. Occ(text', b) = 0
    BY <1>4, OccTypes
  <2>5. Occ(buf, b) + (IF Merges THEN 0 ELSE Occ(last_line, b)) = Occ(last_line, b) + Occ(text, b)
    <3>1. CASE Merges
      <4>1. Occ(last_line \o text, b) = Occ(last_line, b) + Occ(text, b)
        BY <1>5, OccConcat
      <4>2. Occ(buf, b) = Occ(last_line \o text, b)
        BY <1>1, <3>1
      <4> QED
        BY <4>1, <4>2, <3>1, <2>1
    <3>2. CASE ~Merges
      BY <3>2, <1>1, <2>1
    <3> QED
      BY <3>1, <3>2
  <2>6. Occ(last_line', b) <= Occ(kept, b) + (IF Merges THEN 0 ELSE Occ(last_line, b))
    <3>1. CASE kept # <<>>
      BY <3>1, <1>4, <2>1, <2>2
    <3>2. CASE kept = <<>>
      <4>1. Occ(kept, b) = 0 /\ Occ(<<>>, b) = 0
        BY <3>2, OccTypes
      <4>2. last_line' = Leftover
        BY <3>2, <1>4
      <4>3. CASE Merges
        <5>1. last_line' = <<>>
          BY <4>2, <4>3 DEF Leftover
        <5> QED
          BY <5>1, <4>1, <4>3
      <4>4. CASE ~Merges
        <5>1. last_line' = last_line
          BY <4>2, <4>4 DEF Leftover
        <5> QED
          BY <5>1, <4>1, <4>4, <2>1
      <4> QED
        BY <4>3, <4>4
    <3> QED
      BY <3>1, <3>2
  <2>7. Occ(shown', b) + Occ(last_line', b) + Occ(text', b)
          <= Occ(shown, b) + Occ(last_line, b) + Occ(text, b)
    <3>1. Occ(last_line', b) \in Nat
      <4>1. last_line' \in Seq(Byte)
        BY DEF TypeOK
      <4> QED
        BY <4>1, OccTypes
    <3>2. CASE Merges
      BY <3>1, <3>2, <2>1, <2>2, <2>3, <2>4, <2>5, <2>6
    <3>3. CASE ~Merges
      BY <3>1, <3>3, <2>1, <2>2, <2>3, <2>4, <2>5, <2>6
    <3> QED
      BY <3>2, <3>3
  <2>8. /\ Occ(rest', b) = Occ(rest, b) /\ Occ(telnet_buf', b) = Occ(telnet_buf, b)
        /\ Occ(outbuf', b) = Occ(outbuf, b) /\ Occ(inbuf', b) = Occ(inbuf, b)
        /\ Occ(Bytes(wire'), b) = Occ(Bytes(wire), b) /\ Count(answers', b) = Count(answers, b)
    BY <1>4
  <2>9. Occ(shown', b) \in Nat /\ Occ(last_line', b) \in Nat /\ Occ(text', b) \in Nat
    <3>1. shown' \in Seq(Byte) /\ last_line' \in Seq(Byte) /\ text' \in Seq(Byte)
      BY DEF TypeOK
    <3> QED
      BY <3>1, OccTypes
  <2> QED
    BY <2>1, <2>7, <2>8, <2>9 DEF Less
<1> QED
  BY <1>9

\* The sum grows by what is put on the wire.
LEMMA HeldGrows ==
    ASSUME TypeOK, UNCHANGED <<shown, last_line, text, rest, telnet_buf, outbuf, inbuf, answers>>,
           NEW b, NEW n \in Nat, Occ(Bytes(wire'), b) = Occ(Bytes(wire), b) + n
    PROVE  Held(b) \in Int /\ Held(b)' = Held(b) + n
<1>1. /\ Occ(shown, b) \in Nat /\ Occ(last_line, b) \in Nat /\ Occ(text, b) \in Nat
      /\ Occ(rest, b) \in Nat /\ Occ(telnet_buf, b) \in Nat
      /\ Occ(outbuf, b) \in Nat /\ Occ(inbuf, b) \in Nat
      /\ Occ(Bytes(wire), b) \in Nat /\ Count(answers, b) \in Nat
  BY HeldTypes
<1>2. Held(b) = Occ(shown, b) + Occ(last_line, b) + Occ(text, b) + Occ(rest, b)
                  + Occ(telnet_buf, b) + Occ(outbuf, b) + Occ(inbuf, b)
                  + Occ(Bytes(wire), b) + Count(answers, b)
  BY DEF Held
<1>3. Held(b)' = Occ(shown', b) + Occ(last_line', b) + Occ(text', b) + Occ(rest', b)
                   + Occ(telnet_buf', b) + Occ(outbuf', b) + Occ(inbuf', b)
                   + Occ(Bytes(wire'), b) + Count(answers', b)
  BY HeldPrimes
<1>4. Held(b)' = Occ(shown, b) + Occ(last_line, b) + Occ(text, b) + Occ(rest, b)
                   + Occ(telnet_buf, b) + Occ(outbuf, b) + Occ(inbuf, b)
                   + (Occ(Bytes(wire), b) + n) + Count(answers, b)
  BY <1>3
<1> QED
  BY <1>1, <1>2, <1>4

\* The mud writes: what it writes is on the wire.
LEMMA SendHeld ==
    ASSUME TypeOK, PlainOnly, NEW s \in Seq(Writable), NEW isText \in BOOLEAN,
           Sends(s, isText)
    PROVE  \A b : Held(b) \in Int /\ Occ(s, b) \in Nat /\ Held(b)' = Held(b) + Occ(s, b)
<1>1. /\ UNCHANGED <<shown, last_line, text, rest, telnet_buf, outbuf, inbuf, answers>>
      /\ wire' = wire \o OnTheWire(s, isText)
  BY DEF Sends, lines, mccp
<1>2. PICK w : w = OnTheWire(s, isText)
  OBVIOUS
<1>3. w \in Seq(WireByte) /\ Bytes(w) = s
  <2>1. zip # "zipped"
    BY DEF PlainOnly
  <2> QED
    BY <2>1, <1>2, WrittenLemma, OnWireLemma
<1>4. wire \in Seq(WireByte)
  BY DEF TypeOK, WireByte
<1>5. PICK k : k = Bytes(wire)
  OBVIOUS
<1>6. k \in Seq(Byte) /\ s \in Seq(Byte) /\ Bytes(wire \o w) = k \o s
  BY <1>3, <1>4, <1>5, BytesLemma
<1>7. ASSUME NEW b
      PROVE  Held(b) \in Int /\ Occ(s, b) \in Nat /\ Held(b)' = Held(b) + Occ(s, b)
  <2>2. Occ(k \o s, b) = Occ(k, b) + Occ(s, b) /\ Occ(s, b) \in Nat
    <3>1. k \in Seq(Byte) /\ s \in Seq(Byte)
      BY <1>6
    <3> QED
      BY <3>1, OccConcat, OccTypes
  <2>3. PICK n : n = Occ(s, b)
    OBVIOUS
  <2>4. n \in Nat
    BY <2>2, <2>3
  <2>5. Occ(Bytes(wire'), b) = Occ(Bytes(wire), b) + n
    <3>1. Bytes(wire') = k \o s
      BY <1>1, <1>2, <1>6
    <3>2. Occ(Bytes(wire'), b) = Occ(k, b) + Occ(s, b)
      BY <3>1, <2>2
    <3> QED
      BY <3>2, <2>3, <1>5
  <2>6. Held(b) \in Int /\ Held(b)' = Held(b) + n
    BY <1>1, <2>4, <2>5, HeldGrows
  <2> QED
    BY <2>3, <2>4, <2>6
<1> QED
  BY <1>7

\* In an item there is no byte that counts but a letter, the next one.
LEMMA EncodedOcc ==
    ASSUME ToldApart, TypeOK, items < MaxItems, NEW item \in Items, NEW b \in Kept
    PROVE  Occ(Encoded(item), b) <= IF b = 97 + items THEN 1 ELSE 0
<1>1. items \in Nat /\ items < 26
  BY InboundAssumption DEF TypeOK, ToldApart
<1>2. items % 26 = items
  BY <1>1
<1>3. Encoded(item) \in Seq(Byte)
  <2>1. Writable \subseteq Byte
    BY DEF Writable, Byte, Z_END, ZIP
  <2> QED
    BY <2>1, EncodedLemma, SeqMonotonic
<1>4. CASE item = "letter"
  <2>1. PICK x : x = 97 + items
    OBVIOUS
  <2>2. x \in Byte /\ Encoded(item) = <<x>>
    BY <1>1, <1>2, <1>4, <2>1 DEF Encoded, Shown, Byte, Z_END, ZIP
  <2>3. Occ(<<x>>, b) = IF x = b THEN 1 ELSE 0
    <3>1. <<>> \in Seq(Byte) /\ Occ(<<>>, b) = 0
      BY EmptySeq, OccTypes
    <3>2. Occ(Append(<<>>, x), b) = Occ(<<>>, b) + (IF x = b THEN 1 ELSE 0)
      BY <2>2, <3>1, OccAppend, ZenonT(30)
    <3>3. Append(<<>>, x) = <<x>>
      OBVIOUS
    <3> QED
      BY <3>1, <3>2, <3>3
  <2> QED
    BY <2>1, <2>2, <2>3
<1>5. CASE item # "letter"
  <2>1. b \notin OtherBytes(item)
    <3>1. CASE b \in Letters
      <4>1. b \notin {NL} /\ b \notin {0} /\ b \notin {IAC} /\ b \notin {IAC, GA}
            /\ b \notin {IAC, SB, TERMINAL_TYPE, SEND, SE} /\ b \notin {}
        BY <3>1 DEF Letters, NL, IAC, GA, SB, TERMINAL_TYPE, SEND, SE
      <4> QED
        BY <4>1 DEF OtherBytes
    <3>2. CASE b \notin Letters
      BY <3>2, KeptLemma
    <3> QED
      BY <3>1, <3>2
  <2>2. \A i \in 1..Len(Encoded(item)) : Encoded(item)[i] \in OtherBytes(item)
    <3>1. item \in {"newline", "nul", "literal", "goahead", "ttype"}
      BY <1>5, InboundAssumption
    <3>2. CASE item = "newline"
      BY <3>2 DEF Encoded, Shown, OtherBytes
    <3>3. CASE item = "nul"
      BY <3>3 DEF Encoded, OtherBytes
    <3>4. CASE item = "literal"
      BY <3>4 DEF Encoded, OtherBytes
    <3>5. CASE item = "goahead"
      BY <3>5 DEF Encoded, OtherBytes
    <3>6. CASE item = "ttype"
      BY <3>6 DEF Encoded, OtherBytes
    <3> QED
      BY <3>1, <3>2, <3>3, <3>4, <3>5, <3>6
  <2>3. \A i \in 1..Len(Encoded(item)) : Encoded(item)[i] # b
    BY <2>1, <2>2
  <2>4. Occ(Encoded(item), b) = 0
    BY <1>3, <2>3, OccTypes
  <2> QED
    BY <2>4
<1> QED
  BY <1>4, <1>5

\* In a request there is its option, and no other byte that counts.
LEMMA RequestOcc ==
    ASSUME ToldApart, NEW v \in Verbs, NEW o \in Byte, NEW b \in Kept
    PROVE  Occ(<<IAC, v, o>>, b) = IF o = b THEN 1 ELSE 0
<1>1. b # IAC /\ b # v
  BY KeptLemma
<1>2. CASE o = b
  <2>1. {i \in 1..Len(<<IAC, v, o>>) : <<IAC, v, o>>[i] = b} = {3}
    BY <1>1, <1>2
  <2> QED
    BY <2>1, <1>2, FS_Singleton DEF Occ
<1>3. CASE o # b
  <2>1. {i \in 1..Len(<<IAC, v, o>>) : <<IAC, v, o>>[i] = b} = {}
    BY <1>1, <1>3
  <2> QED
    BY <2>1, <1>3, FS_EmptySet DEF Occ
<1> QED
  BY <1>2, <1>3

\* The two ways the mud writes here.
LEMMA SendTextTwice ==
    ASSUME ToldApart, KInv, NEW item \in Items, SendText(item)
    PROVE  PlainOnly' /\ NoneTwice'
<1>1. /\ Sends(Encoded(item), Shown(item) # <<>>) /\ UNCHANGED <<asked, zip>>
      /\ TypeOK /\ PlainOnly /\ NoneTwice
  BY DEF SendText, KInv
<1>2. /\ items < MaxItems /\ items' = items + 1
      /\ UNCHANGED <<stream, pc, resp_v1, resp_v2>>
  BY <1>1 DEF Sends, mccp
<1>3. PlainOnly'
  BY <1>1, <1>2 DEF PlainOnly
<1>4. items \in Nat
  BY <1>1 DEF TypeOK
<1>5. (Shown(item) # <<>>) \in BOOLEAN /\ Encoded(item) \in Seq(Writable)
  BY <1>1, EncodedLemma
<1>6. ASSUME NEW b \in Kept PROVE Held(b)' <= Due(b)'
  <2>1. /\ Held(b) \in Int /\ Occ(Encoded(item), b) \in Nat
        /\ Held(b)' = Held(b) + Occ(Encoded(item), b)
    BY <1>1, <1>5, SendHeld
  <2>2. Occ(Encoded(item), b) <= IF b = 97 + items THEN 1 ELSE 0
    BY <1>1, <1>2, EncodedOcc
  <2>3. Held(b) <= Due(b)
    BY <1>1 DEF NoneTwice
  <2>4. b \in Int
    BY KeptLemma DEF Byte, Z_END, ZIP
  <2>5. Due(b)' = IF b \in Letters THEN IF b - 97 < items + 1 THEN 1 ELSE 0
                  ELSE IF b \in AllVersions THEN 0 ELSE Count(asked, b)
    BY <1>1, <1>2 DEF Due, Count
  <2>6. Due(b) = IF b \in Letters THEN IF b - 97 < items THEN 1 ELSE 0
                 ELSE IF b \in AllVersions THEN 0 ELSE Count(asked, b)
    BY DEF Due
  <2>7. b = 97 + items => b \in Letters
    <3>1. items < 26
      BY <1>2, <1>4, InboundAssumption DEF ToldApart
    <3> QED
      BY <3>1, <1>4 DEF Letters
  <2>8. Count(asked, b) \in Int
    <3>1. asked \in Seq((Verbs \cup {SB}) \X Byte)
      BY <1>1, AskedCounts DEF TypeOK, Asked
    <3> QED
      BY <3>1, CountLemma
  <2>9. CASE b = 97 + items
    <3>1. Due(b) = 0 /\ Due(b)' = 1
      BY <2>9, <2>5, <2>6, <2>7, <1>4
    <3> QED
      BY <3>1, <2>9, <2>1, <2>2, <2>3
  <2>10. CASE b # 97 + items
    <3>1. Occ(Encoded(item), b) = 0
      BY <2>10, <2>1, <2>2
    <3>2. Due(b) \in Int /\ Due(b)' \in Int /\ Due(b) <= Due(b)'
      BY <2>4, <2>5, <2>6, <2>8, <1>4
    <3> QED
      BY <3>1, <3>2, <2>1, <2>3
  <2> QED
    BY <2>9, <2>10
<1> QED
  BY <1>3, <1>6 DEF NoneTwice

LEMMA SendRequestTwice ==
    ASSUME ToldApart, KInv, NEW r \in Requests, SendRequest(r[1], r[2])
    PROVE  PlainOnly' /\ NoneTwice'
<1>1. PICK v, o : v = r[1] /\ o = r[2]
  OBVIOUS
<1>2. v \in Verbs /\ o \in 0..255 /\ o \in Byte /\ r = <<v, o>>
  <2>1. 0..255 \subseteq Byte
    BY DEF Byte, Z_END, ZIP
  <2> QED
    BY <1>1, <2>1, ConstantFacts, InboundAssumption
<1>3. /\ Sends(<<IAC, v, o>>, FALSE) /\ asked' = Append(asked, <<v, o>>)
      /\ UNCHANGED zip /\ TypeOK /\ PlainOnly /\ NoneTwice
  BY <1>1 DEF SendRequest, KInv
<1>4. items' = items + 1 /\ UNCHANGED <<stream, pc, resp_v1, resp_v2>>
  BY <1>3 DEF Sends, mccp
<1>5. \A i \in 1..Len(asked') : asked'[i] \in Requests
  <2>1. asked \in Seq(Requests)
    <3>1. Len(asked) \in Nat /\ asked = [i \in 1..Len(asked) |-> asked[i]]
      BY <1>3, LenProperties DEF TypeOK
    <3>2. \A i \in 1..Len(asked) : asked[i] \in Requests
      BY <1>3 DEF PlainOnly
    <3> QED
      BY <3>1, <3>2, IsASeq
  <2>2. asked' \in Seq(Requests)
    <3>1. <<v, o>> \in Requests
      BY <1>2
    <3>2. Append(asked, <<v, o>>) \in Seq(Requests)
      BY <2>1, <3>1, AppendProperties
    <3> QED
      BY <3>2, <1>3
  <2> QED
    BY <2>2, ElementOfSeq
<1>6. PlainOnly'
  BY <1>3, <1>4, <1>5 DEF PlainOnly
<1>7. items \in Nat
  BY <1>3 DEF TypeOK
<1>8. <<IAC, v, o>> \in Seq(Writable)
  <2>1. v \in 0..255
    BY <1>2, WritableRows
  <2> QED
    BY <2>1, <1>2, WritableRows
<1>9. ASSUME NEW b \in Kept PROVE Held(b)' <= Due(b)'
  <2>1. /\ Held(b) \in Int /\ Held(b)' = Held(b) + Occ(<<IAC, v, o>>, b)
    BY <1>3, <1>8, SendHeld
  <2>2. Occ(<<IAC, v, o>>, b) = IF o = b THEN 1 ELSE 0
    BY <1>2, RequestOcc
  <2>3. Held(b) <= Due(b)
    BY <1>3 DEF NoneTwice
  <2>4. b \in Int
    BY KeptLemma DEF Byte, Z_END, ZIP
  <2>5. Due(b)' = IF b \in Letters THEN IF b - 97 < items + 1 THEN 1 ELSE 0
                  ELSE IF b \in AllVersions THEN 0 ELSE Count(asked', b)
    BY <1>4 DEF Due, Count
  <2>6. Due(b) = IF b \in Letters THEN IF b - 97 < items THEN 1 ELSE 0
                 ELSE IF b \in AllVersions THEN 0 ELSE Count(asked, b)
    BY DEF Due
  <2>7. Count(asked', b) = Count(asked, b) + (IF o = b THEN 1 ELSE 0)
    BY <1>2, <1>3, AskedLemma
  <2>8. Count(asked, b) \in Int
    <3>1. asked \in Seq((Verbs \cup {SB}) \X Byte)
      BY <1>3, AskedCounts DEF TypeOK, Asked
    <3> QED
      BY <3>1, CountLemma
  <2>9. o \notin Letters /\ o \notin AllVersions
    BY <1>1, KeptLemma
  <2>10. CASE o = b
    <3>1. Due(b)' = Due(b) + 1 /\ Due(b) \in Int
      BY <2>5, <2>6, <2>7, <2>8, <2>9, <2>10
    <3> QED
      BY <3>1, <2>1, <2>2, <2>3, <2>10
  <2>11. CASE o # b
    <3>1. Due(b) \in Int /\ Due(b)' \in Int /\ Due(b) <= Due(b)'
      BY <2>4, <2>5, <2>6, <2>7, <2>8, <2>11, <1>7
    <3> QED
      BY <3>1, <2>1, <2>2, <2>3, <2>11
  <2> QED
    BY <2>10, <2>11
<1> QED
  BY <1>6, <1>9 DEF NoneTwice

\* Every other step hands the bytes on.
LEMMA ReadingTwice ==
    ASSUME ToldApart, KInv, TypeOK', Read \/ Mccp \/ Parse \/ Display
    PROVE  PlainOnly' /\ NoneTwice'
<1>1. TypeOK /\ at # 0 /\ PlainOnly /\ NoneTwice
  BY DEF KInv
<1>2. ~ScanWill /\ ~ScanOn
  BY <1>1, NoOffer
<1>3. ~Inflate
  BY <1>1 DEF PlainOnly, Inflate
<1>4. Kept \subseteq Byte
  BY KeptLemma
<1>5. ASSUME \A b \in Kept : Less(b),
             UNCHANGED <<items, asked, zip, stream, resp_v1, resp_v2>>, pc' # "inflate"
      PROVE  PlainOnly' /\ NoneTwice'
  <2>1. PlainOnly'
    BY <1>1, <1>5 DEF PlainOnly
  <2>2. NoneTwice'
    BY <1>1, <1>5, LessKeeps
  <2> QED
    BY <2>1, <2>2
<1>6. ASSUME NEW n \in 1..INPUT_CHUNK, Recv(n)
      PROVE  PlainOnly' /\ NoneTwice'
  <2>1. ~stream
    BY <1>1 DEF PlainOnly
  <2>2. \A b : Less(b)
    BY <1>1, <1>6, <2>1, RecvLess
  <2>3. UNCHANGED <<items, asked, zip, stream, resp_v1, resp_v2>> /\ pc' # "inflate"
    BY <1>6, <2>1 DEF Recv
  <2> QED
    BY <2>2, <2>3, <1>5
<1>7. CASE ScanPlain \/ ScanEnds \/ GetEnds \/ ParseEnds
  <2>1. /\ UNCHANGED <<shown, last_line, wire, answers, text, rest, telnet_buf>>
        /\ UNCHANGED <<outbuf, inbuf>>
        /\ UNCHANGED <<items, asked, zip, stream, resp_v1, resp_v2>> /\ pc' # "inflate"
    BY <1>1, <1>7 DEF ScanPlain, ScanEnds, GetEnds, ParseEnds, mud, mccp, lines, PlainOnly
  <2>2. \A b : Less(b)
    BY <1>1, <2>1, SameLess
  <2> QED
    BY <2>1, <2>2, <1>5
<1>8. CASE ScanPartial
  <2>1. \A b : Less(b)
    BY <1>1, <1>8, PartialMarkerLess
  <2>2. UNCHANGED <<items, asked, zip, stream, resp_v1, resp_v2>> /\ pc' # "inflate"
    BY <1>8 DEF ScanPartial, mud
  <2> QED
    BY <2>1, <2>2, <1>5
<1>9. CASE Get
  <2>1. \A b : Less(b)
    BY <1>1, <1>9, GetLess
  <2>2. UNCHANGED <<items, asked, zip, stream, resp_v1, resp_v2>> /\ pc' # "inflate"
    BY <1>9 DEF Get, mud
  <2> QED
    BY <2>1, <2>2, <1>5
<1>10. CASE ParseStep
  <2>1. \A b \in Byte : Less(b)
    BY <1>1, <1>10, ByteLess, PartialLess, RequestLess, SubLess, OtherLess DEF ParseStep
  <2>2. UNCHANGED <<items, asked, zip, stream, resp_v1, resp_v2>> /\ pc' # "inflate"
    BY <1>10, ParseFrame DEF mud, mccp
  <2> QED
    BY <2>1, <2>2, <1>4, <1>5
<1>11. CASE Respond
  <2>1. resp_v1 = 0 /\ ~resp_v2
    BY <1>1 DEF PlainOnly
  <2>2. /\ UNCHANGED <<shown, last_line, wire, answers, text, rest, telnet_buf>>
        /\ UNCHANGED <<outbuf, inbuf>>
        /\ UNCHANGED <<items, asked, zip, stream, resp_v1>> /\ resp_v2' = FALSE
        /\ pc' # "inflate"
    BY <1>11, <2>1 DEF Respond, mud, lines
  <2>3. \A b : Less(b)
    BY <1>1, <2>2, SameLess
  <2>4. resp_v2' = resp_v2
    <3>1. resp_v2 \in BOOLEAN
      BY <1>1 DEF TypeOK
    <3> QED
      BY <3>1, <2>1, <2>2
  <2> QED
    BY <2>2, <2>3, <2>4, <1>5
<1>12. CASE Display
  <2>1. \A b : Less(b)
    BY <1>1, <1>12, DisplayLess
  <2>2. UNCHANGED <<items, asked, zip, stream, resp_v1, resp_v2>> /\ pc' # "inflate"
    BY <1>12 DEF Display, mud, mccp
  <2> QED
    BY <2>1, <2>2, <1>5
<1>13. CASE Read
  BY <1>6, <1>13 DEF Read
<1>14. CASE Mccp
  BY <1>2, <1>3, <1>7, <1>8, <1>14 DEF Mccp
<1>15. CASE Parse
  BY <1>7, <1>9, <1>10, <1>11, <1>15 DEF Parse, ParseStep
<1> QED
  BY <1>12, <1>13, <1>14, <1>15

LEMMA KSteps == ASSUME ToldApart, KInv, [Next]_vars PROVE KInv'
<1>1. TypeOK' /\ at' # 0
  BY NextTypes DEF KInv
<1>2. CASE Mud
  <2>1. Versions = {} /\ ~EndZip
    BY DEF ToldApart, EndZip, KInv, PlainOnly
  <2>2. \/ \E item \in Items : SendText(item)
        \/ \E request \in Requests : SendRequest(request[1], request[2])
    BY <1>2, <2>1 DEF Mud
  <2>3. PlainOnly' /\ NoneTwice'
    BY <2>2, SendTextTwice, SendRequestTwice
  <2> QED
    BY <1>1, <2>3 DEF KInv
<1>3. CASE Read \/ Mccp \/ Parse \/ Display
  BY <1>1, <1>3, ReadingTwice DEF KInv
<1>4. CASE UNCHANGED vars
  <2>1. /\ UNCHANGED <<shown, last_line, wire, answers, text, rest, telnet_buf>>
        /\ UNCHANGED <<outbuf, inbuf>>
        /\ UNCHANGED <<items, asked, zip, stream, resp_v1, resp_v2, pc>>
    BY <1>4 DEF vars, mud, mccp, lines
  <2>2. \A b : Less(b)
    BY <2>1, SameLess DEF KInv
  <2>3. PlainOnly'
    BY <2>1 DEF PlainOnly, KInv
  <2>4. NoneTwice'
    BY <1>1, <2>1, <2>2, LessKeeps DEF KInv
  <2> QED
    BY <1>1, <2>3, <2>4 DEF KInv
<1> QED
  BY <1>2, <1>3, <1>4 DEF Next

LEMMA KStarts == ASSUME Init PROVE KInv
<1>1. TypeOK /\ at # 0
  <2>1. at # 0
    BY DEF Init
  <2> QED
    BY <2>1, InitTypes
<1>2. PlainOnly
  <2>1. Len(<<>>) = 0
    OBVIOUS
  <2> QED
    BY <2>1 DEF Init, PlainOnly
<1>3. ASSUME NEW b \in Kept PROVE Held(b) <= Due(b)
  <2>1. /\ shown = <<>> /\ last_line = <<>> /\ text = <<>> /\ rest = <<>> /\ telnet_buf = <<>>
        /\ outbuf = <<>> /\ inbuf = <<>> /\ wire = <<>> /\ answers = <<>> /\ asked = <<>>
        /\ items = 0
    BY DEF Init
  <2>2. Occ(<<>>, b) = 0 /\ Count(<<>>, b) = 0 /\ Bytes(<<>>) = <<>>
    BY OccTypes, CountLemma, BytesLemma
  <2>3. Held(b) = 0
    BY <2>1, <2>2 DEF Held
  <2>4. Due(b) \in {0, 1}
    BY <2>1, <2>2 DEF Due
  <2> QED
    BY <2>3, <2>4
<1> QED
  BY <1>1, <1>2, <1>3 DEF KInv, NoneTwice

\* As long as no compression is offered (every letter is sent once, and no
\* option is a byte that something else is written with), no letter is shown
\* twice and no request is answered twice, wherever the reads cut the stream: a
\* byte is in one of the buffers at a time, or it is lost.
THEOREM TwiceNothing == ToldApart => (Spec => []NothingTwice)
<1> SUFFICES ASSUME ToldApart PROVE Spec => []NothingTwice
  OBVIOUS
<1>1. Init => KInv
  BY KStarts
<1>2. KInv /\ [Next]_vars => KInv'
  BY KSteps
<1>3. KInv => NothingTwice
  <2> SUFFICES ASSUME KInv PROVE NothingTwice
    OBVIOUS
  <2>1. TypeOK /\ PlainOnly /\ NoneTwice
    BY DEF KInv
  <2>2. \A b : /\ Occ(shown, b) \in Nat /\ Occ(last_line, b) \in Nat /\ Occ(text, b) \in Nat
               /\ Occ(rest, b) \in Nat /\ Occ(telnet_buf, b) \in Nat
               /\ Occ(outbuf, b) \in Nat /\ Occ(inbuf, b) \in Nat
               /\ Occ(Bytes(wire), b) \in Nat /\ Count(answers, b) \in Nat
    BY <2>1, HeldTypes
  <2>3. \A b : Occ(shown, b) <= Held(b) /\ Count(answers, b) <= Held(b) /\ Held(b) \in Int
    BY <2>2 DEF Held
  <2>4. ASSUME NEW i \in 1..Len(shown), NEW j \in 1..Len(shown),
               shown[i] = shown[j], Letter(shown[i]), i # j
        PROVE  FALSE
    <3>1. PICK b : b = shown[i]
      OBVIOUS
    <3>2. b \in Letters /\ b \in Kept
      BY <2>4, <3>1 DEF Letter, Letters, Kept
    <3>3. shown \in Seq(Byte)
      BY <2>1 DEF TypeOK
    <3>4. Occ(shown, b) >= 2
      BY <2>4, <3>1, <3>3, OccTypes
    <3>5. Due(b) \in {0, 1}
      BY <3>2 DEF Due
    <3>6. Held(b) <= Due(b)
      BY <2>1, <3>2 DEF NoneTwice
    <3>7. Occ(shown, b) \in Nat
      BY <2>2
    <3> QED
      BY <2>3, <3>4, <3>5, <3>6, <3>7
  <2>5. ASSUME NEW i \in 1..Len(asked)
        PROVE  Count(answers, asked[i][2]) <= Count(asked, asked[i][2])
    <3>1. PICK b : b = asked[i][2]
      OBVIOUS
    <3>2. b \in Kept /\ b \notin Letters /\ b \notin AllVersions
      BY <2>1, <3>1, KeptLemma DEF PlainOnly
    <3>3. Held(b) <= Count(asked, b)
      BY <2>1, <3>2 DEF NoneTwice, Due
    <3>4. Count(asked, b) \in Int
      <4>1. asked \in Seq((Verbs \cup {SB}) \X Byte)
        BY <2>1, AskedCounts DEF TypeOK, Asked
      <4> QED
        BY <4>1, CountLemma
    <3>5. Count(answers, b) \in Nat
      BY <2>2
    <3> QED
      BY <2>3, <3>1, <3>3, <3>4, <3>5
  <2> QED
    BY <2>4, <2>5 DEF NothingTwice
<1> QED
  BY <1>1, <1>2, <1>3, PTL DEF Spec

=============================================================================
