------------------------------ MODULE Inbound -----------------------------
(***************************************************************************)
(* From the socket to the screen: what one session does with the bytes the *)
(* mud sends.  A read takes at most INPUT_CHUNK bytes, wherever TCP cuts    *)
(* the stream; the bytes pass the MCCP layer (tt/mccpDecompress.c), the     *)
(* telnet parser (tt/net.c, telnet.c) and the line assembler (net.c,        *)
(* readmud).  What a layer cannot use yet it means to keep for the next     *)
(* read: the telnet parser in telnet_buf, the lines in last_line.  The MCCP *)
(* layer loses it.                                                          *)
(*                                                                         *)
(* A read is one handler, split in steps at its loops; the mud sends        *)
(* between reads.  The mud is external: it writes whole telnet commands,    *)
(* and compresses only after the client has agreed.                         *)
(*                                                                         *)
(* Abstracted: the letters are sent in the order of the alphabet, so that   *)
(* loss, duplication and reordering show; a compressed byte is one that     *)
(* inflate() turns into one byte at once, so its buffers never fill;        *)
(* carriage returns, filters, logging, MSSP and GMCP payloads are left out. *)
(***************************************************************************)
EXTENDS Integers, Sequences, FiniteSets, SequencesExt

CONSTANTS
    INPUT_CHUNK,    \* what one recv() asks for
    MaxItems,       \* bound: how many items the mud sends
    Items,          \* the kinds of item without an answer that it sends
    Requests,       \* the option requests it sends, as <<verb, option>>
    Versions,       \* the versions of MCCP it offers
    Splits,         \* whether a read may end inside a telnet command
    Silence,        \* whether a read may be short and bring no text
    V1First         \* whether the mud may offer COMPRESS before COMPRESS2

NL == 10
SE == 240
GA == 249
SB == 250
WILL == 251
WONT == 252
DO == 253
DONT == 254
IAC == 255
ECHO == 1
STATUS == 5
TERMINAL_TYPE == 24
END_OF_RECORD == 25
MSSP == 70
COMPRESS == 85
COMPRESS2 == 86
MSP == 90
GMCP == 201
SEND == 1
Verbs == {WILL, WONT, DO, DONT}

ASSUME InboundAssumption ==
    /\ INPUT_CHUNK \in Nat \ {0} /\ MaxItems \in Nat
    /\ Items \subseteq {"letter", "newline", "nul", "literal", "goahead", "ttype"}
    /\ Requests \subseteq (Verbs \X (0..255 \ {MSP, COMPRESS, COMPRESS2}))
                           \ ({WONT, DONT} \X {MSSP, GMCP})
    /\ Versions \subseteq {COMPRESS, COMPRESS2}
    /\ Splits \in BOOLEAN /\ Silence \in BOOLEAN /\ V1First \in BOOLEAN

ZIP == 256          \* ZIP + b is the byte b, compressed
Z_END == 2 * ZIP    \* the end of the compressed stream

VARIABLES
    wire,       \* bytes in flight: [byte, last (of its item), text (it is)]
    sent,       \* the text the mud has sent
    asked,      \* its option requests, as <<verb, option>>
    items,      \* how many items it has sent
    zip,        \* whether it compresses: "plain", "zipped" or "ended"
    answers,    \* the option answers it was sent
    stream, inbuf, outbuf,      \* the mc_state
    got_v2, resp_v1, resp_v2, error,
    telnet_buf,
    more_coming, old_more_coming, last_line,
    pc,         \* where the read is, or "idle"
    at,         \* the index of the marker scan
    rest,       \* what read_buffer_mud() has still to parse of mccp_buffer
    text,       \* what it has stored through cpdest
    shown       \* what the player has been shown

mud == <<wire, sent, asked, items, zip>>
mccp == <<stream, inbuf, outbuf, got_v2, resp_v1, resp_v2, error>>
lines == <<more_coming, old_more_coming, last_line, shown>>
vars == <<mud, answers, mccp, telnet_buf, lines, pc, at, rest, text>>

Byte == 0 .. Z_END
First(positions) == IF positions = {} THEN 0 ELSE Min(positions)
Points == {"idle", "scan", "inflate", "get", "parse", "respond", "lines"}

TypeOK ==
    /\ wire \in Seq([byte : Byte, last : BOOLEAN, text : BOOLEAN])
    /\ sent \in Seq(Byte) /\ shown \in Seq(Byte)
    /\ asked \in Seq(Verbs \X Byte) /\ answers \in Seq((Verbs \cup {SB}) \X Byte)
    /\ items \in Nat /\ zip \in {"plain", "zipped", "ended"}
    /\ stream \in BOOLEAN /\ inbuf \in Seq(Byte) /\ outbuf \in Seq(Byte)
    /\ got_v2 \in BOOLEAN /\ resp_v1 \in {-1, 0, 1} /\ resp_v2 \in BOOLEAN
    /\ error \in BOOLEAN
    /\ telnet_buf \in Seq(Byte)
    /\ more_coming \in BOOLEAN /\ old_more_coming \in BOOLEAN
    /\ last_line \in Seq(Byte)
    /\ pc \in Points /\ at \in Nat
    /\ rest \in Seq(Byte) /\ text \in Seq(Byte)

Init ==
    /\ wire = <<>> /\ sent = <<>> /\ asked = <<>> /\ items = 0 /\ zip = "plain"
    /\ answers = <<>>
    /\ stream = FALSE /\ inbuf = <<>> /\ outbuf = <<>>
    /\ got_v2 = FALSE /\ resp_v1 = 0 /\ resp_v2 = FALSE /\ error = FALSE
    /\ telnet_buf = <<>>
    /\ more_coming = FALSE /\ old_more_coming = FALSE /\ last_line = <<>>
    /\ pc = "idle" /\ at = 1 /\ rest = <<>> /\ text = <<>>
    /\ shown = <<>>

-----------------------------------------------------------------------------
(* The mud. *)

Shown(item) ==      \* the text of an item
    CASE item = "letter"  -> <<97 + (items % 26)>>
      [] item = "newline" -> <<NL>>
      [] item = "literal" -> <<IAC>>
      [] OTHER            -> <<>>

Encoded(item) ==
    CASE item = "literal"   -> <<IAC, IAC>>
      [] item = "nul"       -> <<0>>
      [] item = "goahead"   -> <<IAC, GA>>
      [] item = "ttype"     -> <<IAC, SB, TERMINAL_TYPE, SEND, IAC, SE>>
      [] OTHER              -> Shown(item)

OnTheWire(bytes, isText) ==
    [i \in 1..Len(bytes) |->
        [byte |-> IF zip = "zipped" /\ bytes[i] # Z_END THEN ZIP + bytes[i] ELSE bytes[i],
         last |-> i = Len(bytes), text |-> isText]]

Sends(bytes, isText) ==
    /\ pc = "idle" /\ items < MaxItems
    /\ items' = items + 1
    /\ wire' = wire \o OnTheWire(bytes, isText)
    /\ UNCHANGED <<answers, mccp, telnet_buf, lines, pc, at, rest, text>>

SendText(item) ==
    /\ Sends(Encoded(item), Shown(item) # <<>>)
    /\ sent' = sent \o Shown(item)
    /\ UNCHANGED <<asked, zip>>

SendRequest(verb, option) ==
    /\ Sends(<<IAC, verb, option>>, FALSE)
    /\ asked' = Append(asked, <<verb, option>>)
    /\ UNCHANGED <<sent, zip>>

Offered(version) == \E i \in 1..Len(asked) : asked[i] = <<WILL, version>>

\* One offer of each version, and none while it compresses.
Offer(version) ==
    /\ zip = "plain" /\ ~Offered(version)
    /\ version = COMPRESS2 /\ ~V1First => ~Offered(COMPRESS)
    /\ SendRequest(WILL, version)

StartZip(version) ==
    /\ zip = "plain"
    /\ \E i \in 1..Len(answers) : answers[i] = <<DO, version>>
    /\ Sends(<<IAC, SB, version>> \o (IF version = COMPRESS THEN <<WILL, SE>> ELSE <<IAC, SE>>),
             FALSE)
    /\ zip' = "zipped"
    /\ UNCHANGED <<sent, asked>>

EndZip ==
    /\ zip = "zipped"
    /\ Sends(<<Z_END>>, FALSE)
    /\ zip' = "ended"
    /\ UNCHANGED <<sent, asked>>

-----------------------------------------------------------------------------
(* MCCP. *)

More(n) == n = INPUT_CHUNK

\* recv() returns n bytes; mudcompress_receive() begins.
Recv(n) ==
    /\ pc = "idle"
    /\ n <= INPUT_CHUNK /\ n <= Len(wire)
    /\ Splits \/ wire[n].last
    /\ Silence \/ More(n) \/ \E i \in 1..n : wire[i].text
    /\ LET data == [i \in 1..n |-> wire[i].byte] IN
         IF error THEN /\ pc' = "respond"
                       /\ UNCHANGED <<inbuf, outbuf>>
         ELSE IF stream THEN /\ inbuf' = inbuf \o data
                             /\ pc' = "inflate"
                             /\ UNCHANGED outbuf
         ELSE /\ outbuf' = outbuf \o data
              /\ pc' = "scan"
              /\ UNCHANGED inbuf
    /\ wire' = SubSeq(wire, n + 1, Len(wire))
    /\ old_more_coming' = more_coming
    /\ more_coming' = More(n)
    /\ UNCHANGED <<sent, asked, items, zip, answers, stream, got_v2, resp_v1, resp_v2,
                   error, telnet_buf, last_line, at, rest, text, shown>>

will_v1 == <<IAC, WILL, COMPRESS>>
will_v2 == <<IAC, WILL, COMPRESS2>>
on_v1 == <<IAC, SB, COMPRESS, WILL, SE>>
on_v2 == <<IAC, SB, COMPRESS2, IAC, SE>>

\* The buffer from here on starts with the marker, or ends within it.
Here == SubSeq(outbuf, at, Len(outbuf))
Matches(marker) == IsPrefix(marker, Here) \/ IsPrefix(Here, marker)
MutantOnV1 == on_v1
On == IF got_v2 THEN on_v2 ELSE on_v1
Marker ==
    IF Matches(will_v1) THEN will_v1
    ELSE IF Matches(will_v2) THEN will_v2
    ELSE IF Matches(On) THEN On ELSE <<>>

Scanning == pc = "scan" /\ at <= Len(outbuf)
Escape == outbuf[at] = IAC /\ at < Len(outbuf) /\ outbuf[at + 1] = IAC
AtMarker(marker) == Scanning /\ outbuf[at] = IAC /\ ~Escape /\ Marker = marker

ScanPlain ==        \* no marker here
    /\ Scanning
    /\ \/ outbuf[at] # IAC /\ at' = at + 1
       \/ Escape /\ at' = at + 2
       \/ AtMarker(<<>>) /\ at' = at + 1
    /\ UNCHANGED <<mud, answers, mccp, telnet_buf, lines, pc, rest, text>>

\* It is not all here.  The code copies it to inbuf, but does not count it
\* (insize stays 0), and cuts it off outbuf: it is gone.
ScanPartial ==
    /\ \E marker \in {will_v1, will_v2, On} :
         Len(Here) < Len(marker) /\ AtMarker(marker)
    /\ outbuf' = SubSeq(outbuf, 1, at - 1)
    /\ pc' = "get" /\ at' = 1
    /\ UNCHANGED <<mud, answers, stream, inbuf, got_v2, resp_v1, resp_v2, error,
                   telnet_buf, lines, rest, text>>

ScanWill ==         \* an offer: cut it out
    /\ \E marker \in {will_v1, will_v2} :
         /\ AtMarker(marker) /\ Len(Here) >= Len(marker)
         /\ IF marker = will_v1
            THEN /\ resp_v1' = IF got_v2 THEN -1 ELSE 1
                 /\ UNCHANGED <<resp_v2, got_v2>>
            ELSE resp_v2' = TRUE /\ got_v2' = TRUE /\ UNCHANGED resp_v1
    /\ outbuf' = SubSeq(outbuf, 1, at - 1) \o SubSeq(outbuf, at + 3, Len(outbuf))
    /\ UNCHANGED <<mud, answers, stream, inbuf, error, telnet_buf, lines, pc, at, rest,
                   text>>

ScanOn ==           \* compression starts with the next byte
    /\ AtMarker(On) /\ Len(Here) >= Len(On)
    /\ inbuf' = SubSeq(outbuf, at + 5, Len(outbuf))
    /\ outbuf' = SubSeq(outbuf, 1, at - 1)
    /\ stream' = TRUE
    /\ pc' = "inflate" /\ at' = 1
    /\ UNCHANGED <<mud, answers, got_v2, resp_v1, resp_v2, error, telnet_buf, lines,
                   rest, text>>

ScanEnds ==
    /\ pc = "scan" /\ at > Len(outbuf)
    /\ pc' = "get" /\ at' = 1
    /\ UNCHANGED <<mud, answers, mccp, telnet_buf, lines, rest, text>>

\* decompress_inbuf(): all it can of inbuf; what follows the end is plain.
ZipEnd == First({i \in 1..Len(inbuf) : inbuf[i] = Z_END})
MutantTail == <<>>
Tail_ == IF ZipEnd = 0 THEN <<>> ELSE SubSeq(inbuf, ZipEnd + 1, Len(inbuf))
Zipped == IF ZipEnd = 0 THEN inbuf ELSE SubSeq(inbuf, 1, ZipEnd - 1)

Inflate ==
    /\ pc = "inflate"
    /\ IF \A i \in 1..Len(Zipped) : Zipped[i] \in ZIP .. Z_END - 1
       THEN /\ outbuf' = outbuf \o [i \in 1..Len(Zipped) |-> Zipped[i] - ZIP] \o Tail_
            /\ inbuf' = <<>>
            /\ stream' = (ZipEnd = 0)
            /\ UNCHANGED error
       ELSE error' = TRUE /\ UNCHANGED <<stream, inbuf, outbuf>>
    /\ pc' = "get"
    /\ UNCHANGED <<mud, answers, got_v2, resp_v1, resp_v2, telnet_buf, lines, at, rest,
                   text>>

-----------------------------------------------------------------------------
(* read_buffer_mud(): the telnet parser. *)

Pending == ~error /\ outbuf # <<>>

\* The bytes kept from the last read go in front of the new ones, but the loop
\* counts the new ones only.
Get ==
    /\ pc = "get" /\ Pending
    /\ rest' = SubSeq(telnet_buf \o outbuf, 1, Len(outbuf))
    /\ telnet_buf' = <<>> /\ outbuf' = <<>>
    /\ pc' = "parse"
    /\ UNCHANGED <<mud, answers, stream, inbuf, got_v2, resp_v1, resp_v2, error, lines,
                   at, text>>

GetEnds ==
    /\ pc = "get" /\ ~Pending
    /\ pc' = "respond"
    /\ UNCHANGED <<mud, answers, mccp, telnet_buf, lines, at, rest, text>>

ParseByte ==
    /\ pc = "parse" /\ rest # <<>> /\ Head(rest) # IAC
    /\ text' = IF Head(rest) = 0 THEN text ELSE Append(text, Head(rest))
    /\ rest' = Tail(rest)
    /\ UNCHANGED <<mud, answers, mccp, telnet_buf, lines, pc, at>>

\* Where the subnegotiation rest begins with ends, or 0: at a SE after an odd
\* number of IACs.
EndOfSub ==
    LET Iacs(i) == Cardinality({j \in 3..i - 1 : \A k \in j..i - 1 : rest[k] = IAC})
    IN  First({i \in 4..Len(rest) : rest[i] = SE /\ Iacs(i) % 2 = 1})

Command == rest[2]
Telnet == pc = "parse" /\ rest # <<>> /\ Head(rest) = IAC
Whole ==
    /\ Len(rest) >= 2
    /\ Command \in Verbs => Len(rest) >= 3
    /\ Command = SB => EndOfSub # 0

\* do_telnet_protocol() returns -1
ParsePartial ==
    /\ Telnet /\ ~Whole
    /\ telnet_buf' = telnet_buf \o rest
    /\ rest' = <<>>
    /\ UNCHANGED <<mud, answers, mccp, lines, pc, at, text>>

MutantRefusal(verb) == verb + (DONT - WILL)
Refusal(verb) == IF verb \in {WILL, WONT} THEN DONT ELSE WONT

Answer(verb, option) ==
    CASE option \in {ECHO, END_OF_RECORD, MSSP} /\ verb = WILL -> DO
      [] option \in {TERMINAL_TYPE, MSSP} /\ verb = DO         -> WILL
      [] OTHER                                                -> Refusal(verb)

ParseRequest ==
    /\ Telnet /\ Whole /\ Command \in Verbs
    /\ answers' = Append(answers, <<Answer(Command, rest[3]), rest[3]>>)
    /\ rest' = SubSeq(rest, 4, Len(rest))
    /\ UNCHANGED <<mud, mccp, telnet_buf, lines, pc, at, text>>

\* The one subnegotiation that is answered: what is the terminal?
ParseSub ==
    /\ Telnet /\ Whole /\ Command = SB
    /\ answers' = IF rest[3] = TERMINAL_TYPE /\ rest[4] = SEND
                  THEN Append(answers, <<SB, TERMINAL_TYPE>>) ELSE answers
    /\ rest' = SubSeq(rest, EndOfSub + 1, Len(rest))
    /\ UNCHANGED <<mud, mccp, telnet_buf, lines, pc, at, text>>

ParseOther ==
    /\ Telnet /\ Whole /\ Command \notin Verbs \cup {SB}
    /\ text' = IF Command = IAC THEN Append(text, IAC) ELSE text
    /\ rest' = SubSeq(rest, 3, Len(rest))
    /\ UNCHANGED <<mud, answers, mccp, telnet_buf, lines, pc, at>>

ParseEnds ==
    /\ pc = "parse" /\ rest = <<>>
    /\ pc' = "get"
    /\ UNCHANGED <<mud, answers, mccp, telnet_buf, lines, at, rest, text>>

\* mudcompress_response(): one per read; an answer to COMPRESS goes first.
MutantForget == FALSE
StillOwed == resp_v2
Respond ==
    /\ pc = "respond"
    /\ IF resp_v1 # 0
       THEN /\ answers' = Append(answers, <<IF resp_v1 = 1 THEN DO ELSE DONT, COMPRESS>>)
            /\ resp_v1' = 0
            /\ resp_v2' = StillOwed
       ELSE /\ answers' = IF resp_v2 THEN Append(answers, <<DO, COMPRESS2>>) ELSE answers
            /\ resp_v2' = FALSE
            /\ UNCHANGED resp_v1
    /\ pc' = IF text = <<>> THEN "idle" ELSE "lines"
    /\ UNCHANGED <<mud, stream, inbuf, outbuf, got_v2, error, telnet_buf, lines, at, rest,
                   text>>

-----------------------------------------------------------------------------
(* readmud(): the lines. *)

MutantMerges == more_coming /\ last_line # <<>>
Merges == old_more_coming /\ last_line # <<>>
MutantLeftover == last_line
Leftover == IF Merges THEN <<>> ELSE last_line

\* How much of buf is shown: all, but while more is coming not the last line.
Complete(buf) ==
    IF more_coming THEN Max({0} \cup {i \in 1..Len(buf) : buf[i] = NL}) ELSE Len(buf)

Display ==
    /\ pc = "lines"
    /\ LET buf == IF Merges THEN last_line \o text ELSE text
           kept == SubSeq(buf, Complete(buf) + 1, Len(buf))
       IN  /\ shown' = shown \o SubSeq(buf, 1, Complete(buf))
           /\ last_line' = IF kept # <<>> THEN kept ELSE Leftover
    /\ text' = <<>>
    /\ pc' = "idle"
    /\ UNCHANGED <<mud, answers, mccp, telnet_buf, more_coming, old_more_coming, at, rest>>

-----------------------------------------------------------------------------
Mud ==
    \/ \E item \in Items : SendText(item)
    \/ \E request \in Requests : SendRequest(request[1], request[2])
    \/ \E version \in Versions : Offer(version) \/ StartZip(version)
    \/ EndZip
Mccp == ScanPlain \/ ScanPartial \/ ScanWill \/ ScanOn \/ ScanEnds \/ Inflate
Parse == Get \/ GetEnds \/ ParseByte \/ ParsePartial \/ ParseRequest \/ ParseSub
           \/ ParseOther \/ ParseEnds \/ Respond
Read == \E n \in 1..INPUT_CHUNK : Recv(n)

Next == Mud \/ Read \/ Mccp \/ Parse \/ Display

Spec == Init /\ [][Next]_vars

-----------------------------------------------------------------------------
(* Properties *)

\* What is shown is what the mud sent, in its order, nothing twice and nothing
\* left out: the three buffers that outlive a read agree on who keeps what.
S == INSTANCE Stream
ImplementsStream == S!Spec

\* When everything that arrived has been read, all of it is shown, but for a last
\* line that a full read may have cut.
Caught == pc = "idle" /\ wire = <<>>
NothingHeldBack ==
    Caught => shown \o (IF more_coming THEN last_line ELSE <<>>) = sent

\* Every request of the mud is answered once: by the telnet parser, or by the MCCP
\* layer that takes the request out of the stream, which may owe an answer till
\* the next read.
Owed(option) ==
    IF (option = COMPRESS /\ resp_v1 # 0) \/ (option = COMPRESS2 /\ resp_v2) THEN 1 ELSE 0
Count(seq, option) ==     \* a SB tells the terminal type, it accepts or refuses nothing
    Cardinality({i \in 1..Len(seq) : seq[i][2] = option /\ seq[i][1] # SB})
AnsweredOnce ==
    Caught => \A i \in 1..Len(asked) : LET option == asked[i][2] IN
                Count(asked, option) = Count(answers, option) + Owed(option)

\* Wherever the stream is cut, as long as no compression is offered, no letter is
\* shown twice and no request answered twice, though both may be lost.
Letter(b) == b \in 97 .. 97 + 25
NothingTwice ==
    /\ \A i, j \in 1..Len(shown) : shown[i] = shown[j] /\ Letter(shown[i]) => i = j
    /\ \A i \in 1..Len(asked) : Count(answers, asked[i][2]) <= Count(asked, asked[i][2])

\* Client and mud switch to compression, and back, at the same byte.
InStep == Caught => ~error /\ (stream <=> zip = "zipped")

=============================================================================
