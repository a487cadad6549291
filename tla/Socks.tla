-------------------------------- MODULE Socks -----------------------------
(***************************************************************************)
(* The SOCKS dialogue (socks.c) that connection_part_two() runs over a     *)
(* blocking socket before the mud's session exists, with the proxy at the  *)
(* other end of a byte stream.  The proxy is external: the protocols' own  *)
(* (SOCKS 4, RFC 1928 and 1929).                                           *)
(*                                                                         *)
(* Abstracted: addresses, ports and credentials to bytes of no meaning;    *)
(* the reason of a failure to an error that is not 0.                      *)
(***************************************************************************)
EXTENDS Integers, Sequences, SequencesExt

CONSTANTS
    Protocols,          \* what the user may set: 4, or any number, which means 5
    socks_user, socks_password,     \* the lengths of the credentials
    Proxies,            \* the versions a proxy may speak
    Methods,            \* the methods it may choose: 0, 2 or 255
    Bound,              \* the lengths its SOCKS 5 reply may have
    MaxMud              \* bound: bytes of the mud

MUD == 256              \* stands for a byte of the mud
ANY == 257              \* stands for a byte of an address, a port or a name
BUFFER == 1024
STEPS == 20

ASSUME SocksAssumption ==
    /\ Protocols \subseteq Nat /\ socks_user \in 0..31 /\ socks_password \in 0..31
    /\ Proxies \subseteq {4, 5} /\ Methods \subseteq {0, 2, 255}
    /\ Bound \subseteq Nat /\ \A n \in Bound : n >= 10
    /\ MaxMud \in Nat

VARIABLES
    socks_protocol,     \* prefs.socks_protocol
    state, nextstate, datalen, datadone,    \* of struct connreq
    buffer,         \* its bytes that were written since the dialogue began
    rc, i,          \* of handle_request()
    to_proxy, from_proxy,   \* bytes in flight
    line,           \* "open", "closed" in good order, or "reset"
    proxy,          \* what the proxy waits for
    speaks,         \* its version
    bound,          \* the length of the address it will tell
    mud             \* what the session reads

client == <<state, nextstate, datalen, datadone, buffer, rc, i>>
fixed == <<socks_protocol, speaks, bound>>
vars == <<fixed, client, to_proxy, from_proxy, line, proxy, mud>>

Error == 1          \* any errno
Byte == 0..255 \cup {ANY}
Sent == {"SENTV4REQ", "SENTV5METHOD", "SENTV5AUTH", "SENTV5CONNECT"}
Got == {"GOTV4REQ", "GOTV5METHOD", "GOTV5AUTH", "GOTV5CONNECT"}

TypeOK ==
    /\ state \in {"CONNECTED", "SENDING", "RECEIVING", "DONE", "CONNFAILED"} \cup Sent \cup Got
    /\ nextstate \in {"NONE"} \cup Sent \cup Got
    /\ 0 <= datadone /\ datadone <= datalen /\ datalen <= Len(buffer) /\ Len(buffer) <= BUFFER
    /\ \A k \in DOMAIN buffer : buffer[k] \in Byte
    /\ rc \in {0, Error} /\ i \in 0..STEPS
    /\ line \in {"open", "closed", "reset"}
    /\ proxy \in {"request", "method", "auth", "connect", "relay", "gone"}
    /\ socks_protocol \in Protocols /\ speaks \in Proxies /\ bound \in Bound

Init ==
    /\ state = "CONNECTED" /\ nextstate = "NONE" /\ datalen = 0 /\ datadone = 0
    /\ buffer = <<>> /\ rc = 0 /\ i = 0
    /\ to_proxy = <<>> /\ from_proxy = <<>> /\ line = "open"
    /\ socks_protocol \in Protocols /\ speaks \in Proxies /\ bound \in Bound
    /\ proxy = IF speaks = 4 THEN "request" ELSE "method"
    /\ mud = <<>>

-----------------------------------------------------------------------------
(* The client.  One iteration of handle_request() is a step, or, in SENDING  *)
(* and RECEIVING, one step per send() or recv() it makes.                    *)

\* Mutant: an error does not end the loop, nor does the number of steps.
MutantKeepsTrying == state \notin {"CONNFAILED", "DONE"}
Looping == rc = 0 /\ state \notin {"CONNFAILED", "DONE"} /\ i < STEPS
Returned == ~Looping
Iteration(s) == Looping /\ state = s /\ i' = i + 1

Anys(n) == [k \in 1..n |-> ANY]
Overlay(old, at, new) ==
    SubSeq(old, 1, at) \o new \o SubSeq(old, at + Len(new) + 1, Len(old))

Sending(bytes, next) ==
    /\ state' = "SENDING" /\ nextstate' = next
    /\ buffer' = Overlay(buffer, 0, bytes)
    /\ datalen' = Len(bytes) /\ datadone' = 0
    /\ UNCHANGED rc

Refused ==
    /\ state' = "CONNFAILED" /\ rc' = Error
    /\ UNCHANGED <<nextstate, datalen, datadone, buffer>>

send_socksv4_request == Sending(<<4, 1>> \o Anys(6) \o <<0>>, "SENTV4REQ")
send_socksv5_method == Sending(<<5, 2, 0, 2>>, "SENTV5METHOD")

send_socksv5_connect == Sending(<<5, 1, 0, 1>> \o Anys(6), "SENTV5CONNECT")

send_socks_request ==
    /\ Iteration("CONNECTED")
    /\ IF socks_protocol = 4 THEN send_socksv4_request ELSE send_socksv5_method

\* Mutant: the end of the message is not noticed.
MutantPast(next, n) ==
    /\ datadone' = datadone + n
    /\ UNCHANGED <<state, i>>

\* Mutant: a part of a message is an iteration of its own.
MutantPerPart(next, n) ==
    /\ datadone' = datadone + n
    /\ i' = i + 1
    /\ IF datadone' = datalen THEN state' = next ELSE UNCHANGED state

\* send_buffer() and recv_buffer(): the message goes on, or it is complete.
Moved(next, n) ==
    /\ datadone' = datadone + n
    /\ IF datadone' = datalen
       THEN state' = next /\ i' = i + 1
       ELSE UNCHANGED <<state, i>>

send_buffer(n) ==
    /\ Looping /\ state = "SENDING" /\ line # "reset"
    /\ n \in 1..datalen - datadone
    /\ to_proxy' = to_proxy \o SubSeq(buffer, datadone + 1, datadone + n)
    /\ Moved(nextstate, n)
    /\ UNCHANGED <<nextstate, datalen, buffer, rc, from_proxy, line, proxy, fixed, mud>>

recv_buffer(n) ==
    /\ Looping /\ state = "RECEIVING" /\ line # "reset"
    /\ n \in 1..datalen - datadone /\ n <= Len(from_proxy)
    /\ buffer' = Overlay(buffer, datadone, SubSeq(from_proxy, 1, n))
    /\ from_proxy' = SubSeq(from_proxy, n + 1, Len(from_proxy))
    /\ Moved(nextstate, n)
    /\ UNCHANGED <<nextstate, datalen, rc, to_proxy, line, proxy, fixed, mud>>

\* send() or recv() fails, or the proxy has closed: errno then is whatever an
\* earlier call left, here never 0.
Broken ==
    /\ Looping /\ state \in {"SENDING", "RECEIVING"}
    /\ \/ line = "reset"
       \/ line = "closed" /\ state = "RECEIVING" /\ from_proxy = <<>>
    /\ rc' = Error /\ i' = i + 1
    /\ UNCHANGED <<state, nextstate, datalen, datadone, buffer,
                   to_proxy, from_proxy, line, proxy, fixed, mud>>

OnlyClient == UNCHANGED <<to_proxy, from_proxy, line, proxy, fixed, mud>>

Reply(sent) ==
    CASE sent = "SENTV4REQ" -> [len |-> 8, got |-> "GOTV4REQ"]
      [] sent = "SENTV5METHOD" -> [len |-> 2, got |-> "GOTV5METHOD"]
      [] sent = "SENTV5AUTH" -> [len |-> 2, got |-> "GOTV5AUTH"]
      [] sent = "SENTV5CONNECT" -> [len |-> 10, got |-> "GOTV5CONNECT"]

Receive(sent) ==
    /\ Iteration(sent)
    /\ state' = "RECEIVING" /\ nextstate' = Reply(sent).got
    /\ datalen' = Reply(sent).len /\ datadone' = 0
    /\ buffer' = buffer \o Anys(IF Len(buffer) < datalen' THEN datalen' - Len(buffer) ELSE 0)
    /\ UNCHANGED rc

Credentials == <<1, socks_user>> \o Anys(socks_user) \o <<socks_password>> \o Anys(socks_password)

read_socksv5_method ==
    /\ Iteration("GOTV5METHOD")
    /\ CASE buffer[2] = 255 -> Refused
         [] buffer[2] = 2 -> IF 3 + socks_user + socks_password >= BUFFER THEN Refused
                             ELSE Sending(Credentials, "SENTV5AUTH")
         [] OTHER -> send_socksv5_connect

\* Mutant: the status is not looked at.
MutantAnyStatus(ok) ==
    /\ state' = "DONE"
    /\ UNCHANGED <<nextstate, datalen, datadone, buffer, rc>>

Granted(ok) ==
    IF buffer[2] # ok THEN Refused
    ELSE /\ state' = "DONE"
         /\ UNCHANGED <<nextstate, datalen, datadone, buffer, rc>>

read_socksv5_auth ==
    /\ Iteration("GOTV5AUTH")
    /\ IF buffer[2] # 0 THEN Refused ELSE send_socksv5_connect

read_socksv5_connect == Iteration("GOTV5CONNECT") /\ Granted(0)
read_socksv4_req == Iteration("GOTV4REQ") /\ Granted(90)

\* connection_part_two() goes on: the session reads what follows.
ReadMud ==
    /\ Returned /\ rc = 0 /\ from_proxy # <<>>
    /\ mud' = Append(mud, Head(from_proxy))
    /\ from_proxy' = Tail(from_proxy)
    /\ UNCHANGED <<client, to_proxy, line, proxy, fixed>>

handle_request ==
    \/ send_socks_request /\ OnlyClient
    \/ \E n \in 1..BUFFER : n <= datalen - datadone /\ send_buffer(n)
    \/ \E n \in 1..BUFFER : n <= datalen - datadone /\ recv_buffer(n)
    \/ Broken
    \/ \E sent \in Sent : Receive(sent) /\ OnlyClient
    \/ read_socksv5_method /\ OnlyClient
    \/ read_socksv5_auth /\ OnlyClient
    \/ read_socksv5_connect /\ OnlyClient
    \/ read_socksv4_req /\ OnlyClient

-----------------------------------------------------------------------------
(* The proxy. *)

\* The length of the request it waits for, once it can tell.
Whole(waits, s) ==
    CASE waits = "request" -> Len(s) >= 9
      [] waits = "method" -> Len(s) >= 2 /\ Len(s) >= 2 + s[2]
      [] waits = "auth" -> /\ Len(s) >= 2 /\ Len(s) >= 3 + s[2]
                           /\ Len(s) >= 3 + s[2] + s[s[2] + 3]
      [] waits = "connect" -> Len(s) >= 10
      [] OTHER -> FALSE

Version == [request |-> 4, method |-> 5, auth |-> 1, connect |-> 5]
Waiting == line = "open" /\ proxy \in DOMAIN Version
Foreign == to_proxy[1] # Version[proxy]
Understood == Waiting /\ Whole(proxy, to_proxy) /\ ~Foreign

Answers(bytes, next, end) ==
    /\ from_proxy' = from_proxy \o bytes
    /\ to_proxy' = <<>> /\ proxy' = next /\ line' = end
    /\ UNCHANGED <<fixed, client, mud>>

Answers4(result) ==
    /\ Understood /\ proxy = "request"
    /\ IF result = 90
       THEN Answers(<<0, 90>> \o Anys(6), "relay", "open")
       ELSE Answers(<<0, result>> \o Anys(6), "gone", "closed")

ChoosesMethod(m) ==
    /\ Understood /\ proxy = "method"
    /\ CASE m = 255 -> Answers(<<5, m>>, "gone", "closed")
         [] m = 2 -> Answers(<<5, m>>, "auth", "open")
         [] m = 0 -> Answers(<<5, m>>, "connect", "open")

ChecksCredentials(status) ==
    /\ Understood /\ proxy = "auth"
    /\ IF status = 0 THEN Answers(<<1, status>>, "connect", "open")
                     ELSE Answers(<<1, status>>, "gone", "closed")

Answers5(reply) ==
    /\ Understood /\ proxy = "connect"
    /\ IF reply = 0
       THEN Answers(<<5, reply, 0, 1>> \o Anys(bound - 4), "relay", "open")
       ELSE Answers(<<5, reply, 0, 1>> \o Anys(6), "gone", "closed")

Misunderstood ==
    /\ Waiting /\ to_proxy # <<>> /\ Foreign
    /\ Answers(<<>>, "gone", "closed")

Relays ==
    /\ line = "open" /\ proxy = "relay"
    /\ Len(SelectSeq(from_proxy \o mud, LAMBDA b : b = MUD)) < MaxMud
    /\ from_proxy' = Append(from_proxy, MUD)
    /\ UNCHANGED <<client, to_proxy, line, proxy, fixed, mud>>

\* The proxy, or the network, goes away at any time.
Breaks ==
    /\ line = "open"
    /\ line' \in {"closed", "reset"}
    /\ proxy' = IF proxy = "relay" THEN "relay" ELSE "gone"
    /\ from_proxy' = IF line' = "reset" THEN <<>> ELSE from_proxy
    /\ UNCHANGED <<fixed, client, to_proxy, mud>>

Proxy ==
    \/ \E result \in {90, 91} : Answers4(result)
    \/ \E m \in Methods : ChoosesMethod(m)
    \/ \E status \in {0, 1} : ChecksCredentials(status)
    \/ \E reply \in {0, 5} : Answers5(reply)
    \/ Misunderstood

Next == handle_request \/ ReadMud \/ Proxy \/ Relays \/ Breaks

Spec == Init /\ [][Next]_vars

\* send() and recv() return when they can, and the proxy answers what it
\* understands: nothing makes it do so, and until it does the program hangs.
FairSpec == Spec /\ WF_vars(handle_request) /\ WF_vars(Proxy)

-----------------------------------------------------------------------------
(* Properties *)

\* handle_request() returns 0, which connection_part_two() takes for success,
\* only when the proxy granted the connection, never because its 20 steps ran
\* out; and what the session then reads is the mud, from its first byte, unless
\* the proxy told an address that is not the 10 bytes recv_buffer() waits for.
SuccessIsGranted ==
    Returned /\ rc = 0 =>
        /\ state = "DONE"
        /\ proxy = "relay"
        /\ bound = 10 => Range(mud \o from_proxy) \subseteq {MUD}

\* handle_request() comes nowhere near its last iteration, which it would take for
\* a loop of states: not with the longest dialogue, and not with messages that
\* come byte by byte.
BudgetLasts == i < STEPS

\* Whatever the proxy answers, and however the messages are cut, the handshake,
\* during which the program does nothing else, comes to an end.
HandshakeEnds == <>Returned
=============================================================================
