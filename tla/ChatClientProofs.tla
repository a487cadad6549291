-------------------------- MODULE ChatClientProofs --------------------------
(***************************************************************************)
(* Proofs about the chat client, for any number of connections, tokens and *)
(* frames, any size of the buffer and messages of any length: its types    *)
(* (TypeCorrect), one source and no leaked descriptor unless two           *)
(* #chconnect nest (SourceIsSingle), the stream of the server shown in     *)
(* order and whole (StreamIsWhole), a message that waits for the next one  *)
(* only after a burst (BehindIsBounded), and no server dropped but for a   *)
(* message that alone is too long for the buffer (DropsOnlyTooLong).       *)
(***************************************************************************)
EXTENDS ChatClient, SequenceTheorems, WellFoundedInduction, TLAPS

(***************************************************************************)
(* The inductive invariant, in five parts.                                 *)
(*                                                                         *)
(* Types: what TypeOK says but for the descriptors.                        *)
(* Sockets: a source, a socket and a buffer name the same connection while *)
(*     connected; a #chconnect half way holds a descriptor of its own.     *)
(* Single: what OneSource says, because a #chconnect that is alone is on   *)
(*     top of the stack, and disconnected before it began.                 *)
(* Streams: what NothingLost says; and nothing was taken from a connection *)
(*     that is not the client's yet.                                       *)
(* Lines: of the frames that point into the buffer one at most points into *)
(*     the buffer there is, that on top (Serving); it finds a message      *)
(*     there, one alone but for a burst.  Without it there is one only     *)
(*     after a burst, and then there is room in the buffer.                *)
(***************************************************************************)
Types ==
    /\ chat_input \in 0..MaxConns /\ chat_socket \in 0..MaxConns
    /\ chat_buffer \in 0..MaxConns
    /\ held \in Seq(Token) /\ Len(held) < CHAT_SIZE
    /\ stack \in Seq(Frame) /\ made \in 0..MaxConns
    /\ wire \in [Conn -> Seq(Token)] /\ shown \in [Conn -> Seq(Token)]
    /\ sent \in [Conn -> Seq(Token)] /\ closed \in [Conn -> BOOLEAN]
    /\ nested \in BOOLEAN /\ burst \in BOOLEAN /\ dropped \in BOOLEAN
    /\ fault \in {"none", "freed_buffer"}

\* A frame that serves a line, and one of a #chconnect half way.
InLine(f) == f.pc \in {"line", "line_end"}
HalfWay(f) == f.pc \in {"drain_before", "drain_after"}

Sockets ==
    /\ sources \subseteq open /\ open \subseteq 1..made /\ chat_socket <= made
    /\ chat_input # 0 => /\ chat_socket = chat_input /\ chat_buffer = chat_input
                         /\ chat_input \in sources
    /\ chat_input = 0 => chat_socket \notin open
    /\ \A i \in 1..Len(stack) : stack[i].pc = "drain_after" =>
            stack[i].conn \in open \ (sources \cup {chat_socket})
    /\ \A i, j \in 1..Len(stack) :
            stack[i].pc = "drain_after" /\ stack[j].pc = "drain_after"
            /\ stack[i].conn = stack[j].conn => i = j

Alone ==
    /\ sources = {chat_input} \ {0} /\ open = sources \cup Pending
    /\ \A i \in 1..Len(stack) : HalfWay(stack[i]) => i = Len(stack) /\ chat_input = 0

Single == ~nested => Alone

Streams ==
    /\ chat_input # 0 =>
            shown[chat_input] \o held \o wire[chat_input] = sent[chat_input]
    /\ \A c \in Conn : c > made \/ c \in Pending =>
            shown[c] = <<>> /\ wire[c] = sent[c]

\* The frame on top is one that shows what the buffer holds.
Serving == stack # <<>> /\ InLine(Top) /\ Top.buf = chat_buffer

OneMark(tokens) == \A i, j \in Marks(tokens) : i = j

Reading ==
    /\ \A i \in 1..Len(stack) :
            InLine(stack[i]) /\ stack[i].buf = chat_buffer => i = Len(stack)
    /\ IF Serving
       THEN Marks(held) # {} /\ (~burst => OneMark(held))
       ELSE Marks(held) = {} \/ (burst /\ Len(held) <= CHAT_SIZE - 2)

Lines ==
    /\ \A i \in 1..Len(stack) : InLine(stack[i]) => stack[i].buf \in 1..made \ Pending
    /\ chat_input # 0 => Reading

IInv == Types /\ Sockets /\ Single /\ Streams /\ Lines

-----------------------------------------------------------------------------
(* The stack. *)

Alike(f, g) ==
    /\ f.conn = g.conn /\ f.buf = g.buf
    /\ f.pc = g.pc \/ (InLine(f) /\ InLine(g))

\* The first m frames stay, and one more at most follows them.
Keeps(m) ==
    /\ m \in 0..Len(stack)
    /\ Len(stack') \in {m, m + 1}
    /\ \A i \in 1..m : Alike(stack'[i], stack[i])

\* The frame on top taken off, and replaced.
LEMMA FrontLemma ==
    ASSUME NEW st \in Seq(Frame), st # <<>>
    PROVE  /\ Len(st) \in Nat \ {0} /\ Last(st) = st[Len(st)] /\ Last(st) \in Frame
           /\ Front(st) \in Seq(Frame) /\ Len(Front(st)) = Len(st) - 1
           /\ \A i \in 1..Len(st) - 1 : Front(st)[i] = st[i]
<1>1. Len(st) \in Nat \ {0}
  BY EmptySeq, LenProperties
<1>2. st[Len(st)] \in Frame
  BY <1>1, ElementOfSeq
<1> DEFINE n == Len(st) - 1
<1>3. /\ n \in Nat /\ n - 1 + 1 = n
      /\ ~(1 <= n) => n = 0
      /\ \A i \in 1..n : 1 + i - 1 = i /\ i \in 1..Len(st)
  <2>1. \A k \in Nat \ {0} : /\ k - 1 \in Nat /\ k - 1 - 1 + 1 = k - 1
                             /\ ~(1 <= k - 1) => k - 1 = 0
                             /\ \A i \in 1..k - 1 : 1 + i - 1 = i /\ i \in 1..k
    OBVIOUS
  <2> QED
    BY <1>1, <2>1
<1>4. 1 \in Int /\ n \in Int /\ \A i \in 1..n : st[i] \in Frame
  BY <1>3, ElementOfSeq
<1>5. /\ SubSeq(st, 1, n) \in Seq(Frame)
      /\ Len(SubSeq(st, 1, n)) = IF 1 <= n THEN n - 1 + 1 ELSE 0
      /\ \A i \in 1..n - 1 + 1 : SubSeq(st, 1, n)[i] = st[1 + i - 1]
  BY <1>4, SubSeqProperties
<1>6. Front(st) = SubSeq(st, 1, n)
  BY DEF Front
<1> HIDE DEF n
<1>7. /\ Front(st) \in Seq(Frame) /\ Len(Front(st)) = n
      /\ \A i \in 1..n : Front(st)[i] = st[i]
  BY <1>3, <1>5, <1>6
<1> QED
  BY <1>1, <1>2, <1>7 DEF Last, n

LEMMA ReplaceLemma ==
    ASSUME NEW st \in Seq(Frame), st # <<>>, NEW f \in Frame
    PROVE  /\ Append(Front(st), f) \in Seq(Frame) /\ Append(Front(st), f) # <<>>
           /\ Len(Append(Front(st), f)) = Len(st) /\ Append(Front(st), f)[Len(st)] = f
           /\ \A i \in 1..Len(st) - 1 : Append(Front(st), f)[i] = st[i]
<1>1. /\ Len(st) \in Nat \ {0} /\ Front(st) \in Seq(Frame) /\ Len(Front(st)) = Len(st) - 1
      /\ \A i \in 1..Len(st) - 1 : Front(st)[i] = st[i]
  BY FrontLemma
<1>2. /\ Append(Front(st), f) \in Seq(Frame) /\ Append(Front(st), f) # <<>>
      /\ Len(Append(Front(st), f)) = Len(Front(st)) + 1
      /\ \A i \in 1..Len(Front(st)) : Append(Front(st), f)[i] = Front(st)[i]
      /\ Append(Front(st), f)[Len(Front(st)) + 1] = f
  BY <1>1, AppendProperties
<1> QED
  BY <1>1, <1>2

\* What pushing, popping and replacing do to the stack.
LEMMA PushStack ==
    ASSUME Types, NEW f \in Frame, stack' = Append(stack, f)
    PROVE  /\ Keeps(Len(stack)) /\ stack' \in Seq(Frame)
           /\ Len(stack) \in Nat /\ Len(stack') = Len(stack) + 1
           /\ stack'[Len(stack) + 1] = f
<1>1. stack \in Seq(Frame) /\ Len(stack) \in Nat
  BY LenProperties DEF Types
<1>2. /\ stack' \in Seq(Frame) /\ Len(stack') = Len(stack) + 1
      /\ \A i \in 1..Len(stack) : stack'[i] = stack[i]
      /\ stack'[Len(stack) + 1] = f
  BY <1>1, AppendProperties
<1> QED
  BY <1>1, <1>2 DEF Keeps, Alike

LEMMA PopStack ==
    ASSUME Types, stack # <<>>, stack' = Below
    PROVE  /\ Keeps(Len(stack) - 1) /\ stack' \in Seq(Frame)
           /\ Len(stack) \in Nat \ {0} /\ Len(stack') = Len(stack) - 1
           /\ \A i \in 1..Len(stack) - 1 : stack'[i] = stack[i]
<1>1. stack \in Seq(Frame)
  BY DEF Types
<1>2. /\ Len(stack) \in Nat \ {0}
      /\ stack' \in Seq(Frame) /\ Len(stack') = Len(stack) - 1
      /\ \A i \in 1..Len(stack) - 1 : stack'[i] = stack[i]
  BY <1>1, FrontLemma DEF Below
<1> QED
  BY <1>2 DEF Keeps, Alike

LEMMA ReplaceStack ==
    ASSUME Types, stack # <<>>, NEW f \in Frame, stack' = Append(Below, f)
    PROVE  /\ Keeps(Len(stack) - 1) /\ stack' \in Seq(Frame) /\ stack' # <<>>
           /\ Len(stack) \in Nat \ {0} /\ Len(stack') = Len(stack)
           /\ stack'[Len(stack)] = f
           /\ \A i \in 1..Len(stack) - 1 : stack'[i] = stack[i]
<1>1. stack \in Seq(Frame)
  BY DEF Types
<1>2. Len(stack) \in Nat \ {0}
  BY <1>1, FrontLemma
<1>3. /\ stack' \in Seq(Frame) /\ stack' # <<>> /\ Len(stack') = Len(stack)
      /\ stack'[Len(stack)] = f
      /\ \A i \in 1..Len(stack) - 1 : stack'[i] = stack[i]
  BY <1>1, ReplaceLemma DEF Below
<1> QED
  BY <1>2, <1>3 DEF Keeps, Alike

\* The frame on top.
LEMMA TopLemma ==
    ASSUME Types, stack # <<>>
    PROVE  /\ Len(stack) \in Nat \ {0} /\ Top = stack[Len(stack)] /\ Top \in Frame
BY FrontLemma DEF Types, Top

\* Which connections are pending, by the frames.
LEMMA PendingLemma ==
    ASSUME stack \in Seq(Frame)
    PROVE  \A c : c \in Pending <=>
                \E i \in 1..Len(stack) : stack[i].pc = "drain_after" /\ stack[i].conn = c
BY LenProperties DEF Pending

LEMMA PendingNext ==
    ASSUME stack' \in Seq(Frame)
    PROVE  \A c : c \in Pending' <=>
                \E i \in 1..Len(stack') : stack'[i].pc = "drain_after" /\ stack'[i].conn = c
BY LenProperties DEF Pending

-----------------------------------------------------------------------------
(* Steps that leave the buffer and the streams alone. *)

\* They run a command or none, keep m frames and put at most one on top, which
\* holds no descriptor and no pointer into the buffer; a frame that shows the
\* buffer stays, or the client disconnects.
Quiet(m) ==
    /\ Disconnect \/ UNCHANGED state
    /\ UNCHANGED <<made, wire, sent, shown, burst>>
    /\ Keeps(m)
    /\ Len(stack') = m + 1 =>
            /\ stack'[m + 1].pc # "drain_after" /\ ~InLine(stack'[m + 1])
            /\ HalfWay(stack'[m + 1]) => chat_input' = 0
            /\ ~nested' => \A i \in 1..m : ~HalfWay(stack[i])
    /\ \A i \in m + 1..Len(stack) : stack[i].pc # "drain_after"
    /\ Serving => chat_input' = 0 \/ (m = Len(stack) /\ Len(stack') = m)
    /\ nested => nested'

\* #chdisconnect takes the source and the descriptor away, and nothing else.
LEMMA DisconnectLemma ==
    ASSUME Types, Sockets, Disconnect \/ UNCHANGED state
    PROVE  /\ UNCHANGED <<chat_socket, chat_buffer, held>>
           /\ chat_input' # 0 => UNCHANGED state
           /\ chat_input' = 0 \/ chat_input' = chat_input
           /\ sources' = sources \ ({chat_input} \ {chat_input'})
           /\ open' = open \ ({chat_input} \ {chat_input'})
  BY DEF Disconnect, state, Types, Sockets

\* The connections half made, and the frames, stay as they are.
LEMMA QuietPending ==
    ASSUME Types, stack' \in Seq(Frame), NEW m, Quiet(m)
    PROVE  Pending' = Pending
<1>1. /\ m \in 0..Len(stack) /\ Len(stack') \in {m, m + 1} /\ Len(stack) \in Nat
  BY LenProperties DEF Types, Quiet, Keeps
<1>2. \A i \in 1..m : /\ stack'[i].conn = stack[i].conn
                      /\ stack'[i].pc = "drain_after" <=> stack[i].pc = "drain_after"
  BY DEF Quiet, Keeps, Alike, InLine
<1>3. \A i \in 1..Len(stack) : i \in 1..m \/ i \in m + 1..Len(stack)
  BY <1>1
<1>4. \A i \in 1..Len(stack') : i \in 1..m \/ (i = m + 1 /\ Len(stack') = m + 1)
  BY <1>1
<1>5. \A i \in 1..m : i \in 1..Len(stack) /\ i \in 1..Len(stack')
  BY <1>1
<1>6. /\ Len(stack') = m + 1 => stack'[m + 1].pc # "drain_after"
      /\ \A i \in m + 1..Len(stack) : stack[i].pc # "drain_after"
  BY DEF Quiet
<1>7. \A c : c \in Pending <=>
                \E i \in 1..Len(stack) : stack[i].pc = "drain_after" /\ stack[i].conn = c
  BY PendingLemma DEF Types
<1>8. \A c : c \in Pending' <=>
                \E i \in 1..Len(stack') : stack'[i].pc = "drain_after" /\ stack'[i].conn = c
  BY PendingNext
<1>9. ASSUME NEW c \in Pending PROVE c \in Pending'
  <2>1. PICK i \in 1..Len(stack) : stack[i].pc = "drain_after" /\ stack[i].conn = c
    BY <1>7
  <2>2. i \in 1..m
    BY <2>1, <1>3, <1>6
  <2> QED
    BY <2>1, <2>2, <1>2, <1>5, <1>8
<1>10. ASSUME NEW c \in Pending' PROVE c \in Pending
  <2>1. PICK i \in 1..Len(stack') : stack'[i].pc = "drain_after" /\ stack'[i].conn = c
    BY <1>8
  <2>2. i \in 1..m
    BY <2>1, <1>4, <1>6
  <2> QED
    BY <2>1, <2>2, <1>2, <1>5, <1>7
<1> QED
  BY <1>9, <1>10

LEMMA QuietFrames ==
    ASSUME Types, stack' \in Seq(Frame), NEW m, Quiet(m)
    PROVE  /\ m \in Nat /\ Len(stack) \in Nat /\ m <= Len(stack)
           /\ Len(stack') = m \/ Len(stack') = m + 1
           /\ \A i \in 1..m : /\ i \in 1..Len(stack) /\ i \in 1..Len(stack')
                              /\ stack'[i].conn = stack[i].conn /\ stack'[i].buf = stack[i].buf
                              /\ stack'[i].pc = "drain_after" <=> stack[i].pc = "drain_after"
                              /\ InLine(stack'[i]) <=> InLine(stack[i])
                              /\ HalfWay(stack'[i]) <=> HalfWay(stack[i])
           /\ \A i \in 1..Len(stack') : i \notin 1..m =>
                 i = m + 1 /\ Len(stack') = m + 1
                 /\ stack'[i].pc # "drain_after" /\ ~InLine(stack'[i])
<1>1. /\ m \in 0..Len(stack) /\ Len(stack') \in {m, m + 1} /\ Len(stack) \in Nat
  BY LenProperties DEF Types, Quiet, Keeps
<1>2. \A i \in 1..m : /\ stack'[i].conn = stack[i].conn /\ stack'[i].buf = stack[i].buf
                      /\ stack'[i].pc = "drain_after" <=> stack[i].pc = "drain_after"
                      /\ InLine(stack'[i]) <=> InLine(stack[i])
                      /\ HalfWay(stack'[i]) <=> HalfWay(stack[i])
  BY DEF Quiet, Keeps, Alike, InLine, HalfWay
<1>3. \A i \in 1..Len(stack') : i \in 1..m \/ (i = m + 1 /\ Len(stack') = m + 1)
  BY <1>1
<1>4. \A i \in 1..m : i \in 1..Len(stack) /\ i \in 1..Len(stack')
  BY <1>1
<1>5. Len(stack') = m + 1 => stack'[m + 1].pc # "drain_after" /\ ~InLine(stack'[m + 1])
  BY DEF Quiet
<1>6. m \in Nat /\ m <= Len(stack)
  BY <1>1
<1> QED
  BY <1>1, <1>2, <1>3, <1>4, <1>5, <1>6

\* Such a step keeps the invariant.
LEMMA QuietStep ==
    ASSUME IInv, NEW m, Quiet(m), stack' \in Seq(Frame),
           nested' \in BOOLEAN, dropped' \in BOOLEAN, fault' \in {"none", "freed_buffer"},
           closed' \in [Conn -> BOOLEAN]
    PROVE  IInv'
<1>1. /\ m \in Nat /\ Len(stack) \in Nat /\ m <= Len(stack)
      /\ Len(stack') = m \/ Len(stack') = m + 1
      /\ \A i \in 1..m : /\ i \in 1..Len(stack) /\ i \in 1..Len(stack')
                         /\ stack'[i].conn = stack[i].conn /\ stack'[i].buf = stack[i].buf
                         /\ stack'[i].pc = "drain_after" <=> stack[i].pc = "drain_after"
                         /\ InLine(stack'[i]) <=> InLine(stack[i])
                         /\ HalfWay(stack'[i]) <=> HalfWay(stack[i])
      /\ \A i \in 1..Len(stack') : i \notin 1..m =>
            i = m + 1 /\ Len(stack') = m + 1
            /\ stack'[i].pc # "drain_after" /\ ~InLine(stack'[i])
  BY QuietFrames DEF IInv
<1>0. /\ m \in Nat /\ Len(stack) \in Nat /\ m <= Len(stack)
      /\ Len(stack') = m \/ Len(stack') = m + 1
  BY <1>1
<1>2. /\ UNCHANGED <<chat_socket, chat_buffer, held>>
      /\ chat_input' # 0 => UNCHANGED state
      /\ chat_input' = 0 \/ chat_input' = chat_input
      /\ sources' = sources \ ({chat_input} \ {chat_input'})
      /\ open' = open \ ({chat_input} \ {chat_input'})
  BY DisconnectLemma DEF IInv, Quiet
<1>3. UNCHANGED <<made, wire, sent, shown, burst>> /\ (nested => nested')
  BY DEF Quiet
<1>4. Pending' = Pending
  BY QuietPending DEF IInv
<1>5. Types'
  <2>1. 0 \in 0..MaxConns
    BY ChatClientAssumption
  <2> QED
    BY <1>2, <1>3, <2>1 DEF IInv, Types
<1>6. Sockets'
  <2>1. /\ sources' \subseteq open' /\ open' \subseteq 1..made' /\ chat_socket' <= made'
        /\ chat_input' # 0 => /\ chat_socket' = chat_input' /\ chat_buffer' = chat_input'
                              /\ chat_input' \in sources'
        /\ chat_input' = 0 => chat_socket' \notin open'
    BY <1>2, <1>3 DEF IInv, Sockets, state
  <2>2. ASSUME NEW i \in 1..Len(stack'), stack'[i].pc = "drain_after"
        PROVE  stack'[i].conn \in open' \ (sources' \cup {chat_socket'})
    <3>1. i \in 1..m
      BY <1>1, <2>2
    <3>2. stack'[i].conn \in open \ (sources \cup {chat_socket})
      BY <1>1, <2>2, <3>1 DEF IInv, Sockets
    <3>3. chat_input' # chat_input => chat_input = chat_socket
      BY <1>2 DEF IInv, Sockets
    <3> QED
      BY <3>2, <3>3, <1>2
  <2>3. ASSUME NEW i \in 1..Len(stack'), NEW j \in 1..Len(stack'),
               stack'[i].pc = "drain_after", stack'[j].pc = "drain_after",
               stack'[i].conn = stack'[j].conn
        PROVE  i = j
    <3>1. i \in 1..m /\ j \in 1..m
      BY <1>1, <2>3
    <3>2. /\ i \in 1..Len(stack) /\ stack[i].pc = "drain_after" /\ stack[i].conn = stack'[i].conn
          /\ j \in 1..Len(stack) /\ stack[j].pc = "drain_after" /\ stack[j].conn = stack'[j].conn
      BY <1>1, <2>3, <3>1
    <3> QED
      BY <2>3, <3>2 DEF IInv, Sockets
  <2> QED
    BY <2>1, <2>2, <2>3 DEF Sockets
<1>7. Single'
  <2> SUFFICES ASSUME ~nested' PROVE Alone'
    BY DEF Single
  <2>1. /\ sources = {chat_input} \ {0} /\ open = sources \cup Pending
        /\ \A i \in 1..Len(stack) : HalfWay(stack[i]) => i = Len(stack) /\ chat_input = 0
    BY <1>3 DEF IInv, Single, Alone
  <2>2. sources' = {chat_input'} \ {0}
    BY <2>1, <1>2
  <2>3. open' = sources' \cup Pending'
    <3>1. ASSUME chat_input # 0 PROVE chat_input \notin Pending
      <4>1. \A i \in 1..Len(stack) : stack[i].pc = "drain_after" => stack[i].conn # chat_input
        BY <3>1 DEF IInv, Sockets
      <4>2. stack \in Seq(Frame)
        BY DEF IInv, Types
      <4> QED
        BY <4>1, <4>2, PendingLemma
    <3> QED
      BY <3>1, <2>1, <1>2, <1>4
  <2>4. ASSUME NEW i \in 1..Len(stack'), HalfWay(stack'[i])
        PROVE  i = Len(stack') /\ chat_input' = 0
    <3>1. CASE i = m + 1 /\ Len(stack') = m + 1
      BY <3>1, <2>4 DEF Quiet
    <3>2. CASE i \in 1..m
      <4>1. i = Len(stack) /\ chat_input = 0 /\ HalfWay(stack[i])
        BY <3>2, <2>1, <2>4, <1>1
      <4>2. Len(stack') # m + 1
        BY <3>2, <4>1 DEF Quiet
      <4>3. chat_input' = 0
        BY <4>1, <1>2
      <4>4. m = i
        BY <4>1, <3>2, <1>0
      <4> QED
        BY <4>2, <4>3, <4>4, <1>0
    <3> QED
      BY <3>1, <3>2, <1>1
  <2> QED
    BY <2>2, <2>3, <2>4 DEF Alone
<1>8. Streams'
  BY <1>2, <1>3, <1>4 DEF IInv, Streams
<1>9. Lines'
  <2>1. ASSUME NEW i \in 1..Len(stack'), InLine(stack'[i])
        PROVE  stack'[i].buf \in 1..made' \ Pending'
    BY <2>1, <1>1, <1>3, <1>4 DEF IInv, Lines
  <2>2. ASSUME chat_input' # 0
        PROVE  Reading'
    <3>1. chat_input # 0 /\ Reading
      BY <2>2, <1>2 DEF IInv, Lines
    <3>2. Serving => m = Len(stack) /\ Len(stack') = m
      BY <2>2 DEF Quiet
    <3>3. stack # <<>> <=> Len(stack) # 0
      BY EmptySeq DEF IInv, Types
    <3>4. stack' # <<>> <=> Len(stack') # 0
      BY EmptySeq
    <3>5. Serving <=> /\ Len(stack) # 0 /\ InLine(stack[Len(stack)])
                      /\ stack[Len(stack)].buf = chat_buffer
      BY <3>3, TopLemma DEF IInv, Serving
    <3>6. Top' = stack'[Len(stack')]
      BY DEF Top, Last
    <3>7. Serving' <=> /\ Len(stack') # 0 /\ InLine(stack'[Len(stack')])
                       /\ stack'[Len(stack')].buf = chat_buffer
      BY <3>4, <3>6, <1>2 DEF Serving, InLine
    <3>8. ASSUME NEW i \in 1..Len(stack'), InLine(stack'[i]), stack'[i].buf = chat_buffer
          PROVE  i = Len(stack') /\ Serving
      <4>1. i \in 1..m /\ i \in 1..Len(stack) /\ InLine(stack[i]) /\ stack[i].buf = chat_buffer
        BY <3>8, <1>1
      <4>2. i = Len(stack)
        BY <4>1, <3>1 DEF Reading
      <4>3. Serving
        <5>1. Len(stack) # 0
          BY <4>1, <4>2, <1>0
        <5> QED
          BY <5>1, <4>1, <4>2, <3>5
      <4> QED
        BY <4>2, <4>3, <3>2
    <3>9. Serving' <=> Serving
      <4>1. ASSUME Serving PROVE Serving'
        <5>1. m = Len(stack) /\ Len(stack') = m /\ Len(stack) # 0
          BY <4>1, <3>2, <3>5
        <5>2. Len(stack) \in 1..m
          BY <5>1, <1>0
        <5> QED
          BY <5>1, <5>2, <4>1, <3>5, <3>7, <1>1
      <4>2. ASSUME Serving' PROVE Serving
        <5>1. Len(stack') # 0 /\ InLine(stack'[Len(stack')])
              /\ stack'[Len(stack')].buf = chat_buffer
          BY <4>2, <3>7
        <5>2. Len(stack') \in 1..Len(stack')
          BY <5>1, <1>0
        <5> QED
          BY <5>1, <5>2, <3>8
      <4> QED
        BY <4>1, <4>2
    <3> QED
      BY <3>1, <3>8, <3>9, <1>2, <1>3 DEF Reading, InLine
  <2> QED
    BY <2>1, <2>2 DEF Lines, InLine
<1> QED
  BY <1>5, <1>6, <1>7, <1>8, <1>9 DEF IInv

\* A #chconnect is not nested when no frame is half way.
LEMMA ConnectingLemma ==
    ASSUME Types, ~Connecting
    PROVE  \A i \in 1..Len(stack) : ~HalfWay(stack[i])
BY LenProperties DEF Types, Connecting, HalfWay

\* A command run on the stack there is: the one typed.
LEMMA TypedStep ==
    ASSUME IInv, Typed
    PROVE  IInv'
<1>1. Types /\ MainLoop /\ UNCHANGED <<made, server, shown, burst, dropped, fault>> /\ Disconnect
  BY DEF IInv, Typed, Chdisconnect, Chconnect, ghosts
<1>2. Len(stack) \in Nat /\ stack \in Seq(Frame)
  BY <1>1, LenProperties DEF Types
<1>3. ~Serving
  BY <1>1 DEF MainLoop, Serving, InLine, Loops
<1>4. CASE Chdisconnect(stack)
  <2>1. stack' = stack /\ nested' = nested
    BY <1>4 DEF Chdisconnect, ghosts
  <2>2. Quiet(Len(stack))
    <3>1. Keeps(Len(stack))
      BY <2>1, <1>2 DEF Keeps, Alike
    <3>2. Len(stack') # Len(stack) + 1 /\ Len(stack) + 1..Len(stack) = {}
      BY <2>1, <1>2
    <3> QED
      BY <3>1, <3>2, <2>1, <1>1, <1>3 DEF Quiet, server
  <2> QED
    BY <2>1, <2>2, <1>1, <1>2, QuietStep DEF Types, server
<1>5. CASE Chconnect(stack)
  <2> DEFINE f == Fr("drain_before", 0)
  <2>1. f \in Frame /\ f.pc = "drain_before"
    BY <1>1, ChatClientAssumption DEF Fr, Frame, Loops
  <2>2. stack' = Append(stack, f) /\ nested' = (nested \/ Connecting)
    BY <1>5 DEF Chconnect
  <2> HIDE DEF f
  <2>3. /\ Keeps(Len(stack)) /\ stack' \in Seq(Frame)
        /\ Len(stack') = Len(stack) + 1 /\ stack'[Len(stack) + 1] = f
    BY <2>1, <2>2, <1>1, PushStack
  <2>4. chat_input' = 0
    BY <1>1 DEF Disconnect, state
  <2>5. Quiet(Len(stack))
    <3>1. Len(stack) + 1..Len(stack) = {}
      BY <1>2
    <3>2. ~nested' => \A i \in 1..Len(stack) : ~HalfWay(stack[i])
      BY <2>2, <1>1, ConnectingLemma
    <3> QED
      BY <3>1, <3>2, <2>1, <2>2, <2>3, <2>4, <1>1 DEF Quiet, server, InLine
  <2>6. nested' \in BOOLEAN
    BY <2>2, <1>1 DEF Types, Connecting
  <2> QED
    BY <2>3, <2>5, <2>6, <1>1, QuietStep DEF Types, server
<1> QED
  BY <1>4, <1>5 DEF Typed

\* #chconnect gives up, and its popup window is closed.
LEMMA GivesUpStep ==
    ASSUME IInv, Dials, UNCHANGED made
    PROVE  IInv'
<1>1. /\ Types /\ stack # <<>> /\ Top.pc = "drain_before" /\ UNCHANGED state
      /\ UNCHANGED <<made, server, shown, ghosts, fault>>
      /\ stack' = Append(Below, Fr("popup", 0)) \/ stack' = Below
  BY ChatClientAssumption DEF IInv, Dials, At, state, Types
<1>2. Len(stack) \in Nat \ {0} /\ Top = stack[Len(stack)]
  BY <1>1, TopLemma
<1> DEFINE m == Len(stack) - 1
           f == Fr("popup", 0)
<1>3. f \in Frame /\ f.pc = "popup"
  BY ChatClientAssumption DEF Fr, Frame, Loops
<1>4. m \in Nat /\ m + 1 = Len(stack) /\ (\A i \in 1..m : i \in 1..Len(stack) /\ i # Len(stack))
      /\ \A i \in m + 1..Len(stack) : i = Len(stack)
  BY <1>2
<1> HIDE DEF f, m
<1>5. Keeps(m) /\ stack' \in Seq(Frame) /\ (Len(stack') = m + 1 => stack'[m + 1] = f)
  <2>1. CASE stack' = Below
    <3>1. Keeps(m) /\ stack' \in Seq(Frame) /\ Len(stack') = m
      BY <2>1, <1>1, PopStack DEF m
    <3> QED
      BY <3>1, <1>4
  <2>2. CASE stack' = Append(Below, f)
    BY <2>2, <1>1, <1>3, <1>4, ReplaceStack DEF m
  <2> QED
    BY <2>1, <2>2, <1>1 DEF f
<1>6. ~Serving
  BY <1>1 DEF Serving, InLine
<1>7. ~nested => \A i \in 1..m : ~HalfWay(stack[i])
  BY <1>4 DEF IInv, Single, Alone
<1>8. Quiet(m)
  BY <1>1, <1>2, <1>3, <1>4, <1>5, <1>6, <1>7 DEF Quiet, server, ghosts, InLine, HalfWay
<1> QED
  BY <1>1, <1>5, <1>8, QuietStep DEF Types, server, ghosts

\* The popup, a source dispatched and a server that closed: the stack changes,
\* and the last of them disconnects.
LEMMA PopupOkStep ==
    ASSUME IInv, PopupOk
    PROVE  IInv'
<1>1. /\ Types /\ stack # <<>> /\ Top.pc = "popup" /\ UNCHANGED state /\ stack' = Below
      /\ UNCHANGED <<made, server, shown, ghosts, fault>>
  BY DEF IInv, PopupOk, At
<1>2. Len(stack) \in Nat \ {0} /\ Top = stack[Len(stack)]
  BY <1>1, TopLemma
<1> DEFINE m == Len(stack) - 1
<1>3. m + 1 = Len(stack) /\ \A i \in m + 1..Len(stack) : i = Len(stack)
  BY <1>2
<1>4. Keeps(m) /\ stack' \in Seq(Frame) /\ Len(stack') # m + 1
  BY <1>1, <1>2, PopStack
<1> HIDE DEF m
<1>5. Quiet(m)
  BY <1>1, <1>2, <1>3, <1>4 DEF Quiet, server, ghosts, Serving, InLine
<1> QED
  BY <1>1, <1>4, <1>5, QuietStep DEF Types, server, ghosts

LEMMA DispatchStep ==
    ASSUME IInv, NEW s \in Conn, Dispatch(s)
    PROVE  IInv'
<1> DEFINE f == Fr("recv", s)
<1>1. /\ Types /\ MainLoop /\ s \in sources /\ UNCHANGED state
      /\ stack' = Append(stack, f)
      /\ UNCHANGED <<made, server, shown, ghosts, fault>>
  BY DEF IInv, Dispatch
<1>2. f \in Frame /\ f.pc = "recv"
  BY ChatClientAssumption DEF Fr, Frame, Conn
<1> HIDE DEF f
<1>3. /\ Keeps(Len(stack)) /\ stack' \in Seq(Frame) /\ Len(stack) \in Nat
      /\ Len(stack') = Len(stack) + 1 /\ stack'[Len(stack) + 1] = f
  BY <1>1, <1>2, PushStack
<1>4. Len(stack) + 1..Len(stack) = {}
  BY <1>3
<1>5. ~Serving
  BY <1>1 DEF MainLoop, Serving, InLine, Loops
<1>6. ~nested => \A i \in 1..Len(stack) : ~HalfWay(stack[i])
  BY <1>1 DEF IInv, Single, Alone
<1>7. Quiet(Len(stack))
  BY <1>1, <1>2, <1>3, <1>4, <1>5, <1>6 DEF Quiet, server, ghosts, InLine, HalfWay
<1> QED
  BY <1>1, <1>3, <1>7, QuietStep DEF Types, server, ghosts

LEMMA ServerClosesStep ==
    ASSUME IInv, ServerCloses
    PROVE  IInv'
<1>1. /\ Types /\ stack # <<>> /\ Top.pc = "recv" /\ Disconnect /\ stack' = Below
      /\ UNCHANGED <<made, server, shown, nested, burst, fault>>
      /\ dropped' \in BOOLEAN
  BY DEF IInv, ServerCloses, At, Types
<1>2. Len(stack) \in Nat \ {0} /\ Top = stack[Len(stack)]
  BY <1>1, TopLemma
<1> DEFINE m == Len(stack) - 1
<1>3. m + 1 = Len(stack) /\ \A i \in m + 1..Len(stack) : i = Len(stack)
  BY <1>2
<1>4. Keeps(m) /\ stack' \in Seq(Frame) /\ Len(stack') # m + 1
  BY <1>1, <1>2, PopStack
<1> HIDE DEF m
<1>5. Quiet(m)
  BY <1>1, <1>2, <1>3, <1>4 DEF Quiet, server, Serving, InLine
<1> QED
  BY <1>1, <1>4, <1>5, QuietStep DEF Types, server

\* A trigger fires: the frame of the line stays, and may run a command.
LEMMA TriggerStep ==
    ASSUME IInv, Trigger
    PROVE  IInv'
<1> DEFINE f == [Top EXCEPT !.pc = "line_end"]
           st == Append(Below, f)
           n == Len(stack)
<1>1. /\ Types /\ stack # <<>> /\ Top.pc = "line"
      /\ UNCHANGED <<made, server, shown, burst, dropped, fault>>
      /\ \/ stack' = st /\ UNCHANGED <<state, nested>>
         \/ Chdisconnect(st)
         \/ Chconnect(st)
  BY DEF IInv, Trigger, At, Chdisconnect, Chconnect, ghosts
<1>2. n \in Nat \ {0} /\ Top = stack[n] /\ Top \in Frame
  BY <1>1, TopLemma
<1>3. f \in Frame /\ f.pc = "line_end" /\ f.conn = Top.conn /\ f.buf = Top.buf
  BY <1>2 DEF Frame, Loops
<1> HIDE DEF f
<1>4. Alike(f, stack[n])
  BY <1>1, <1>2, <1>3 DEF Alike, InLine
<1>5. /\ st \in Seq(Frame) /\ Len(st) = n /\ st[n] = f
      /\ \A i \in 1..n - 1 : st[i] = stack[i]
  <2>1. stack \in Seq(Frame)
    BY <1>1 DEF Types
  <2> QED
    BY <2>1, <1>1, <1>3, ReplaceLemma DEF Below
<1>6. \A i \in 1..n : Alike(st[i], stack[i])
  <2>1. \A i \in 1..n : i = n \/ i \in 1..n - 1
    BY <1>2
  <2>2. \A i \in 1..n - 1 : Alike(st[i], stack[i])
    BY <1>5 DEF Alike
  <2> HIDE DEF st, n
  <2> QED
    BY <2>1, <2>2, <1>4, <1>5
<1> HIDE DEF st, n
<1>7. n \in 0..n /\ n # n + 1 /\ (\A i \in n + 1..n : FALSE) /\ n \in Nat
  BY <1>2
<1>8. CASE stack' = st
  <2>1. Disconnect \/ UNCHANGED state
    BY <1>1, <1>8 DEF Chdisconnect, Chconnect
  <2>2. nested' = nested
    <3>1. CASE Chconnect(st)
      <4>1. Fr("drain_before", 0) \in Frame
        BY ChatClientAssumption DEF Fr, Frame, Loops
      <4>2. Len(Append(st, Fr("drain_before", 0))) = n + 1
        BY <4>1, <1>5, AppendProperties
      <4> QED
        BY <4>2, <3>1, <1>5, <1>7, <1>8 DEF Chconnect
    <3> QED
      BY <3>1, <1>1 DEF Chdisconnect, ghosts
  <2>3. Keeps(n)
    BY <1>5, <1>6, <1>7, <1>8 DEF Keeps, n
  <2>4. Quiet(n)
    BY <2>1, <2>2, <2>3, <1>1, <1>5, <1>7, <1>8 DEF Quiet, server, n
  <2> QED
    BY <2>2, <2>4, <1>1, <1>5, <1>8, QuietStep DEF Types, server
<1>9. CASE Chconnect(st)
  <2> DEFINE g == Fr("drain_before", 0)
  <2>1. g \in Frame /\ g.pc = "drain_before"
    BY ChatClientAssumption DEF Fr, Frame, Loops
  <2>2. stack' = Append(st, g) /\ nested' = (nested \/ Connecting) /\ Disconnect
    BY <1>9 DEF Chconnect
  <2> HIDE DEF g
  <2>3. /\ stack' \in Seq(Frame) /\ Len(stack') = n + 1 /\ stack'[n + 1] = g
        /\ \A i \in 1..n : stack'[i] = st[i]
    BY <2>1, <2>2, <1>5, AppendProperties
  <2>4. chat_input' = 0
    BY <2>2 DEF Disconnect, state
  <2>5. Keeps(n)
    BY <2>3, <1>6, <1>7 DEF Keeps, n
  <2>6. ~nested' => \A i \in 1..n : ~HalfWay(stack[i])
    BY <2>2, <1>1, ConnectingLemma DEF n
  <2>7. Quiet(n)
    BY <2>1, <2>2, <2>3, <2>4, <2>5, <2>6, <1>1, <1>7 DEF Quiet, server, InLine, n
  <2>8. nested' \in BOOLEAN
    BY <2>2, <1>1 DEF Types, Connecting
  <2> QED
    BY <2>3, <2>7, <2>8, <1>1, QuietStep DEF Types, server
<1> QED
  BY <1>1, <1>8, <1>9 DEF Chdisconnect

-----------------------------------------------------------------------------
(* A connection is made, and becomes the client's. *)

\* The frame on top goes, and another may take its place: the pending ones.
LEMMA TopPending ==
    ASSUME Types, stack # <<>>, stack' \in Seq(Frame),
           Len(stack') = Len(stack) - 1 \/ Len(stack') = Len(stack),
           \A i \in 1..Len(stack) - 1 : stack'[i] = stack[i],
           \A i, j \in 1..Len(stack) :
                stack[i].pc = "drain_after" /\ stack[j].pc = "drain_after"
                /\ stack[i].conn = stack[j].conn => i = j
    PROVE  Pending' = (Pending \ (IF Top.pc = "drain_after" THEN {Top.conn} ELSE {}))
                      \cup (IF Len(stack') = Len(stack) /\ stack'[Len(stack)].pc = "drain_after"
                            THEN {stack'[Len(stack)].conn} ELSE {})
<1> DEFINE n == Len(stack)
<1>1. n \in Nat \ {0} /\ Top = stack[n]
  BY TopLemma
<1>2. \A i \in 1..n : i = n \/ i \in 1..n - 1
  BY <1>1
<1>3. \A i \in 1..n - 1 : i \in 1..n /\ i # n /\ i \in 1..Len(stack')
  BY <1>1
<1>4. \A i \in 1..Len(stack') : (i = n /\ Len(stack') = n) \/ i \in 1..n - 1
  BY <1>1
<1>5. n \in 1..n /\ (Len(stack') = n => n \in 1..Len(stack'))
  BY <1>1
<1>6. \A c : c \in Pending <=>
                \E i \in 1..n : stack[i].pc = "drain_after" /\ stack[i].conn = c
  BY PendingLemma DEF Types
<1>7. \A c : c \in Pending' <=>
                \E i \in 1..Len(stack') : stack'[i].pc = "drain_after" /\ stack'[i].conn = c
  BY PendingNext
<1> DEFINE gone == IF Top.pc = "drain_after" THEN {Top.conn} ELSE {}
           new == IF Len(stack') = n /\ stack'[n].pc = "drain_after"
                  THEN {stack'[n].conn} ELSE {}
<1>8. \A i, j \in 1..n :
                stack[i].pc = "drain_after" /\ stack[j].pc = "drain_after"
                /\ stack[i].conn = stack[j].conn => i = j
  OBVIOUS
<1>9. \A i \in 1..n - 1 : stack'[i] = stack[i]
  OBVIOUS
<1> HIDE DEF n
<1>10. ASSUME NEW c \in Pending'
       PROVE  c \in (Pending \ gone) \cup new
  <2>1. PICK i \in 1..Len(stack') : stack'[i].pc = "drain_after" /\ stack'[i].conn = c
    BY <1>7
  <2>2. CASE i \in 1..n - 1
    <3>1. c \in Pending
      BY <2>1, <2>2, <1>3, <1>6, <1>9
    <3>2. c \notin gone
      BY <2>1, <2>2, <1>1, <1>3, <1>5, <1>8, <1>9
    <3> QED
      BY <3>1, <3>2
  <2> QED
    BY <2>1, <2>2, <1>4
<1>11. ASSUME NEW c \in (Pending \ gone) \cup new
       PROVE  c \in Pending'
  <2>1. CASE c \in new
    BY <2>1, <1>5, <1>7
  <2>2. CASE c \in Pending \ gone
    <3>1. PICK i \in 1..n : stack[i].pc = "drain_after" /\ stack[i].conn = c
      BY <2>2, <1>6
    <3>2. i \in 1..n - 1
      BY <3>1, <2>2, <1>1, <1>2
    <3> QED
      BY <3>1, <3>2, <1>3, <1>7, <1>9
  <2> QED
    BY <2>1, <2>2
<1> QED
  BY <1>10, <1>11 DEF n

\* The socket is connected, and #chconnect runs the main loop once more.
LEMMA MakesStep ==
    ASSUME IInv, Dials, made' # made
    PROVE  IInv'
<1> DEFINE n == Len(stack)
           c == made + 1
           f == Fr("drain_after", made')
<1>1. /\ Types /\ stack # <<>> /\ Top.pc = "drain_before" /\ made < MaxConns
      /\ made' = c /\ open' = open \cup {c}
      /\ stack' = Append(Below, f)
      /\ UNCHANGED <<chat_input, chat_socket, chat_buffer, held, sources,
                     server, shown, ghosts, fault>>
  BY DEF IInv, Dials, At
<1>2. n \in Nat \ {0} /\ Top = stack[n]
  BY <1>1, TopLemma
<1>3. made \in Nat /\ c \in 1..MaxConns /\ c \in Conn /\ c > made
      /\ c \notin 1..made /\ 1..made \subseteq 1..c /\ c \in 1..c
  BY <1>1, ChatClientAssumption DEF Types, Conn
<1>4. f \in Frame /\ f.pc = "drain_after" /\ f.conn = c
  BY <1>1, <1>3, ChatClientAssumption DEF Fr, Frame, Loops
<1> HIDE DEF f, c
<1>5. /\ stack' \in Seq(Frame) /\ Len(stack') = n /\ stack'[n] = f
      /\ \A i \in 1..n - 1 : stack'[i] = stack[i]
  BY <1>1, <1>4, ReplaceStack
<1>6. (\A i \in 1..n : i = n \/ i \in 1..n - 1) /\ (\A i \in 1..n - 1 : i \in 1..n /\ i # n)
  BY <1>2
<1>7. /\ sources \subseteq open /\ open \subseteq 1..made /\ chat_socket <= made
      /\ (\A i \in 1..n : stack[i].pc = "drain_after" =>
            stack[i].conn \in open \ (sources \cup {chat_socket}))
      /\ \A i, j \in 1..n :
            stack[i].pc = "drain_after" /\ stack[j].pc = "drain_after"
            /\ stack[i].conn = stack[j].conn => i = j
  BY DEF IInv, Sockets
<1>8. Pending' = Pending \cup {c}
  <2>1. Top.pc # "drain_after"
    BY <1>1
  <2> QED
    BY <2>1, <1>1, <1>4, <1>5, <1>7, TopPending
<1> HIDE DEF n
<1>9. c \notin open /\ c # chat_socket
  BY <1>1, <1>3, <1>7 DEF Types
<1>10. Types'
  BY <1>1, <1>3, <1>5 DEF Types, server, ghosts, Conn
<1>11. Sockets'
  <2>1. /\ sources' \subseteq open' /\ open' \subseteq 1..made' /\ chat_socket' <= made'
        /\ chat_input' # 0 => /\ chat_socket' = chat_input' /\ chat_buffer' = chat_input'
                              /\ chat_input' \in sources'
        /\ chat_input' = 0 => chat_socket' \notin open'
    <3>1. chat_socket <= c
      BY <1>1, <1>7 DEF Types, c
    <3> QED
      BY <3>1, <1>1, <1>3, <1>7, <1>9 DEF IInv, Sockets
  <2>2. \A i \in 1..n : stack'[i].pc = "drain_after" =>
            stack'[i].conn \in open' \ (sources' \cup {chat_socket'})
    BY <1>1, <1>4, <1>5, <1>6, <1>7, <1>9
  <2>3. ASSUME NEW i \in 1..n, NEW j \in 1..n,
               stack'[i].pc = "drain_after", stack'[j].pc = "drain_after",
               stack'[i].conn = stack'[j].conn
        PROVE  i = j
    <3>1. \A k \in 1..n - 1 : stack'[k].pc = "drain_after" => stack'[k].conn # c
      BY <1>5, <1>6, <1>7, <1>9
    <3> QED
      BY <2>3, <3>1, <1>4, <1>5, <1>6, <1>7
  <2> QED
    BY <2>1, <2>2, <2>3, <1>5 DEF Sockets
<1>12. Single'
  <2> SUFFICES ASSUME ~nested PROVE Alone'
    BY <1>1 DEF Single, ghosts
  <2>1. /\ sources = {chat_input} \ {0} /\ open = sources \cup Pending
        /\ \A i \in 1..n : HalfWay(stack[i]) => i = n /\ chat_input = 0
    BY DEF IInv, Single, Alone, n
  <2>2. chat_input = 0
    <3>1. n \in 1..n
      BY <1>2 DEF n
    <3> QED
      BY <3>1, <2>1, <1>1, <1>2 DEF HalfWay
  <2>3. \A i \in 1..n : HalfWay(stack'[i]) => i = n
    BY <2>1, <1>5, <1>6
  <2> QED
    BY <2>1, <2>2, <2>3, <1>1, <1>5, <1>8 DEF Alone, HalfWay
<1>13. Streams'
  <2>1. \A d \in Conn : d > made' \/ d \in Pending' => d > made \/ d \in Pending
    BY <1>1, <1>3, <1>8 DEF c, Conn
  <2> QED
    BY <2>1, <1>1 DEF IInv, Streams, server
<1>14. Lines'
  <2>1. ASSUME NEW i \in 1..n, InLine(stack'[i])
        PROVE  i \in 1..n - 1 /\ stack'[i] = stack[i] /\ InLine(stack[i])
    BY <2>1, <1>4, <1>5, <1>6 DEF InLine
  <2>2. \A i \in 1..n : InLine(stack'[i]) => stack'[i].buf \in 1..made' \ Pending'
    BY <2>1, <1>1, <1>3, <1>6, <1>8 DEF IInv, Lines, n
  <2>3. ASSUME chat_input' # 0
        PROVE  Reading'
    <3>1. Reading
      BY <2>3, <1>1 DEF IInv, Lines
    <3>2. ~Serving
      BY <1>1 DEF Serving, InLine
    <3>3. Top' = stack'[n]
      BY <1>5 DEF Top, Last
    <3>4. ~Serving'
      BY <3>3, <1>4, <1>5 DEF Serving, InLine
    <3>5. \A i \in 1..n : ~(InLine(stack'[i]) /\ stack'[i].buf = chat_buffer')
      BY <2>1, <3>1, <1>1, <1>6 DEF Reading, n
    <3> QED
      BY <3>1, <3>2, <3>4, <3>5, <1>1, <1>5 DEF Reading, InLine, ghosts
  <2> QED
    BY <2>2, <2>3, <1>5 DEF Lines, InLine
<1> QED
  BY <1>10, <1>11, <1>12, <1>13, <1>14 DEF IInv

\* The new connection is the client's, with an empty buffer and a source.
LEMMA ConnectedStep ==
    ASSUME IInv, Connected
    PROVE  IInv'
<1> DEFINE n == Len(stack)
           c == Top.conn
<1>1. /\ Types /\ stack # <<>> /\ Top.pc = "drain_after"
      /\ chat_socket' = c /\ chat_buffer' = c /\ chat_input' = c /\ held' = <<>>
      /\ sources' = sources \cup {c} /\ stack' = Below
      /\ UNCHANGED <<open, made, server, shown, ghosts, fault>>
  BY DEF IInv, Connected, At
<1>2. n \in Nat \ {0} /\ Top = stack[n]
  BY <1>1, TopLemma
<1>3. /\ stack' \in Seq(Frame) /\ Len(stack') = n - 1
      /\ \A i \in 1..n - 1 : stack'[i] = stack[i]
  BY <1>1, PopStack
<1>4. n \in 1..n /\ \A i \in 1..n - 1 : i \in 1..n /\ i # n
  BY <1>2
<1>5. /\ sources \subseteq open /\ open \subseteq 1..made /\ chat_socket <= made
      /\ (\A i \in 1..n : stack[i].pc = "drain_after" =>
            stack[i].conn \in open \ (sources \cup {chat_socket}))
      /\ \A i, j \in 1..n :
            stack[i].pc = "drain_after" /\ stack[j].pc = "drain_after"
            /\ stack[i].conn = stack[j].conn => i = j
  BY DEF IInv, Sockets
<1>6. Pending' = Pending \ {c} /\ c \in Pending
  <2>1. Len(stack') # n
    BY <1>2, <1>3
  <2>2. Pending' = Pending \ {c}
    BY <2>1, <1>1, <1>3, <1>5, TopPending
  <2>3. c \in Pending
    BY <1>1, <1>2, <1>4, PendingLemma DEF Types
  <2> QED
    BY <2>2, <2>3
<1>7. c \in open /\ c \in 1..made
  BY <1>1, <1>2, <1>4, <1>5
<1> HIDE DEF n, c
<1>8. c \in Conn /\ c \in 0..MaxConns /\ c # 0 /\ c <= made
  <2>1. made \in 0..MaxConns /\ MaxConns \in Nat
    BY <1>1, ChatClientAssumption DEF Types
  <2> QED
    BY <2>1, <1>7 DEF Conn
<1>9. Types'
  <2>1. <<>> \in Seq(Token) /\ Len(<<>>) < CHAT_SIZE
    BY EmptySeq, ChatClientAssumption
  <2> QED
    BY <2>1, <1>1, <1>3, <1>8 DEF Types, server, ghosts
<1>10. Sockets'
  <2>1. \A i \in 1..n - 1 : stack'[i].pc = "drain_after" => stack'[i].conn # c
    BY <1>1, <1>2, <1>3, <1>4, <1>5 DEF c
  <2> QED
    BY <2>1, <1>1, <1>3, <1>4, <1>5, <1>7, <1>8 DEF Sockets
<1>11. Single'
  <2> SUFFICES ASSUME ~nested PROVE Alone'
    BY <1>1 DEF Single, ghosts
  <2>1. /\ sources = {chat_input} \ {0} /\ open = sources \cup Pending
        /\ \A i \in 1..n : HalfWay(stack[i]) => i = n /\ chat_input = 0
    BY DEF IInv, Single, Alone, n
  <2>2. chat_input = 0
    BY <2>1, <1>1, <1>2, <1>4 DEF HalfWay
  <2>3. \A i \in 1..n - 1 : ~HalfWay(stack'[i])
    BY <2>1, <1>3, <1>4
  <2> QED
    BY <2>1, <2>2, <2>3, <1>1, <1>3, <1>6, <1>8 DEF Alone, HalfWay
<1>12. Streams'
  <2>1. shown[c] = <<>> /\ wire[c] = sent[c] /\ wire[c] \in Seq(Token)
    BY <1>1, <1>6, <1>8 DEF IInv, Streams, Types
  <2>2. <<>> \in Seq(Token) /\ Len(<<>>) = 0
    BY EmptySeq
  <2>3. <<>> \o <<>> \o wire[c] = wire[c]
    BY <2>1, <2>2, ConcatEmptySeq
  <2>4. shown'[c] \o held' \o wire'[c] = sent'[c]
    <3>1. /\ shown' = shown /\ held' = <<>> /\ wire' = wire /\ sent' = sent
          /\ shown[c] = <<>>
      BY <2>1, <1>1 DEF server
    <3> QED
      BY <3>1, <2>1, <2>2, <2>3
  <2>5. \A d \in Conn : d > made' \/ d \in Pending' =>
            shown'[d] = <<>> /\ wire'[d] = sent'[d]
    BY <1>1, <1>6 DEF IInv, Streams, server
  <2> QED
    BY <2>4, <2>5, <1>1 DEF Streams
<1>13. Lines'
  <2>1. \A i \in 1..n - 1 : InLine(stack'[i]) =>
            stack'[i].buf \in 1..made' \ Pending' /\ stack'[i].buf # c
    BY <1>1, <1>3, <1>4, <1>6 DEF IInv, Lines, n
  <2>2. Reading'
    <3>1. Marks(held') = {}
      <4>1. DOMAIN held' = {}
        BY <1>1, EmptySeq
      <4> QED
        BY <4>1 DEF Marks
    <3>2. ~Serving'
      <4>1. CASE stack' = <<>>
        BY <4>1 DEF Serving
      <4>2. CASE stack' # <<>>
        <5>1. Len(stack') \in 1..n - 1
          BY <4>2, <1>2, <1>3, EmptySeq DEF n
        <5>2. Top' = stack'[Len(stack')]
          BY DEF Top, Last
        <5> QED
          BY <5>1, <5>2, <2>1, <1>1 DEF Serving, InLine
      <4> QED
        BY <4>1, <4>2
    <3> QED
      BY <3>1, <3>2, <2>1, <1>1, <1>3 DEF Reading, InLine
  <2> QED
    BY <2>1, <2>2, <1>3 DEF Lines, InLine
<1> QED
  BY <1>9, <1>10, <1>11, <1>12, <1>13 DEF IInv

-----------------------------------------------------------------------------
(* The server. *)

\* The server sends and closes.
LEMMA SendsStep ==
    ASSUME IInv, NEW c \in Conn, NEW marker \in BOOLEAN, Sends(c, marker)
    PROVE  IInv'
<1> DEFINE token == [number |-> Len(sent[c]) + 1, marker |-> marker]
<1>1. /\ Types /\ c \in open /\ Len(sent[c]) < MaxSent
      /\ sent' = [sent EXCEPT ![c] = Append(@, token)]
      /\ wire' = [wire EXCEPT ![c] = Append(@, token)]
      /\ UNCHANGED <<state, stack, made, closed, shown, ghosts, fault>>
  BY DEF IInv, Sends
<1>2. /\ sent[c] \in Seq(Token) /\ wire[c] \in Seq(Token)
      /\ sent \in [Conn -> Seq(Token)] /\ wire \in [Conn -> Seq(Token)]
  BY <1>1 DEF Types
<1>3. token \in Token
  <2>1. Len(sent[c]) + 1 \in 1..MaxSent
    BY <1>1, <1>2, LenProperties, ChatClientAssumption
  <2> QED
    BY <2>1 DEF Token
<1> HIDE DEF token
<1>4. /\ Append(sent[c], token) \in Seq(Token) /\ Append(wire[c], token) \in Seq(Token)
      /\ <<token>> \in Seq(Token)
  BY <1>2, <1>3, AppendProperties
<1>5. /\ sent' \in [Conn -> Seq(Token)] /\ wire' \in [Conn -> Seq(Token)]
      /\ sent'[c] = Append(sent[c], token) /\ wire'[c] = Append(wire[c], token)
      /\ \A d \in Conn : d # c => sent'[d] = sent[d] /\ wire'[d] = wire[d]
  BY <1>1, <1>2, <1>4
<1>6. Types'
  BY <1>1, <1>5 DEF Types, state, ghosts
<1>7. Sockets' /\ Single' /\ Lines'
  <2>1. UNCHANGED <<state, stack, made, nested, burst>>
    BY <1>1 DEF ghosts
  <2> QED
    BY <2>1 DEF IInv, Sockets, Single, Alone, Lines, Reading, Serving, Top, Pending, state
<1>8. Streams'
  <2>1. Pending' = Pending
    BY <1>1 DEF Pending
  <2>2. ASSUME chat_input' # 0
        PROVE  shown'[chat_input] \o held' \o wire'[chat_input'] = sent'[chat_input']
    <3>1. /\ chat_input' = chat_input /\ held' = held /\ shown' = shown
          /\ chat_input # 0 /\ chat_input \in Conn
      BY <2>2, <1>1, ChatClientAssumption DEF state, Types, Conn
    <3>2. shown[chat_input] \o held \o wire[chat_input] = sent[chat_input]
      BY <3>1 DEF IInv, Streams
    <3>3. CASE chat_input # c
      BY <3>1, <3>2, <3>3, <1>5
    <3>4. CASE chat_input = c
      <4> DEFINE a == shown[c] \o held
                 w == wire[c]
      <4>1. shown[c] \in Seq(Token) /\ held \in Seq(Token)
        BY <1>1 DEF Types
      <4>2. a \in Seq(Token) /\ w \in Seq(Token)
        BY <4>1, <1>2, ConcatProperties
      <4> HIDE DEF a, w
      <4>3. a \o Append(w, token) = Append(a \o w, token)
        <5>1. a \o w \in Seq(Token)
          BY <4>2, ConcatProperties
        <5>2. Append(w, token) = w \o <<token>> /\ Append(a \o w, token) = (a \o w) \o <<token>>
          BY <5>1, <4>2, <1>3, AppendIsConcat
        <5> QED
          BY <5>2, <4>2, <1>4, ConcatAssociative
      <4>4. a \o w = sent[c]
        BY <3>2, <3>4 DEF a, w
      <4>5. a \o wire'[c] = sent'[c]
        BY <4>3, <4>4, <1>5 DEF w
      <4> QED
        BY <4>5, <3>1, <3>4 DEF a
    <3> QED
      BY <3>3, <3>4
  <2>3. ASSUME NEW d \in Conn, d > made' \/ d \in Pending'
        PROVE  shown'[d] = <<>> /\ wire'[d] = sent'[d]
    <3>1. shown[d] = <<>> /\ wire[d] = sent[d] /\ shown' = shown
      BY <2>1, <2>3, <1>1 DEF IInv, Streams
    <3> QED
      BY <3>1, <1>5
  <2>4. chat_input' = chat_input
    BY <1>1 DEF state
  <2> QED
    BY <2>2, <2>3, <2>4 DEF Streams
<1> QED
  BY <1>6, <1>7, <1>8 DEF IInv

LEMMA ClosesStep ==
    ASSUME IInv, NEW c \in Conn, Closes(c)
    PROVE  IInv'
<1>1. /\ closed' = [closed EXCEPT ![c] = TRUE]
      /\ UNCHANGED <<state, stack, made, wire, sent, shown, ghosts, fault>>
  BY DEF Closes
<1>2. closed' \in [Conn -> BOOLEAN]
  BY <1>1 DEF IInv, Types
<1>3. Types'
  BY <1>1, <1>2 DEF IInv, Types, state, ghosts
<1>4. /\ UNCHANGED <<chat_input, chat_socket, chat_buffer, held, sources, open>>
      /\ UNCHANGED <<stack, made, wire, sent, shown, nested, burst>>
  BY <1>1 DEF state, ghosts
<1>5. Pending' = Pending
  BY <1>4 DEF Pending
<1>6. Sockets' /\ Single' /\ Lines'
  BY <1>4, <1>5 DEF IInv, Sockets, Single, Alone, Lines, Reading, Serving, Top
<1>7. Streams'
  BY <1>4, <1>5 DEF IInv, Streams
<1> QED
  BY <1>3, <1>6, <1>7 DEF IInv

\* The client starts unconnected.
LEMMA InitInv == Init => IInv
<1> SUFFICES ASSUME Init PROVE IInv
  OBVIOUS
<1>1. /\ chat_input = 0 /\ chat_socket = 0 /\ chat_buffer = 0 /\ held = <<>>
      /\ sources = {} /\ open = {} /\ stack = <<>> /\ made = 0
      /\ wire = [c \in Conn |-> <<>>] /\ sent = [c \in Conn |-> <<>>]
      /\ closed = [c \in Conn |-> FALSE] /\ shown = [c \in Conn |-> <<>>]
      /\ nested = FALSE /\ burst = FALSE /\ dropped = FALSE /\ fault = "none"
  BY DEF Init
<1>2. /\ <<>> \in Seq(Token) /\ Len(<<>>) = 0 /\ Len(stack) = 0 /\ stack \in Seq(Frame)
      /\ 1..Len(stack) = {}
  BY <1>1, EmptySeq
<1>3. Types
  <2>1. 0 \in 0..MaxConns /\ 0 < CHAT_SIZE
    BY ChatClientAssumption
  <2> QED
    BY <2>1, <1>1, <1>2 DEF Types
<1>4. Sockets
  BY <1>1, <1>2 DEF Sockets
<1>5. Pending = {}
  BY <1>2, PendingLemma
<1>6. Single
  BY <1>1, <1>2, <1>5 DEF Single, Alone
<1>7. Streams
  BY <1>1 DEF Streams
<1>8. Lines
  BY <1>1, <1>2 DEF Lines
<1> QED
  BY <1>3, <1>4, <1>6, <1>7, <1>8 DEF IInv

-----------------------------------------------------------------------------
(* Reading. *)

\* A part that changes hands.
Joined(a, b, r, d) == a \o (b \o r) \o d = a \o b \o (r \o d)

LEMMA JoinLemma == \A a, b, r, d \in Seq(Token) : Joined(a, b, r, d)
<1> SUFFICES ASSUME NEW a \in Seq(Token), NEW b \in Seq(Token), NEW r \in Seq(Token),
                    NEW d \in Seq(Token)
             PROVE  Joined(a, b, r, d)
  OBVIOUS
<1>1. a \o b \in Seq(Token)
  BY ConcatProperties
<1>2. (a \o b) \o r = a \o (b \o r)
  BY ConcatAssociative
<1>3. ASSUME NEW ab \in Seq(Token) PROVE (ab \o r) \o d = ab \o (r \o d)
  BY ConcatAssociative
<1>4. ((a \o b) \o r) \o d = (a \o b) \o (r \o d)
  BY <1>1, <1>3, Zenon
<1> QED
  BY <1>2, <1>4 DEF Joined

\* A message that is shown.
Moved(a, said, rest, d) == a \o said \o rest \o d = a \o (said \o rest) \o d

LEMMA MoveLemma == \A a, said, rest, d \in Seq(Token) : Moved(a, said, rest, d)
<1> SUFFICES ASSUME NEW a \in Seq(Token), NEW said \in Seq(Token),
                    NEW rest \in Seq(Token), NEW d \in Seq(Token)
             PROVE  Moved(a, said, rest, d)
  OBVIOUS
<1>1. (a \o said) \o rest = a \o (said \o rest)
  BY ConcatAssociative
<1> QED
  BY <1>1 DEF Moved

\* The marked tokens of one part put behind another, and of what is behind a mark.
LEMMA MarksLemma ==
    ASSUME NEW s \in Seq(Token)
    PROVE  \A i : i \in Marks(s) <=> i \in 1..Len(s) /\ s[i].marker
BY LenProperties DEF Marks

LEMMA JoinMarks ==
    ASSUME NEW s \in Seq(Token), NEW t \in Seq(Token), Marks(s) = {}, OneMark(t)
    PROVE  OneMark(s \o t)
<1> DEFINE u == s \o t
           n == Len(s)
           m == Len(t)
<1>1. n \in Nat /\ m \in Nat
  BY LenProperties
<1>2. /\ u \in Seq(Token) /\ Len(u) = n + m
      /\ \A i \in 1..n + m : u[i] = IF i <= n THEN s[i] ELSE t[i - n]
  BY ConcatProperties
<1>3. \A i : i \in Marks(u) <=> i \in 1..n + m /\ u[i].marker
  <2>1. u \in Seq(Token)
    BY <1>2
  <2> HIDE DEF u
  <2> QED
    BY <2>1, <1>2, MarksLemma
<1> HIDE DEF u, n, m
<1>4. ASSUME NEW i \in Marks(u) PROVE i - n \in Marks(t) /\ i \in Int
  <2>1. i \in 1..n + m /\ u[i].marker
    BY <1>3
  <2>2. CASE i <= n
    <3>1. i \in 1..n /\ s[i].marker
      BY <2>1, <2>2, <1>1, <1>2
    <3> QED
      BY <3>1, MarksLemma DEF n
  <2>3. CASE ~(i <= n)
    <3> DEFINE k == i - n
    <3>1. k \in 1..m /\ i \in Int
      BY <2>1, <2>3, <1>1
    <3>2. u[i] = t[k]
      BY <2>1, <2>3, <1>2
    <3> HIDE DEF k
    <3>3. k \in Marks(t)
      BY <2>1, <3>1, <3>2, MarksLemma DEF m
    <3> QED
      BY <3>1, <3>3 DEF k
  <2> QED
    BY <2>2, <2>3
<1>5. ASSUME NEW i \in Marks(u), NEW j \in Marks(u) PROVE i = j
  <2>1. i - n = j - n /\ i \in Int /\ j \in Int
    BY <1>4 DEF OneMark
  <2> QED
    BY <2>1, <1>1
<1> QED
  BY <1>5 DEF OneMark, u

LEMMA RestMarks ==
    ASSUME NEW s \in Seq(Token), NEW f \in Marks(s)
    PROVE  LET rest == SubSeq(s, f + 1, Len(s))
           IN /\ f \in 1..Len(s)
              /\ SubSeq(s, 1, f) \in Seq(Token) /\ SubSeq(s, 1, f) \o rest = s
              /\ rest \in Seq(Token) /\ Len(rest) = Len(s) - f
              /\ OneMark(s) => Marks(rest) = {}
<1> DEFINE h == Len(s)
           rest == SubSeq(s, f + 1, h)
<1>1. h \in Nat /\ f \in 1..h
  BY MarksLemma, LenProperties
<1>2. SubSeq(s, 1, f) \o rest = s
  <2>1. 1 \in 1..h + 1 /\ f \in 1 - 1..h /\ h \in f..h
    BY <1>1
  <2>2. SubSeq(s, 1, f) \o SubSeq(s, f + 1, h) = SubSeq(s, 1, h)
    BY <2>1, ConcatAdjacentSubSeq
  <2> QED
    BY <2>2, SubSeqFull
<1>3. SubSeq(s, 1, f) \in Seq(Token)
  <2>1. 1 \in Int /\ f \in Int /\ \A i \in 1..f : i \in 1..h
    BY <1>1
  <2>2. \A i \in 1..f : s[i] \in Token
    BY <2>1, ElementOfSeq
  <2> QED
    BY <2>1, <2>2, SubSeqProperties
<1>4. /\ rest \in Seq(Token) /\ Len(rest) = h - f
      /\ \A i \in 1..h - f : rest[i] = s[f + i]
  <2>1. /\ f + 1 \in Int /\ h \in Int /\ \A i \in f + 1..h : i \in 1..h
        /\ h - (f + 1) + 1 = h - f
        /\ (IF f + 1 <= h THEN h - (f + 1) + 1 ELSE 0) = h - f
        /\ \A i \in 1..h - f : f + 1 + i - 1 = f + i
    BY <1>1
  <2>2. \A i \in f + 1..h : s[i] \in Token
    BY <2>1, ElementOfSeq
  <2>3. /\ rest \in Seq(Token)
        /\ Len(rest) = IF f + 1 <= h THEN h - (f + 1) + 1 ELSE 0
        /\ \A i \in 1..h - (f + 1) + 1 : rest[i] = s[f + 1 + i - 1]
    BY <2>1, <2>2, SubSeqProperties
  <2> HIDE DEF rest, h
  <2>4. \A i \in 1..h - f : rest[i] = s[f + 1 + i - 1]
    BY <2>1, <2>3
  <2> QED
    BY <2>1, <2>3, <2>4
<1> HIDE DEF rest
<1>5. ASSUME OneMark(s), NEW i \in Marks(rest) PROVE FALSE
  <2>1. i \in 1..h - f /\ rest[i].marker
    BY <1>4, MarksLemma
  <2> DEFINE k == f + i
  <2>2. k \in 1..h /\ k # f /\ rest[i] = s[k]
    BY <2>1, <1>1, <1>4
  <2> HIDE DEF k
  <2>3. k \in Marks(s)
    BY <2>1, <2>2, MarksLemma
  <2> QED
    BY <2>2, <2>3, <1>5 DEF OneMark
<1> QED
  BY <1>1, <1>2, <1>3, <1>4, <1>5 DEF rest

\* A set of naturals that is not empty has a least element.
LEMMA LeastNumber ==
    ASSUME NEW T, T \subseteq Nat, T # {}
    PROVE  Min(T) \in T
<1> DEFINE R == {p \in Nat \X Nat : p[1] < p[2]}
<1>1. IsWellFoundedOn(R, Nat)
  BY NatLessThanWellFounded DEF OpToRel
<1>2. \A i, j \in Nat : i < j => <<i, j>> \in R
  OBVIOUS
<1> HIDE DEF R
<1>3. PICK m \in T : \A k \in T : ~(<<k, m>> \in R)
  BY <1>1, WFMin
<1>4. ASSUME NEW k \in T
      PROVE  m <= k
  <2>1. m \in Nat /\ k \in Nat /\ ~(k < m)
    BY <1>2, <1>3
  <2> QED
    BY <2>1
<1> QED
  BY <1>4 DEF Min

\* The first message of the buffer ends with the first marked token.
LEMMA FirstMarkLemma ==
    ASSUME held \in Seq(Token), Marks(held) # {}
    PROVE  FirstMark \in Marks(held)
<1>1. Marks(held) \subseteq Nat
  BY MarksLemma
<1> QED
  BY <1>1, LeastNumber DEF FirstMark

\* What the buffer and the wire hold while connected.
LEMMA HeldLemma ==
    ASSUME Types, chat_input # 0
    PROVE  /\ chat_input \in Conn
           /\ shown[chat_input] \in Seq(Token) /\ wire[chat_input] \in Seq(Token)
           /\ held \in Seq(Token)
           /\ Len(shown[chat_input]) \in Nat /\ Len(held) \in Nat
           /\ Len(wire[chat_input]) \in Nat
<1>1. chat_input \in Conn
  BY ChatClientAssumption DEF Types, Conn
<1>2. shown[chat_input] \in Seq(Token) /\ wire[chat_input] \in Seq(Token) /\ held \in Seq(Token)
  BY <1>1 DEF Types
<1> QED
  BY <1>1, <1>2, LenProperties

\* While connected, a frame that is no #chconnect's goes or is replaced.
LEMMA ReadFrames ==
    ASSUME IInv, chat_input # 0, stack # <<>>, ~HalfWay(Top),
           UNCHANGED <<chat_input, chat_socket, chat_buffer, sources, open, made, nested>>,
           stack' \in Seq(Frame),
           Len(stack') = Len(stack) - 1 \/ Len(stack') = Len(stack),
           \A i \in 1..Len(stack) - 1 : stack'[i] = stack[i],
           Len(stack') = Len(stack) => ~HalfWay(stack'[Len(stack)])
    PROVE  Sockets' /\ Single' /\ Pending' = Pending
<1> DEFINE n == Len(stack)
<1>1. Types /\ n \in Nat \ {0} /\ Top = stack[n]
  BY TopLemma DEF IInv
<1>2. /\ \A i \in 1..n : i = n \/ i \in 1..n - 1
      /\ \A i \in 1..n - 1 : i \in 1..n
      /\ \A i \in 1..Len(stack') : i \in 1..n - 1 \/ (i = n /\ Len(stack') = n)
  BY <1>1
<1>3. /\ \A i \in 1..n - 1 : stack'[i] = stack[i]
      /\ Len(stack') = n => ~HalfWay(stack'[n])
  OBVIOUS
<1> HIDE DEF n
<1>4. \A i \in 1..Len(stack') : HalfWay(stack'[i]) =>
            i \in 1..n /\ stack'[i] = stack[i] /\ HalfWay(stack[i])
  BY <1>2, <1>3
<1>5. Pending' = Pending
  <2>1. Top.pc # "drain_after"
    BY DEF HalfWay
  <2>2. \A i, j \in 1..Len(stack) :
                stack[i].pc = "drain_after" /\ stack[j].pc = "drain_after"
                /\ stack[i].conn = stack[j].conn => i = j
    BY DEF IInv, Sockets
  <2>3. ~(Len(stack') = Len(stack) /\ stack'[Len(stack)].pc = "drain_after")
    BY <1>3 DEF HalfWay, n
  <2> QED
    BY <2>1, <2>2, <2>3, <1>1, TopPending
<1>6. Sockets'
  <2>1. \A i \in 1..Len(stack') : stack'[i].pc = "drain_after" =>
            i \in 1..n /\ stack'[i] = stack[i]
    BY <1>4 DEF HalfWay
  <2> QED
    BY <2>1 DEF IInv, Sockets, n
<1>7. Single'
  <2>1. ASSUME ~nested PROVE \A i \in 1..Len(stack') : ~HalfWay(stack'[i])
    BY <2>1, <1>4 DEF IInv, Single, Alone, n
  <2> QED
    BY <2>1, <1>5 DEF IInv, Single, Alone, HalfWay
<1> QED
  BY <1>5, <1>6, <1>7

\* Nor does such a frame, when it goes, uncover one that shows the buffer.
LEMMA NotServing ==
    ASSUME Types, Reading, stack # <<>>, stack' = Below, chat_buffer' = chat_buffer
    PROVE  /\ \A i \in 1..Len(stack') : ~(InLine(stack'[i]) /\ stack'[i].buf = chat_buffer')
           /\ ~Serving'
<1> DEFINE n == Len(stack)
<1>1. /\ stack' \in Seq(Frame) /\ n \in Nat \ {0} /\ Len(stack') = n - 1
      /\ \A i \in 1..n - 1 : stack'[i] = stack[i]
  BY PopStack
<1>2. \A i \in 1..n - 1 : i \in 1..n /\ i # n
  BY <1>1
<1>3. \A i \in 1..n - 1 : ~(InLine(stack'[i]) /\ stack'[i].buf = chat_buffer')
  BY <1>1, <1>2 DEF Reading
<1>4. CASE stack' = <<>>
  BY <1>1, <1>3, <1>4 DEF Serving
<1>5. CASE stack' # <<>>
  <2>1. Len(stack') \in 1..n - 1
    BY <1>5, <1>1, EmptySeq
  <2>2. Top' = stack'[Len(stack')]
    BY DEF Top, Last
  <2> HIDE DEF n
  <2> QED
    BY <2>1, <2>2, <1>1, <1>3 DEF Serving, InLine
<1> QED
  BY <1>4, <1>5

\* What recv() reads is taken off the wire and put behind what the buffer holds.
LEMMA RecvStep ==
    ASSUME IInv, NEW n \in Nat, Recv(n)
    PROVE  IInv'
<1> DEFINE c == chat_socket
           w == wire[c]
           read == SubSeq(w, 1, n)
           h == Len(held)
           f == [Top EXCEPT !.pc = "line", !.buf = chat_buffer]
<1>1. /\ Types /\ stack # <<>> /\ Top.pc = "recv" /\ c \in open
      /\ n \in 1..Left /\ n <= Len(w)
      /\ held' = held \o read
      /\ wire' = [wire EXCEPT ![c] = SubSeq(w, n + 1, Len(w))]
      /\ burst' = (burst \/ \E i, j \in Marks(read) : i # j)
      /\ stack' = IF Marks(held') # {} THEN Append(Below, f) ELSE Below
      /\ UNCHANGED <<chat_input, chat_socket, chat_buffer, sources, open, made, sent, closed,
                     shown, nested, dropped, fault>>
  BY DEF IInv, Recv, At, Closing
<1>2. chat_input # 0 /\ chat_input = c /\ chat_buffer = c /\ c \in sources
  BY <1>1 DEF IInv, Sockets
<1>3. /\ c \in Conn /\ shown[c] \in Seq(Token) /\ w \in Seq(Token) /\ held \in Seq(Token)
      /\ h \in Nat /\ Len(w) \in Nat
  BY <1>1, <1>2, HeldLemma DEF IInv
<1>4. Reading /\ shown[c] \o held \o w = sent[c]
  BY <1>2 DEF IInv, Lines, Streams
<1>5. ~Serving /\ (~burst => Marks(held) = {})
  BY <1>1, <1>4 DEF Serving, InLine, Reading
<1>6. n >= 1 /\ h + n < CHAT_SIZE
  BY <1>1, <1>3, ChatClientAssumption DEF Left
<1> HIDE DEF h
<1>7. read \in Seq(Token) /\ Len(read) = n
  <2>1. 1 \in Int /\ n \in Int /\ n - 1 + 1 = n /\ 1 <= n
        /\ \A i \in 1..n : i \in 1..Len(w)
    BY <1>1, <1>3, <1>6
  <2>2. \A i \in 1..n : w[i] \in Token
    BY <2>1, <1>3, ElementOfSeq
  <2>3. /\ read \in Seq(Token)
        /\ Len(read) = IF 1 <= n THEN n - 1 + 1 ELSE 0
    BY <2>1, <2>2, SubSeqProperties
  <2> HIDE DEF read, w
  <2> QED
    BY <2>1, <2>3, <1>3
<1>8. read \o SubSeq(w, n + 1, Len(w)) = w
  <2>1. 1 \in 1..Len(w) + 1 /\ n \in 1 - 1..Len(w) /\ Len(w) \in n..Len(w)
    BY <1>1, <1>3, <1>6
  <2>2. read \o SubSeq(w, n + 1, Len(w)) = SubSeq(w, 1, Len(w))
    BY <2>1, <1>3, ConcatAdjacentSubSeq
  <2> HIDE DEF read
  <2> QED
    BY <2>2, <1>3, SubSeqFull
<1> DEFINE rest == SubSeq(w, n + 1, Len(w))
<1>9. rest \in Seq(Token)
  <2>1. n + 1 \in Int /\ Len(w) \in Int /\ \A i \in n + 1..Len(w) : i \in 1..Len(w)
    BY <1>3, <1>6
  <2>2. \A i \in n + 1..Len(w) : w[i] \in Token
    BY <2>1, <1>3, ElementOfSeq
  <2> QED
    BY <2>1, <2>2, SubSeqProperties
<1> HIDE DEF rest, read
<1>10. wire'[c] = rest /\ (\A d \in Conn : d # c => wire'[d] = wire[d])
       /\ wire' \in [Conn -> Seq(Token)]
  BY <1>1, <1>3, <1>9 DEF Types, rest
<1>11. held' \in Seq(Token) /\ Len(held') = h + n
  BY <1>1, <1>3, <1>7, ConcatProperties DEF h
<1>13. ~burst' => OneMark(held')
  <2> SUFFICES ASSUME ~burst' PROVE OneMark(held \o read)
    BY <1>1
  <2>1. Marks(held) = {} /\ OneMark(read)
    BY <1>1, <1>5 DEF OneMark
  <2> QED
    BY <2>1, <1>3, <1>7, JoinMarks
<1>14. shown[c] \o held' \o wire'[c] = sent[c]
  <2>1. /\ shown[c] \in Seq(Token) /\ held \in Seq(Token) /\ held' \in Seq(Token)
        /\ w \in Seq(Token) /\ read \in Seq(Token) /\ rest \in Seq(Token)
    BY <1>3, <1>7, <1>9, <1>11
  <2>2. read \o rest = w /\ held' = held \o read
    BY <1>1, <1>8 DEF rest, read
  <2>3. Joined(shown[c], held, read, rest)
    BY <2>1, JoinLemma
  <2> QED
    BY <2>2, <2>3, <1>4, <1>10 DEF Joined
<1>15. f \in Frame /\ f.pc = "line" /\ f.buf = c
  <2>1. Top \in Frame /\ chat_buffer \in 0..MaxConns
    BY <1>1, TopLemma DEF Types
  <2> QED
    BY <2>1, <1>2 DEF Frame, Loops
<1>16. Len(stack) \in Nat \ {0}
  BY <1>1, TopLemma
<1> HIDE DEF f
<1>17. /\ stack' \in Seq(Frame)
       /\ Len(stack') = Len(stack) - 1 \/ Len(stack') = Len(stack)
       /\ \A i \in 1..Len(stack) - 1 : stack'[i] = stack[i]
       /\ Len(stack') = Len(stack) => stack'[Len(stack)] = f
  <2>1. CASE stack' = Append(Below, f)
    BY <2>1, <1>1, <1>15, ReplaceStack
  <2>2. CASE stack' = Below
    <3>1. /\ stack' \in Seq(Frame) /\ Len(stack') = Len(stack) - 1
          /\ \A i \in 1..Len(stack) - 1 : stack'[i] = stack[i]
      BY <2>2, <1>1, PopStack
    <3>2. Len(stack') # Len(stack)
      BY <3>1, <1>16
    <3> QED
      BY <3>1, <3>2
  <2> QED
    BY <2>1, <2>2, <1>1 DEF f
<1>18. Sockets' /\ Single' /\ Pending' = Pending
  <2>1. ~HalfWay(Top) /\ ~HalfWay(f)
    BY <1>1, <1>15 DEF HalfWay
  <2> QED
    BY <2>1, <1>1, <1>2, <1>17, ReadFrames
<1>19. c \in 1..made \ Pending
  <2>1. c \in 1..made
    BY <1>1 DEF IInv, Sockets
  <2>2. c \notin Pending
    BY <1>2, PendingLemma DEF IInv, Types, Sockets
  <2> QED
    BY <2>1, <2>2
<1>20. Types'
  <2>1. burst' \in BOOLEAN
    BY <1>1 DEF Types
  <2>2. Len(held') < CHAT_SIZE
    BY <1>6, <1>11
  <2> QED
    BY <2>1, <2>2, <1>1, <1>10, <1>11, <1>17 DEF Types
<1>21. Streams'
  <2>2. \A d \in Conn : d > made' \/ d \in Pending' => d # c
    BY <1>1, <1>18, <1>19 DEF Types, Conn
  <2>3. \A d \in Conn : d > made' \/ d \in Pending' =>
            shown'[d] = <<>> /\ wire'[d] = sent'[d]
    BY <2>2, <1>1, <1>10, <1>18 DEF IInv, Streams
  <2> QED
    BY <2>3, <1>1, <1>2, <1>14 DEF Streams
<1>22. Lines'
  <2>1. CASE Marks(held') = {}
    <3>1. stack' = Below
      BY <2>1, <1>1
    <3>2. /\ \A i \in 1..Len(stack') : ~(InLine(stack'[i]) /\ stack'[i].buf = chat_buffer')
          /\ ~Serving'
      BY <3>1, <1>1, <1>4, NotServing
    <3>3. Len(stack') = Len(stack) - 1
      BY <3>1, <1>1, PopStack
    <3>4. \A i \in 1..Len(stack') : i \in 1..Len(stack) /\ stack'[i] = stack[i]
      BY <3>3, <1>16, <1>17
    <3> QED
      BY <3>2, <3>4, <2>1, <1>1, <1>18 DEF IInv, Lines, Reading, InLine
  <2>2. CASE Marks(held') # {}
    <3>1. stack' = Append(Below, f)
      BY <2>2, <1>1 DEF f
    <3>2. Len(stack') = Len(stack) /\ stack' # <<>>
      BY <3>1, <1>1, <1>15, ReplaceStack
    <3>3. Top' = f
      BY <3>2, <1>17 DEF Top, Last
    <3>4. Serving'
      BY <3>2, <3>3, <1>1, <1>2, <1>15 DEF Serving, InLine
    <3>5. \A i \in 1..Len(stack') : i = Len(stack') \/ (i \in 1..Len(stack) /\ stack'[i] = stack[i])
      BY <3>2, <1>16, <1>17
    <3>6. \A i \in 1..Len(stack') : InLine(stack'[i]) => stack'[i].buf \in 1..made' \ Pending'
      BY <3>2, <3>5, <1>1, <1>15, <1>17, <1>18, <1>19 DEF IInv, Lines
    <3>7. ASSUME NEW i \in 1..Len(stack), InLine(stack[i]), stack[i].buf = chat_buffer
          PROVE  FALSE
      <4>1. i = Len(stack)
        BY <3>7, <1>4 DEF Reading
      <4>2. stack[i] = Top
        BY <4>1, <1>1, TopLemma
      <4> QED
        BY <4>2, <3>7, <1>1 DEF InLine
    <3> QED
      BY <3>4, <3>5, <3>6, <3>7, <2>2, <1>13, <1>1 DEF Lines, Reading, InLine
  <2> QED
    BY <2>1, <2>2
<1> QED
  BY <1>18, <1>20, <1>21, <1>22 DEF IInv

\* What is behind the message moves to the front.
LEMMA LineEndStep ==
    ASSUME IInv, LineEnd
    PROVE  IInv'
<1>1. Types /\ stack # <<>> /\ Top.pc = "line_end"
  BY DEF IInv, LineEnd, At
<1>2. CASE chat_input = 0 \/ chat_buffer # Top.buf
  <2>1. /\ fault' = "freed_buffer"
        /\ UNCHANGED <<chat_input, chat_socket, chat_buffer, held, sources, open>>
        /\ UNCHANGED <<stack, made, wire, sent, closed, shown, nested, burst, dropped>>
    BY <1>2 DEF LineEnd, server, ghosts
  <2>2. Pending' = Pending
    BY <2>1 DEF Pending
  <2>3. Types' /\ Streams'
    BY <2>1, <2>2 DEF IInv, Types, Streams
  <2>4. Sockets' /\ Single' /\ Lines'
    BY <2>1, <2>2 DEF IInv, Sockets, Single, Alone, Lines, Reading, Serving, Top
  <2> QED
    BY <2>3, <2>4 DEF IInv
<1>3. CASE chat_input # 0 /\ chat_buffer = Top.buf
  <2> DEFINE c == chat_input
             h == Len(held)
             m == FirstMark
             said == SubSeq(held, 1, m)
             rest == SubSeq(held, m + 1, h)
  <2>1. /\ shown' = [shown EXCEPT ![Top.buf] = @ \o SubSeq(held, 1, FirstMark)]
        /\ held' = Rest /\ stack' = Below
        /\ UNCHANGED <<chat_input, chat_socket, chat_buffer, sources, open, made, wire, sent,
                       closed, nested, burst, dropped, fault>>
    BY <1>3 DEF LineEnd, server, ghosts
  <2>2. c # 0 /\ chat_buffer = c /\ Top.buf = c /\ c \in sources
    BY <1>3 DEF IInv, Sockets
  <2>3. /\ c \in Conn /\ shown[c] \in Seq(Token) /\ wire[c] \in Seq(Token) /\ held \in Seq(Token)
        /\ h \in Nat
    BY <2>2, HeldLemma DEF IInv
  <2>4. Reading /\ shown[c] \o held \o wire[c] = sent[c]
    BY <2>2 DEF IInv, Lines, Streams
  <2>5. Marks(held) # {} /\ (~burst => OneMark(held)) /\ h < CHAT_SIZE
    <3>1. Serving
      BY <1>1, <1>3 DEF Serving, InLine
    <3> QED
      BY <3>1, <2>4, <1>1 DEF Reading, Types
  <2>6. m \in Marks(held)
    BY <2>3, <2>5, FirstMarkLemma
  <2>7. /\ shown' = [shown EXCEPT ![c] = @ \o said]
        /\ held' = rest
    BY <2>1, <2>2 DEF Rest
  <2> HIDE DEF m
  <2>8. /\ m \in 1..h /\ said \in Seq(Token) /\ said \o rest = held
        /\ rest \in Seq(Token) /\ Len(rest) = h - m
        /\ OneMark(held) => Marks(rest) = {}
    BY <2>3, <2>6, RestMarks
  <2> HIDE DEF said, rest, h
  <2>11. shown[c] \o said \in Seq(Token)
    BY <2>3, <2>8, ConcatProperties
  <2>12. /\ shown'[c] = shown[c] \o said /\ shown' \in [Conn -> Seq(Token)]
         /\ \A d \in Conn : d # c => shown'[d] = shown[d]
    BY <2>3, <2>7, <2>11, <1>1 DEF Types
  <2>13. shown'[c] \o held' \o wire[c] = sent[c]
    <3>1. Moved(shown[c], said, rest, wire[c])
      BY <2>3, <2>8, MoveLemma
    <3> QED
      BY <3>1, <2>4, <2>7, <2>8, <2>12 DEF Moved
  <2>14. /\ stack' \in Seq(Frame) /\ Len(stack) \in Nat \ {0} /\ Len(stack') = Len(stack) - 1
         /\ \A i \in 1..Len(stack) - 1 : stack'[i] = stack[i]
    BY <2>1, <1>1, PopStack
  <2>15. Sockets' /\ Single' /\ Pending' = Pending
    <3>1. Len(stack') # Len(stack)
      BY <2>14
    <3> QED
      BY <3>1, <2>1, <2>2, <2>14, <1>1, ReadFrames DEF HalfWay
  <2>16. /\ \A i \in 1..Len(stack') : ~(InLine(stack'[i]) /\ stack'[i].buf = chat_buffer')
         /\ ~Serving'
    BY <2>1, <2>4, <1>1, NotServing
  <2>17. Len(held') <= CHAT_SIZE - 2 /\ Len(held') < CHAT_SIZE
    BY <2>3, <2>5, <2>7, <2>8, ChatClientAssumption DEF h
  <2>18. Types'
    <3>1. held' \in Seq(Token)
      BY <2>7, <2>8
    <3> QED
      BY <3>1, <2>1, <2>12, <2>14, <2>17, <1>1 DEF Types
  <2>19. Streams'
    <3>2. c \notin Pending /\ c <= made
      <4>1. c \in 1..made
        BY <2>2 DEF IInv, Sockets
      <4>2. c \notin Pending
        BY <2>2, PendingLemma DEF IInv, Types, Sockets
      <4> QED
        BY <4>1, <4>2
    <3>3. \A d \in Conn : d > made' \/ d \in Pending' => d # c
      BY <3>2, <2>1, <2>15, <1>1 DEF Types, Conn
    <3>4. \A d \in Conn : d > made' \/ d \in Pending' =>
              shown'[d] = <<>> /\ wire'[d] = sent'[d]
      BY <3>3, <2>1, <2>12, <2>15 DEF IInv, Streams
    <3> QED
      BY <3>4, <2>1, <2>13 DEF Streams
  <2>20. Lines'
    <3>1. \A i \in 1..Len(stack') : i \in 1..Len(stack) /\ stack'[i] = stack[i]
      BY <2>14
    <3>2. Marks(held') = {} \/ (burst' /\ Len(held') <= CHAT_SIZE - 2)
      <4>1. burst' = burst /\ (burst \in BOOLEAN)
        BY <2>1 DEF IInv, Types
      <4>2. CASE burst
        BY <4>1, <4>2, <2>17
      <4>3. CASE ~burst
        BY <4>3, <2>5, <2>7, <2>8
      <4> QED
        BY <4>2, <4>3
    <3> QED
      BY <3>1, <3>2, <2>1, <2>15, <2>16 DEF IInv, Lines, Reading, InLine
  <2> QED
    BY <2>15, <2>18, <2>19, <2>20 DEF IInv
<1> QED
  BY <1>2, <1>3

-----------------------------------------------------------------------------
(* The invariant and what follows from it. *)

\* Every step keeps the invariant.
LEMMA NextInv ==
    ASSUME IInv, [Next]_vars
    PROVE  IInv'
<1>1. CASE UNCHANGED vars
  <2>1. /\ UNCHANGED <<chat_input, chat_socket, chat_buffer, held, sources, open>>
        /\ UNCHANGED <<stack, made, wire, sent, closed, shown, nested, burst, dropped, fault>>
    BY <1>1 DEF vars, state, server, ghosts
  <2>2. Pending' = Pending
    BY <2>1 DEF Pending
  <2>3. Types' /\ Streams'
    BY <2>1, <2>2 DEF IInv, Types, Streams
  <2>4. Sockets' /\ Single' /\ Lines'
    BY <2>1, <2>2 DEF IInv, Sockets, Single, Alone, Lines, Reading, Serving, Top
  <2> QED
    BY <2>3, <2>4 DEF IInv
<1>2. CASE Program
  <2>1. CASE Dials
    BY <2>1, GivesUpStep, MakesStep
  <2>2. ASSUME NEW s \in Conn, Dispatch(s) PROVE IInv'
    BY <2>2, DispatchStep
  <2>3. ASSUME NEW n \in 1..CHAT_SIZE, Recv(n) PROVE IInv'
    <3>1. n \in Nat
      BY ChatClientAssumption
    <3> QED
      BY <3>1, <2>3, RecvStep
  <2> QED
    BY <1>2, <2>1, <2>2, <2>3, PopupOkStep, ConnectedStep, ServerClosesStep, TriggerStep,
       LineEndStep DEF Program
<1> QED
  BY <1>1, <1>2, TypedStep, SendsStep, ClosesStep DEF Next

\* The invariant holds in every state of the client.
THEOREM Inductive == Spec => []IInv
BY InitInv, NextInv, PTL DEF Spec

\* The variables keep their types, whatever is typed, triggered, sent and closed.
THEOREM TypeCorrect == Spec => []TypeOK
<1>1. IInv => TypeOK
  <2> SUFFICES ASSUME IInv PROVE TypeOK
    OBVIOUS
  <2>1. open \subseteq Conn
    <3>1. made \in 0..MaxConns /\ MaxConns \in Nat /\ open \subseteq 1..made
      BY ChatClientAssumption DEF IInv, Types, Sockets
    <3>2. 1..made \subseteq 1..MaxConns
      BY <3>1
    <3> QED
      BY <3>1, <3>2 DEF Conn
  <2> QED
    BY <2>1 DEF IInv, Types, Sockets, TypeOK
<1> QED
  BY <1>1, Inductive, PTL

\* Unless a #chconnect runs inside another, connect and disconnect keep one
\* source, that of mud->chat_socket, and leak no descriptor.
THEOREM SourceIsSingle == Spec => []OneSource
<1>1. IInv => OneSource
  BY DEF IInv, Single, Alone, Sockets, OneSource
<1> QED
  BY <1>1, Inductive, PTL

\* read_from_chat() shows what the server sent, in order, none of it lost, twice
\* or of another connection, even when a trigger reconnects in the middle.
THEOREM StreamIsWhole == Spec => []NothingLost
<1>1. IInv => NothingLost
  BY DEF IInv, Streams, NothingLost
<1> QED
  BY <1>1, Inductive, PTL

\* read_from_chat() shows one message at a time: one waits in the buffer for the
\* next only after two came in one read.
THEOREM BehindIsBounded == Spec => []BehindOnlyAfterBurst
<1>1. IInv => BehindOnlyAfterBurst
  BY DEF IInv, Lines, Reading, Serving, BehindOnlyAfterBurst
<1> QED
  BY <1>1, Inductive, PTL

\* The middle part of a sequence.
LEMMA MiddleLemma ==
    ASSUME NEW a \in Seq(Token), NEW b \in Seq(Token), NEW d \in Seq(Token)
    PROVE  /\ Len(a \o b \o d) = Len(a) + Len(b) + Len(d)
           /\ \A i \in 1..Len(b) : (a \o b \o d)[Len(a) + i] = b[i]
<1> DEFINE ab == a \o b
           k == Len(a)
           h == Len(b)
           w == Len(d)
<1>1. k \in Nat /\ h \in Nat /\ w \in Nat
  BY LenProperties
<1>2. /\ ab \in Seq(Token) /\ Len(ab) = k + h
      /\ \A i \in 1..k + h : ab[i] = IF i <= k THEN a[i] ELSE b[i - k]
  BY ConcatProperties
<1> HIDE DEF ab, k, h, w
<1>3. /\ Len(ab \o d) = k + h + w
      /\ \A i \in 1..k + h + w : (ab \o d)[i] = IF i <= k + h THEN ab[i] ELSE d[i - (k + h)]
  <2>1. /\ Len(ab \o d) = Len(ab) + w
        /\ \A i \in 1..Len(ab) + w : (ab \o d)[i] = IF i <= Len(ab) THEN ab[i] ELSE d[i - Len(ab)]
    <3>1. ab \in Seq(Token)
      BY <1>2
    <3> QED
      BY <3>1, ConcatProperties DEF w
  <2> QED
    BY <2>1, <1>2
<1>4. ASSUME NEW i \in 1..h PROVE (ab \o d)[k + i] = b[i]
  <2> DEFINE j == k + i
  <2>1. j \in 1..k + h /\ j \in 1..k + h + w /\ j <= k + h /\ ~(j <= k) /\ j - k = i
    BY <1>1
  <2> HIDE DEF j
  <2>2. (ab \o d)[j] = ab[j] /\ ab[j] = b[j - k]
    BY <2>1, <1>2, <1>3
  <2> QED
    BY <2>1, <2>2 DEF j
<1> QED
  BY <1>3, <1>4 DEF ab, k, h, w

\* When recv() has no room, what fills the buffer is part of one message.
LEMMA FullLemma ==
    ASSUME IInv, ~Serving, chat_input # 0, Left = 0
    PROVE  TooLong(sent[chat_input])
<1> DEFINE c == chat_input
           k == Len(shown[c])
           n == Len(sent[c])
<1>1. /\ shown[c] \in Seq(Token) /\ wire[c] \in Seq(Token) /\ held \in Seq(Token)
      /\ k \in Nat /\ Len(held) \in Nat /\ Len(wire[c]) \in Nat
  BY HeldLemma DEF IInv
<1>2. CHAT_SIZE \in Nat /\ CHAT_SIZE >= 2 /\ Len(held) = CHAT_SIZE - 1
  BY <1>1, ChatClientAssumption DEF Left
<1>3. Marks(held) = {}
  <2>1. Marks(held) = {} \/ Len(held) <= CHAT_SIZE - 2
    BY DEF IInv, Lines, Reading
  <2> QED
    BY <2>1, <1>2
<1>4. /\ n = k + Len(held) + Len(wire[c])
      /\ \A i \in 1..Len(held) : sent[c][k + i] = held[i]
  <2> DEFINE s == shown[c] \o held \o wire[c]
  <2>1. s = sent[c]
    BY DEF IInv, Streams
  <2>2. /\ Len(s) = Len(shown[c]) + Len(held) + Len(wire[c])
        /\ \A i \in 1..Len(held) : s[Len(shown[c]) + i] = held[i]
    BY <1>1, MiddleLemma
  <2> HIDE DEF s
  <2> QED
    BY <2>1, <2>2
<1> HIDE DEF k, n
<1>5. k + 1 \in 1..n - CHAT_SIZE + 2
  <2> DEFINE h == Len(held)
             w == Len(wire[c])
  <2>1. k \in Nat /\ h \in Nat /\ w \in Nat /\ CHAT_SIZE \in Nat
    BY <1>1, <1>2 DEF k
  <2>2. h = CHAT_SIZE - 1 /\ n = k + h + w
    BY <1>2, <1>4
  <2> HIDE DEF h, w
  <2> QED
    BY <2>1, <2>2
<1>6. ASSUME NEW j \in k + 1..k + 1 + CHAT_SIZE - 2 PROVE ~sent[c][j].marker
  <2> DEFINE i == j - k
  <2>1. i \in 1..Len(held) /\ k + i = j
    BY <1>1, <1>2 DEF k
  <2> HIDE DEF i
  <2>2. sent[c][j] = held[i]
    BY <2>1, <1>4
  <2> QED
    BY <2>1, <2>2, <1>1, <1>3, MarksLemma
<1> QED
  BY <1>5, <1>6 DEF TooLong, n

\* What was sent stays sent.
LEMMA SentStays ==
    ASSUME IInv, [Next]_vars, NEW c \in Conn, TooLong(sent[c])
    PROVE  TooLong(sent'[c])
<1>1. CASE sent'[c] = sent[c]
  BY <1>1 DEF TooLong
<1>2. ASSUME NEW marker \in BOOLEAN, Sends(c, marker)
      PROVE  TooLong(sent'[c])
  <2> DEFINE token == [number |-> Len(sent[c]) + 1, marker |-> marker]
             n == Len(sent[c])
  <2>1. sent[c] \in Seq(Token) /\ sent'[c] = Append(sent[c], token) /\ n < MaxSent
    BY <1>2 DEF Sends, IInv, Types
  <2>2. n \in Nat /\ CHAT_SIZE \in Nat /\ CHAT_SIZE >= 2 /\ MaxSent \in Nat
    BY <2>1, LenProperties, ChatClientAssumption
  <2>3. token \in Token
    BY <2>1, <2>2 DEF Token
  <2> HIDE DEF token
  <2>4. Len(sent'[c]) = n + 1 /\ \A i \in 1..n : sent'[c][i] = sent[c][i]
    BY <2>1, <2>3, AppendProperties
  <2>5. PICK i \in 1..n - CHAT_SIZE + 2 : \A j \in i..i + CHAT_SIZE - 2 : ~sent[c][j].marker
    BY DEF TooLong
  <2> HIDE DEF n
  <2>6. /\ i \in 1..(n + 1) - CHAT_SIZE + 2
        /\ \A j \in i..i + CHAT_SIZE - 2 : j \in 1..n
    BY <2>2
  <2>7. \A j \in i..i + CHAT_SIZE - 2 : ~sent'[c][j].marker
    BY <2>4, <2>5, <2>6
  <2> QED
    BY <2>4, <2>6, <2>7 DEF TooLong
<1>3. ASSUME NEW d \in Conn, NEW marker \in BOOLEAN, Sends(d, marker), d # c
      PROVE  sent'[c] = sent[c]
  BY <1>3 DEF Sends, IInv, Types
<1>4. ASSUME ~\E d \in Conn, marker \in BOOLEAN : Sends(d, marker)
      PROVE  sent' = sent
  BY <1>4 DEF Next, Program, Typed, Chdisconnect, Chconnect, Dials, PopupOk, Connected, Dispatch,
              ServerCloses, Recv, Trigger, LineEnd, Closes, vars, server
<1> QED
  BY <1>1, <1>2, <1>3, <1>4

\* recv() is given no room, and takes that for the server closing, only when a
\* message alone, and not several that wait, is longer than mud->chat_buffer.
THEOREM DropsOnlyTooLong == Spec => []DroppedOnlyIfTooLong
<1>1. Init => DroppedOnlyIfTooLong
  BY DEF Init, DroppedOnlyIfTooLong
<1>2. ASSUME IInv, DroppedOnlyIfTooLong, [Next]_vars
      PROVE  DroppedOnlyIfTooLong'
  <2>1. ASSUME dropped PROVE \E c \in Conn : TooLong(sent'[c])
    BY <2>1, <1>2, SentStays DEF DroppedOnlyIfTooLong
  <2>2. CASE ServerCloses
    <3>1. /\ Types /\ stack # <<>> /\ Top.pc = "recv" /\ Closing /\ sent' = sent
          /\ dropped' = (dropped \/ (chat_input # 0 /\ ~closed[chat_socket]))
      BY <1>2, <2>2 DEF IInv, ServerCloses, At, server
    <3>2. ASSUME chat_input # 0, ~closed[chat_socket]
          PROVE  \E c \in Conn : TooLong(sent'[c])
      <4>1. chat_socket \in open
        BY <1>2, <3>2 DEF IInv, Sockets
      <4>2. Left = 0 /\ ~Serving
        BY <3>1, <3>2, <4>1 DEF Closing, Serving, InLine
      <4>3. chat_input \in Conn /\ TooLong(sent[chat_input])
        BY <1>2, <3>1, <3>2, <4>2, FullLemma, HeldLemma
      <4> QED
        BY <3>1, <4>3
    <3> QED
      BY <2>1, <3>1, <3>2 DEF DroppedOnlyIfTooLong
  <2>3. CASE ~ServerCloses
    <3>1. dropped' = dropped
      BY <1>2, <2>3 DEF Next, Program, Typed, Chdisconnect, Chconnect, Dials, PopupOk, Connected,
              Dispatch, Recv, Trigger, LineEnd, Sends, Closes, vars, ghosts
    <3> QED
      BY <2>1, <3>1 DEF DroppedOnlyIfTooLong
  <2> QED
    BY <2>2, <2>3
<1> QED
  BY <1>1, <1>2, Inductive, PTL DEF Spec
=============================================================================
