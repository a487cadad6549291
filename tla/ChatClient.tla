----------------------------- MODULE ChatClient ---------------------------
(***************************************************************************)
(* The client's connection to a chat server (chat.c): #chconnect, which    *)
(* runs the main loop twice while it is half done, #chdisconnect, and      *)
(* read_from_chat(), whose lines run triggers, which may give either       *)
(* command.  The server and the stream are external.                       *)
(*                                                                         *)
(* The C stack is a sequence of frames, the last one on top.  A descriptor *)
(* is the number of the connection it was made for: none is used again.    *)
(*                                                                         *)
(* Abstracted: a message is one token or several, the last of them with    *)
(* the LINE_MARKER; sizes are counted in tokens; arguments are right.      *)
(***************************************************************************)
EXTENDS Integers, Sequences, SequencesExt, FiniteSets

CONSTANTS
    MaxConns,       \* bound: connections that are made
    MaxSent,        \* bound: tokens a server sends
    MaxDepth,       \* bound: no event is dispatched under this many frames
    CHAT_SIZE       \* the size of the buffer, of which one stays free

ASSUME ChatClientAssumption ==
    /\ MaxConns \in Nat /\ MaxSent \in Nat /\ MaxDepth \in Nat
    /\ CHAT_SIZE \in Nat \ {0, 1}

VARIABLES
    chat_input,     \* the source mud->chat_input names, or 0
    chat_socket,    \* mud->chat_socket, or 0 at first
    chat_buffer,    \* the connection mud->chat_buffer was allocated for
    held,           \* its first mud->chat_offset tokens
    sources,        \* the sources that are installed, by descriptor
    open,           \* the descriptors that are open
    stack,
    made,           \* how many connections were made
    wire, sent, closed,     \* per connection: in flight, all that was sent, closed by the server
    shown,          \* per connection: what the user was shown
    nested,         \* a #chconnect ran inside another
    burst,          \* a read brought the end of two messages
    dropped,        \* a server that had not closed was taken to have
    fault

state == <<chat_input, chat_socket, chat_buffer, held, sources, open>>
server == <<wire, sent, closed>>
ghosts == <<nested, burst, dropped>>
vars == <<state, stack, made, server, shown, ghosts, fault>>

Conn == 1..MaxConns
Token == [number : 1..MaxSent, marker : BOOLEAN]
Loops == {"drain_before", "drain_after", "popup"}
Frame == [pc : Loops \cup {"recv", "line", "line_end"}, conn : 0..MaxConns, buf : 0..MaxConns]

TypeOK ==
    /\ chat_input \in 0..MaxConns /\ chat_socket \in 0..MaxConns
    /\ chat_buffer \in 0..MaxConns
    /\ held \in Seq(Token) /\ Len(held) < CHAT_SIZE
    /\ sources \subseteq open /\ open \subseteq Conn
    /\ stack \in Seq(Frame) /\ made \in 0..MaxConns
    /\ wire \in [Conn -> Seq(Token)] /\ shown \in [Conn -> Seq(Token)]
    /\ sent \in [Conn -> Seq(Token)] /\ closed \in [Conn -> BOOLEAN]
    /\ fault \in {"none", "freed_buffer"}

Init ==
    /\ chat_input = 0 /\ chat_socket = 0 /\ chat_buffer = 0 /\ held = <<>>
    /\ sources = {} /\ open = {} /\ stack = <<>> /\ made = 0
    /\ wire = [c \in Conn |-> <<>>] /\ sent = [c \in Conn |-> <<>>]
    /\ closed = [c \in Conn |-> FALSE] /\ shown = [c \in Conn |-> <<>>]
    /\ nested = FALSE /\ burst = FALSE /\ dropped = FALSE /\ fault = "none"

Fr(pc, conn) == [pc |-> pc, conn |-> conn, buf |-> 0]
Top == Last(stack)
Below == Front(stack)
At(pc) == fault = "none" /\ stack # <<>> /\ Top.pc = pc
MainLoop == fault = "none" /\ Len(stack) < MaxDepth /\ (stack # <<>> => Top.pc \in Loops)
Connecting == \E k \in DOMAIN stack : stack[k].pc \in {"drain_before", "drain_after"}

Marks(tokens) == {k \in DOMAIN tokens : tokens[k].marker}

-----------------------------------------------------------------------------
(* Commands, typed or run by a trigger; st is the stack they are run on. *)

\* Mutant: the socket stays.
MutantKeepsSocket ==
    IF chat_input = 0 THEN UNCHANGED state
    ELSE /\ sources' = sources \ {chat_input} /\ chat_input' = 0
         /\ UNCHANGED <<open, chat_socket, chat_buffer, held>>

\* chdisconnect_command(): the buffer is freed, the pointer stays.
Disconnect ==
    IF chat_input = 0 THEN UNCHANGED state
    ELSE /\ sources' = sources \ {chat_input}
         /\ open' = open \ {chat_socket}
         /\ chat_input' = 0
         /\ UNCHANGED <<chat_socket, chat_buffer, held>>

Chdisconnect(st) ==
    /\ Disconnect
    /\ stack' = st
    /\ UNCHANGED <<made, server, shown, ghosts, fault>>

\* chconnect_command() up to its first loop.
Chconnect(st) ==
    /\ Disconnect
    /\ nested' = (nested \/ Connecting)
    /\ stack' = Append(st, Fr("drain_before", 0))
    /\ UNCHANGED <<made, server, shown, burst, dropped, fault>>

Typed ==
    /\ MainLoop
    /\ Chdisconnect(stack) \/ Chconnect(stack)

\* No event is left: the host is not found, the connect fails, or it does not.
Dials ==
    /\ At("drain_before")
    /\ \/ stack' = Append(Below, Fr("popup", 0)) /\ UNCHANGED <<made, open>>
       \/ stack' = Below /\ UNCHANGED <<made, open>>
       \/ /\ made < MaxConns
          /\ made' = made + 1 /\ open' = open \cup {made'}
          /\ stack' = Append(Below, Fr("drain_after", made'))
    /\ UNCHANGED <<chat_input, chat_socket, chat_buffer, held, sources,
                   server, shown, ghosts, fault>>

PopupOk ==
    /\ At("popup")
    /\ stack' = Below
    /\ UNCHANGED <<state, made, server, shown, ghosts, fault>>

\* Mutant: chat_offset is not reset.
MutantKeepsOffset ==
    /\ At("drain_after")
    /\ chat_socket' = Top.conn /\ chat_buffer' = Top.conn /\ chat_input' = Top.conn
    /\ sources' = sources \cup {Top.conn}
    /\ stack' = Below
    /\ UNCHANGED <<held, open, made, server, shown, ghosts, fault>>

\* Mutant: no source is installed.
MutantNoSource ==
    /\ At("drain_after")
    /\ chat_socket' = Top.conn /\ chat_buffer' = Top.conn /\ chat_input' = Top.conn
    /\ held' = <<>>
    /\ stack' = Below
    /\ UNCHANGED <<sources, open, made, server, shown, ghosts, fault>>

Connected ==
    /\ At("drain_after")
    /\ chat_socket' = Top.conn /\ chat_buffer' = Top.conn /\ chat_input' = Top.conn
    /\ held' = <<>>
    /\ sources' = sources \cup {Top.conn}
    /\ stack' = Below
    /\ UNCHANGED <<open, made, server, shown, ghosts, fault>>

-----------------------------------------------------------------------------
(* Reading.  GDK does not dispatch a source again inside its own callback.   *)

InProgress(s) == \E k \in DOMAIN stack : stack[k].pc \notin Loops /\ stack[k].conn = s

\* A source is dispatched; read_from_chat() calls recv() on mud->chat_socket,
\* whichever source this is.
Dispatch(s) ==
    /\ MainLoop /\ s \in sources /\ ~InProgress(s)
    /\ wire[s] # <<>> \/ closed[s]
    /\ stack' = Append(stack, Fr("recv", s))
    /\ UNCHANGED <<state, made, server, shown, ghosts, fault>>

Left == CHAT_SIZE - Len(held) - 1

\* recv() fails, tells that the server closed, or had no room to read into.
Closing ==
    \/ chat_socket \notin open
    \/ Left = 0
    \/ wire[chat_socket] = <<>> /\ closed[chat_socket]

ServerCloses ==
    /\ At("recv") /\ Closing
    /\ Disconnect
    /\ dropped' = (dropped \/ (chat_input # 0 /\ ~closed[chat_socket]))
    /\ stack' = Below
    /\ UNCHANGED <<made, server, shown, nested, burst, fault>>

\* Until there is something to read, recv() blocks.  One whole message at most
\* is taken.
Recv(n) ==
    /\ At("recv") /\ ~Closing
    /\ n \in 1..Left /\ n <= Len(wire[chat_socket])
    /\ held' = held \o SubSeq(wire[chat_socket], 1, n)
    /\ wire' = [wire EXCEPT ![chat_socket] = SubSeq(@, n + 1, Len(@))]
    /\ burst' = (burst \/ \E i, j \in Marks(SubSeq(wire[chat_socket], 1, n)) : i # j)
    /\ stack' = IF Marks(held') # {} THEN Append(Below, [Top EXCEPT !.pc = "line", !.buf = chat_buffer])
              ELSE Below
    /\ UNCHANGED <<chat_input, chat_socket, chat_buffer, sources, open, made, sent, closed,
                   shown, nested, dropped, fault>>

\* do_one_line(): what the triggers do.
Trigger ==
    /\ At("line")
    /\ LET st == Append(Below, [Top EXCEPT !.pc = "line_end"])
       IN \/ stack' = st /\ UNCHANGED <<state, made, server, shown, ghosts, fault>>
          \/ Chdisconnect(st)
          \/ Chconnect(st)

FirstMark == Min(Marks(held))

\* Mutant: the message stays in front of the rest.
MutantKeepsMessage == held
Rest == SubSeq(held, FirstMark + 1, Len(held))

\* The message is shown and the rest moved to the front, through pointers into
\* the buffer there was before the triggers ran.
LineEnd ==
    /\ At("line_end")
    /\ IF chat_input # 0 /\ chat_buffer = Top.buf
       THEN /\ shown' = [shown EXCEPT ![Top.buf] = @ \o SubSeq(held, 1, FirstMark)]
            /\ held' = Rest
            /\ stack' = Below
            /\ UNCHANGED fault
       ELSE /\ fault' = "freed_buffer"
            /\ UNCHANGED <<shown, held, stack>>
    /\ UNCHANGED <<chat_input, chat_socket, chat_buffer, sources, open, made, server, ghosts>>

-----------------------------------------------------------------------------
(* The server, as far as the client still listens to it.  Its messages are of *)
(* any length: that to #chatwho is as long as the list of players.            *)

Sends(c, marker) ==
    /\ c \in open /\ ~closed[c] /\ Len(sent[c]) < MaxSent
    /\ LET token == [number |-> Len(sent[c]) + 1, marker |-> marker]
       IN /\ sent' = [sent EXCEPT ![c] = Append(@, token)]
          /\ wire' = [wire EXCEPT ![c] = Append(@, token)]
    /\ UNCHANGED <<state, stack, made, closed, shown, ghosts, fault>>

Closes(c) ==
    /\ c \in open /\ ~closed[c]
    /\ closed' = [closed EXCEPT ![c] = TRUE]
    /\ UNCHANGED <<state, stack, made, wire, sent, shown, ghosts, fault>>

Program ==
    \/ Dials \/ PopupOk \/ Connected
    \/ \E s \in Conn : Dispatch(s)
    \/ ServerCloses \/ \E n \in 1..CHAT_SIZE : Recv(n)
    \/ Trigger \/ LineEnd

Next == Typed \/ Program \/ \E c \in Conn : Closes(c) \/ \E marker \in BOOLEAN : Sends(c, marker)

Spec == Init /\ [][Next]_vars

\* Functions go on, and a source that stays ready is dispatched.
FairSpec == Spec /\ WF_vars(Program)

-----------------------------------------------------------------------------
(* Properties *)

\* One source, that of the socket that is read, and no other descriptor is left
\* open, but for a #chconnect inside another, whose source mud->chat_input
\* forgets.
Pending == {stack[k].conn : k \in {k \in DOMAIN stack : stack[k].pc = "drain_after"}}

OneSource ==
    ~nested => /\ sources = {chat_input} \ {0}
               /\ open = sources \cup Pending
               /\ chat_input # 0 => chat_socket = chat_input

\* While connected, what was shown, what the buffer holds and what is in flight
\* are what this server sent, in order: nothing lost, doubled, or of another
\* connection.
NothingLost ==
    chat_input # 0 =>
        shown[chat_input] \o held \o wire[chat_input] = sent[chat_input]

\* A whole message waits for the next one only after two came in one read.
BehindOnlyAfterBurst ==
    ~burst /\ stack = <<>> /\ chat_input # 0 => Marks(held) = {}

\* The text of a message and a zero byte fill the buffer, with no room for the
\* marker.
TooLong(tokens) ==
    \E i \in 1..Len(tokens) - CHAT_SIZE + 2 :
        \A j \in i..i + CHAT_SIZE - 2 : ~tokens[j].marker

\* However far it is behind, the client runs out of buffer, which it takes for
\* the server closing, only when a message alone does not fit.
DroppedOnlyIfTooLong == dropped => \E c \in Conn : TooLong(sent[c])

\* What is sent is read in the end, whatever is typed and triggered meanwhile.
ReadsOn ==
    (chat_input # 0 /\ wire[chat_input] # <<>>) ~>
        (chat_input = 0 \/ wire[chat_input] = <<>> \/ fault # "none")
=============================================================================
