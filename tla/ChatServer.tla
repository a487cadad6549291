---------------------------- MODULE ChatServer ----------------------------
(***************************************************************************)
(* The chat server (chatserver.c): one process, one loop.  It drops the    *)
(* players marked for it, waits in select(), walks the list of players,    *)
(* reading and serving those that were ready, and then accepts one new     *)
(* player.  Sockets block, so a broadcast waits for each player in turn.   *)
(*                                                                         *)
(* Abstracted: a message is one token and its "*-*" another, so that a     *)
(* read may end between them; what the text of an announcement is; which   *)
(* number a default name has; what a player the server dropped still finds *)
(* in his socket.  Answers fit the server's buffers.  exc_set is never     *)
(* filled, so its branch of the loop is dead; my_close_all is not called.  *)
(***************************************************************************)
EXTENDS Naturals, Sequences, SequencesExt, FiniteSets

CONSTANTS
    Conn,           \* connections, each used once
    Text,           \* texts they say
    DEFAULT,        \* "player 1", "player 2"...: the name of who gave none that fits
    TooLong,        \* names that do not
    Passwords,      \* whether the server is started with a password: TRUE, FALSE or both
    Sigpipe,        \* a send() to a broken connection kills the process (not so in Windows)
    SOCKETBUFFERSIZE,   \* bound: tokens a player's buffer holds
    Window,         \* bound: messages the kernel keeps for a player that does not read
    MaxSent,        \* bound: how many messages the players send once they are connected
    MaxHangUps,     \* bound: how many of them hang up
    MaxIdle,        \* bound: how many players are idle at a time
    NULL

ASSUME ChatServerAssumption ==
    /\ NULL \notin Conn \cup {DEFAULT} /\ TooLong \cap Conn = {}
    /\ Passwords \subseteq BOOLEAN /\ Sigpipe \in BOOLEAN
    /\ SOCKETBUFFERSIZE \in Nat /\ SOCKETBUFFERSIZE > 1
    /\ Window \in Nat \ {0} /\ MaxSent \in Nat /\ MaxHangUps \in Nat
    /\ MaxIdle \in Nat

VARIABLES
    peer,           \* the client's end of each connection
    wire,           \* what it sent that the server has not read
    out,            \* what the server sent that it has not read
    backlog,        \* connections that wait for accept()
    sent,           \* how many messages were sent
    hangups,        \* how many clients hung up
    playerlist,     \* newest first
    player,         \* status, name, packetbuffer, kill_connection of each
    idle,           \* those whose last input is INACTIVITY_TIMEOUT ago
    pc,             \* where server_loop() is, or "dead"
    ready,          \* select() found input, and the walk has not come by yet
    knocked,        \* select() found the server socket ready
    point,          \* the player the walk stands on
    pending,        \* the sends a broadcast has still to do
    server_password \* whether there is one

clients == <<peer, wire, out, backlog, sent, hangups, server_password>>
players == <<playerlist, player, idle>>
loop == <<pc, ready, knocked, point>>
vars == <<clients, players, loop, pending>>

MARK == <<"*-*">>                   \* LINE_MARKER

Chatting == ({"W"} \X Text) \cup {<<"Z">>}
Message ==
    ({"U"} \X (Conn \cup TooLong)) \cup ({"P"} \X {"right", "wrong"}) \cup Chatting

Name == Conn \cup {DEFAULT}

Event ==
    ({"joined", "left"} \X Name) \cup ({"said"} \X Name \X Text)
    \cup ({"who"} \X Nat)

NewPlayer == [status |-> "LOGGING", name |-> DEFAULT, packetbuffer |-> <<>>, kill |-> FALSE]

TypeOK ==
    /\ peer \in [Conn -> {"none", "open", "closed", "reset", "dropped"}]
    /\ wire \in [Conn -> Seq(Message \cup {MARK})]
    /\ \A p \in Conn : out[p] \in Seq(Event) /\ Len(out[p]) <= Window
    /\ backlog \in Seq(Conn) /\ playerlist \in Seq(Conn)
    /\ IsInjective(backlog \o playerlist)
    /\ sent \in 0..MaxSent /\ hangups \in 0..MaxHangUps
    /\ \A p \in Conn :
        /\ player[p].status \in {"LOGGING", "LOGGED"} /\ player[p].name \in Name
        /\ player[p].packetbuffer \in Seq(Message \cup {MARK})
        /\ Len(player[p].packetbuffer) < SOCKETBUFFERSIZE
        /\ player[p].kill \in BOOLEAN
    /\ idle \subseteq Conn /\ ready \subseteq Conn /\ knocked \in BOOLEAN
    /\ pc \in {"loop", "walk", "process", "accept", "dead"}
    /\ point \in Conn \cup {NULL}
    /\ pending \in Seq(Conn \X Event)
    /\ server_password \in BOOLEAN

Init ==
    /\ peer = [p \in Conn |-> "none"]
    /\ wire = [p \in Conn |-> <<>>] /\ out = [p \in Conn |-> <<>>]
    /\ backlog = <<>> /\ sent = 0 /\ hangups = 0
    /\ playerlist = <<>> /\ player = [p \in Conn |-> NewPlayer] /\ idle = {}
    /\ pc = "loop" /\ ready = {} /\ knocked = FALSE /\ point = NULL
    /\ pending = <<>>
    /\ server_password \in Passwords

-----------------------------------------------------------------------------
(* The clients (chat.c or other programs): one connects and sends its name,   *)
(* here the connection itself or one that is too long, and a password; then   *)
(* it says something or asks who is there.                                    *)

ChConnect(p, name, password) ==
    /\ peer[p] = "none"
    /\ peer' = [peer EXCEPT ![p] = "open"]
    /\ wire' = [wire EXCEPT ![p] = <<<<"U", name>>, MARK, <<"P", password>>, MARK>>]
    /\ backlog' = Append(backlog, p)
    /\ UNCHANGED <<out, sent, hangups, players, loop, pending, server_password>>

Send(p, message) ==
    /\ peer[p] = "open" /\ sent < MaxSent
    /\ sent' = sent + 1
    /\ wire' = [wire EXCEPT ![p] = @ \o <<message, MARK>>]
    /\ UNCHANGED <<peer, out, backlog, hangups, players, loop, pending, server_password>>

Hear(p) ==
    /\ peer[p] = "open" /\ out[p] # <<>>
    /\ out' = [out EXCEPT ![p] = Tail(@)]
    /\ UNCHANGED <<peer, wire, backlog, sent, hangups, players, loop, pending, server_password>>

\* A client that goes away with unread data resets the connection.
HangUp(p) ==
    /\ peer[p] = "open" /\ hangups < MaxHangUps
    /\ hangups' = hangups + 1
    /\ \E end \in {"closed", "reset"} : peer' = [peer EXCEPT ![p] = end]
    /\ out' = [out EXCEPT ![p] = <<>>]
    /\ UNCHANGED <<wire, backlog, sent, players, loop, pending, server_password>>

-----------------------------------------------------------------------------
(* What server_loop() calls. *)

\* The list without a player that is in it.
Unlinked(list, p) == RemoveAt(list, CHOOSE i \in DOMAIN list : list[i] = p)

MutantAll(list, p, event) == [i \in DOMAIN list |-> <<list[i], event>>]

\* The sends of broadcast(p, event), to the players in a list.
Broadcast(list, p, event) ==
    LET others == IF p \in Range(list) THEN Unlinked(list, p) ELSE list
    IN [i \in DOMAIN others |-> <<others[i], event>>]

MutantFirst(p) ==
    IF Len(playerlist) > 1 THEN playerlist[2] ELSE NULL

\* point->next, read before the player may be freed.
NextPoint(p) ==
    LET i == CHOOSE i \in DOMAIN playerlist : playerlist[i] = p
    IN IF i < Len(playerlist) THEN playerlist[i + 1] ELSE NULL

\* close_socket(): the others hear of it if the player was logged in.
CloseSocket(p) ==
    /\ playerlist' = Unlinked(playerlist, p)
    /\ pending' = IF player[p].status = "LOGGED"
                  THEN Broadcast(playerlist', NULL, <<"left", player[p].name>>)
                  ELSE <<>>
    /\ player' = [player EXCEPT ![p] = NewPlayer]
    /\ idle' = idle \ {p}
    /\ peer' = [peer EXCEPT ![p] = "dropped"]
    /\ wire' = [wire EXCEPT ![p] = <<>>] /\ out' = [out EXCEPT ![p] = <<>>]

\* One send() of a broadcast.  It waits while the player's window is full; a
\* client that is gone answers with a reset, sooner or later.
SendOne ==
    LET q == Head(pending)[1]
        event == Head(pending)[2]
    IN /\ pc # "dead" /\ pending # <<>>
       /\ pending' = Tail(pending)
       /\ \/ /\ peer[q] = "open" /\ Len(out[q]) < Window
             /\ out' = [out EXCEPT ![q] = Append(@, event)]
             /\ UNCHANGED peer
          \/ /\ peer[q] = "closed"
             /\ \E end \in {"closed", "reset"} : peer' = [peer EXCEPT ![q] = end]
             /\ UNCHANGED out
          \/ peer[q] = "reset" /\ UNCHANGED <<peer, out>>
       /\ UNCHANGED <<wire, backlog, sent, hangups, players, loop, server_password>>

\* A send to a connection known to be broken raises SIGPIPE, which nothing handles.
Killed ==
    /\ pc # "dead" /\ pending # <<>>
    /\ Sigpipe /\ peer[Head(pending)[1]] = "reset"
    /\ pc' = "dead"
    /\ UNCHANGED <<clients, players, ready, knocked, point, pending>>

\* Where in the list the marked players are.
Marked == {i \in DOMAIN playerlist : player[playerlist[i]].kill}

KillMarked ==
    /\ pc = "loop" /\ pending = <<>>
    /\ \E i \in Marked :
        /\ \A j \in Marked : i <= j
        /\ CloseSocket(playerlist[i])
    /\ UNCHANGED <<backlog, sent, hangups, loop, server_password>>

Readable == {p \in Range(playerlist) : wire[p] # <<>> \/ peer[p] # "open"}
MutantUnmarked == pc = "loop" /\ pending = <<>>

Selecting == pc = "loop" /\ pending = <<>> /\ Marked = {}

\* Twelve hours without input from a player, spent in select().
TwelveHours(p) ==
    /\ Selecting /\ Readable = {} /\ Cardinality(idle) < MaxIdle
    /\ p \in Range(playerlist) \ idle
    /\ idle' = idle \cup {p}
    /\ UNCHANGED <<clients, playerlist, player, loop, pending>>

Select ==
    /\ Selecting
    /\ pc' = "walk"
    /\ ready' = Readable
    /\ knocked' = (backlog # <<>>)
    /\ point' = IF playerlist = <<>> THEN NULL ELSE Head(playerlist)
    /\ UNCHANGED <<clients, players, pending>>

Walking == pc = "walk" /\ pending = <<>> /\ point # NULL

Drop ==
    /\ CloseSocket(point)
    /\ ready' = ready \ {point}
    /\ point' = NextPoint(point)
    /\ UNCHANGED <<backlog, sent, hangups, pc, knocked, server_password>>

\* process_input(): the connection has ended, or is broken.
InputEnds ==
    /\ Walking /\ point \in ready
    /\ peer[point] = "reset" \/ (peer[point] = "closed" /\ wire[point] = <<>>)
    /\ Drop

\* process_input(): as much as has come and fits is put after what was left.
Packet(p, n) == player[p].packetbuffer \o SubSeq(wire[p], 1, n)
MutantFits(p) == SOCKETBUFFERSIZE

Fits(p) == SOCKETBUFFERSIZE - Len(player[p].packetbuffer)

Receives(n) ==
    /\ Walking /\ point \in ready /\ peer[point] # "reset"
    /\ n \in 1..Len(wire[point]) /\ n <= Fits(point)

ReadInput ==
    /\ \E n \in 1..SOCKETBUFFERSIZE :
        /\ Receives(n)
        /\ Len(Packet(point, n)) # SOCKETBUFFERSIZE
        /\ player' = [player EXCEPT ![point].packetbuffer = Packet(point, n)]
        /\ wire' = [wire EXCEPT ![point] = SubSeq(@, n + 1, Len(@))]
    /\ idle' = idle \ {point}
    /\ ready' = ready \ {point}
    /\ pc' = "process"
    /\ UNCHANGED <<peer, out, backlog, sent, hangups, playerlist, knocked, point, pending, server_password>>

HeavyError ==
    /\ \E n \in 1..SOCKETBUFFERSIZE :
        Receives(n) /\ Len(Packet(point, n)) = SOCKETBUFFERSIZE
    /\ Drop

Inactive ==
    /\ Walking /\ point \notin ready /\ point \in idle
    /\ Drop

PassBy ==
    /\ Walking /\ point \notin ready /\ point \notin idle
    /\ point' = NextPoint(point)
    /\ UNCHANGED <<clients, players, pc, ready, knocked, pending>>

WalkEnds ==
    /\ pc = "walk" /\ pending = <<>> /\ point = NULL
    /\ pc' = IF knocked THEN "accept" ELSE "loop"
    /\ UNCHANGED <<clients, players, ready, knocked, point, pending>>

-----------------------------------------------------------------------------
(* process_player(): the messages of a player's buffer, one after another. *)

MutantWhole(buffer) == Len(buffer) > 2

\* getmsg() finds a marker.
Whole(buffer) == MARK \in Range(buffer)
Processing == pc = "process" /\ pending = <<>>
GetMsg == Head(player[point].packetbuffer)
AfterMsg(buffer) ==
    SubSeq(buffer, SelectInSeq(buffer, LAMBDA t : t = MARK) + 1, Len(buffer))

\* What a message makes of its player, and the sends it causes.
Effect(changed, sends) ==
    /\ player' = [player EXCEPT ![point] =
                    [changed EXCEPT !.packetbuffer = AfterMsg(@)]]
    /\ pending' = sends
    /\ UNCHANGED <<clients, playerlist, idle, loop>>

Got(kind, status) ==
    /\ Processing /\ Whole(player[point].packetbuffer)
    /\ GetMsg[1] = kind /\ player[point].status = status

UserName ==
    /\ Got("U", "LOGGING") /\ GetMsg[2] \notin TooLong
    /\ Effect([player[point] EXCEPT !.name = GetMsg[2]], <<>>)

LongName ==
    /\ Got("U", "LOGGING") /\ GetMsg[2] \in TooLong
    /\ Effect(player[point], <<>>)

\* A server without a password takes none.
NoPassword ==
    /\ Got("P", "LOGGING") /\ ~server_password
    /\ Effect(player[point], <<>>)

WrongPassword ==
    /\ Got("P", "LOGGING") /\ server_password /\ GetMsg[2] = "wrong"
    /\ Effect([player[point] EXCEPT !.kill = TRUE], <<>>)

RightPassword ==
    /\ Got("P", "LOGGING") /\ server_password /\ GetMsg[2] = "right"
    /\ Effect([player[point] EXCEPT !.status = "LOGGED"],
              Broadcast(playerlist, point, <<"joined", player[point].name>>))

Chat ==
    /\ Got("W", "LOGGED")
    /\ Effect(player[point],
              Broadcast(playerlist, point, <<"said", player[point].name, GetMsg[2]>>))

Who ==
    /\ Got("Z", "LOGGED")
    /\ Effect(player[point], <<<<point, <<"who", Len(playerlist)>>>>>>)

Ignored ==
    /\ \E kind \in {"W", "Z"} : Got(kind, "LOGGING")
    /\ Effect(player[point], <<>>)

Processed ==
    /\ Processing /\ ~Whole(player[point].packetbuffer)
    /\ pc' = "walk"
    /\ point' = NextPoint(point)
    /\ UNCHANGED <<clients, players, ready, knocked, pending>>

-----------------------------------------------------------------------------
\* new_descriptor()
NewDescriptor ==
    /\ pc = "accept"
    /\ playerlist' = <<Head(backlog)>> \o playerlist
    /\ player' = [player EXCEPT ![Head(backlog)] = NewPlayer]
    /\ backlog' = Tail(backlog)
    /\ pc' = "loop"
    /\ UNCHANGED <<peer, wire, out, sent, hangups, idle, ready, knocked, point, pending, server_password>>

Server ==
    \/ SendOne \/ Killed
    \/ KillMarked \/ Select
    \/ InputEnds \/ ReadInput \/ HeavyError \/ Inactive \/ PassBy \/ WalkEnds
    \/ UserName \/ LongName \/ NoPassword \/ WrongPassword \/ RightPassword
    \/ Chat \/ Who \/ Ignored \/ Processed
    \/ NewDescriptor

Next ==
    \/ Server
    \/ \E p \in Conn :
        \/ Hear(p) \/ HangUp(p) \/ TwelveHours(p)
        \/ \E name \in {p} \cup TooLong, password \in {"right", "wrong"} : ChConnect(p, name, password)
        \/ \E message \in Chatting : Send(p, message)

Spec == Init /\ [][Next]_vars

\* The process runs; clients read what they are sent, and do nothing else by
\* duty.
FairSpec == Spec /\ WF_vars(Server) /\ \A p \in Conn : WF_vars(Hear(p))

-----------------------------------------------------------------------------
(* Properties *)

Listening == {p \in Range(playerlist) : peer[p] = "open"}
Members == [p \in Conn |-> IF player[p].status = "LOGGED" THEN player[p].name ELSE NULL]
\* A broadcast sends to each player once at most.
ToldTo(p) ==
    LET sends == {i \in DOMAIN pending : pending[i][1] = p}
    IN IF sends = {} THEN out[p]
       ELSE Append(out[p], pending[CHOOSE i \in sends : TRUE][2])

Told == [p \in Conn |-> IF p \in Listening THEN ToldTo(p) ELSE <<>>]

TheRoom == INSTANCE Room WITH
    here <- Range(playerlist), members <- Members, listening <- Listening,
    told <- Told

\* The server implements the room: although a broadcast is a series of sends
\* that may block, among which clients talk, read and hang up, all players in the
\* list, logged in or not, see the same events in the same order, each once,
\* under the name that joined.
ImplementsRoom == TheRoom!Spec

\* The walk stands on a player that is still in the list, and when it has come
\* to its end it has been at everyone select() found ready: neither a player it
\* drops nor one that hangs up under it makes it lose its way.
WalkServesAll ==
    /\ pc \in {"walk", "process"} /\ point # NULL => point \in Range(playerlist)
    /\ pc \in {"accept", "loop"} => ready = {}
    /\ ready \subseteq Range(playerlist)

\* Once a player gave a wrong password, nothing more of what he sends is read: he
\* is dropped before the next select().  (What was read with the password is
\* processed.)
MarkedIsOut ==
    [][\A p \in Conn : player[p].kill =>
         \/ IsPrefix(wire[p], wire'[p])
         \/ peer'[p] = "dropped"]_vars

\* Nothing is owed to anyone.
AllServed ==
    /\ pending = <<>> /\ backlog = <<>>
    /\ \A p \in Range(playerlist) :
        /\ peer[p] = "open" /\ wire[p] = <<>> /\ out[p] = <<>>
        /\ ~player[p].kill /\ player[p].packetbuffer = <<>>

\* When the clients have said all they will, every message that arrived is
\* served and told to everyone, and who hung up or was marked is gone (unless
\* a broken connection killed the server).
Served == <>[](pc = "dead" \/ AllServed)

=============================================================================
