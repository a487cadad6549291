---------------------------- MODULE Connection ----------------------------
(***************************************************************************)
(* The life of the client's one mud connection: opening it (directly or    *)
(* through a SOCKS proxy, at once or in the background), reading from it,  *)
(* typing into it, and taking it down.  net.c, tt/session.c, and the       *)
(* callers in window.c, wizard.c, timers.c and tt/{parse,misc}.c.          *)
(*                                                                         *)
(* The program is single-threaded, but not sequential: a modal popup and   *)
(* the "drain the events" loop of disconnect() run the GTK main loop while *)
(* their caller is half done, so handlers nest.  The C stack is a sequence *)
(* of frames, top first; a frame records where its function will resume.   *)
(* An event is dispatched when no handler runs, or when the top frame is   *)
(* such a nested loop.                                                     *)
(*                                                                         *)
(* Abstracted: addresses to a Host; a line the user types to the command   *)
(* it contains; recv and send to their outcomes; the SOCKS dialogue to its *)
(* verdict; widgets to what decides whether a handler can be called.       *)
(***************************************************************************)
EXTENDS Integers, Sequences, FiniteSets

CONSTANTS
    Ses,        \* addresses malloc can give a struct session
    Sock,       \* descriptors the kernel can give
    Host,       \* the muds one can connect to
    MaxDepth,   \* bound: no event is dispatched under this many frames
    Zombies,    \* whether #zombion is used
    Reentry,    \* whether events are pending when disconnect() drains them
    NULL

ASSUME ConnectionAssumption ==
    /\ NULL \notin Ses \cup Sock \cup Host
    /\ MaxDepth \in Nat
    /\ Zombies \in BOOLEAN /\ Reentry \in BOOLEAN

VARIABLES
    connected, connecting,  \* the flags of the same names
    attempt,        \* the struct tempdata of a connect in progress, or NULL
    input_monitor,  \* mud->input_monitor: the source it names, or NULL (-1)
    sources,        \* the GDK input sources that are really installed
    redialed,       \* a source was installed while a disconnect() drained events
    sessionlist,    \* tintin's list, newest first; its members are the allocated ones
    ses,            \* contents of each struct session
    activesession,  \* tintin's global
    mud_active,     \* mud->activesession
    conn,           \* mud->conn: the descriptor the SOCKS request is for, or NULL
    wizard_autologin,   \* the mud whose name and password are due, or NULL
    open,           \* descriptors open in the kernel
    stack,          \* the C stack, top first
    fault           \* the memory error that ended the program, or "none"

link == <<connected, connecting, attempt>>
monitors == <<input_monitor, sources, redialed>>
sessions == <<sessionlist, ses, activesession, mud_active>>
vars == <<link, monitors, sessions, conn, wizard_autologin, open, stack, fault>>

Maybe(S) == S \cup {NULL}
Attempt == [sock : Sock, host : Host, window : BOOLEAN]
Source == [sock : Sock, cond : {"READ", "WRITE"}, ses : Maybe(Ses)]
Session == [socket : Maybe(Sock), zombi : {"NOT", "CONNECTED", "DISCONNECTED"},
            host : Maybe(Host), mccp : BOOLEAN]
Loops == {"events", "popup", "popup-aborts", "popup-socks", "popup-noproxy"}
Frame == [pc : Loops \cup {"command", "return", "written", "session", "wizard", "puts",
                           "zapping", "zap", "reconnect", "read", "login"},
          ses : Maybe(Ses), sock : Maybe(Sock), host : Maybe(Host), keep : BOOLEAN]

\* NULL is not a structure.
ASSUME StructAssumption == NULL \notin Attempt \cup Source

Faults == {"none", "null_session", "freed_session", "freed_window", "freed_mccp"}

TypeOK ==
    /\ connected \in BOOLEAN /\ connecting \in BOOLEAN
    /\ attempt \in Maybe(Attempt)
    /\ input_monitor \in Maybe(Source) /\ sources \subseteq Source
    /\ redialed \in BOOLEAN
    /\ sessionlist \in Seq(Ses) /\ ses \in [Ses -> Session]
    /\ activesession \in Maybe(Ses) /\ mud_active \in Maybe(Ses)
    /\ conn \in Maybe(Sock) /\ wizard_autologin \in Maybe(Host)
    /\ open \subseteq Sock
    /\ stack \in Seq(Frame)
    /\ fault \in Faults

Init ==
    /\ connected = FALSE /\ connecting = FALSE /\ attempt = NULL
    /\ input_monitor = NULL /\ sources = {} /\ redialed = FALSE
    /\ sessionlist = <<>> /\ activesession = NULL /\ mud_active = NULL
    /\ ses = [s \in Ses |-> [socket |-> NULL, zombi |-> "NOT",
                             host |-> NULL, mccp |-> FALSE]]
    /\ conn = NULL /\ wizard_autologin = NULL /\ open = {}
    /\ stack = <<>> /\ fault = "none"

-----------------------------------------------------------------------------
(* The C stack and the heap. *)

Fr(pc) == [pc |-> pc, ses |-> NULL, sock |-> NULL, host |-> NULL, keep |-> FALSE]
Command(s, keep) == [Fr("command") EXCEPT !.ses = s, !.keep = keep]

Listed == {sessionlist[i] : i \in 1..Len(sessionlist)}
Freed(s) == s # NULL /\ s \notin Listed
Alive(s) == ses[s].zombi \in {"NOT", "CONNECTED"}       \* ZOMBI_IS_ALIVE

\* newactive_session() with this list of sessions.
MutantStaleActive(list) == activesession
NewActive(list) == IF list = <<>> THEN NULL ELSE Head(list)

Without(list, s) ==
    LET i == CHOOSE i \in 1..Len(list) : list[i] = s
    IN  SubSeq(list, 1, i - 1) \o SubSeq(list, i + 1, Len(list))

\* gdk_input_remove(mud->input_monitor)
MutantKeepSource == sources
Unwatched == sources \ {input_monitor}

At(pc) == fault = "none" /\ stack # <<>> /\ Head(stack).pc = pc
InEvents == At("events") /\ Reentry
InPopup == \E pc \in Loops \ {"events"} : At(pc)
Idle == fault = "none" /\ stack = <<>>
Room == Len(stack) < MaxDepth
Draining == \E i \in 1..Len(stack) : stack[i].pc = "events"
\* A main loop that dispatches timers and descriptors; GTK events too, if it is
\* not the loop of a modal popup.
AnyLoop == Room /\ (Idle \/ InEvents \/ InPopup)
UserLoop == Room /\ (Idle \/ InEvents)

\* The step only calls or returns.
OnlyStack == UNCHANGED <<link, monitors, sessions, conn, wizard_autologin, open, fault>>

Crash(kind) == /\ fault' = kind
               /\ UNCHANGED <<link, monitors, sessions, conn, wizard_autologin, open, stack>>

-----------------------------------------------------------------------------
(* Opening.  Dial(h, st) is make_connection(), leaving st on the stack.     *)

\* connection_part_two(): req is mud->conn when it starts, kept the sources
\* then installed.  A SOCKS request on a closed descriptor cannot succeed.
PartTwo(sock, h, req, kept, st) ==
    \/ /\ req \in {NULL, sock} \cup open
       /\ connected' = TRUE
       /\ \E s \in Ses \ Listed :
            /\ sessionlist' = <<s>> \o sessionlist
            /\ ses' = [ses EXCEPT ![s] = [socket |-> sock, zombi |-> "NOT",
                                          host |-> h, mccp |-> TRUE]]
            /\ activesession' = s /\ mud_active' = s
            /\ input_monitor' = [sock |-> sock, cond |-> "READ", ses |-> s]
       /\ sources' = kept \cup {input_monitor'}
       /\ redialed' = (redialed \/ Draining)
       /\ stack' = st
    \/ /\ req # NULL                                \* handle_request() failed
       /\ sources' = kept
       /\ stack' = <<[Fr("popup-socks") EXCEPT !.sock = sock]>> \o st
       /\ UNCHANGED <<connected, input_monitor, redialed, sessions>>

Popup(st) == /\ stack' = <<Fr("popup")>> \o st
             /\ UNCHANGED <<link, monitors, sessions, conn, open>>

\* The socket exists: one disjunct per way open_connection() goes on.
Connect(sock, h, useSocks, st) ==
    \/ /\ useSocks                                  \* the proxy is not on the DNS
       /\ open' = open \cup {sock}
       /\ stack' = <<[Fr("popup-noproxy") EXCEPT !.sock = sock]>> \o st
       /\ UNCHANGED <<link, monitors, sessions, conn>>
    \/ /\ conn' = IF useSocks THEN sock ELSE conn
       /\ \/ /\ stack' = st                         \* connect() fails at once
             /\ UNCHANGED <<link, monitors, sessions, open>>
          \/ /\ open' = open \cup {sock}            \* EINPROGRESS
             /\ connecting' = TRUE
             /\ attempt' = [sock |-> sock, host |-> h, window |-> TRUE]
             /\ input_monitor' = [sock |-> sock, cond |-> "WRITE", ses |-> NULL]
             /\ sources' = sources \cup {input_monitor'}
             /\ redialed' = (redialed \/ Draining)
             /\ stack' = st
             /\ UNCHANGED <<connected, sessions>>
          \/ /\ open' = open \cup {sock}            \* connected
             /\ PartTwo(sock, h, conn', sources, st)
             /\ UNCHANGED <<connecting, attempt>>

MutantDialConnected == ~connecting
MayDial == ~connecting /\ ~connected

Dial(h, st) ==
    \/ /\ connecting
       /\ stack' = st
       /\ UNCHANGED <<link, monitors, sessions, conn, open>>
    \/ ~connecting /\ Popup(st)     \* already connected, or an unknown host
    \/ /\ MayDial
       /\ \E sock \in Sock \ open, useSocks \in BOOLEAN :
            Connect(sock, h, useSocks, st)

\* The OK button of the connect dialog.
DoCon(h) == UserLoop /\ Dial(h, stack) /\ UNCHANGED <<wizard_autologin, fault>>

\* The OK button of the wizard; what follows make_connection() is WizardChosen.
OnWizOkClicked(h) ==
    /\ UserLoop
    /\ IF connected THEN Popup(stack)
                    ELSE Dial(h, <<[Fr("wizard") EXCEPT !.host = h]>> \o stack)
    /\ UNCHANGED <<wizard_autologin, fault>>

WizardChosen ==
    /\ At("wizard")
    /\ wizard_autologin' = Head(stack).host
    /\ stack' = Tail(stack)
    /\ UNCHANGED <<link, monitors, sessions, conn, open, fault>>

\* The descriptor of the connect in progress is writable: whether it failed is
\* not asked.
Answered ==
    /\ AnyLoop
    /\ \E src \in sources : src.cond = "WRITE"
    /\ attempt.window
    /\ connecting' = FALSE /\ attempt' = NULL
    /\ PartTwo(attempt.sock, attempt.host, conn, Unwatched, stack)
    /\ UNCHANGED <<conn, wizard_autologin, open, fault>>

\* connection_cbk() destroys the window first, even one that is closed already.
MutantIgnoreClosed == Answered
ConnectionCbk ==
    \/ Answered
    \/ /\ AnyLoop
       /\ \E src \in sources : src.cond = "WRITE"
       /\ ~attempt.window
       /\ Crash("freed_window")

\* Cancel in the window of the connect in progress.
StopConnecting ==
    /\ UserLoop
    /\ attempt # NULL /\ attempt.window
    /\ connecting' = FALSE /\ attempt' = NULL
    /\ sources' = Unwatched
    /\ open' = open \ {attempt.sock}
    /\ conn' = NULL
    /\ UNCHANGED <<connected, input_monitor, redialed, sessions, wizard_autologin, stack,
                   fault>>

\* The window manager closes that window, which has no handler for it.
CloseWindow ==
    /\ UserLoop
    /\ attempt # NULL /\ attempt.window
    /\ attempt' = [attempt EXCEPT !.window = FALSE]
    /\ UNCHANGED <<connected, connecting, monitors, sessions, conn, wizard_autologin,
                   open, stack, fault>>

\* The popups of open_connection() and connection_part_two() are answered.
PopupOk ==
    /\ \/ /\ At("popup")
          /\ UNCHANGED <<conn, open>>
       \/ /\ At("popup-noproxy")
          /\ open' = open \ {Head(stack).sock}
          /\ UNCHANGED conn
       \/ /\ At("popup-socks")
          /\ open' = open \ {Head(stack).sock}
          /\ conn' = NULL
    /\ stack' = Tail(stack)
    /\ UNCHANGED <<link, monitors, sessions, wizard_autologin, fault>>

-----------------------------------------------------------------------------
(* Taking down.  BeginDisconnect(st) is disconnect() up to its loop.        *)

\* The source is gone, and with it the callback in progress that blocked it.
Unblocked(st) ==
    [i \in 1..Len(st) |-> IF st[i].pc = "login" THEN [st[i] EXCEPT !.ses = NULL] ELSE st[i]]

BeginDisconnect(st) ==
    /\ sources' = Unwatched
    /\ input_monitor' = NULL
    /\ UNCHANGED redialed
    /\ stack' = <<Fr("events")>> \o Unblocked(st)
    /\ UNCHANGED <<link, sessions, conn, wizard_autologin, open, fault>>

\* cleanup_session(): what becomes of the session s and of the list.
MutantKeepSocket(s) ==
    [ses[s] EXCEPT !.mccp = FALSE,
                   !.socket = IF ses[s].zombi = "NOT" THEN NULL ELSE @,
                   !.zombi = IF @ = "NOT" THEN @ ELSE "DISCONNECTED"]
MutantReconnecting(s) ==
    [ses[s] EXCEPT !.mccp = FALSE, !.socket = NULL,
                   !.zombi = IF @ = "NOT" THEN @ ELSE "CONNECTING"]
Cleaned(s) ==
    [ses[s] EXCEPT !.mccp = FALSE, !.socket = NULL,
                   !.zombi = IF @ = "NOT" THEN @ ELSE "DISCONNECTED"]
MutantZombiKept(s) == IF ses[s].zombi = "NOT" THEN open \ {ses[s].socket} ELSE open
Closed(s) == open \ {ses[s].socket}
Unlinked(s) == IF ses[s].zombi = "NOT" THEN Without(sessionlist, s) ELSE sessionlist

\* The rest of disconnect(), the event queue being empty: cleanup_session() of
\* mud->activesession, whichever it is by now.
CleanupSession(s) ==
    /\ connected' = FALSE
    /\ conn' = NULL
    /\ open' = Closed(s)
    /\ ses' = [ses EXCEPT ![s] = Cleaned(s)]
    /\ sessionlist' = Unlinked(s)
    /\ activesession' = NewActive(sessionlist')
    /\ mud_active' = activesession'
    /\ stack' = Tail(stack)
    /\ UNCHANGED <<connecting, attempt, monitors, wizard_autologin, fault>>

DisconnectEnds ==
    /\ At("events")
    /\ \/ mud_active = NULL /\ Crash("null_session")
       \/ Freed(mud_active) /\ Crash("freed_session")
       \/ mud_active \in Listed /\ ~ses[mud_active].mccp /\ Crash("freed_mccp")
       \/ mud_active \in Listed /\ ses[mud_active].mccp /\ CleanupSession(mud_active)

\* The menu item and the button are sensitive while connected.
MenuDisconnect == UserLoop /\ connected /\ BeginDisconnect(stack)

\* reconnect() copies the address of the active session, disconnects and dials.
Reconnect ==
    /\ UserLoop
    /\ IF ~connected \/ mud_active = NULL
       THEN Popup(stack) /\ UNCHANGED <<wizard_autologin, fault>>
       ELSE IF Freed(mud_active) THEN Crash("freed_session")
       ELSE BeginDisconnect(<<[Fr("reconnect") EXCEPT !.host = ses[mud_active].host]>> \o stack)

ReconnectDials ==
    /\ At("reconnect")
    /\ \E h \in Host : h = Head(stack).host /\ Dial(h, Tail(stack))
    /\ UNCHANGED <<wizard_autologin, fault>>

\* The "Connection aborted" popup of readmud() and write_line_mud() is answered.
AbortOk == At("popup-aborts") /\ BeginDisconnect(Tail(stack))

-----------------------------------------------------------------------------
(* Commands.  parse_input(line, s): most callers keep the session it returns *)
(* in mud->activesession (the entry, #wait timers); triggers and macros drop *)
(* it.  A command of the line is one step of the frame.                      *)

Caller == Head(stack)
Below == Tail(stack)
Goes(s) == <<[Caller EXCEPT !.ses = s]>> \o Below

\* A popup leaves only a #wait timer or a descriptor to start one.
TypeLine(keep) ==
    /\ AnyLoop
    /\ InPopup => keep
    /\ stack' = <<Command(mud_active, keep)>> \o stack
    /\ OnlyStack

CommandOnFreed == At("command") /\ Freed(Caller.ses) /\ Crash("freed_session")

Ready == At("command") /\ ~Freed(Caller.ses)

CommandReturns ==
    /\ At("command") \/ At("return")
    /\ mud_active' = IF Caller.keep THEN Caller.ses ELSE mud_active
    /\ stack' = Below
    /\ UNCHANGED <<link, monitors, sessionlist, ses, activesession, conn,
                   wizard_autologin, open, fault>>

\* write_line_mud() fails.  A plain line is logged next, a verbatim or empty
\* one returns.
SendFails(verbatim) ==
    /\ Ready /\ Room
    /\ Caller.ses # NULL /\ Alive(Caller.ses)
    /\ stack' = <<Fr("popup-aborts")>> \o
                 (IF verbatim THEN <<[Caller EXCEPT !.pc = "return"]>> \o Below
                  ELSE <<[Fr("written") EXCEPT !.ses = Caller.ses]>> \o stack)
    /\ OnlyStack

Written ==
    /\ At("written")
    /\ \/ Freed(Caller.ses) /\ Crash("freed_session")
       \/ ~Freed(Caller.ses) /\ stack' = Below /\ OnlyStack

\* tintin_puts(): the triggers of the message may run commands of their own.
Puts(pc, s, st) == <<[Fr(pc) EXCEPT !.ses = s]>> \o st

\* A command that reports something.
Shows ==
    /\ Ready /\ Room /\ Caller.ses # NULL
    /\ stack' = Puts("puts", Caller.ses, stack)
    /\ OnlyStack

PutsEnds ==
    /\ At("puts") /\ ~Freed(Caller.ses)
    /\ stack' = Below
    /\ OnlyStack

\* #zap reports first; with no session it does nothing.
ZapCommand ==
    /\ Ready /\ Room /\ Caller.ses # NULL
    /\ stack' = Puts("zapping", Caller.ses, stack)
    /\ OnlyStack

ZapDisconnects ==
    /\ At("zapping") /\ ~Freed(Caller.ses)
    /\ BeginDisconnect(<<Fr("zap")>> \o Below)

\* #session name {host port}
SessionCommand(h) ==
    /\ Ready /\ Room
    /\ Dial(h, <<Fr("session")>> \o stack)
    /\ UNCHANGED <<wizard_autologin, fault>>

\* Back in #zap, #session or "#name command": the frame below goes on with
\* tintin's session, which #zap chooses anew.
CommandGoesOn ==
    /\ At("zap") \/ At("session")
    /\ Below # <<>>
    /\ activesession' = IF At("zap") THEN NewActive(sessionlist) ELSE activesession
    /\ stack' = <<[Head(Below) EXCEPT !.ses = activesession']>> \o Tail(Below)
    /\ UNCHANGED <<link, monitors, sessionlist, ses, mud_active, conn,
                   wizard_autologin, open, fault>>

\* #name, which tells the session, and #name command
SwitchSession(s) ==
    /\ Ready /\ Room /\ s \in Listed
    /\ activesession' = s
    /\ stack' = Puts("puts", s, Goes(s))
    /\ UNCHANGED <<link, monitors, sessionlist, ses, mud_active, conn,
                   wizard_autologin, open, fault>>

RunInSession(s) ==
    /\ Ready /\ Room /\ s \in Listed
    /\ stack' = <<Command(s, FALSE)>> \o (<<Fr("session")>> \o stack)
    /\ OnlyStack

\* #zombion and #zombioff
ZombiCommand ==
    /\ Zombies /\ Ready /\ Caller.ses # NULL
    /\ \/ /\ ses[Caller.ses].zombi = "NOT"
          /\ ses' = [ses EXCEPT ![Caller.ses].zombi = "CONNECTED"]
       \/ /\ ses[Caller.ses].zombi # "NOT"
          /\ ses' = [ses EXCEPT ![Caller.ses].zombi = "NOT"]
    /\ UNCHANGED <<link, monitors, sessionlist, activesession, mud_active, conn,
                   wizard_autologin, open, stack, fault>>

-----------------------------------------------------------------------------
(* Reading.  A frame "read" is readmud(s) between two lines, a frame "login" *)
(* read_from_connection() after it.  A source is not dispatched again while  *)
(* its callback runs.                                                        *)

Reading(s) == \E i \in 1..Len(stack) : stack[i].pc \in {"read", "login"} /\ stack[i].ses = s

ReadFromConnection ==
    /\ AnyLoop
    /\ \E src \in sources :
         LET after == <<[Fr("login") EXCEPT !.ses = src.ses]>> \o stack IN
         /\ src.cond = "READ" /\ ~Reading(src.ses)
         /\ \/ Freed(src.ses) /\ Crash("freed_session")
            \/ /\ ~Freed(src.ses) /\ ~Alive(src.ses)
               /\ stack' = after /\ OnlyStack
            \/ /\ ~Freed(src.ses) /\ Alive(src.ses)
               /\ \/ /\ stack' = <<[Fr("read") EXCEPT !.ses = src.ses]>> \o stack
                     /\ OnlyStack
                  \/ /\ stack' = <<Fr("popup")>> \o after         \* too much is read
                     /\ OnlyStack
                  \/ /\ stack' = <<Fr("popup-aborts")>> \o after  \* recv() fails
                     /\ OnlyStack
                  \/ BeginDisconnect(after)                       \* end of file

\* A line fires a trigger: one of the mud, or the message of a command.
Lines == At("read") \/ At("puts") \/ At("zapping")

TriggerFires ==
    /\ Lines /\ Room /\ ~Freed(Caller.ses)
    /\ stack' = <<Command(Caller.ses, FALSE)>> \o stack
    /\ OnlyStack

LineOnFreed == Lines /\ Freed(Caller.ses) /\ Crash("freed_session")

\* The rest of read_from_connection(): the wizard's name and password go to the
\* active session.
Autologin ==
    /\ At("login") \/ (At("read") /\ ~Freed(Caller.ses))
    /\ IF wizard_autologin # NULL /\ Freed(mud_active) THEN Crash("freed_session")
       ELSE /\ wizard_autologin' = NULL
            /\ stack' = Below
            /\ UNCHANGED <<link, monitors, sessions, conn, open, fault>>

-----------------------------------------------------------------------------
Opening ==
    \/ \E h \in Host : DoCon(h) \/ OnWizOkClicked(h)
    \/ WizardChosen \/ ConnectionCbk \/ StopConnecting \/ CloseWindow \/ PopupOk
Closing == MenuDisconnect \/ Reconnect \/ ReconnectDials \/ AbortOk \/ DisconnectEnds
Commanding ==
    \/ \E b \in BOOLEAN : TypeLine(b) \/ SendFails(b)
    \/ CommandOnFreed \/ CommandReturns \/ Written \/ Shows \/ PutsEnds
    \/ ZapCommand \/ ZapDisconnects \/ CommandGoesOn \/ ZombiCommand
    \/ \E h \in Host : SessionCommand(h)
    \/ \E s \in Ses : SwitchSession(s) \/ RunInSession(s)
Receiving == ReadFromConnection \/ TriggerFires \/ LineOnFreed \/ Autologin

\* A memory error ends the program.
Crashed == fault # "none" /\ UNCHANGED vars

Next == Opening \/ Closing \/ Commanding \/ Receiving \/ Crashed

Spec == Init /\ [][Next]_vars

\* GTK dispatches a ready descriptor, the user answers a modal popup, the drained
\* event queue empties, and the program runs while it has something to run.
Fairness ==
    /\ SF_vars(ConnectionCbk) /\ SF_vars(PopupOk) /\ SF_vars(AbortOk)
    /\ SF_vars(DisconnectEnds) /\ SF_vars(CommandReturns)
    /\ WF_vars(WizardChosen \/ ReconnectDials \/ CommandOnFreed \/ Written \/ PutsEnds
                 \/ ZapDisconnects \/ CommandGoesOn \/ LineOnFreed \/ Autologin)

FairSpec == Spec /\ Fairness

-----------------------------------------------------------------------------
(* Properties *)

\* The descriptors the program still has to close: of the connect in progress,
\* of a session, of a popup whose caller closes it when answered.
Owned ==
    {s.socket : s \in {ses[x] : x \in Listed}}
      \cup {stack[i].sock : i \in 1..Len(stack)}
      \cup (IF attempt = NULL THEN {} ELSE {attempt.sock})

\* No descriptor leaks and none is closed while still in use, however handlers
\* nest: the open ones are exactly those some part of the program has to close.
SocketsOwned == Owned \ {NULL} = open

\* No two parts of the program believe they own one descriptor: a second close()
\* would hit whatever was opened since.
OneOwner ==
    /\ \A x, y \in Listed : ses[x].socket = ses[y].socket /\ ses[x].socket # NULL => x = y
    /\ \A x \in Listed : attempt # NULL => attempt.sock # ses[x].socket
    /\ \A i \in 1..Len(stack) : stack[i].sock # NULL =>
         /\ attempt # NULL => attempt.sock # stack[i].sock
         /\ \A x \in Listed : ses[x].socket # stack[i].sock
         /\ \A j \in 1..Len(stack) : stack[j].sock = stack[i].sock => i = j

\* A connect in progress and an established connection exclude each other, and
\* the connecting flag never outlives the tempdata that Cancel or the callback
\* frees; a source that waits for the answer is that connect's and can be removed.
OneLink ==
    /\ ~(connecting /\ connected)
    /\ connecting <=> attempt # NULL
    /\ \A src \in sources : src.cond = "WRITE" =>
         connecting /\ src = input_monitor /\ src.sock = attempt.sock

\* tintin's session is a listed one, and there is one whenever a session exists.
ActiveListed ==
    /\ activesession = NULL <=> sessionlist = <<>>
    /\ activesession \in Maybe(Listed)

\* While nothing is half done the connected flag, on which menus and commands
\* decide, tells whether there is a session, and that session is read.
ConnectedIsRead ==
    /\ connected <=> sessionlist # <<>>
    /\ stack = <<>> /\ connected =>
         \E src \in sources : src.cond = "READ" /\ src.ses \in Listed

\* At most one input source is installed, and it is the one disconnect() removes,
\* whatever handlers nest, unless one of them dialed while disconnect() drained
\* the events.
OneSource == ~redialed => sources \subseteq {input_monitor}

\* A connect in progress ends: established, refused or cancelled.
ConnectEnds == connecting ~> (~connecting \/ fault # "none")

\* The name and the password reach only the mud the wizard entry was for.
AutologinToItsMud ==
    [][wizard_autologin # NULL /\ wizard_autologin' = NULL /\ mud_active # NULL
         => ses[mud_active].host = wizard_autologin]_vars

\* Without zombies, the code implements the abstract Link: the descriptor of the
\* link is that of the connect in progress, then of the session.
LinkPhase == IF connecting THEN "dialing" ELSE IF connected THEN "connected" ELSE "idle"
LinkSock == IF connecting THEN attempt.sock
            ELSE IF connected THEN ses[Head(sessionlist)].socket ELSE NULL
L == INSTANCE Link WITH phase <- LinkPhase, sock <- LinkSock
ImplementsLink == L!Spec

=============================================================================
