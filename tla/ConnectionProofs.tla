------------------------- MODULE ConnectionProofs -------------------------
(* Proofs about Connection, for any set of addresses, descriptors and hosts, *)
(* any depth of nesting, with and without zombies and re-entry.              *)
EXTENDS Connection, SequenceTheorems, TLAPS

USE ConnectionAssumption

(* Frames and the stack. *)

\* A function that is called adds one frame to the C stack.
LEMMA PushFrame ==
    ASSUME NEW f \in Frame, NEW st \in Seq(Frame)
    PROVE  <<f>> \o st \in Seq(Frame)
OBVIOUS

\* The frame of a function just called is a frame, whatever argument it was given.
LEMMA FreshFrame ==
    ASSUME NEW pc, pc \in {"events", "popup", "popup-aborts", "popup-socks",
               "popup-noproxy", "command", "return", "written", "session", "wizard",
               "puts", "zapping", "zap", "reconnect", "read", "login"},
           NEW s \in Maybe(Ses), NEW k \in BOOLEAN, NEW d \in Maybe(Sock), NEW h \in Maybe(Host)
    PROVE  /\ Fr(pc) \in Frame
           /\ [Fr(pc) EXCEPT !.ses = s] \in Frame
           /\ [Fr(pc) EXCEPT !.sock = d] \in Frame
           /\ [Fr(pc) EXCEPT !.host = h] \in Frame
           /\ [Fr(pc) EXCEPT !.ses = s, !.keep = k] \in Frame
<1>1. Fr(pc) \in Frame
  BY SMTT(30) DEF Fr, Frame, Loops, Maybe
<1>2. s \in Maybe(Ses) /\ d \in Maybe(Sock) /\ h \in Maybe(Host)
  OBVIOUS
<1>3. [Fr(pc) EXCEPT !.ses = s] \in Frame
  BY <1>1, <1>2, SMTT(30) DEF Frame
<1>4. [Fr(pc) EXCEPT !.ses = s, !.keep = k] \in Frame
  <2>1. ASSUME NEW f \in Frame PROVE [f EXCEPT !.keep = k] \in Frame
    BY SMTT(30) DEF Frame
  <2>2. [[Fr(pc) EXCEPT !.ses = s] EXCEPT !.keep = k] \in Frame
    BY <1>3, <2>1
  <2>3. [[Fr(pc) EXCEPT !.ses = s] EXCEPT !.keep = k]
           = [Fr(pc) EXCEPT !.ses = s, !.keep = k]
    OBVIOUS
  <2> QED
    BY <2>2, <2>3
<1>5. [Fr(pc) EXCEPT !.sock = d] \in Frame /\ [Fr(pc) EXCEPT !.host = h] \in Frame
  BY <1>1, <1>2, SMTT(30) DEF Frame
<1> QED
  BY <1>1, <1>3, <1>4, <1>5

\* The top of a non-empty C stack is a frame, and a return leaves a stack.
LEMMA TopFrame ==
    ASSUME NEW st \in Seq(Frame), st # <<>>
    PROVE  /\ Head(st) \in Frame /\ Tail(st) \in Seq(Frame)
           /\ Head(st).ses \in Maybe(Ses) /\ Head(st).sock \in Maybe(Sock)
           /\ Head(st).host \in Maybe(Host) /\ Head(st).keep \in BOOLEAN
<1>1. Head(st) \in Frame /\ Tail(st) \in Seq(Frame)
  BY HeadTailProperties
<1> QED
  BY <1>1 DEF Frame

\* gdk_input_remove() on the source of a callback in progress (net.c, disconnect)
\* changes frames, never the shape of the stack.
LEMMA UnblockedStack ==
    ASSUME NEW st \in Seq(Frame)
    PROVE  Unblocked(st) \in Seq(Frame)
<1> DEFINE At1(i) == IF st[i].pc = "login" THEN [st[i] EXCEPT !.ses = NULL] ELSE st[i]
<1>1. \A i \in 1..Len(st) : At1(i) \in Frame
  <2> TAKE i \in 1..Len(st)
  <2>1. st[i] \in Frame
    BY ElementOfSeq
  <2> QED
    BY <2>1 DEF Frame, Maybe
<1>2. Unblocked(st) = [i \in 1..Len(st) |-> At1(i)]
  BY DEF Unblocked
<1> QED
  BY <1>1, <1>2, IsASeq, LenProperties

\* tintin_puts() (net.c) runs the triggers of its message on a stack one deeper.
LEMMA PutsStack ==
    ASSUME NEW pc \in {"puts", "zapping"}, NEW s \in Maybe(Ses), NEW st \in Seq(Frame)
    PROVE  Puts(pc, s, st) \in Seq(Frame)
BY FreshFrame, PushFrame DEF Puts, Maybe

\* A struct tempdata that was allocated differs from the null pointer.
LEMMA AttemptNotNull ==
    ASSUME NEW a \in Attempt
    PROVE  a # NULL
BY StructAssumption

(* The list of sessions. *)

\* newactive_session() (tt/session.c) chooses a listed session, and none exactly
\* when the list is empty.
LEMMA NewActiveListed ==
    ASSUME NEW list \in Seq(Ses)
    PROVE  /\ NewActive(list) \in Maybe(Ses)
           /\ NewActive(list) = NULL <=> list = <<>>
           /\ list # <<>> => \E i \in 1..Len(list) : NewActive(list) = list[i]
BY DEF NewActive, Maybe

\* Unlinking a listed session from tintin's list (tt/session.c,
\* cleanup_nonzombi_session) leaves a list of sessions.
LEMMA WithoutType ==
    ASSUME NEW list \in Seq(Ses), NEW s, \E i \in 1..Len(list) : list[i] = s
    PROVE  Without(list, s) \in Seq(Ses)
<1> DEFINE i == CHOOSE i \in 1..Len(list) : list[i] = s
<1>1. i \in 1..Len(list)
  OBVIOUS
<1>2. \A j \in 1..Len(list) : list[j] \in Ses
  BY ElementOfSeq
<1> HIDE DEF i
<1>3. SubSeq(list, 1, i - 1) \in Seq(Ses)
  <2>1. 1 \in Int /\ i - 1 \in Int /\ \A j \in 1 .. i - 1 : list[j] \in Ses
    BY <1>1, <1>2, LenProperties
  <2> QED
    BY <2>1, SubSeqProperties
<1>4. SubSeq(list, i + 1, Len(list)) \in Seq(Ses)
  <2>1. i + 1 \in Int /\ Len(list) \in Int /\ \A j \in i + 1 .. Len(list) : list[j] \in Ses
    BY <1>1, <1>2, LenProperties
  <2> QED
    BY <2>1, SubSeqProperties
<1> QED
  BY <1>3, <1>4, ConcatProperties DEF Without, i

-----------------------------------------------------------------------------
(* The inductive invariant.  The types alone are not inductive: the callback *)
(* of a pending connect reads the attempt, which exists because a WRITE      *)
(* source is installed (OneLink).                                            *)

IInv == TypeOK /\ OneLink /\ ActiveListed

\* What gdk_input_remove(mud->input_monitor) leaves behind never waits for a
\* connect, and without a connect in progress nothing does (net.c).
LEMMA NoStraySource ==
    ASSUME IInv
    PROVE  /\ \A src \in Unwatched : src.cond # "WRITE"
           /\ ~connecting => \A src \in sources : src.cond # "WRITE"
BY DEF IInv, OneLink, Unwatched

\* connection_part_two() (net.c): the variables it writes keep their types, the new
\* session is listed and active, and no source is left waiting for the connect.
LEMMA PartTwoLemma ==
    ASSUME IInv, NEW sock \in Sock, NEW h \in Host, NEW req, NEW kept \in SUBSET sources,
           \A src \in kept : src.cond # "WRITE",
           NEW st \in Seq(Frame), PartTwo(sock, h, req, kept, st)
    PROVE  /\ connected' \in BOOLEAN
           /\ input_monitor' \in Maybe(Source) /\ sources' \subseteq Source
           /\ redialed' \in BOOLEAN
           /\ sessionlist' \in Seq(Ses) /\ ses' \in [Ses -> Session]
           /\ activesession' \in Maybe(Ses) /\ mud_active' \in Maybe(Ses)
           /\ stack' \in Seq(Frame)
           /\ ActiveListed'
           /\ \A src \in sources' : src.cond # "WRITE"
<1> USE DEF IInv
<1>1. ASSUME NEW s \in Ses,
             sessionlist' = <<s>> \o sessionlist,
             ses' = [ses EXCEPT ![s] = [socket |-> sock, zombi |-> "NOT",
                                        host |-> h, mccp |-> TRUE]],
             activesession' = s, mud_active' = s,
             input_monitor' = [sock |-> sock, cond |-> "READ", ses |-> s],
             connected' = TRUE,
             sources' = kept \cup {input_monitor'},
             stack' = st
      PROVE  /\ input_monitor' \in Maybe(Source) /\ sources' \subseteq Source
             /\ sessionlist' \in Seq(Ses) /\ ses' \in [Ses -> Session]
             /\ ActiveListed'
             /\ \A src \in sources' : src.cond # "WRITE"
  <2>1. input_monitor' \in Source
    BY <1>1 DEF Source, Maybe
  <2>2. sessionlist' \in Seq(Ses)
    BY <1>1, ConcatProperties DEF TypeOK
  <2>3. ses' \in [Ses -> Session]
    BY <1>1 DEF TypeOK, Session, Maybe
  <2>4. sessionlist' # <<>> /\ Len(sessionlist') \in Nat \ {0} /\ sessionlist'[1] = s
    BY <1>1, ConcatProperties DEF TypeOK
  <2>5. ActiveListed'
    BY <1>1, <2>4 DEF ActiveListed, Listed, Maybe
  <2>6. sources' \subseteq Source
    BY <1>1, <2>1 DEF TypeOK
  <2> QED
    BY <1>1, <2>1, <2>2, <2>3, <2>5, <2>6 DEF Maybe
<1>2. CASE \E s \in Ses \ Listed :
            /\ sessionlist' = <<s>> \o sessionlist
            /\ ses' = [ses EXCEPT ![s] = [socket |-> sock, zombi |-> "NOT",
                                          host |-> h, mccp |-> TRUE]]
            /\ activesession' = s /\ mud_active' = s
            /\ input_monitor' = [sock |-> sock, cond |-> "READ", ses |-> s]
            /\ connected' = TRUE
            /\ sources' = kept \cup {input_monitor'}
            /\ redialed' = (redialed \/ Draining)
            /\ stack' = st
  <2>1. redialed' \in BOOLEAN
    BY <1>2
  <2> QED
    BY <1>1, <1>2, <2>1 DEF Maybe
<1>3. CASE /\ sources' = kept
           /\ stack' = <<[Fr("popup-socks") EXCEPT !.sock = sock]>> \o st
           /\ UNCHANGED <<connected, input_monitor, redialed, sessions>>
  <2>1. [Fr("popup-socks") EXCEPT !.sock = sock] \in Frame
    BY FreshFrame DEF Maybe
  <2>2. stack' \in Seq(Frame)
    BY <1>3, <2>1, PushFrame
  <2>3. ActiveListed'
    BY <1>3 DEF sessions, ActiveListed, Listed
  <2> QED
    BY <1>3, <2>2, <2>3 DEF TypeOK, sessions
<1> QED
  BY <1>2, <1>3 DEF PartTwo

\* A step that leaves the session list alone (most handlers) keeps the active
\* session a listed one.
LEMMA SameSessions ==
    ASSUME ActiveListed, UNCHANGED sessions
    PROVE  ActiveListed'
BY DEF ActiveListed, Listed, sessions

\* Opening a modal popup (window.c, popup_window) only nests a loop.
LEMMA PopupLemma ==
    ASSUME IInv, NEW st \in Seq(Frame), Popup(st), UNCHANGED <<wizard_autologin, fault>>
    PROVE  IInv'
<1>1. stack' \in Seq(Frame)
  BY FreshFrame, PushFrame DEF Popup, Maybe
<1>2. ActiveListed'
  BY SameSessions DEF IInv, Popup
<1> QED
  BY <1>1, <1>2 DEF IInv, Popup, TypeOK, OneLink, link, monitors, sessions

\* A call or a return that writes no variable of the client keeps the invariant.
LEMMA OnlyStackLemma ==
    ASSUME IInv, stack' \in Seq(Frame), OnlyStack
    PROVE  IInv'
<1>1. ActiveListed'
  BY SameSessions DEF IInv, OnlyStack
<1> QED
  BY <1>1 DEF IInv, OnlyStack, TypeOK, OneLink, link, monitors, sessions

\* A memory error ends the program in the state it was in.
LEMMA CrashLemma ==
    ASSUME IInv, NEW kind \in Faults, Crash(kind)
    PROVE  IInv'
<1>1. ActiveListed'
  BY SameSessions DEF IInv, Crash
<1> QED
  BY <1>1 DEF IInv, Crash, TypeOK, OneLink, link, monitors, sessions

\* make_connection() and open_connection() (net.c) keep the invariant, whoever
\* calls them and however they end.
LEMMA DialLemma ==
    ASSUME IInv, NEW h \in Host, NEW st \in Seq(Frame), Dial(h, st),
           UNCHANGED <<wizard_autologin, fault>>
    PROVE  IInv'
<1>1. CASE connecting /\ stack' = st /\ UNCHANGED <<link, monitors, sessions, conn, open>>
  BY <1>1, SameSessions DEF IInv, TypeOK, OneLink, link, monitors, sessions
<1>2. CASE Popup(st)
  BY <1>2, PopupLemma
<1>3. ASSUME MayDial, NEW sock \in Sock, NEW useSocks \in BOOLEAN, Connect(sock, h, useSocks, st)
      PROVE  IInv'
  <2> USE <1>3 DEF IInv
  <2>0. conn \in Maybe(Sock) /\ (IF useSocks THEN sock ELSE conn) \in Maybe(Sock)
        /\ open \cup {sock} \subseteq Sock
    BY DEF TypeOK, Maybe
  <2>1. CASE /\ open' = open \cup {sock}
             /\ stack' = <<[Fr("popup-noproxy") EXCEPT !.sock = sock]>> \o st
             /\ UNCHANGED <<link, monitors, sessions, conn>>
    <3>1. [Fr("popup-noproxy") EXCEPT !.sock = sock] \in Frame
      BY FreshFrame DEF Maybe
    <3>2. stack' \in Seq(Frame)
      BY <2>1, <3>1, PushFrame
    <3> QED
      BY <2>0, <2>1, <3>2, SameSessions DEF TypeOK, OneLink, link, monitors, sessions
  <2>2. CASE /\ conn' = IF useSocks THEN sock ELSE conn
             /\ stack' = st
             /\ UNCHANGED <<link, monitors, sessions, open>>
    BY <2>0, <2>2, SameSessions DEF TypeOK, OneLink, link, monitors, sessions
  <2>3. CASE /\ conn' = IF useSocks THEN sock ELSE conn
             /\ open' = open \cup {sock}
             /\ connecting' = TRUE
             /\ attempt' = [sock |-> sock, host |-> h, window |-> TRUE]
             /\ input_monitor' = [sock |-> sock, cond |-> "WRITE", ses |-> NULL]
             /\ sources' = sources \cup {input_monitor'}
             /\ redialed' = (redialed \/ Draining)
             /\ stack' = st
             /\ UNCHANGED <<connected, sessions>>
    <3>1. attempt' \in Attempt /\ attempt' # NULL
      BY <2>3, AttemptNotNull DEF Attempt
    <3>2. input_monitor' \in Source
      BY <2>3 DEF Source, Maybe
    <3>3. \A src \in sources : src.cond # "WRITE"
      BY NoStraySource DEF MayDial
    <3>4. OneLink'
      BY <2>3, <3>1, <3>3 DEF OneLink, MayDial
    <3>5. redialed' \in BOOLEAN
      BY <2>3
    <3> QED
      BY <2>0, <2>3, <3>1, <3>2, <3>4, <3>5, SameSessions DEF TypeOK, Maybe, sessions
  <2>4. CASE /\ conn' = IF useSocks THEN sock ELSE conn
             /\ open' = open \cup {sock}
             /\ PartTwo(sock, h, conn', sources, st)
             /\ UNCHANGED <<connecting, attempt>>
    <3>1. \A src \in sources : src.cond # "WRITE"
      BY NoStraySource DEF MayDial
    <3>2. /\ connected' \in BOOLEAN
          /\ input_monitor' \in Maybe(Source) /\ sources' \subseteq Source
          /\ redialed' \in BOOLEAN
          /\ sessionlist' \in Seq(Ses) /\ ses' \in [Ses -> Session]
          /\ activesession' \in Maybe(Ses) /\ mud_active' \in Maybe(Ses)
          /\ stack' \in Seq(Frame)
          /\ ActiveListed'
          /\ \A src \in sources' : src.cond # "WRITE"
      BY <2>4, <3>1, PartTwoLemma
    <3> QED
      BY <2>0, <2>4, <3>2 DEF TypeOK, OneLink, MayDial
  <2> QED
    BY <2>1, <2>2, <2>3, <2>4 DEF Connect
<1> QED
  BY <1>1, <1>2, <1>3 DEF Dial

\* disconnect() (net.c) up to the loop that drains the events keeps the invariant.
LEMMA BeginDisconnectLemma ==
    ASSUME IInv, NEW st \in Seq(Frame), BeginDisconnect(st)
    PROVE  IInv'
<1> USE DEF IInv
<1>1. stack' \in Seq(Frame)
  BY UnblockedStack, FreshFrame, PushFrame DEF BeginDisconnect, Maybe
<1>2. sources' \subseteq Source /\ input_monitor' = NULL
  BY DEF BeginDisconnect, Unwatched, TypeOK
<1>3. \A src \in sources' : src.cond # "WRITE"
  BY NoStraySource DEF BeginDisconnect
<1>4. UNCHANGED <<link, redialed, sessions, conn, wizard_autologin, open, fault>>
  BY DEF BeginDisconnect
<1> QED
  BY <1>1, <1>2, <1>3, <1>4, SameSessions DEF TypeOK, OneLink, link, sessions, Maybe

\* The branch of disconnect() that does clean a session up (tt/session.c,
\* cleanup_session) keeps the invariant.
LEMMA CleanupLemma ==
    ASSUME IInv, stack # <<>>, mud_active \in Listed, CleanupSession(mud_active)
    PROVE  IInv'
<1> USE DEF IInv
<1> DEFINE s == mud_active
<1>0. s \in Ses
  BY ElementOfSeq DEF Listed, TypeOK
<1>1. sessionlist' \in Seq(Ses)
  <2>1. Without(sessionlist, s) \in Seq(Ses)
    BY WithoutType DEF Listed, TypeOK
  <2> QED
    BY <2>1 DEF CleanupSession, Unlinked, TypeOK
<1>2. ses' \in [Ses -> Session]
  <2>1. ses[s] \in Session
    BY <1>0 DEF TypeOK
  <2>2. Cleaned(s) \in Session
    BY <2>1 DEF Cleaned, Session, Maybe
  <2> QED
    BY <2>2 DEF CleanupSession, TypeOK
<1>3. /\ activesession' \in Maybe(Ses) /\ mud_active' = activesession'
      /\ ActiveListed'
  <2>1. activesession' = NewActive(sessionlist') /\ mud_active' = activesession'
    BY DEF CleanupSession
  <2>2. CASE sessionlist' = <<>>
    BY <1>1, <2>1, <2>2, NewActiveListed DEF ActiveListed, Maybe
  <2>3. CASE sessionlist' # <<>>
    BY <1>1, <2>1, <2>3, NewActiveListed DEF ActiveListed, Maybe, Listed
  <2> QED
    BY <2>1, <2>2, <2>3, <1>1, NewActiveListed
<1>4. stack' \in Seq(Frame)
  BY TopFrame DEF CleanupSession, TypeOK
<1>5. /\ connected' = FALSE /\ conn' = NULL /\ open' \subseteq Sock
      /\ UNCHANGED <<connecting, attempt, monitors, wizard_autologin, fault>>
  BY DEF CleanupSession, Closed, TypeOK
<1> QED
  BY <1>1, <1>2, <1>3, <1>4, <1>5 DEF TypeOK, OneLink, monitors, Maybe

-----------------------------------------------------------------------------
(* One step per action of each group of Next. *)

\* The handlers that open a connection (do_con, the wizard, connection_cbk, Cancel,
\* the popups) preserve the invariant.
LEMMA OpeningStep ==
    ASSUME IInv, Opening
    PROVE  IInv'
<1> USE DEF IInv
<1>0. stack \in Seq(Frame)
  BY DEF TypeOK
<1>1. ASSUME NEW h \in Host, DoCon(h) PROVE IInv'
  BY <1>0, <1>1, DialLemma DEF DoCon
<1>2. ASSUME NEW h \in Host, OnWizOkClicked(h) PROVE IInv'
  <2>1. [Fr("wizard") EXCEPT !.host = h] \in Frame
    BY FreshFrame DEF Maybe
  <2>2. <<[Fr("wizard") EXCEPT !.host = h]>> \o stack \in Seq(Frame)
    BY <1>0, <2>1, PushFrame
  <2> QED
    BY <1>0, <1>2, <2>2, DialLemma, PopupLemma DEF OnWizOkClicked
<1>3. CASE WizardChosen
  <2>1. Tail(stack) \in Seq(Frame) /\ Head(stack).host \in Maybe(Host)
    BY <1>0, <1>3, TopFrame DEF WizardChosen, At
  <2> QED
    BY <1>3, <2>1, SameSessions DEF WizardChosen, TypeOK, OneLink, link, monitors, sessions
<1>4. CASE ConnectionCbk
  <2>1. CASE Answered
    <3>1. connecting /\ attempt # NULL
      BY <2>1 DEF Answered, OneLink
    <3>2. attempt.sock \in Sock /\ attempt.host \in Host
      BY <3>1 DEF TypeOK, Attempt, Maybe
    <3>3. Unwatched \in SUBSET sources /\ \A src \in Unwatched : src.cond # "WRITE"
      BY NoStraySource DEF Unwatched
    <3>4. /\ connected' \in BOOLEAN
          /\ input_monitor' \in Maybe(Source) /\ sources' \subseteq Source
          /\ redialed' \in BOOLEAN
          /\ sessionlist' \in Seq(Ses) /\ ses' \in [Ses -> Session]
          /\ activesession' \in Maybe(Ses) /\ mud_active' \in Maybe(Ses)
          /\ stack' \in Seq(Frame)
          /\ ActiveListed'
          /\ \A src \in sources' : src.cond # "WRITE"
      BY <1>0, <2>1, <3>2, <3>3, PartTwoLemma DEF Answered
    <3>5. /\ connecting' = FALSE /\ attempt' = NULL
          /\ UNCHANGED <<conn, wizard_autologin, open, fault>>
      BY <2>1 DEF Answered
    <3> QED
      BY <3>4, <3>5 DEF TypeOK, OneLink, Maybe
  <2>2. CASE Crash("freed_window")
    BY <2>2, CrashLemma DEF Faults
  <2> QED
    BY <1>4, <2>1, <2>2 DEF ConnectionCbk
<1>5. CASE StopConnecting
  <2>1. \A src \in sources' : src.cond # "WRITE"
    BY <1>5, NoStraySource DEF StopConnecting
  <2> QED
    BY <1>5, <2>1, SameSessions DEF StopConnecting, TypeOK, OneLink, Unwatched, sessions, Maybe
<1>6. CASE CloseWindow
  <2>1. attempt \in Attempt /\ attempt' \in Attempt /\ attempt'.sock = attempt.sock
    BY <1>6 DEF CloseWindow, TypeOK, Attempt, Maybe
  <2>2. attempt' # NULL /\ attempt # NULL
    BY <2>1, AttemptNotNull
  <2> QED
    BY <1>6, <2>1, <2>2, SameSessions
       DEF CloseWindow, TypeOK, OneLink, monitors, sessions, Maybe
<1>7. CASE PopupOk
  <2>1. stack' \in Seq(Frame)
    BY <1>0, <1>7, TopFrame DEF PopupOk, At
  <2>2. conn' \in Maybe(Sock) /\ open' \subseteq Sock
    BY <1>7 DEF PopupOk, TypeOK, Maybe
  <2> QED
    BY <1>7, <2>1, <2>2, SameSessions DEF PopupOk, TypeOK, OneLink, link, monitors, sessions
<1> QED
  BY <1>1, <1>2, <1>3, <1>4, <1>5, <1>6, <1>7 DEF Opening

\* The handlers that take a connection down (menu, reconnect, aborted, the end of
\* disconnect) preserve the invariant.
LEMMA ClosingStep ==
    ASSUME IInv, Closing
    PROVE  IInv'
<1> USE DEF IInv
<1>0. stack \in Seq(Frame)
  BY DEF TypeOK
<1>1. CASE MenuDisconnect
  BY <1>0, <1>1, BeginDisconnectLemma DEF MenuDisconnect
<1>2. CASE Reconnect
  <2>1. CASE ~connected \/ mud_active = NULL
    BY <1>0, <1>2, <2>1, PopupLemma DEF Reconnect
  <2>2. CASE ~(~connected \/ mud_active = NULL) /\ Freed(mud_active)
    BY <1>2, <2>2, CrashLemma DEF Reconnect, Faults
  <2>3. CASE ~(~connected \/ mud_active = NULL) /\ ~Freed(mud_active)
    <3>1. mud_active \in Ses /\ ses[mud_active].host \in Maybe(Host)
      BY <2>3 DEF TypeOK, Session, Maybe
    <3>2. [Fr("reconnect") EXCEPT !.host = ses[mud_active].host] \in Frame
      BY <3>1, FreshFrame DEF Maybe
    <3>3. <<[Fr("reconnect") EXCEPT !.host = ses[mud_active].host]>> \o stack \in Seq(Frame)
      BY <1>0, <3>2, PushFrame
    <3> QED
      BY <1>2, <2>3, <3>3, BeginDisconnectLemma DEF Reconnect
  <2> QED
    BY <2>1, <2>2, <2>3
<1>3. CASE ReconnectDials
  <2>1. Tail(stack) \in Seq(Frame)
    BY <1>0, <1>3, TopFrame DEF ReconnectDials, At
  <2> QED
    BY <1>3, <2>1, DialLemma DEF ReconnectDials
<1>4. CASE AbortOk
  <2>1. Tail(stack) \in Seq(Frame)
    BY <1>0, <1>4, TopFrame DEF AbortOk, At
  <2> QED
    BY <1>4, <2>1, BeginDisconnectLemma DEF AbortOk
<1>5. CASE DisconnectEnds
  BY <1>5, CrashLemma, CleanupLemma DEF DisconnectEnds, Faults, At
<1> QED
  BY <1>1, <1>2, <1>3, <1>4, <1>5 DEF Closing

\* The commands of tintin that touch sessions (#zap, #session, #name, #zombion,
\* #zombioff, a failing send) preserve the invariant.
LEMMA CommandingStep ==
    ASSUME IInv, Commanding
    PROVE  IInv'
<1> USE DEF IInv
<1>0. stack \in Seq(Frame) /\ mud_active \in Maybe(Ses)
  BY DEF TypeOK
<1>1. ASSUME NEW pc \in Loops \cup {"command", "return", "written", "session", "wizard",
                           "puts", "zapping", "zap", "reconnect", "read", "login"}, At(pc)
      PROVE  /\ Caller \in Frame /\ Below \in Seq(Frame)
             /\ Caller.ses \in Maybe(Ses) /\ Caller.keep \in BOOLEAN
             /\ \A s \in Maybe(Ses) : Goes(s) \in Seq(Frame)
  <2>1. /\ Caller \in Frame /\ Below \in Seq(Frame)
        /\ Caller.ses \in Maybe(Ses) /\ Caller.keep \in BOOLEAN
    BY <1>0, <1>1, TopFrame DEF At, Caller, Below
  <2>2. ASSUME NEW s \in Maybe(Ses)
        PROVE  Goes(s) \in Seq(Frame)
    <3>1. [Caller EXCEPT !.ses = s] \in Frame
      BY <2>1 DEF Frame
    <3> QED
      BY <2>1, <3>1, PushFrame DEF Goes
  <2> QED
    BY <2>1, <2>2
<1>2. ASSUME NEW b \in BOOLEAN, TypeLine(b) PROVE IInv'
  <2>1. Command(mud_active, b) \in Frame
    BY <1>0, FreshFrame DEF Command, Maybe
  <2>2. stack' \in Seq(Frame)
    BY <1>0, <1>2, <2>1, PushFrame DEF TypeLine
  <2> QED
    BY <1>2, <2>2, OnlyStackLemma DEF TypeLine
<1>3. ASSUME NEW b \in BOOLEAN, SendFails(b) PROVE IInv'
  <2>1. Caller \in Frame /\ Below \in Seq(Frame) /\ Caller.ses \in Maybe(Ses)
    BY <1>1, <1>3 DEF SendFails, Ready
  <2>2. [Caller EXCEPT !.pc = "return"] \in Frame
    BY <2>1 DEF Frame
  <2>3. <<[Caller EXCEPT !.pc = "return"]>> \o Below \in Seq(Frame)
    BY <2>1, <2>2, PushFrame
  <2>4. [Fr("written") EXCEPT !.ses = Caller.ses] \in Frame
    BY <2>1, FreshFrame DEF Maybe
  <2>5. <<[Fr("written") EXCEPT !.ses = Caller.ses]>> \o stack \in Seq(Frame)
    BY <1>0, <2>4, PushFrame
  <2>6. Fr("popup-aborts") \in Frame
    BY FreshFrame DEF Maybe
  <2>7. stack' \in Seq(Frame)
    BY <1>3, <2>3, <2>5, <2>6, PushFrame DEF SendFails
  <2> QED
    BY <1>3, <2>7, OnlyStackLemma DEF SendFails
<1>4. CASE CommandOnFreed
  BY <1>4, CrashLemma DEF CommandOnFreed, Faults
<1>5. CASE CommandReturns
  <2>1. Below \in Seq(Frame) /\ Caller.ses \in Maybe(Ses)
    BY <1>1, <1>5 DEF CommandReturns
  <2>2. mud_active' \in Maybe(Ses)
    BY <1>0, <1>5, <2>1 DEF CommandReturns
  <2> QED
    BY <1>5, <2>1, <2>2
       DEF CommandReturns, TypeOK, OneLink, ActiveListed, Listed, link, monitors
<1>6. CASE Written
  <2>1. Below \in Seq(Frame)
    BY <1>1, <1>6 DEF Written
  <2> QED
    BY <1>6, <2>1, CrashLemma, OnlyStackLemma DEF Written, Faults
<1>7. CASE Shows \/ ZapCommand
  <2>1. Caller.ses \in Maybe(Ses)
    BY <1>1, <1>7 DEF Shows, ZapCommand, Ready
  <2>2. stack' \in Seq(Frame)
    BY <1>0, <1>7, <2>1, PutsStack DEF Shows, ZapCommand
  <2> QED
    BY <1>7, <2>2, OnlyStackLemma DEF Shows, ZapCommand
<1>13. CASE PutsEnds
  <2>1. Below \in Seq(Frame)
    BY <1>1, <1>13 DEF PutsEnds
  <2> QED
    BY <1>13, <2>1, OnlyStackLemma DEF PutsEnds
<1>14. CASE ZapDisconnects
  <2>1. Below \in Seq(Frame)
    BY <1>1, <1>14 DEF ZapDisconnects
  <2>2. <<Fr("zap")>> \o Below \in Seq(Frame)
    BY <2>1, FreshFrame, PushFrame DEF Maybe
  <2> QED
    BY <1>14, <2>2, BeginDisconnectLemma DEF ZapDisconnects
<1>8. CASE CommandGoesOn
  <2>1. Below \in Seq(Frame) /\ Below # <<>>
    BY <1>1, <1>8 DEF CommandGoesOn
  <2>2. Head(Below) \in Frame /\ Tail(Below) \in Seq(Frame)
    BY <2>1, TopFrame
  <2>3. activesession' \in Maybe(Ses) /\ ActiveListed'
    <3>1. NewActive(sessionlist) = NULL <=> sessionlist = <<>>
      BY NewActiveListed DEF TypeOK
    <3>2. NewActive(sessionlist) \in Maybe(Ses) /\ NewActive(sessionlist) \in Maybe(Listed)
      BY NewActiveListed, <3>1 DEF TypeOK, Maybe, Listed
    <3> QED
      BY <1>8, <3>1, <3>2 DEF CommandGoesOn, TypeOK, ActiveListed, Listed
  <2>4. [Head(Below) EXCEPT !.ses = activesession'] \in Frame
    BY <2>2, <2>3 DEF Frame
  <2>5. stack' \in Seq(Frame)
    BY <1>8, <2>2, <2>4, PushFrame DEF CommandGoesOn
  <2> QED
    BY <1>8, <2>3, <2>5 DEF CommandGoesOn, TypeOK, OneLink, link, monitors
<1>9. CASE ZombiCommand
  <2>1. Caller.ses \in Ses
    BY <1>1, <1>9 DEF ZombiCommand, Ready, Maybe
  <2>2. ses' \in [Ses -> Session]
    BY <1>9, <2>1, SMTT(30) DEF ZombiCommand, TypeOK, Session
  <2> QED
    BY <1>9, <2>2 DEF ZombiCommand, TypeOK, OneLink, ActiveListed, Listed, link, monitors
<1>10. ASSUME NEW h \in Host, SessionCommand(h) PROVE IInv'
  <2>1. <<Fr("session")>> \o stack \in Seq(Frame)
    BY <1>0, FreshFrame, PushFrame DEF Maybe
  <2> QED
    BY <1>10, <2>1, DialLemma DEF SessionCommand
<1>11. ASSUME NEW s \in Ses, SwitchSession(s) PROVE IInv'
  <2>0. Goes(s) \in Seq(Frame)
    BY <1>1, <1>11 DEF SwitchSession, Ready, Maybe
  <2>1. stack' \in Seq(Frame)
    BY <1>11, <2>0, PutsStack DEF SwitchSession, Maybe
  <2>2. ActiveListed'
    BY <1>11, ConnectionAssumption DEF SwitchSession, ActiveListed, Listed, Maybe, TypeOK
  <2> QED
    BY <1>11, <2>1, <2>2 DEF SwitchSession, TypeOK, OneLink, link, monitors, Maybe
<1>12. ASSUME NEW s \in Ses, RunInSession(s) PROVE IInv'
  <2>1. Command(s, FALSE) \in Frame /\ Fr("session") \in Frame
    BY FreshFrame DEF Command, Maybe
  <2>2. <<Fr("session")>> \o stack \in Seq(Frame)
    BY <1>0, <2>1, PushFrame
  <2>3. stack' \in Seq(Frame)
    BY <1>12, <2>1, <2>2, PushFrame DEF RunInSession
  <2> QED
    BY <1>12, <2>3, OnlyStackLemma DEF RunInSession
<1> QED
  BY <1>2, <1>3, <1>4, <1>5, <1>6, <1>7, <1>8, <1>9, <1>10, <1>11, <1>12, <1>13, <1>14
     DEF Commanding

\* read_from_connection() and the triggers it fires preserve the invariant.
LEMMA ReceivingStep ==
    ASSUME IInv, Receiving
    PROVE  IInv'
<1> USE DEF IInv
<1>0. stack \in Seq(Frame)
  BY DEF TypeOK
<1>1. CASE ReadFromConnection
  <2> PICK src \in sources :
         LET after == <<[Fr("login") EXCEPT !.ses = src.ses]>> \o stack IN
         \/ Crash("freed_session")
         \/ stack' = after /\ OnlyStack
         \/ stack' = <<[Fr("read") EXCEPT !.ses = src.ses]>> \o stack /\ OnlyStack
         \/ stack' = <<Fr("popup")>> \o after /\ OnlyStack
         \/ stack' = <<Fr("popup-aborts")>> \o after /\ OnlyStack
         \/ BeginDisconnect(after)
    BY <1>1 DEF ReadFromConnection
  <2> DEFINE after == <<[Fr("login") EXCEPT !.ses = src.ses]>> \o stack
  <2>1. src.ses \in Maybe(Ses)
    BY DEF TypeOK, Source
  <2>2. [Fr("login") EXCEPT !.ses = src.ses] \in Frame
    BY <2>1, FreshFrame DEF Maybe
  <2>3. [Fr("read") EXCEPT !.ses = src.ses] \in Frame
    BY <2>1, FreshFrame DEF Maybe
  <2>4. Fr("popup-aborts") \in Frame /\ Fr("popup") \in Frame
    BY FreshFrame DEF Maybe
  <2>5. after \in Seq(Frame)
    BY <1>0, <2>2, PushFrame
  <2>6. <<[Fr("read") EXCEPT !.ses = src.ses]>> \o stack \in Seq(Frame)
    BY <1>0, <2>3, PushFrame
  <2>7. <<Fr("popup-aborts")>> \o after \in Seq(Frame) /\ <<Fr("popup")>> \o after \in Seq(Frame)
    BY <2>4, <2>5, PushFrame
  <2> HIDE DEF after
  <2> QED
    BY <2>5, <2>6, <2>7, CrashLemma, OnlyStackLemma, BeginDisconnectLemma DEF Faults, after
<1>2. CASE TriggerFires
  <2>1. Caller.ses \in Maybe(Ses)
    BY <1>0, <1>2, TopFrame DEF TriggerFires, Lines, At, Caller
  <2>2. Command(Caller.ses, FALSE) \in Frame
    BY <2>1, FreshFrame DEF Command, Maybe
  <2>3. stack' \in Seq(Frame)
    BY <1>0, <1>2, <2>2, PushFrame DEF TriggerFires
  <2> QED
    BY <1>2, <2>3, OnlyStackLemma DEF TriggerFires
<1>3. CASE LineOnFreed
  BY <1>3, CrashLemma DEF LineOnFreed, Faults
<1>4. CASE Autologin
  <2>1. Below \in Seq(Frame)
    BY <1>0, <1>4, TopFrame DEF Autologin, At, Below
  <2>2. CASE Crash("freed_session")
    BY <2>2, CrashLemma DEF Faults
  <2>3. CASE /\ wizard_autologin' = NULL
             /\ stack' = Below
             /\ UNCHANGED <<link, monitors, sessions, conn, open, fault>>
    BY <2>1, <2>3, SameSessions DEF TypeOK, OneLink, link, monitors, sessions, Maybe
  <2> QED
    BY <1>4, <2>2, <2>3 DEF Autologin
<1> QED
  BY <1>1, <1>2, <1>3, <1>4 DEF Receiving

-----------------------------------------------------------------------------
\* The inductive invariant holds in every state the handlers of net.c, tt/session.c
\* and their callers reach, however they nest.
THEOREM Inductive == Spec => []IInv
<1>1. Init => IInv
  <2> SUFFICES ASSUME Init PROVE IInv
    OBVIOUS
  <2>1. ses \in [Ses -> Session]
    BY DEF Init, Session, Maybe
  <2>2. sessionlist \in Seq(Ses) /\ stack \in Seq(Frame)
    BY EmptySeq DEF Init
  <2>3. TypeOK
    BY <2>1, <2>2 DEF Init, TypeOK, Maybe, Faults
  <2>4. OneLink
    BY DEF Init, OneLink
  <2>5. ActiveListed
    BY DEF Init, ActiveListed, Maybe
  <2> QED
    BY <2>3, <2>4, <2>5 DEF IInv
<1>2. IInv /\ [Next]_vars => IInv'
  <2> SUFFICES ASSUME IInv, [Next]_vars PROVE IInv'
    OBVIOUS
  <2>1. CASE UNCHANGED vars
    BY <2>1 DEF vars, link, monitors, sessions, IInv, TypeOK, OneLink, ActiveListed, Listed
  <2> QED
    BY <2>1, OpeningStep, ClosingStep, CommandingStep, ReceivingStep DEF Next, Crashed
<1> QED
  BY <1>1, <1>2, PTL DEF Spec

\* Whatever the nesting of handlers, every variable keeps its type: in particular
\* a session pointer is NULL or an address malloc gave.
THEOREM TypeCorrect == Spec => []TypeOK
<1>1. IInv => TypeOK
  BY DEF IInv
<1> QED
  BY <1>1, Inductive, PTL

\* A pending connect and an established connection exclude each other, and the
\* struct tempdata lives exactly while connecting is set (net.c, open_connection,
\* connection_cbk, stop_connecting).
THEOREM ConnectsOneAtATime == Spec => []OneLink
<1>1. IInv => OneLink
  BY DEF IInv
<1> QED
  BY <1>1, Inductive, PTL

\* tintin's active session is never a freed one, and exists as soon as a session
\* does (tt/session.c, newactive_session).
THEOREM TintinActiveListed == Spec => []ActiveListed
<1>1. IInv => ActiveListed
  BY DEF IInv
<1> QED
  BY <1>1, Inductive, PTL

-----------------------------------------------------------------------------
(* The C stack, as the descriptors and the loops on it. *)

\* The descriptors that popups on the C stack will close.
StackSocks(st) == {st[i].sock : i \in 1..Len(st)} \ {NULL}

\* No two frames have one descriptor, and only popups have one.
Tidy(st) ==
    /\ \A i, j \in 1..Len(st) : st[i].sock # NULL /\ st[i].sock = st[j].sock => i = j
    /\ \A i \in 1..Len(st) :
         st[i].sock # NULL => st[i].pc \in {"popup-socks", "popup-noproxy"}

\* No disconnect() is in its loop.
Calm(st) == \A i \in 1..Len(st) : st[i].pc # "events"

\* A call or a return that hands no descriptor over and is not disconnect()'s.
Quiet(a, b) ==
    /\ Tidy(a) => Tidy(b) /\ StackSocks(b) = StackSocks(a)
    /\ Calm(b) <=> Calm(a)

\* Where a frame is in the stack after a call, and after a return.
Pushed(f, st, p) ==
    /\ Len(p) = Len(st) + 1 /\ Len(st) \in Nat
    /\ p[1] = f
    /\ \A i \in 1..Len(st) : i + 1 \in 1..Len(p) /\ p[i + 1] = st[i]
    /\ \A i \in 1..Len(p) : i # 1 => i - 1 \in 1..Len(st) /\ p[i] = st[i - 1]

\* A call moves every frame down by one.
LEMMA PushIndex ==
    ASSUME NEW f \in Frame, NEW st \in Seq(Frame)
    PROVE  Pushed(f, st, <<f>> \o st)
<1> DEFINE p == <<f>> \o st
<1>1. /\ Len(p) = Len(st) + 1 /\ Len(st) \in Nat
      /\ p[1] = f
  BY LenProperties
<1>2. \A i \in 1..Len(st) : i + 1 \in 1..Len(p) /\ p[i + 1] = st[i]
  BY <1>1
<1>3. \A i \in 1..Len(p) : i # 1 => i - 1 \in 1..Len(st) /\ p[i] = st[i - 1]
  BY <1>1
<1> QED
  BY <1>1, <1>2, <1>3 DEF Pushed

\* A return moves every other frame up by one.
LEMMA PopIndex ==
    ASSUME NEW st \in Seq(Frame), st # <<>>
    PROVE  Pushed(Head(st), Tail(st), st)
<1>1. /\ Len(st) = Len(Tail(st)) + 1 /\ Len(Tail(st)) \in Nat
      /\ st[1] = Head(st)
  BY HeadTailProperties, LenProperties
<1>2. \A i \in 1..Len(Tail(st)) : i + 1 \in 1..Len(st) /\ st[i + 1] = Tail(st)[i]
  BY <1>1, HeadTailProperties
<1>3. \A i \in 1..Len(st) : i # 1 => i - 1 \in 1..Len(Tail(st)) /\ st[i] = Tail(st)[i - 1]
  BY <1>1, HeadTailProperties
<1> QED
  BY <1>1, <1>2, <1>3 DEF Pushed

\* What one frame more or less changes in the descriptors of the stack.
LEMMA OneFrame ==
    ASSUME NEW f \in Frame, NEW st \in Seq(Frame), NEW p \in Seq(Frame), Pushed(f, st, p)
    PROVE  /\ StackSocks(p) = StackSocks(st) \cup ({f.sock} \ {NULL})
           /\ Tidy(p) <=> /\ Tidy(st)
                          /\ f.sock # NULL => /\ f.sock \notin StackSocks(st)
                                              /\ f.pc \in {"popup-socks", "popup-noproxy"}
           /\ Calm(p) <=> f.pc # "events" /\ Calm(st)
<1> USE DEF Pushed
<1>1. StackSocks(p) = StackSocks(st) \cup ({f.sock} \ {NULL})
  <2>1. \A d : d \in StackSocks(p) <=> \E i \in 1..Len(p) : p[i].sock = d /\ d # NULL
    BY DEF StackSocks
  <2>2. \A d : d \in StackSocks(st) <=> \E i \in 1..Len(st) : st[i].sock = d /\ d # NULL
    BY DEF StackSocks
  <2>3. ASSUME NEW d, d \in StackSocks(p) PROVE d \in StackSocks(st) \cup ({f.sock} \ {NULL})
    BY <2>1, <2>2, <2>3
  <2>4. ASSUME NEW d, d \in StackSocks(st) \cup ({f.sock} \ {NULL}) PROVE d \in StackSocks(p)
    BY <2>1, <2>2, <2>4, SMTT(30)
  <2> QED
    BY <2>3, <2>4
<1>2. ASSUME Tidy(p)
      PROVE  /\ Tidy(st)
             /\ f.sock # NULL => /\ f.sock \notin StackSocks(st)
                                 /\ f.pc \in {"popup-socks", "popup-noproxy"}
  <2>1. ASSUME NEW i \in 1..Len(st), NEW j \in 1..Len(st),
               st[i].sock # NULL, st[i].sock = st[j].sock
        PROVE  i = j
    <3>1. /\ i + 1 \in 1..Len(p) /\ p[i + 1] = st[i]
          /\ j + 1 \in 1..Len(p) /\ p[j + 1] = st[j]
      OBVIOUS
    <3>2. i + 1 = j + 1
      BY <1>2, <2>1, <3>1 DEF Tidy
    <3> QED
      BY <3>2
  <2>2. \A i \in 1..Len(st) :
          st[i].sock # NULL => st[i].pc \in {"popup-socks", "popup-noproxy"}
    <3>1. \A i \in 1..Len(p) : p[i].sock # NULL => p[i].pc \in {"popup-socks", "popup-noproxy"}
      BY <1>2 DEF Tidy
    <3>2. \A i \in 1..Len(st) : i + 1 \in 1..Len(p) /\ p[i + 1] = st[i]
      OBVIOUS
    <3> QED
      BY <3>1, <3>2
  <2>3. f.sock # NULL => f.pc \in {"popup-socks", "popup-noproxy"}
    BY <1>2 DEF Tidy
  <2>4. ASSUME f.sock # NULL, f.sock \in StackSocks(st) PROVE FALSE
    <3>1. PICK i \in 1..Len(st) : st[i].sock = f.sock
      BY <2>4 DEF StackSocks
    <3>2. i + 1 \in 1..Len(p) /\ p[i + 1].sock = p[1].sock /\ 1 \in 1..Len(p) /\ i + 1 # 1
      BY <3>1
    <3> QED
      BY <1>2, <2>4, <3>2 DEF Tidy
  <2> QED
    BY <2>1, <2>2, <2>3, <2>4 DEF Tidy
<1>3. ASSUME Tidy(st),
             f.sock # NULL => /\ f.sock \notin StackSocks(st)
                              /\ f.pc \in {"popup-socks", "popup-noproxy"}
      PROVE  Tidy(p)
  <2>1. \A i \in 1..Len(st) : st[i].sock # NULL => st[i].sock # f.sock
    BY <1>3 DEF StackSocks
  <2>2. ASSUME NEW i \in 1..Len(p), NEW j \in 1..Len(p),
               p[i].sock # NULL, p[i].sock = p[j].sock
        PROVE  i = j
    <3>1. CASE i = 1 /\ j = 1
      BY <3>1
    <3>2. CASE i = 1 /\ j # 1
      BY <2>1, <2>2, <3>2
    <3>3. CASE i # 1 /\ j = 1
      BY <2>1, <2>2, <3>3
    <3>4. CASE i # 1 /\ j # 1
      <4>1. i - 1 \in 1..Len(st) /\ j - 1 \in 1..Len(st) /\ i - 1 = j - 1
        BY <1>3, <2>2, <3>4, SMTT(30) DEF Tidy
      <4> QED
        BY <4>1
    <3> QED
      BY <3>1, <3>2, <3>3, <3>4
  <2>3. ASSUME NEW i \in 1..Len(p), p[i].sock # NULL
        PROVE  p[i].pc \in {"popup-socks", "popup-noproxy"}
    BY <1>3, <2>3 DEF Tidy
  <2> QED
    BY <2>2, <2>3 DEF Tidy
<1>4. Calm(p) <=> f.pc # "events" /\ Calm(st)
  <2>1. Calm(p) => f.pc # "events" /\ Calm(st)
    BY DEF Calm
  <2>2. f.pc # "events" /\ Calm(st) => Calm(p)
    BY DEF Calm
  <2> QED
    BY <2>1, <2>2
<1> QED
  BY <1>1, <1>2, <1>3, <1>4

\* Calling a function that owns no descriptor.
LEMMA QuietPush ==
    ASSUME NEW f \in Frame, NEW st \in Seq(Frame), f.sock = NULL, f.pc # "events"
    PROVE  Quiet(st, <<f>> \o st)
<1>1. <<f>> \o st \in Seq(Frame) /\ Pushed(f, st, <<f>> \o st)
  BY PushIndex, PushFrame
<1> DEFINE p == <<f>> \o st
<1> HIDE DEF p
<1>2. /\ StackSocks(p) = StackSocks(st)
      /\ Tidy(p) <=> Tidy(st)
      /\ Calm(p) <=> Calm(st)
  <2>1. p \in Seq(Frame) /\ Pushed(f, st, p)
    BY <1>1 DEF p
  <2>2. {f.sock} \ {NULL} = {}
    OBVIOUS
  <2>3. /\ StackSocks(p) = StackSocks(st) \cup ({f.sock} \ {NULL})
        /\ Tidy(p) <=> /\ Tidy(st)
                       /\ f.sock # NULL => /\ f.sock \notin StackSocks(st)
                                           /\ f.pc \in {"popup-socks", "popup-noproxy"}
        /\ Calm(p) <=> f.pc # "events" /\ Calm(st)
    BY <2>1, OneFrame
  <2>4. Tidy(p) <=> Tidy(st)
    BY <2>3
  <2> QED
    BY <2>2, <2>3, <2>4
<1> QED
  BY <1>2 DEF Quiet, p

\* Returning from one.
LEMMA QuietPop ==
    ASSUME NEW st \in Seq(Frame), st # <<>>,
           Head(st).pc \notin {"popup-socks", "popup-noproxy", "events"}
    PROVE  Quiet(st, Tail(st)) /\ (Tidy(st) => Head(st).sock = NULL)
<1>1. Head(st) \in Frame /\ Tail(st) \in Seq(Frame)
  BY TopFrame
<1>2. Tidy(st) => Tidy(Tail(st)) /\ Head(st).sock = NULL
  BY <1>1, PopIndex, OneFrame
<1>3. Tidy(st) => StackSocks(Tail(st)) = StackSocks(st)
  <2>1. StackSocks(st) = StackSocks(Tail(st)) \cup ({Head(st).sock} \ {NULL})
    BY <1>1, PopIndex, OneFrame
  <2> QED
    BY <1>2, <2>1
<1>4. Calm(Tail(st)) <=> Calm(st)
  BY <1>1, PopIndex, OneFrame
<1> QED
  BY <1>2, <1>3, <1>4 DEF Quiet

\* Two quiet changes are one.
LEMMA QuietTwice ==
    ASSUME NEW a, NEW b, NEW c, Quiet(a, b), Quiet(b, c)
    PROVE  Quiet(a, c)
BY DEF Quiet

\* Nothing is the quietest change.
LEMMA QuietSame ==
    ASSUME NEW a
    PROVE  Quiet(a, a)
BY DEF Quiet

\* The source of a callback in progress is removed: no frame changes its place, its
\* descriptor or its program counter.
LEMMA QuietUnblocked ==
    ASSUME NEW st \in Seq(Frame)
    PROVE  Quiet(st, Unblocked(st))
<1> DEFINE u == Unblocked(st)
<1>1. Len(u) = Len(st) /\ \A i \in 1..Len(st) : u[i].sock = st[i].sock /\ u[i].pc = st[i].pc
  <2>1. Len(u) = Len(st)
    BY UnblockedStack, LenProperties DEF Unblocked
  <2>2. ASSUME NEW i \in 1..Len(st) PROVE u[i].sock = st[i].sock /\ u[i].pc = st[i].pc
    <3>1. u[i] = IF st[i].pc = "login" THEN [st[i] EXCEPT !.ses = NULL] ELSE st[i]
      BY DEF Unblocked
    <3>2. st[i] \in Frame
      BY ElementOfSeq
    <3> QED
      BY <3>1, <3>2 DEF Frame
  <2> QED
    BY <2>1, <2>2
<1> HIDE DEF u
<1>2. Tidy(st) => Tidy(u)
  BY <1>1 DEF Tidy
<1>3. StackSocks(u) = StackSocks(st)
  BY <1>1 DEF StackSocks
<1>4. Calm(u) <=> Calm(st)
  BY <1>1 DEF Calm
<1> QED
  BY <1>2, <1>3, <1>4 DEF Quiet, u

-----------------------------------------------------------------------------
(* The invariant on ownership: the list names no session twice, and a        *)
(* descriptor is open exactly if one part of the program has to close it:    *)
(* the connect in progress, a listed session or a popup.                     *)

AttemptSock(d) == attempt # NULL /\ attempt.sock = d
SessionSock(d) == \E x \in Listed : ses[x].socket = d

\* A list that names no session twice.
Once(list) == \A i, j \in 1..Len(list) : list[i] = list[j] => i = j

Owners ==
    /\ Once(sessionlist)
    /\ Tidy(stack)
    /\ \A x, y \in Listed : ses[x].socket = ses[y].socket /\ ses[x].socket # NULL => x = y
    /\ \A d \in Sock : ~(AttemptSock(d) /\ SessionSock(d))
    /\ \A d \in StackSocks(stack) : ~AttemptSock(d) /\ ~SessionSock(d)
    /\ \A d \in Sock : d \in open <=> AttemptSock(d) \/ SessionSock(d) \/ d \in StackSocks(stack)

\* Unless a handler dialed while disconnect() drained the events: there is one source
\* at most, the one disconnect() removes, only while there is a link; and while a
\* disconnect() is in its loop there is none.
Single ==
    ~redialed =>
      /\ sources \subseteq {input_monitor}
      /\ sources # {} => connecting \/ connected
      /\ ~Calm(stack) => sources = {}

\* A source reads a listed session.
Watched == \E src \in sources : src.cond = "READ" /\ src.ses \in Listed

\* Without zombies there is one session at most, the one that is connected; it has
\* its descriptor and its decompressor; and it is read until a disconnect() begins.
Alone ==
    ~Zombies =>
      /\ connected <=> sessionlist # <<>>
      /\ Len(sessionlist) <= 1
      /\ \A x \in Listed : ses[x].zombi = "NOT" /\ ses[x].socket # NULL /\ ses[x].mccp
      /\ fault # "freed_mccp"
      /\ connected => ~Calm(stack) \/ Watched

WInv == IInv /\ Owners /\ Single /\ Alone

\* The invariant on ownership says what the two properties say.
LEMMA OwnersLemma ==
    ASSUME IInv, Owners
    PROVE  SocketsOwned /\ OneOwner
<1> USE DEF IInv
<1>1. stack \in Seq(Frame) /\ Listed \subseteq Ses /\ ses \in [Ses -> Session]
  BY ElementOfSeq DEF TypeOK, Listed
<1>2. \A i \in 1..Len(stack) : stack[i].sock \in Maybe(Sock)
  <2> TAKE i \in 1..Len(stack)
  <2>1. stack[i] \in Frame
    BY <1>1, ElementOfSeq
  <2> QED
    BY <2>1 DEF Frame
<1>3. \A x \in Listed : ses[x].socket \in Maybe(Sock)
  <2> TAKE x \in Listed
  <2>1. ses[x] \in Session
    BY <1>1
  <2> QED
    BY <2>1 DEF Session
<1>4. attempt # NULL => attempt.sock \in Sock
  BY DEF TypeOK, Attempt, Maybe
<1>5. \A d : d \in Owned \ {NULL} <=>
           d # NULL /\ (AttemptSock(d) \/ SessionSock(d) \/ d \in StackSocks(stack))
  BY DEF Owned, AttemptSock, SessionSock, StackSocks
<1>6. SocketsOwned
  <2>1. \A d : d \in Owned \ {NULL} => d \in Sock
    BY <1>2, <1>3, <1>4, <1>5 DEF AttemptSock, SessionSock, StackSocks, Maybe
  <2>2. open \subseteq Sock /\ NULL \notin Sock
    BY DEF TypeOK
  <2>3. \A d \in Sock : d \in open <=> d \in Owned \ {NULL}
    BY <1>5, <2>2 DEF Owners
  <2> QED
    BY <2>1, <2>2, <2>3 DEF SocketsOwned
<1>7. OneOwner
  <2>1. \A x \in Listed : attempt # NULL => attempt.sock # ses[x].socket
    BY <1>4 DEF Owners, AttemptSock, SessionSock
  <2>2. ASSUME NEW i \in 1..Len(stack), stack[i].sock # NULL
        PROVE  /\ attempt # NULL => attempt.sock # stack[i].sock
               /\ \A x \in Listed : ses[x].socket # stack[i].sock
               /\ \A j \in 1..Len(stack) : stack[j].sock = stack[i].sock => i = j
    <3>1. stack[i].sock \in StackSocks(stack)
      BY <2>2 DEF StackSocks
    <3>2. ~AttemptSock(stack[i].sock) /\ ~SessionSock(stack[i].sock)
      BY <3>1 DEF Owners
    <3>3. \A j \in 1..Len(stack) : stack[j].sock = stack[i].sock => i = j
      BY <2>2 DEF Owners, Tidy
    <3> QED
      BY <3>2, <3>3 DEF AttemptSock, SessionSock
  <2> QED
    BY <2>1, <2>2 DEF OneOwner, Owners
<1> QED
  BY <1>6, <1>7

-----------------------------------------------------------------------------
(* Steps that leave the link alone. *)

\* The descriptors, the sources and the list are as before, and the stack has
\* changed quietly.
Still ==
    /\ UNCHANGED <<connected, connecting, sessionlist, open, monitors>>
    /\ attempt' = NULL <=> attempt = NULL
    /\ attempt # NULL => attempt'.sock = attempt.sock
    /\ \A x \in Listed : ses'[x].socket = ses[x].socket
    /\ ~Zombies => ses' = ses
    /\ fault' = "freed_mccp" => fault = "freed_mccp" \/ Zombies
    /\ Quiet(stack, stack')

\* The property of Link: the step is one of its steps, or none.
Links == ~Zombies => [L!Next]_<<LinkPhase, LinkSock>>

\* Such a step keeps every part of the invariant and is no step of Link.
LEMMA StillLemma ==
    ASSUME WInv, Still
    PROVE  Owners' /\ Single' /\ Alone' /\ Links
<1> USE DEF Still, WInv
<1>1. Listed' = Listed
  BY DEF Listed
<1>2. /\ \A d : AttemptSock(d)' <=> AttemptSock(d)
      /\ \A d : SessionSock(d)' <=> SessionSock(d)
  BY <1>1 DEF AttemptSock, SessionSock
<1>3. Tidy(stack') /\ StackSocks(stack') = StackSocks(stack)
  BY DEF Quiet, Owners
<1>4. Owners'
  <2>1. Once(sessionlist')
    BY DEF Owners
  <2>2. \A x, y \in Listed' :
          ses'[x].socket = ses'[y].socket /\ ses'[x].socket # NULL => x = y
    BY <1>1 DEF Owners
  <2> QED
    BY <1>2, <1>3, <2>1, <2>2 DEF Owners
<1>5. Single'
  <2>1. UNCHANGED <<sources, input_monitor, redialed>>
    BY DEF monitors
  <2>2. Calm(stack') <=> Calm(stack)
    BY DEF Quiet
  <2> QED
    BY <2>1, <2>2 DEF Single
<1>6. Alone'
  <2> SUFFICES ASSUME ~Zombies PROVE Alone'
    BY DEF Alone
  <2>1. Watched' <=> Watched
    BY <1>1 DEF Watched, monitors
  <2>2. Calm(stack') <=> Calm(stack)
    BY DEF Quiet
  <2> QED
    BY <1>1, <2>1, <2>2 DEF Alone
<1>7. Links
  <2> SUFFICES ASSUME ~Zombies PROVE UNCHANGED <<LinkPhase, LinkSock>>
    BY DEF Links
  <2>1. connecting => attempt # NULL
    BY DEF IInv, OneLink
  <2> QED
    BY <2>1 DEF LinkPhase, LinkSock
<1> QED
  BY <1>4, <1>5, <1>6, <1>7

-----------------------------------------------------------------------------
(* Opening. *)

\* The stack p is st with the descriptor sock on it.
Handed(st, sock, p) ==
    /\ StackSocks(p) = StackSocks(st) \cup {sock}
    /\ Tidy(p)
    /\ Calm(p) <=> Calm(st)

\* A frame that has a descriptor of its own.
LEMMA SockFrame ==
    ASSUME NEW sock \in Sock, NEW f \in Frame, f.sock = sock,
           f.pc \in {"popup-socks", "popup-noproxy"},
           NEW st \in Seq(Frame), Tidy(st), sock \notin StackSocks(st)
    PROVE  Handed(st, sock, <<f>> \o st)
<1> DEFINE p == <<f>> \o st
<1>1. p \in Seq(Frame) /\ Pushed(f, st, p) /\ sock # NULL
  BY PushFrame, PushIndex
<1> HIDE DEF p
<1>2. StackSocks(p) = StackSocks(st) \cup ({f.sock} \ {NULL})
  BY <1>1, OneFrame
<1>3. Tidy(p)
  BY <1>1, OneFrame
<1>4. Calm(p) <=> Calm(st)
  <2>1. Calm(p) <=> f.pc # "events" /\ Calm(st)
    BY <1>1, OneFrame
  <2> QED
    BY <2>1
<1>5. StackSocks(p) = StackSocks(st) \cup {sock}
  BY <1>1, <1>2
<1> QED
  BY <1>3, <1>4, <1>5 DEF Handed, p

\* A popup whose caller will close a descriptor.
LEMMA SockPush ==
    ASSUME NEW sock \in Sock, NEW st \in Seq(Frame), Tidy(st), sock \notin StackSocks(st)
    PROVE  /\ Handed(st, sock, <<[Fr("popup-socks") EXCEPT !.sock = sock]>> \o st)
           /\ Handed(st, sock, <<[Fr("popup-noproxy") EXCEPT !.sock = sock]>> \o st)
<1> DEFINE f == [Fr("popup-socks") EXCEPT !.sock = sock]
           g == [Fr("popup-noproxy") EXCEPT !.sock = sock]
<1>1. /\ f \in Frame /\ f.sock = sock /\ f.pc = "popup-socks"
      /\ g \in Frame /\ g.sock = sock /\ g.pc = "popup-noproxy"
  BY FreshFrame DEF Maybe, Fr
<1> HIDE DEF f, g
<1>2. Handed(st, sock, <<f>> \o st)
  BY <1>1, SockFrame
<1>3. Handed(st, sock, <<g>> \o st)
  BY <1>1, SockFrame
<1> QED
  BY <1>2, <1>3 DEF f, g

\* A listed session is one the heap has.
LEMMA ListedSes ==
    ASSUME TypeOK
    PROVE  Listed \subseteq Ses
BY ElementOfSeq DEF TypeOK, Listed

\* A descriptor that belongs to the connect in progress, which ends now, or to no
\* part of the program yet; and there is no connection.
HandedOver(sock) ==
    /\ ~connected
    /\ ~SessionSock(sock) /\ sock \notin StackSocks(stack)
    /\ \A d : AttemptSock(d) => d = sock
    /\ attempt' = NULL /\ connecting' = FALSE
    /\ open' = open \cup {sock}

\* What a new session at the head of the list changes.
LEMMA NewSession ==
    ASSUME TypeOK, NEW s \in Ses \ Listed, NEW sock \in Sock, NEW h \in Host,
           sessionlist' = <<s>> \o sessionlist,
           ses' = [ses EXCEPT ![s] = [socket |-> sock, zombi |-> "NOT",
                                      host |-> h, mccp |-> TRUE]]
    PROVE  /\ Listed' = Listed \cup {s}
           /\ \A x \in Listed : ses'[x] = ses[x]
           /\ ses'[s] = [socket |-> sock, zombi |-> "NOT", host |-> h, mccp |-> TRUE]
           /\ sessionlist' # <<>> /\ Head(sessionlist') = s
           /\ Len(sessionlist') = Len(sessionlist) + 1
           /\ Once(sessionlist) => Once(sessionlist')
<1>1. sessionlist \in Seq(Ses) /\ Listed \subseteq Ses /\ ses \in [Ses -> Session]
  BY ListedSes DEF TypeOK
<1>2. /\ Len(sessionlist) \in Nat /\ Len(sessionlist') = Len(sessionlist) + 1
      /\ sessionlist'[1] = s
      /\ \A i \in 1..Len(sessionlist') : i # 1 =>
           i - 1 \in 1..Len(sessionlist) /\ sessionlist'[i] = sessionlist[i - 1]
      /\ \A i \in 1..Len(sessionlist) :
           i + 1 \in 1..Len(sessionlist') /\ sessionlist'[i + 1] = sessionlist[i]
  BY <1>1, LenProperties
<1>3. Listed' = Listed \cup {s}
  <2>1. ASSUME NEW x \in Listed' PROVE x \in Listed \cup {s}
    <3>1. PICK i \in 1..Len(sessionlist') : x = sessionlist'[i]
      BY DEF Listed
    <3>2. CASE i = 1
      BY <1>2, <3>1, <3>2
    <3>3. CASE i # 1
      BY <1>2, <3>1, <3>3 DEF Listed
    <3> QED
      BY <3>2, <3>3
  <2>2. ASSUME NEW x \in Listed PROVE x \in Listed'
    <3>1. PICK i \in 1..Len(sessionlist) : x = sessionlist[i]
      BY DEF Listed
    <3>2. i + 1 \in 1..Len(sessionlist') /\ sessionlist'[i + 1] = x
      BY <1>2, <3>1
    <3> QED
      BY <3>2 DEF Listed
  <2>3. s \in Listed'
    <3>1. 1 \in 1..Len(sessionlist')
      BY <1>2
    <3> QED
      BY <1>2, <3>1 DEF Listed
  <2> QED
    BY <2>1, <2>2, <2>3
<1>4. /\ \A x \in Listed : ses'[x] = ses[x]
      /\ ses'[s] = [socket |-> sock, zombi |-> "NOT", host |-> h, mccp |-> TRUE]
  BY <1>1
<1>5. sessionlist' # <<>> /\ Head(sessionlist') = s
  <2>1. sessionlist' \in Seq(Ses) /\ Len(sessionlist') # 0
    BY <1>1, <1>2
  <2> QED
    BY <1>2, <2>1, HeadTailProperties, EmptySeq
<1>6. ASSUME Once(sessionlist)
      PROVE  Once(sessionlist')
  <2>1. \A i \in 1..Len(sessionlist) : sessionlist[i] # s
    BY DEF Listed
  <2>2. ASSUME NEW i \in 1..Len(sessionlist'), NEW j \in 1..Len(sessionlist'),
               sessionlist'[i] = sessionlist'[j]
        PROVE  i = j
    <3>1. CASE i = 1 /\ j = 1
      BY <3>1
    <3>2. CASE i = 1 /\ j # 1
      BY <1>2, <2>1, <2>2, <3>2
    <3>3. CASE i # 1 /\ j = 1
      BY <1>2, <2>1, <2>2, <3>3
    <3>4. CASE i # 1 /\ j # 1
      <4>1. i - 1 \in 1..Len(sessionlist) /\ j - 1 \in 1..Len(sessionlist) /\ i - 1 = j - 1
        <5>1. i - 1 \in 1..Len(sessionlist) /\ j - 1 \in 1..Len(sessionlist)
          BY <1>2, <2>2, <3>4, SMTT(30)
        <5>2. sessionlist[i - 1] = sessionlist[j - 1]
          BY <1>2, <2>2, <3>4, <5>1, SMTT(30)
        <5> QED
          BY <1>6, <5>1, <5>2, SMTT(30) DEF Once
      <4> QED
        BY <4>1
    <3> QED
      BY <3>1, <3>2, <3>3, <3>4
  <2> QED
    BY <2>2 DEF Once
<1> QED
  BY <1>2, <1>3, <1>4, <1>5, <1>6

\* A disconnect() is in its loop exactly if its frame is on the stack.
LEMMA DrainingLemma ==
    Draining <=> ~Calm(stack)
BY DEF Draining, Calm

\* connection_part_two() (net.c): the descriptor becomes that of the new session, or
\* that of the popup which tells that the proxy refused.
LEMMA PartTwoOwners ==
    ASSUME WInv, NEW sock \in Sock, NEW h \in Host, NEW req, NEW kept,
           NEW st \in Seq(Frame), Quiet(stack, st),
           HandedOver(sock), PartTwo(sock, h, req, kept, st), UNCHANGED fault,
           ~redialed => kept = {}
    PROVE  Owners' /\ Single' /\ Alone'
<1> USE DEF WInv, HandedOver
<1>1. /\ Tidy(st) /\ StackSocks(st) = StackSocks(stack)
      /\ Calm(st) <=> Calm(stack)
  BY DEF Quiet, Owners
<1>2. \A d : ~AttemptSock(d)'
  BY DEF AttemptSock
<1>3. \A d \in Sock : d \in open' <=> d = sock \/ SessionSock(d) \/ d \in StackSocks(stack)
  BY DEF Owners, AttemptSock
<1>4. ~Zombies => sessionlist = <<>>
  BY DEF Alone
<1>5. ASSUME NEW s \in Ses \ Listed,
             connected' = TRUE,
             sessionlist' = <<s>> \o sessionlist,
             ses' = [ses EXCEPT ![s] = [socket |-> sock, zombi |-> "NOT",
                                        host |-> h, mccp |-> TRUE]],
             input_monitor' = [sock |-> sock, cond |-> "READ", ses |-> s],
             sources' = kept \cup {input_monitor'},
             redialed' = (redialed \/ Draining),
             stack' = st
      PROVE  Owners' /\ Single' /\ Alone'
  <2>1. /\ Listed' = Listed \cup {s}
        /\ \A x \in Listed : ses'[x] = ses[x]
        /\ ses'[s] = [socket |-> sock, zombi |-> "NOT", host |-> h, mccp |-> TRUE]
        /\ sessionlist' # <<>>
        /\ Len(sessionlist') = Len(sessionlist) + 1
        /\ Once(sessionlist')
    BY <1>5, NewSession DEF IInv, Owners
  <2>2. \A d : SessionSock(d)' <=> SessionSock(d) \/ d = sock
    BY <2>1 DEF SessionSock
  <2>3. Owners'
    <3>1. \A x, y \in Listed' :
            ses'[x].socket = ses'[y].socket /\ ses'[x].socket # NULL => x = y
      <4>1. \A x \in Listed : ses'[x].socket # ses'[s].socket
        BY <2>1 DEF SessionSock
      <4> QED
        BY <2>1, <4>1 DEF Owners
    <3>2. \A d \in StackSocks(stack') : ~SessionSock(d)'
      BY <1>1, <1>5, <2>2 DEF Owners
    <3> QED
      BY <1>1, <1>2, <1>3, <1>5, <2>1, <2>2, <3>1, <3>2 DEF Owners
  <2>4. Single'
    <3> SUFFICES ASSUME ~redialed' PROVE Single'
      BY DEF Single
    <3>1. ~redialed /\ Calm(stack')
      BY <1>1, <1>5, DrainingLemma
    <3>2. sources' = {input_monitor'} /\ connected'
      BY <1>5, <3>1
    <3> QED
      BY <3>1, <3>2 DEF Single
  <2>5. Alone'
    <3> SUFFICES ASSUME ~Zombies PROVE Alone'
      BY DEF Alone
    <3>1. Len(sessionlist') = 1 /\ Listed' = {s}
      BY <1>4, <2>1 DEF Listed
    <3>2. Watched'
      BY <1>5, <3>1 DEF Watched
    <3> QED
      BY <1>5, <2>1, <3>1, <3>2 DEF Alone
  <2> QED
    BY <2>3, <2>4, <2>5
<1>6. ASSUME sources' = kept,
             stack' = <<[Fr("popup-socks") EXCEPT !.sock = sock]>> \o st,
             UNCHANGED <<connected, input_monitor, redialed, sessions>>
      PROVE  Owners' /\ Single' /\ Alone'
  <2>3. /\ StackSocks(stack') = StackSocks(stack) \cup {sock}
        /\ Tidy(stack')
        /\ Calm(stack') <=> Calm(stack)
    <3>1. sock \notin StackSocks(st)
      BY <1>1
    <3>2. Handed(st, sock, <<[Fr("popup-socks") EXCEPT !.sock = sock]>> \o st)
      BY <1>1, <3>1, SockPush
    <3>3. Handed(st, sock, stack')
      BY <1>6, <3>2
    <3> QED
      BY <1>1, <3>3 DEF Handed
  <2>4. Listed' = Listed /\ ses' = ses /\ sessionlist' = sessionlist
    BY <1>6 DEF sessions, Listed
  <2>5. \A d : SessionSock(d)' <=> SessionSock(d)
    BY <2>4 DEF SessionSock
  <2>6. Owners'
    BY <1>2, <1>3, <2>3, <2>4, <2>5 DEF Owners
  <2>7. Single'
    <3>1. redialed' = redialed /\ (~redialed => sources' = {})
      BY <1>6
    <3> QED
      BY <3>1 DEF Single
  <2>8. Alone'
    BY <1>6, <2>4 DEF Alone
  <2> QED
    BY <2>6, <2>7, <2>8
<1> QED
  BY <1>5, <1>6 DEF PartTwo

\* After connection_part_two() the descriptor is that of the link, or there is none.
LEMMA PartTwoLink ==
    ASSUME IInv, NEW sock \in Sock, NEW h \in Host, NEW req, NEW kept, NEW st,
           PartTwo(sock, h, req, kept, st), ~connected, connecting' = FALSE
    PROVE  \/ LinkPhase' = "connected" /\ LinkSock' = sock
           \/ LinkPhase' = "idle" /\ LinkSock' = NULL
<1>1. ASSUME NEW s \in Ses \ Listed,
             connected' = TRUE,
             sessionlist' = <<s>> \o sessionlist,
             ses' = [ses EXCEPT ![s] = [socket |-> sock, zombi |-> "NOT",
                                        host |-> h, mccp |-> TRUE]]
      PROVE  LinkPhase' = "connected" /\ LinkSock' = sock
  <2>1. /\ ses'[s] = [socket |-> sock, zombi |-> "NOT", host |-> h, mccp |-> TRUE]
        /\ Head(sessionlist') = s
    BY <1>1, NewSession DEF IInv
  <2> QED
    BY <1>1, <2>1 DEF LinkPhase, LinkSock
<1>2. CASE connected' = connected
  BY <1>2 DEF LinkPhase, LinkSock
<1> QED
  BY <1>1, <1>2 DEF PartTwo

\* The background connect() of open_connection() (net.c) begins.
LEMMA BeginsDialing ==
    ASSUME WInv, MayDial, NEW h, NEW sock \in Sock \ open,
           NEW st \in Seq(Frame), Quiet(stack, st),
           open' = open \cup {sock},
           connecting' = TRUE,
           attempt' = [sock |-> sock, host |-> h, window |-> TRUE], attempt' # NULL,
           input_monitor' = [sock |-> sock, cond |-> "WRITE", ses |-> NULL],
           sources' = sources \cup {input_monitor'},
           redialed' = (redialed \/ Draining),
           stack' = st,
           UNCHANGED <<connected, sessions, fault>>
    PROVE  Owners' /\ Single' /\ Alone' /\ Links
<1> USE DEF WInv
<1>1. ~connecting /\ ~connected /\ attempt = NULL
  BY DEF MayDial, IInv, OneLink
<1>2. /\ Tidy(stack') /\ StackSocks(stack') = StackSocks(stack)
      /\ Calm(stack') <=> Calm(stack)
  BY DEF Quiet, Owners
<1>3. Listed' = Listed /\ ses' = ses /\ sessionlist' = sessionlist
  BY DEF sessions, Listed
<1>4. /\ \A d : SessionSock(d)' <=> SessionSock(d)
      /\ \A d : AttemptSock(d)' <=> d = sock
      /\ \A d : ~AttemptSock(d)
  BY <1>1, <1>3 DEF SessionSock, AttemptSock
<1>5. ~SessionSock(sock) /\ sock \notin StackSocks(stack)
  BY DEF Owners
<1>6. Owners'
  BY <1>2, <1>3, <1>4, <1>5 DEF Owners
<1>7. Single'
  <2> SUFFICES ASSUME ~redialed' PROVE Single'
    BY DEF Single
  <2>1. ~redialed /\ Calm(stack')
    BY <1>2, DrainingLemma
  <2>2. sources' = {input_monitor'}
    BY <1>1, <2>1 DEF Single
  <2> QED
    BY <2>1, <2>2 DEF Single
<1>8. Alone'
  BY <1>1, <1>3 DEF Alone
<1>9. LinkPhase = "idle" /\ LinkPhase' = "dialing" /\ LinkSock' = sock
  BY <1>1 DEF LinkPhase, LinkSock
<1> QED
  BY <1>6, <1>7, <1>8, <1>9 DEF Links, L!Next, L!Dial

\* The proxy is not found: a popup has the descriptor.
LEMMA NoProxy ==
    ASSUME WInv, NEW sock \in Sock \ open,
           NEW st \in Seq(Frame), Quiet(stack, st),
           open' = open \cup {sock},
           stack' = <<[Fr("popup-noproxy") EXCEPT !.sock = sock]>> \o st,
           UNCHANGED <<link, monitors, sessions, fault>>
    PROVE  Owners' /\ Single' /\ Alone' /\ Links
<1> USE DEF WInv
<1>1. ~SessionSock(sock) /\ ~AttemptSock(sock) /\ sock \notin StackSocks(stack)
  BY DEF Owners
<1>2. /\ Tidy(st) /\ StackSocks(st) = StackSocks(stack)
      /\ Calm(st) <=> Calm(stack)
  BY DEF Quiet, Owners
<1>3. /\ StackSocks(stack') = StackSocks(stack) \cup {sock}
      /\ Tidy(stack')
      /\ Calm(stack') <=> Calm(stack)
  <2>1. sock \notin StackSocks(st)
    BY <1>1, <1>2
  <2>2. Handed(st, sock, <<[Fr("popup-noproxy") EXCEPT !.sock = sock]>> \o st)
    BY <1>2, <2>1, SockPush
  <2>3. Handed(st, sock, stack')
    BY <2>2
  <2> QED
    BY <1>2, <2>3 DEF Handed
<1>4. Listed' = Listed /\ ses' = ses /\ sessionlist' = sessionlist
  BY DEF sessions, Listed
<1>5. /\ \A d : SessionSock(d)' <=> SessionSock(d)
      /\ \A d : AttemptSock(d)' <=> AttemptSock(d)
  BY <1>4 DEF SessionSock, AttemptSock, link
<1>6. Owners'
  BY <1>1, <1>3, <1>4, <1>5 DEF Owners
<1>7. Single'
  BY <1>3 DEF Single, monitors, link
<1>8. Alone'
  BY <1>3, <1>4 DEF Alone, Watched, monitors, link
<1>9. UNCHANGED <<LinkPhase, LinkSock>>
  BY <1>4 DEF LinkPhase, LinkSock, link
<1> QED
  BY <1>6, <1>7, <1>8, <1>9 DEF Links

\* A modal popup that closes no descriptor.
LEMMA PopupWhole ==
    ASSUME WInv, NEW st \in Seq(Frame), Quiet(stack, st), Popup(st), UNCHANGED fault
    PROVE  Owners' /\ Single' /\ Alone' /\ Links
<1>1. Fr("popup") \in Frame /\ Fr("popup").sock = NULL /\ Fr("popup").pc = "popup"
  BY FreshFrame DEF Maybe, Fr
<1>2. Quiet(stack, stack')
  BY <1>1, QuietPush, QuietTwice DEF Popup
<1>3. Still
  BY <1>2 DEF Popup, Still, link, monitors, sessions
<1> QED
  BY <1>3, StillLemma

\* make_connection() and open_connection() (net.c), whoever calls them.
LEMMA DialWhole ==
    ASSUME WInv, NEW h \in Host, NEW st \in Seq(Frame), Quiet(stack, st), Dial(h, st),
           UNCHANGED fault
    PROVE  Owners' /\ Single' /\ Alone' /\ Links
<1>1. CASE stack' = st /\ UNCHANGED <<link, monitors, sessions, open>>
  <2>1. Still
    BY <1>1 DEF Still, link, monitors, sessions
  <2> QED
    BY <2>1, StillLemma
<1>2. CASE Popup(st)
  BY <1>2, PopupWhole
<1>3. ASSUME MayDial, NEW sock \in Sock \ open, NEW req,
             open' = open \cup {sock},
             PartTwo(sock, h, req, sources, st),
             UNCHANGED <<connecting, attempt>>
      PROVE  Owners' /\ Single' /\ Alone' /\ Links
  <2>1. ~connecting /\ ~connected /\ attempt = NULL
    BY <1>3 DEF WInv, MayDial, IInv, OneLink
  <2>2. HandedOver(sock)
    BY <1>3, <2>1 DEF HandedOver, WInv, Owners, AttemptSock
  <2>3. ~redialed => sources = {}
    BY <2>1 DEF WInv, Single
  <2>4. Owners' /\ Single' /\ Alone'
    BY <1>3, <2>2, <2>3, PartTwoOwners
  <2>5. \/ LinkPhase' = "connected" /\ LinkSock' = sock
        \/ LinkPhase' = "idle" /\ LinkSock' = NULL
    <3>1. IInv /\ connecting' = FALSE
      BY <1>3, <2>1 DEF WInv
    <3> QED
      BY <1>3, <2>1, <3>1, PartTwoLink
  <2>6. LinkPhase = "idle" /\ LinkSock = NULL
    BY <2>1 DEF LinkPhase, LinkSock
  <2> QED
    BY <2>4, <2>5, <2>6 DEF Links, L!Next, L!Dial
<1>4. ASSUME MayDial, NEW sock \in Sock \ open, NEW useSocks \in BOOLEAN,
             Connect(sock, h, useSocks, st)
      PROVE  Owners' /\ Single' /\ Alone' /\ Links
  <2>1. CASE /\ open' = open \cup {sock}
             /\ stack' = <<[Fr("popup-noproxy") EXCEPT !.sock = sock]>> \o st
             /\ UNCHANGED <<link, monitors, sessions, conn>>
    BY <2>1, NoProxy
  <2>2. CASE stack' = st /\ UNCHANGED <<link, monitors, sessions, open>>
    BY <1>1, <2>2
  <2>3. CASE /\ open' = open \cup {sock}
             /\ connecting' = TRUE
             /\ attempt' = [sock |-> sock, host |-> h, window |-> TRUE]
             /\ input_monitor' = [sock |-> sock, cond |-> "WRITE", ses |-> NULL]
             /\ sources' = sources \cup {input_monitor'}
             /\ redialed' = (redialed \/ Draining)
             /\ stack' = st
             /\ UNCHANGED <<connected, sessions>>
    <3>1. attempt' \in Attempt
      BY <2>3 DEF Attempt
    <3>2. attempt' # NULL
      BY <3>1, AttemptNotNull
    <3> QED
      BY <1>4, <2>3, <3>2, BeginsDialing
  <2>4. CASE /\ open' = open \cup {sock}
             /\ PartTwo(sock, h, conn', sources, st)
             /\ UNCHANGED <<connecting, attempt>>
    BY <1>3, <1>4, <2>4
  <2> QED
    BY <1>4, <2>1, <2>2, <2>3, <2>4 DEF Connect
<1> QED
  BY <1>1, <1>2, <1>4 DEF Dial

\* disconnect() (net.c) up to its loop.
LEMMA BeginWhole ==
    ASSUME WInv, NEW st \in Seq(Frame), Quiet(stack, st), BeginDisconnect(st)
    PROVE  Owners' /\ Single' /\ Alone' /\ Links
<1> USE DEF WInv
<1> DEFINE u == Unblocked(st)
           f == Fr("events")
<1>1. u \in Seq(Frame) /\ Quiet(stack, u)
  BY UnblockedStack, QuietUnblocked, QuietTwice
<1>2. f \in Frame /\ f.sock = NULL /\ f.pc = "events"
  BY FreshFrame DEF Maybe, Fr
<1> HIDE DEF u, f
<1>3. stack' = <<f>> \o u /\ stack' \in Seq(Frame) /\ Pushed(f, u, stack')
  BY <1>1, <1>2, PushFrame, PushIndex DEF BeginDisconnect, u, f
<1>4. Tidy(u) /\ StackSocks(u) = StackSocks(stack) /\ (Calm(u) <=> Calm(stack))
  BY <1>1 DEF Quiet, Owners
<1>5. StackSocks(stack') = StackSocks(stack)
  <2>1. StackSocks(stack') = StackSocks(u) \cup ({f.sock} \ {NULL})
    BY <1>1, <1>2, <1>3, OneFrame
  <2> QED
    BY <1>2, <1>4, <2>1
<1>6. Tidy(stack')
  BY <1>1, <1>2, <1>3, <1>4, OneFrame
<1>7. ~Calm(stack')
  <2>1. Calm(stack') <=> f.pc # "events" /\ Calm(u)
    BY <1>1, <1>2, <1>3, OneFrame
  <2> QED
    BY <1>2, <2>1
<1>8. Listed' = Listed /\ ses' = ses /\ sessionlist' = sessionlist
  BY DEF BeginDisconnect, sessions, Listed
<1>9. /\ \A d : SessionSock(d)' <=> SessionSock(d)
      /\ \A d : AttemptSock(d)' <=> AttemptSock(d)
  BY <1>8 DEF SessionSock, AttemptSock, BeginDisconnect, link
<1>10. Owners'
  BY <1>5, <1>6, <1>8, <1>9 DEF Owners, BeginDisconnect
<1>11. Single'
  <2>1. redialed' = redialed /\ (~redialed => sources' = {})
    BY DEF BeginDisconnect, Unwatched, Single
  <2> QED
    BY <2>1 DEF Single
<1>12. Alone'
  BY <1>7, <1>8 DEF Alone, BeginDisconnect, link
<1>13. UNCHANGED <<LinkPhase, LinkSock>>
  BY <1>8 DEF LinkPhase, LinkSock, BeginDisconnect, link
<1> QED
  BY <1>10, <1>11, <1>12, <1>13 DEF Links

-----------------------------------------------------------------------------
(* The end of disconnect(). *)

\* The list without s has the other elements, once, and is shorter by one.
Dropped(list, s, rest) ==
    /\ Len(rest) = Len(list) - 1
    /\ Once(rest)
    /\ {rest[i] : i \in 1..Len(rest)} = {list[i] : i \in 1..Len(list)} \ {s}

\* Unlinking a session (tt/session.c, cleanup_nonzombi_session).
LEMMA WithoutDrops ==
    ASSUME NEW list \in Seq(Ses), Once(list), NEW s, \E i \in 1..Len(list) : list[i] = s
    PROVE  Dropped(list, s, Without(list, s))
<1> DEFINE i == CHOOSE i \in 1..Len(list) : list[i] = s
           rest == Without(list, s)
           front == SubSeq(list, 1, i - 1)
           back == SubSeq(list, i + 1, Len(list))
<1>1. i \in 1..Len(list) /\ list[i] = s /\ Len(list) \in Nat
  BY LenProperties
<1>2. rest = front \o back
  BY DEF Without
<1> HIDE DEF i
<1>3. /\ front \in Seq(Ses) /\ Len(front) = i - 1
      /\ \A j \in 1 .. i - 1 : front[j] = list[j]
  BY <1>1
<1>4. /\ back \in Seq(Ses) /\ Len(back) = Len(list) - i
      /\ \A j \in 1 .. Len(list) - i : back[j] = list[j + i]
  BY <1>1
<1> HIDE DEF front, back
<1>5. /\ Len(rest) = Len(list) - 1
      /\ \A j \in 1 .. i - 1 : rest[j] = list[j]
      /\ \A j \in i .. Len(list) - 1 : rest[j] = list[j + 1]
  <2>0. front \in Seq(Ses) /\ back \in Seq(Ses)
    BY <1>3, <1>4
  <2>1. /\ Len(front \o back) = Len(front) + Len(back)
        /\ \A j \in 1 .. Len(front) + Len(back) :
              (front \o back)[j] = IF j <= Len(front) THEN front[j] ELSE back[j - Len(front)]
    BY <2>0, ConcatProperties
  <2>2. Len(rest) = Len(list) - 1
    BY <1>1, <1>2, <1>3, <1>4, <2>1
  <2>3. \A j \in 1 .. i - 1 : rest[j] = list[j]
    BY <1>1, <1>2, <1>3, <2>1
  <2>4. ASSUME NEW j \in i .. Len(list) - 1 PROVE rest[j] = list[j + 1]
    <3>1. j \in Len(front) + 1 .. Len(front) + Len(back)
      BY <1>1, <1>3, <1>4
    <3>2. rest[j] = back[j - (i - 1)]
      BY <1>2, <1>3, <2>1, <3>1
    <3>3. j - (i - 1) \in 1 .. Len(list) - i /\ (j - (i - 1)) + i = j + 1
      BY <1>1
    <3> QED
      BY <1>4, <3>2, <3>3
  <2> QED
    BY <2>2, <2>3, <2>4
<1> HIDE DEF rest
<1>6. Once(rest)
  <2>1. ASSUME NEW j \in 1..Len(rest), NEW k \in 1..Len(rest), rest[j] = rest[k]
        PROVE  j = k
    <3>1. CASE j < i /\ k < i
      <4>1. j \in 1..Len(list) /\ k \in 1..Len(list) /\ list[j] = list[k]
        BY <1>1, <1>5, <2>1, <3>1
      <4> QED
        BY <4>1 DEF Once
    <3>2. CASE j < i /\ k >= i
      <4>1. j \in 1..Len(list) /\ k + 1 \in 1..Len(list) /\ list[j] = list[k + 1]
        BY <1>1, <1>5, <2>1, <3>2
      <4> QED
        BY <1>1, <3>2, <4>1 DEF Once
    <3>3. CASE j >= i /\ k < i
      <4>1. j + 1 \in 1..Len(list) /\ k \in 1..Len(list) /\ list[j + 1] = list[k]
        BY <1>1, <1>5, <2>1, <3>3
      <4> QED
        BY <1>1, <3>3, <4>1 DEF Once
    <3>4. CASE j >= i /\ k >= i
      <4>1. j + 1 \in 1..Len(list) /\ k + 1 \in 1..Len(list) /\ list[j + 1] = list[k + 1]
        BY <1>1, <1>5, <2>1, <3>4
      <4>2. j + 1 = k + 1
        BY <4>1 DEF Once
      <4> QED
        BY <4>2
    <3> QED
      BY <1>1, <3>1, <3>2, <3>3, <3>4
  <2> QED
    BY <2>1 DEF Once
<1>7. ASSUME NEW j \in 1..Len(rest)
      PROVE  \E k \in 1..Len(list) : list[k] = rest[j] /\ list[k] # s
  <2>1. CASE j < i
    <3>1. j \in 1..Len(list) /\ list[j] = rest[j] /\ j # i
      BY <1>1, <1>5, <2>1
    <3> QED
      BY <1>1, <3>1 DEF Once
  <2>2. CASE j >= i
    <3>1. j + 1 \in 1..Len(list) /\ list[j + 1] = rest[j] /\ j + 1 # i
      BY <1>1, <1>5, <2>2
    <3> QED
      BY <1>1, <3>1 DEF Once
  <2> QED
    BY <1>1, <2>1, <2>2
<1>8. ASSUME NEW k \in 1..Len(list), list[k] # s
      PROVE  \E j \in 1..Len(rest) : rest[j] = list[k]
  <2>1. CASE k < i
    <3>1. k \in 1..Len(rest) /\ rest[k] = list[k]
      BY <1>1, <1>5, <2>1
    <3> QED
      BY <3>1
  <2>2. CASE k > i
    <3>1. k - 1 \in 1..Len(rest) /\ rest[k - 1] = list[k]
      BY <1>1, <1>5, <2>2
    <3> QED
      BY <3>1
  <2> QED
    BY <1>1, <1>8, <2>1, <2>2
<1>9. {rest[j] : j \in 1..Len(rest)} = {list[k] : k \in 1..Len(list)} \ {s}
  <2>1. ASSUME NEW x, x \in {rest[j] : j \in 1..Len(rest)}
        PROVE  x \in {list[k] : k \in 1..Len(list)} \ {s}
    BY <1>7, <2>1
  <2>2. ASSUME NEW x, x \in {list[k] : k \in 1..Len(list)} \ {s}
        PROVE  x \in {rest[j] : j \in 1..Len(rest)}
    <3>1. PICK k \in 1..Len(list) : x = list[k] /\ list[k] # s
      BY <2>2
    <3> QED
      BY <1>8, <3>1
  <2> QED
    BY <2>1, <2>2
<1> QED
  BY <1>5, <1>6, <1>9 DEF Dropped, rest

\* disconnect() (net.c) after its loop: the session's descriptor is closed, and no
\* other part of the program had it.
LEMMA CleanupWhole ==
    ASSUME WInv, stack # <<>>, Head(stack).pc = "events", mud_active \in Listed,
           CleanupSession(mud_active)
    PROVE  Owners' /\ Single' /\ Alone' /\ Links
<1> USE DEF WInv
<1> DEFINE s == mud_active
<1>0. /\ s \in Ses /\ ses[s] \in Session /\ stack \in Seq(Frame) /\ sessionlist \in Seq(Ses)
      /\ ses \in [Ses -> Session] /\ Listed \subseteq Ses
  BY ListedSes DEF IInv, TypeOK
<1>1. Head(stack) \in Frame /\ Tail(stack) \in Seq(Frame) /\ Pushed(Head(stack), Tail(stack), stack)
  BY <1>0, TopFrame, PopIndex
<1>2. /\ Tidy(stack') /\ StackSocks(stack') = StackSocks(stack)
      /\ redialed' = redialed /\ (~redialed => sources' = {})
  <2>0. stack' = Tail(stack) /\ sources' = sources /\ redialed' = redialed
    BY DEF CleanupSession, monitors
  <2>1. Tidy(Tail(stack)) /\ Head(stack).sock = NULL
    BY <1>0, <1>1, OneFrame DEF Owners
  <2>2. StackSocks(stack) = StackSocks(Tail(stack)) \cup ({Head(stack).sock} \ {NULL})
    BY <1>0, <1>1, OneFrame
  <2>3. StackSocks(Tail(stack)) = StackSocks(stack)
    BY <2>1, <2>2
  <2>4. ASSUME ~redialed PROVE sources = {}
    <3>1. 1 \in 1..Len(stack) /\ stack[1].pc = "events"
      BY <1>0, <1>1 DEF Pushed
    <3> QED
      BY <2>4, <3>1 DEF Single, Calm
  <2> QED
    BY <2>0, <2>1, <2>3, <2>4
<1>3. /\ ses' = [ses EXCEPT ![s] = Cleaned(s)] /\ ses'[s].socket = NULL
      /\ \A x \in Ses \ {s} : ses'[x] = ses[x]
  <2>1. ses' = [ses EXCEPT ![s] = Cleaned(s)]
    BY DEF CleanupSession
  <2>2. Cleaned(s).socket = NULL
    BY <1>0 DEF Cleaned, Session
  <2> QED
    BY <1>0, <2>1, <2>2
<1>4. /\ Once(sessionlist') /\ Listed \ {s} \subseteq Listed' /\ Listed' \subseteq Listed
      /\ ses[s].zombi = "NOT" => /\ Len(sessionlist') = Len(sessionlist) - 1
                                 /\ Listed' = Listed \ {s}
  <2>1. sessionlist' = Unlinked(s)
    BY DEF CleanupSession
  <2>2. CASE ses[s].zombi = "NOT"
    <3>1. Dropped(sessionlist, s, sessionlist')
      BY <1>0, <2>1, <2>2, WithoutDrops DEF Unlinked, Owners, Listed
    <3> QED
      BY <3>1 DEF Dropped, Listed
  <2>3. CASE ses[s].zombi # "NOT"
    BY <2>1, <2>3 DEF Unlinked, Owners, Listed
  <2> QED
    BY <2>2, <2>3
<1>5. \A d \in Sock : SessionSock(d)' <=> SessionSock(d) /\ d # ses[s].socket
  <2> TAKE d \in Sock
  <2>1. ASSUME SessionSock(d)' PROVE SessionSock(d) /\ d # ses[s].socket
    <3>1. PICK x \in Listed' : ses'[x].socket = d
      BY <2>1 DEF SessionSock
    <3>2. x # s /\ x \in Listed /\ ses[x].socket = d
      BY <1>0, <1>3, <1>4, <3>1
    <3> QED
      BY <3>2 DEF SessionSock, Owners
  <2>2. ASSUME SessionSock(d), d # ses[s].socket PROVE SessionSock(d)'
    <3>1. PICK x \in Listed : ses[x].socket = d
      BY <2>2 DEF SessionSock
    <3>2. x # s /\ x \in Listed' /\ ses'[x].socket = d
      BY <1>0, <1>3, <1>4, <2>2, <3>1
    <3> QED
      BY <3>2 DEF SessionSock
  <2> QED
    BY <2>1, <2>2
<1>6. open' = open \ {ses[s].socket} /\ attempt' = attempt /\ \A d : AttemptSock(d)' <=> AttemptSock(d)
  BY DEF CleanupSession, Closed, AttemptSock
<1>7. Owners'
  <2>1. \A x, y \in Listed' :
          ses'[x].socket = ses'[y].socket /\ ses'[x].socket # NULL => x = y
    BY <1>0, <1>3, <1>4 DEF Owners
  <2>2. \A d \in Sock : ~(AttemptSock(d) /\ SessionSock(d))'
    BY <1>5, <1>6 DEF Owners
  <2>3. StackSocks(stack) \subseteq Sock
    <3> SUFFICES ASSUME NEW i \in 1..Len(stack), stack[i].sock # NULL PROVE stack[i].sock \in Sock
      BY DEF StackSocks
    <3>1. stack[i] \in Frame
      BY <1>0, ElementOfSeq
    <3> QED
      BY <3>1 DEF Frame, Maybe
  <2>4. \A d \in StackSocks(stack') : ~AttemptSock(d)' /\ ~SessionSock(d)'
    BY <1>2, <1>5, <1>6, <2>3 DEF Owners
  <2>5. \A d \in Sock : d = ses[s].socket =>
          SessionSock(d) /\ ~AttemptSock(d) /\ d \notin StackSocks(stack)
    BY DEF Owners, SessionSock
  <2>6. \A d \in Sock : d \in open' <=>
          AttemptSock(d)' \/ SessionSock(d)' \/ d \in StackSocks(stack')
    BY <1>2, <1>5, <1>6, <2>5 DEF Owners
  <2> QED
    BY <1>2, <1>4, <2>1, <2>2, <2>4, <2>6 DEF Owners
<1>8. Single'
  BY <1>2 DEF Single
<1>9. ~Zombies => sessionlist # <<>> /\ connected /\ ~connecting /\ sessionlist' = <<>>
  <2> SUFFICES ASSUME ~Zombies
               PROVE  sessionlist # <<>> /\ connected /\ ~connecting /\ sessionlist' = <<>>
    OBVIOUS
  <2>1. sessionlist # <<>> /\ Len(sessionlist) # 0 /\ Len(sessionlist) \in Nat
    BY <1>0, LenProperties, EmptySeq DEF Listed
  <2>2. connected /\ ~connecting
    BY <2>1 DEF Alone, IInv, OneLink
  <2>3. Len(sessionlist') = 0
    BY <1>4, <2>1 DEF Alone
  <2>4. sessionlist' \in Seq(Ses)
    <3>1. Without(sessionlist, s) \in Seq(Ses)
      BY <1>0, WithoutType DEF Listed
    <3> QED
      BY <1>0, <3>1 DEF CleanupSession, Unlinked
  <2> QED
    BY <2>1, <2>2, <2>3, <2>4, EmptySeq
<1>10. connected' = FALSE /\ connecting' = connecting /\ fault' = fault
  BY DEF CleanupSession
<1>11. Alone'
  <2> SUFFICES ASSUME ~Zombies PROVE Alone'
    BY DEF Alone
  <2>1. Len(sessionlist') <= 1 /\ Listed' = {}
    BY <1>9 DEF Listed
  <2> QED
    BY <1>9, <1>10, <2>1 DEF Alone
<1>12. Links
  <2> SUFFICES ASSUME ~Zombies PROVE L!HangUp
    BY DEF Links, L!Next
  <2>1. LinkPhase = "connected" /\ LinkPhase' = "idle" /\ LinkSock' = NULL
    BY <1>9, <1>10 DEF LinkPhase, LinkSock
  <2> QED
    BY <2>1 DEF L!HangUp
<1> QED
  BY <1>7, <1>8, <1>11, <1>12

-----------------------------------------------------------------------------
(* The end of a connect in progress, and of a popup. *)

\* A source that waits for the answer is a connect in progress, whose descriptor no
\* other part of the program has.
LEMMA InProgress ==
    ASSUME WInv, attempt # NULL
    PROVE  /\ connecting /\ ~connected /\ attempt.sock \in Sock /\ attempt.host \in Host
           /\ ~SessionSock(attempt.sock) /\ attempt.sock \notin StackSocks(stack)
           /\ attempt.sock \in open
           /\ ~redialed => Unwatched = {}
<1> USE DEF WInv
<1>1. connecting /\ ~connected
  BY DEF IInv, OneLink
<1>2. attempt.sock \in Sock /\ attempt.host \in Host
  BY DEF IInv, TypeOK, Attempt, Maybe
<1>3. AttemptSock(attempt.sock)
  BY DEF AttemptSock
<1>4. ~redialed => Unwatched = {}
  BY DEF Single, Unwatched
<1> QED
  BY <1>1, <1>2, <1>3, <1>4 DEF Owners

\* connection_cbk() (net.c): the descriptor goes from the attempt to the session or to
\* the popup.
LEMMA AnsweredWhole ==
    ASSUME WInv, Answered
    PROVE  Owners' /\ Single' /\ Alone' /\ Links
<1> USE DEF WInv
<1>1. attempt # NULL
  BY DEF Answered, IInv, OneLink
<1>2. /\ connecting /\ ~connected /\ attempt.sock \in Sock /\ attempt.host \in Host
      /\ ~SessionSock(attempt.sock) /\ attempt.sock \notin StackSocks(stack)
      /\ attempt.sock \in open
      /\ ~redialed => Unwatched = {}
  BY <1>1, InProgress
<1>3. HandedOver(attempt.sock)
  BY <1>2 DEF HandedOver, Answered, AttemptSock
<1>5. stack \in Seq(Frame) /\ Quiet(stack, stack)
  BY QuietSame DEF IInv, TypeOK
<1>6. /\ PartTwo(attempt.sock, attempt.host, conn, Unwatched, stack)
      /\ connecting' = FALSE /\ UNCHANGED fault
  BY DEF Answered
<1>7. Owners' /\ Single' /\ Alone'
  BY <1>2, <1>3, <1>5, <1>6, PartTwoOwners
<1>8. \/ LinkPhase' = "connected" /\ LinkSock' = attempt.sock
      \/ LinkPhase' = "idle" /\ LinkSock' = NULL
  BY <1>2, <1>6, PartTwoLink
<1>9. LinkPhase = "dialing" /\ LinkSock = attempt.sock
  BY <1>2 DEF LinkPhase, LinkSock
<1> QED
  BY <1>7, <1>8, <1>9 DEF Links, L!Next, L!Answer, L!HangUp

\* stop_connecting() (net.c): Cancel closes the descriptor of the attempt.
LEMMA StopWhole ==
    ASSUME WInv, StopConnecting
    PROVE  Owners' /\ Single' /\ Alone' /\ Links
<1> USE DEF WInv
<1>1. /\ connecting /\ ~connected /\ attempt.sock \in Sock
      /\ ~SessionSock(attempt.sock) /\ attempt.sock \notin StackSocks(stack)
      /\ ~redialed => Unwatched = {}
  BY InProgress DEF StopConnecting
<1>2. /\ connecting' = FALSE /\ attempt' = NULL /\ sources' = Unwatched
      /\ open' = open \ {attempt.sock}
      /\ UNCHANGED <<connected, sessions, stack, fault>>
  BY DEF StopConnecting
<1>3. Listed' = Listed /\ ses' = ses /\ sessionlist' = sessionlist
  BY <1>2 DEF sessions, Listed
<1>4. \A d : (SessionSock(d)' <=> SessionSock(d)) /\ ~AttemptSock(d)'
  BY <1>2, <1>3 DEF SessionSock, AttemptSock
<1>5. \A d : AttemptSock(d) <=> d = attempt.sock
  BY DEF AttemptSock, StopConnecting
<1>6. Owners'
  BY <1>1, <1>2, <1>3, <1>4, <1>5 DEF Owners
<1>7. Single'
  <2>1. redialed' = redialed /\ stack' = stack /\ (~redialed => sources' = {})
    BY <1>1, <1>2 DEF StopConnecting
  <2> QED
    BY <2>1 DEF Single
<1>8. Alone'
  BY <1>1, <1>2, <1>3 DEF Alone
<1>9. L!HangUp
  BY <1>1, <1>2 DEF L!HangUp, LinkPhase, LinkSock
<1> QED
  BY <1>6, <1>7, <1>8, <1>9 DEF Links, L!Next

\* The answer to a popup: what its caller does next closes the popup's descriptor.
LEMMA PopupOkWhole ==
    ASSUME WInv, PopupOk
    PROVE  Owners' /\ Single' /\ Alone' /\ Links
<1> USE DEF WInv
<1>1. /\ stack # <<>> /\ stack \in Seq(Frame) /\ stack' = Tail(stack)
      /\ Head(stack).pc \in {"popup", "popup-noproxy", "popup-socks"}
  BY DEF PopupOk, At, IInv, TypeOK
<1>2. Head(stack) \in Frame /\ Tail(stack) \in Seq(Frame) /\ Pushed(Head(stack), Tail(stack), stack)
  BY <1>1, TopFrame, PopIndex
<1> DEFINE f == Head(stack)
           d0 == f.sock
<1>3. /\ Tidy(stack') /\ (Calm(stack') <=> Calm(stack))
      /\ d0 # NULL => d0 \notin StackSocks(stack')
  <2>1. Tidy(stack) <=> /\ Tidy(Tail(stack))
                        /\ f.sock # NULL => /\ f.sock \notin StackSocks(Tail(stack))
                                            /\ f.pc \in {"popup-socks", "popup-noproxy"}
    BY <1>1, <1>2, OneFrame
  <2>2. Calm(stack) <=> f.pc # "events" /\ Calm(Tail(stack))
    BY <1>1, <1>2, OneFrame
  <2> QED
    BY <1>1, <2>1, <2>2 DEF Owners
<1>4. StackSocks(stack) = StackSocks(stack') \cup ({d0} \ {NULL})
  BY <1>1, <1>2, OneFrame
<1>5. UNCHANGED <<link, monitors, sessions, fault>> /\ open' \in {open, open \ {d0}}
  BY DEF PopupOk
<1>6. CASE d0 = NULL \/ open' = open
  <2>1. Still
    <3>1. d0 = NULL
      <4>1. ASSUME d0 # NULL PROVE f.pc \in {"popup-socks", "popup-noproxy"}
        BY <4>1, <1>1, <1>2, OneFrame DEF Owners
      <4>2. ASSUME d0 # NULL PROVE open' = open \ {d0} /\ d0 \in Sock /\ d0 \in open
        <5>1. open' = open \ {d0}
          BY <4>1, <4>2 DEF PopupOk, At
        <5>2. d0 \in Sock /\ d0 \in StackSocks(stack)
          BY <1>2, <1>4, <4>2 DEF Frame, Maybe
        <5> QED
          BY <5>1, <5>2 DEF Owners
      <4> QED
        BY <1>6, <4>2
    <3>2. StackSocks(stack) = StackSocks(stack')
      BY <1>4, <3>1
    <3>3. Quiet(stack, stack')
      BY <1>3, <3>2 DEF Quiet
    <3>4. open' = open
      BY <1>5, <3>1 DEF IInv, TypeOK
    <3> QED
      BY <1>5, <3>3, <3>4 DEF Still, link, monitors, sessions
  <2> QED
    BY <2>1, StillLemma
<1>7. CASE d0 # NULL /\ open' = open \ {d0}
  <2>1. Listed' = Listed /\ ses' = ses /\ sessionlist' = sessionlist
    BY <1>5 DEF sessions, Listed
  <2>2. \A d : (SessionSock(d)' <=> SessionSock(d)) /\ (AttemptSock(d)' <=> AttemptSock(d))
    BY <1>5, <2>1 DEF SessionSock, AttemptSock, link
  <2>3. d0 \in StackSocks(stack) /\ StackSocks(stack') = StackSocks(stack) \ {d0}
    BY <1>3, <1>4, <1>7
  <2>4. Owners'
    BY <1>3, <1>7, <2>1, <2>2, <2>3 DEF Owners
  <2>5. Single'
    BY <1>3, <1>5 DEF Single, monitors, link
  <2>6. Alone'
    BY <1>3, <1>5, <2>1 DEF Alone, Watched, monitors, link
  <2>7. UNCHANGED <<LinkPhase, LinkSock>>
    BY <1>5, <2>1 DEF LinkPhase, LinkSock, link
  <2> QED
    BY <2>4, <2>5, <2>6, <2>7 DEF Links
<1> QED
  BY <1>5, <1>6, <1>7

-----------------------------------------------------------------------------
(* Every action of Next. *)

\* One call more on a stack that has changed quietly.
LEMMA QuietCall ==
    ASSUME NEW a, NEW st \in Seq(Frame), Quiet(a, st),
           NEW f \in Frame, f.sock = NULL, f.pc # "events"
    PROVE  <<f>> \o st \in Seq(Frame) /\ Quiet(a, <<f>> \o st)
BY PushFrame, QuietPush, QuietTwice

\* The top frame goes on, with another session or where it returns.
LEMMA QuietTop ==
    ASSUME NEW st \in Seq(Frame), st # <<>>, NEW g \in Frame, g.sock = Head(st).sock,
           g.pc = Head(st).pc \/ (Head(st).pc = "command" /\ g.pc = "return")
    PROVE  <<g>> \o Tail(st) \in Seq(Frame) /\ Quiet(st, <<g>> \o Tail(st))
<1> DEFINE f == Head(st)
           t == Tail(st)
           p == <<g>> \o Tail(st)
<1>1. f \in Frame /\ t \in Seq(Frame) /\ Pushed(f, t, st)
  BY TopFrame, PopIndex
<1>2. p \in Seq(Frame) /\ Pushed(g, t, p)
  BY <1>1, PushFrame, PushIndex
<1>3. /\ StackSocks(st) = StackSocks(t) \cup ({f.sock} \ {NULL})
      /\ StackSocks(p) = StackSocks(t) \cup ({g.sock} \ {NULL})
  BY <1>1, <1>2, OneFrame
<1>4. /\ Tidy(st) <=> /\ Tidy(t)
                      /\ f.sock # NULL => /\ f.sock \notin StackSocks(t)
                                          /\ f.pc \in {"popup-socks", "popup-noproxy"}
      /\ Tidy(p) <=> /\ Tidy(t)
                     /\ g.sock # NULL => /\ g.sock \notin StackSocks(t)
                                         /\ g.pc \in {"popup-socks", "popup-noproxy"}
  BY <1>1, <1>2, OneFrame
<1>5. /\ Calm(st) <=> f.pc # "events" /\ Calm(t)
      /\ Calm(p) <=> g.pc # "events" /\ Calm(t)
  BY <1>1, <1>2, OneFrame
<1> HIDE DEF t, p
<1>6. StackSocks(p) = StackSocks(st)
  BY <1>3
<1>7. Tidy(st) => Tidy(p)
  BY <1>4
<1>8. Calm(p) <=> Calm(st)
  BY <1>5
<1> QED
  BY <1>2, <1>6, <1>7, <1>8 DEF Quiet, p, t

\* Where events are dispatched the stack is one.
LEMMA LoopTop ==
    ASSUME WInv
    PROVE  stack \in Seq(Frame) /\ Quiet(stack, stack)
BY QuietSame DEF WInv, IInv, TypeOK

\* The function that runs is not disconnect() in its loop.
LEMMA CodeTop ==
    ASSUME WInv, NEW pc, At(pc), pc \notin {"events", "popup-socks", "popup-noproxy"}
    PROVE  /\ stack # <<>> /\ stack \in Seq(Frame) /\ Quiet(stack, stack)
           /\ Caller \in Frame /\ Caller.pc = pc /\ Caller.sock = NULL
           /\ Below \in Seq(Frame) /\ Quiet(stack, Below)
<1>1. stack # <<>> /\ stack \in Seq(Frame) /\ Head(stack).pc = pc
  BY DEF At, WInv, IInv, TypeOK
<1>2. Tidy(stack)
  BY DEF WInv, Owners
<1> QED
  BY <1>1, <1>2, TopFrame, QuietPop, QuietSame DEF Caller, Below

\* A step that only calls or returns, quietly.
LEMMA StackStill ==
    ASSUME WInv, OnlyStack, Quiet(stack, stack')
    PROVE  Owners' /\ Single' /\ Alone' /\ Links
<1>1. Still
  BY DEF Still, OnlyStack, link, monitors, sessions
<1> QED
  BY <1>1, StillLemma

\* A memory error; the one of a second delete of the decompressor needs a zombie.
LEMMA CrashStill ==
    ASSUME WInv, NEW kind, Crash(kind), kind = "freed_mccp" => Zombies
    PROVE  Owners' /\ Single' /\ Alone' /\ Links
<1>1. Still
  BY QuietSame DEF Still, Crash, link, monitors, sessions
<1> QED
  BY <1>1, StillLemma DEF Crash

WholeStep == Owners' /\ Single' /\ Alone' /\ Links

\* The handlers that open a connection.
LEMMA OpeningWhole ==
    ASSUME WInv, Opening
    PROVE  WholeStep
<1> USE DEF WholeStep
<1>1. ASSUME NEW h \in Host, DoCon(h) PROVE WholeStep
  BY <1>1, LoopTop, DialWhole DEF DoCon
<1>2. ASSUME NEW h \in Host, OnWizOkClicked(h) PROVE WholeStep
  <2>1. stack \in Seq(Frame) /\ Quiet(stack, stack)
    BY <1>2, LoopTop DEF OnWizOkClicked
  <2>2. CASE Popup(stack)
    BY <1>2, <2>1, <2>2, PopupWhole DEF OnWizOkClicked
  <2>3. CASE Dial(h, <<[Fr("wizard") EXCEPT !.host = h]>> \o stack)
    <3> DEFINE f == [Fr("wizard") EXCEPT !.host = h]
    <3>0. f \in Frame
      BY FreshFrame DEF Maybe
    <3>1. f \in Frame /\ f.sock = NULL /\ f.pc = "wizard"
      BY <3>0 DEF Fr
    <3> HIDE DEF f
    <3>2. <<f>> \o stack \in Seq(Frame) /\ Quiet(stack, <<f>> \o stack)
      BY <2>1, <3>1, QuietCall
    <3>3. Dial(h, <<f>> \o stack) /\ UNCHANGED fault
      BY <1>2, <2>3 DEF f, OnWizOkClicked
    <3> QED
      BY <2>1, <3>2, <3>3, DialWhole
  <2> QED
    BY <1>2, <2>2, <2>3 DEF OnWizOkClicked
<1>3. CASE WizardChosen
  <2>1. Quiet(stack, Below)
    BY <1>3, CodeTop DEF WizardChosen
  <2>2. Still
    BY <1>3, <2>1 DEF WizardChosen, Still, Below, link, monitors, sessions
  <2> QED
    BY <2>1, <2>2, StillLemma
<1>4. CASE ConnectionCbk
  BY <1>4, AnsweredWhole, CrashStill DEF ConnectionCbk
<1>5. CASE StopConnecting
  BY <1>5, StopWhole
<1>6. CASE CloseWindow
  <2>2. attempt \in Attempt /\ attempt' \in Attempt /\ attempt'.sock = attempt.sock
    BY <1>6 DEF CloseWindow, WInv, IInv, TypeOK, Attempt, Maybe
  <2>3. attempt' # NULL /\ attempt # NULL
    BY <2>2, AttemptNotNull
  <2>4. Still
    BY <1>6, <2>2, <2>3, QuietSame DEF CloseWindow, Still, monitors, sessions
  <2> QED
    BY <2>4, StillLemma
<1>7. CASE PopupOk
  BY <1>7, PopupOkWhole
<1> QED
  BY <1>1, <1>2, <1>3, <1>4, <1>5, <1>6, <1>7 DEF Opening

\* The handlers that take a connection down.
LEMMA ClosingWhole ==
    ASSUME WInv, Closing
    PROVE  WholeStep
<1> USE DEF WholeStep
<1>1. CASE MenuDisconnect
  BY <1>1, LoopTop, BeginWhole DEF MenuDisconnect
<1>2. CASE Reconnect
  <2>1. stack \in Seq(Frame) /\ Quiet(stack, stack)
    BY <1>2, LoopTop DEF Reconnect
  <2>2. CASE Popup(stack) /\ UNCHANGED fault
    BY <2>1, <2>2, PopupWhole
  <2>3. CASE Crash("freed_session")
    BY <2>3, CrashStill
  <2>4. CASE /\ ~(~connected \/ mud_active = NULL)
             /\ BeginDisconnect(<<[Fr("reconnect") EXCEPT !.host = ses[mud_active].host]>>
                                  \o stack)
    <3> DEFINE f == [Fr("reconnect") EXCEPT !.host = ses[mud_active].host]
    <3>1. mud_active \in Ses /\ ses[mud_active].host \in Maybe(Host)
      BY <2>4 DEF WInv, IInv, TypeOK, Session, Maybe
    <3>0. f \in Frame
      BY <3>1, FreshFrame DEF Maybe
    <3>2. f \in Frame /\ f.sock = NULL /\ f.pc = "reconnect"
      BY <3>0 DEF Fr
    <3> HIDE DEF f
    <3>3. <<f>> \o stack \in Seq(Frame) /\ Quiet(stack, <<f>> \o stack)
      BY <2>1, <3>2, QuietCall
    <3>4. BeginDisconnect(<<f>> \o stack)
      BY <2>4 DEF f
    <3> QED
      BY <2>1, <3>3, <3>4, BeginWhole
  <2> QED
    BY <1>2, <2>2, <2>3, <2>4 DEF Reconnect
<1>3. CASE ReconnectDials
  <2>1. Tail(stack) \in Seq(Frame) /\ Quiet(stack, Tail(stack))
    BY <1>3, CodeTop DEF ReconnectDials, Below
  <2> QED
    BY <1>3, <2>1, DialWhole DEF ReconnectDials
<1>4. CASE AbortOk
  <2>1. Tail(stack) \in Seq(Frame) /\ Quiet(stack, Tail(stack))
    BY <1>4, CodeTop DEF AbortOk, Below
  <2> QED
    BY <1>4, <2>1, BeginWhole DEF AbortOk
<1>5. CASE DisconnectEnds
  <2>1. CASE Crash("null_session") \/ Crash("freed_session")
    BY <2>1, CrashStill
  <2>2. CASE mud_active \in Listed /\ ~ses[mud_active].mccp /\ Crash("freed_mccp")
    <3>1. Zombies
      BY <2>2 DEF WInv, Alone
    <3> QED
      BY <2>2, <3>1, CrashStill
  <2>3. CASE mud_active \in Listed /\ CleanupSession(mud_active)
    BY <1>5, <2>3, CleanupWhole DEF DisconnectEnds, At
  <2> QED
    BY <1>5, <2>1, <2>2, <2>3 DEF DisconnectEnds
<1> QED
  BY <1>1, <1>2, <1>3, <1>4, <1>5 DEF Closing

\* The frame of a command.
LEMMA CommandFrame ==
    ASSUME NEW s \in Maybe(Ses), NEW k \in BOOLEAN
    PROVE  /\ Command(s, k) \in Frame /\ Command(s, k).sock = NULL
           /\ Command(s, k).pc = "command"
<1>1. Command(s, k) \in Frame
  BY FreshFrame DEF Command, Maybe
<1>2. Command(s, k).sock = NULL /\ Command(s, k).pc = "command"
  BY DEF Command, Fr
<1> QED
  BY <1>1, <1>2

\* The frames of #zap and #session.
LEMMA PlainFrame ==
    /\ Fr("zap") \in Frame /\ Fr("zap").sock = NULL /\ Fr("zap").pc # "events"
    /\ Fr("session") \in Frame /\ Fr("session").sock = NULL /\ Fr("session").pc # "events"
<1>1. Fr("zap") \in Frame /\ Fr("session") \in Frame
  BY FreshFrame DEF Maybe
<1> QED
  BY <1>1 DEF Fr

\* The frames of read_from_connection(), and of a line that was sent.
LEMMA ReadFrame ==
    ASSUME NEW s \in Maybe(Ses)
    PROVE  /\ [Fr("read") EXCEPT !.ses = s] \in Frame
           /\ [Fr("read") EXCEPT !.ses = s].sock = NULL
           /\ [Fr("read") EXCEPT !.ses = s].pc = "read"
           /\ [Fr("login") EXCEPT !.ses = s] \in Frame
           /\ [Fr("login") EXCEPT !.ses = s].sock = NULL
           /\ [Fr("login") EXCEPT !.ses = s].pc = "login"
           /\ [Fr("written") EXCEPT !.ses = s] \in Frame
           /\ [Fr("written") EXCEPT !.ses = s].sock = NULL
           /\ [Fr("written") EXCEPT !.ses = s].pc = "written"
<1>1. /\ [Fr("read") EXCEPT !.ses = s] \in Frame
      /\ [Fr("login") EXCEPT !.ses = s] \in Frame
      /\ [Fr("written") EXCEPT !.ses = s] \in Frame
  BY FreshFrame DEF Maybe
<1> QED
  BY <1>1 DEF Fr

\* A message that is shown, on a stack that has changed quietly.
LEMMA QuietPuts ==
    ASSUME NEW pc \in {"puts", "zapping"}, NEW s \in Maybe(Ses), NEW a,
           NEW st \in Seq(Frame), Quiet(a, st)
    PROVE  Quiet(a, Puts(pc, s, st))
<1> DEFINE f == [Fr(pc) EXCEPT !.ses = s]
<1>1. f \in Frame
  BY FreshFrame DEF Maybe
<1>2. f.sock = NULL /\ f.pc # "events"
  BY DEF Fr
<1>3. Puts(pc, s, st) = <<f>> \o st
  BY DEF Puts
<1> HIDE DEF f
<1> QED
  BY <1>1, <1>2, <1>3, QuietCall

\* The commands that touch sessions, and the end of a line.
LEMMA CommandingWhole ==
    ASSUME WInv, Commanding
    PROVE  WholeStep
<1> USE DEF WholeStep
<1>1. ASSUME NEW b \in BOOLEAN, TypeLine(b) PROVE WholeStep
  <2>1. stack \in Seq(Frame) /\ Quiet(stack, stack)
    BY <1>1, LoopTop DEF TypeLine
  <2>2. mud_active \in Maybe(Ses)
    BY DEF WInv, IInv, TypeOK
  <2>3. /\ Command(mud_active, b) \in Frame /\ Command(mud_active, b).sock = NULL
        /\ Command(mud_active, b).pc = "command"
    BY <2>2, CommandFrame
  <2>4. stack' = <<Command(mud_active, b)>> \o stack /\ OnlyStack
    BY <1>1 DEF TypeLine
  <2>5. Quiet(stack, stack')
    BY <2>1, <2>3, <2>4, QuietCall
  <2> QED
    BY <2>1, <2>4, <2>5, StackStill
<1>2. ASSUME NEW b \in BOOLEAN, SendFails(b) PROVE WholeStep
  <2>1. /\ stack # <<>> /\ stack \in Seq(Frame) /\ Quiet(stack, stack)
        /\ Caller \in Frame /\ Caller.pc = "command" /\ Caller.sock = NULL
    BY <1>2, CodeTop DEF SendFails, Ready
  <2>2. Caller.ses \in Maybe(Ses)
    BY <2>1 DEF Frame
  <2> DEFINE g == [Caller EXCEPT !.pc = "return"]
             w == [Fr("written") EXCEPT !.ses = Caller.ses]
             f == Fr("popup-aborts")
  <2>3. g \in Frame /\ g.sock = Head(stack).sock /\ g.pc = "return" /\ Head(stack).pc = "command"
    BY <2>1 DEF Frame, Caller
  <2>4. w \in Frame /\ w.sock = NULL /\ w.pc = "written"
    BY <2>2, ReadFrame
  <2>5. f \in Frame /\ f.sock = NULL /\ f.pc = "popup-aborts"
    BY FreshFrame DEF Fr, Maybe
  <2>6. OnlyStack /\ (stack' = <<f>> \o (<<g>> \o Below) \/ stack' = <<f>> \o (<<w>> \o stack))
    BY <1>2 DEF SendFails
  <2> HIDE DEF g, w, f
  <2>7. <<g>> \o Below \in Seq(Frame) /\ Quiet(stack, <<g>> \o Below)
    BY <2>1, <2>3, QuietTop DEF Below
  <2>8. <<w>> \o stack \in Seq(Frame) /\ Quiet(stack, <<w>> \o stack)
    BY <2>1, <2>4, QuietCall
  <2>9. Quiet(stack, stack')
    BY <2>5, <2>6, <2>7, <2>8, QuietCall
  <2> QED
    BY <2>1, <2>6, <2>9, StackStill
<1>3. CASE CommandOnFreed
  BY <1>3, CrashStill DEF CommandOnFreed
<1>4. CASE CommandReturns
  <2>1. Quiet(stack, Below)
    BY <1>4, CodeTop DEF CommandReturns
  <2>2. Still
    BY <1>4, <2>1 DEF CommandReturns, Still, link, monitors
  <2> QED
    BY <2>1, <2>2, StillLemma
<1>5. CASE Written
  <2>1. Quiet(stack, Below)
    BY <1>5, CodeTop DEF Written
  <2> QED
    BY <1>5, <2>1, StackStill, CrashStill DEF Written
<1>6. CASE Shows \/ ZapCommand
  <2>1. stack \in Seq(Frame) /\ Quiet(stack, stack) /\ Caller \in Frame
    BY <1>6, CodeTop DEF Shows, ZapCommand, Ready
  <2>2. Caller.ses \in Maybe(Ses)
    BY <2>1 DEF Frame
  <2>3. Quiet(stack, stack')
    BY <1>6, <2>1, <2>2, QuietPuts DEF Shows, ZapCommand
  <2> QED
    BY <1>6, <2>3, StackStill DEF Shows, ZapCommand
<1>12. CASE PutsEnds
  <2>1. Quiet(stack, Below)
    BY <1>12, CodeTop DEF PutsEnds
  <2> QED
    BY <1>12, <2>1, StackStill DEF PutsEnds
<1>13. CASE ZapDisconnects
  <2>1. Below \in Seq(Frame) /\ Quiet(stack, Below)
    BY <1>13, CodeTop DEF ZapDisconnects
  <2>2. <<Fr("zap")>> \o Below \in Seq(Frame) /\ Quiet(stack, <<Fr("zap")>> \o Below)
    BY <2>1, PlainFrame, QuietCall
  <2> QED
    BY <1>13, <2>2, BeginWhole DEF ZapDisconnects
<1>7. CASE CommandGoesOn
  <2>1. Below \in Seq(Frame) /\ Quiet(stack, Below)
    BY <1>7, CodeTop DEF CommandGoesOn
  <2>2. Below # <<>> /\ Head(Below) \in Frame
    BY <1>7, <2>1, TopFrame DEF CommandGoesOn
  <2>3. activesession' \in Maybe(Ses)
    BY <1>7, NewActiveListed DEF CommandGoesOn, WInv, IInv, TypeOK
  <2> DEFINE g == [Head(Below) EXCEPT !.ses = activesession']
  <2>4. g \in Frame /\ g.sock = Head(Below).sock /\ g.pc = Head(Below).pc
    BY <2>2, <2>3 DEF Frame
  <2>5. stack' = <<g>> \o Tail(Below)
    BY <1>7 DEF CommandGoesOn
  <2> HIDE DEF g
  <2>6. Quiet(Below, stack')
    BY <2>1, <2>2, <2>4, <2>5, QuietTop
  <2>7. Quiet(stack, stack')
    BY <2>1, <2>6, QuietTwice
  <2>8. Still
    BY <1>7, <2>7 DEF CommandGoesOn, Still, link, monitors
  <2> QED
    BY <2>1, <2>8, StillLemma
<1>8. CASE ZombiCommand
  <2>2. \A x \in Listed : ses'[x].socket = ses[x].socket
    <3> TAKE x \in Listed
    <3>1. x \in Ses /\ ses \in [Ses -> Session] /\ ses[x] \in Session
      BY ListedSes DEF WInv, IInv, TypeOK
    <3>2. PICK z : ses' = [ses EXCEPT ![Caller.ses].zombi = z]
      BY <1>8 DEF ZombiCommand
    <3>3. ses'[x] = ses[x] \/ ses'[x] = [ses[x] EXCEPT !.zombi = z]
      BY <3>1, <3>2
    <3> QED
      BY <3>1, <3>3 DEF Session
  <2>3. Still
    BY <1>8, <2>2, QuietSame DEF ZombiCommand, Still, link, monitors
  <2> QED
    BY <2>3, StillLemma
<1>9. ASSUME NEW h \in Host, SessionCommand(h) PROVE WholeStep
  <2>1. stack \in Seq(Frame) /\ Quiet(stack, stack)
    BY <1>9, CodeTop DEF SessionCommand, Ready
  <2>2. <<Fr("session")>> \o stack \in Seq(Frame) /\ Quiet(stack, <<Fr("session")>> \o stack)
    BY <2>1, PlainFrame, QuietCall
  <2> QED
    BY <1>9, <2>1, <2>2, DialWhole DEF SessionCommand
<1>10. ASSUME NEW s \in Ses, SwitchSession(s) PROVE WholeStep
  <2>1. /\ stack # <<>> /\ stack \in Seq(Frame)
        /\ Caller \in Frame /\ Caller.sock = NULL
    BY <1>10, CodeTop DEF SwitchSession, Ready
  <2> DEFINE g == [Caller EXCEPT !.ses = s]
  <2>2. g \in Frame /\ g.sock = Head(stack).sock /\ g.pc = Head(stack).pc
    BY <2>1 DEF Frame, Caller, Maybe
  <2>3. Goes(s) = <<g>> \o Tail(stack)
    BY DEF Goes, Below
  <2> HIDE DEF g
  <2>6. Goes(s) \in Seq(Frame) /\ Quiet(stack, Goes(s))
    BY <2>1, <2>2, <2>3, QuietTop
  <2>4. Quiet(stack, stack')
    BY <1>10, <2>6, QuietPuts DEF SwitchSession, Maybe
  <2>5. Still
    BY <1>10, <2>4 DEF SwitchSession, Still, link, monitors
  <2> QED
    BY <2>1, <2>5, StillLemma
<1>11. ASSUME NEW s \in Ses, RunInSession(s) PROVE WholeStep
  <2>1. stack \in Seq(Frame) /\ Quiet(stack, stack)
    BY <1>11, CodeTop DEF RunInSession, Ready
  <2>2. <<Fr("session")>> \o stack \in Seq(Frame) /\ Quiet(stack, <<Fr("session")>> \o stack)
    BY <2>1, PlainFrame, QuietCall
  <2>3. /\ Command(s, FALSE) \in Frame /\ Command(s, FALSE).sock = NULL
        /\ Command(s, FALSE).pc = "command"
    BY CommandFrame DEF Maybe
  <2>4. Quiet(stack, stack')
    BY <1>11, <2>2, <2>3, QuietCall DEF RunInSession
  <2> QED
    BY <1>11, <2>1, <2>4, StackStill DEF RunInSession
<1> QED
  BY <1>1, <1>2, <1>3, <1>4, <1>5, <1>6, <1>7, <1>8, <1>9, <1>10, <1>11, <1>12, <1>13
     DEF Commanding

\* read_from_connection() and what its lines trigger.
LEMMA ReceivingWhole ==
    ASSUME WInv, Receiving
    PROVE  WholeStep
<1> USE DEF WholeStep
<1>1. CASE ReadFromConnection
  <2>1. stack \in Seq(Frame) /\ Quiet(stack, stack)
    BY <1>1, LoopTop DEF ReadFromConnection
  <2> PICK src \in sources :
         LET after == <<[Fr("login") EXCEPT !.ses = src.ses]>> \o stack IN
         \/ Crash("freed_session")
         \/ stack' = after /\ OnlyStack
         \/ stack' = <<[Fr("read") EXCEPT !.ses = src.ses]>> \o stack /\ OnlyStack
         \/ stack' = <<Fr("popup")>> \o after /\ OnlyStack
         \/ stack' = <<Fr("popup-aborts")>> \o after /\ OnlyStack
         \/ BeginDisconnect(after)
    BY <1>1 DEF ReadFromConnection
  <2> DEFINE l == [Fr("login") EXCEPT !.ses = src.ses]
             r == [Fr("read") EXCEPT !.ses = src.ses]
             f == Fr("popup-aborts")
             q == Fr("popup")
             after == <<l>> \o stack
  <2>2. src.ses \in Maybe(Ses)
    BY DEF WInv, IInv, TypeOK, Source
  <2>3. /\ l \in Frame /\ l.sock = NULL /\ l.pc = "login"
        /\ r \in Frame /\ r.sock = NULL /\ r.pc = "read"
    BY <2>2, ReadFrame
  <2>4. /\ f \in Frame /\ f.sock = NULL /\ f.pc = "popup-aborts"
        /\ q \in Frame /\ q.sock = NULL /\ q.pc = "popup"
    BY FreshFrame DEF Fr, Maybe
  <2>5. \/ Crash("freed_session")
        \/ stack' = after /\ OnlyStack
        \/ stack' = <<r>> \o stack /\ OnlyStack
        \/ stack' = <<f>> \o after /\ OnlyStack
        \/ stack' = <<q>> \o after /\ OnlyStack
        \/ BeginDisconnect(after)
    OBVIOUS
  <2> HIDE DEF l, r, f, q
  <2>6. after \in Seq(Frame) /\ Quiet(stack, after)
    BY <2>1, <2>3, QuietCall
  <2>7. Quiet(stack, <<r>> \o stack)
    BY <2>1, <2>3, QuietCall
  <2> HIDE DEF after
  <2>8. Quiet(stack, <<f>> \o after) /\ Quiet(stack, <<q>> \o after)
    BY <2>4, <2>6, QuietCall
  <2>9. CASE Crash("freed_session")
    BY <2>9, CrashStill
  <2>10. CASE OnlyStack /\ Quiet(stack, stack')
    BY <2>1, <2>10, StackStill
  <2>11. CASE BeginDisconnect(after)
    BY <2>1, <2>6, <2>11, BeginWhole
  <2> QED
    BY <2>5, <2>6, <2>7, <2>8, <2>9, <2>10, <2>11
<1>2. CASE TriggerFires
  <2>1. /\ stack \in Seq(Frame) /\ Quiet(stack, stack) /\ Caller \in Frame
    BY <1>2, CodeTop DEF TriggerFires, Lines
  <2>2. Caller.ses \in Maybe(Ses)
    BY <2>1 DEF Frame
  <2>3. /\ Command(Caller.ses, FALSE) \in Frame /\ Command(Caller.ses, FALSE).sock = NULL
        /\ Command(Caller.ses, FALSE).pc = "command"
    BY <2>2, CommandFrame
  <2>4. Quiet(stack, stack')
    BY <1>2, <2>1, <2>3, QuietCall DEF TriggerFires
  <2> QED
    BY <1>2, <2>1, <2>4, StackStill DEF TriggerFires
<1>3. CASE LineOnFreed
  BY <1>3, CrashStill DEF LineOnFreed
<1>4. CASE Autologin
  <2>1. Quiet(stack, Below)
    BY <1>4, CodeTop DEF Autologin
  <2>2. CASE Crash("freed_session")
    BY <2>2, CrashStill
  <2>3. CASE /\ stack' = Below
             /\ UNCHANGED <<link, monitors, sessions, conn, open, fault>>
    <3>1. Still
      BY <2>1, <2>3 DEF Still, link, monitors, sessions
    <3> QED
      BY <2>1, <3>1, StillLemma
  <2> QED
    BY <1>4, <2>2, <2>3 DEF Autologin
<1> QED
  BY <1>1, <1>2, <1>3, <1>4 DEF Receiving

-----------------------------------------------------------------------------
\* Every step keeps what the invariant says, and is a step of Link or none.
LEMMA NextWhole ==
    ASSUME WInv, [Next]_vars
    PROVE  WholeStep
<1>1. CASE UNCHANGED vars
  <2>1. Still
    BY <1>1, QuietSame DEF vars, Still, link, monitors, sessions
  <2> QED
    BY <2>1, StillLemma DEF WholeStep
<1> QED
  BY <1>1, OpeningWhole, ClosingWhole, CommandingWhole, ReceivingWhole DEF Next, Crashed

\* The program starts without a connection.
LEMMA InitWhole ==
    ASSUME Init
    PROVE  Owners /\ Single /\ Alone /\ L!Init
<1>1. /\ stack = <<>> /\ sessionlist = <<>> /\ attempt = NULL /\ sources = {} /\ open = {}
      /\ ~connected /\ ~connecting /\ fault = "none"
  BY DEF Init
<1>2. Tidy(stack) /\ Calm(stack) /\ StackSocks(stack) = {} /\ Listed = {} /\ Once(sessionlist)
  BY <1>1 DEF Tidy, Calm, StackSocks, Listed, Once
<1>3. Owners
  BY <1>1, <1>2 DEF Owners, AttemptSock, SessionSock
<1>4. Single
  BY <1>1, <1>2 DEF Single, OneSource
<1>5. Alone
  BY <1>1, <1>2 DEF Alone
<1>6. L!Init
  BY <1>1 DEF L!Init, LinkPhase, LinkSock
<1> QED
  BY <1>3, <1>4, <1>5, <1>6

\* Who owns which descriptor, which source is installed and, without zombies, which
\* session there is: what nested handlers keep true between them.
THEOREM WholeInductive == Spec => []WInv
<1>1. Init => Owners /\ Single /\ Alone
  BY InitWhole
<1>2. IInv /\ IInv' /\ (Owners /\ Single /\ Alone) /\ [Next]_vars
        => (Owners /\ Single /\ Alone)'
  BY NextWhole DEF WInv, WholeStep
<1>3. WInv <=> IInv /\ Owners /\ Single /\ Alone
  BY DEF WInv
<1> QED
  BY <1>1, <1>2, <1>3, Inductive, PTL DEF Spec

\* No descriptor leaks, and none is closed while in use, however handlers nest, with
\* zombies and with events in disconnect()'s loop too (net.c, tt/session.c).
THEOREM NoSocketLeaks == Spec => []SocketsOwned
<1>1. WInv => SocketsOwned
  BY OwnersLemma DEF WInv
<1> QED
  BY <1>1, WholeInductive, PTL

\* No two parts of the program would close the same descriptor.
THEOREM NoSocketShared == Spec => []OneOwner
<1>1. WInv => OneOwner
  BY OwnersLemma DEF WInv
<1> QED
  BY <1>1, WholeInductive, PTL

\* One input source at most, that which disconnect() removes, however handlers nest in
\* popups, in commands and in the loop of disconnect(), until one of them dials while
\* that loop drains the events (net.c, disconnect, connection_part_two).
THEOREM SourceIsSingle == Spec => []OneSource
<1>1. WInv => OneSource
  BY DEF WInv, Single, OneSource
<1> QED
  BY <1>1, WholeInductive, PTL

\* Without zombies the connected flag tells whether there is a session, and between
\* handlers that session is read.
THEOREM ConnectedReads ==
    ASSUME ~Zombies
    PROVE  Spec => []ConnectedIsRead
<1>1. WInv => ConnectedIsRead
  BY DEF WInv, Alone, ConnectedIsRead, Calm, Watched
<1> QED
  BY <1>1, WholeInductive, PTL

\* Without zombies no second disconnect deletes a decompressor again (tt/session.c,
\* cleanup_session).
THEOREM DeletedOnce ==
    ASSUME ~Zombies
    PROVE  Spec => [](fault # "freed_mccp")
<1>1. WInv => fault # "freed_mccp"
  BY DEF WInv, Alone
<1> QED
  BY <1>1, WholeInductive, PTL

\* Without zombies the code of net.c and tt/session.c is one link: idle, dialing or
\* connected, with one descriptor from the first connect() to the last close().
THEOREM CodeIsALink ==
    ASSUME ~Zombies
    PROVE  Spec => ImplementsLink
<1>1. Init => L!Init
  BY InitWhole
<1>2. WInv /\ [Next]_vars => [L!Next]_<<LinkPhase, LinkSock>>
  BY NextWhole DEF WholeStep, Links
<1> QED
  BY <1>1, <1>2, WholeInductive, PTL DEF Spec, ImplementsLink, L!Spec
=============================================================================
