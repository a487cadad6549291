------------------------------ MODULE History -----------------------------
(***************************************************************************)
(* The input history (history.c): a ring of `max` slots that grows to its  *)
(* size, one of which, list[pos], holds the line being typed while the     *)
(* user browses.  The keys of the entry, the lines sent from it, and the   *)
(* mud's ECHO option, which hides the input (window.c).                    *)
(*                                                                         *)
(* Abstracted: a line is a member of Line.  The nested loops a command may *)
(* run are in Connection; here the text sent is the text remembered.       *)
(***************************************************************************)
EXTENDS Integers, Sequences

CONSTANTS
    Line,       \* what the entry may hold
    EMPTY,      \* its empty text
    NULL,       \* a slot never used
    max         \* mud->hist->max

ASSUME HistoryAssumption ==
    EMPTY \in Line /\ NULL \notin Line /\ max \in Nat \ {0, 1}

VARIABLES
    list, size, pos, cur,   \* struct ggmud_history
    ent,                    \* the text of the entry
    hide_input,
    sent        \* ghost: the last line sent while not hidden

hist == <<list, size, pos, cur>>
vars == <<hist, ent, hide_input, sent>>

-----------------------------------------------------------------------------
(* Adding a line *)

Slot == 0..max - 1

Grown == IF size < max THEN size + 1 ELSE size

Advanced == (pos + 1) % Grown

\* The first slot has no predecessor for this test, though it has one in the
\* ring once that went round.
Repeats(x) == pos > 0 /\ list[pos - 1] = x

\* The text given, and the browser back at rest; none of both if the line is
\* hidden or repeats the last one.
hist_add(x) ==
    IF hide_input \/ Repeats(x) THEN UNCHANGED hist
    ELSE /\ list' = [list EXCEPT ![pos] = x]
         /\ size' = Grown
         /\ pos' = Advanced
         /\ cur' = Advanced

-----------------------------------------------------------------------------
(* Browsing *)

Stored == [list EXCEPT ![cur] = ent]

\* Mutant: the browser goes round the ring.
MutantGoesRound == FALSE
AtOldest == (pos + 1) % size = cur

hist_prev ==
    IF AtOldest THEN UNCHANGED <<hist, ent>>
    ELSE /\ list' = Stored
         /\ cur' = IF cur = 0 THEN size - 1 ELSE cur - 1
         /\ ent' = Stored[cur']
         /\ UNCHANGED <<size, pos>>

hist_next ==
    IF cur = pos THEN ent' = EMPTY /\ UNCHANGED hist
    ELSE /\ list' = Stored
         /\ cur' = (cur + 1) % size
         /\ ent' = Stored[cur']
         /\ UNCHANGED <<size, pos>>

-----------------------------------------------------------------------------
(* Events *)

\* main() adds an empty line before anything is typed.
Init ==
    /\ list = [i \in Slot |-> IF i = 0 THEN EMPTY ELSE NULL]
    /\ size = 1 /\ pos = 0 /\ cur = 0
    /\ ent = EMPTY /\ hide_input = FALSE /\ sent = EMPTY

\* Keys that edit the entry, Escape and completion among them.
Type == ent' \in Line /\ UNCHANGED <<hist, hide_input, sent>>

\* hist_evt()
Up == hist_prev /\ UNCHANGED <<hide_input, sent>>
Down == hist_next /\ UNCHANGED <<hide_input, sent>>

\* send_to_connection(): the text stays, selected, if the preference says so
\* and it is not hidden.
SendToConnection ==
    /\ hist_add(ent)
    /\ ent' \in IF hide_input THEN {EMPTY} ELSE {ent, EMPTY}
    /\ sent' = IF hide_input THEN sent ELSE ent
    /\ UNCHANGED hide_input

Newest == IF pos = 0 THEN size - 1 ELSE pos - 1

\* A text that is still the newest line is taken out of the entry when the
\* input is hidden or shown again.
input_line_visible(state) ==
    /\ ent' = IF state = hide_input /\ ent = list[Newest] THEN EMPTY ELSE ent
    /\ hide_input' = ~state
    /\ UNCHANGED <<hist, sent>>

Next ==
    \/ Type
    \/ Up
    \/ Down
    \/ SendToConnection
    \/ \E state \in BOOLEAN : input_line_visible(state)

Spec == Init /\ [][Next]_vars

-----------------------------------------------------------------------------
(* Properties *)

\* The indices stay inside the ring, what the entry is given and what the
\* newest line is compared with are never null.
TypeOK ==
    /\ list \in [Slot -> Line \cup {NULL}]
    /\ size \in 1..max /\ pos \in 0..size - 1 /\ cur \in 0..size - 1
    /\ ent \in Line /\ sent \in Line /\ hide_input \in BOOLEAN
    /\ list[Newest] # NULL

\* The lines the user can go back to, oldest first.
Lines == [i \in 1..size - 1 |-> list[(pos + i) % size]]
Back == (pos - cur + size) % size

TheRecall == INSTANCE Recall
    WITH Remembered <- max - 1, lines <- Lines, back <- Back,
         typed <- IF Back = 0 THEN EMPTY ELSE list[pos], entry <- ent

\* The ring with its moving slot is a plain list of the last max - 1 lines: Up
\* goes through them in order and stops at the oldest, Down comes back to what
\* was being typed, a line sent is the newest, one sent hidden is not there,
\* and the slot the ring reuses is never one of the lines.
ImplementsRecall == TheRecall!Spec
=============================================================================
