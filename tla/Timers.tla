------------------------------ MODULE Timers ------------------------------
(***************************************************************************)
(* The #timer list and the tick counter (timers.c, tt/ticks.c).  Twice a   *)
(* second checktick() walks the list and then counts the seconds to the    *)
(* tick.  Each message it shows passes through do_one_line(), whose        *)
(* triggers run commands that may change what the walk stands on, so a     *)
(* pass is split in steps where commands can run.  GLib does not call      *)
(* checktick() again before it returns.                                    *)
(*                                                                         *)
(* Abstracted: a list cell goes with its timer; the clock is in whole      *)
(* seconds; the label of the counter, the blinking text and the cursor     *)
(* workaround are left out.                                                *)
(***************************************************************************)
EXTENDS Integers, Sequences, SequencesExt

CONSTANTS
    Timer,          \* addresses malloc can give a timer
    Name,           \* the names given to timers
    Lengths,        \* the periods asked for, in seconds
    Sizes,          \* the tick sizes asked for
    Late,           \* the seconds from one pass to the next, at most
    MaxTime,        \* bound: the clock stops there
    MaxCommands,    \* bound: how many commands are given
    NULL

ASSUME TimersAssumption ==
    /\ NULL \notin Timer \cup Name
    /\ Lengths \subseteq 1..7200 /\ Sizes \subseteq 1..1000
    /\ Late \in Nat \ {0}
    /\ MaxTime \in Nat /\ MaxCommands \in Nat

VARIABLES
    time,           \* time(NULL)
    timers, data,   \* mud->timers, and the timerdata at each address
    session,        \* whether there is a mud->activesession
    tickstatus,     \* its tickstatus
    time0, tick_size, use_tickcounter,
    pc,             \* where checktick() is, or "idle"
    now, next, this,    \* its locals: now, l, and d while its message is shown
    last,           \* its static: the last second counted, or -1
    told,           \* of each timer: when it began, how often it was announced, and
                    \* whether a pass may have lost its way while it was listed
    cut,            \* the timers stopped while this pass was on
    commands,       \* how many commands were given
    fault

list == <<timers, data, told>>
counter == <<tickstatus, time0, tick_size>>
user == <<session, use_tickcounter>>
locals == <<now, next, this, last>>
walk == <<pc, locals, cut>>
vars == <<time, list, counter, user, walk, commands, fault>>

Maybe(S) == S \cup {NULL}
Points == {"idle", "asks", "walk", "warns", "expires", "tick", "ticks"}
Faults == {"none", "freed_cell", "freed_timer", "double_free", "null_session"}

TypeOK ==
    /\ time \in Nat /\ now \in Nat /\ commands \in Nat
    /\ timers \in Seq(Timer)
    /\ data \in [Timer -> [string : Maybe(Name), finish : Nat, last : Nat]]
    /\ told \in [Timer -> [since : Nat, warnings : Nat, astray : BOOLEAN]]
    /\ session \in BOOLEAN /\ tickstatus \in BOOLEAN /\ use_tickcounter \in BOOLEAN
    /\ time0 \in Nat \cup {-1} /\ tick_size \in Nat \ {0}
    /\ pc \in Points /\ next \in Maybe(Timer) /\ this \in Maybe(Timer)
    /\ last \in Int /\ -1 <= last /\ last <= now + 1
    /\ cut \subseteq Timer
    /\ fault \in Faults

Init ==
    /\ time = 1 /\ now = 0 /\ commands = 0
    /\ timers = <<>>
    /\ data = [d \in Timer |-> [string |-> NULL, finish |-> 0, last |-> 0]]
    /\ told = [d \in Timer |-> [since |-> 0, warnings |-> 0, astray |-> FALSE]]
    /\ session \in BOOLEAN /\ tickstatus = FALSE
    /\ use_tickcounter \in BOOLEAN
    /\ time0 = -1 /\ tick_size = 75
    /\ pc = "idle" /\ next = NULL /\ this = NULL /\ last = -1
    /\ cut = {}
    /\ fault = "none"

-----------------------------------------------------------------------------
(* What runs between and under the passes. *)

Listed == ToSet(timers)
Place(d) == CHOOSE i \in DOMAIN timers : timers[i] = d
Without(d) == RemoveAt(timers, Place(d))

\* The main loop is late by Late seconds at most.
Clock ==
    /\ fault = "none" /\ time < MaxTime /\ time - now < Late
    /\ time' = time + 1
    /\ UNCHANGED <<list, counter, user, walk, commands, fault>>

\* Commands run from the main loop, from the dialog or the Lua function a pass
\* begins with, or from a trigger on one of its messages.
Open == fault = "none" /\ pc \in {"idle", "asks", "warns", "expires", "ticks"}

Given ==
    /\ Open /\ commands < MaxCommands
    /\ commands' = commands + 1
    /\ UNCHANGED <<time, user, pc, locals, fault>>

do_timer(name, length) ==
    /\ Given
    /\ \E d \in Timer \ Listed :
         /\ timers' = Append(timers, d)
         /\ data' = [data EXCEPT ![d] = [string |-> name, finish |-> time + length,
                                         last |-> 0]]
         /\ told' = [told EXCEPT ![d] = [since |-> time, warnings |-> 0,
                                         astray |-> FALSE]]
    /\ UNCHANGED <<counter, cut>>

\* The first timer of that name, if there is one.
get_timer_by_name(name) ==
    {d \in Listed : /\ data[d].string = name
                    /\ \A t \in Listed : data[t].string = name => Place(d) <= Place(t)}

\* If the walk holds the timer it stops, the walk goes astray.
do_stoptimer(name) ==
    /\ Given
    /\ \E d \in get_timer_by_name(name) :
         /\ timers' = Without(d)
         /\ cut' = cut \cup {d}
         /\ told' = IF d = next THEN [t \in Timer |-> [told[t] EXCEPT !.astray = TRUE]]
                    ELSE told
    /\ UNCHANGED <<data, counter>>

tickon_command ==
    /\ Given /\ session
    /\ tickstatus' = TRUE
    /\ time0' = IF time0 < 0 THEN time ELSE time0
    /\ UNCHANGED <<list, tick_size, cut>>

tickoff_command ==
    /\ Given /\ session
    /\ tickstatus' = FALSE
    /\ UNCHANGED <<list, time0, tick_size, cut>>

tickset_command ==
    /\ Given /\ session
    /\ tickstatus' = TRUE /\ time0' = time
    /\ UNCHANGED <<list, tick_size, cut>>

ticksize_command(size) ==
    /\ Given
    /\ tick_size' = size /\ time0' = time
    /\ UNCHANGED <<list, tickstatus, cut>>

\* A session starts, or the active one ends.
ChangeSession ==
    /\ Open
    /\ session' = ~session /\ tickstatus' = FALSE
    /\ UNCHANGED <<time, list, time0, tick_size, use_tickcounter, walk, commands, fault>>

\* The OK of the preferences, which the update dialog does not keep from the user.
prefs_apply_settings(use, size) ==
    /\ fault = "none" /\ pc \in {"idle", "asks"} /\ commands < MaxCommands
    /\ commands' = commands + 1
    /\ use_tickcounter' = use /\ tick_size' = size
    /\ IF session
       THEN /\ tickstatus' = use
            /\ time0' = IF use /\ time0 < 0 THEN time ELSE time0
       ELSE UNCHANGED <<tickstatus, time0>>
    /\ UNCHANGED <<time, list, session, walk, fault>>

-----------------------------------------------------------------------------
(* checktick(): the walk. *)

Crash(kind) ==
    /\ fault' = kind
    /\ UNCHANGED <<time, list, counter, user, walk, commands>>

\* The walk's pointer is set before the update dialog and the idle function run.
Begin ==
    /\ fault = "none" /\ pc = "idle"
    /\ now' = time
    /\ next' = IF timers = <<>> THEN NULL ELSE Head(timers)
    /\ pc' = "asks" /\ cut' = {}
    /\ UNCHANGED <<time, list, counter, user, this, last, commands, fault>>

Asked ==
    /\ fault = "none" /\ pc = "asks"
    /\ pc' = "walk"
    /\ UNCHANGED <<time, list, counter, user, locals, cut, commands, fault>>

Walking == fault = "none" /\ pc = "walk" /\ next # NULL

MutantDue(d) == data[d].last > 0 /\ data[d].last < now - 1
Due(d) == data[d].last > 0 /\ data[d].last < now
Left(d) == data[d].finish - now
WARNING == 10
Announces(d) == Due(d) /\ Left(d) \in {0, WARNING}

MutantStays(d) ==
    IF Announces(d) THEN d
    ELSE IF Place(d) = Len(timers) THEN NULL ELSE timers[Place(d) + 1]
After(d) == IF Place(d) = Len(timers) THEN NULL ELSE timers[Place(d) + 1]

WalkOnFreed == Walking /\ next \notin Listed /\ Crash("freed_cell")

\* No message: the first pass that sees a timer only notes the second.
Pass ==
    /\ Walking /\ next \in Listed /\ ~Announces(next)
    /\ data' = IF Due(next) THEN data ELSE [data EXCEPT ![next].last = now]
    /\ next' = After(next)
    /\ UNCHANGED <<time, timers, told, counter, user, pc, now, this, last, cut, commands,
                   fault>>

\* do_one_line() reads the active session without asking whether there is one.
Announce ==
    /\ Walking /\ next \in Listed /\ Announces(next)
    /\ \/ ~session /\ Crash("null_session")
       \/ /\ session
          /\ this' = next /\ next' = After(next)
          /\ IF Left(next) = 0
             THEN pc' = "expires" /\ UNCHANGED told
             ELSE pc' = "warns" /\ told' = [told EXCEPT ![next].warnings = @ + 1]
          /\ UNCHANGED <<time, timers, data, counter, user, now, last, cut, commands,
                         fault>>

MutantAgain(d) == data
Noted(d) == [data EXCEPT ![d].last = now]

Warned ==
    /\ fault = "none" /\ pc = "warns"
    /\ \/ this \notin Listed /\ Crash("freed_timer")
       \/ /\ this \in Listed
          /\ data' = Noted(this)
          /\ pc' = "walk" /\ this' = NULL
          /\ UNCHANGED <<time, timers, told, counter, user, now, next, last, cut,
                         commands, fault>>

Expired ==
    /\ fault = "none" /\ pc = "expires"
    /\ \/ this \notin Listed /\ Crash("double_free")
       \/ /\ this \in Listed
          /\ timers' = Without(this)
          /\ pc' = "walk" /\ this' = NULL
          /\ UNCHANGED <<time, data, told, counter, user, now, next, last, cut,
                         commands, fault>>

WalkEnds ==
    /\ fault = "none" /\ pc = "walk" /\ next = NULL
    /\ pc' = IF use_tickcounter /\ time0 > 0 THEN "tick" ELSE "idle"
    /\ UNCHANGED <<time, list, counter, user, locals, cut, commands, fault>>

-----------------------------------------------------------------------------
(* checktick(): the tick counter. *)

\* C's remainder, which has the sign of n.
Rem(n, m) == IF n >= 0 THEN n % m ELSE -((-n) % m)
TimeTill(second) == Rem(tick_size - Rem(second - time0, tick_size), tick_size)

Counting == fault = "none" /\ pc = "tick"

CountStarts ==
    /\ Counting /\ last <= 0
    /\ last' = now + 1
    /\ pc' = "idle"
    /\ UNCHANGED <<time, list, counter, user, now, next, this, cut, commands, fault>>

\* One second of the loop; show_pretick is on.
MutantReached == last < now
Reached == last <= now
Count ==
    /\ Counting /\ last > 0 /\ Reached
    /\ last' = last + 1
    /\ pc' = IF TimeTill(last') \in {0, WARNING} /\ session /\ tickstatus
             THEN "ticks" ELSE "tick"
    /\ UNCHANGED <<time, list, counter, user, now, next, this, cut, commands, fault>>

Ticked ==
    /\ fault = "none" /\ pc = "ticks"
    /\ pc' = "tick"
    /\ UNCHANGED <<time, list, counter, user, locals, cut, commands, fault>>

CountEnds ==
    /\ Counting /\ last > 0 /\ ~Reached
    /\ pc' = "idle"
    /\ UNCHANGED <<time, list, counter, user, locals, cut, commands, fault>>

-----------------------------------------------------------------------------
Commands ==
    \/ \E name \in Maybe(Name), length \in Lengths : do_timer(name, length)
    \/ \E name \in Name : do_stoptimer(name)
    \/ tickon_command \/ tickoff_command \/ tickset_command
    \/ \E size \in Sizes : ticksize_command(size)
    \/ \E size \in Sizes, use \in BOOLEAN : prefs_apply_settings(use, size)
checktick ==
    \/ Begin \/ Asked \/ WalkOnFreed \/ Pass \/ Announce \/ Warned \/ Expired \/ WalkEnds
    \/ CountStarts \/ Count \/ Ticked \/ CountEnds
Next == Clock \/ Commands \/ ChangeSession \/ checktick

Spec == Init /\ [][Next]_vars

-----------------------------------------------------------------------------
(* Properties *)

\* A timer ends in its second: whatever the triggers do, none is left over once
\* the pass of that second is done, unless it was begun in the very second before,
\* or a command stopped the timer the walk held next: its cell may then be used for
\* a new timer, at the end of the list, and the walk leaves out what is in between.
Length(d) == data[d].finish - told[d].since
OnTime ==
    pc = "idle" => \A d \in Listed :
        Length(d) >= 2 /\ ~told[d].astray => data[d].finish > now

\* A timer that is long enough is announced ten seconds before its end, and once,
\* although several passes fall in that second.
WarnedOnce ==
    pc = "idle" => \A d \in Listed :
        Length(d) >= WARNING + 2 /\ ~told[d].astray =>
            told[d].warnings = IF Left(d) <= WARNING THEN 1 ELSE 0

\* A pass goes through freed memory only if a command stopped, while it was on, the
\* very timer it shows or goes to next: timers that end together, that begin while
\* it walks, or are stopped elsewhere in the list, do no harm.
OnlyStopsHarm ==
    /\ fault = "freed_cell" => next \in cut
    /\ fault \in {"freed_timer", "double_free"} => this \in cut

\* A pass that counts the tick gets to the coming second, whatever commands run on
\* its messages: no tick is left for a later pass, and none is told too early.
Counted == [][pc = "tick" /\ pc' = "idle" => last' = now + 1]_vars

=============================================================================
