------------------------------- MODULE Script -----------------------------
(***************************************************************************)
(* Commands that run commands: a line of the mud runs its triggers         *)
(* (check_all_actions), a GMCP message its handlers (gmcp), #return the    *)
(* way back of a move, and each of these goes through parse_input() or     *)
(* Lua, which may change the very list that is being walked.  What a       *)
(* command reports through tintin_puts() is a line for the triggers too,   *)
(* so walks nest, and triggers that answer one another in a circle go on   *)
(* until the C stack overflows.                                            *)
(*                                                                         *)
(* The C stack is a sequence of frames, the last one on top.  A command    *)
(* that only sends text, and Lua code that touches none of these lists,    *)
(* is "send".  Popups, and so nested main loops, are in Connection.        *)
(***************************************************************************)
EXTENDS Actions, Path, Gmcp

CONSTANTS
    Line,           \* lines the mud sends, and messages of commands
    Report,         \* the messages of the path commands
    Matching,       \* the patterns that match each line
    Code,           \* the commands a body, a function or the way back of a move runs
    Commands,       \* the commands the user gives
    HEAD,           \* the head of a list, which is never freed
    MaxDepth,       \* the frames the C stack has room for
    MaxEvents       \* bound: lines, messages, commands and clicks

\* The commands that are more than text to send.
Command ==
    [op : {"action"}, left : Left, right : Body, class : Class]
    \cup [op : {"unaction"}, left : Left]
    \cup [op : {"class"}, class : Class, on : BOOLEAN]
    \cup [op : {"register"}, var : Var, func : Func]
    \cup [op : {"unregister"}, func : Func]
    \cup [op : {"move"}, dir : Dir]
    \cup [op : {"show"}, line : Line]
    \cup [op : {"mark", "unpath", "return", "send"}]

ASSUME ScriptAssumption ==
    /\ Matching \in [Line -> SUBSET Left]
    /\ Report \in [{"marked", "forgotten", "no_move", "no_place"} -> Line]
    /\ Code \in [Body \cup Func \cup Dir -> Seq(Command)] /\ Commands \subseteq Command
    /\ HEAD \notin Node \cup Handler /\ NULL \notin Handler \cup {HEAD}
    /\ MaxEvents \in Nat /\ MaxDepth \in Nat

VARIABLES
    stack,
    nested,         \* a path command was run inside a #return
    events,         \* how many there were
    fault           \* a memory error, which ends the behaviour

vars == <<actionvars, pathvars, gmcpvars, stack, nested, events, fault>>

\* A walk stands on `at`.  Two ghosts: it still has to run the nodes `due`, and
\* `cut` tells that a node was removed while the walk stood on it.
Walk(list, what, due) ==
    [kind |-> "walk", list |-> list, what |-> what, at |-> HEAD, due |-> due, cut |-> FALSE]
Input(commands) == [kind |-> "input", rest |-> commands]
Return(ln) == [kind |-> "return", ln |-> ln]

\* What the stack holds.
Frame ==
    [kind : {"walk"}, list : {"actions", "handlers"}, what : Line \cup Var,
     at : Node \cup Handler \cup {HEAD}, due : SUBSET (Node \cup Handler), cut : BOOLEAN]
    \cup [kind : {"input"}, rest : Seq(Command)]
    \cup [kind : {"return"}, ln : Step]

Top == Last(stack)
Below == Front(stack)
Walks == {i \in DOMAIN stack : stack[i].kind = "walk"}
Returns == {i \in DOMAIN stack : stack[i].kind = "return"}

ListOf(walk) == IF walk.list = "actions" THEN actions ELSE gmcp_handlers

\* What a walk over this list runs for this line or variable.
Hits(list, what) ==
    IF list = "actions"
    THEN {a \in Range(actions) : node[a].enabled = TRUE /\ node[a].left \in Matching[what]}
    ELSE {h \in Range(gmcp_handlers) : handler[h].var = what}

Runs(list, a) == IF list = "actions" THEN Code[node[a].right] ELSE Code[handler[a].func]

TypeOK ==
    /\ ActionsTypeOK /\ PathTypeOK /\ GmcpTypeOK
    /\ stack \in Seq(Frame)
    /\ nested \in BOOLEAN /\ events \in 0..MaxEvents
    /\ fault \in {"none", "freed_node", "freed_row", "null_right", "stack_overflow"}

Init ==
    /\ ActionsInit /\ PathInit /\ GmcpInit
    /\ stack = <<>> /\ nested = FALSE /\ events = 0 /\ fault = "none"

Crash(what) ==
    /\ fault' = what
    /\ UNCHANGED <<actionvars, pathvars, gmcpvars, stack, nested, events>>

\* A call needs room on the stack.
Room == Len(stack) < MaxDepth

-----------------------------------------------------------------------------
(* The walks.  The node to go to is read from the one the walk stands on,    *)
(* after what that one ran.                                                  *)

Walking == fault = "none" /\ stack # <<>> /\ Top.kind = "walk"

\* Mutant: the last node leads back to the first.
MutantCircular(walk) ==
    LET list == ListOf(walk)
        i == IF walk.at = HEAD THEN 0 ELSE Position(list, walk.at)
    IN IF list = <<>> THEN NULL ELSE list[(i % Len(list)) + 1]

NextOf(walk) ==
    LET list == ListOf(walk)
        i == IF walk.at = HEAD THEN 0 ELSE Position(list, walk.at)
    IN IF i < Len(list) THEN list[i + 1] ELSE NULL

Stands(walk) == walk.at = HEAD \/ walk.at \in Range(ListOf(walk))

WalkOn ==
    /\ Walking /\ Stands(Top) /\ NextOf(Top) # NULL
    /\ LET next == NextOf(Top)
           walk == [Top EXCEPT !.at = next, !.due = @ \ {next}]
       IN IF next \in Hits(Top.list, Top.what)
          THEN Room /\ stack' = Below \o <<walk, Input(Runs(Top.list, next))>>
          ELSE stack' = Below \o <<walk>>
    /\ UNCHANGED <<actionvars, pathvars, gmcpvars, nested, events, fault>>

WalkEnds ==
    /\ Walking /\ Stands(Top) /\ NextOf(Top) = NULL
    /\ stack' = Below
    /\ UNCHANGED <<actionvars, pathvars, gmcpvars, nested, events, fault>>

WalkOnFreed ==
    /\ Walking /\ ~Stands(Top)
    /\ Crash("freed_node")

-----------------------------------------------------------------------------
(* Commands.  What they remove or disable is no longer due, and walks that   *)
(* stand on what is removed are cut.                                         *)

Noted(frames, removed, disabled) ==
    [i \in DOMAIN frames |->
        IF frames[i].kind = "walk"
        THEN [frames[i] EXCEPT !.due = @ \ (removed \cup disabled),
                               !.cut = @ \/ frames[i].at \in removed]
        ELSE frames[i]]

Running == fault = "none" /\ stack # <<>> /\ Top.kind = "input" /\ Top.rest # <<>>
Given(op) == Running /\ Head(Top.rest).op = op
Arg == Head(Top.rest)
Frames == Append(Below, Input(Tail(Top.rest)))

Edits(removed, disabled) ==
    /\ stack' = Noted(Frames, removed, disabled)
    /\ UNCHANGED <<events, fault>>

ActionCommand ==
    /\ Given("action")
    /\ Define(Arg.left, Arg.right, Arg.class, Same(Arg.left))
    /\ behind' = TRUE
    /\ Edits(Same(Arg.left), {})
    /\ UNCHANGED <<pathvars, gmcpvars, window, rows, nested>>

UnactionCommand ==
    /\ Given("unaction")
    /\ Undefine(Wild(Arg.left))
    /\ behind' = TRUE
    /\ Edits(Wild(Arg.left), {})
    /\ UNCHANGED <<pathvars, gmcpvars, window, rows, nested>>

ClassCommand ==
    /\ Given("class")
    /\ EnableClass(Arg.class, Arg.on)
    /\ behind' = TRUE
    /\ Edits({}, IF Arg.on THEN {} ELSE OfClass(Arg.class))
    /\ UNCHANGED <<pathvars, gmcpvars, window, rows, nested>>

RegisterHandler ==
    /\ Given("register")
    /\ register_gmcp_handler(Arg.var, Arg.func)
    /\ Edits({}, {})
    /\ UNCHANGED <<actionvars, pathvars, nested>>

UnregisterHandler ==
    /\ Given("unregister")
    /\ unregister_gmcp_handler(Arg.func)
    /\ Edits(Registered(Arg.func), {})
    /\ UNCHANGED <<actionvars, pathvars, nested>>

OnPath ==
    /\ nested' = (nested \/ Returns # {})
    /\ UNCHANGED <<actionvars, gmcpvars>>

\* A move, whose way back is in pathdirs, and #map.
Move ==
    /\ Given("move")
    /\ check_insert_path(Arg.dir)
    /\ Edits({}, {})
    /\ UNCHANGED <<actionvars, gmcpvars, nested>>

\* tintin_puts(): the triggers see the message before it is shown.
Puts(line) ==
    /\ Room
    /\ stack' = Frames \o <<Walk("actions", line, Hits("actions", line))>>
    /\ UNCHANGED <<events, fault>>

MarkCommand == Given("mark") /\ mark_command /\ OnPath /\ Puts(Report.marked)

UnpathCommand ==
    /\ Given("unpath") /\ unpath_command /\ OnPath
    /\ Puts(IF path_length # 0 THEN Report.forgotten ELSE Report.no_move)

ReturnCommand ==
    /\ Given("return") /\ path_length # 0 /\ path # <<>> /\ Room
    /\ ReturnBegins
    /\ stack' = Frames \o <<Return(Last(path)), Input(Code[step[Last(path)]])>>
    /\ OnPath
    /\ UNCHANGED <<events, fault>>

\* The head of the list has no text.
ReturnOfHead ==
    /\ Given("return") /\ path_length # 0 /\ path = <<>>
    /\ Crash("null_right")

NoPlaceToReturn ==
    /\ Given("return") /\ path_length = 0
    /\ Puts(Report.no_place)
    /\ UNCHANGED <<actionvars, pathvars, gmcpvars, nested>>

\* #path, and any other command that only reports.
Show ==
    /\ Given("show")
    /\ Puts(Arg.line)
    /\ UNCHANGED <<actionvars, pathvars, gmcpvars, nested>>

Returned ==
    /\ fault = "none" /\ stack # <<>> /\ Top.kind = "return"
    /\ ReturnEnds(Top.ln)
    /\ stack' = Below
    /\ UNCHANGED <<actionvars, gmcpvars, nested, events, fault>>

Send ==
    /\ Given("send")
    /\ Edits({}, {})
    /\ UNCHANGED <<actionvars, pathvars, gmcpvars, nested>>

InputEnds ==
    /\ fault = "none" /\ stack # <<>> /\ Top.kind = "input" /\ Top.rest = <<>>
    /\ stack' = Below
    /\ UNCHANGED <<actionvars, pathvars, gmcpvars, nested, events, fault>>

Calls ==
    \/ Walking /\ Stands(Top) /\ NextOf(Top) \in Hits(Top.list, Top.what)
    \/ \E op \in {"mark", "unpath", "return", "show"} : Given(op)

Overflow == Calls /\ ~Room /\ Crash("stack_overflow")

-----------------------------------------------------------------------------
(* Events: what the main loop dispatches when nothing runs. *)

Event == fault = "none" /\ stack = <<>> /\ events < MaxEvents /\ events' = events + 1

DoOneLine(line) ==
    /\ Event
    /\ stack' = <<Walk("actions", line, Hits("actions", line))>>
    /\ UNCHANGED <<actionvars, pathvars, gmcpvars, nested, fault>>

GmcpMessage(var) ==
    /\ Event
    /\ stack' = <<Walk("handlers", var, Hits("handlers", var))>>
    /\ UNCHANGED <<actionvars, pathvars, gmcpvars, nested, fault>>

Typed(command) ==
    /\ Event
    /\ stack' = <<Input(<<command>>)>>
    /\ UNCHANGED <<actionvars, pathvars, gmcpvars, nested, fault>>

Click ==
    /\ Event
    /\ UNCHANGED <<pathvars, gmcpvars, stack, nested>>

OpenTriggers ==
    /\ Click /\ ~window
    /\ window' = TRUE /\ rows' = Filled(actions, node) /\ behind' = FALSE
    /\ UNCHANGED <<actions, node, enabled, fault>>

CloseTriggers ==
    /\ Click /\ window
    /\ window' = FALSE /\ rows' = <<>> /\ behind' = FALSE
    /\ UNCHANGED <<actions, node, enabled, fault>>

\* trigger_button_add()
AddTrigger(left, right, class) ==
    /\ Click /\ window /\ class # SCRIPTING
    /\ Define(left, right, class, Same(left))
    /\ Refill
    /\ UNCHANGED <<window, fault>>

\* trigger_button_delete(): removes the row, and all that its text matches.
DeleteTrigger(i) ==
    /\ Click /\ window
    /\ rows' = RemoveAt(rows, i)
    /\ Undefine(Wild(rows[i].left))
    /\ behind' = (behind \/ Glob[rows[i].left] # {rows[i].left})
    /\ UNCHANGED <<window, fault>>

\* trigger_selection_made(): a double click toggles the trigger through the
\* pointer in the row, whatever is there now.
Toggled(a) == [node[a] EXCEPT !.enabled = ~@]

DoubleClick(i) ==
    /\ Click /\ window
    /\ IF Freed(rows[i].data)
       THEN fault' = "freed_row" /\ UNCHANGED <<node, rows>>
       ELSE /\ node' = [node EXCEPT ![rows[i].data] = Toggled(rows[i].data)]
            /\ rows' = [rows EXCEPT ![i].pixmap = node'[rows[i].data].enabled]
            /\ UNCHANGED fault
    /\ UNCHANGED <<actions, enabled, window, behind>>

\* trigger_class_toggle(): the opposite of what the window of the classes shows,
\* which may be out of date.
ToggleClass(class, on) ==
    /\ Click /\ enabled[class] # "none"
    /\ EnableClass(class, on)
    /\ IF window THEN Refill ELSE UNCHANGED <<rows, behind>>
    /\ UNCHANGED <<window, fault>>

Program ==
    \/ WalkOn \/ WalkEnds \/ WalkOnFreed
    \/ ActionCommand \/ UnactionCommand \/ ClassCommand
    \/ RegisterHandler \/ UnregisterHandler
    \/ Move \/ MarkCommand \/ UnpathCommand
    \/ ReturnCommand \/ ReturnOfHead \/ NoPlaceToReturn \/ Returned
    \/ Show \/ Send \/ InputEnds \/ Overflow

Window ==
    \/ OpenTriggers \/ CloseTriggers
    \/ \E left \in Left, right \in Body, class \in Class : AddTrigger(left, right, class)
    \/ \E i \in DOMAIN rows : DeleteTrigger(i) \/ DoubleClick(i)
    \/ \E class \in Class, on \in BOOLEAN : ToggleClass(class, on)

Next ==
    \/ Program \/ Window
    \/ \E line \in Line : DoOneLine(line)
    \/ \E var \in Var : GmcpMessage(var)
    \/ \E command \in Commands : Typed(command)

Spec == Init /\ [][Next]_vars

\* A function that was called runs.
FairSpec == Spec /\ WF_vars(Program)

-----------------------------------------------------------------------------
(* Properties *)

\* The list stays sorted without two triggers of one pattern, on which
\* searching, replacing and the order of the walk rest, whatever triggers and
\* the window do to it.
Ordered == \A i \in 1..Len(actions) - 1 : node[actions[i]].left < node[actions[i + 1]].left

\* A walk over triggers or handlers still has before it all it has to run, as
\* long as no command removed the node it stood on; only then can it step on
\* freed memory.
Ahead(walk) ==
    LET list == ListOf(walk)
    IN IF walk.at = HEAD THEN Range(list)
       ELSE {list[j] : j \in {j \in DOMAIN list :
                               \E i \in DOMAIN list : list[i] = walk.at /\ i < j}}

WalkKeepsItsWay ==
    /\ \A i \in Walks : ~stack[i].cut =>
         /\ Stands(stack[i]) /\ stack[i].due \subseteq Ahead(stack[i])
    /\ fault = "freed_node" => Top.cut

\* As long as only the window itself changed the list, its rows are the list:
\* their pointers are good, and the balls show what is enabled.
RowsAreTriggers ==
    /\ RowsTrue
    /\ fault = "freed_row" => behind

\* path_length keeps its bound and counts the moves that can still be returned,
\* and moves are tracked outside #return only, unless a way back itself commands
\* the path.
PathCounted ==
    /\ path_length <= MAX_PATH_LENGTH
    /\ ~nested => /\ path_length = Len(path) - Cardinality(Returns)
                  /\ return_flag = (Returns = {})

\* The stack overflows only when the triggers of a message report that message
\* again, whatever #return and the ways back do.
Circle ==
    \E i, j \in Walks : /\ i < j /\ stack[i].list = stack[j].list
                        /\ stack[i].what = stack[j].what


\* Whatever its triggers do, a line comes to its end, or to that of the stack,
\* unless a walk was cut.
LineEnds ==
    (stack # <<>>) ~> (stack = <<>> \/ fault # "none" \/ \E i \in Walks : stack[i].cut)
=============================================================================
