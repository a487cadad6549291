------------------------------ MODULE MCScript ----------------------------
(* Instances of Script for TLC: what patterns match and what scripts do. *)
EXTENDS Script, TLC

Action(left, right, class) ==
    [op |-> "action", left |-> left, right |-> right, class |-> class]
Unaction(left) == [op |-> "unaction", left |-> left]
Classes(class, on) == [op |-> "class", class |-> class, on |-> on]
Register(var, func) == [op |-> "register", var |-> var, func |-> func]
Unregister(func) == [op |-> "unregister", func |-> func]
Go(dir) == [op |-> "move", dir |-> dir]
Do(op) == [op |-> op]

\* The message of #unpath without a move is a line of its own.
MCReport ==
    [marked |-> "line", forgotten |-> "line", no_move |-> "no_move", no_place |-> "line"]

\* 2 is a wildcard when #unaction reads it, and both match the line.
MCGlob == [left \in Left |-> 1..left]
MCMatching == [line |-> Left, no_move |-> {2}]

\* A trigger that replaces itself or another, one that disables its class and
\* forgets a move, one that only forgets a move, which as trigger of no_move is
\* a circle; handlers that remove themselves or each other; a move
\* back, and a way back that commands the path.
MCCode ==
    [bRemove |-> <<Unaction(1), Action(2, "bOff", "c")>>,
     bOff |-> <<Classes("c", FALSE), Do("unpath")>>,
     bUnpath |-> <<Do("unpath")>>,
     fSelf |-> <<Unregister("fSelf")>>,
     fOther |-> <<Unregister("fSelf"), Go("n")>>,
     n |-> <<Go("s"), Do("send")>>,
     s |-> <<Go("n")>>,
     out |-> <<Do("return"), Do("mark"), Go("n")>>]

MCCommands ==
    {Action(left, right, "c") : left \in Left, right \in Body}
    \cup {Unaction(2), Classes("c", TRUE)}
    \cup {Register("v", func) : func \in Func}
    \cup {Go("n"), Go("out"), Do("mark"), Do("unpath"), Do("return")}
    \cup {[op |-> "show", line |-> "no_move"]}
=============================================================================
