------------------------------ MODULE Actions -----------------------------
(***************************************************************************)
(* The trigger list (tt/action.c, tt/llist.c), the trigger classes, and    *)
(* the trigger window (triggers.c), whose rows keep pointers to the nodes  *)
(* of the list.  All sessions share this list.                             *)
(*                                                                         *)
(* Abstracted: a pattern is a number, in the order of strcmp(); a wildcard *)
(* is the set of patterns it matches; what a trigger runs is a script.     *)
(* Class counters, which nothing reads, and saving are left out.           *)
(***************************************************************************)
EXTENDS Lists

CONSTANTS
    Left,           \* patterns, ordered
    Glob,           \* the patterns that a pattern, read as a wildcard, matches
    Body,           \* what a trigger can run
    Class,          \* the names of trigger classes
    SCRIPTING,      \* the class of Lua's triggers, which the window does not show
    Node,           \* addresses malloc can give a node
    NULL

ASSUME ActionsAssumption ==
    /\ Left \subseteq Nat /\ Glob \in [Left -> SUBSET Left]
    /\ Left # {} /\ Body # {}
    /\ SCRIPTING \in Class
    /\ NULL \notin Node

VARIABLES
    actions,        \* common_actions
    node,           \* the contents of each address, freed or not
    enabled,        \* trigger_classes: "on", "off", or "none" if it does not exist
    window,         \* trig_window: the trigger window is open
    rows,           \* its rows
    behind          \* the list was changed past the window since it was filled

actionvars == <<actions, node, enabled, window, rows, behind>>

Listnode == [left : Left, right : Body, pr : Class, enabled : BOOLEAN]
Row == [left : Left, data : Node, pixmap : BOOLEAN]

Blank == CHOOSE n \in Listnode : TRUE   \* what is in memory that is not in use

ActionsTypeOK ==
    /\ actions \in Seq(Node) /\ IsInjective(actions)
    /\ node \in [Node -> Listnode]
    /\ enabled \in [Class -> {"on", "off", "none"}]
    /\ window \in BOOLEAN /\ rows \in Seq(Row)
    /\ behind \in BOOLEAN

ActionsInit ==
    /\ actions = <<>>
    /\ node = [a \in Node |-> Blank]
    /\ enabled = [c \in Class |-> "none"]
    /\ window = FALSE /\ rows = <<>> /\ behind = FALSE

Freed(a) == a \notin Range(actions)

\* Mutant: a trigger is never looked up.
MutantNoSame(left) == {}

\* searchnode_list()
Same(left) == {a \in Range(actions) : node[a].left = left}

\* search_node_with_wild(), until there is none
Wild(left) == {a \in Range(actions) : node[a].left \in Glob[left]}

\* The memory after deletenode_list()
Unused(S) == [a \in Node |-> IF a \in S THEN Blank ELSE node[a]]

\* insertnode_list(): before the first node that is not smaller
Smaller(list, left) == {i \in DOMAIN list : node[list[i]].left < left}
Inserted(list, a, left) == InsertAt(list, Cardinality(Smaller(list, left)) + 1, a)

\* #action {left} {right} {class}: replaces a trigger of the same pattern.  A
\* class that did not exist is added and enabled; the trigger is enabled.
Define(left, right, class, gone) ==
    /\ \E a \in Node \ Range(Without(actions, gone)) :
        /\ actions' = Inserted(Without(actions, gone), a, left)
        /\ node' = [Unused(gone) EXCEPT ![a] =
                      [left |-> left, right |-> right, pr |-> class, enabled |-> TRUE]]
    /\ enabled' = [enabled EXCEPT ![class] = IF @ = "none" THEN "on" ELSE @]

\* #unaction {left}
Undefine(gone) ==
    /\ actions' = Without(actions, gone)
    /\ node' = Unused(gone)
    /\ UNCHANGED enabled

\* #action +class, #action -class
OfClass(class) == {a \in Range(actions) : node[a].pr = class}

EnableClass(class, on) ==
    /\ enabled' = [enabled EXCEPT ![class] =
                    IF @ = "none" THEN @ ELSE IF on THEN "on" ELSE "off"]
    /\ node' = [a \in Node |->
                  IF a \in OfClass(class) THEN [node[a] EXCEPT !.enabled = on] ELSE node[a]]
    /\ UNCHANGED actions

-----------------------------------------------------------------------------
(* The trigger window. *)

\* insert_triggers(): one row per trigger that is not Lua's.
Filled(list, heap) ==
    LET shown == Only(list, {a \in Range(list) : heap[a].pr # SCRIPTING})
    IN [i \in DOMAIN shown |->
          [left |-> heap[shown[i]].left, data |-> shown[i], pixmap |-> heap[shown[i]].enabled]]

\* Mutant: the window keeps its rows.
MutantKeepRows == rows' = rows /\ behind' = FALSE

Refill == rows' = Filled(actions', node') /\ behind' = FALSE

\* The pointer in a row is used when the row is double-clicked.
RowsTrue == window /\ ~behind => rows = Filled(actions, node)
=============================================================================
