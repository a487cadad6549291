------------------------------- MODULE Recall -----------------------------
(***************************************************************************)
(* What the user sees of the input history: a list of the last lines sent, *)
(* oldest first, and how many lines back the browser stands, zero at rest. *)
(* A line one leaves is left as the entry shows it, so that browsing also  *)
(* edits the list; the line that was being typed is kept the same way.     *)
(* `sent` is the last line that was sent while it could be seen.           *)
(***************************************************************************)
EXTENDS Integers, Sequences

CONSTANTS Line, EMPTY, Remembered

VARIABLES lines, back, typed, entry, sent

vars == <<lines, back, typed, entry, sent>>

Last(list) == SubSeq(list, IF Len(list) > Remembered THEN 2 ELSE 1, Len(list))

Left == IF back = 0 THEN lines ELSE [lines EXCEPT ![Len(lines) + 1 - back] = entry]

Init == lines = <<>> /\ back = 0 /\ typed = EMPTY /\ entry = EMPTY /\ sent = EMPTY

Edit == entry' \in Line /\ UNCHANGED <<lines, back, typed, sent>>

\* `typed` keeps the text of the entry while the browser is away from it.
Older ==
    /\ back < Len(lines)
    /\ lines' = Left
    /\ typed' = IF back = 0 THEN entry ELSE typed
    /\ back' = back + 1
    /\ entry' = lines'[Len(lines) - back]
    /\ UNCHANGED sent

Newer ==
    /\ back > 0
    /\ lines' = Left
    /\ typed' = IF back = 1 THEN EMPTY ELSE typed
    /\ back' = back - 1
    /\ entry' = IF back = 1 THEN typed ELSE lines'[Len(lines) + 2 - back]
    /\ UNCHANGED sent

\* A line that repeats the newest need not be remembered again, and then the
\* browser stays where it is.  Lines sent while hidden leave no trace.
Sent ==
    /\ sent' = entry
    /\ \/ lines' = Last(Append(lines, entry)) /\ back' = 0 /\ typed' = EMPTY
       \/ /\ lines # <<>> /\ lines[Len(lines)] = entry
          /\ UNCHANGED <<lines, back, typed>>
    /\ entry' \in {entry, EMPTY}

Next == Edit \/ Older \/ Newer \/ Sent

Spec == Init /\ [][Next]_vars
=============================================================================
