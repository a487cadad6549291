------------------------------- MODULE Room -------------------------------
(***************************************************************************)
(* What the chat server promises: a room in which all that are listening,  *)
(* members or not, are told the same events in the same order, each once,  *)
(* except that nobody is told what he does himself; only members speak,    *)
(* under the name they joined with, and a member that leaves is heard to   *)
(* leave.                                                                  *)
(***************************************************************************)
EXTENDS Naturals, Sequences, FiniteSets

CONSTANTS Conn, Name, Text, NULL

VARIABLES
    here,       \* who is connected
    members,    \* the name each member joined with, or NULL
    listening,  \* who is here and has not hung up
    told        \* what each has been told and not heard yet

vars == <<here, members, listening, told>>

Init ==
    /\ here = {} /\ listening = {}
    /\ members = [p \in Conn |-> NULL]
    /\ told = [p \in Conn |-> <<>>]

Tell(S, event) ==
    told' = [p \in Conn |-> IF p \in S THEN Append(told[p], event) ELSE told[p]]

\* Somebody may have hung up before the server knows of him.
Enter(p) ==
    /\ p \notin here
    /\ here' = here \cup {p}
    /\ listening' \in {listening, listening \cup {p}}
    /\ UNCHANGED <<members, told>>

Join(p, name) ==
    /\ p \in here /\ members[p] = NULL
    /\ members' = [members EXCEPT ![p] = name]
    /\ Tell(listening \ {p}, <<"joined", name>>)
    /\ UNCHANGED <<here, listening>>

Say(p, text) ==
    /\ p \in here /\ members[p] # NULL
    /\ Tell(listening \ {p}, <<"said", members[p], text>>)
    /\ UNCHANGED <<here, members, listening>>

Who(p) ==
    /\ p \in here /\ members[p] # NULL
    /\ Tell(listening \cap {p}, <<"who", Cardinality(here)>>)
    /\ UNCHANGED <<here, members, listening>>

Hear(p) ==
    /\ told[p] # <<>>
    /\ told' = [told EXCEPT ![p] = Tail(@)]
    /\ UNCHANGED <<here, members, listening>>

\* The line goes down: what was not heard is lost.
HangUp(p) ==
    /\ p \in listening
    /\ listening' = listening \ {p}
    /\ told' = [told EXCEPT ![p] = <<>>]
    /\ UNCHANGED <<here, members>>

Others(p) == listening \ {p}

Leave(p) ==
    /\ p \in here
    /\ here' = here \ {p} /\ listening' = Others(p)
    /\ members' = [members EXCEPT ![p] = NULL]
    /\ told' = [q \in Conn |->
                  IF q = p THEN <<>>
                  ELSE IF q \in listening /\ members[p] # NULL
                       THEN Append(told[q], <<"left", members[p]>>)
                       ELSE told[q]]

Next == \E p \in Conn :
    \/ Enter(p) \/ Who(p) \/ Hear(p) \/ HangUp(p) \/ Leave(p)
    \/ \E name \in Name : Join(p, name)
    \/ \E text \in Text : Say(p, text)

Spec == Init /\ [][Next]_vars
=============================================================================
