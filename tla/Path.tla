-------------------------------- MODULE Path ------------------------------
(***************************************************************************)
(* Path tracking (tt/path.c): the moves since #mark, the last              *)
(* MAX_PATH_LENGTH of them, so that #return can walk back.                 *)
(***************************************************************************)
EXTENDS Lists

CONSTANTS
    Dir,                \* the commands in the pathdirs list
    Step,               \* addresses malloc can give a node of the path
    MAX_PATH_LENGTH

ASSUME PathAssumption == Dir # {} /\ MAX_PATH_LENGTH \in Nat \ {0}

VARIABLES
    path, step,         \* ses->path, and the move at each address
    path_length,
    return_flag         \* moves are tracked

pathvars == <<path, step, path_length, return_flag>>

PathTypeOK ==
    /\ path \in Seq(Step) /\ IsInjective(path)
    /\ step \in [Step -> Dir]
    /\ path_length \in 0..MAX_PATH_LENGTH
    /\ return_flag \in BOOLEAN

PathInit ==
    /\ path = <<>> /\ step = [a \in Step |-> CHOOSE d \in Dir : TRUE]
    /\ path_length = 0
    /\ return_flag = TRUE

mark_command ==
    /\ path' = <<>> /\ path_length' = 0
    /\ UNCHANGED <<step, return_flag>>

\* The first move is dropped when the path is full.
DropFirst(list) == IF list = <<>> THEN <<>> ELSE Tail(list)
Full == path_length = MAX_PATH_LENGTH

\* check_insert_path(), called for every command sent and by #map.
check_insert_path(dir) ==
    IF return_flag
    THEN LET kept == IF Full THEN DropFirst(path) ELSE path
         IN /\ \E a \in Step \ Range(kept) :
                /\ path' = Append(kept, a)
                /\ step' = [step EXCEPT ![a] = dir]
            /\ path_length' = IF Full THEN path_length ELSE path_length + 1
            /\ UNCHANGED return_flag
    ELSE UNCHANGED pathvars

unpath_command ==
    IF path_length # 0
    THEN /\ path_length' = path_length - 1
         /\ path' = Front(path)
         /\ UNCHANGED <<step, return_flag>>
    ELSE UNCHANGED pathvars


\* #return before and after the move back: the node it took the move from stays
\* in the list in between.
ReturnBegins ==
    /\ path_length' = path_length - 1
    /\ return_flag' = FALSE
    /\ UNCHANGED <<path, step>>

\* Mutant: the move stays in the path.
MutantKeepsMove(ln) == return_flag' = TRUE /\ UNCHANGED <<path, step, path_length>>

ReturnEnds(ln) ==
    /\ return_flag' = TRUE
    /\ path' = Without(path, {ln})
    /\ UNCHANGED <<step, path_length>>
=============================================================================
