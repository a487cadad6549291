-------------------------------- MODULE Gmcp ------------------------------
(***************************************************************************)
(* The list of Lua functions to call for a GMCP variable (lua.c).          *)
(***************************************************************************)
EXTENDS Lists

CONSTANTS
    Var,            \* GMCP variables
    Func,           \* Lua functions
    Handler         \* addresses malloc can give a handler

ASSUME GmcpAssumption == Var # {} /\ Func # {}

VARIABLES
    gmcp_handlers,  \* newest first
    handler         \* the contents of each address

gmcpvars == <<gmcp_handlers, handler>>

GmcpTypeOK ==
    /\ gmcp_handlers \in Seq(Handler) /\ IsInjective(gmcp_handlers)
    /\ handler \in [Handler -> [var : Var, func : Func]]

Unset == CHOOSE h \in [var : Var, func : Func] : TRUE

GmcpInit ==
    /\ gmcp_handlers = <<>>
    /\ handler = [h \in Handler |-> Unset]

register_gmcp_handler(var, func) ==
    \E h \in Handler \ Range(gmcp_handlers) :
        /\ gmcp_handlers' = <<h>> \o gmcp_handlers
        /\ handler' = [handler EXCEPT ![h] = [var |-> var, func |-> func]]

\* The handler that unregister_gmcp_handler(func) frees: the first of that function.
Registered(func) ==
    LET found == {i \in DOMAIN gmcp_handlers : handler[gmcp_handlers[i]].func = func}
    IN {gmcp_handlers[i] : i \in {i \in found : \A j \in found : i <= j}}

\* Mutant: the handlers after the one removed are lost.
MutantLosesTail(func) ==
    /\ gmcp_handlers' = IF Registered(func) = {} THEN gmcp_handlers
                        ELSE SubSeq(gmcp_handlers, 1,
                               Position(gmcp_handlers, CHOOSE h \in Registered(func) : TRUE) - 1)
    /\ UNCHANGED handler

unregister_gmcp_handler(func) ==
    /\ gmcp_handlers' = Without(gmcp_handlers, Registered(func))
    /\ handler' = [h \in Handler |-> IF h \in Registered(func) THEN Unset ELSE handler[h]]
=============================================================================
