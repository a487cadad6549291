------------------------------- MODULE Link -------------------------------
(***************************************************************************)
(* What the connection code promises the rest of the client: at any time   *)
(* it is idle, dialing or connected, with one descriptor from the first    *)
(* connect() to the last close(); a connected client is never put back to  *)
(* dialing, and goes from one mud to another only through idle.            *)
(***************************************************************************)
CONSTANTS Sock, NULL

VARIABLES phase, sock

Init == phase = "idle" /\ sock = NULL

Dial ==
    /\ phase = "idle"
    /\ phase' \in {"dialing", "connected"}
    /\ sock' \in Sock

Answer == phase = "dialing" /\ phase' = "connected" /\ UNCHANGED sock

HangUp == phase # "idle" /\ phase' = "idle" /\ sock' = NULL

Next == Dial \/ Answer \/ HangUp

Spec == Init /\ [][Next]_<<phase, sock>>
=============================================================================
