----------------------------- MODULE MCInbound ----------------------------
(* Instances of Inbound for TLC. *)
EXTENDS Inbound

\* A request the client refuses, and one it agrees to.
SomeRequests == {<<DO, STATUS>>, <<WILL, MSSP>>}
OneRequest == {<<DO, STATUS>>}
BothVersions == {COMPRESS, COMPRESS2}
NoVersion == {}
=============================================================================
