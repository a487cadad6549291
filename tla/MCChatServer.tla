---------------------------- MODULE MCChatServer ----------------------------
(* Instances of ChatServer for TLC. *)
EXTENDS ChatServer, TLC

\* Connections differ in nothing but their names.
Symmetry == Permutations(Conn)
=============================================================================
