--------------------------- MODULE MCConnection ---------------------------
(* Instances of Connection for TLC: addresses, descriptors and hosts are     *)
(* interchangeable model values.                                             *)
EXTENDS Connection, TLC

Symmetry == Permutations(Ses) \cup Permutations(Sock) \cup Permutations(Host)
=============================================================================
