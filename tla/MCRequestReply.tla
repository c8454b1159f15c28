--------------------------- MODULE MCRequestReply ---------------------------
(* Instances of RequestReply for TLC. *)
EXTENDS RequestReply, TLC

CONSTANTS c1, c2, s1, s2

\* The servers of one name are alike, and so are its clients.
Symmetry == Permutations(Clients) \cup Permutations(Services)
=============================================================================
