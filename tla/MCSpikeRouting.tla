--------------------------- MODULE MCSpikeRouting ---------------------------
(* A small instance of SpikeRouting for TLC. *)
EXTENDS SpikeRouting, TLC

CONSTANTS p1, p2, u1, u2

\* A page for each of two users; the third connection is one a page opens
\* while the server still has its old one.
TwoPages == (p1 :> u1) @@ (p2 :> u2)

AnyConnection == Permutations(Clients)

=============================================================================
