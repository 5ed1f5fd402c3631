------------------------------- MODULE Tokens -------------------------------
(* The token mints every component is about. *)
CONSTANT Mints
=============================================================================
