------------------------------ MODULE Accounts ------------------------------
(* The Telegram users the service tells apart. *)
CONSTANT Users
=============================================================================
