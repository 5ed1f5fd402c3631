---------------------------- MODULE MCPortalFeed ----------------------------
(* A small instance of PortalFeed for TLC. *)
EXTENDS PortalFeed, TLC

CONSTANTS m1, m2

Portal == {"portal"}
OneUrl == "portal" :> <<"pumpportal">>
\* Nothing, or all but the symbol, which only a lookup may give.
Brought == {{}, {"name", "uri"}}
Known == {{}, {"symbol"}}

=============================================================================
