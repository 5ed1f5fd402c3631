--------------------------- MODULE MCDualConsumer ---------------------------
(* Instances of DualConsumer for TLC. *)
EXTENDS DualConsumer, TLC

\* Of the RPC endpoints of tier A only the second one works.
TwoClients == {"pump", "rpc"}
OneDown == ("pump" :> <<"pumpdev">>) @@ ("rpc" :> <<"rpcDown", "rpcUp", "rpcOff">>)
Down == {"rpcDown", "rpcOff"}

=============================================================================
