---------------------------- MODULE MCWsSession ----------------------------
(* A small instance of WsSession for TLC. *)
EXTENDS WsSession, TLC

CONSTANTS p1, p2, b2, b3

\* Two personal messages, as onSpike sends them, which can meet in the retry
\* buffer, and a P2 and a P3 broadcast.
AllMessages == {p1, p2, b2, b3}
Priorities == (p1 :> 1) @@ (p2 :> 1) @@ (b2 :> 2) @@ (b3 :> 3)
PersonalOnes == {p1, p2}

\* Fewer for the violation, which needs no second message.
FewMessages == {p1, b2}
FewPriorities == (p1 :> 1) @@ (b2 :> 2)
FewPersonal == {p1}

=============================================================================
