---------------------------- MODULE PriorityFifo ----------------------------
(***************************************************************************)
(* What a client's queue promises: of the waiting messages, the writer     *)
(* takes one of the best rank, and of these the one accepted first.  A     *)
(* message waits under its own rank or, when the rate limit refused it,    *)
(* under RetryRank.  There and only there a message is lost: the oldest,   *)
(* to a new one, when RetryCap of them wait.                               *)
(***************************************************************************)
EXTENDS Integers, FiniteSets

CONSTANTS Messages, NoMessage, RetryRank, Rank(_),
          RetryCap     \* how many wait under RetryRank, 0 for any number

VARIABLES waiting,   \* records [msg, rank, no], no counting acceptances
          count,     \* acceptances so far
          inHand     \* the message the writer has taken, or NoMessage

fifoVars == <<waiting, count, inHand>>

Init ==
  /\ waiting = {}
  /\ count = 0
  /\ inHand = NoMessage

Entry(m, r) == [msg |-> m, rank |-> r, no |-> count + 1]

Retries == {e \in waiting : e.rank = RetryRank}

Full == RetryCap > 0 /\ Cardinality(Retries) >= RetryCap

Accept(m) ==
  /\ \E r \in {Rank(m), RetryRank} :
       /\ r = RetryRank => ~Full
       /\ waiting' = waiting \cup {Entry(m, r)}
  /\ count' = count + 1
  /\ UNCHANGED inHand

Displace(m) ==
  /\ Full
  /\ \E old \in Retries :
       /\ \A e \in Retries : old.no <= e.no
       /\ waiting' = (waiting \ {old}) \cup {Entry(m, RetryRank)}
  /\ count' = count + 1
  /\ UNCHANGED inHand

Before(e, f) == e.rank < f.rank \/ (e.rank = f.rank /\ e.no <= f.no)

Take ==
  /\ inHand = NoMessage
  /\ \E e \in waiting :
       /\ \A f \in waiting : Before(e, f)
       /\ waiting' = waiting \ {e}
       /\ inHand' = e.msg
  /\ UNCHANGED count

(* Written, or lost with the connection. *)
Finish ==
  /\ inHand' = NoMessage
  /\ UNCHANGED <<waiting, count>>

Next ==
  \/ \E m \in Messages : Accept(m) \/ Displace(m)
  \/ Take
  \/ Finish

Spec == Init /\ [][Next]_fifoVars

=============================================================================
