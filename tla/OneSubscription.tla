-------------------------- MODULE OneSubscription ---------------------------
(***************************************************************************)
(* What the trade tracker promises of its mints: the upstream goes through *)
(* the changes of a mint between watched and unwatched one after the       *)
(* other, in turns, and ends with the last of them.  Only a connection     *)
(* that breaks takes it out of this order, and the next one starts from    *)
(* the mints watched by then.  Nothing is promised of a mint one of whose  *)
(* changes was lost, until a listing has made up for it.                   *)
(***************************************************************************)
EXTENDS Tokens

VARIABLES watched,    \* mints with a watcher
          streamed,   \* mints the upstream streams
          due,        \* mints with changes on their way
          next,       \* those of them to be subscribed next
          lost,       \* mints with a change lost
          serving     \* changes reach a live connection

promiseVars == <<watched, streamed, due, next, lost, serving>>

Init ==
  /\ watched = {} /\ streamed = {} /\ due = {} /\ next = {} /\ lost = {}
  /\ serving = FALSE

Alike(m, S, T) == m \in S <=> m \in T

(* The first watcher comes or the last one goes. *)
Flips(m) ==
  /\ ~Alike(m, watched, watched') /\ Alike(m, streamed, streamed')
  /\ m \in due'
  /\ IF m \in due THEN Alike(m, next, next') ELSE Alike(m, watched', next')

(* A change is no longer on its way: the next one is of the other kind,    *)
(* and the last one asks for what is wanted now.                           *)
Passes(m) ==
  /\ m \in due /\ Alike(m, watched, watched')
  /\ IF m \in due' THEN ~Alike(m, next, next') ELSE Alike(m, next, watched)

Follows(m) == serving /\ Passes(m) /\ Alike(m, next, streamed')

(* The connection was broken, or had yet to be listed to. *)
Misses(m) == ~serving /\ Passes(m) /\ Alike(m, streamed, streamed')

StaysDue(m) ==
  Alike(m, watched, watched') /\ Alike(m, due, due') /\ Alike(m, next, next')

Lists(m) ==
  /\ ~serving /\ StaysDue(m)
  /\ m \in watched \cup due /\ m \in streamed'

Breaks(m) == ~serving' /\ StaysDue(m) /\ m \notin streamed'

Idles(m) == StaysDue(m) /\ Alike(m, streamed, streamed')

Recovers(m) ==
  /\ ~serving
  /\ Alike(m, watched, watched') /\ Alike(m, streamed, streamed')
  /\ m \in due' => Alike(m, watched', next')

(* A connection starts to be served with all settled mints right. *)
StartsRight ==
  \A m \in Mints \ (lost' \cup due') : Alike(m, watched', streamed')

Next ==
  /\ \A m \in Mints \ (lost \cup lost') :
       \/ Flips(m) \/ Follows(m) \/ Misses(m)
       \/ Lists(m) \/ Breaks(m) \/ Idles(m)
  /\ \A m \in lost \ lost' : Recovers(m)
  /\ ~serving /\ serving' => StartsRight
  /\ serving /\ ~serving' => streamed' = {}

Spec == Init /\ [][Next]_promiseVars

=============================================================================
