----------------------------- MODULE MCWatchApi -----------------------------
(* Small instances of WatchApi for TLC. *)
EXTENDS WatchApi, TLC

CONSTANTS c1, c2, c3, u1, u2

\* Two tabs of one user and one tab of another.
ThreeTabs == {c1, c2, c3, Main}
ThreeTabsOf == (c1 :> u1) @@ (c2 :> u1) @@ (c3 :> u2)

\* Two users with one tab each.
TwoUsers == {c1, c2, Main}
TwoUsersOf == (c1 :> u1) @@ (c2 :> u2)

=============================================================================
