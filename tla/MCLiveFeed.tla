----------------------------- MODULE MCLiveFeed -----------------------------
(***************************************************************************)
(* Two dashboards, each on an account of its own at first.                 *)
(***************************************************************************)
EXTENDS LiveFeed, TLC

CONSTANTS c1, c2, a1, a2

MCMounted == c1 :> a1 @@ c2 :> a2
=============================================================================
