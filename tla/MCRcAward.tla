------------------------------- MODULE MCRcAward ------------------------------
(* RcAward with an achievement and a leaderboard entry, each lost up to three *)
(* times, and one game that is unloaded.                                      *)
EXTENDS RcAward
=============================================================================
