------------------------------- MODULE MCRcLoad -------------------------------
(* RcLoad with three calls out of two logins and two launches of one ROM.  The  *)
(* logins are interchangeable, and so are the launches.                        *)
EXTENDS RcLoad, TLC

MCRomOf == [c \in Loads |-> "rom"]

Interchangeable == Permutations(Loads) \cup Permutations(Logins)
=============================================================================
