-------------------------------- MODULE MCHub --------------------------------
(* Hub on two workers, two users and one game; workers are interchangeable,   *)
(* and so are users.                                                          *)
EXTENDS Hub, TLC

Interchangeable == Permutations(Workers) \cup Permutations(Users)
=============================================================================
