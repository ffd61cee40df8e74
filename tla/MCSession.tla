------------------------------ MODULE MCSession ------------------------------
(* Session on two users and two games. Users, and the room objects of the    *)
(* worker's heap, are interchangeable.                                       *)
EXTENDS Session, TLC

Interchangeable == Permutations(Users) \cup Permutations(Rooms)
=============================================================================
