------------------------------ MODULE MCHydrator ------------------------------
(* Hydrator on a small library.                                               *)
EXTENDS Hydrator

CONSTANTS halo, halo2, sonic, seaman, shenmue, grandia, manual

\* What the archives hold.
Holds == [a \in Archives |->
    CASE a = halo -> "xbe"
      [] a = halo2 -> "iso"
      [] a = sonic -> "gdi"
      [] a = seaman -> "cue"
      [] a \in {shenmue, grandia} -> "disc"
      [] OTHER -> "unknown"]

\* Their names, one of which begins like another.
Named ==
    (halo :> <<"Halo">>) @@ (halo2 :> <<"Halo", "2">>) @@ (sonic :> <<"Sonic">>)
        @@ (seaman :> <<"Seaman">>) @@ (shenmue :> <<"Shenmue">>)
        @@ (grandia :> <<"Grandia">>) @@ (manual :> <<"Manual">>)

Stems == [a \in Archives |-> Named[a]]

\* The images in two of the archives have the same name.
Inners == [a \in Archives |-> IF Holds[a] = "disc" THEN <<"Disc", "1">> ELSE Named[a]]
=============================================================================
