-------------------------------- MODULE MCRpc --------------------------------
(* Rpc on a few calls; the calls users make over a worker's connection are    *)
(* interchangeable.                                                           *)
EXTENDS Rpc, TLC

Interchangeable == Permutations(Calls)
=============================================================================
