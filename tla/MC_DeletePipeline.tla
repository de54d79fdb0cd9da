------------------------- MODULE MC_DeletePipeline -------------------------
(* Small instances of DeletePipeline for TLC.                              *)
EXTENDS DeletePipeline, TLC

CONSTANTS w1, w2, c1, c2

MCWorkers == {w1, w2}
MCClients == {c1, c2}

(* Workers and request handlers are interchangeable.                       *)
MCSymmetry == Permutations(MCWorkers) \cup Permutations(MCClients)
=============================================================================
