------------------------------ MODULE MCWorker ------------------------------
(* Worker for TLC: workers and clients are interchangeable.                *)
EXTENDS Worker, TLC

Symmetry == Permutations(Workers) \cup Permutations(Clients)
=============================================================================
