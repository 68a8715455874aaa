---------------------------- MODULE MCWorkerPool ----------------------------
(* WorkerPool for TLC: process numbers are interchangeable.                *)
EXTENDS WorkerPool, TLC

Symmetry == Permutations(Pids)
=============================================================================
