---------------------------- MODULE MCCallRegistry ----------------------------
(* CallRegistry for two call ids and two media goroutines, which may be    *)
(* started again after a cancel.  No symmetry: the run checks liveness.    *)
EXTENDS CallRegistry
===============================================================================
