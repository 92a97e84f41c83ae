----------------------------- MODULE MCWorkRoots -----------------------------
(* Workers that start, stop and die on one host.                               *)
EXTENDS WorkRoots, TLC
=============================================================================
