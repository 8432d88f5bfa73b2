----------------------------- MODULE MCFollow -----------------------------
(* Instances of Follow for TLC.                                              *)
EXTENDS Follow

CONSTANTS r1, r2, r3
===========================================================================
