----------------------------- MODULE MCShelves -----------------------------
(* Instances of Shelves for TLC.                                             *)
EXTENDS Shelves

CONSTANTS r1, r2, r3, r4
============================================================================
