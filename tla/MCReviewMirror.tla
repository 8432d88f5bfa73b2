--------------------------- MODULE MCReviewMirror ---------------------------
(* Instances of ReviewMirror for TLC.                                        *)
EXTENDS ReviewMirror

CONSTANTS s1, s2
=============================================================================
