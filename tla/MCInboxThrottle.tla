-------------------------- MODULE MCInboxThrottle --------------------------
(* Instances of InboxThrottle for TLC: one address, and the source that is   *)
(* not an address.                                                           *)
EXTENDS InboxThrottle

CONSTANTS w1, w2, w3
============================================================================
