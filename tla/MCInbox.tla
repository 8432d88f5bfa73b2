------------------------------ MODULE MCInbox ------------------------------
(* Instance of Inbox for TLC: `follow` has an id and a handler, `quote` an   *)
(* id and no handler, `anonymous` a handler and no id.                       *)
EXTENDS Inbox

CONSTANTS follow, quote, anonymous, w1, w2

MCActivities == {follow, quote, anonymous}
MCKeyed == {follow, quote}
MCHandled == {follow, anonymous}
============================================================================
