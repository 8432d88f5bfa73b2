---------------------------- MODULE ExactlyOnce ----------------------------
(* What the inbox promises whoever delivers to it: an activity that carries  *)
(* an id takes effect once, in one indivisible step, for as long as the      *)
(* inbox remembers the id; forgetting an id is the only way it can take      *)
(* effect again.  An activity without an id has no such promise.             *)
(* `Inbox` is shown to implement this specification.                         *)
EXTENDS Naturals

CONSTANTS Activities, Keyed, Handled

VARIABLES known,    \* ids the inbox remembers
          runs      \* how many times each activity has taken effect

absVars == <<known, runs>>

Init == known = {} /\ runs = [a \in Activities |-> 0]

Effect(a) ==
  runs' = IF a \in Handled THEN [runs EXCEPT ![a] = @ + 1] ELSE runs

Take(a) ==
  /\ a \in Keyed \ known
  /\ known' = known \cup {a}
  /\ Effect(a)

TakeUnkeyed(a) ==
  /\ a \in Activities \ Keyed
  /\ Effect(a)
  /\ UNCHANGED known

Forget(a) ==
  /\ a \in known
  /\ known' = known \ {a}
  /\ UNCHANGED runs

Next == \E a \in Activities : Take(a) \/ TakeUnkeyed(a) \/ Forget(a)

Spec == Init /\ [][Next]_absVars
============================================================================
