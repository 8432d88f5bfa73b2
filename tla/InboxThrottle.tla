--------------------------- MODULE InboxThrottle ---------------------------
(* The per-source floor on inbox POSTs that could not be authenticated:      *)
(* web workers sharing the InboxAttempt table, with the clock running.       *)
(*                                                                           *)
(* A worker reads the count, dials out and verifies, and only then records a *)
(* failure, so other workers' reads and the clock fall in between.  The      *)
(* table is the ages of each source's rows; a row that reaches the window's  *)
(* age is never read again (prune_inbox may delete it) and leaves the model. *)
(* One tick is a fraction of the second Retry-After counts in.               *)
EXTENDS Integers, Sequences, FiniteSets

CONSTANTS
  Workers,        \* request-handling threads
  Sources,        \* client addresses
  Unparsed,       \* those client_ip could not make out: the empty string
  Limit,          \* INBOX_FAILURE_LIMIT
  Window,         \* INBOX_FAILURE_WINDOW_MINUTES, in ticks
  TicksPerSecond,
  EmptyHint,      \* seconds answered when no row is left in the window
  NoHint

ASSUME ThrottleAssumption ==
  /\ IsFiniteSet(Workers) /\ Workers # {}
  /\ Unparsed \subseteq Sources
  /\ Limit \in Nat \ {0}
  /\ Window \in Nat \ {0}
  /\ TicksPerSecond \in Nat \ {0}
  /\ EmptyHint \in Nat \ {0}
  /\ NoHint \notin Nat

Ages == 0..(Window - 1)
Larger(a, b) == IF a < b THEN b ELSE a
MaxHint == Larger(Window + TicksPerSecond, EmptyHint * TicksPerSecond)

VARIABLES
  rows,   \* each source's InboxAttempt rows: their ages, oldest first
  pc,     \* each worker: idle, at work on a request, or refusing one
  from,   \* the source of the request each worker has, or had last
  told    \* ticks left of the last Retry-After, void once a failure is counted

vars == <<rows, pc, from, told>>

PCs == {"idle", "work", "refusing"}

TypeOK ==
  /\ rows \in [Sources -> Seq(Ages)]
  /\ pc \in [Workers -> PCs]
  /\ from \in [Workers -> Sources]
  /\ told \in [Sources -> (0..MaxHint) \cup {NoHint}]

\* created_at__gt=since: a row exactly as old as the window is out of it.
CountOf(s) == Len(rows[s])

inbox_blocked(s) == s \notin Unparsed /\ CountOf(s) >= Limit

Init ==
  /\ rows = [s \in Sources |-> <<>>]
  /\ pc = [w \in Workers |-> "idle"]
  /\ from \in [Workers -> Sources]
  /\ told = [s \in Sources |-> NoHint]

-----------------------------------------------------------------------------
NewRow(s) == rows' = [rows EXCEPT ![s] = Append(@, 0)]

\* Slip: the refused POSTs are counted too.
Check_CountsRefusals(w, s) ==
  /\ pc[w] = "idle"
  /\ from' = [from EXCEPT ![w] = s]
  /\ pc' = [pc EXCEPT ![w] = IF inbox_blocked(s) THEN "refusing" ELSE "work"]
  /\ IF inbox_blocked(s) /\ CountOf(s) = Limit THEN NewRow(s) ELSE UNCHANGED rows
  /\ UNCHANGED told

\* A POST arrives; the budget is read before anything is spent on it.
Check(w, s) ==
  /\ pc[w] = "idle"
  /\ from' = [from EXCEPT ![w] = s]
  /\ pc' = [pc EXCEPT ![w] = IF inbox_blocked(s) THEN "refusing" ELSE "work"]
  /\ UNCHANGED <<rows, told>>

\* No keyid, a verified delivery, or a crash on the way: nothing is counted.
Uncounted(w) ==
  /\ pc[w] # "idle"
  /\ pc' = [pc EXCEPT ![w] = "idle"]
  /\ UNCHANGED <<rows, from, told>>

\* Slip: every source that is not an address shares one bucket.
RecordFailure_Unparsed(w) ==
  /\ pc[w] = "work"
  /\ NewRow(from[w])
  /\ told' = [told EXCEPT ![from[w]] = NoHint]
  /\ pc' = [pc EXCEPT ![w] = "idle"]
  /\ UNCHANGED from

\* The sender did not resolve, or its signature did not verify.
RecordFailure(w) ==
  /\ pc[w] = "work"
  /\ IF from[w] \in Unparsed
     THEN UNCHANGED <<rows, told>>
     ELSE NewRow(from[w]) /\ told' = [told EXCEPT ![from[w]] = NoHint]
  /\ pc' = [pc EXCEPT ![w] = "idle"]
  /\ UNCHANGED from

CeilDiv(a, b) == (a + b - 1) \div b

\* Slip: the wait is rounded down.
retry_after_seconds_Floor(s) ==
  IF s \in Unparsed THEN 1
  ELSE IF rows[s] = <<>> THEN EmptyHint
  ELSE Larger(1, (Window - Head(rows[s])) \div TicksPerSecond)

\* Whole seconds until the oldest counted row is as old as the window.
retry_after_seconds(s) ==
  IF s \in Unparsed THEN 1
  ELSE IF rows[s] = <<>> THEN EmptyHint
  ELSE Larger(1, CeilDiv(Window - Head(rows[s]), TicksPerSecond))

\* The 429 is written with a second query, after the one that refused.
RetryAfter(w) ==
  /\ pc[w] = "refusing"
  /\ told' = [told EXCEPT ![from[w]] =
                retry_after_seconds(from[w]) * TicksPerSecond]
  /\ pc' = [pc EXCEPT ![w] = "idle"]
  /\ UNCHANGED <<rows, from>>

\* The rows that are now as old as the window are out of it.
Older(ages) ==
  LET out == Cardinality({i \in 1..Len(ages) : ages[i] = Window - 1})
  IN  [i \in 1..(Len(ages) - out) |-> ages[i + out] + 1]

\* Time passes: rows grow older, and the told wait shorter.
Tick ==
  /\ rows' = [s \in Sources |-> Older(rows[s])]
  /\ told' = [s \in Sources |-> IF told[s] \in {NoHint, 0} THEN told[s]
                                                           ELSE told[s] - 1]
  /\ UNCHANGED <<pc, from>>

Next ==
  \/ \E w \in Workers :
       \/ \E s \in Sources : Check(w, s)
       \/ Uncounted(w)
       \/ RecordFailure(w)
       \/ RetryAfter(w)
  \/ Tick

Spec == Init /\ [][Next]_vars

\* Only the clock is relied on.
FairSpec == Spec /\ WF_vars(Tick)

-----------------------------------------------------------------------------
(* Properties *)

AtWork(s) == {w \in Workers : pc[w] = "work" /\ from[w] = s}

\* Counting after the work lets every worker that had read the budget finish,
\* and no more: failures in a window stay within the limit plus the workers
\* that were already past the check, and one the parse failed on is never among
\* them.
FailuresBounded ==
  /\ TypeOK
  /\ \A s \in Sources :
       IF s \in Unparsed THEN CountOf(s) = 0
       ELSE CountOf(s) + Cardinality(AtWork(s))
              <= Limit + Cardinality(Workers) - 1

\* The wait a peer is told is long enough for the oldest counted row to go: when
\* it is over, and no failure has been counted since, one row fewer is left than
\* there can ever be.  With a single worker the peer is let through.
ToldWaitFreesARow ==
  \A s \in Sources :
    told[s] = 0 => CountOf(s) < Limit + Cardinality(Workers) - 1

\* A spent address frees itself: refusals are not counted, so however often it
\* retries while blocked, it is eventually let through again.
BlockedSourceIsFreed ==
  \A s \in Sources : inbox_blocked(s) ~> ~inbox_blocked(s)

-----------------------------------------------------------------------------
(* What comments say and the code does otherwise; README tells how each      *)
(* fails.                                                                    *)

\* inbox_throttle.py:29-31: "the Nth failure from an address stops triggering
\* an outbound fetch, so the amplification is bounded at N".
AmplificationBoundedAtLimit == \A s \in Sources : CountOf(s) <= Limit

\* inbox_throttle.py:105: "Rounded up so a peer is never told a time at which
\* retrying still fails": once the told wait is over, and no failure has been
\* counted against the address since it was told, it is not blocked.
ToldTimeIsHonest == \A s \in Sources : told[s] = 0 => ~inbox_blocked(s)

\* inbox_throttle.py:105-106: "a peer with nothing counted gets 1 rather than 0".
NothingCountedGetsOne ==
  [][\A w \in Workers : RetryAfter(w) /\ rows[from[w]] = <<>> =>
       told'[from[w]] = TicksPerSecond]_vars
============================================================================
