------------------------------- MODULE Inbox -------------------------------
(* The inbox of one instance: concurrent web workers answering POSTs from    *)
(* peers, and the dedup table `DeliveredActivity` in PostgreSQL.             *)
(*                                                                           *)
(* A peer posts an activity to a member's inbox and to the shared inbox,     *)
(* gives up waiting when the answer is late, and posts again.  A worker      *)
(* authenticates the request, opens a transaction, claims the activity's id  *)
(* with get_or_create, runs the handler and commits; a failure or a crash    *)
(* anywhere before the commit undoes the claim with the effects.             *)
(*                                                                           *)
(* PostgreSQL is external: a transaction's rows are invisible until it       *)
(* commits (READ COMMITTED), and an INSERT of a key that an open transaction *)
(* has inserted waits for that transaction to end.                           *)
EXTENDS Naturals, FiniteSets

CONSTANTS
  Workers,      \* request-handling threads of the web processes
  Activities,   \* inbound activities
  Keyed,        \* those whose `id` is a non-empty string
  Handled,      \* those whose type has a registered handler
  Routes,       \* the inboxes a peer posts each activity to
  NoDelivery,   \* what an idle worker is working on
  MaxPosts,     \* bound: POSTs a peer makes of one delivery before it gives up
  MaxPrunes     \* bound: how often the retention prune may forget one id

ASSUME InboxAssumption ==
  /\ Keyed \subseteq Activities
  /\ Handled \subseteq Activities
  /\ MaxPosts \in Nat
  /\ MaxPrunes \in Nat
  /\ NoDelivery \notin Activities \X Routes

Deliveries == Activities \X Routes
ActivityOf(d) == d[1]

VARIABLES
  peer,       \* where each delivery stands at the peer that makes it
  posts,      \* POSTs made of each delivery
  pc,         \* where each worker is in _handle_inbox_post
  job,        \* the delivery each worker is answering
  waiting,    \* whether the peer still waits for that worker's answer
  delivered,  \* committed DeliveredActivity rows
  ran,        \* committed runs of each activity's handler
  forgotten   \* how often each activity's row has been pruned

peerVars == <<peer, posts, waiting>>
dbVars   == <<delivered, ran, forgotten>>
vars     == <<peerVars, pc, job, dbVars>>

PeerStates == {"due", "open", "accepted", "dropped", "gaveUp"}

\* "duplicate" and "apply" both end in a commit; only "apply" has effects.
PCs == {"idle", "authenticate", "lookup", "insert", "handler",
        "apply", "duplicate", "respond"}

TypeOK ==
  /\ peer \in [Deliveries -> PeerStates]
  /\ posts \in [Deliveries -> 0..MaxPosts]
  /\ pc \in [Workers -> PCs]
  /\ job \in [Workers -> Deliveries \cup {NoDelivery}]
  /\ waiting \in [Workers -> BOOLEAN]
  /\ delivered \in SUBSET Keyed
  /\ ran \in [Activities -> Nat]
  /\ forgotten \in [Activities -> 0..MaxPrunes]
  /\ \A w \in Workers : pc[w] # "idle" => job[w] \in Deliveries

Init ==
  /\ peer = [d \in Deliveries |-> "due"]
  /\ posts = [d \in Deliveries |-> 0]
  /\ pc = [w \in Workers |-> "idle"]
  /\ job = [w \in Workers |-> NoDelivery]
  /\ waiting = [w \in Workers |-> FALSE]
  /\ delivered = {}
  /\ ran = [a \in Activities |-> 0]
  /\ forgotten = [a \in Activities |-> 0]

-----------------------------------------------------------------------------
(* The peer, which is external: the code shows what it takes from it.        *)

Retry(d) == IF posts[d] < MaxPosts THEN "due" ELSE "gaveUp"

\* Worker w is done with its request; if the peer still waits, it learns `to`.
Answer(w, to) ==
  /\ peer' = IF waiting[w] THEN [peer EXCEPT ![job[w]] = to] ELSE peer
  /\ waiting' = [waiting EXCEPT ![w] = FALSE]
  /\ pc' = [pc EXCEPT ![w] = "idle"]
  /\ job' = [job EXCEPT ![w] = NoDelivery]
  /\ UNCHANGED posts

Post(w, d) ==
  /\ pc[w] = "idle"
  /\ peer[d] = "due"
  /\ posts[d] < MaxPosts
  /\ peer' = [peer EXCEPT ![d] = "open"]
  /\ posts' = [posts EXCEPT ![d] = @ + 1]
  /\ waiting' = [waiting EXCEPT ![w] = TRUE]
  /\ pc' = [pc EXCEPT ![w] = "authenticate"]
  /\ job' = [job EXCEPT ![w] = d]
  /\ UNCHANGED dbVars

\* The peer's own timeout: the worker goes on, the peer posts again or stops.
PeerTimeout(w) ==
  /\ waiting[w]
  /\ waiting' = [waiting EXCEPT ![w] = FALSE]
  /\ peer' = [peer EXCEPT ![job[w]] = Retry(job[w])]
  /\ UNCHANGED <<posts, pc, job, dbVars>>

-----------------------------------------------------------------------------
(* A worker's request, one action for each point where others interleave.    *)

Activity(w) == ActivityOf(job[w])

\* w's transaction has inserted a's dedup row and has not ended.
HoldsRow(w, a) ==
  /\ pc[w] \in {"handler", "apply"}
  /\ a \in Keyed
  /\ Activity(w) = a

GoTo(w, step) == pc' = [pc EXCEPT ![w] = step]

\* 413, 404, 410 and 400 are final to the peer; 401 and 429 are retried.
Refuse(w) ==
  /\ pc[w] = "authenticate"
  /\ \E to \in {"dropped", Retry(job[w])} : Answer(w, to)
  /\ UNCHANGED dbVars

Verified(w) ==
  /\ pc[w] = "authenticate"
  /\ GoTo(w, IF Activity(w) \in Keyed THEN "lookup" ELSE "handler")
  /\ UNCHANGED <<peerVars, job, dbVars>>

\* Slip: the lookup takes another worker's uncommitted claim for a delivery.
Lookup_Dirty(w) ==
  /\ pc[w] = "lookup"
  /\ GoTo(w, IF \/ Activity(w) \in delivered
               \/ \E v \in Workers : HoldsRow(v, Activity(w))
             THEN "duplicate" ELSE "insert")
  /\ UNCHANGED <<peerVars, job, dbVars>>

\* get_or_create's SELECT sees committed rows only.
Lookup(w) ==
  /\ pc[w] = "lookup"
  /\ GoTo(w, IF Activity(w) \in delivered THEN "duplicate" ELSE "insert")
  /\ UNCHANGED <<peerVars, job, dbVars>>

\* Slip: a lookup with no unique index behind it.
Claim_NoIndex(w) ==
  /\ pc[w] = "insert"
  /\ GoTo(w, "handler")
  /\ UNCHANGED <<peerVars, job, dbVars>>

\* Slip: a refused insert is tried again instead of reading the winner's row.
Claim_Again(w) ==
  /\ pc[w] = "insert"
  /\ \A v \in Workers \ {w} : ~HoldsRow(v, Activity(w))
  /\ Activity(w) \notin delivered
  /\ GoTo(w, "handler")
  /\ UNCHANGED <<peerVars, job, dbVars>>

\* The INSERT waits out another transaction's claim; if that one committed, the
\* unique index refuses the row and get_or_create reads the winner's.
Claim(w) ==
  /\ pc[w] = "insert"
  /\ \A v \in Workers \ {w} : ~HoldsRow(v, Activity(w))
  /\ GoTo(w, IF Activity(w) \in delivered THEN "duplicate" ELSE "handler")
  /\ UNCHANGED <<peerVars, job, dbVars>>

\* The handler returned, or the type has none and is ignored.
HandlerReturns(w) ==
  /\ pc[w] = "handler"
  /\ GoTo(w, "apply")
  /\ UNCHANGED <<peerVars, job, dbVars>>

\* Slip: the dedup row is committed apart from the handler's effects.
HandlerRaises_RowKept(w) ==
  /\ pc[w] = "handler"
  /\ Activity(w) \in Handled
  /\ Answer(w, Retry(job[w]))
  /\ delivered' = delivered \cup ({Activity(w)} \cap Keyed)
  /\ UNCHANGED <<ran, forgotten>>

\* The handler raised: everything rolls back and the view answers 500.
HandlerRaises(w) ==
  /\ pc[w] = "handler"
  /\ Activity(w) \in Handled
  /\ Answer(w, Retry(job[w]))
  /\ UNCHANGED dbVars

\* Slip: a row is written for an activity that has no id.
CommitEffects_NoId(a) ==
  /\ delivered' = delivered \cup {a}
  /\ ran' = IF a \in Handled THEN [ran EXCEPT ![a] = @ + 1] ELSE ran

CommitEffects(a) ==
  /\ delivered' = IF a \in Keyed THEN delivered \cup {a} ELSE delivered
  /\ ran' = IF a \in Handled THEN [ran EXCEPT ![a] = @ + 1] ELSE ran

Commit(w) ==
  /\ pc[w] \in {"apply", "duplicate"}
  /\ IF pc[w] = "apply" THEN CommitEffects(Activity(w))
                        ELSE UNCHANGED <<delivered, ran>>
  /\ GoTo(w, "respond")
  /\ UNCHANGED <<peerVars, job, forgotten>>

Respond(w) ==
  /\ pc[w] = "respond"
  /\ Answer(w, "accepted")
  /\ UNCHANGED dbVars

\* The process dies: PostgreSQL rolls its transaction back, the peer sees the
\* connection close.
Crash(w) ==
  /\ pc[w] # "idle"
  /\ Answer(w, Retry(job[w]))
  /\ UNCHANGED dbVars

-----------------------------------------------------------------------------
\* prune_inbox deletes rows at least a day old; no request lives that long.
Prune(a) ==
  /\ a \in delivered
  /\ forgotten[a] < MaxPrunes
  /\ \A w \in Workers : pc[w] # "idle" => Activity(w) # a
  /\ delivered' = delivered \ {a}
  /\ forgotten' = [forgotten EXCEPT ![a] = @ + 1]
  /\ UNCHANGED <<peerVars, pc, job, ran>>

WorkerStep(w) ==
  \/ Refuse(w)
  \/ Verified(w)
  \/ Lookup(w)
  \/ Claim(w)
  \/ HandlerReturns(w)
  \/ HandlerRaises(w)
  \/ Commit(w)
  \/ Respond(w)

Next ==
  \/ \E w \in Workers, d \in Deliveries : Post(w, d)
  \/ \E w \in Workers : WorkerStep(w) \/ PeerTimeout(w) \/ Crash(w)
  \/ \E a \in Activities : Prune(a)

\* Threads run, and peers keep their retry schedule while they have POSTs left.
\* Nothing is assumed of crashes, timeouts or the prune.
Fairness ==
  /\ \A w \in Workers : WF_vars(WorkerStep(w))
  /\ \A d \in Deliveries : SF_vars(\E w \in Workers : Post(w, d))

Spec == Init /\ [][Next]_vars
FairSpec == Spec /\ Fairness

-----------------------------------------------------------------------------
(* Properties *)

\* The activity took effect, or was recorded as one this instance ignores.
Processed(a) ==
  IF a \in Keyed THEN a \in delivered \/ forgotten[a] > 0
                 ELSE a \in Handled => ran[a] > 0

\* An activity with an id has been applied once for each time its row was
\* written, whoever posts it, to however many inboxes, however often, through
\* crashes and failed handlers: the dedup row and the effects go together.
ExactlyOnceWhileRemembered ==
  \A a \in Keyed \cap Handled :
    ran[a] = forgotten[a] + (IF a \in delivered THEN 1 ELSE 0)

\* A peer is told 202 only when the activity has been processed, by this
\* request or an earlier one.  A worker that found the id taken must not answer
\* for a transaction that can still roll back, or the peer drops the only copy.
AcceptedMeansProcessed ==
  \A d \in Deliveries : peer[d] = "accepted" => Processed(ActivityOf(d))

\* At most one open transaction has claimed an activity's id, and none has when
\* the row is already there: two workers never run the same activity's handler
\* at once, so no handler sees the half-done work of its own duplicate.
ClaimIsExclusive ==
  \A a \in Keyed :
    /\ \A v, w \in Workers : HoldsRow(v, a) /\ HoldsRow(w, a) => v = w
    /\ \A w \in Workers : HoldsRow(w, a) => a \notin delivered

\* Workers serialised on one id all get through, whatever the others' handlers
\* do, so every delivery ends: accepted, refused for good, or given up.
EveryDeliverySettles ==
  \A d \in Deliveries : <>(peer[d] \in {"accepted", "dropped", "gaveUp"})

\* The transactional inbox with its crashes, failures and concurrent workers
\* implements the one-step promise of ExactlyOnce.
Promise == INSTANCE ExactlyOnce WITH known <- delivered, runs <- ran
ImplementsExactlyOnce == Promise!Spec

=============================================================================
