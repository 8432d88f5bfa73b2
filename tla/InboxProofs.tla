---------------------------- MODULE InboxProofs ----------------------------
(* The inbox's safety properties, and that it implements ExactlyOnce, for    *)
(* any number of workers, activities, inboxes and retries.                   *)
(*                                                                           *)
(* The three properties are not inductive one by one: that a commit runs a   *)
(* handler at most once per row rests on the exclusive claim, and that an    *)
(* answer is earned rests on what a worker knows between its lookup and its  *)
(* answer.  `IInv` is their conjunction with that last fact.                 *)
EXTENDS Inbox, TLAPS

\* A worker about to report a duplicate, or to answer, has a processed activity.
AnswersAreEarned ==
  \A w \in Workers :
    pc[w] \in {"duplicate", "respond"} => Processed(Activity(w))

IInv ==
  /\ TypeOK
  /\ ClaimIsExclusive
  /\ ExactlyOnceWhileRemembered
  /\ AnswersAreEarned
  /\ AcceptedMeansProcessed

USE InboxAssumption

-----------------------------------------------------------------------------
\* What the peer does next is one of its own states.
LEMMA RetryType == \A d : Retry(d) \in {"due", "gaveUp"}
  BY DEF Retry

\* The step of a worker that ends a request, whatever it tells the peer.
LEMMA AnswerType ==
  ASSUME TypeOK, NEW w \in Workers, NEW to \in PeerStates, pc[w] # "idle",
         Answer(w, to), UNCHANGED dbVars
  PROVE  TypeOK'
  BY DEF TypeOK, Answer, dbVars, PCs

\* Type correctness is preserved by every step of the inbox and of its peers.
LEMMA TypePreserved == TypeOK /\ [Next]_vars => TypeOK'
<1> SUFFICES ASSUME TypeOK, [Next]_vars PROVE TypeOK'
  OBVIOUS
<1> USE DEF PCs, PeerStates
<1>1. ASSUME NEW w \in Workers, NEW d \in Deliveries, Post(w, d) PROVE TypeOK'
  BY <1>1 DEF TypeOK, Post, dbVars
<1>2. ASSUME NEW w \in Workers, PeerTimeout(w) PROVE TypeOK'
  BY <1>2, RetryType DEF TypeOK, PeerTimeout, dbVars
<1>3. ASSUME NEW w \in Workers, Crash(w) PROVE TypeOK'
  BY <1>3, RetryType, AnswerType DEF Crash
<1>4. ASSUME NEW a \in Activities, Prune(a) PROVE TypeOK'
  BY <1>4 DEF TypeOK, Prune, peerVars
<1>5. ASSUME NEW w \in Workers, Refuse(w) PROVE TypeOK'
  BY <1>5, RetryType, AnswerType DEF Refuse
<1>6. ASSUME NEW w \in Workers, Verified(w) PROVE TypeOK'
  BY <1>6 DEF TypeOK, Verified, GoTo, peerVars, dbVars
<1>7. ASSUME NEW w \in Workers, Lookup(w) PROVE TypeOK'
  BY <1>7 DEF TypeOK, Lookup, GoTo, peerVars, dbVars
<1>8. ASSUME NEW w \in Workers, Claim(w) PROVE TypeOK'
  BY <1>8 DEF TypeOK, Claim, GoTo, peerVars, dbVars
<1>9. ASSUME NEW w \in Workers, HandlerReturns(w) PROVE TypeOK'
  BY <1>9 DEF TypeOK, HandlerReturns, GoTo, peerVars, dbVars
<1>10. ASSUME NEW w \in Workers, HandlerRaises(w) PROVE TypeOK'
  BY <1>10, RetryType, AnswerType DEF HandlerRaises
<1>11. ASSUME NEW w \in Workers, Commit(w) PROVE TypeOK'
  BY <1>11 DEF TypeOK, Commit, CommitEffects, GoTo, peerVars, Activity,
               ActivityOf, Deliveries
<1>12. ASSUME NEW w \in Workers, Respond(w) PROVE TypeOK'
  BY <1>12, AnswerType DEF Respond
<1>13. CASE UNCHANGED vars
  BY <1>13 DEF TypeOK, vars, peerVars, dbVars
<1> QED
  BY <1>1, <1>2, <1>3, <1>4, <1>5, <1>6, <1>7, <1>8, <1>9, <1>10, <1>11,
     <1>12, <1>13 DEF Next, WorkerStep

\* Processing is never undone: a prune turns "recorded" into "once forgotten".
LEMMA ProcessedStable ==
  ASSUME TypeOK, [Next]_vars, NEW a \in Activities, Processed(a)
  PROVE  Processed(a)'
<1>1. CASE UNCHANGED dbVars
  BY <1>1 DEF Processed, dbVars
<1>2. ASSUME NEW w \in Workers, Commit(w) PROVE Processed(a)'
  BY <1>2 DEF Processed, Commit, CommitEffects, TypeOK
<1>3. ASSUME NEW b \in Activities, Prune(b) PROVE Processed(a)'
  BY <1>3 DEF Processed, Prune, TypeOK
<1>4. [Next]_vars => \/ UNCHANGED dbVars
                     \/ \E w \in Workers : Commit(w)
                     \/ \E b \in Activities : Prune(b)
  BY DEF Next, WorkerStep, vars, Post, PeerTimeout, Crash, Refuse, Verified,
         Lookup, Claim, HandlerReturns, HandlerRaises, Respond, dbVars
<1> QED
  BY <1>1, <1>2, <1>3, <1>4

-----------------------------------------------------------------------------
\* The claim stays exclusive: only Claim makes one, when no other is open and
\* no row is committed, and only the claim's own commit writes the row.
LEMMA ExclusivePreserved ==
  TypeOK /\ ClaimIsExclusive /\ [Next]_vars => ClaimIsExclusive'
<1> SUFFICES ASSUME TypeOK, ClaimIsExclusive, [Next]_vars
             PROVE  ClaimIsExclusive'
  OBVIOUS
\* a step that opens no claim and writes no row keeps the claims it does not end
<1>1. ASSUME delivered' \subseteq delivered,
             \A w \in Workers, a \in Keyed : HoldsRow(w, a)' => HoldsRow(w, a)
      PROVE  ClaimIsExclusive'
  BY <1>1 DEF ClaimIsExclusive
<1>2. ASSUME NEW w \in Workers,
             \/ \E d \in Deliveries : Post(w, d)
             \/ PeerTimeout(w) \/ Crash(w) \/ Refuse(w) \/ Verified(w)
             \/ Lookup(w) \/ HandlerReturns(w) \/ HandlerRaises(w) \/ Respond(w)
      PROVE  ClaimIsExclusive'
  <2>1. delivered' = delivered
    BY <1>2 DEF Post, PeerTimeout, Crash, Refuse, Verified, Lookup,
                HandlerReturns, HandlerRaises, Respond, dbVars
  <2>2. \A v \in Workers, a \in Keyed : HoldsRow(v, a)' => HoldsRow(v, a)
    <3>1. CASE Verified(w)
      BY <3>1 DEF Verified, GoTo, HoldsRow, Activity, TypeOK
    <3>2. CASE ~Verified(w)
      BY <1>2, <3>2 DEF Post, PeerTimeout, Crash, Refuse, Lookup, HandlerReturns,
         HandlerRaises, Respond, Answer, GoTo, HoldsRow, Activity, TypeOK
    <3> QED BY <3>1, <3>2
  <2> QED BY <1>1, <2>1, <2>2
<1>3. ASSUME NEW w \in Workers, Claim(w) PROVE ClaimIsExclusive'
  BY <1>3 DEF Claim, GoTo, ClaimIsExclusive, HoldsRow, Activity, TypeOK, dbVars
<1>4. ASSUME NEW w \in Workers, Commit(w) PROVE ClaimIsExclusive'
  BY <1>4 DEF Commit, CommitEffects, GoTo, ClaimIsExclusive, HoldsRow, Activity,
              TypeOK
<1>5. ASSUME NEW a \in Activities, Prune(a) PROVE ClaimIsExclusive'
  BY <1>1, <1>5 DEF Prune, HoldsRow, Activity
<1>6. CASE UNCHANGED vars
  BY <1>1, <1>6 DEF vars, dbVars, HoldsRow, Activity
<1> QED
  BY <1>2, <1>3, <1>4, <1>5, <1>6 DEF Next, WorkerStep

\* Rows and effects keep step: a commit adds one of each, a prune moves a row
\* to the count of forgotten ones.
LEMMA ExactlyOncePreserved ==
  TypeOK /\ ClaimIsExclusive /\ ExactlyOnceWhileRemembered /\ [Next]_vars
    => ExactlyOnceWhileRemembered'
<1> SUFFICES ASSUME TypeOK, ClaimIsExclusive, ExactlyOnceWhileRemembered,
                    [Next]_vars
             PROVE  ExactlyOnceWhileRemembered'
  OBVIOUS
<1>1. CASE UNCHANGED dbVars
  BY <1>1 DEF ExactlyOnceWhileRemembered, dbVars
<1>2. ASSUME NEW w \in Workers, Commit(w) PROVE ExactlyOnceWhileRemembered'
  <2> DEFINE b == Activity(w)
  <2>1. CASE pc[w] = "apply"
    <3>1. b \in Keyed => b \notin delivered
      BY <2>1 DEF ClaimIsExclusive, HoldsRow
    <3>2. /\ delivered' = IF b \in Keyed THEN delivered \cup {b} ELSE delivered
          /\ ran' = IF b \in Handled THEN [ran EXCEPT ![b] = @ + 1] ELSE ran
          /\ forgotten' = forgotten
      BY <1>2, <2>1 DEF Commit, CommitEffects
    <3> QED
      BY <3>1, <3>2 DEF ExactlyOnceWhileRemembered, TypeOK
  <2>2. CASE pc[w] # "apply"
    BY <1>2, <2>2 DEF Commit, ExactlyOnceWhileRemembered
  <2> QED BY <2>1, <2>2
<1>3. ASSUME NEW a \in Activities, Prune(a) PROVE ExactlyOnceWhileRemembered'
  BY <1>3 DEF Prune, ExactlyOnceWhileRemembered, TypeOK
<1>4. [Next]_vars => \/ UNCHANGED dbVars
                     \/ \E w \in Workers : Commit(w)
                     \/ \E a \in Activities : Prune(a)
  BY DEF Next, WorkerStep, vars, Post, PeerTimeout, Crash, Refuse, Verified,
         Lookup, Claim, HandlerReturns, HandlerRaises, Respond, dbVars
<1> QED
  BY <1>1, <1>2, <1>3, <1>4

\* A worker turns to reporting a duplicate only where it sees a committed row,
\* and to answering after its own commit or such a report.
LEMMA EarnedPreserved ==
  TypeOK /\ AnswersAreEarned /\ [Next]_vars => AnswersAreEarned'
<1> SUFFICES ASSUME TypeOK, AnswersAreEarned, [Next]_vars,
                    NEW v \in Workers, pc'[v] \in {"duplicate", "respond"}
             PROVE  Processed(Activity(v))'
  BY DEF AnswersAreEarned
<1> USE DEF PCs
<1>1. CASE pc[v] \in {"duplicate", "respond"} /\ job'[v] = job[v]
  <2>1. Activity(v) \in Activities /\ Processed(Activity(v))
    BY <1>1 DEF AnswersAreEarned, TypeOK, Activity, ActivityOf, Deliveries
  <2>2. Activity(v)' = Activity(v)
    BY <1>1 DEF Activity
  <2> QED BY <2>1, <2>2, ProcessedStable DEF Processed
<1>2. ASSUME Lookup(v) \/ Claim(v) PROVE Processed(Activity(v))'
  <2>1. Activity(v)' \in delivered' /\ delivered' \subseteq Keyed
    BY <1>2 DEF Lookup, Claim, GoTo, Activity, TypeOK, dbVars
  <2> QED BY <2>1 DEF Processed
<1>3. ASSUME Commit(v), pc[v] = "apply" PROVE Processed(Activity(v))'
  <2>1. Activity(v)' = Activity(v) /\ Activity(v) \in Activities
    BY <1>3 DEF Commit, Activity, TypeOK, ActivityOf, Deliveries
  <2>2. CommitEffects(Activity(v))
    BY <1>3 DEF Commit
  <2>3. /\ Activity(v) \in Keyed => Activity(v) \in delivered'
        /\ Activity(v) \in Handled => ran'[Activity(v)] > 0
    BY <2>1, <2>2 DEF CommitEffects, TypeOK
  <2> QED BY <2>1, <2>3 DEF Processed
<1>4. \/ pc[v] \in {"duplicate", "respond"} /\ job'[v] = job[v]
      \/ Lookup(v) \/ Claim(v)
      \/ Commit(v) /\ pc[v] = "apply"
  <2>1. CASE UNCHANGED vars
    BY <2>1 DEF vars
  <2>2. ASSUME NEW a \in Activities, Prune(a)
        PROVE pc[v] \in {"duplicate", "respond"} /\ job'[v] = job[v]
    BY <2>2 DEF Prune
  <2>3. ASSUME NEW w \in Workers, NEW d \in Deliveries, Post(w, d)
        PROVE pc[v] \in {"duplicate", "respond"} /\ job'[v] = job[v]
    BY <2>3 DEF Post, TypeOK
  <2>4. ASSUME NEW w \in Workers, PeerTimeout(w) \/ Crash(w) \/ Refuse(w)
                 \/ Verified(w) \/ HandlerReturns(w) \/ HandlerRaises(w)
                 \/ Respond(w)
        PROVE pc[v] \in {"duplicate", "respond"} /\ job'[v] = job[v]
    BY <2>4 DEF PeerTimeout, Crash, Refuse, Verified, HandlerReturns,
                HandlerRaises, Respond, Answer, GoTo, TypeOK
  <2>5. ASSUME NEW w \in Workers, Lookup(w) \/ Claim(w) \/ Commit(w)
        PROVE  \/ pc[v] \in {"duplicate", "respond"} /\ job'[v] = job[v]
               \/ Lookup(v) \/ Claim(v)
               \/ Commit(v) /\ pc[v] = "apply"
    BY <2>5 DEF Lookup, Claim, Commit, GoTo, TypeOK
  <2> QED
    BY <2>1, <2>2, <2>3, <2>4, <2>5 DEF Next, WorkerStep
<1> QED
  BY <1>1, <1>2, <1>3, <1>4

\* Only Respond tells a peer 202, and it does so for a processed activity.
LEMMA AcceptedPreserved ==
  TypeOK /\ AnswersAreEarned /\ AcceptedMeansProcessed /\ [Next]_vars
    => AcceptedMeansProcessed'
<1> SUFFICES ASSUME TypeOK, AnswersAreEarned, AcceptedMeansProcessed,
                    [Next]_vars, NEW d \in Deliveries, peer'[d] = "accepted"
             PROVE  Processed(ActivityOf(d))'
  BY DEF AcceptedMeansProcessed
<1>1. ActivityOf(d) \in Activities
  BY DEF Deliveries, ActivityOf
<1>2. CASE peer[d] = "accepted"
  BY <1>1, <1>2, ProcessedStable DEF AcceptedMeansProcessed
<1>3. ASSUME NEW w \in Workers, Respond(w), peer[d] # "accepted"
      PROVE  Processed(ActivityOf(d))'
  <2>1. job[w] = d
    BY <1>3 DEF Respond, Answer, TypeOK
  <2> QED
    BY <1>1, <1>3, <2>1, ProcessedStable DEF Respond, AnswersAreEarned, Activity
<1>4. peer[d] = "accepted" \/ \E w \in Workers : Respond(w)
  <2>1. ASSUME NEW w \in Workers, NEW to \in {"dropped", "due", "gaveUp"},
               Answer(w, to)
        PROVE  peer[d] = "accepted"
    BY <2>1 DEF Answer, TypeOK
  <2>2. ASSUME NEW w \in Workers, Refuse(w) \/ HandlerRaises(w) \/ Crash(w)
        PROVE  peer[d] = "accepted"
    BY <2>1, <2>2, RetryType DEF Refuse, HandlerRaises, Crash
  <2>3. ASSUME NEW w \in Workers, PeerTimeout(w) PROVE peer[d] = "accepted"
    BY <2>3, RetryType DEF PeerTimeout, TypeOK
  <2>4. ASSUME NEW w \in Workers, NEW e \in Deliveries, Post(w, e)
        PROVE  peer[d] = "accepted"
    BY <2>4 DEF Post, TypeOK
  <2>5. CASE UNCHANGED peer
    BY <2>5
  <2> QED
    BY <2>2, <2>3, <2>4, <2>5 DEF Next, WorkerStep, vars, peerVars, Verified,
       Lookup, Claim, HandlerReturns, Commit, Prune
<1> QED
  BY <1>2, <1>3, <1>4

-----------------------------------------------------------------------------
LEMMA InitIInv == Init => IInv
  BY DEF Init, IInv, TypeOK, ClaimIsExclusive, HoldsRow,
         ExactlyOnceWhileRemembered, AnswersAreEarned, AcceptedMeansProcessed,
         PCs, PeerStates

\* The inductive invariant of the inbox.
THEOREM Inductive == Spec => []IInv
<1>1. IInv /\ [Next]_vars => IInv'
  BY TypePreserved, ExclusivePreserved, ExactlyOncePreserved, EarnedPreserved,
     AcceptedPreserved DEF IInv
<1> QED
  BY InitIInv, <1>1, PTL DEF Spec

\* Every state of the inbox, the peers and the dedup table is well formed.
THEOREM TypeCorrect == Spec => []TypeOK
<1>1. IInv => TypeOK
  BY DEF IInv
<1> QED BY <1>1, Inductive, PTL

\* For any number of workers and any pattern of retries, timeouts, crashes and
\* failing handlers, an activity with an id takes effect exactly once for each
\* life of its dedup row.
THEOREM ExactlyOnceHolds == Spec => []ExactlyOnceWhileRemembered
<1>1. IInv => ExactlyOnceWhileRemembered
  BY DEF IInv
<1> QED BY <1>1, Inductive, PTL

\* A peer that was told 202 never lost its activity to a rolled-back duplicate.
THEOREM AcceptedHolds == Spec => []AcceptedMeansProcessed
<1>1. IInv => AcceptedMeansProcessed
  BY DEF IInv
<1> QED BY <1>1, Inductive, PTL

\* Two workers never run one activity's handler at the same time.
THEOREM ClaimHolds == Spec => []ClaimIsExclusive
<1>1. IInv => ClaimIsExclusive
  BY DEF IInv
<1> QED BY <1>1, Inductive, PTL

\* The inbox implements the one-step promise: a commit is the step that takes
\* the activity, a prune the one that forgets it, and all else is invisible.
THEOREM Refinement == Spec => ImplementsExactlyOnce
<1>1. Init => Promise!Init
  BY DEF Init, Promise!Init
<1>2. IInv /\ [Next]_vars => [Promise!Next]_(Promise!absVars)
  <2> SUFFICES ASSUME IInv, [Next]_vars
               PROVE  [Promise!Next]_(Promise!absVars)
    OBVIOUS
  <2> USE DEF Promise!Next, Promise!absVars
  <2>1. CASE UNCHANGED dbVars
    BY <2>1 DEF dbVars
  <2>2. ASSUME NEW w \in Workers, Commit(w)
        PROVE  [Promise!Next]_(Promise!absVars)
    <3>1. CASE pc[w] = "apply"
      <4>1. Activity(w) \in Activities
        BY <3>1 DEF IInv, TypeOK, Activity, ActivityOf, Deliveries
      <4>2. Activity(w) \in Keyed => Activity(w) \notin delivered
        BY <3>1 DEF IInv, ClaimIsExclusive, HoldsRow
      <4>3. CommitEffects(Activity(w))
        BY <2>2, <3>1 DEF Commit
      <4> QED
        BY <4>1, <4>2, <4>3 DEF CommitEffects, Promise!Take,
           Promise!TakeUnkeyed, Promise!Effect
    <3>2. CASE pc[w] # "apply"
      BY <2>2, <3>2 DEF Commit
    <3> QED BY <3>1, <3>2
  <2>3. ASSUME NEW a \in Activities, Prune(a)
        PROVE  [Promise!Next]_(Promise!absVars)
    BY <2>3 DEF Prune, Promise!Forget
  <2>4. \/ UNCHANGED dbVars
        \/ \E w \in Workers : Commit(w)
        \/ \E a \in Activities : Prune(a)
    BY DEF Next, WorkerStep, vars, Post, PeerTimeout, Crash, Refuse, Verified,
           Lookup, Claim, HandlerReturns, HandlerRaises, Respond, dbVars
  <2> QED
    BY <2>1, <2>2, <2>3, <2>4
<1> QED
  BY <1>1, <1>2, Inductive, PTL DEF Spec, ImplementsExactlyOnce, Promise!Spec
============================================================================
