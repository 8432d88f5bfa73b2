------------------------------ MODULE Follow ------------------------------
(* One member of a home instance follows and unfollows one member of an away *)
(* instance, both running this code.                                         *)
(*                                                                           *)
(* The home page records the row, then POSTs the signed Follow or Undo and   *)
(* waits.  The away inbox handles it in one transaction, from inside which   *)
(* it POSTs the Accept or Reject back to the home inbox and waits in turn:   *)
(* three requests are open at once, and each can fail or be slow by itself.  *)
(* Neither side ever sends anything again.                                   *)
(*                                                                           *)
(* The dedup of activity ids is left to `Inbox`: every Follow, Undo, Accept  *)
(* and Reject has an id of its own, and none of them is sent twice.          *)
EXTENDS Naturals, FiniteSets

CONSTANTS
  Requests,     \* the clicks, each a request to the home instance
  None,         \* the home row is absent
  MaxOpen,      \* bound: clicks the member has open at once (tabs)
  MaxFaults,    \* bound: failed or late deliveries
  MaxBlockings  \* bound: times the followed member blocks the follower

ASSUME FollowAssumption ==
  /\ None \notin Requests
  /\ IsFiniteSet(Requests)
  /\ MaxOpen \in Nat /\ MaxFaults \in Nat /\ MaxBlockings \in Nat

VARIABLES
  held,       \* home row: the last Follow it stands for, or None if absent
  followers,  \* away row, committed
  blocks,     \* away: the followed member blocks the follower
  notes,      \* away: FOLLOW notifications, committed
  kind,       \* each click: "follow" or "undo"
  page,       \* each click's request at home
  told,       \* what its page told the member
  tx,         \* its activity at the away inbox
  verdict,    \* how that inbox answers its Follow
  inserted,   \* whether that transaction has inserted the away row
  answers,    \* Accepts and Rejects on their way to the home inbox
  blockings,
  faults,
  alone       \* no click was ever made while another was still open

home == <<held, kind, page, told>>
away == <<followers, notes, tx, verdict, inserted>>
vars == <<home, away, blocks, answers, blockings, faults, alone>>

Pages == {"free", "checked", "posting", "waiting", "done"}
Txs == {"none", "arrived", "adding", "answering", "ok", "failed"}

\* "quiet" is an accept whose notification a block withheld.
Verdicts == {"none", "accept", "quiet", "reject"}

TypeOK ==
  /\ held \in Requests \cup {None}
  /\ followers \in BOOLEAN
  /\ blocks \in BOOLEAN
  /\ notes \in 0..Cardinality(Requests)
  /\ kind \in [Requests -> {"follow", "undo"}]
  /\ page \in [Requests -> Pages]
  /\ told \in [Requests -> {"nothing", "success", "warning"}]
  /\ tx \in [Requests -> Txs]
  /\ verdict \in [Requests -> Verdicts]
  /\ inserted \in [Requests -> BOOLEAN]
  /\ answers \in SUBSET Requests
  /\ blockings \in 0..MaxBlockings
  /\ faults \in 0..MaxFaults
  /\ alone \in BOOLEAN

Init ==
  /\ held = None
  /\ followers = FALSE
  /\ blocks = FALSE
  /\ notes = 0
  /\ kind = [r \in Requests |-> "follow"]
  /\ page = [r \in Requests |-> "free"]
  /\ told = [r \in Requests |-> "nothing"]
  /\ tx = [r \in Requests |-> "none"]
  /\ verdict = [r \in Requests |-> "none"]
  /\ inserted = [r \in Requests |-> FALSE]
  /\ answers = {}
  /\ blockings = 0
  /\ faults = 0
  /\ alone = TRUE

Fault == faults < MaxFaults /\ faults' = faults + 1

-----------------------------------------------------------------------------
(* Home: user_follow and user_unfollow.                                      *)

Open == {r \in Requests : page[r] \notin {"free", "done"}}

\* unfollow_user looks for the row first, and stops when there is none.
Click(r, k) ==
  /\ page[r] = "free"
  /\ Cardinality(Open) < MaxOpen
  /\ kind' = [kind EXCEPT ![r] = k]
  /\ page' = [page EXCEPT ![r] = IF k = "undo" /\ held = None THEN "done"
                                                              ELSE "checked"]
  /\ alone' = (alone /\ Open = {})
  /\ UNCHANGED <<held, told, away, blocks, answers, blockings, faults>>

\* Slip: an unfollow only sends the Undo and leaves its own row.
Record_UndoForgotten(r) ==
  /\ page[r] = "checked"
  /\ held' = IF kind[r] = "follow" THEN r ELSE held
  /\ page' = [page EXCEPT ![r] = "posting"]
  /\ UNCHANGED <<kind, told, away, blocks, answers, blockings, faults, alone>>

\* The row comes before the delivery.  One that is there already stays, and
\* stands for the newer Follow too.
Record(r) ==
  /\ page[r] = "checked"
  /\ held' = IF kind[r] = "undo" THEN None ELSE r
  /\ page' = [page EXCEPT ![r] = "posting"]
  /\ UNCHANGED <<kind, told, away, blocks, answers, blockings, faults, alone>>

\* The POST reaches the away inbox.
Deliver(r) ==
  /\ page[r] = "posting"
  /\ page' = [page EXCEPT ![r] = "waiting"]
  /\ tx' = [tx EXCEPT ![r] = "arrived"]
  /\ UNCHANGED <<held, kind, told, followers, notes, verdict, inserted,
                 blocks, answers, blockings, faults, alone>>

\* A RequestException: the instance is down, or its answer did not come in time.
Undelivered(r) ==
  /\ page[r] \in {"posting", "waiting"}
  /\ Fault
  /\ page' = [page EXCEPT ![r] = "done"]
  /\ told' = [told EXCEPT ![r] = "warning"]
  /\ UNCHANGED <<held, kind, away, blocks, answers, blockings, alone>>

\* Any response at all, a 500 like a 202, is a success on the page.
Finish(r) ==
  /\ page[r] = "waiting"
  /\ tx[r] \in {"ok", "failed"}
  /\ page' = [page EXCEPT ![r] = "done"]
  /\ told' = [told EXCEPT ![r] = "success"]
  /\ UNCHANGED <<held, kind, away, blocks, answers, blockings, faults, alone>>

\* Slip: the home request keeps its row locked until its POST returns, so the
\* Reject that comes back from within that POST waits for it.
HandleAnswer_RowLocked(r) ==
  /\ r \in answers
  /\ verdict[r] = "reject" => page[r] = "done"
  /\ answers' = answers \ {r}
  /\ held' = IF verdict[r] = "reject" THEN None ELSE held
  /\ UNCHANGED <<kind, page, told, away, blocks, blockings, faults, alone>>

\* handle_accept changes nothing; handle_reject removes the row that is there,
\* whichever Follow it was recorded for.
HandleAnswer(r) ==
  /\ r \in answers
  /\ answers' = answers \ {r}
  /\ held' = IF verdict[r] = "reject" THEN None ELSE held
  /\ UNCHANGED <<kind, page, told, away, blocks, blockings, faults, alone>>

-----------------------------------------------------------------------------
(* Away: the inbox's transaction for each activity, and the block buttons.   *)

\* The inbox cannot resolve the sender, or its worker fails before it answers.
AwayRefuses(r) ==
  /\ tx[r] \in {"arrived", "adding"}
  /\ Fault
  /\ tx' = [tx EXCEPT ![r] = "failed"]
  /\ UNCHANGED <<home, followers, notes, verdict, inserted, blocks, answers,
                 blockings, alone>>

\* A blocked sender is rejected and gets no row; that answer goes out at once.
HandleFollow(r) ==
  /\ tx[r] = "arrived" /\ kind[r] = "follow"
  /\ tx' = [tx EXCEPT ![r] = IF blocks THEN "answering" ELSE "adding"]
  /\ verdict' = [verdict EXCEPT ![r] = IF blocks THEN "reject" ELSE "none"]
  /\ answers' = IF blocks THEN answers \cup {r} ELSE answers
  /\ UNCHANGED <<home, followers, notes, inserted, blocks, blockings, faults,
                 alone>>

\* notify looks at the blocks again.
NoteVerdict == IF blocks THEN "quiet" ELSE "accept"

\* Slip: the notification is written outside the transaction, and inside it too.
AddFollower_NoteApart(r) ==
  /\ tx[r] = "adding"
  /\ inserted' = [inserted EXCEPT ![r] = ~followers]
  /\ verdict' = [verdict EXCEPT ![r] = NoteVerdict]
  /\ notes' = notes + 1
  /\ tx' = [tx EXCEPT ![r] = "answering"]
  /\ answers' = answers \cup {r}
  /\ UNCHANGED <<home, followers, blocks, blockings, faults, alone>>

\* The insert does nothing when a committed row is there, and waits for another
\* open transaction that has inserted it.  The Accept goes out at once, before
\* the commit.
AddFollower(r) ==
  /\ tx[r] = "adding"
  /\ followers \/ \A q \in Requests : ~inserted[q]
  /\ inserted' = [inserted EXCEPT ![r] = ~followers]
  /\ verdict' = [verdict EXCEPT ![r] = NoteVerdict]
  /\ tx' = [tx EXCEPT ![r] = "answering"]
  /\ answers' = answers \cup {r}
  /\ UNCHANGED <<home, followers, notes, blocks, blockings, faults, alone>>

\* handle_undo removes the committed row; one not yet committed is not seen.
HandleUndo(r) ==
  /\ tx[r] = "arrived" /\ kind[r] = "undo"
  /\ followers' = FALSE
  /\ tx' = [tx EXCEPT ![r] = "ok"]
  /\ UNCHANGED <<home, notes, verdict, inserted, blocks, answers, blockings,
                 faults, alone>>

\* The home inbox has answered, whatever its status: row and note commit.
CommitFollow(r) ==
  /\ tx[r] = "answering"
  /\ r \notin answers
  /\ tx' = [tx EXCEPT ![r] = "ok"]
  /\ followers' = (followers \/ inserted[r])
  /\ inserted' = [inserted EXCEPT ![r] = FALSE]
  /\ notes' = IF verdict[r] = "accept" THEN notes + 1 ELSE notes
  /\ UNCHANGED <<home, verdict, blocks, answers, blockings, faults, alone>>

\* The answer could not be delivered, or was not answered in time: all of the
\* transaction is rolled back, and the answer may still be handled at home.
AnswerFails(r) ==
  /\ tx[r] = "answering"
  /\ Fault
  /\ tx' = [tx EXCEPT ![r] = "failed"]
  /\ inserted' = [inserted EXCEPT ![r] = FALSE]
  /\ answers' \in {answers, answers \ {r}}
  /\ UNCHANGED <<home, followers, notes, verdict, blocks, blockings, alone>>

\* The home inbox refuses the answer: to the away side that is an answer.
AnswerRefused(r) ==
  /\ tx[r] = "answering" /\ r \in answers
  /\ Fault
  /\ answers' = answers \ {r}
  /\ UNCHANGED <<home, away, blocks, blockings, alone>>

\* Blocking changes the block row only; it takes no follow away.
Block ==
  /\ ~blocks /\ blockings < MaxBlockings
  /\ blocks' = TRUE
  /\ blockings' = blockings + 1
  /\ UNCHANGED <<home, away, answers, faults, alone>>

Unblock ==
  /\ blocks
  /\ blocks' = FALSE
  /\ UNCHANGED <<home, away, answers, blockings, faults, alone>>

-----------------------------------------------------------------------------
Progress(r) ==
  \/ Record(r)
  \/ Deliver(r)
  \/ HandleFollow(r)
  \/ AddFollower(r)
  \/ HandleUndo(r)
  \/ HandleAnswer(r)
  \/ CommitFollow(r)
  \/ Finish(r)

Next ==
  \/ \E r \in Requests :
       \/ \E k \in {"follow", "undo"} : Click(r, k)
       \/ Progress(r)
       \/ Undelivered(r)
       \/ AwayRefuses(r)
       \/ AnswerFails(r)
       \/ AnswerRefused(r)
  \/ Block
  \/ Unblock

Spec == Init /\ [][Next]_vars

\* Requests that have begun go on; clicks, blocks and faults need not happen.
FairSpec == Spec /\ \A r \in Requests : WF_vars(Progress(r))

-----------------------------------------------------------------------------
(* Properties *)

Quiet ==
  /\ Open = {} /\ answers = {}
  /\ \A r \in Requests : tx[r] \in {"none", "ok", "failed"}

\* A member who waits for each page, over a network that has not failed: when
\* nothing is under way the two instances agree on the follow, except that a
\* block may have left the away side with a row its rejection took from home.
SettledAgreement ==
  Quiet /\ alone /\ faults = 0 =>
    /\ held # None => followers
    /\ followers => held # None \/ blockings > 0

\* Row and notification commit together: there is one note for each Follow that
\* was accepted and committed, none for one that was rolled back and none for a
\* rejected one.  Nobody is a follower without the member having been told,
\* unless the member blocked them while the Follow was being handled.
NotedWithRow ==
  /\ notes = Cardinality({r \in Requests : tx[r] = "ok" /\ verdict[r] = "accept"})
  /\ followers => notes > 0 \/ blockings > 0

\* Three nested requests never wait on each other for ever: each click's page
\* comes back, though its answer is handled inside the POST it is waiting for.
EveryClickReturns ==
  \A r \in Requests : page[r] # "free" ~> page[r] = "done"

-----------------------------------------------------------------------------
(* What documents say and the code does otherwise.  README tells how each    *)
(* fails; a run shows the first.                                             *)

\* activitypub/follow.py:14-15: "an Undo whose object is a Follow removes it":
\* with every delivery answered, a member who unfollowed is no follower.
UndoneMeansRemoved ==
  Quiet /\ held = None /\ faults = 0 /\ blockings = 0 => ~followers

\* social/views.py:822-825: "the only failure mode is the delivery itself hitting
\* a down home instance ... the local state stands and a warning says the
\* remote's copy lags": told of success, the member is known to the other side.
SuccessMeansProcessed == \A r \in Requests : told[r] = "success" => tx[r] = "ok"

\* activitypub/follow.py:68-70: "the follower matches this answer to the request
\* it is holding by that activity's id": a Reject ends the follow it answers.
RejectEndsItsFollow ==
  [][\A r \in Requests :
       HandleAnswer(r) /\ held # None /\ held' = None => held = r]_vars
=============================================================================
