------------------------------ MODULE Shelves ------------------------------
(* One member and one film: the Watchlist row, the Watched row and the       *)
(* member's reviews, under requests from several tabs at once.               *)
(*                                                                           *)
(* mark_watched is one transaction; shelving, unshelving and deleting a      *)
(* review are autocommitted statements, each acting on what an earlier one   *)
(* read.  PostgreSQL (external) shows a statement the rows committed before  *)
(* it, and makes a write wait for an open transaction that wrote that row    *)
(* or inserted that key.                                                     *)
(*                                                                           *)
(* Rows are named by the request that inserted them, and a review's text by  *)
(* the request that wrote it.                                                *)
EXTENDS Naturals, FiniteSets

CONSTANTS
  Requests,  \* the member's requests
  None,
  MaxOpen    \* bound: requests open at once; 1 is a member with one tab

ASSUME ShelvesAssumption == None \notin Requests /\ MaxOpen \in Nat

VARIABLES
  onRead,    \* the Watched row is there
  onWatch,   \* the Watchlist row, or None
  review,    \* reviews: not written, live, or a tombstone
  text,      \* whose text and rating each review row carries
  kind,      \* what each request asks for
  pc,        \* where each request is
  sawReview, \* the live review it read
  sawRow,    \* the Watchlist row it read
  insRead,   \* its open transaction has inserted the Watched row
  delRow,    \* ... has deleted this Watchlist row
  wrote,     \* ... has written this review row; its own name is an insert
  alone      \* no request ever began while another was open

db   == <<onRead, onWatch, review, text>>
tx   == <<insRead, delRow, wrote>>
vars == <<db, kind, pc, sawReview, sawRow, tx, alone>>

Kinds == {"mark", "delete", "shelve", "unshelve"}
PCs == {"free", "look", "shelveRead", "clearWatchlist", "writeReview", "commit",
        "tombstone", "insertRow", "deleteRow", "ok", "refused", "error"}
MaybeRequest == Requests \cup {None}

TypeOK ==
  /\ onRead \in BOOLEAN /\ onWatch \in MaybeRequest
  /\ review \in [Requests -> {"none", "live", "tomb"}]
  /\ text \in [Requests -> MaybeRequest]
  /\ kind \in [Requests -> Kinds]
  /\ pc \in [Requests -> PCs]
  /\ sawReview \in [Requests -> MaybeRequest]
  /\ sawRow \in [Requests -> MaybeRequest]
  /\ insRead \in [Requests -> BOOLEAN]
  /\ delRow \in [Requests -> MaybeRequest]
  /\ wrote \in [Requests -> MaybeRequest]
  /\ alone \in BOOLEAN
  /\ \A r \in Requests :
       /\ pc[r] = "tombstone" => sawReview[r] # None
       /\ pc[r] = "deleteRow" => sawRow[r] # None
       /\ wrote[r] # None => pc[r] = "commit"

Init ==
  /\ onRead = FALSE /\ onWatch = None
  /\ review = [r \in Requests |-> "none"]
  /\ text = [r \in Requests |-> None]
  /\ kind = [r \in Requests |-> "mark"]
  /\ pc = [r \in Requests |-> "free"]
  /\ sawReview = [r \in Requests |-> None]
  /\ sawRow = [r \in Requests |-> None]
  /\ insRead = [r \in Requests |-> FALSE]
  /\ delRow = [r \in Requests |-> None]
  /\ wrote = [r \in Requests |-> None]
  /\ alone = TRUE

Ended == {"ok", "refused", "error"}
Open == {r \in Requests : pc[r] \notin Ended \cup {"free"}}
LiveReviews == {v \in Requests : review[v] = "live"}
LiveReview == IF LiveReviews = {} THEN None ELSE CHOOSE v \in LiveReviews : TRUE

Goto(r, step) == pc' = [pc EXCEPT ![r] = step]

\* What a commit and a rollback both do with a transaction's own writes.
TxEnds(r) ==
  /\ insRead' = [insRead EXCEPT ![r] = FALSE]
  /\ delRow' = [delRow EXCEPT ![r] = None]
  /\ wrote' = [wrote EXCEPT ![r] = None]

Begin(r, k) ==
  /\ pc[r] = "free"
  /\ Cardinality(Open) < MaxOpen
  /\ kind' = [kind EXCEPT ![r] = k]
  /\ Goto(r, "look")
  /\ alone' = (alone /\ Open = {})
  /\ UNCHANGED <<db, sawReview, sawRow, tx>>

-----------------------------------------------------------------------------
(* mark_watched, one statement at a time inside its transaction.             *)

MarkLook(r) ==
  /\ pc[r] = "look" /\ kind[r] = "mark"
  /\ sawReview' = [sawReview EXCEPT ![r] = LiveReview]
  /\ Goto(r, "shelveRead")
  /\ UNCHANGED <<db, kind, sawRow, tx, alone>>

ShelveRead(r) ==
  /\ pc[r] = "shelveRead"
  /\ onRead \/ \A q \in Requests : ~insRead[q]
  /\ insRead' = [insRead EXCEPT ![r] = ~onRead]
  /\ Goto(r, "clearWatchlist")
  /\ UNCHANGED <<db, kind, sawReview, sawRow, delRow, wrote, alone>>

\* Slip: the film is put on Watched and left on the Watchlist.
ClearWatchlist_Skipped(r) ==
  /\ pc[r] = "clearWatchlist"
  /\ Goto(r, "writeReview")
  /\ UNCHANGED <<db, kind, sawReview, sawRow, tx, alone>>

ClearWatchlist(r) ==
  /\ pc[r] = "clearWatchlist"
  /\ onWatch # None => \A q \in Requests : delRow[q] # onWatch
  /\ delRow' = [delRow EXCEPT ![r] = onWatch]
  /\ Goto(r, "writeReview")
  /\ UNCHANGED <<db, kind, sawReview, sawRow, insRead, wrote, alone>>

\* The review found is saved whatever became of it since.
UpdateReview(r) ==
  /\ pc[r] = "writeReview" /\ sawReview[r] # None
  /\ \A q \in Requests : wrote[q] # sawReview[r]
  /\ wrote' = [wrote EXCEPT ![r] = sawReview[r]]
  /\ Goto(r, "commit")
  /\ UNCHANGED <<db, kind, sawReview, sawRow, insRead, delRow, alone>>

\* The same rating and no new text: there is nothing to save.
NothingToSave(r) ==
  /\ pc[r] = "writeReview" /\ sawReview[r] # None
  /\ Goto(r, "commit")
  /\ UNCHANGED <<db, kind, sawReview, sawRow, tx, alone>>

Inserting == {q \in Requests : wrote[q] = q}

\* Slip: nothing in the schema keeps a second live review out.
InsertReview_NoConstraint(r) ==
  /\ pc[r] = "writeReview" /\ sawReview[r] = None
  /\ wrote' = [wrote EXCEPT ![r] = r]
  /\ Goto(r, "commit")
  /\ UNCHANGED <<db, kind, sawReview, sawRow, insRead, delRow, alone>>

\* Slip: a refused insert is tried again.
InsertReview_Again(r) ==
  /\ pc[r] = "writeReview" /\ sawReview[r] = None
  /\ Inserting = {} /\ LiveReviews = {}
  /\ wrote' = [wrote EXCEPT ![r] = r]
  /\ Goto(r, "commit")
  /\ UNCHANGED <<db, kind, sawReview, sawRow, insRead, delRow, alone>>

\* The partial unique index waits for another insert, and refuses a second
\* live review: the IntegrityError is not caught and rolls everything back.
InsertReview(r) ==
  /\ pc[r] = "writeReview" /\ sawReview[r] = None
  /\ Inserting = {}
  /\ IF LiveReviews = {}
     THEN /\ wrote' = [wrote EXCEPT ![r] = r]
          /\ Goto(r, "commit")
          /\ UNCHANGED <<insRead, delRow>>
     ELSE TxEnds(r) /\ Goto(r, "error")
  /\ UNCHANGED <<db, kind, sawReview, sawRow, alone>>

\* Slip: the Watched row is not part of the transaction's commit.
Commit_ReviewOnly(r) ==
  /\ pc[r] = "commit"
  /\ onWatch' = IF delRow[r] = onWatch THEN None ELSE onWatch
  /\ review' = IF wrote[r] = r THEN [review EXCEPT ![r] = "live"] ELSE review
  /\ text' = IF wrote[r] = None THEN text ELSE [text EXCEPT ![wrote[r]] = r]
  /\ TxEnds(r)
  /\ Goto(r, "ok")
  /\ UNCHANGED <<onRead, kind, sawReview, sawRow, alone>>

Commit(r) ==
  /\ pc[r] = "commit"
  /\ onRead' = (onRead \/ insRead[r])
  /\ onWatch' = IF delRow[r] = onWatch THEN None ELSE onWatch
  /\ review' = IF wrote[r] = r THEN [review EXCEPT ![r] = "live"] ELSE review
  /\ text' = IF wrote[r] = None THEN text ELSE [text EXCEPT ![wrote[r]] = r]
  /\ TxEnds(r)
  /\ Goto(r, "ok")
  /\ UNCHANGED <<kind, sawReview, sawRow, alone>>

-----------------------------------------------------------------------------
(* The autocommitted requests: a look, then a statement.                     *)

\* Slip: the delete goes on when there is no live review.
DeleteLook_NoCheck(r) ==
  /\ pc[r] = "look" /\ kind[r] = "delete"
  /\ sawReview' = [sawReview EXCEPT ![r] = LiveReview]
  /\ Goto(r, "tombstone")
  /\ UNCHANGED <<db, kind, sawRow, tx, alone>>

DeleteLook(r) ==
  /\ pc[r] = "look" /\ kind[r] = "delete"
  /\ sawReview' = [sawReview EXCEPT ![r] = LiveReview]
  /\ Goto(r, IF LiveReview = None THEN "refused" ELSE "tombstone")
  /\ UNCHANGED <<db, kind, sawRow, tx, alone>>

\* Slip: the text goes and the rating stays.
Tombstone_KeepsRating(r) ==
  /\ pc[r] = "tombstone"
  /\ \A q \in Requests : wrote[q] # sawReview[r]
  /\ review' = [review EXCEPT ![sawReview[r]] = "tomb"]
  /\ Goto(r, "ok")
  /\ UNCHANGED <<onRead, onWatch, text, kind, sawReview, sawRow, tx, alone>>

\* The row stays, its text and rating go.
Tombstone(r) ==
  /\ pc[r] = "tombstone"
  /\ \A q \in Requests : wrote[q] # sawReview[r]
  /\ review' = [review EXCEPT ![sawReview[r]] = "tomb"]
  /\ text' = [text EXCEPT ![sawReview[r]] = None]
  /\ Goto(r, "ok")
  /\ UNCHANGED <<onRead, onWatch, kind, sawReview, sawRow, tx, alone>>

ShelveLook(r) ==
  /\ pc[r] = "look" /\ kind[r] = "shelve"
  /\ Goto(r, IF onRead THEN "refused" ELSE "insertRow")
  /\ UNCHANGED <<db, kind, sawReview, sawRow, tx, alone>>

\* get_or_create: a row that is there, even one being deleted, is found.
InsertRow(r) ==
  /\ pc[r] = "insertRow"
  /\ onWatch' = IF onWatch = None THEN r ELSE onWatch
  /\ Goto(r, "ok")
  /\ UNCHANGED <<onRead, review, text, kind, sawReview, sawRow, tx, alone>>

UnshelveLook(r) ==
  /\ pc[r] = "look" /\ kind[r] = "unshelve"
  /\ sawRow' = [sawRow EXCEPT ![r] = onWatch]
  /\ Goto(r, IF onWatch = None THEN "refused" ELSE "deleteRow")
  /\ UNCHANGED <<db, kind, sawReview, tx, alone>>

DeleteRow(r) ==
  /\ pc[r] = "deleteRow"
  /\ \A q \in Requests : delRow[q] # sawRow[r]
  /\ onWatch' = IF onWatch = sawRow[r] THEN None ELSE onWatch
  /\ Goto(r, "ok")
  /\ UNCHANGED <<onRead, review, text, kind, sawReview, sawRow, tx, alone>>

\* The process dies, and its open transaction is rolled back.
Crash(r) ==
  /\ r \in Open
  /\ TxEnds(r)
  /\ Goto(r, "error")
  /\ UNCHANGED <<db, kind, sawReview, sawRow, alone>>

Step(r) ==
  \/ MarkLook(r) \/ ShelveRead(r) \/ ClearWatchlist(r) \/ UpdateReview(r)
  \/ InsertReview(r) \/ Commit(r)
  \/ DeleteLook(r) \/ Tombstone(r)
  \/ ShelveLook(r) \/ InsertRow(r)
  \/ UnshelveLook(r) \/ DeleteRow(r)

Next ==
  \E r \in Requests :
    \/ \E k \in Kinds : Begin(r, k)
    \/ Step(r)
    \/ NothingToSave(r)
    \/ Crash(r)

Spec == Init /\ [][Next]_vars

\* Requests that have begun go on; crashes need not happen, and nobody who waits
\* to save is relied on to have nothing to save.
FairSpec == Spec /\ \A r \in Requests : WF_vars(Step(r))

-----------------------------------------------------------------------------
(* Properties *)

\* However many tabs finish the film at once, one live review is left.
OneLiveReview == Cardinality(LiveReviews) <= 1

\* A review implies the film is on the Watched shelf: row and review commit
\* together, and no other request takes the row away.
LiveReviewIsWatched == LiveReviews # {} => onRead

\* From one tab the two shelves never both hold the film, whichever request
\* crashes on the way.
ExclusiveFromOneTab == alone => ~(onRead /\ onWatch # None)

\* From one tab a tombstone keeps nothing of the review it was.
EmptyTombstonesFromOneTab ==
  alone => \A v \in Requests : review[v] = "tomb" => text[v] = None

\* Requests that wait for each other's rows all end: two finishes of one film
\* never each hold what the other needs.
EveryRequestEnds == \A r \in Requests : r \in Open ~> pc[r] \in Ended

-----------------------------------------------------------------------------
(* What the code's comments promise of any number of tabs; a run each shows  *)
(* how two tabs break it.                                                    *)

\* core/models.py:1463-1465: "D1 keeps Watchlist and Watched mutually exclusive -
\* a film is either watched or not".
ShelvesAreExclusive == ~(onRead /\ onWatch # None)

\* core/models.py:538-542: a tombstone carries no text and no rating, or "a
\* tombstone that kept the score would keep republishing a deleted review's star
\* rating to the whole network".
TombstonesAreEmpty == \A v \in Requests : review[v] = "tomb" => text[v] = None
=============================================================================
