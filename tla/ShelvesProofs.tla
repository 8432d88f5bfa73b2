--------------------------- MODULE ShelvesProofs ---------------------------
(* The safety properties of the shelves and reviews, for any number of       *)
(* requests and of requests open at once.                                    *)
(*                                                                           *)
(* That one live review is left rests on what open transactions hold: at     *)
(* most one has inserted a review, and only while none is live (`Inserts`).  *)
(* That its film is on Watched rests on what a finish did before it wrote    *)
(* (`ShelvedFirst`).  What holds from one tab rests on `OneTab`: what the    *)
(* only open request has read is still so when it acts on it.                *)
EXTENDS Shelves, FiniteSetTheorems, TLAPS

\* A review row is the work of a request that has ended well, and what a
\* request has read is such a row.
RowsAreOld ==
  \A r \in Requests :
    /\ review[r] # "none" => pc[r] = "ok"
    /\ sawReview[r] # None => review[sawReview[r]] # "none"
    /\ wrote[r] # None => wrote[r] = r \/ wrote[r] = sawReview[r]

\* The partial unique index, over committed and uncommitted rows together.
Inserts ==
  /\ \A u, v \in LiveReviews : u = v
  /\ \A q, r \in Inserting : q = r
  /\ Inserting # {} => LiveReviews = {}

ShelvedFirst ==
  \A r \in Requests :
    pc[r] \in {"clearWatchlist", "writeReview", "commit"} => onRead \/ insRead[r]

\* With one request open at a time, nothing changes between its read and its
\* write.
OneTab ==
  alone =>
    /\ \A q, r \in Open : q = r
    /\ \A r \in Requests :
         /\ pc[r] = "insertRow" => ~onRead
         /\ pc[r] \in {"writeReview", "commit"} => delRow[r] = onWatch
         /\ pc[r] \in {"shelveRead", "clearWatchlist", "writeReview", "commit"}
              /\ sawReview[r] # None => review[sawReview[r]] = "live"

IInv ==
  /\ TypeOK
  /\ RowsAreOld
  /\ Inserts
  /\ ShelvedFirst
  /\ LiveReviewIsWatched
  /\ OneTab
  /\ ExclusiveFromOneTab
  /\ EmptyTombstonesFromOneTab

USE ShelvesAssumption

-----------------------------------------------------------------------------
\* Every step of the model is a step of one request, or none.
LEMMA StepCases ==
  [Next]_vars =>
    \/ UNCHANGED vars
    \/ \E r \in Requests :
         \/ \E k \in Kinds : Begin(r, k)
         \/ MarkLook(r) \/ ShelveRead(r) \/ ClearWatchlist(r)
         \/ UpdateReview(r) \/ NothingToSave(r) \/ InsertReview(r) \/ Commit(r)
         \/ DeleteLook(r) \/ Tombstone(r)
         \/ ShelveLook(r) \/ InsertRow(r)
         \/ UnshelveLook(r) \/ DeleteRow(r)
         \/ Crash(r)
  BY DEF Next, Step

\* The look finds a live review, or there is none.
LEMMA LookFinds ==
  /\ LiveReview \in LiveReviews \cup {None}
  /\ LiveReviews \subseteq Requests
  /\ LiveReview # None => review[LiveReview] = "live"
  /\ LiveReview = None => LiveReviews = {}
  BY DEF LiveReview, LiveReviews

\* Type correctness is preserved by every step.
LEMMA TypePreserved ==
  TypeOK /\ [Next]_vars => TypeOK'
<1> SUFFICES ASSUME TypeOK, [Next]_vars PROVE TypeOK'
  OBVIOUS
<1> USE DEF TypeOK, Goto, TxEnds, db, tx, PCs, Kinds, MaybeRequest
<1>1. CASE UNCHANGED vars
  BY <1>1 DEF vars
<1>2. ASSUME NEW r \in Requests, NEW k \in Kinds, Begin(r, k)
      PROVE  TypeOK'
  BY <1>2 DEF Begin
<1>3. ASSUME NEW r \in Requests, MarkLook(r) PROVE TypeOK'
  BY <1>3, LookFinds DEF MarkLook
<1>4. ASSUME NEW r \in Requests, ShelveRead(r) PROVE TypeOK'
  BY <1>4 DEF ShelveRead
<1>5. ASSUME NEW r \in Requests, ClearWatchlist(r) PROVE TypeOK'
  BY <1>5 DEF ClearWatchlist
<1>6. ASSUME NEW r \in Requests, UpdateReview(r) PROVE TypeOK'
  BY <1>6 DEF UpdateReview
<1>7. ASSUME NEW r \in Requests, InsertReview(r) PROVE TypeOK'
  <2>1. CASE LiveReviews = {}
    <3>1. /\ wrote' = [wrote EXCEPT ![r] = r] /\ Goto(r, "commit")
          /\ UNCHANGED <<insRead, delRow, db, kind, sawReview, sawRow, alone>>
          /\ pc[r] = "writeReview"
      BY <1>7, <2>1 DEF InsertReview
    <3> QED BY <3>1
  <2>2. CASE LiveReviews # {}
    <3>1. /\ TxEnds(r) /\ Goto(r, "error")
          /\ UNCHANGED <<db, kind, sawReview, sawRow, alone>>
      BY <1>7, <2>2 DEF InsertReview
    <3> QED BY <3>1
  <2> QED BY <2>1, <2>2
<1>8. ASSUME NEW r \in Requests, Commit(r) PROVE TypeOK'
  BY <1>8 DEF Commit
<1>9. ASSUME NEW r \in Requests, DeleteLook(r) PROVE TypeOK'
  BY <1>9, LookFinds DEF DeleteLook
<1>10. ASSUME NEW r \in Requests, Tombstone(r) PROVE TypeOK'
  BY <1>10 DEF Tombstone
<1>11. ASSUME NEW r \in Requests, ShelveLook(r) PROVE TypeOK'
  BY <1>11 DEF ShelveLook
<1>12. ASSUME NEW r \in Requests, InsertRow(r) PROVE TypeOK'
  BY <1>12 DEF InsertRow
<1>13. ASSUME NEW r \in Requests, UnshelveLook(r) PROVE TypeOK'
  BY <1>13 DEF UnshelveLook
<1>14. ASSUME NEW r \in Requests, DeleteRow(r) PROVE TypeOK'
  BY <1>14 DEF DeleteRow
<1>15. ASSUME NEW r \in Requests, NothingToSave(r) PROVE TypeOK'
  BY <1>15 DEF NothingToSave
<1>16. ASSUME NEW r \in Requests, Crash(r) PROVE TypeOK'
  BY <1>16 DEF Crash, Open, Ended
<1> QED
  BY <1>1, <1>2, <1>3, <1>4, <1>5, <1>6, <1>7, <1>8, <1>9, <1>10, <1>11,
     <1>12, <1>13, <1>14, <1>15, <1>16, StepCases

\* A review row is written at its request's commit, and one once written stays.
LEMMA RowsOldPreserved ==
  TypeOK /\ RowsAreOld /\ [Next]_vars => RowsAreOld'
<1> SUFFICES ASSUME TypeOK, RowsAreOld, [Next]_vars PROVE RowsAreOld'
  OBVIOUS
<1> USE DEF TypeOK, RowsAreOld, Goto, TxEnds, db, tx
<1>1. CASE UNCHANGED vars
  BY <1>1 DEF vars
<1>2. ASSUME NEW r \in Requests, NEW k \in Kinds, Begin(r, k)
      PROVE  RowsAreOld'
  BY <1>2 DEF Begin
<1>3. ASSUME NEW r \in Requests, MarkLook(r) PROVE RowsAreOld'
  BY <1>3, LookFinds DEF MarkLook
<1>4. ASSUME NEW r \in Requests, ShelveRead(r) PROVE RowsAreOld'
  BY <1>4 DEF ShelveRead
<1>5. ASSUME NEW r \in Requests, ClearWatchlist(r) PROVE RowsAreOld'
  BY <1>5 DEF ClearWatchlist
<1>6. ASSUME NEW r \in Requests, UpdateReview(r) PROVE RowsAreOld'
  BY <1>6 DEF UpdateReview
<1>7. ASSUME NEW r \in Requests, InsertReview(r) PROVE RowsAreOld'
  BY <1>7 DEF InsertReview
<1>8. ASSUME NEW r \in Requests, Commit(r) PROVE RowsAreOld'
  BY <1>8 DEF Commit
<1>9. ASSUME NEW r \in Requests, DeleteLook(r) PROVE RowsAreOld'
  BY <1>9, LookFinds DEF DeleteLook
<1>10. ASSUME NEW r \in Requests, Tombstone(r) PROVE RowsAreOld'
  BY <1>10 DEF Tombstone
<1>11. ASSUME NEW r \in Requests, ShelveLook(r) PROVE RowsAreOld'
  BY <1>11 DEF ShelveLook
<1>12. ASSUME NEW r \in Requests, InsertRow(r) PROVE RowsAreOld'
  BY <1>12 DEF InsertRow
<1>13. ASSUME NEW r \in Requests, UnshelveLook(r) PROVE RowsAreOld'
  BY <1>13 DEF UnshelveLook
<1>14. ASSUME NEW r \in Requests, DeleteRow(r) PROVE RowsAreOld'
  BY <1>14 DEF DeleteRow
<1>15. ASSUME NEW r \in Requests, NothingToSave(r) PROVE RowsAreOld'
  BY <1>15 DEF NothingToSave
<1>16. ASSUME NEW r \in Requests, Crash(r) PROVE RowsAreOld'
  BY <1>16 DEF Crash, Open, Ended
<1> QED
  BY <1>1, <1>2, <1>3, <1>4, <1>5, <1>6, <1>7, <1>8, <1>9, <1>10, <1>11,
     <1>12, <1>13, <1>14, <1>15, <1>16, StepCases

\* Only InsertReview adds an inserter, and only its commit makes a review live.
LEMMA InsertsPreserved ==
  TypeOK /\ RowsAreOld /\ Inserts /\ [Next]_vars => Inserts'
<1> SUFFICES ASSUME TypeOK, RowsAreOld, Inserts, [Next]_vars PROVE Inserts'
  OBVIOUS
<1> USE DEF TypeOK, RowsAreOld, Inserts, Inserting, LiveReviews, Goto,
            TxEnds, db, tx
<1>1. CASE UNCHANGED vars
  BY <1>1 DEF vars
<1>2. ASSUME NEW r \in Requests, NEW k \in Kinds, Begin(r, k)
      PROVE  Inserts'
  BY <1>2 DEF Begin
<1>3. ASSUME NEW r \in Requests, MarkLook(r) PROVE Inserts'
  BY <1>3 DEF MarkLook
<1>4. ASSUME NEW r \in Requests, ShelveRead(r) PROVE Inserts'
  BY <1>4 DEF ShelveRead
<1>5. ASSUME NEW r \in Requests, ClearWatchlist(r) PROVE Inserts'
  BY <1>5 DEF ClearWatchlist
<1>6. ASSUME NEW r \in Requests, UpdateReview(r) PROVE Inserts'
  BY <1>6 DEF UpdateReview
<1>7. ASSUME NEW r \in Requests, InsertReview(r) PROVE Inserts'
  BY <1>7 DEF InsertReview
<1>8. ASSUME NEW r \in Requests, Commit(r) PROVE Inserts'
  BY <1>8 DEF Commit
<1>9. ASSUME NEW r \in Requests, DeleteLook(r) PROVE Inserts'
  BY <1>9 DEF DeleteLook
<1>10. ASSUME NEW r \in Requests, Tombstone(r) PROVE Inserts'
  BY <1>10 DEF Tombstone
<1>11. ASSUME NEW r \in Requests, ShelveLook(r) PROVE Inserts'
  BY <1>11 DEF ShelveLook
<1>12. ASSUME NEW r \in Requests, InsertRow(r) PROVE Inserts'
  BY <1>12 DEF InsertRow
<1>13. ASSUME NEW r \in Requests, UnshelveLook(r) PROVE Inserts'
  BY <1>13 DEF UnshelveLook
<1>14. ASSUME NEW r \in Requests, DeleteRow(r) PROVE Inserts'
  BY <1>14 DEF DeleteRow
<1>15. ASSUME NEW r \in Requests, NothingToSave(r) PROVE Inserts'
  BY <1>15 DEF NothingToSave
<1>16. ASSUME NEW r \in Requests, Crash(r) PROVE Inserts'
  BY <1>16 DEF Crash, Open, Ended
<1> QED
  BY <1>1, <1>2, <1>3, <1>4, <1>5, <1>6, <1>7, <1>8, <1>9, <1>10, <1>11,
     <1>12, <1>13, <1>14, <1>15, <1>16, StepCases

\* A finish inserts the Watched row before it writes, and no row leaves Watched.
LEMMA ShelvedPreserved ==
  TypeOK /\ ShelvedFirst /\ [Next]_vars => ShelvedFirst'
<1> SUFFICES ASSUME TypeOK, ShelvedFirst, [Next]_vars PROVE ShelvedFirst'
  OBVIOUS
<1> USE DEF TypeOK, ShelvedFirst, Goto, TxEnds, db, tx
<1>1. CASE UNCHANGED vars
  BY <1>1 DEF vars
<1>2. ASSUME NEW r \in Requests, NEW k \in Kinds, Begin(r, k)
      PROVE  ShelvedFirst'
  BY <1>2 DEF Begin
<1>3. ASSUME NEW r \in Requests, MarkLook(r) PROVE ShelvedFirst'
  BY <1>3 DEF MarkLook
<1>4. ASSUME NEW r \in Requests, ShelveRead(r) PROVE ShelvedFirst'
  BY <1>4 DEF ShelveRead
<1>5. ASSUME NEW r \in Requests, ClearWatchlist(r) PROVE ShelvedFirst'
  BY <1>5 DEF ClearWatchlist
<1>6. ASSUME NEW r \in Requests, UpdateReview(r) PROVE ShelvedFirst'
  BY <1>6 DEF UpdateReview
<1>7. ASSUME NEW r \in Requests, InsertReview(r) PROVE ShelvedFirst'
  BY <1>7 DEF InsertReview
<1>8. ASSUME NEW r \in Requests, Commit(r) PROVE ShelvedFirst'
  BY <1>8 DEF Commit
<1>9. ASSUME NEW r \in Requests, DeleteLook(r) PROVE ShelvedFirst'
  BY <1>9 DEF DeleteLook
<1>10. ASSUME NEW r \in Requests, Tombstone(r) PROVE ShelvedFirst'
  BY <1>10 DEF Tombstone
<1>11. ASSUME NEW r \in Requests, ShelveLook(r) PROVE ShelvedFirst'
  BY <1>11 DEF ShelveLook
<1>12. ASSUME NEW r \in Requests, InsertRow(r) PROVE ShelvedFirst'
  BY <1>12 DEF InsertRow
<1>13. ASSUME NEW r \in Requests, UnshelveLook(r) PROVE ShelvedFirst'
  BY <1>13 DEF UnshelveLook
<1>14. ASSUME NEW r \in Requests, DeleteRow(r) PROVE ShelvedFirst'
  BY <1>14 DEF DeleteRow
<1>15. ASSUME NEW r \in Requests, NothingToSave(r) PROVE ShelvedFirst'
  BY <1>15 DEF NothingToSave
<1>16. ASSUME NEW r \in Requests, Crash(r) PROVE ShelvedFirst'
  BY <1>16 DEF Crash, Open, Ended
<1> QED
  BY <1>1, <1>2, <1>3, <1>4, <1>5, <1>6, <1>7, <1>8, <1>9, <1>10, <1>11,
     <1>12, <1>13, <1>14, <1>15, <1>16, StepCases

\* A review becomes live in the commit that puts the film on Watched.
LEMMA WatchedPreserved ==
  TypeOK /\ ShelvedFirst /\ LiveReviewIsWatched /\ [Next]_vars => LiveReviewIsWatched'
<1> SUFFICES ASSUME TypeOK, ShelvedFirst, LiveReviewIsWatched, [Next]_vars PROVE LiveReviewIsWatched'
  OBVIOUS
<1> USE DEF TypeOK, ShelvedFirst, LiveReviewIsWatched, LiveReviews, Goto,
            TxEnds, db, tx
<1>1. CASE UNCHANGED vars
  BY <1>1 DEF vars
<1>2. ASSUME NEW r \in Requests, NEW k \in Kinds, Begin(r, k)
      PROVE  LiveReviewIsWatched'
  BY <1>2 DEF Begin
<1>3. ASSUME NEW r \in Requests, MarkLook(r) PROVE LiveReviewIsWatched'
  BY <1>3 DEF MarkLook
<1>4. ASSUME NEW r \in Requests, ShelveRead(r) PROVE LiveReviewIsWatched'
  BY <1>4 DEF ShelveRead
<1>5. ASSUME NEW r \in Requests, ClearWatchlist(r) PROVE LiveReviewIsWatched'
  BY <1>5 DEF ClearWatchlist
<1>6. ASSUME NEW r \in Requests, UpdateReview(r) PROVE LiveReviewIsWatched'
  BY <1>6 DEF UpdateReview
<1>7. ASSUME NEW r \in Requests, InsertReview(r) PROVE LiveReviewIsWatched'
  BY <1>7 DEF InsertReview
<1>8. ASSUME NEW r \in Requests, Commit(r) PROVE LiveReviewIsWatched'
  BY <1>8 DEF Commit
<1>9. ASSUME NEW r \in Requests, DeleteLook(r) PROVE LiveReviewIsWatched'
  BY <1>9 DEF DeleteLook
<1>10. ASSUME NEW r \in Requests, Tombstone(r) PROVE LiveReviewIsWatched'
  BY <1>10 DEF Tombstone
<1>11. ASSUME NEW r \in Requests, ShelveLook(r) PROVE LiveReviewIsWatched'
  BY <1>11 DEF ShelveLook
<1>12. ASSUME NEW r \in Requests, InsertRow(r) PROVE LiveReviewIsWatched'
  BY <1>12 DEF InsertRow
<1>13. ASSUME NEW r \in Requests, UnshelveLook(r) PROVE LiveReviewIsWatched'
  BY <1>13 DEF UnshelveLook
<1>14. ASSUME NEW r \in Requests, DeleteRow(r) PROVE LiveReviewIsWatched'
  BY <1>14 DEF DeleteRow
<1>15. ASSUME NEW r \in Requests, NothingToSave(r) PROVE LiveReviewIsWatched'
  BY <1>15 DEF NothingToSave
<1>16. ASSUME NEW r \in Requests, Crash(r) PROVE LiveReviewIsWatched'
  BY <1>16 DEF Crash, Open, Ended
<1> QED
  BY <1>1, <1>2, <1>3, <1>4, <1>5, <1>6, <1>7, <1>8, <1>9, <1>10, <1>11,
     <1>12, <1>13, <1>14, <1>15, <1>16, StepCases

\* A second open request ends `alone`; the only one finds what it has read.
LEMMA OneTabPreserved ==
  TypeOK /\ RowsAreOld /\ OneTab /\ [Next]_vars => OneTab'
<1> SUFFICES ASSUME TypeOK, RowsAreOld, OneTab, [Next]_vars PROVE OneTab'
  OBVIOUS
<1> USE DEF TypeOK, RowsAreOld, OneTab, Open, Ended, Goto, TxEnds, db, tx
<1>1. CASE UNCHANGED vars
  BY <1>1 DEF vars
<1>2. ASSUME NEW r \in Requests, NEW k \in Kinds, Begin(r, k)
      PROVE  OneTab'
  <2>1. CASE alone /\ Open = {}
    BY <1>2, <2>1 DEF Begin
  <2>2. CASE ~(alone /\ Open = {})
    <3>1. alone' = FALSE
      BY <1>2, <2>2 DEF Begin
    <3> QED BY <3>1
  <2> QED BY <2>1, <2>2
<1>3. ASSUME NEW r \in Requests, MarkLook(r) PROVE OneTab'
  BY <1>3, LookFinds DEF MarkLook
<1>4. ASSUME NEW r \in Requests, ShelveRead(r) PROVE OneTab'
  BY <1>4 DEF ShelveRead
<1>5. ASSUME NEW r \in Requests, ClearWatchlist(r) PROVE OneTab'
  BY <1>5 DEF ClearWatchlist
<1>6. ASSUME NEW r \in Requests, UpdateReview(r) PROVE OneTab'
  BY <1>6 DEF UpdateReview
<1>7. ASSUME NEW r \in Requests, InsertReview(r) PROVE OneTab'
  BY <1>7 DEF InsertReview
<1>8. ASSUME NEW r \in Requests, Commit(r) PROVE OneTab'
  BY <1>8 DEF Commit
<1>9. ASSUME NEW r \in Requests, DeleteLook(r) PROVE OneTab'
  BY <1>9, LookFinds DEF DeleteLook
<1>10. ASSUME NEW r \in Requests, Tombstone(r) PROVE OneTab'
  BY <1>10 DEF Tombstone
<1>11. ASSUME NEW r \in Requests, ShelveLook(r) PROVE OneTab'
  BY <1>11 DEF ShelveLook
<1>12. ASSUME NEW r \in Requests, InsertRow(r) PROVE OneTab'
  BY <1>12 DEF InsertRow
<1>13. ASSUME NEW r \in Requests, UnshelveLook(r) PROVE OneTab'
  BY <1>13 DEF UnshelveLook
<1>14. ASSUME NEW r \in Requests, DeleteRow(r) PROVE OneTab'
  BY <1>14 DEF DeleteRow
<1>15. ASSUME NEW r \in Requests, NothingToSave(r) PROVE OneTab'
  BY <1>15 DEF NothingToSave
<1>16. ASSUME NEW r \in Requests, Crash(r) PROVE OneTab'
  BY <1>16 DEF Crash
<1> QED
  BY <1>1, <1>2, <1>3, <1>4, <1>5, <1>6, <1>7, <1>8, <1>9, <1>10, <1>11,
     <1>12, <1>13, <1>14, <1>15, <1>16, StepCases

\* A shelve from one tab still sees the film not watched, and a finish deletes
\* the very row it leaves behind.
LEMMA ExclusivePreserved ==
  TypeOK /\ OneTab /\ ExclusiveFromOneTab /\ [Next]_vars => ExclusiveFromOneTab'
<1> SUFFICES ASSUME TypeOK, OneTab, ExclusiveFromOneTab, [Next]_vars PROVE ExclusiveFromOneTab'
  OBVIOUS
<1> USE DEF TypeOK, OneTab, ExclusiveFromOneTab, Open, Ended, Goto, TxEnds,
            db, tx
<1>1. CASE UNCHANGED vars
  BY <1>1 DEF vars
<1>2. ASSUME NEW r \in Requests, NEW k \in Kinds, Begin(r, k)
      PROVE  ExclusiveFromOneTab'
  BY <1>2 DEF Begin
<1>3. ASSUME NEW r \in Requests, MarkLook(r) PROVE ExclusiveFromOneTab'
  BY <1>3 DEF MarkLook
<1>4. ASSUME NEW r \in Requests, ShelveRead(r) PROVE ExclusiveFromOneTab'
  BY <1>4 DEF ShelveRead
<1>5. ASSUME NEW r \in Requests, ClearWatchlist(r) PROVE ExclusiveFromOneTab'
  BY <1>5 DEF ClearWatchlist
<1>6. ASSUME NEW r \in Requests, UpdateReview(r) PROVE ExclusiveFromOneTab'
  BY <1>6 DEF UpdateReview
<1>7. ASSUME NEW r \in Requests, InsertReview(r) PROVE ExclusiveFromOneTab'
  BY <1>7 DEF InsertReview
<1>8. ASSUME NEW r \in Requests, Commit(r) PROVE ExclusiveFromOneTab'
  BY <1>8 DEF Commit
<1>9. ASSUME NEW r \in Requests, DeleteLook(r) PROVE ExclusiveFromOneTab'
  BY <1>9 DEF DeleteLook
<1>10. ASSUME NEW r \in Requests, Tombstone(r) PROVE ExclusiveFromOneTab'
  BY <1>10 DEF Tombstone
<1>11. ASSUME NEW r \in Requests, ShelveLook(r) PROVE ExclusiveFromOneTab'
  BY <1>11 DEF ShelveLook
<1>12. ASSUME NEW r \in Requests, InsertRow(r) PROVE ExclusiveFromOneTab'
  BY <1>12 DEF InsertRow
<1>13. ASSUME NEW r \in Requests, UnshelveLook(r) PROVE ExclusiveFromOneTab'
  BY <1>13 DEF UnshelveLook
<1>14. ASSUME NEW r \in Requests, DeleteRow(r) PROVE ExclusiveFromOneTab'
  BY <1>14 DEF DeleteRow
<1>15. ASSUME NEW r \in Requests, NothingToSave(r) PROVE ExclusiveFromOneTab'
  BY <1>15 DEF NothingToSave
<1>16. ASSUME NEW r \in Requests, Crash(r) PROVE ExclusiveFromOneTab'
  BY <1>16 DEF Crash
<1> QED
  BY <1>1, <1>2, <1>3, <1>4, <1>5, <1>6, <1>7, <1>8, <1>9, <1>10, <1>11,
     <1>12, <1>13, <1>14, <1>15, <1>16, StepCases

\* A finish from one tab saves a review that is still live.
LEMMA EmptyPreserved ==
  TypeOK /\ RowsAreOld /\ OneTab /\ EmptyTombstonesFromOneTab /\ [Next]_vars => EmptyTombstonesFromOneTab'
<1> SUFFICES ASSUME TypeOK, RowsAreOld, OneTab, EmptyTombstonesFromOneTab, [Next]_vars PROVE EmptyTombstonesFromOneTab'
  OBVIOUS
<1> USE DEF TypeOK, RowsAreOld, OneTab, EmptyTombstonesFromOneTab, Open,
            Ended, Goto, TxEnds, db, tx
<1>1. CASE UNCHANGED vars
  BY <1>1 DEF vars
<1>2. ASSUME NEW r \in Requests, NEW k \in Kinds, Begin(r, k)
      PROVE  EmptyTombstonesFromOneTab'
  BY <1>2 DEF Begin
<1>3. ASSUME NEW r \in Requests, MarkLook(r) PROVE EmptyTombstonesFromOneTab'
  BY <1>3 DEF MarkLook
<1>4. ASSUME NEW r \in Requests, ShelveRead(r) PROVE EmptyTombstonesFromOneTab'
  BY <1>4 DEF ShelveRead
<1>5. ASSUME NEW r \in Requests, ClearWatchlist(r) PROVE EmptyTombstonesFromOneTab'
  BY <1>5 DEF ClearWatchlist
<1>6. ASSUME NEW r \in Requests, UpdateReview(r) PROVE EmptyTombstonesFromOneTab'
  BY <1>6 DEF UpdateReview
<1>7. ASSUME NEW r \in Requests, InsertReview(r) PROVE EmptyTombstonesFromOneTab'
  BY <1>7 DEF InsertReview
<1>8. ASSUME NEW r \in Requests, Commit(r) PROVE EmptyTombstonesFromOneTab'
  BY <1>8 DEF Commit
<1>9. ASSUME NEW r \in Requests, DeleteLook(r) PROVE EmptyTombstonesFromOneTab'
  BY <1>9 DEF DeleteLook
<1>10. ASSUME NEW r \in Requests, Tombstone(r) PROVE EmptyTombstonesFromOneTab'
  BY <1>10 DEF Tombstone
<1>11. ASSUME NEW r \in Requests, ShelveLook(r) PROVE EmptyTombstonesFromOneTab'
  BY <1>11 DEF ShelveLook
<1>12. ASSUME NEW r \in Requests, InsertRow(r) PROVE EmptyTombstonesFromOneTab'
  BY <1>12 DEF InsertRow
<1>13. ASSUME NEW r \in Requests, UnshelveLook(r) PROVE EmptyTombstonesFromOneTab'
  BY <1>13 DEF UnshelveLook
<1>14. ASSUME NEW r \in Requests, DeleteRow(r) PROVE EmptyTombstonesFromOneTab'
  BY <1>14 DEF DeleteRow
<1>15. ASSUME NEW r \in Requests, NothingToSave(r) PROVE EmptyTombstonesFromOneTab'
  BY <1>15 DEF NothingToSave
<1>16. ASSUME NEW r \in Requests, Crash(r) PROVE EmptyTombstonesFromOneTab'
  BY <1>16 DEF Crash
<1> QED
  BY <1>1, <1>2, <1>3, <1>4, <1>5, <1>6, <1>7, <1>8, <1>9, <1>10, <1>11,
     <1>12, <1>13, <1>14, <1>15, <1>16, StepCases

-----------------------------------------------------------------------------
LEMMA InitIInv == Init => IInv
  BY DEF Init, IInv, TypeOK, RowsAreOld, Inserts, Inserting, LiveReviews,
         ShelvedFirst, LiveReviewIsWatched, OneTab, Open, Ended,
         ExclusiveFromOneTab, EmptyTombstonesFromOneTab, PCs, Kinds, MaybeRequest

\* The inductive invariant of the shelves.
THEOREM Inductive == Spec => []IInv
<1>1. IInv /\ [Next]_vars => IInv'
  BY TypePreserved, RowsOldPreserved, InsertsPreserved, ShelvedPreserved,
     WatchedPreserved, OneTabPreserved, ExclusivePreserved, EmptyPreserved
     DEF IInv
<1> QED
  BY InitIInv, <1>1, PTL DEF Spec

\* Every state of the shelves and of the requests is well formed.
THEOREM TypeCorrect == Spec => []TypeOK
<1>1. IInv => TypeOK
  BY DEF IInv
<1> QED BY <1>1, Inductive, PTL

\* For any number of requests open at once, at most one review is live.
THEOREM OneLiveHolds == Spec => []OneLiveReview
<1>1. IInv => OneLiveReview
  <2> SUFFICES ASSUME IInv PROVE OneLiveReview
    OBVIOUS
  <2>1. CASE LiveReviews = {}
    BY <2>1, FS_EmptySet DEF OneLiveReview
  <2>2. CASE LiveReviews # {}
    <3>1. PICK v : v \in LiveReviews
      BY <2>2
    <3>2. LiveReviews = {v}
      BY <3>1 DEF IInv, Inserts
    <3>3. Cardinality(LiveReviews) = 1
      BY <3>2, FS_Singleton
    <3> QED BY <3>3 DEF OneLiveReview
  <2> QED BY <2>1, <2>2
<1> QED BY <1>1, Inductive, PTL

\* A live review's film is on the Watched shelf, whatever crashes.
THEOREM WatchedHolds == Spec => []LiveReviewIsWatched
<1>1. IInv => LiveReviewIsWatched
  BY DEF IInv
<1> QED BY <1>1, Inductive, PTL

\* However many requests a member makes one after another, and wherever they
\* crash, the film is never on both shelves.
THEOREM ExclusiveHolds == Spec => []ExclusiveFromOneTab
<1>1. IInv => ExclusiveFromOneTab
  BY DEF IInv
<1> QED BY <1>1, Inductive, PTL

\* ... and a tombstone keeps nothing of its review.
THEOREM EmptyTombstonesHold == Spec => []EmptyTombstonesFromOneTab
<1>1. IInv => EmptyTombstonesFromOneTab
  BY DEF IInv
<1> QED BY <1>1, Inductive, PTL
============================================================================
