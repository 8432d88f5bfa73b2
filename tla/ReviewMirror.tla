---------------------------- MODULE ReviewMirror ----------------------------
(* One author's reviews and shelves for one film, on the home instance and    *)
(* in the copy a following instance keeps of them.                            *)
(*                                                                            *)
(* Each home action commits and then POSTs its activities, once, from its own *)
(* request thread: nothing orders the POSTs of two actions, and a POST that   *)
(* fails is not repeated.  `Inbox` drops redeliveries while it remembers the  *)
(* activity's id; once the row is pruned a redelivery is applied again.       *)
EXTENDS Naturals, SequencesExt

CONSTANTS
  Statuses,    \* status rows the author may write; each has its own url
  MaxVersion,  \* bound: a review's first text and its edits
  MaxShelvings,\* bound: times the film is put on the watchlist
  MaxLate,     \* bound: deliveries that overtake an earlier one
  MaxLost,     \* bound: deliveries that fail
  MaxAgain     \* bound: redeliveries after a prune

ASSUME MirrorAssumption ==
  /\ MaxVersion \in Nat \ {0}
  /\ MaxShelvings \in Nat /\ MaxLate \in Nat
  /\ MaxLost \in Nat /\ MaxAgain \in Nat

VARIABLES
  text,       \* home: version of each review, 0 before it is written
  gone,       \* home: reviews deleted
  watched,    \* home: the film is on the Watched shelf
  watchlist,  \* home: the film is on the Watchlist
  copy,       \* away: version of each mirrored review, 0 when there is no row
  tombs,      \* away: mirrored reviews that are tombstones
  seen,       \* away: activities already processed
  mWatched,   \* away: the mirrored Watched row
  mWatchlist, \* away: the mirrored Watchlist row
  net,        \* activities on their way, oldest first
  unheard,    \* reviews whose latest delivery failed
  shelvings, late, lost, again  \* counters of the bounds

home == <<text, gone, watched, watchlist>>
away == <<copy, tombs, seen, mWatched, mWatchlist>>
vars == <<home, away, net, unheard, shelvings, late, lost, again>>

Note(type, s, v) == [type |-> type, status |-> s, version |-> v]
ShelfEvent(type) == [type |-> type]

Messages ==
  {Note(t, s, v) : t \in {"Create", "Update"}, s \in Statuses, v \in 1..MaxVersion}
    \cup {Note("Delete", s, 0) : s \in Statuses}
    \cup {ShelfEvent(t) : t \in {"Shelve", "Unshelve"}}

TypeOK ==
  /\ text \in [Statuses -> 0..MaxVersion] /\ gone \subseteq Statuses
  /\ copy \in [Statuses -> 0..MaxVersion] /\ tombs \subseteq Statuses
  /\ {watched, watchlist, mWatched, mWatchlist} \subseteq BOOLEAN
  /\ seen \subseteq Messages /\ net \in Seq(Messages)
  /\ unheard \subseteq Statuses
  /\ shelvings \in 0..MaxShelvings /\ late \in 0..MaxLate
  /\ lost \in 0..MaxLost /\ again \in 0..MaxAgain

Init ==
  /\ text = [s \in Statuses |-> 0] /\ gone = {}
  /\ copy = [s \in Statuses |-> 0] /\ tombs = {}
  /\ watched = FALSE /\ watchlist = FALSE
  /\ mWatched = FALSE /\ mWatchlist = FALSE
  /\ seen = {} /\ net = <<>> /\ unheard = {}
  /\ shelvings = 0 /\ late = 0 /\ lost = 0 /\ again = 0

-----------------------------------------------------------------------------
(* Home: each action is a committed request and the activities it posts.     *)

Live == {s \in Statuses : text[s] > 0} \ gone

\* Slip: only the review is posted, not the removal from the watchlist.
LeavesWatchlist_Silent == <<>>

\* mark_watched takes the film off the watchlist, and that is posted too.
LeavesWatchlist == IF watchlist THEN <<ShelfEvent("Unshelve")>> ELSE <<>>

\* mark_watched keeps one live review: it writes the first or edits that one.
MarkWatched(s) ==
  /\ IF Live = {} THEN text[s] = 0 ELSE s \in Live
  /\ text[s] < MaxVersion
  /\ text' = [text EXCEPT ![s] = @ + 1]
  /\ watched' = TRUE
  /\ watchlist' = FALSE
  /\ net' = net \o <<Note(IF text[s] = 0 THEN "Create" ELSE "Update", s, text'[s])>>
                \o LeavesWatchlist
  /\ UNCHANGED <<gone, away, unheard, shelvings, late, lost, again>>

\* A deleted review is posted with its text cleared, and leaves the film on the
\* Watched shelf.
DeleteReview(s) ==
  /\ s \in Live
  /\ gone' = gone \cup {s}
  /\ net' = Append(net, Note("Delete", s, 0))
  /\ UNCHANGED <<text, watched, watchlist, away, unheard, shelvings, late, lost, again>>

Shelve ==
  /\ ~watched /\ ~watchlist
  /\ shelvings < MaxShelvings
  /\ watchlist' = TRUE
  /\ net' = Append(net, ShelfEvent("Shelve"))
  /\ shelvings' = shelvings + 1
  /\ UNCHANGED <<text, gone, watched, away, unheard, late, lost, again>>

Unshelve ==
  /\ watchlist
  /\ watchlist' = FALSE
  /\ net' = Append(net, ShelfEvent("Unshelve"))
  /\ UNCHANGED <<text, gone, watched, away, unheard, shelvings, late, lost, again>>

-----------------------------------------------------------------------------
(* Away: handle_create, handle_update and handle_delete.                     *)

LiveCopies == {s \in Statuses : copy[s] > 0} \ tombs

\* Slip: an update that names a tombstone brings it back.
MirrorStatus_Resurrects(s, v) ==
  /\ IF copy[s] > 0 \/ LiveCopies = {}
     THEN /\ copy' = [copy EXCEPT ![s] = v]
          /\ tombs' = tombs \ {s}
          /\ mWatched' = TRUE
     ELSE UNCHANGED <<copy, tombs, mWatched>>
  /\ UNCHANGED mWatchlist

\* Slip: no unique constraint on the live reviews of one film.
MirrorStatus_NoConstraint(s, v) ==
  /\ IF s \notin tombs
     THEN copy' = [copy EXCEPT ![s] = v] /\ mWatched' = TRUE
     ELSE UNCHANGED <<copy, mWatched>>
  /\ UNCHANGED <<tombs, mWatchlist>>

\* Slip: an update for which there is no row is ignored.
MirrorStatus_NeedsRow(s, v) ==
  /\ IF s \in LiveCopies \/ (copy[s] = 0 /\ LiveCopies = {} /\ v = 1)
     THEN copy' = [copy EXCEPT ![s] = v] /\ mWatched' = TRUE
     ELSE UNCHANGED <<copy, mWatched>>
  /\ UNCHANGED <<tombs, mWatchlist>>

\* _mirror_status takes a Create and an Update alike.  A tombstone stays; a row
\* that is there takes the version in hand, newer or not; a new row needs the
\* author to have no other live review of the film here, or the unique
\* constraint fails the whole delivery.  A review puts the film on Watched.
MirrorStatus(s, v) ==
  /\ IF s \in LiveCopies \/ (copy[s] = 0 /\ LiveCopies = {})
     THEN copy' = [copy EXCEPT ![s] = v] /\ mWatched' = TRUE
     ELSE UNCHANGED <<copy, mWatched>>
  /\ UNCHANGED <<tombs, mWatchlist>>

\* A Delete that names no row changes nothing, and leaves no trace of itself.
HandleDelete(s) ==
  /\ tombs' = IF copy[s] > 0 THEN tombs \cup {s} ELSE tombs
  /\ UNCHANGED <<copy, mWatched, mWatchlist>>

\* The row is created or deleted as the event says, whatever came before.
ApplyShelfEvent(added) ==
  /\ mWatchlist' = added
  /\ UNCHANGED <<copy, tombs, mWatched>>

Apply(m) ==
  CASE m.type \in {"Create", "Update"} -> MirrorStatus(m.status, m.version)
    [] m.type = "Delete"               -> HandleDelete(m.status)
    [] OTHER                           -> ApplyShelfEvent(m.type = "Shelve")

StatusOf(m) == IF m.type \in {"Shelve", "Unshelve"} THEN {} ELSE {m.status}

Receive(i) ==
  /\ i > 1 => late < MaxLate
  /\ late' = IF i > 1 THEN late + 1 ELSE late
  /\ Apply(net[i])
  /\ net' = RemoveAt(net, i)
  /\ seen' = seen \cup {net[i]}
  /\ unheard' = unheard \ StatusOf(net[i])
  /\ UNCHANGED <<home, shelvings, lost, again>>

\* The instance is down, its inbox refuses, or the film cannot be fetched.  To
\* lose a later delivery is to lose it when its turn comes.
Lose ==
  /\ net # <<>> /\ lost < MaxLost
  /\ lost' = lost + 1
  /\ net' = Tail(net)
  /\ unheard' = unheard \cup StatusOf(Head(net))
  /\ UNCHANGED <<home, away, shelvings, late, again>>

\* prune_inbox has forgotten the activity, and a peer delivers it again.
Redeliver(m) ==
  /\ m \in seen
  /\ again < MaxAgain
  /\ Apply(m)
  /\ again' = again + 1
  /\ UNCHANGED <<home, seen, net, unheard, shelvings, late, lost>>

Next ==
  \/ \E s \in Statuses : MarkWatched(s) \/ DeleteReview(s)
  \/ Shelve
  \/ Unshelve
  \/ \E i \in 1..Len(net) : Receive(i)
  \/ Lose
  \/ \E m \in seen : Redeliver(m)

Spec == Init /\ [][Next]_vars

-----------------------------------------------------------------------------
(* Properties *)

\* As long as nothing has been lost, overtaken or applied again, and nothing is
\* under way, the two instances agree: on each review's text, on which are gone
\* and on both shelves.
Converged ==
  net = <<>> /\ late + lost + again = 0 =>
    /\ copy = text
    /\ tombs = gone
    /\ mWatched = watched /\ mWatchlist = watchlist

\* Deliveries may fail and still heal: in order, a live review is shown in its
\* latest version unless its own latest delivery failed, or a lost Delete left
\* another review of the film in its place.
LatestVersionShown ==
  net = <<>> /\ late + again = 0 =>
    \A s \in Live \ unheard :
      copy[s] = text[s] \/ \E u \in LiveCopies : u \in gone

\* A mirrored review that was taken down stays down, whatever arrives late, in
\* any order, or again: an Update in flight at the Delete, or a Create reopened
\* by the prune, does not bring it back.
TombstoneIsFinal == [][tombs \subseteq tombs']_vars

\* No reader of the following instance sees a version the author has not
\* published, or two live reviews of one film by one author.
NothingInvented ==
  /\ TypeOK
  /\ \A s \in Statuses : copy[s] <= text[s]
  /\ \A s, u \in LiveCopies : s = u

-----------------------------------------------------------------------------
(* What documents say and the code does otherwise.  README tells how each    *)
(* fails; a run shows the first.                                             *)

\* activitypub/statuses.py:14-17 and 898-899: "object-level idempotency catches
\* everything else - an Update that arrives before its Create": an edit that has
\* been shown is not undone by the text it replaced.
EditsAreNotUndone ==
  [][\A s \in Statuses : copy'[s] >= copy[s]]_vars

\* activitypub/statuses.py:360-361: "redeliveries and out-of-order deliveries
\* converge on the same ShelfFilm row".
ShelfConverges == net = <<>> => mWatchlist = watchlist

\* activitypub/objects.py:559-560: "everyone who could see the post needs to
\* learn it is gone": with every delivery made, no deleted review is shown.
DeletedIsNotShown == net = <<>> => \A s \in gone : s \notin LiveCopies

\* activitypub/models.py:28-29: "Pruning reopens an old activity to reprocessing,
\* which is why ... every handler has to stay safe to run twice"; statuses.py:21
\* "Applying any of these activities twice changes nothing".
SafeToRunTwice ==
  [][\A m \in seen : Redeliver(m) =>
       UNCHANGED <<copy, tombs, mWatched, mWatchlist>>]_vars
=============================================================================
