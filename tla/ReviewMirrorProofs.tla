------------------------- MODULE ReviewMirrorProofs -------------------------
(* What holds of the copy however late, lost or repeated the deliveries are: *)
(* a tombstone stays, and no reader sees a version that was never written or *)
(* two live reviews of one film.  And what heals: in order the copy catches  *)
(* up with the author, and after losses with each review that was heard of   *)
(* since.  For any reviews and any bounds.                                   *)
(*                                                                           *)
(* Whatever is under way or was ever processed tells of a version the author *)
(* has written (`Known`), and what an author has written only grows.  With   *)
(* nothing lost, the activities under way lead step by step from the copy to *)
(* what the author has (`Leads`).  With losses, they are still in the order  *)
(* in which they were posted (`InOrder`), so the last about a live review    *)
(* brings its latest version, and a review that stands in its way is one     *)
(* whose Delete is no longer to come (`Overstays`).                          *)
EXTENDS ReviewMirror, SequenceTheorems, TLAPS

\* What can have been posted by now.
Known ==
  {m \in Messages :
     m.type \in {"Create", "Update"} => m.version <= text[m.status]}

\* The copy is of what was written, and one review of the film is live.
Faithful ==
  /\ \A s \in Statuses : copy[s] <= text[s]
  /\ \A s, u \in LiveCopies : s = u

IInv == TypeOK /\ seen \subseteq Known /\ net \in Seq(Known) /\ Faithful

-----------------------------------------------------------------------------
USE MirrorAssumption

LEMMA MessageTypes ==
  /\ \A t \in {"Create", "Update"}, s \in Statuses, v \in 1..MaxVersion :
       Note(t, s, v) \in Messages
  /\ \A s \in Statuses : Note("Delete", s, 0) \in Messages
  /\ \A t \in {"Shelve", "Unshelve"} : ShelfEvent(t) \in Messages
  BY DEF Messages

LEMMA MessageCases ==
  ASSUME NEW m \in Messages
  PROVE  \/ /\ m.type \in {"Create", "Update"}
            /\ m.status \in Statuses /\ m.version \in 1..MaxVersion
         \/ m.type = "Delete" /\ m.status \in Statuses
         \/ m.type \in {"Shelve", "Unshelve"}
  BY DEF Messages, Note, ShelfEvent
\* Taking a delivery out leaves a sequence of deliveries.
LEMMA RemoveAtType ==
  ASSUME NEW S, NEW q \in Seq(S), NEW i \in 1..Len(q)
  PROVE  RemoveAt(q, i) \in Seq(S)
<1>1. Len(q) \in Nat /\ \A j \in 1..Len(q) : q[j] \in S
  BY LenProperties, ElementOfSeq
<1>2. SubSeq(q, 1, i - 1) \in Seq(S) /\ SubSeq(q, i + 1, Len(q)) \in Seq(S)
  BY <1>1, SubSeqProperties
<1> QED
  BY <1>2, ConcatProperties DEF RemoveAt

\* What could have been posted still could when the author has written more.
LEMMA KnownGrows ==
  ASSUME TypeOK, TypeOK', \A s \in Statuses : text[s] <= text'[s]
  PROVE  /\ Known \subseteq Known'
         /\ \A q \in Seq(Known) : q \in Seq(Known')
<1>1. Known \subseteq Known'
  <2> SUFFICES ASSUME NEW m \in Messages, m.type \in {"Create", "Update"},
                      m.version <= text[m.status]
               PROVE  m.version <= text'[m.status]
    BY DEF Known
  <2>1. m.status \in Statuses /\ m.version \in 1..MaxVersion
    BY MessageCases
  <2> QED
    BY <2>1 DEF TypeOK
<1> QED
  BY <1>1, SeqMonotonic

LEMMA IInvInit == Init => IInv
<1> SUFFICES ASSUME Init PROVE IInv
  OBVIOUS
<1>1. <<>> \in Seq(Messages) /\ <<>> \in Seq(Known)
  BY EmptySeq
<1>2. TypeOK
  <2>1. /\ text \in [Statuses -> 0..MaxVersion] /\ copy \in [Statuses -> 0..MaxVersion]
        /\ shelvings \in 0..MaxShelvings /\ late \in 0..MaxLate
        /\ lost \in 0..MaxLost /\ again \in 0..MaxAgain
    BY DEF Init
  <2>2. {watched, watchlist, mWatched, mWatchlist} \subseteq BOOLEAN
    BY DEF Init
  <2>3. gone \subseteq Statuses /\ tombs \subseteq Statuses
        /\ seen \subseteq Messages /\ unheard \subseteq Statuses
    BY DEF Init
  <2>4. net \in Seq(Messages)
    BY <1>1 DEF Init
  <2> QED
    BY <2>1, <2>2, <2>3, <2>4 DEF TypeOK
<1>3. Faithful
  BY DEF Init, Faithful, LiveCopies
<1> QED
  BY <1>1, <1>2, <1>3 DEF Init, IInv

-----------------------------------------------------------------------------
(* Home                                                                      *)

\* What an action at home appends is known once it has committed.
LEMMA PostKeeps ==
  ASSUME IInv, TypeOK', NEW posted \in Seq(Known'), net' = net \o posted,
         \A s \in Statuses : text[s] <= text'[s], UNCHANGED away
  PROVE  IInv'
<1>1. Known \subseteq Known' /\ net \in Seq(Known')
  BY KnownGrows DEF IInv
<1>2. net' \in Seq(Known')
  BY <1>1, ConcatProperties
<1>3. Faithful'
  BY DEF IInv, Faithful, TypeOK, LiveCopies, away
<1> QED
  BY <1>1, <1>2, <1>3 DEF IInv, away

LEMMA MarkWatchedKeeps ==
  ASSUME IInv, NEW s \in Statuses, MarkWatched(s)
  PROVE  IInv'
<1> DEFINE kind == IF text[s] = 0 THEN "Create" ELSE "Update"
           note == Note(kind, s, text'[s])
<1>1. /\ text[s] \in 0..MaxVersion /\ text[s] < MaxVersion
      /\ text' = [text EXCEPT ![s] = text[s] + 1]
      /\ text' \in [Statuses -> 0..MaxVersion]
      /\ text'[s] \in 1..MaxVersion
  BY DEF IInv, TypeOK, MarkWatched
<1>2. \A u \in Statuses : text[u] <= text'[u]
  BY <1>1 DEF IInv, TypeOK
<1>3. note \in Messages /\ note \in Known'
  BY <1>1, MessageTypes DEF Known, Note
<1>4. LeavesWatchlist \in Seq(Messages) /\ LeavesWatchlist \in Seq(Known')
  <2>1. ShelfEvent("Unshelve") \in Messages /\ ShelfEvent("Unshelve") \in Known'
    BY MessageTypes DEF Known, ShelfEvent
  <2> QED
    BY <2>1, EmptySeq DEF LeavesWatchlist
<1>5. <<note>> \in Seq(Messages) /\ <<note>> \in Seq(Known')
  BY <1>3
<1> DEFINE posted == <<note>> \o LeavesWatchlist
<1>6. posted \in Seq(Messages) /\ posted \in Seq(Known')
  BY <1>4, <1>5, ConcatProperties
<1>7. net' = net \o posted
  <2>1. net' = net \o <<note>> \o LeavesWatchlist
    BY DEF MarkWatched
  <2> QED
    BY <2>1, <1>4, <1>5, ConcatAssociative DEF IInv, TypeOK
<1> HIDE DEF posted, note
<1>8. TypeOK'
  <2>1. net' \in Seq(Messages)
    BY <1>6, <1>7, ConcatProperties DEF IInv, TypeOK
  <2> QED
    BY <2>1, <1>1 DEF IInv, TypeOK, MarkWatched, away
<1>9. UNCHANGED away
  BY DEF MarkWatched
<1> QED
  BY <1>2, <1>6, <1>7, <1>8, <1>9, PostKeeps

LEMMA OtherPostsKeep ==
  ASSUME IInv, (\E s \in Statuses : DeleteReview(s)) \/ Shelve \/ Unshelve
  PROVE  IInv'
<1>1. PICK m \in Messages : net' = Append(net, m) /\ m \notin {n \in Messages :
                              n.type \in {"Create", "Update"}}
  <2>1. ASSUME NEW s \in Statuses, DeleteReview(s)
        PROVE  net' = Append(net, Note("Delete", s, 0))
    BY <2>1 DEF DeleteReview
  <2>2. Shelve => net' = Append(net, ShelfEvent("Shelve"))
    BY DEF Shelve
  <2>3. Unshelve => net' = Append(net, ShelfEvent("Unshelve"))
    BY DEF Unshelve
  <2> QED
    BY <2>1, <2>2, <2>3, MessageTypes DEF Note, ShelfEvent
<1>2. UNCHANGED <<text, away>>
  BY DEF DeleteReview, Shelve, Unshelve
<1>3. net' = net \o <<m>> /\ net' \in Seq(Messages)
  BY <1>1 DEF IInv, TypeOK
<1>4. TypeOK'
  <2>1. gone' \subseteq Statuses /\ UNCHANGED <<unheard, late, lost, again>>
    BY DEF IInv, TypeOK, DeleteReview, Shelve, Unshelve
  <2>2. {watched', watchlist'} \subseteq BOOLEAN
    BY DEF IInv, TypeOK, DeleteReview, Shelve, Unshelve
  <2>3. shelvings' \in 0..MaxShelvings
    BY DEF IInv, TypeOK, DeleteReview, Shelve, Unshelve
  <2> QED
    BY <2>1, <2>2, <2>3, <1>2, <1>3 DEF IInv, TypeOK, away
<1>5. <<m>> \in Seq(Known')
  <2>1. m \in Known'
    BY <1>1 DEF Known
  <2> QED
    BY <2>1
<1>6. \A s \in Statuses : text[s] <= text'[s]
  BY <1>2 DEF IInv, TypeOK
<1> QED
  BY <1>2, <1>3, <1>4, <1>5, <1>6, PostKeeps

-----------------------------------------------------------------------------
(* Away                                                                      *)

\* A delivery of something known keeps the copy faithful, whatever the copy
\* held and whether it was delivered before.
LEMMA ApplyKeeps ==
  ASSUME TypeOK, Faithful, NEW m \in Known, Apply(m), text' = text
  PROVE  /\ copy' \in [Statuses -> 0..MaxVersion] /\ tombs' \subseteq Statuses
         /\ mWatched' \in BOOLEAN /\ mWatchlist' \in BOOLEAN
         /\ Faithful' /\ tombs \subseteq tombs'
<1>1. m \in Messages
  BY DEF Known
<1>2. CASE m.type \in {"Create", "Update"}
  <2>1. m.status \in Statuses /\ m.version \in 1..MaxVersion
        /\ m.version <= text[m.status]
    BY <1>1, <1>2, MessageCases DEF Known
  <2>2. MirrorStatus(m.status, m.version)
    BY <1>2 DEF Apply
  <2>3. /\ copy' \in [Statuses -> 0..MaxVersion] /\ tombs' = tombs
        /\ mWatchlist' = mWatchlist
    BY <2>1, <2>2 DEF MirrorStatus, TypeOK
  <2>4. mWatched' \in BOOLEAN
    BY <2>2 DEF MirrorStatus, TypeOK
  <2>5. \A s \in Statuses : copy'[s] <= text'[s]
    BY <2>1, <2>2 DEF MirrorStatus, TypeOK, Faithful
  <2>6. \A s, u \in LiveCopies' : s = u
    <3>1. CASE copy' = copy
      BY <3>1, <2>3 DEF LiveCopies, Faithful
    <3>2. CASE m.status \in LiveCopies /\ copy' = [copy EXCEPT ![m.status] = m.version]
      <4>1. LiveCopies' \subseteq LiveCopies
        BY <3>2, <2>3 DEF LiveCopies, TypeOK
      <4> QED
        BY <4>1 DEF Faithful
    <3>3. CASE LiveCopies = {} /\ copy' = [copy EXCEPT ![m.status] = m.version]
      <4>1. LiveCopies' \subseteq {m.status}
        BY <3>3, <2>3 DEF LiveCopies, TypeOK
      <4> QED
        BY <4>1
    <3> QED
      BY <2>2, <3>1, <3>2, <3>3 DEF MirrorStatus
  <2> QED
    BY <2>3, <2>4, <2>5, <2>6 DEF Faithful, TypeOK
<1>3. CASE m.type = "Delete"
  <2>1. m.status \in Statuses /\ HandleDelete(m.status)
    BY <1>1, <1>3, MessageCases DEF Apply
  <2> QED
    BY <2>1 DEF HandleDelete, TypeOK, Faithful, LiveCopies
<1>4. CASE m.type \in {"Shelve", "Unshelve"}
  <2>1. ApplyShelfEvent(m.type = "Shelve")
    BY <1>4 DEF Apply
  <2>2. mWatchlist' \in BOOLEAN /\ UNCHANGED <<copy, tombs, mWatched>>
    BY <2>1 DEF ApplyShelfEvent
  <2> QED
    BY <2>2 DEF TypeOK, Faithful, LiveCopies
<1> QED
  BY <1>1, <1>2, <1>3, <1>4, MessageCases

LEMMA ReceiveKeeps ==
  ASSUME IInv, NEW i \in 1..Len(net), Receive(i)
  PROVE  IInv' /\ tombs \subseteq tombs'
<1>1. net[i] \in Known /\ net[i] \in Messages
  BY ElementOfSeq DEF IInv, TypeOK
<1>2. text' = text /\ Apply(net[i])
  BY DEF Receive, home
<1>3. net' \in Seq(Known) /\ net' \in Seq(Messages)
  BY RemoveAtType DEF IInv, TypeOK, Receive
<1>4. seen' = seen \cup {net[i]} /\ unheard' \subseteq unheard
      /\ UNCHANGED <<home, shelvings, lost, again>>
  BY DEF Receive
<1>5. late' \in 0..MaxLate
  BY DEF IInv, TypeOK, Receive
<1>6. Known' = Known
  BY <1>2 DEF Known
<1> QED
  BY <1>1, <1>2, <1>3, <1>4, <1>5, <1>6, ApplyKeeps DEF IInv, TypeOK, home

LEMMA LoseKeeps == IInv /\ Lose => IInv'
<1> SUFFICES ASSUME IInv, Lose PROVE IInv'
  OBVIOUS
<1>1. Head(net) \in Messages /\ net' \in Seq(Known) /\ net' \in Seq(Messages)
  BY HeadTailProperties DEF IInv, TypeOK, Lose
<1>2. unheard' \subseteq Statuses
  BY <1>1, MessageCases DEF IInv, TypeOK, Lose, StatusOf
<1>3. lost' \in 0..MaxLost
  BY DEF IInv, TypeOK, Lose
<1>4. UNCHANGED <<home, away, shelvings, late, again>>
  BY DEF Lose
<1> QED
  BY <1>1, <1>2, <1>3, <1>4
  DEF IInv, TypeOK, Known, Faithful, LiveCopies, home, away

LEMMA RedeliverKeeps ==
  ASSUME IInv, NEW m \in seen, Redeliver(m)
  PROVE  IInv' /\ tombs \subseteq tombs'
<1>1. m \in Known /\ Apply(m) /\ text' = text
  BY DEF IInv, Redeliver, home
<1>2. again' \in 0..MaxAgain
  BY DEF IInv, TypeOK, Redeliver
<1>3. UNCHANGED <<home, seen, net, unheard, shelvings, late, lost>>
  BY DEF Redeliver
<1>4. Known' = Known
  BY <1>1 DEF Known
<1> QED
  BY <1>1, <1>2, <1>3, <1>4, ApplyKeeps DEF IInv, TypeOK, home

LEMMA IInvStep == IInv /\ [Next]_vars => IInv' /\ tombs \subseteq tombs'
<1> SUFFICES ASSUME IInv, [Next]_vars PROVE IInv' /\ tombs \subseteq tombs'
  OBVIOUS
<1>1. CASE UNCHANGED vars
  BY <1>1 DEF IInv, TypeOK, Known, Faithful, LiveCopies, vars, home, away
<1>2. ASSUME NEW s \in Statuses, MarkWatched(s)
      PROVE  IInv' /\ tombs' = tombs
  BY <1>2, MarkWatchedKeeps DEF MarkWatched, away
<1>3. CASE (\E s \in Statuses : DeleteReview(s)) \/ Shelve \/ Unshelve
  BY <1>3, OtherPostsKeep DEF DeleteReview, Shelve, Unshelve, away
<1>4. CASE Lose
  BY <1>4, LoseKeeps DEF Lose, away
<1> QED
  BY <1>1, <1>2, <1>3, <1>4, ReceiveKeeps, RedeliverKeeps DEF Next

-----------------------------------------------------------------------------
(* Nothing lost, overtaken or applied again                                  *)

\* One instance's side of it: the reviews it holds, the shelves.
Sides == [copy : [Statuses -> 0..MaxVersion], tombs : SUBSET Statuses,
          watched : BOOLEAN, watchlist : BOOLEAN]

Home == [copy |-> text, tombs |-> gone, watched |-> watched, watchlist |-> watchlist]
Away == [copy |-> copy, tombs |-> tombs, watched |-> mWatched, watchlist |-> mWatchlist]

Shown(c) == {s \in Statuses : c.copy[s] > 0} \ c.tombs

\* What a delivery makes of a side: Apply as a function.
Wrote(c, s, v) ==
  IF s \in Shown(c) \/ (c.copy[s] = 0 /\ Shown(c) = {})
    THEN [copy |-> [c.copy EXCEPT ![s] = v], tombs |-> c.tombs,
          watched |-> TRUE, watchlist |-> c.watchlist]
    ELSE c

Deleted(c, s) ==
  [copy |-> c.copy, tombs |-> IF c.copy[s] > 0 THEN c.tombs \cup {s} ELSE c.tombs,
   watched |-> c.watched, watchlist |-> c.watchlist]

Shelved(c, added) ==
  [copy |-> c.copy, tombs |-> c.tombs, watched |-> c.watched, watchlist |-> added]

Taken(c, m) ==
  CASE m.type \in {"Create", "Update"} -> Wrote(c, m.status, m.version)
    [] m.type = "Delete"               -> Deleted(c, m.status)
    [] OTHER                           -> Shelved(c, m.type = "Shelve")

\* The deliveries of q, one after the other, lead from side c to side d.
Leads(q, c, d) ==
  \E h \in [0..Len(q) -> Sides] :
    /\ h[0] = c /\ h[Len(q)] = d
    /\ \A i \in 1..Len(q) : h[i] = Taken(h[i - 1], q[i])

\* What is under way leads from what the copy is to what the author has.
CatchesUp == late + lost + again = 0 => Leads(net, Away, Home)

LEMMA TakenType ==
  ASSUME NEW c \in Sides, NEW m \in Messages
  PROVE  Taken(c, m) \in Sides
<1>1. CASE m.type \in {"Create", "Update"}
  <2>1. m.status \in Statuses /\ m.version \in 0..MaxVersion
    BY <1>1, MessageCases
  <2>2. Wrote(c, m.status, m.version) \in Sides
    BY <2>1 DEF Wrote, Sides
  <2> QED
    BY <1>1, <2>2 DEF Taken
<1>2. CASE m.type = "Delete"
  <2>1. Deleted(c, m.status) \in Sides
    BY <1>2, MessageCases DEF Deleted, Sides
  <2> QED
    BY <1>2, <2>1 DEF Taken
<1>3. CASE m.type \in {"Shelve", "Unshelve"}
  <2>1. Shelved(c, m.type = "Shelve") \in Sides
    BY DEF Shelved, Sides
  <2> QED
    BY <1>3, <2>1 DEF Taken
<1> QED
  BY <1>1, <1>2, <1>3, MessageCases

LEMMA LeadsNowhere ==
  ASSUME NEW c, NEW d
  PROVE  /\ c \in Sides => Leads(<<>>, c, c)
         /\ Leads(<<>>, c, d) => c = d
<1>1. ASSUME c \in Sides PROVE Leads(<<>>, c, c)
  <2> DEFINE h == [i \in 0..Len(<<>>) |-> c]
  <2>1. h \in [0..Len(<<>>) -> Sides] /\ h[0] = c /\ Len(<<>>) = 0
    BY <1>1
  <2> HIDE DEF h
  <2> QED
    BY <2>1 DEF Leads
<1>2. Leads(<<>>, c, d) => c = d
  BY DEF Leads
<1> QED
  BY <1>1, <1>2

\* One more delivery at the end,
LEMMA LeadsOn ==
  ASSUME NEW q \in Seq(Messages), NEW m \in Messages, NEW c, NEW d, Leads(q, c, d)
  PROVE  Leads(Append(q, m), c, Taken(d, m))
<1>1. PICK h \in [0..Len(q) -> Sides] :
        /\ h[0] = c /\ h[Len(q)] = d
        /\ \A i \in 1..Len(q) : h[i] = Taken(h[i - 1], q[i])
  BY DEF Leads
<1>2. Len(q) \in Nat /\ Len(Append(q, m)) = Len(q) + 1
      /\ (\A i \in 1..Len(q) : Append(q, m)[i] = q[i]) /\ Append(q, m)[Len(q) + 1] = m
  BY LenProperties, AppendProperties
<1>3. d \in Sides
  BY <1>1, <1>2
<1> DEFINE g == [i \in 0..(Len(q) + 1) |-> IF i \in 0..Len(q) THEN h[i] ELSE Taken(d, m)]
<1>4. g \in [0..(Len(q) + 1) -> Sides]
  BY <1>3, TakenType
<1>5. g[0] = c /\ g[Len(q) + 1] = Taken(d, m) /\ g[Len(q)] = d
  BY <1>1, <1>2
<1>6. ASSUME NEW i \in 1..Len(q) + 1
      PROVE  g[i] = Taken(g[i - 1], Append(q, m)[i])
  <2>1. CASE i \in 1..Len(q)
    <3>1. i - 1 \in 0..Len(q) /\ i \in 0..Len(q)
      BY <2>1, <1>2
    <3>2. g[i] = h[i] /\ g[i - 1] = h[i - 1]
      BY <3>1, <1>2
    <3> QED
      BY <2>1, <3>2, <1>1, <1>2
  <2>2. CASE i = Len(q) + 1
    BY <2>2, <1>2, <1>5
  <2> QED
    BY <2>1, <2>2, <1>2
<1> HIDE DEF g
<1> QED
  BY <1>2, <1>4, <1>5, <1>6 DEF Leads

\* and one less at the beginning.
LEMMA LeadsAfter ==
  ASSUME NEW q \in Seq(Messages), q # <<>>, NEW c, NEW d, Leads(q, c, d)
  PROVE  Leads(Tail(q), Taken(c, Head(q)), d)
<1>1. PICK h \in [0..Len(q) -> Sides] :
        /\ h[0] = c /\ h[Len(q)] = d
        /\ \A i \in 1..Len(q) : h[i] = Taken(h[i - 1], q[i])
  BY DEF Leads
<1>2. /\ Len(q) \in Nat /\ Len(q) >= 1 /\ Len(Tail(q)) = Len(q) - 1
      /\ Head(q) = q[1] /\ \A i \in 1..Len(q) - 1 : Tail(q)[i] = q[i + 1]
  BY LenProperties, EmptySeq, HeadTailProperties
<1> DEFINE g == [i \in 0..(Len(q) - 1) |-> h[i + 1]]
<1>3. g \in [0..(Len(q) - 1) -> Sides]
  BY <1>1, <1>2
<1>4. g[0] = Taken(c, Head(q)) /\ g[Len(q) - 1] = d
  BY <1>1, <1>2
<1>5. ASSUME NEW i \in 1..Len(q) - 1
      PROVE  g[i] = Taken(g[i - 1], Tail(q)[i])
  <2>1. g[i] = h[i + 1] /\ g[i - 1] = h[i] /\ i + 1 \in 1..Len(q)
    BY <1>2
  <2>2. h[i + 1] = Taken(h[(i + 1) - 1], q[i + 1]) /\ (i + 1) - 1 = i
    BY <2>1, <1>1
  <2> QED
    BY <2>1, <2>2, <1>2
<1> HIDE DEF g
<1> QED
  BY <1>2, <1>3, <1>4, <1>5 DEF Leads

LEMMA AppliedIsTaken ==
  ASSUME TypeOK, NEW m \in Messages, Apply(m)
  PROVE  Away' = Taken(Away, m)
<1>1. LiveCopies = Shown(Away)
  BY DEF LiveCopies, Shown, Away
<1>2. CASE m.type \in {"Create", "Update"}
  <2>1. MirrorStatus(m.status, m.version)
    BY <1>2 DEF Apply
  <2>2. Away' = Wrote(Away, m.status, m.version)
    BY <1>1, <2>1 DEF MirrorStatus, Wrote, Away
  <2> QED
    BY <1>2, <2>2 DEF Taken
<1>3. CASE m.type = "Delete"
  <2>1. HandleDelete(m.status)
    BY <1>3 DEF Apply
  <2>2. Away' = Deleted(Away, m.status)
    BY <2>1 DEF HandleDelete, Deleted, Away
  <2> QED
    BY <1>3, <2>2 DEF Taken
<1>4. CASE m.type \in {"Shelve", "Unshelve"}
  <2>1. ApplyShelfEvent(m.type = "Shelve")
    BY <1>4 DEF Apply
  <2>2. Away' = Shelved(Away, m.type = "Shelve")
    BY <2>1 DEF ApplyShelfEvent, Shelved, Away
  <2> QED
    BY <1>4, <2>2 DEF Taken
<1> QED
  BY <1>2, <1>3, <1>4, MessageCases

LEMMA SidesTyped == TypeOK => Home \in Sides /\ Away \in Sides /\ Shown(Home) = Live
  BY DEF TypeOK, Sides, Home, Away, Shown, Live

LEMMA MarkWatchedLeads ==
  ASSUME IInv, NEW s \in Statuses, MarkWatched(s), Leads(net, Away, Home)
  PROVE  Leads(net', Away', Home')
<1> DEFINE note == Note(IF text[s] = 0 THEN "Create" ELSE "Update", s, text'[s])
           unshelve == ShelfEvent("Unshelve")
<1>1. /\ text[s] \in 0..MaxVersion /\ text' = [text EXCEPT ![s] = text[s] + 1]
      /\ text'[s] \in 1..MaxVersion
  BY DEF IInv, TypeOK, MarkWatched
<1>2. note \in Messages /\ unshelve \in Messages /\ net \in Seq(Messages)
  BY <1>1, MessageTypes DEF IInv, TypeOK
<1>3. /\ note.type \in {"Create", "Update"} /\ note.status = s
      /\ note.version = text'[s] /\ unshelve.type = "Unshelve"
  BY DEF Note, ShelfEvent
<1>4. net' = IF watchlist THEN Append(Append(net, note), unshelve) ELSE Append(net, note)
  <2>1. net' = net \o <<note>> \o LeavesWatchlist
    BY DEF MarkWatched
  <2>2. net \o <<note>> = Append(net, note) /\ Append(net, note) \in Seq(Messages)
    BY <1>2
  <2> HIDE DEF note, unshelve
  <2>3. CASE watchlist
    BY <2>1, <2>2, <2>3, <1>2 DEF LeavesWatchlist, unshelve
  <2>4. CASE ~watchlist
    BY <2>1, <2>2, <2>4, <1>2 DEF LeavesWatchlist
  <2> QED
    BY <2>3, <2>4
<1> HIDE DEF note, unshelve
<1> DEFINE mid == [copy |-> text', tombs |-> gone, watched |-> TRUE,
                   watchlist |-> watchlist]
<1>5. Taken(Home, note) = mid
  <2>1. s \in Shown(Home) \/ (Home.copy[s] = 0 /\ Shown(Home) = {})
    BY SidesTyped DEF MarkWatched, Home, IInv
  <2>2. Wrote(Home, s, text'[s]) = mid
    BY <2>1, <1>1 DEF Wrote, Home
  <2> QED
    BY <1>3, <2>2 DEF Taken
<1>6. Taken(mid, unshelve) = [copy |-> text', tombs |-> gone, watched |-> TRUE,
                              watchlist |-> FALSE]
  BY <1>3 DEF Taken, Shelved
<1>7. Away' = Away /\ Home' = [copy |-> text', tombs |-> gone, watched |-> TRUE,
                               watchlist |-> FALSE]
  BY DEF MarkWatched, Away, Home, away
<1>8. Leads(Append(net, note), Away, mid)
  BY <1>2, <1>5, LeadsOn
<1>9. CASE watchlist
  <2>1. Append(net, note) \in Seq(Messages)
    BY <1>2
  <2>2. Leads(Append(Append(net, note), unshelve), Away, Taken(mid, unshelve))
    BY <2>1, <1>2, <1>8, LeadsOn
  <2> QED
    BY <2>2, <1>4, <1>6, <1>7, <1>9
<1>10. CASE ~watchlist
  <2>1. watchlist = FALSE
    BY <1>10 DEF IInv, TypeOK
  <2> QED
    BY <2>1, <1>4, <1>7, <1>8
<1> QED
  BY <1>9, <1>10

LEMMA OtherPostsLead ==
  ASSUME IInv, (\E s \in Statuses : DeleteReview(s)) \/ Shelve \/ Unshelve,
         Leads(net, Away, Home)
  PROVE  Leads(net', Away', Home')
<1>1. PICK m \in Messages : net' = Append(net, m) /\ Taken(Home, m) = Home'
  <2>1. ASSUME NEW s \in Statuses, DeleteReview(s)
        PROVE  /\ net' = Append(net, Note("Delete", s, 0))
               /\ Taken(Home, Note("Delete", s, 0)) = Home'
    <3>1. text[s] > 0 /\ gone' = gone \cup {s} /\ UNCHANGED <<text, watched, watchlist>>
          /\ net' = Append(net, Note("Delete", s, 0))
      BY <2>1 DEF DeleteReview, Live
    <3>2. Deleted(Home, s) = Home'
      BY <3>1 DEF Deleted, Home
    <3>3. /\ Note("Delete", s, 0).type = "Delete" /\ Note("Delete", s, 0).status = s
      BY DEF Note
    <3> QED
      BY <3>1, <3>2, <3>3 DEF Taken
  <2>2. ASSUME NEW t \in {"Shelve", "Unshelve"}, UNCHANGED <<text, gone, watched>>,
               watchlist' = (t = "Shelve")
        PROVE  Taken(Home, ShelfEvent(t)) = Home'
    <3>1. Shelved(Home, t = "Shelve") = Home'
      BY <2>2 DEF Shelved, Home
    <3>2. ShelfEvent(t).type = t
      BY DEF ShelfEvent
    <3> QED
      BY <3>1, <3>2 DEF Taken
  <2>3. CASE Shelve
    BY <2>2, <2>3, MessageTypes DEF Shelve
  <2>4. CASE Unshelve
    BY <2>2, <2>4, MessageTypes DEF Unshelve
  <2> QED
    BY <2>1, <2>3, <2>4, MessageTypes
<1>2. Away' = Away /\ net \in Seq(Messages)
  BY DEF DeleteReview, Shelve, Unshelve, Away, away, IInv, TypeOK
<1> QED
  BY <1>1, <1>2, LeadsOn

LEMMA FirstOut ==
  ASSUME NEW q \in Seq(Messages), 1 \in 1..Len(q)
  PROVE  q # <<>> /\ RemoveAt(q, 1) = Tail(q) /\ q[1] = Head(q)
  BY DEF RemoveAt

LEMMA CatchesUpStep ==
  ASSUME IInv, CatchesUp, [Next]_vars
  PROVE  CatchesUp'
<1> SUFFICES ASSUME late' + lost' + again' = 0 PROVE Leads(net', Away', Home')
  BY DEF CatchesUp
<1>1. /\ late \in Nat /\ lost \in Nat /\ again \in Nat
      /\ late' \in Nat /\ lost' \in Nat /\ again' \in Nat
  BY IInvStep DEF IInv, TypeOK
<1>2. late' = 0 /\ lost' = 0 /\ again' = 0
  <2>1. \A i, j, k \in Nat : i + j + k = 0 => i = 0 /\ j = 0 /\ k = 0
    OBVIOUS
  <2> QED
    BY <1>1, <2>1
<1>3. UNCHANGED <<late, lost, again>> => Leads(net, Away, Home)
  BY DEF CatchesUp
<1>4. CASE UNCHANGED vars
  BY <1>3, <1>4 DEF vars, home, away, Home, Away
<1>5. ASSUME NEW s \in Statuses, MarkWatched(s)
      PROVE  Leads(net', Away', Home')
  BY <1>3, <1>5, MarkWatchedLeads DEF MarkWatched
<1>6. CASE (\E s \in Statuses : DeleteReview(s)) \/ Shelve \/ Unshelve
  BY <1>3, <1>6, OtherPostsLead DEF DeleteReview, Shelve, Unshelve
<1>7. ASSUME NEW i \in 1..Len(net), Receive(i)
      PROVE  Leads(net', Away', Home')
  <2>1. i = 1 /\ late' = late
    BY <1>1, <1>2, <1>7 DEF Receive
  <2>2. Leads(net, Away, Home) /\ Home' = Home
    BY <1>3, <1>7, <2>1 DEF Receive, home, Home
  <2>3. net # <<>> /\ net' = Tail(net) /\ net[1] = Head(net) /\ net \in Seq(Messages)
    BY <1>7, <2>1, FirstOut DEF Receive, IInv, TypeOK
  <2>4. Head(net) \in Messages
    BY <2>3, HeadTailProperties
  <2>5. Apply(Head(net))
    BY <1>7, <2>1, <2>3 DEF Receive
  <2>6. Away' = Taken(Away, Head(net))
    BY <2>4, <2>5, AppliedIsTaken DEF IInv
  <2> QED
    BY <2>2, <2>3, <2>6, LeadsAfter
<1>8. ~Lose /\ ~(\E m \in seen : Redeliver(m))
  BY <1>1, <1>2 DEF Lose, Redeliver
<1> QED
  BY <1>4, <1>5, <1>6, <1>7, <1>8 DEF Next

-----------------------------------------------------------------------------
(* Nothing overtaken or applied again, though some may be lost               *)

Tells(m, s) == m.type \in {"Create", "Update"} /\ m.status = s

\* The last that is under way about a live review is its latest version, and no
\* Delete of another comes after.
InOrder ==
  \A i \in 1..Len(net) :
    /\ net[i].type = "Delete" => net[i].status \in gone
    /\ \A s \in Live : Tells(net[i], s) =>
         /\ net[i].version = text[s] \/ \E j \in i + 1..Len(net) : Tells(net[j], s)
         /\ \A j \in i + 1..Len(net) : net[j].type # "Delete"

\* A review whose Delete was lost is in the place of the one that is live.
Overstays(u) ==
  /\ u \in LiveCopies /\ u \in gone
  /\ \A i \in 1..Len(net) : net[i].type = "Delete" => net[i].status # u

\* A live review is shown, or its latest version is still to come.
Heard ==
  \A s \in Live \ unheard :
    \/ copy[s] = text[s]
    \/ \E u \in Statuses : Overstays(u)
    \/ \E i \in 1..Len(net) : Tells(net[i], s)

OneLive ==
  /\ \A s, u \in Live : s = u
  /\ \A s \in gone : text[s] > 0

Sequenced ==
  /\ OneLive
  /\ late + again = 0 => tombs \subseteq gone /\ InOrder /\ Heard

\* What a side has been told of has been written.
LEMMA KnownWritten ==
  ASSUME IInv, NEW i \in 1..Len(net), NEW s \in Statuses, Tells(net[i], s)
  PROVE  text[s] > 0
<1>1. net[i] \in Known /\ net[i] \in Messages
  BY ElementOfSeq DEF IInv, TypeOK
<1>2. net[i].version \in 1..MaxVersion /\ net[i].version <= text[s]
  BY <1>1, MessageCases DEF Known, Tells
<1> QED
  BY <1>2 DEF IInv, TypeOK

\* One more activity, under way last.
LEMMA Posted ==
  ASSUME NEW q \in Seq(Messages), NEW m \in Messages
  PROVE  /\ Append(q, m) \in Seq(Messages)
         /\ Len(q) \in Nat /\ Len(Append(q, m)) = Len(q) + 1
         /\ \A i \in 1..Len(q) : Append(q, m)[i] = q[i]
         /\ Append(q, m)[Len(q) + 1] = m
  BY LenProperties, AppendProperties

LEMMA MarkWatchedSequenced ==
  ASSUME IInv, Sequenced, NEW s \in Statuses, MarkWatched(s)
  PROVE  Sequenced'
<1> DEFINE note == Note(IF text[s] = 0 THEN "Create" ELSE "Update", s, text'[s])
           unshelve == ShelfEvent("Unshelve")
           n == Len(net)
<1>1. /\ text[s] \in 0..MaxVersion /\ text' = [text EXCEPT ![s] = text[s] + 1]
      /\ text'[s] \in 1..MaxVersion /\ text'[s] > 0
      /\ gone' = gone /\ unheard' = unheard /\ UNCHANGED <<copy, tombs, late, again>>
  BY DEF IInv, TypeOK, MarkWatched, away
<1>2. Tells(note, s) /\ note.version = text'[s] /\ unshelve.type = "Unshelve"
      /\ note.type # "Delete" /\ unshelve \in Messages /\ note \in Messages
  BY <1>1, MessageTypes DEF Note, ShelfEvent, Tells
<1>3. /\ n \in Nat /\ Len(net') \in Nat /\ Len(net') >= n + 1
      /\ \A i \in 1..n : net'[i] = net[i]
      /\ net'[n + 1] = note
      /\ \A i \in n + 2..Len(net') : net'[i] = unshelve
  <2>1. net' = (net \o <<note>>) \o LeavesWatchlist /\ net \in Seq(Messages)
    BY DEF MarkWatched, IInv, TypeOK
  <2> HIDE DEF note, unshelve
  <2>2. net \o <<note>> = Append(net, note) /\ Append(net, note) \in Seq(Messages)
    BY <1>2, <2>1
  <2>3. CASE watchlist
    <3>1. net' = Append(Append(net, note), unshelve)
      BY <2>1, <2>2, <2>3, <1>2 DEF LeavesWatchlist, unshelve
    <3>2. /\ Len(Append(net, note)) = n + 1 /\ n \in Nat
          /\ \A i \in 1..n : Append(net, note)[i] = net[i]
          /\ Append(net, note)[n + 1] = note
      BY <2>1, <1>2, Posted
    <3> DEFINE on == Append(net, note)
    <3>3. on \in Seq(Messages) /\ net' = Append(on, unshelve)
      BY <2>2, <3>1
    <3> HIDE DEF on
    <3>4. /\ Len(net') = Len(on) + 1
          /\ \A i \in 1..Len(on) : net'[i] = on[i]
          /\ net'[Len(on) + 1] = unshelve
      BY <3>3, <1>2, Posted
    <3> QED
      BY <3>2, <3>4 DEF on
  <2>4. CASE ~watchlist
    <3>1. net' = Append(net, note)
      BY <2>1, <2>2, <2>4, <1>2 DEF LeavesWatchlist
    <3> QED
      BY <3>1, <2>1, <2>2, <1>2, Posted
  <2> QED
    BY <2>3, <2>4
<1> HIDE DEF note, unshelve
<1>4. Live' = Live \cup {s} /\ s \notin gone
      /\ \A u \in Live' : u = s
  <2>1. Live' = Live \cup {s} /\ s \notin gone
    <3>1. text[s] = 0 \/ s \in Live
      BY DEF MarkWatched
    <3>2. s \notin gone
      BY <3>1, <1>1 DEF Live, Sequenced, OneLive
    <3> QED
      BY <1>1, <3>2 DEF Live, IInv, TypeOK
  <2>2. Live = {} \/ s \in Live
    BY DEF MarkWatched
  <2> QED
    BY <2>1, <2>2 DEF Sequenced, OneLive
<1>5. OneLive'
  BY <1>1, <1>4 DEF Sequenced, OneLive, IInv, TypeOK
<1>6. ASSUME late + again = 0 PROVE tombs' \subseteq gone' /\ InOrder' /\ Heard'
  <2>1. tombs \subseteq gone /\ InOrder
    BY <1>6 DEF Sequenced
  <2>2. ASSUME NEW i \in 1..Len(net')
        PROVE  /\ net'[i].type = "Delete" => net'[i].status \in gone'
               /\ \A u \in Live' : Tells(net'[i], u) =>
                    /\ \/ net'[i].version = text'[u]
                       \/ \E j \in i + 1..Len(net') : Tells(net'[j], u)
                    /\ \A j \in i + 1..Len(net') : net'[j].type # "Delete"
    <3>1. CASE i \in 1..n
      <4>1. net'[i] = net[i]
        BY <1>3, <3>1
      <4>2. net'[i].type = "Delete" => net'[i].status \in gone'
        BY <4>1, <3>1, <2>1, <1>1 DEF InOrder
      <4>3. n + 1 \in i + 1..Len(net') /\ Tells(net'[n + 1], s)
        BY <3>1, <1>3, <1>2
      <4>4. ASSUME Tells(net[i], s), NEW j \in i + 1..Len(net')
            PROVE  net'[j].type # "Delete"
        <5>1. CASE j \in 1..n
          <6>1. text[s] > 0
            BY <4>4, <3>1, KnownWritten
          <6>2. s \in Live
            BY <6>1, <1>4 DEF Live
          <6>3. j \in i + 1..Len(net)
            BY <5>1, <4>4, <3>1, <1>3
          <6> QED
            BY <6>2, <6>3, <4>4, <3>1, <5>1, <1>3, <2>1 DEF InOrder
        <5>2. CASE j = n + 1
          BY <5>2, <1>3, <1>2
        <5>3. CASE j \in n + 2..Len(net')
          BY <5>3, <1>3, <1>2
        <5> QED
          BY <5>1, <5>2, <5>3, <4>4, <3>1, <1>3
      <4> QED
        BY <4>1, <4>2, <4>3, <4>4, <1>4
    <3>2. CASE i = n + 1
      <4>1. net'[i] = note
        BY <3>2, <1>3
      <4>2. \A j \in i + 1..Len(net') : net'[j].type # "Delete"
        BY <3>2, <1>3, <1>2
      <4> QED
        BY <4>1, <4>2, <1>2, <1>4
    <3>3. CASE i \in n + 2..Len(net')
      BY <3>3, <1>3, <1>2 DEF Tells
    <3> QED
      BY <3>1, <3>2, <3>3, <1>3
  <2>3. InOrder'
    BY <2>2 DEF InOrder
  <2>4. \E i \in 1..Len(net') : Tells(net'[i], s)
    BY <1>2, <1>3
  <2>5. Heard'
    BY <2>4, <1>4 DEF Heard
  <2> QED
    BY <2>1, <2>3, <2>5, <1>1
<1> QED
  BY <1>1, <1>5, <1>6 DEF Sequenced

LEMMA DeleteSequenced ==
  ASSUME IInv, Sequenced, NEW s \in Statuses, DeleteReview(s)
  PROVE  Sequenced'
<1> DEFINE note == Note("Delete", s, 0)
           n == Len(net)
<1>1. note.type = "Delete" /\ note.status = s /\ note \in Messages
  BY MessageTypes DEF Note
<1>2. /\ n \in Nat /\ Len(net') = n + 1 /\ net'[n + 1] = note
      /\ \A i \in 1..n : net'[i] = net[i]
  BY <1>1, Posted DEF DeleteReview, IInv, TypeOK
<1>3. /\ s \in Live /\ text[s] > 0 /\ gone' = gone \cup {s}
      /\ UNCHANGED <<text, copy, tombs, late, again>>
  BY DEF DeleteReview, Live, away
<1> HIDE DEF note
<1>4. Live' = {}
  BY <1>3 DEF Live, Sequenced, OneLive
<1>5. ASSUME late + again = 0 PROVE InOrder'
  BY <1>1, <1>2, <1>3, <1>4, <1>5 DEF Sequenced, InOrder
<1> QED
  BY <1>3, <1>4, <1>5 DEF Sequenced, OneLive, Heard

LEMMA ShelvesSequenced ==
  ASSUME IInv, Sequenced, Shelve \/ Unshelve
  PROVE  Sequenced'
<1> DEFINE n == Len(net)
<1>1. PICK m \in Messages : m.type \in {"Shelve", "Unshelve"} /\ net' = Append(net, m)
  BY MessageTypes DEF Shelve, Unshelve, ShelfEvent
<1>2. /\ n \in Nat /\ Len(net') = n + 1 /\ net'[n + 1] = m
      /\ \A i \in 1..n : net'[i] = net[i]
  BY <1>1, Posted DEF IInv, TypeOK
<1>3. UNCHANGED <<text, gone, copy, tombs, unheard, late, again>>
  BY DEF Shelve, Unshelve, away
<1>4. Live' = Live /\ LiveCopies' = LiveCopies
  BY <1>3 DEF Live, LiveCopies
<1>5. m.type # "Delete" /\ \A u : ~Tells(m, u)
  BY <1>1 DEF Tells
<1>6. ASSUME late + again = 0 PROVE InOrder' /\ Heard'
  <2>1. InOrder /\ Heard
    BY <1>6 DEF Sequenced
  <2>2. InOrder'
    <3> SUFFICES ASSUME NEW i \in 1..n + 1
        PROVE  /\ net'[i].type = "Delete" => net'[i].status \in gone
               /\ \A u \in Live : Tells(net'[i], u) =>
                    /\ \/ net'[i].version = text[u]
                       \/ \E j \in i + 1..n + 1 : Tells(net'[j], u)
                    /\ \A j \in i + 1..n + 1 : net'[j].type # "Delete"
      BY <1>2, <1>3, <1>4 DEF InOrder
    <3>1. CASE i = n + 1
      BY <3>1, <1>2, <1>5
    <3>2. CASE i \in 1..n
      <4>1. \A j \in i + 1..n : j \in 1..n /\ j \in i + 1..n + 1 /\ net'[j] = net[j]
        BY <3>2, <1>2
      <4>2. \A j \in i + 1..n + 1 : j \in i + 1..n \/ net'[j] = m
        BY <3>2, <1>2
      <4>3. net'[i] = net[i]
        BY <3>2, <1>2
      <4> QED
        BY <4>1, <4>2, <4>3, <3>2, <2>1, <1>5 DEF InOrder
    <3> QED
      BY <3>1, <3>2, <1>2
  <2>3. \A u \in Statuses : Overstays(u) => Overstays(u)'
    BY <1>2, <1>3, <1>4, <1>5 DEF Overstays
  <2>4. Heard'
    BY <2>1, <2>3, <1>2, <1>3, <1>4 DEF Heard
  <2> QED
    BY <2>2, <2>4
<1> QED
  BY <1>3, <1>4, <1>6 DEF Sequenced, OneLive

\* The first is out, received or lost: what the others say of order stays.
LEMMA FirstGone ==
  ASSUME IInv, InOrder, net # <<>>, net' = Tail(net), UNCHANGED <<text, gone>>
  PROVE  /\ Len(net) \in Nat \ {0} /\ Len(net') = Len(net) - 1
         /\ Head(net) = net[1] /\ 1 \in 1..Len(net)
         /\ \A i \in 1..Len(net') : net'[i] = net[i + 1]
         /\ InOrder'
<1>1. /\ Len(net) \in Nat \ {0} /\ Len(net') = Len(net) - 1
      /\ Head(net) = net[1] /\ 1 \in 1..Len(net)
      /\ \A i \in 1..Len(net') : net'[i] = net[i + 1]
  BY LenProperties, EmptySeq, HeadTailProperties DEF IInv, TypeOK
<1>2. Live' = Live
  BY DEF Live
<1>3. ASSUME NEW i \in 1..Len(net')
      PROVE  /\ net'[i].type = "Delete" => net'[i].status \in gone'
             /\ \A u \in Live' : Tells(net'[i], u) =>
                  /\ \/ net'[i].version = text'[u]
                     \/ \E j \in i + 1..Len(net') : Tells(net'[j], u)
                  /\ \A j \in i + 1..Len(net') : net'[j].type # "Delete"
  <2>1. i + 1 \in 1..Len(net) /\ net'[i] = net[i + 1]
    BY <1>1
  <2>2. \A j \in i + 1..Len(net') : j + 1 \in (i + 1) + 1..Len(net) /\ net'[j] = net[j + 1]
    BY <1>1
  <2>3. ASSUME NEW k \in (i + 1) + 1..Len(net)
        PROVE  \E j \in i + 1..Len(net') : net'[j] = net[k]
    <3>1. k - 1 \in i + 1..Len(net') /\ (k - 1) + 1 = k /\ k - 1 \in 1..Len(net')
      BY <1>1
    <3> QED
      BY <3>1, <1>1
  <2>4. net[i + 1].type = "Delete" => net[i + 1].status \in gone
    BY <2>1 DEF InOrder
  <2>5. ASSUME NEW u \in Live, Tells(net[i + 1], u)
        PROVE  /\ \/ net[i + 1].version = text[u]
                  \/ \E k \in (i + 1) + 1..Len(net) : Tells(net[k], u)
               /\ \A k \in (i + 1) + 1..Len(net) : net[k].type # "Delete"
    BY <2>1, <2>5 DEF InOrder
  <2>6. ASSUME NEW u \in Live, Tells(net[i + 1], u)
        PROVE  /\ \/ net[i + 1].version = text[u]
                  \/ \E j \in i + 1..Len(net') : Tells(net'[j], u)
               /\ \A j \in i + 1..Len(net') : net'[j].type # "Delete"
    BY <2>2, <2>3, <2>5, <2>6
  <2> QED
    BY <2>1, <2>4, <2>6, <1>2
<1>4. InOrder'
  BY <1>3 DEF InOrder
<1> QED
  BY <1>1, <1>4

LEMMA LoseSequenced ==
  ASSUME IInv, Sequenced, Lose
  PROVE  Sequenced'
<1>1. /\ net # <<>> /\ net' = Tail(net) /\ unheard' = unheard \cup StatusOf(Head(net))
      /\ UNCHANGED <<text, gone, copy, tombs, late, again>>
  BY DEF Lose, home, away
<1>2. Live' = Live /\ LiveCopies' = LiveCopies
  BY <1>1 DEF Live, LiveCopies
<1>3. ASSUME late + again = 0 PROVE InOrder' /\ Heard'
  <2>1. InOrder /\ Heard
    BY <1>3 DEF Sequenced
  <2>2. /\ Len(net) \in Nat \ {0} /\ Len(net') = Len(net) - 1
        /\ Head(net) = net[1] /\ 1 \in 1..Len(net) /\ InOrder'
        /\ \A i \in 1..Len(net') : net'[i] = net[i + 1]
    BY <1>1, <2>1, FirstGone
  <2>3. \A u \in Statuses : Overstays(u) => Overstays(u)'
    <3>1. \A i \in 1..Len(net') : i + 1 \in 1..Len(net)
      BY <2>2
    <3> QED
      BY <1>1, <1>2, <2>2, <3>1 DEF Overstays
  <2>4. ASSUME NEW s \in Live, s \notin unheard', NEW i \in 1..Len(net), Tells(net[i], s)
        PROVE  \E j \in 1..Len(net') : Tells(net'[j], s)
    <3>1. i # 1
      BY <1>1, <2>2, <2>4 DEF StatusOf, Tells
    <3>2. i - 1 \in 1..Len(net') /\ (i - 1) + 1 = i
      BY <2>2, <3>1
    <3> QED
      BY <2>2, <2>4, <3>2
  <2>5. Heard'
    BY <1>1, <1>2, <2>1, <2>3, <2>4 DEF Heard
  <2> QED
    BY <2>2, <2>5
<1> QED
  BY <1>1, <1>2, <1>3 DEF Sequenced, OneLive

\* What is received in its turn about a live review is shown, waits for a later
\* version, or meets a review whose Delete was lost.
LEMMA ReceiveSequenced ==
  ASSUME IInv, Sequenced, NEW i \in 1..Len(net), Receive(i)
  PROVE  Sequenced'
<1> DEFINE m == net[i]
<1>1. /\ UNCHANGED <<text, gone, again>> /\ unheard' = unheard \ StatusOf(m)
      /\ Apply(m) /\ late' = (IF i > 1 THEN late + 1 ELSE late)
  BY DEF Receive, home
<1>2. /\ m \in Messages /\ net \in Seq(Messages) /\ late \in Nat /\ again \in Nat
      /\ copy \in [Statuses -> 0..MaxVersion] /\ text \in [Statuses -> 0..MaxVersion]
  BY ElementOfSeq DEF IInv, TypeOK
<1> HIDE DEF m
<1>3. Live' = Live /\ OneLive'
  BY <1>1 DEF Live, Sequenced, OneLive
<1>4. ASSUME late' + again' = 0 PROVE tombs' \subseteq gone' /\ InOrder' /\ Heard'
  <2>1. i = 1 /\ late + again = 0
    <3>1. \A j, k \in Nat : j + k = 0 => j = 0 /\ k = 0
      OBVIOUS
    <3>2. late' \in Nat /\ late' = 0 /\ again' = 0
      BY <1>1, <1>2, <1>4, <3>1
    <3> QED
      BY <1>1, <1>2, <3>2
  <2>2. tombs \subseteq gone /\ InOrder /\ Heard
    BY <2>1 DEF Sequenced
  <2>3. net # <<>> /\ net' = Tail(net) /\ m = net[1]
    BY <1>2, <2>1, FirstOut DEF Receive, m
  <2>4. /\ Len(net) \in Nat \ {0} /\ Len(net') = Len(net) - 1 /\ 1 \in 1..Len(net)
        /\ InOrder' /\ \A j \in 1..Len(net') : net'[j] = net[j + 1]
    BY <1>1, <2>2, <2>3, FirstGone
  <2>5. ASSUME NEW j \in 1..Len(net), j # 1
        PROVE  \E k \in 1..Len(net') : net'[k] = net[j]
    <3>1. j - 1 \in 1..Len(net') /\ (j - 1) + 1 = j
      BY <2>4, <2>5
    <3> QED
      BY <2>4, <3>1
  <2>6. ASSUME NEW j \in 1..Len(net')
        PROVE  net'[j] = net[j + 1] /\ j + 1 \in 1 + 1..Len(net) /\ j + 1 \in 1..Len(net)
    BY <2>4
  \* Whatever was heard of a review that the delivery is not about.
  <2>7. ASSUME NEW s \in Live, s \notin unheard, ~Tells(m, s), copy'[s] = copy[s],
               \A u \in Statuses : Overstays(u) => u \in LiveCopies'
        PROVE  \/ copy'[s] = text'[s] \/ \E u \in Statuses : Overstays(u)'
               \/ \E j \in 1..Len(net') : Tells(net'[j], s)
    <3>1. CASE copy[s] = text[s]
      BY <3>1, <2>7, <1>1
    <3>2. ASSUME NEW u \in Statuses, Overstays(u) PROVE Overstays(u)'
      BY <3>2, <2>7, <2>6, <1>1 DEF Overstays
    <3>3. ASSUME NEW j \in 1..Len(net), Tells(net[j], s)
          PROVE  \E k \in 1..Len(net') : Tells(net'[k], s)
      <4>1. j # 1
        BY <3>3, <2>3, <2>7
      <4> QED
        BY <4>1, <2>5, <3>3
    <3> QED
      BY <3>1, <3>2, <3>3, <2>2, <2>7 DEF Heard
  <2>8. CASE m.type \in {"Create", "Update"}
    <3> DEFINE t == m.status
    <3>1. t \in Statuses /\ m.version \in 1..MaxVersion /\ MirrorStatus(t, m.version)
      BY <1>1, <1>2, <2>8, MessageCases DEF Apply
    <3>2. /\ tombs' = tombs /\ \A s \in Statuses : s # t => copy'[s] = copy[s]
          /\ LiveCopies \subseteq LiveCopies'
      BY <1>2, <3>1 DEF MirrorStatus, LiveCopies
    <3>3. StatusOf(m) = {t} /\ Tells(m, t) /\ \A s : Tells(m, s) => s = t
      BY <2>8 DEF StatusOf, Tells
    <3>4. ASSUME t \in Live
          PROVE  \/ copy'[t] = text'[t] \/ \E u \in Statuses : Overstays(u)'
                 \/ \E j \in 1..Len(net') : Tells(net'[j], t)
      <4>1. /\ m.version = text[t] \/ \E j \in 1 + 1..Len(net) : Tells(net[j], t)
            /\ \A j \in 1 + 1..Len(net) : net[j].type # "Delete"
        BY <2>2, <2>3, <2>4, <3>3, <3>4 DEF InOrder
      <4>2. ASSUME NEW j \in 1 + 1..Len(net), Tells(net[j], t)
            PROVE  \E k \in 1..Len(net') : Tells(net'[k], t)
        <5>1. j \in 1..Len(net) /\ j # 1
          BY <4>2
        <5> QED
          BY <5>1, <4>2, <2>5
      <4>3. CASE t \in LiveCopies \/ (copy[t] = 0 /\ LiveCopies = {})
        BY <4>1, <4>2, <4>3, <3>1, <1>1, <1>2 DEF MirrorStatus
      <4>4. CASE ~(t \in LiveCopies \/ (copy[t] = 0 /\ LiveCopies = {}))
        <5>1. LiveCopies # {}
          <6>1. t \notin tombs
            BY <2>2, <3>4 DEF Live
          <6> QED
            BY <6>1, <4>4, <3>1, <1>2 DEF LiveCopies
        <5>2. PICK u \in LiveCopies : u # t
          BY <5>1, <4>4
        <5>3. u \in gone
          <6>1. u \in Statuses /\ copy[u] > 0 /\ copy[u] <= text[u]
            BY <5>2 DEF LiveCopies, IInv, Faithful
          <6>2. text[u] > 0
            BY <6>1, <1>2
          <6>3. u \notin Live
            BY <5>2, <3>4 DEF Sequenced, OneLive
          <6> QED
            BY <6>1, <6>2, <6>3 DEF Live
        <5>4. Overstays(u)'
          BY <5>2, <5>3, <4>1, <2>6, <3>2, <1>1 DEF Overstays
        <5> QED
          BY <5>2, <5>4 DEF LiveCopies
      <4> QED
        BY <4>1, <4>2, <4>3, <4>4
    <3>5. Heard'
      <4> SUFFICES ASSUME NEW s \in Live, s \notin unheard'
                   PROVE  \/ copy'[s] = text'[s] \/ \E u \in Statuses : Overstays(u)'
                          \/ \E j \in 1..Len(net') : Tells(net'[j], s)
        BY <1>3 DEF Heard
      <4>1. CASE s = t
        BY <4>1, <3>4
      <4>2. CASE s # t
        <5>1. s \notin unheard /\ ~Tells(m, s) /\ copy'[s] = copy[s]
          BY <4>2, <3>2, <3>3, <1>1 DEF Live
        <5>2. \A u \in Statuses : Overstays(u) => u \in LiveCopies'
          BY <3>2 DEF Overstays
        <5> QED
          BY <5>1, <5>2, <2>7
      <4> QED
        BY <4>1, <4>2
    <3> QED
      BY <3>2, <3>5, <2>2, <2>4, <1>1
  <2>9. CASE m.type = "Delete"
    <3> DEFINE t == m.status
    <3>1. t \in Statuses /\ HandleDelete(t) /\ t \in gone
      BY <1>1, <1>2, <2>2, <2>3, <2>4, <2>9, MessageCases DEF Apply, InOrder
    <3>2. copy' = copy /\ tombs' \subseteq tombs \cup {t} /\ tombs' \subseteq gone'
      BY <3>1, <2>2, <1>1 DEF HandleDelete
    <3>3. \A u \in Statuses : Overstays(u) => u \in LiveCopies'
      <4>1. \A u \in Statuses : Overstays(u) => u # t
        BY <2>3, <2>4, <2>9 DEF Overstays
      <4> QED
        BY <4>1, <3>2 DEF Overstays, LiveCopies
    <3>4. \A s \in Live : s # t /\ ~Tells(m, s)
      BY <3>1, <2>9 DEF Live, Tells
    <3>5. StatusOf(m) = {t}
      BY <2>9 DEF StatusOf
    <3>6. Heard'
      BY <1>1, <1>3, <2>7, <3>2, <3>3, <3>4, <3>5 DEF Heard
    <3> QED
      BY <3>2, <3>6, <2>4
  <2>10. CASE m.type \in {"Shelve", "Unshelve"}
    <3>1. ApplyShelfEvent(m.type = "Shelve") /\ StatusOf(m) = {}
      BY <1>1, <2>10 DEF Apply, StatusOf
    <3>2. copy' = copy /\ tombs' = tombs
      BY <3>1 DEF ApplyShelfEvent
    <3>3. \A u \in Statuses : Overstays(u) => u \in LiveCopies'
      BY <3>2 DEF Overstays, LiveCopies
    <3>4. \A s : ~Tells(m, s)
      BY <2>10 DEF Tells
    <3>5. Heard'
      BY <1>1, <1>3, <2>7, <3>1, <3>2, <3>3, <3>4 DEF Heard
    <3> QED
      BY <3>2, <3>5, <2>2, <2>4, <1>1
  <2> QED
    BY <2>8, <2>9, <2>10, <1>2, MessageCases
<1> QED
  BY <1>3, <1>4 DEF Sequenced

LEMMA RedeliverSequenced ==
  ASSUME IInv, Sequenced, NEW m \in seen, Redeliver(m)
  PROVE  Sequenced'
<1>1. late' = late /\ again' = again + 1 /\ UNCHANGED <<text, gone>>
  BY DEF Redeliver, home
<1>2. late' + again' # 0
  BY <1>1 DEF IInv, TypeOK
<1> QED
  BY <1>1, <1>2 DEF Sequenced, OneLive, Live

LEMMA SequencedStep == IInv /\ Sequenced /\ [Next]_vars => Sequenced'
<1> SUFFICES ASSUME IInv, Sequenced, [Next]_vars PROVE Sequenced'
  OBVIOUS
<1>1. CASE UNCHANGED vars
  BY <1>1 DEF Sequenced, OneLive, Live, LiveCopies, InOrder, Heard, Overstays,
     vars, home, away
<1> QED
  BY <1>1, MarkWatchedSequenced, DeleteSequenced, ShelvesSequenced, LoseSequenced,
     ReceiveSequenced, RedeliverSequenced DEF Next

-----------------------------------------------------------------------------
(* The theorems                                                              *)

Mirrored == IInv /\ CatchesUp /\ Sequenced

LEMMA MirroredInit == Init => Mirrored
<1> SUFFICES ASSUME Init PROVE Mirrored
  OBVIOUS
<1>1. IInv
  BY IInvInit
<1>2. Away \in Sides /\ Home = Away
  BY <1>1, SidesTyped DEF Init, IInv, Home, Away
<1>3. CatchesUp
  BY <1>2, LeadsNowhere DEF Init, CatchesUp
<1>4. Live = {} /\ gone = {} /\ tombs = {}
  BY DEF Init, Live
<1>5. Sequenced
  BY <1>4 DEF Sequenced, OneLive, InOrder, Heard, Init
<1> QED
  BY <1>1, <1>3, <1>5 DEF Mirrored

LEMMA MirroredStep == Mirrored /\ [Next]_vars => Mirrored'
  BY IInvStep, CatchesUpStep, SequencedStep DEF Mirrored

\* No reader sees a version that was never written, or two live reviews of one
\* film, however late, lost or repeated the deliveries are.
THEOREM NothingInventedHolds == Spec => []NothingInvented
<1>1. IInv => NothingInvented
  BY DEF IInv, Faithful, NothingInvented
<1>2. IInv /\ [Next]_vars => IInv'
  BY IInvStep
<1> QED
  BY <1>1, <1>2, IInvInit, PTL DEF Spec

\* A mirrored review that was taken down stays down: no late Update and no
\* Create reopened by the prune brings it back.
THEOREM TombstonesStay == Spec => TombstoneIsFinal
<1>1. IInv /\ [Next]_vars => IInv'
  BY IInvStep
<1>2. IInv /\ [Next]_vars => [tombs \subseteq tombs']_vars
  BY IInvStep
<1> QED
  BY <1>1, <1>2, IInvInit, PTL DEF Spec, TombstoneIsFinal

\* If nothing was lost, overtaken or applied again and nothing is under way, the
\* two instances agree: on each review's text, on which are gone and on both
\* shelves.
THEOREM ConvergedHolds == Spec => []Converged
<1>1. Mirrored => Converged
  <2> SUFFICES ASSUME Mirrored, net = <<>>, late + lost + again = 0
               PROVE  /\ copy = text /\ tombs = gone
                      /\ mWatched = watched /\ mWatchlist = watchlist
    BY DEF Converged
  <2>1. Away = Home
    BY LeadsNowhere DEF Mirrored, CatchesUp
  <2> QED
    BY <2>1 DEF Away, Home
<1> QED
  BY <1>1, MirroredInit, MirroredStep, PTL DEF Spec

\* Deliveries that failed heal: in order, a live review is shown in its latest
\* version unless its own latest delivery failed, or a lost Delete left another
\* review of the film in its place.
THEOREM LatestIsShown == Spec => []LatestVersionShown
<1>1. Mirrored => LatestVersionShown
  <2> SUFFICES ASSUME Mirrored, net = <<>>, late + again = 0,
                      NEW s \in Live \ unheard
               PROVE  copy[s] = text[s] \/ \E u \in LiveCopies : u \in gone
    BY DEF LatestVersionShown
  <2>1. ~\E i \in 1..Len(net) : Tells(net[i], s)
    OBVIOUS
  <2> QED
    BY <2>1 DEF Mirrored, Sequenced, Heard, Overstays
<1> QED
  BY <1>1, MirroredInit, MirroredStep, PTL DEF Spec
=============================================================================
