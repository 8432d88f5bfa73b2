---------------------------- MODULE FollowProofs ----------------------------
(* A follower's row and its notification stand or fall together, for any     *)
(* number of clicks, faults and blockings.                                   *)
(*                                                                           *)
(* The notification is counted where the row commits.  That the two agree    *)
(* rests on what a transaction may know before it commits (`Decided`), and   *)
(* on a block being behind each notification that was withheld (`Withheld`). *)
EXTENDS Follow, FiniteSetTheorems, TLAPS

Accepted == {r \in Requests : tx[r] = "ok" /\ verdict[r] = "accept"}

Typed ==
  /\ held \in Requests \cup {None}
  /\ followers \in BOOLEAN
  /\ blocks \in BOOLEAN
  /\ kind \in [Requests -> {"follow", "undo"}]
  /\ page \in [Requests -> Pages]
  /\ told \in [Requests -> {"nothing", "success", "warning"}]
  /\ tx \in [Requests -> Txs]
  /\ verdict \in [Requests -> Verdicts]
  /\ inserted \in [Requests -> BOOLEAN]
  /\ answers \in SUBSET Requests
  /\ blockings \in 0..MaxBlockings
  /\ faults \in 0..MaxFaults
  /\ alone \in BOOLEAN

\* A Follow has a verdict once it is being answered and none before; only such a
\* one has inserted the row, and its notification is then decided.
Decided ==
  \A r \in Requests :
    /\ page[r] \in {"free", "checked", "posting"} => tx[r] = "none"
    /\ tx[r] \in {"none", "arrived", "adding"} => verdict[r] = "none"
    /\ inserted[r] => tx[r] = "answering" /\ verdict[r] \in {"accept", "quiet"}

\* A notification is withheld because of a block.
Withheld ==
  /\ blocks => blockings > 0
  /\ \A r \in Requests : verdict[r] = "quiet" => blockings > 0

Counted == notes = Cardinality(Accepted)
Told == followers => notes > 0 \/ blockings > 0

IInv == Typed /\ Decided /\ Withheld /\ Counted /\ Told

-----------------------------------------------------------------------------
USE FollowAssumption

LEMMA AcceptedIsFinite ==
  /\ IsFiniteSet(Accepted) /\ Cardinality(Accepted) \in Nat
  /\ Cardinality(Requests) \in Nat
  /\ Cardinality(Accepted) <= Cardinality(Requests)
  BY FS_Subset, FS_CardinalityType DEF Accepted

LEMMA IInvInit == Init => IInv
<1> SUFFICES ASSUME Init PROVE IInv
  OBVIOUS
<1>1. Typed
  <2>1. blockings \in 0..MaxBlockings /\ faults \in 0..MaxFaults
    BY DEF Init
  <2>2. inserted \in [Requests -> BOOLEAN]
    BY DEF Init
  <2>3. /\ page \in [Requests -> Pages] /\ tx \in [Requests -> Txs]
        /\ verdict \in [Requests -> Verdicts]
    BY DEF Init, Pages, Txs, Verdicts
  <2> QED
    BY <2>1, <2>2, <2>3 DEF Init, Typed
<1>2. Decided /\ Withheld /\ Told
  BY DEF Init, Decided, Withheld, Told
<1>3. Accepted = {}
  BY DEF Init, Accepted
<1>4. Counted
  BY <1>3, FS_EmptySet DEF Init, Counted
<1> QED
  BY <1>1, <1>2, <1>4 DEF IInv

\* Clicks, home's requests and answers leave the other instance's rows alone; a
\* delivery opens a transaction there for a request that had none.
HomeStep ==
  \/ \E r \in Requests, k \in {"follow", "undo"} : Click(r, k)
  \/ \E r \in Requests : Record(r) \/ Deliver(r) \/ Undelivered(r) \/ Finish(r)
                           \/ HandleAnswer(r) \/ AnswerRefused(r)

LEMMA HomeKeeps == IInv /\ HomeStep => IInv'
<1> SUFFICES ASSUME IInv, HomeStep PROVE IInv'
  OBVIOUS
<1> USE DEF IInv, Typed, Decided, home, away, Pages, Txs, Fault
<1>1. CASE \E r \in Requests, k \in {"follow", "undo"} : Click(r, k)
  <2>1. Typed' /\ Decided'
    BY <1>1 DEF Click
  <2>2. UNCHANGED <<tx, verdict, notes, followers, blocks, blockings>>
    BY <1>1 DEF Click
  <2> QED
    BY <2>1, <2>2 DEF Withheld, Counted, Accepted, Told
<1>2. CASE \E r \in Requests : Record(r) \/ Undelivered(r) \/ Finish(r)
                                 \/ HandleAnswer(r) \/ AnswerRefused(r)
  <2>1. Typed' /\ Decided'
    BY <1>2 DEF Record, Undelivered, Finish, HandleAnswer, AnswerRefused
  <2>2. UNCHANGED <<tx, verdict, notes, followers, blocks, blockings>>
    BY <1>2 DEF Record, Undelivered, Finish, HandleAnswer, AnswerRefused
  <2> QED
    BY <2>1, <2>2 DEF Withheld, Counted, Accepted, Told
<1>3. ASSUME NEW r \in Requests, Deliver(r)
      PROVE  IInv'
  <2>1. Typed' /\ Decided'
    BY <1>3 DEF Deliver
  <2>2. tx[r] = "none"
    BY <1>3 DEF Deliver
  <2>3. Accepted' = Accepted
    BY <1>3, <2>2 DEF Deliver, Accepted
  <2>4. UNCHANGED <<verdict, notes, followers, blocks, blockings>>
    BY <1>3 DEF Deliver
  <2> QED
    BY <2>1, <2>3, <2>4 DEF Withheld, Counted, Told
<1> QED
  BY <1>1, <1>2, <1>3 DEF HomeStep

\* What a transaction does short of a commit: it decides nothing, or decides
\* and is not yet over.
LEMMA OpenKeeps ==
  ASSUME IInv, NEW r \in Requests,
         HandleFollow(r) \/ AddFollower(r) \/ HandleUndo(r) \/ AwayRefuses(r)
           \/ AnswerFails(r)
  PROVE  IInv'
<1> USE DEF IInv, Typed, Decided, home, Pages, Txs, Verdicts, Fault, NoteVerdict
<1>1. Typed'
  <2>1. CASE HandleFollow(r) \/ HandleUndo(r)
    BY <2>1 DEF HandleFollow, HandleUndo
  <2>2. CASE AddFollower(r)
    <3>1. inserted' \in [Requests -> BOOLEAN]
      BY <2>2 DEF AddFollower
    <3>2. tx' \in [Requests -> Txs] /\ verdict' \in [Requests -> Verdicts]
          /\ answers' \in SUBSET Requests
      BY <2>2 DEF AddFollower
    <3> QED
      BY <2>2, <3>1, <3>2 DEF AddFollower
  <2>3. CASE AwayRefuses(r) \/ AnswerFails(r)
    <3>1. faults' \in 0..MaxFaults
      BY <2>3 DEF AwayRefuses, AnswerFails
    <3>2. tx' \in [Requests -> Txs] /\ inserted' \in [Requests -> BOOLEAN]
          /\ answers' \in SUBSET Requests
      BY <2>3 DEF AwayRefuses, AnswerFails
    <3>3. UNCHANGED <<home, followers, verdict, blocks, blockings, alone>>
      BY <2>3 DEF AwayRefuses, AnswerFails
    <3> QED
      BY <3>1, <3>2, <3>3
  <2> QED
    BY <2>1, <2>2, <2>3
<1>2. Decided'
  BY DEF HandleFollow, AddFollower, HandleUndo, AwayRefuses, AnswerFails
<1>3. Withheld'
  BY DEF HandleFollow, AddFollower, HandleUndo, AwayRefuses, AnswerFails, Withheld
<1>4. Accepted' = Accepted
  BY DEF HandleFollow, AddFollower, HandleUndo, AwayRefuses, AnswerFails, Accepted
<1>5. notes' = notes /\ blockings' = blockings /\ (followers' => followers)
  BY DEF HandleFollow, AddFollower, HandleUndo, AwayRefuses, AnswerFails
<1> QED
  BY <1>1, <1>2, <1>3, <1>4, <1>5 DEF Counted, Told

\* The commit of a Follow writes its row and its notification.
LEMMA CommitFollowKeeps ==
  ASSUME IInv, NEW r \in Requests, CommitFollow(r)
  PROVE  IInv'
<1> USE DEF IInv, Typed, Decided
<1>1. Typed' /\ Decided' /\ Withheld'
  BY DEF CommitFollow, home, Pages, Txs, Verdicts, Withheld
<1>2. notes \in Nat
  BY AcceptedIsFinite DEF Counted
<1>3. CASE verdict[r] = "accept"
  <2>1. Accepted' = Accepted \cup {r} /\ r \notin Accepted
    BY <1>3 DEF CommitFollow, Accepted, Txs
  <2>2. Cardinality(Accepted \cup {r}) = Cardinality(Accepted) + 1
    BY <2>1, AcceptedIsFinite, FS_AddElement
  <2>3. notes' = notes + 1
    BY <1>3 DEF CommitFollow
  <2>4. Counted'
    BY <2>1, <2>2, <2>3 DEF Counted
  <2>5. Told'
    BY <2>3, <1>2 DEF Told
  <2> QED
    BY <1>1, <2>4, <2>5
<1>4. CASE verdict[r] # "accept"
  <2>1. Accepted' = Accepted /\ notes' = notes /\ blockings' = blockings
    BY <1>4 DEF CommitFollow, Accepted, Txs
  <2>2. Told'
    BY <1>4, <2>1 DEF CommitFollow, Told, Withheld
  <2> QED
    BY <1>1, <2>1, <2>2 DEF Counted
<1> QED
  BY <1>3, <1>4

LEMMA BlocksKeep == IInv /\ (Block \/ Unblock) => IInv'
<1> SUFFICES ASSUME IInv, Block \/ Unblock PROVE IInv'
  OBVIOUS
<1>1. Typed' /\ Decided'
  <2>1. UNCHANGED <<held, followers, notes, kind, page, told, tx, verdict,
                    inserted, answers, faults, alone>>
    BY DEF Block, Unblock, home, away
  <2>2. blocks' \in BOOLEAN
    BY DEF Block, Unblock
  <2>3. blockings' \in 0..MaxBlockings
    BY DEF IInv, Typed, Block, Unblock
  <2> QED
    BY <2>1, <2>2, <2>3 DEF IInv, Typed, Decided
<1>2. Accepted' = Accepted /\ UNCHANGED <<notes, followers>>
  BY DEF Block, Unblock, away, Accepted
<1>3. blockings > 0 => blockings' > 0
  BY DEF IInv, Typed, Block, Unblock
<1>4. Withheld'
  <2>1. blocks' => blockings' > 0
    BY DEF IInv, Typed, Withheld, Block, Unblock
  <2>2. verdict' = verdict
    BY DEF Block, Unblock, away
  <2> QED
    BY <2>1, <2>2, <1>3 DEF IInv, Withheld
<1> QED
  BY <1>1, <1>2, <1>3, <1>4 DEF IInv, Counted, Told

LEMMA IInvStep == IInv /\ [Next]_vars => IInv'
<1> SUFFICES ASSUME IInv, [Next]_vars PROVE IInv'
  OBVIOUS
<1>1. CASE UNCHANGED vars
  BY <1>1 DEF IInv, Typed, Decided, Withheld, Counted, Accepted, Told, vars, home,
              away
<1> QED
  BY <1>1, HomeKeeps, OpenKeeps, CommitFollowKeeps, BlocksKeep
  DEF Next, Progress, HomeStep

\* Every reachable state is well typed: there are no more notifications than
\* clicks.
THEOREM TypeCorrect == Spec => []TypeOK
<1>1. IInv => TypeOK
  <2> SUFFICES ASSUME IInv PROVE TypeOK
    OBVIOUS
  <2>1. notes \in 0..Cardinality(Requests)
    BY AcceptedIsFinite DEF IInv, Counted
  <2> QED
    BY <2>1 DEF IInv, Typed, TypeOK
<1> QED
  BY <1>1, IInvInit, IInvStep, PTL DEF Spec

\* One notification for each Follow that was accepted and committed, whatever
\* was rolled back, refused, late or retried by a second click; and nobody
\* follows unannounced, unless a block withheld the announcement.
THEOREM NotedHolds == Spec => []NotedWithRow
<1>1. IInv => NotedWithRow
  BY DEF IInv, Counted, Accepted, Told, NotedWithRow
<1> QED
  BY <1>1, IInvInit, IInvStep, PTL DEF Spec
-----------------------------------------------------------------------------
(* Agreement of a member who waits for each page                             *)

Agree ==
  /\ held # None => followers
  /\ followers => held # None \/ blockings > 0

\* Whatever is under way belongs to the one click that is open.
OneAtWork ==
  /\ \A q, r \in Open : q = r
  /\ \A r \in Requests :
       /\ tx[r] \in {"arrived", "adding", "answering"} => page[r] = "waiting"
       /\ page[r] = "waiting" => tx[r] \in {"arrived", "adding", "answering", "ok"}
       /\ r \in answers => tx[r] = "answering"

\* While its click is under way home is ahead of the other instance: it holds
\* what the click asked for, until a Reject is handled.
Ahead ==
  \A r \in Requests :
    /\ page[r] = "posting" \/ tx[r] \in {"arrived", "adding"} =>
         held = IF kind[r] = "undo" THEN None ELSE r
    /\ tx[r] \in {"adding", "answering"} => kind[r] = "follow"
    /\ tx[r] = "answering" /\ verdict[r] = "reject" =>
         blockings > 0 /\ (held = None \/ r \in answers)
    /\ tx[r] = "answering" /\ verdict[r] # "reject" =>
         held = r /\ (followers \/ inserted[r])

\* Before it is under way and when it is over, the two agree.
Rested ==
  (\A r \in Requests : page[r] \in {"free", "checked", "done"} \/ tx[r] = "ok")
    => Agree

Orderly == alone /\ faults = 0 => OneAtWork /\ Ahead /\ Rested

LEMMA FaultsAreDisorder ==
  ASSUME IInv, NEW r \in Requests,
         Undelivered(r) \/ AwayRefuses(r) \/ AnswerFails(r) \/ AnswerRefused(r)
  PROVE  Orderly'
<1>1. faults \in Nat /\ faults' = faults + 1
  BY DEF IInv, Typed, Fault, Undelivered, AwayRefuses, AnswerFails, AnswerRefused
<1> QED
  BY <1>1 DEF Orderly

LEMMA ClickIsOrderly ==
  ASSUME IInv, Orderly, NEW r \in Requests, NEW k \in {"follow", "undo"},
         Click(r, k)
  PROVE  Orderly'
<1> SUFFICES ASSUME alone', faults' = 0 PROVE (OneAtWork /\ Ahead /\ Rested)'
  BY DEF Orderly
<1> USE DEF IInv, Typed, Decided, Orderly, Click, away
<1>1. OneAtWork /\ Ahead /\ Rested /\ Open = {}
  OBVIOUS
<1>2. \A q \in Requests : page[q] \in {"free", "done"}
  BY <1>1 DEF Open
<1>3. OneAtWork'
  BY <1>1, <1>2 DEF OneAtWork, Open
<1>4. Ahead'
  BY <1>1, <1>2 DEF Ahead, OneAtWork
<1>5. Rested'
  BY <1>1, <1>2 DEF Rested, Agree
<1> QED
  BY <1>3, <1>4, <1>5

\* The steps at home of the open click.
LEMMA HomeIsOrderly ==
  ASSUME IInv, Orderly, NEW r \in Requests,
         Record(r) \/ Deliver(r) \/ Finish(r) \/ HandleAnswer(r)
  PROVE  Orderly'
<1> SUFFICES ASSUME alone', faults' = 0 PROVE (OneAtWork /\ Ahead /\ Rested)'
  BY DEF Orderly
<1> USE DEF IInv, Typed, Decided, Withheld, Orderly, away, Txs
<1>1. OneAtWork /\ Ahead /\ Rested
  BY DEF Record, Deliver, Finish, HandleAnswer
<1>2. CASE Record(r)
  <2>1. OneAtWork'
    BY <1>1, <1>2 DEF OneAtWork, Open, Record
  <2>2. \A q \in Requests \ {r} :
          page[q] \in {"free", "done"} /\ tx[q] \in {"none", "ok", "failed"}
    BY <1>1, <1>2 DEF OneAtWork, Open, Record
  <2>3. Ahead'
    BY <1>1, <1>2, <2>2 DEF Ahead, Record
  <2> QED
    BY <1>2, <2>1, <2>3 DEF Rested, Record
<1>3. CASE Deliver(r)
  <2>1. OneAtWork'
    BY <1>1, <1>3 DEF OneAtWork, Open, Deliver
  <2>2. Ahead'
    BY <1>1, <1>3 DEF Ahead, Deliver
  <2> QED
    BY <1>3, <2>1, <2>2 DEF Rested, Deliver
<1>4. CASE Finish(r)
  <2>1. OneAtWork'
    BY <1>1, <1>4 DEF OneAtWork, Open, Finish
  <2>2. tx[r] = "ok"
    BY <1>1, <1>4 DEF Finish, OneAtWork
  <2>3. Ahead'
    BY <1>1, <1>4, <2>2 DEF Ahead, Finish
  <2> QED
    BY <1>1, <1>4, <2>1, <2>2, <2>3 DEF Rested, Agree, Finish
<1>5. CASE HandleAnswer(r)
  <2>1. tx[r] = "answering" /\ page[r] = "waiting"
    BY <1>1, <1>5 DEF OneAtWork, HandleAnswer
  <2>2. \A q \in Requests \ {r} :
          page[q] # "posting" /\ tx[q] \in {"none", "ok", "failed"}
    BY <1>1, <2>1 DEF OneAtWork, Open
  <2>3. OneAtWork'
    BY <1>1, <1>5 DEF OneAtWork, Open, HandleAnswer
  <2>4. Ahead'
    BY <1>1, <1>5, <2>1, <2>2 DEF Ahead, HandleAnswer
  <2> QED
    BY <1>5, <2>1, <2>3, <2>4 DEF Rested, HandleAnswer
<1> QED
  BY <1>2, <1>3, <1>4, <1>5

\* The steps of its transaction.
LEMMA AwayIsOrderly ==
  ASSUME IInv, Orderly, NEW r \in Requests,
         HandleFollow(r) \/ AddFollower(r) \/ HandleUndo(r) \/ CommitFollow(r)
  PROVE  Orderly'
<1> SUFFICES ASSUME alone', faults' = 0 PROVE (OneAtWork /\ Ahead /\ Rested)'
  BY DEF Orderly
<1> USE DEF IInv, Typed, Decided, Orderly, home, Txs
<1>1. OneAtWork /\ Ahead /\ Rested
  BY DEF HandleFollow, AddFollower, HandleUndo, CommitFollow
<1>2. tx[r] \in {"arrived", "adding", "answering"} /\ page[r] = "waiting"
  BY <1>1 DEF OneAtWork, HandleFollow, AddFollower, HandleUndo, CommitFollow
<1>3. \A q \in Requests \ {r} :
        page[q] # "posting" /\ tx[q] \in {"none", "ok", "failed"}
  BY <1>1, <1>2 DEF OneAtWork, Open
<1>4. OneAtWork'
  <2>1. CASE HandleFollow(r) \/ HandleUndo(r)
    <3>1. page' = page /\ \A q \in Requests \ {r} : tx'[q] = tx[q]
      BY <2>1 DEF HandleFollow, HandleUndo
    <3>2. /\ tx'[r] \in {"adding", "answering", "ok"}
          /\ answers' \in {answers, answers \cup {r}}
          /\ r \in answers' => tx'[r] = "answering"
      BY <1>1, <1>2, <2>1 DEF OneAtWork, HandleFollow, HandleUndo
    <3> QED
      BY <1>1, <1>2, <3>1, <3>2 DEF OneAtWork, Open
  <2>2. CASE AddFollower(r)
    BY <1>1, <1>2, <2>2 DEF OneAtWork, Open, AddFollower
  <2>3. CASE CommitFollow(r)
    BY <1>1, <1>2, <2>3 DEF OneAtWork, Open, CommitFollow
  <2> QED
    BY <2>1, <2>2, <2>3
<1>5. CASE HandleFollow(r)
  <2>1. Ahead'
    BY <1>1, <1>2, <1>3, <1>5 DEF Ahead, HandleFollow, Withheld
  <2> QED
    BY <1>2, <1>4, <1>5, <2>1 DEF Rested, HandleFollow
<1>6. CASE AddFollower(r)
  <2>1. Ahead'
    BY <1>1, <1>2, <1>3, <1>6 DEF Ahead, AddFollower, NoteVerdict
  <2> QED
    BY <1>2, <1>4, <1>6, <2>1 DEF Rested, AddFollower
<1>7. CASE HandleUndo(r)
  <2>1. Ahead'
    BY <1>1, <1>2, <1>3, <1>7 DEF Ahead, HandleUndo
  <2>2. Agree'
    BY <1>1, <1>7 DEF Ahead, Agree, HandleUndo
  <2> QED
    BY <1>4, <2>1, <2>2 DEF Rested
<1>8. CASE CommitFollow(r)
  <2>1. Ahead'
    BY <1>1, <1>2, <1>3, <1>8 DEF Ahead, CommitFollow
  <2>2. Agree'
    BY <1>1, <1>8 DEF Ahead, Agree, CommitFollow
  <2> QED
    BY <1>4, <2>1, <2>2 DEF Rested
<1> QED
  BY <1>5, <1>6, <1>7, <1>8

LEMMA BlocksAreOrderly == IInv /\ Orderly /\ (Block \/ Unblock) => Orderly'
<1> SUFFICES ASSUME IInv, Orderly, Block \/ Unblock PROVE Orderly'
  OBVIOUS
<1>1. blockings > 0 => blockings' > 0
  BY DEF IInv, Typed, Block, Unblock
<1>2. UNCHANGED <<home, away, answers, faults, alone>>
  BY DEF Block, Unblock
<1> QED
  BY <1>1, <1>2 DEF Orderly, OneAtWork, Open, Ahead, Rested, Agree, home, away

LEMMA OrderlyInit == Init => Orderly
  BY DEF Init, Orderly, OneAtWork, Open, Ahead, Rested, Agree

LEMMA OrderlyStep == IInv /\ Orderly /\ [Next]_vars => Orderly'
<1> SUFFICES ASSUME IInv, Orderly, [Next]_vars PROVE Orderly'
  OBVIOUS
<1>1. CASE UNCHANGED vars
  BY <1>1 DEF Orderly, OneAtWork, Open, Ahead, Rested, Agree, vars, home, away
<1> QED
  BY <1>1, FaultsAreDisorder, ClickIsOrderly, HomeIsOrderly, AwayIsOrderly,
     BlocksAreOrderly DEF Next, Progress

\* A member who waits for each page over a network that has not failed: when
\* nothing is under way the instances agree on the follow, but for the row a
\* block may have left behind.
THEOREM AgreementHolds == Spec => []SettledAgreement
<1>1. IInv /\ Orderly => SettledAgreement
  BY DEF Orderly, Rested, Agree, SettledAgreement, Quiet, Open
<1>2. Init => IInv /\ Orderly
  BY IInvInit, OrderlyInit
<1>3. IInv /\ Orderly /\ [Next]_vars => IInv' /\ Orderly'
  BY IInvStep, OrderlyStep
<1> QED
  BY <1>1, <1>2, <1>3, PTL DEF Spec
=============================================================================
