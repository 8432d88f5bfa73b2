------------------------------- MODULE Lists -------------------------------
(* One member's ranked list of films, edited from several tabs, its copy on  *)
(* another instance, and the member who has saved it.                        *)
(*                                                                           *)
(* The order is kept as ranks.  A move swaps the ranks of two rows it has    *)
(* read, an addition takes the highest rank it has read and one more, and    *)
(* nothing is renumbered.  After each edit the whole list is composed anew   *)
(* and sent, under the title the request loaded.                             *)
EXTENDS Naturals, FiniteSets, SequencesExt

CONSTANTS
  Requests,  \* requests that can be open at once
  Films,
  Known,     \* those of them the other instance can resolve
  Titles,
  MaxEdits   \* bound: edits begun and saves

VARIABLES
  list,   \* the list and its post face: "unborn", "live" or "gone"
  title,
  rank,   \* the rank of each film, 0 for one that has no row
  rows,   \* the films that have a row, in order of row id
  save,   \* the other member's row: "none", "saved" or "dismissed"
  copy,   \* the other instance's mirror
  asked,  \* history: the order the edits asked for
  req,    \* each request: what it does and what it has read
  crossed, \* history: two additions or two moves have overlapped
  alone,  \* history: no two requests overlapped and nothing was lost
  edits   \* bound's counter

vars == <<list, title, rank, rows, save, copy, asked, req, crossed, alone,
          edits>>

Edits == {"create", "add", "remove", "up", "down", "edit", "delete"}

Nothing == [state |-> "none", title |-> "none", rank |-> [f \in Films |-> 0]]
Idle == [op |-> "none", at |-> "idle", on |-> "none", title |-> "none",
         rank |-> 0, other |-> "none", otherRank |-> 0, lost |-> FALSE,
         doc |-> Nothing]

Copies == [state : {"none", "live", "gone"}, title : Titles \cup {"none"},
           rank : [Films -> Nat]]

TypeOK ==
  /\ list \in {"unborn", "live", "gone"}
  /\ title \in Titles
  /\ rank \in [Films -> Nat]
  /\ IsInjective(rows) /\ ToSet(rows) = {f \in Films : rank[f] > 0}
  /\ save \in {"none", "saved", "dismissed"}
  /\ save = "dismissed" => list = "gone"
  /\ copy \in Copies
  /\ asked \in Seq(Films)
  /\ req \in [Requests ->
       [op : Edits \cup {"none"},
        at : {"idle", "loaded", "read", "half", "made", "composed"},
        on : Films \cup Titles \cup {"none"}, title : Titles \cup {"none"},
        rank : Nat, other : Films \cup {"none"}, otherRank : Nat,
        lost : BOOLEAN, doc : Copies]]
  /\ {crossed, alone} \subseteq BOOLEAN
  /\ edits \in 0..MaxEdits

Init ==
  /\ list = "unborn" /\ title \in Titles
  /\ rank = [f \in Films |-> 0] /\ rows = <<>>
  /\ save = "none" /\ copy = Nothing /\ asked = <<>>
  /\ req = [r \in Requests |-> Idle]
  /\ crossed = FALSE /\ alone = TRUE /\ edits = 0

At(r, ops, at) == req[r].op \in ops /\ req[r].at = at
Ends(r) == req' = [req EXCEPT ![r] = Idle]
Counted == edits < MaxEdits /\ edits' = edits + 1
Goes(r, at) == req' = [req EXCEPT ![r].at = at]

\* The edits that read ranks, and the ones whose reads still count.
Kind(op) == IF op \in {"up", "down"} THEN "move" ELSE op
Open == {r \in Requests : /\ req[r].at \in {"loaded", "read", "half"}
                          /\ Kind(req[r].op) \in {"add", "move"}}

Place(q, f) == CHOOSE i \in DOMAIN q : q[i] = f
Without(q, f) == RemoveAt(q, Place(q, f))

\* Where a film stands: rows sort by rank, then by id.
Before(f, g) ==
  \/ rank[f] < rank[g]
  \/ rank[f] = rank[g] /\ Place(rows, f) < Place(rows, g)

\* The row next above or below a rank, which skips the rows that share it.
Neighbours(op, k) ==
  LET beyond == {f \in Films : rank[f] > 0 /\
                   IF op = "up" THEN rank[f] < k ELSE rank[f] > k}
  IN {f \in beyond : \A g \in beyond \ {f} :
        IF op = "up" THEN Before(g, f) ELSE Before(f, g)}

\* A move that has saved its first row holds its lock.
Locked(f) == \E r \in Requests : req[r].at = "half" /\ req[r].on = f

-----------------------------------------------------------------------------
(* The editor                                                                *)

\* _owned_list loads a live list, and list_move its row.
Load(r, op, on) ==
  /\ req[r] = Idle /\ Counted
  /\ IF op = "create" THEN list = "unborn" ELSE list = "live"
  /\ op \in {"up", "down"} => rank[on] > 0
  /\ req' = [req EXCEPT ![r] = [Idle EXCEPT
       !.op = op, !.at = "loaded", !.on = on, !.title = title,
       !.rank = IF on \in Films THEN rank[on] ELSE 0]]
  /\ crossed' = (crossed \/ \E q \in Open : Kind(op) = Kind(req[q].op))
  /\ alone' = (alone /\ \A q \in Requests : req[q] = Idle)
  /\ UNCHANGED <<list, title, rank, rows, save, copy, asked>>

\* The list, its face and its items in one transaction.
Create(r) ==
  /\ At(r, {"create"}, "loaded")
  /\ list = "unborn" /\ list' = "live"
  /\ Goes(r, "made")
  /\ UNCHANGED <<title, rank, rows, save, copy, asked, crossed, alone, edits>>

NextRank == Max({rank[f] : f \in Films}) + 1

\* _append_films reads the rows, and then makes one: the unique row per film
\* turns a second one away.
AppendReads(r) ==
  /\ At(r, {"add"}, "loaded")
  /\ IF rank[req[r].on] > 0 THEN Ends(r)
     ELSE req' = [req EXCEPT ![r].at = "read", ![r].rank = NextRank]
  /\ UNCHANGED <<list, title, rank, rows, save, copy, asked, crossed, alone,
                 edits>>

Append_(r) ==
  /\ At(r, {"add"}, "read")
  /\ LET f == req[r].on IN
     IF rank[f] > 0 THEN Ends(r) /\ UNCHANGED <<rank, rows, asked>>
     ELSE /\ rank' = [rank EXCEPT ![f] = req[r].rank]
          /\ rows' = Append(rows, f) /\ asked' = Append(asked, f)
          /\ Goes(r, "made")
  /\ UNCHANGED <<list, title, save, copy, crossed, alone, edits>>

\* A move that has read the row has lost it, though the film be added again.
RemoveFilm(r) ==
  /\ At(r, {"remove"}, "loaded")
  /\ LET f == req[r].on IN
     /\ ~Locked(f)
     /\ IF rank[f] = 0 THEN Ends(r) /\ UNCHANGED <<rank, rows, asked>>
        ELSE /\ rank' = [rank EXCEPT ![f] = 0]
             /\ rows' = Without(rows, f) /\ asked' = Without(asked, f)
             /\ req' = [q \in Requests |->
                  IF q = r THEN [req[r] EXCEPT !.at = "made"]
                  ELSE [req[q] EXCEPT !.lost = @ \/
                          (/\ req[q].op \in {"up", "down"}
                           /\ f \in {req[q].on, req[q].other})]]
  /\ UNCHANGED <<list, title, save, copy, crossed, alone, edits>>

\* move looks for the neighbour of the rank it loaded.
MoveFinds(r) ==
  /\ At(r, {"up", "down"}, "loaded")
  /\ LET next == Neighbours(req[r].op, req[r].rank) IN
     IF next = {} THEN Ends(r)
     ELSE \E g \in next :
       req' = [req EXCEPT ![r] = [req[r] EXCEPT
         !.at = "read", !.other = g, !.otherRank = rank[g]]]
  /\ UNCHANGED <<list, title, rank, rows, save, copy, asked, crossed, alone,
                 edits>>

\* item.save: a row that is gone by then is an error.
MoveSaves(r) ==
  /\ At(r, {"up", "down"}, "read")
  /\ ~Locked(req[r].on)
  /\ IF req[r].lost THEN Ends(r) ELSE Goes(r, "half")
  /\ UNCHANGED <<list, title, rank, rows, save, copy, asked, crossed, alone,
                 edits>>

\* neighbour.save and the commit: each row has the rank the other was read with.
MoveCommits(r) ==
  /\ At(r, {"up", "down"}, "half")
  /\ LET f == req[r].on
         g == req[r].other
     IN /\ ~Locked(g)
        /\ IF req[r].lost THEN Ends(r) /\ UNCHANGED <<rank, asked>>
           ELSE /\ rank' = [rank EXCEPT ![f] = req[r].otherRank,
                                         ![g] = req[r].rank]
                /\ asked' = [asked EXCEPT ![Place(asked, f)] = g,
                                           ![Place(asked, g)] = f]
                /\ Goes(r, "made")
  /\ UNCHANGED <<list, title, rows, save, copy, crossed, alone, edits>>

\* Two moves that hold each other's second row: PostgreSQL ends one.
Deadlocked(r) ==
  /\ At(r, {"up", "down"}, "half")
  /\ \E q \in Requests : /\ q # r /\ req[q].at = "half"
                         /\ req[q].on = req[r].other
                         /\ req[q].other = req[r].on
  /\ Ends(r)
  /\ UNCHANGED <<list, title, rank, rows, save, copy, asked, crossed, alone,
                 edits>>

\* Slip: what is sent has the title as it was loaded.
EditText_SendsLoaded(r) ==
  /\ At(r, {"edit"}, "loaded")
  /\ title' = req[r].on
  /\ Goes(r, "made")
  /\ UNCHANGED <<list, rank, rows, save, copy, asked, crossed, alone, edits>>

\* rename and set_description, on the list that was loaded; nothing is done, or
\* sent, if nothing changed.
EditText(r) ==
  /\ At(r, {"edit"}, "loaded")
  /\ IF req[r].on = req[r].title THEN Ends(r) /\ UNCHANGED title
     ELSE /\ title' = req[r].on
          /\ req' = [req EXCEPT ![r].at = "made", ![r].title = req[r].on]
  /\ UNCHANGED <<list, rank, rows, save, copy, asked, crossed, alone, edits>>

\* soft_delete_list: the list and its face in one transaction, from any tab.
SoftDelete(r) ==
  /\ At(r, {"delete"}, "loaded")
  /\ list' = "gone"
  /\ Goes(r, "made")
  /\ UNCHANGED <<title, rank, rows, save, copy, asked, crossed, alone, edits>>

-----------------------------------------------------------------------------
(* The copy                                                                  *)

\* The Note is composed from the rows there are by now and the title that was
\* loaded; a Delete needs no more than the id.
Compose(r) ==
  /\ req[r].at = "made"
  /\ req' = [req EXCEPT ![r].at = "composed",
       ![r].doc = [state |-> IF req[r].op = "delete" THEN "gone" ELSE "live",
                   title |-> req[r].title, rank |-> rank]]
  /\ UNCHANGED <<list, title, rank, rows, save, copy, asked, crossed, alone,
                 edits>>

\* _sync_list_items: the rows of the films that resolve, as the document ranks
\* them, and no others.
SyncItems(doc) == [f \in Films |-> IF f \in Known THEN doc[f] ELSE 0]

\* _mirror_status and _mirror_list; a tombstone is final, and a Delete that
\* finds nothing does nothing.
Deliver(r) ==
  /\ req[r].at = "composed"
  /\ LET doc == req[r].doc IN
     copy' = CASE copy.state = "gone" -> copy
               [] doc.state = "gone" ->
                    [copy EXCEPT !.state = IF @ = "none" THEN @ ELSE "gone"]
               [] OTHER -> [doc EXCEPT !.rank = SyncItems(@)]
  /\ Ends(r)
  /\ UNCHANGED <<list, title, rank, rows, save, asked, crossed, alone, edits>>

Lose(r) ==
  /\ req[r].at = "composed"
  /\ Ends(r)
  /\ alone' = FALSE
  /\ UNCHANGED <<list, title, rank, rows, save, copy, asked, crossed, edits>>

-----------------------------------------------------------------------------
(* The member who saves it                                                   *)

SaveList ==
  /\ list = "live" /\ save = "none" /\ save' = "saved" /\ Counted
  /\ UNCHANGED <<list, title, rank, rows, copy, asked, req, crossed, alone>>

UnsaveList ==
  /\ list = "live" /\ save = "saved" /\ save' = "none"
  /\ UNCHANGED <<list, title, rank, rows, copy, asked, req, crossed, alone,
                 edits>>

DismissNotice ==
  /\ list = "gone" /\ save = "saved" /\ save' = "dismissed"
  /\ UNCHANGED <<list, title, rank, rows, copy, asked, req, crossed, alone,
                 edits>>

-----------------------------------------------------------------------------
Next ==
  \/ \E r \in Requests :
       \/ \E op \in {"add", "remove", "up", "down"}, f \in Films :
            Load(r, op, f)
       \/ \E t \in Titles : Load(r, "edit", t)
       \/ \E op \in {"create", "delete"} : Load(r, op, "none")
       \/ Create(r)
       \/ AppendReads(r)
       \/ Append_(r)
       \/ RemoveFilm(r)
       \/ MoveFinds(r)
       \/ MoveSaves(r)
       \/ MoveCommits(r)
       \/ Deadlocked(r)
       \/ EditText(r)
       \/ SoftDelete(r)
       \/ Compose(r)
       \/ Deliver(r)
       \/ Lose(r)
  \/ SaveList
  \/ UnsaveList
  \/ DismissNotice

Spec == Init /\ [][Next]_vars

-----------------------------------------------------------------------------
(* Properties *)

\* The ranks are the order that was asked for, with no two rows on one rank:
\* appended at the end, taken out, moved one place, whatever else came between
\* an edit's reads and its writes, unless two additions or two moves overlapped.
\* And when every request has ended, the copy is the list as it stands, less the
\* films the other instance does not know, if the edits came one at a time and
\* no post was lost.
ListAsAsked ==
  /\ ~crossed =>
       /\ ToSet(asked) = ToSet(rows)
       /\ \A i, j \in DOMAIN asked :
            i < j => rank[asked[i]] < rank[asked[j]]
  /\ alone /\ (\A r \in Requests : req[r] = Idle) =>
       /\ list = "unborn" <=> copy.state = "none"
       /\ list = "gone" <=> copy.state = "gone"
       /\ list = "live" => /\ copy.title = title
                           /\ \A f \in Films : copy.rank[f] =
                                IF f \in Known THEN rank[f] ELSE 0
=============================================================================
