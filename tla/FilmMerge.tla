----------------------------- MODULE FilmMerge -----------------------------
(* The film catalogue while staff merge duplicate rows and members go on     *)
(* using the films: what one member keeps on each film, which film an old id *)
(* leads to, and the whole-row saves that a form or the TMDB backfill makes. *)
(*                                                                           *)
(* A merge loads its films with the form, and re-points what it then reads   *)
(* in one transaction; saving a row that has been deleted inserts it again.  *)
EXTENDS Naturals, FiniteSets

CONSTANTS
  Requests,  \* requests that can be open at once
  Films,     \* film ids
  Keys,      \* TMDB ids, unique among the rows
  None,
  Hops,      \* the hop limit: even, as 100 is
  MaxBegun   \* bound: requests begun

VARIABLES
  live,   \* the ids that have a row
  key,    \* each row's TMDB id
  merged, \* MergedFilm: where an absorbed id leads
  rows,   \* the places of the member that refer to each film
  req,    \* each request: what it does and what it has read
  wants,  \* history: what the member has put on each film and not taken off
  lapses, \* history: what EntriesFollow excepts
  begun   \* bound's counter

vars == <<live, key, merged, rows, req, wants, lapses, begun>>

\* The member's two shelves, review and block of the film; a place on a list
\* moves as one on a shelf does.
Places == {"watchlist", "watched", "review", "block"}

\* A row that refers to the film keeps it from being deleted (PROTECT); a block
\* goes with it.
Protecting == Places \ {"block"}

Idle == [op |-> "none", at |-> "idle", film |-> None, key |-> None,
         absorbed |-> {}, seen |-> [f \in Films |-> {}]]

TypeOK ==
  /\ live \subseteq Films
  /\ key \in [Films -> Keys \cup {None}]
  /\ \A f, g \in live : key[f] = key[g] /\ key[f] # None => f = g
  /\ merged \in [Films -> Films \cup {None}]
  /\ rows \in [Films -> SUBSET Places]
  /\ \A f \in Films \ live : rows[f] = {} /\ key[f] = None
  /\ req \in [Requests ->
       [op : {"none", "member", "merge", "fill"},
        at : {"idle", "loaded", "open"},
        film : Films \cup {None}, key : Keys \cup {None},
        absorbed : SUBSET Films, seen : [Films -> SUBSET Places]]]
  /\ wants \in [Films -> SUBSET Places]
  /\ lapses \subseteq {"revived", "crossed"}
  /\ begun \in 0..MaxBegun

Init ==
  /\ live \in SUBSET Films
  /\ key = [f \in Films |-> None]
  /\ merged = [f \in Films |-> None]
  /\ rows = [f \in Films |-> {}]
  /\ req = [r \in Requests |-> Idle]
  /\ wants = [f \in Films |-> {}] /\ lapses = {} /\ begun = 0

Begins(r) == req[r] = Idle /\ begun < MaxBegun /\ begun' = begun + 1
Ends(r) == req' = [req EXCEPT ![r] = Idle]
At(r, op, at) == req[r].op = op /\ req[r].at = at
Fails(r) == Ends(r) /\ UNCHANGED <<live, key, merged, rows, lapses>>

\* It follows MergedFilm rows until there is none, or the limit is reached.
resolve_film_id(id) ==
  LET on(f) == IF merged[f] = None THEN f ELSE merged[f]
      after[n \in 0..Hops] == IF n = 0 THEN id ELSE on(after[n - 1])
  IN after[Hops]

\* The unique TMDB id: another row than those of `films` has it.
Taken(k, films) == k # None /\ \E f \in live \ films : key[f] = k

\* The merges that have re-pointed rows and not committed.
OpenMerges == {r \in Requests : At(r, "merge", "open")}

\* The member's write waits for the merge that holds the row, or is about to
\* give the film one like it.
Waits(f, p) == \E r \in OpenMerges :
  /\ f \in req[r].absorbed \cup {req[r].film}
  /\ \E a \in req[r].absorbed : p \in req[r].seen[a]
  /\ f = req[r].film => p \notin rows[f]

-----------------------------------------------------------------------------
(* The member                                                                *)

\* Every film page and button goes by the id it was given.
Opens(r, id) ==
  /\ Begins(r) /\ resolve_film_id(id) \in live
  /\ req' = [req EXCEPT ![r] = [Idle EXCEPT !.op = "member", !.at = "loaded",
                                            !.film = resolve_film_id(id)]]
  /\ UNCHANGED <<live, key, merged, rows, wants, lapses>>

\* What was put on any id that now leads to f.
Forgets(f, p) == [g \in Films |->
  IF resolve_film_id(g) = f THEN wants[g] \ {p} ELSE wants[g]]

\* A row for a film that has none is refused by the foreign key.
Puts(r, places) ==
  LET f == req[r].film IN
  /\ At(r, "member", "loaded") /\ \A p \in places : ~Waits(f, p)
  /\ IF f \notin live THEN Fails(r) /\ UNCHANGED wants
     ELSE /\ rows' = [rows EXCEPT ![f] = @ \cup places]
          /\ wants' = [wants EXCEPT ![f] = @ \cup places]
          /\ Ends(r) /\ UNCHANGED <<live, key, merged, lapses>>
  /\ UNCHANGED begun

\* A watched film is not put on the watchlist.
shelve(r) ==
  /\ At(r, "member", "loaded")
  /\ "watched" \notin rows[req[r].film]
  /\ Puts(r, {"watchlist"})

film_block(r) == Puts(r, {"block"})

\* Off the watchlist, onto the other shelf, and the review, at once.
mark_watched(r) ==
  LET f == req[r].film IN
  /\ At(r, "member", "loaded")
  /\ \A p \in {"watchlist", "watched", "review"} : ~Waits(f, p)
  /\ IF f \notin live THEN Fails(r) /\ UNCHANGED wants
     ELSE /\ rows' = [rows EXCEPT ![f] =
               (@ \ {"watchlist"}) \cup {"watched", "review"}]
          /\ wants' = [Forgets(f, "watchlist") EXCEPT
               ![f] = @ \cup {"watched", "review"}]
          /\ lapses' = lapses \cup
               IF \E q \in OpenMerges : req[q].film = f THEN {"crossed"} ELSE {}
          /\ Ends(r) /\ UNCHANGED <<live, key, merged>>
  /\ UNCHANGED begun

\* unshelve, delete_review and film_unblock.
TakesOff(r) == \E p \in {"watchlist", "review", "block"} :
  LET f == req[r].film IN
  /\ At(r, "member", "loaded") /\ ~Waits(f, p)
  /\ rows' = [rows EXCEPT ![f] = @ \ {p}]
  /\ wants' = Forgets(f, p)
  /\ lapses' = lapses \cup
       IF \E q \in OpenMerges : req[q].film = f THEN {"crossed"} ELSE {}
  /\ Ends(r) /\ UNCHANGED <<live, key, merged, begun>>

-----------------------------------------------------------------------------
(* The merge tool                                                            *)

\* The TMDB ids that the film can have after the merge: an empty one is to be
\* filled from one of the absorbed rows.
KeysOf(absorbed, canonical) == {k \in Keys \cup {None} :
  \/ k = key[canonical] /\ (k # None \/ \A a \in absorbed : key[a] = None)
  \/ key[canonical] = None /\ k # None /\ \E a \in absorbed : key[a] = k}

\* What the form has loaded.
Form(absorbed, canonical, k) ==
  [Idle EXCEPT !.op = "merge", !.at = "loaded", !.film = canonical,
               !.absorbed = absorbed, !.key = k]

merge_films(r, absorbed, canonical) ==
  /\ Begins(r)
  /\ absorbed # {} /\ canonical \notin absorbed
  /\ absorbed \cup {canonical} \subseteq live
  /\ \E k \in KeysOf(absorbed, canonical) :
       req' = [req EXCEPT ![r] = Form(absorbed, canonical, k)]
  /\ UNCHANGED <<live, key, merged, rows, wants, lapses>>

\* Slip: the blocks stay.
Repointed_NoBlocks(found) == found \ {"block"}

\* _repoint_related: what moves, of what is found on an absorbed film.
Repointed(found) == found

\* Two reviews of one member cannot be on one film: nothing is re-pointed.
Repoint(r) ==
  LET films == req[r].absorbed \cup {req[r].film} IN
  /\ At(r, "merge", "loaded")
  /\ \A q \in OpenMerges : req[q].absorbed \cap req[r].absorbed = {}
  /\ IF Cardinality({f \in films : "review" \in rows[f]}) > 1
     THEN Fails(r)
     ELSE /\ req' = [req EXCEPT ![r].at = "open", ![r].seen =
               [f \in Films |-> IF f \in req[r].absorbed THEN rows[f] ELSE {}]]
          /\ UNCHANGED <<live, key, merged, rows, lapses>>
  /\ UNCHANGED <<wants, begun>>

\* The rest of merge_into for each film: its MergedFilm row, which is unique;
\* its deletion, which a row made meanwhile prevents unless it is a block; and
\* the canonical film saved as the form had loaded it.
Commit(r) ==
  LET c == req[r].film
      gone == req[r].absorbed
      late == UNION {rows[a] \ req[r].seen[a] : a \in gone}
  IN
  /\ At(r, "merge", "open")
  /\ \A a \in gone : merged[a] = None
  /\ late \cap Protecting = {}
  /\ ~Taken(req[r].key, gone \cup {c})
  /\ live' = (live \ gone) \cup {c}
  /\ key' = [f \in Films |-> IF f = c THEN req[r].key
                             ELSE IF f \in gone THEN None ELSE key[f]]
  /\ merged' = [f \in Films |-> IF f \in gone THEN c ELSE merged[f]]
  /\ rows' = [f \in Films |->
       IF f = c THEN rows[c] \cup UNION {Repointed(req[r].seen[a]) : a \in gone}
       ELSE IF f \in gone THEN {} ELSE rows[f]]
  /\ lapses' = lapses \cup (IF c \in live THEN {} ELSE {"revived"})
                      \cup (IF "block" \in late THEN {"crossed"} ELSE {})
  /\ Ends(r)
  /\ UNCHANGED <<wants, begun>>

\* Any error, a deadlock or a crash: all or nothing.
Rollback(r) ==
  /\ At(r, "merge", "open") /\ Fails(r)
  /\ UNCHANGED <<wants, begun>>

-----------------------------------------------------------------------------
(* The catalogue                                                             *)

\* A film new to the library: a second row for one TMDB id is refused.
NewFilm(f, k) ==
  /\ f \notin live /\ merged[f] = None /\ ~Taken(k, {})
  /\ live' = live \cup {f} /\ key' = [key EXCEPT ![f] = k]
  /\ UNCHANGED <<merged, rows, req, wants, lapses, begun>>

\* A film is loaded to be edited, which only one without a TMDB id can be, or
\* filled from TMDB, which sets the id it lacks.
FillLoads(r, f, k) ==
  /\ Begins(r) /\ f \in live
  /\ req' = [req EXCEPT ![r] = [Idle EXCEPT !.op = "fill", !.at = "loaded",
       !.film = f, !.key = IF key[f] # None THEN key[f] ELSE k]]
  /\ UNCHANGED <<live, key, merged, rows, wants, lapses>>

\* film.save, of the whole row, and once more after the poster's download.
FillSaves(r) ==
  LET f == req[r].film IN
  /\ At(r, "fill", "loaded")
  /\ IF Taken(req[r].key, {f}) THEN Fails(r)
     ELSE /\ live' = live \cup {f}
          /\ key' = [key EXCEPT ![f] = req[r].key]
          /\ lapses' = lapses \cup (IF f \in live THEN {} ELSE {"revived"})
          /\ UNCHANGED req \/ Ends(r)
          /\ UNCHANGED <<merged, rows>>
  /\ UNCHANGED <<wants, begun>>

-----------------------------------------------------------------------------
Next ==
  \/ \E r \in Requests :
       \/ \E id \in Films : Opens(r, id)
       \/ shelve(r)
       \/ film_block(r)
       \/ mark_watched(r)
       \/ TakesOff(r)
       \/ \E films \in SUBSET Films, c \in Films : merge_films(r, films, c)
       \/ Repoint(r)
       \/ Commit(r)
       \/ Rollback(r)
       \/ \E f \in Films, k \in Keys \cup {None} : FillLoads(r, f, k)
       \/ FillSaves(r)
  \/ \E f \in Films, k \in Keys \cup {None} : NewFilm(f, k)

Spec == Init /\ [][Next]_vars

-----------------------------------------------------------------------------
(* Properties *)

\* Whatever staff merge, and in whatever order, an id that was ever a film's
\* leads to a film, and what the member put on it and did not take off is on
\* that film: unless a save brought back a row that had been merged away
\* ("revived"), or the member touched the film while its merge was open in a
\* way no lock or constraint stops ("crossed").
EntriesFollow ==
  lapses = {} =>
    \A f \in Films :
      /\ merged[f] # None => resolve_film_id(f) \in live
      /\ wants[f] \subseteq rows[resolve_film_id(f)]
=============================================================================
