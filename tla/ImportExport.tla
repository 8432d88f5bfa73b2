---------------------------- MODULE ImportExport ----------------------------
(* The film file a member exports and imports: which film of the library a   *)
(* row is taken for, and what it then does to the member's shelves and       *)
(* ratings.  An import is one transaction.                                   *)
EXTENDS Naturals, FiniteSets, SequencesExt

CONSTANTS
  Titles,     \* numbered in the order of sort_title
  Formulas,   \* the titles a spreadsheet would evaluate
  Quote,      \* a quoted title's number less the title's own
  Ratings,    \* in half stars, which are TMDB's points
  None,
  Shapes,     \* bound: the films anyone adds
  Files,      \* bound: the files a member may have from elsewhere
  MaxFilms    \* bound: films in the library

VARIABLES
  films,      \* the library's rows, by id
  watchlist,  \* the member's shelves,
  watched,
  rating,     \* the rating of the live review of each film,
  commented   \* and the films with a live comment or reply of the member

vars == <<films, watchlist, watched, rating, commented>>

Lib == [films |-> films, watchlist |-> watchlist, watched |-> watched,
        rating |-> rating, commented |-> commented]

Ids(lib) == DOMAIN lib.films

\* A row of a file as it is parsed: an id, a year or a rating that is none of
\* these is none.
Rows == [tmdb : Nat, imdb : Nat, title : Titles \cup {None}, year : Nat,
         rating : Ratings \cup {None}]

TypeOK ==
  /\ Files \subseteq Seq(Rows)
  /\ films \in Seq([tmdb : Nat, imdb : Nat, title : Titles, year : Nat])
  /\ watchlist \cup watched \cup commented \subseteq DOMAIN films
  /\ watchlist \cap watched = {}
  /\ rating \in [DOMAIN films -> Ratings \cup {None}]
  /\ \A f \in DOMAIN films : rating[f] # None => f \in watched

\* An id or a year is 0 where there is none.
Init ==
  /\ films = <<>> /\ rating = <<>>
  /\ watchlist = {} /\ watched = {} /\ commented = {}

-----------------------------------------------------------------------------
(* The file                                                                  *)

\* Every film on a shelf or with a live status.
all_films(lib) == lib.watchlist \cup lib.watched \cup lib.commented

guard_formula(title) == IF title \in Formulas THEN title + Quote ELSE title

RowOf(lib, f) ==
  LET film == lib.films[f] IN
  [tmdb |-> film.tmdb, imdb |-> film.imdb, title |-> guard_formula(film.title),
   year |-> film.year, rating |-> lib.rating[f]]

\* The order of the rows: a film without a year is sorted as of the year 0.
Precedes(lib, f, g) ==
  LET a == lib.films[f]  b == lib.films[g] IN
  \/ a.title < b.title
  \/ a.title = b.title /\ a.year < b.year
  \/ a.title = b.title /\ a.year = b.year /\ f < g

export_film_csv(lib) ==
  LET order == CHOOSE s \in SetToSeqs(all_films(lib)) :
                 \A i, j \in DOMAIN s : i < j => Precedes(lib, s[i], s[j])
  IN [i \in DOMAIN order |-> RowOf(lib, order[i])]

-----------------------------------------------------------------------------
(* The import                                                                *)

Lowest(ids) == CHOOSE f \in ids : \A g \in ids : f <= g

\* first() of a query, in which a film without a year comes last.
FirstByImdb(lib, ids) == CHOOSE f \in ids : \A g \in ids \ {f} :
  IF lib.films[f].title # lib.films[g].title
  THEN lib.films[f].title < lib.films[g].title
  ELSE IF lib.films[f].year # lib.films[g].year
  THEN lib.films[g].year = 0 \/ lib.films[f].year \in 1..lib.films[g].year
  ELSE f < g

\* The TMDB id, else the IMDb id, which is not unique, else title and year.
find_match(lib, row) ==
  LET byTmdb == {f \in Ids(lib) : row.tmdb # 0 /\ lib.films[f].tmdb = row.tmdb}
      byImdb == {f \in Ids(lib) : row.imdb # 0 /\ lib.films[f].imdb = row.imdb}
      byName == {f \in Ids(lib) :
        row.year # 0 /\ <<lib.films[f].title, lib.films[f].year>>
                          = <<row.title, row.year>>}
  IN IF byTmdb # {} THEN Lowest(byTmdb)
     ELSE IF byImdb # {} THEN FirstByImdb(lib, byImdb)
     ELSE IF byName # {} THEN Lowest(byName)
     ELSE None

Filled(old, new) == IF old = 0 THEN new ELSE old

FilledFrom(film, row) ==
  [film EXCEPT !.tmdb = Filled(@, row.tmdb), !.imdb = Filled(@, row.imdb),
               !.year = Filled(@, row.year)]

\* The film a row is taken for, its missing ids and year filled from the row,
\* or a stub for it.
find_or_create_film_stub(lib, row) ==
  LET match == find_match(lib, row) IN
  IF match = None
  THEN [film |-> Len(lib.films) + 1,
        lib |-> [lib EXCEPT !.rating = Append(@, None),
                 !.films = Append(@, [tmdb |-> row.tmdb, imdb |-> row.imdb,
                                      title |-> row.title, year |-> row.year])]]
  ELSE [film |-> match,
        lib |-> [lib EXCEPT !.films[match] = FilledFrom(@, row)]]

\* shelve_to_watchlist.
Shelved(lib, f) ==
  IF f \in lib.watched THEN lib ELSE [lib EXCEPT !.watchlist = @ \cup {f}]

\* Slip: the row's rating is the newer one.
import_row_Rerates(lib, row) ==
  LET found == find_or_create_film_stub(lib, row)  f == found.film IN
  IF row.title = None THEN lib
  ELSE IF row.rating = None THEN Shelved(found.lib, f)
  ELSE [found.lib EXCEPT !.watched = @ \cup {f}, !.watchlist = @ \ {f},
                         !.rating[f] = row.rating]

\* A row without a name, or of something else than a film, is skipped; a live
\* review stays as it is.
import_row(lib, row) ==
  LET found == find_or_create_film_stub(lib, row)  f == found.film IN
  IF row.title = None THEN lib
  ELSE IF row.rating = None THEN Shelved(found.lib, f)
  ELSE IF found.lib.rating[f] # None THEN found.lib
  ELSE [found.lib EXCEPT !.watched = @ \cup {f}, !.watchlist = @ \ {f},
                         !.rating[f] = row.rating]

\* The rows in turn; the TMDB backfill it queues is FilmMerge's.
import_film_csv(lib, rows) ==
  FoldLeft(LAMBDA l, row : import_row(l, row), lib, rows)

-----------------------------------------------------------------------------
Becomes(lib) ==
  /\ films' = lib.films /\ rating' = lib.rating
  /\ watchlist' = lib.watchlist /\ watched' = lib.watched
  /\ commented' = lib.commented

\* Somebody adds a film; a TMDB id is unique.
NewFilm(shape) ==
  /\ Len(films) < MaxFilms
  /\ \A f \in DOMAIN films : shape.tmdb # 0 => films[f].tmdb # shape.tmdb
  /\ films' = Append(films, shape) /\ rating' = Append(rating, None)
  /\ UNCHANGED <<watchlist, watched, commented>>

Shelve(f) == Becomes(Shelved(Lib, f))

Unshelve(f) ==
  /\ watchlist' = watchlist \ {f}
  /\ UNCHANGED <<films, watched, rating, commented>>

Finish(f, stars) == Becomes([Lib EXCEPT
  !.watched = @ \cup {f}, !.watchlist = @ \ {f}, !.rating[f] = stars])

DeleteReview(f) ==
  /\ rating' = [rating EXCEPT ![f] = None]
  /\ UNCHANGED <<films, watchlist, watched, commented>>

Comment(f) ==
  /\ commented' = commented \cup {f}
  /\ UNCHANGED <<films, watchlist, watched, rating>>

Import(rows) ==
  /\ Len(import_film_csv(Lib, rows).films) <= MaxFilms
  /\ Becomes(import_film_csv(Lib, rows))

\* Files of one row are enough: a longer one leaves what its rows leave in turn.
Next ==
  \/ \E shape \in Shapes : NewFilm(shape)
  \/ \E f \in DOMAIN films :
       \/ Shelve(f)
       \/ Unshelve(f)
       \/ \E stars \in Ratings : Finish(f, stars)
       \/ DeleteReview(f)
       \/ Comment(f)
  \/ \E rows \in Files : Len(rows) = 1 /\ Import(rows)

Spec == Init /\ [][Next]_vars

-----------------------------------------------------------------------------
(* Properties *)

\* A row of the export leads back to its film: by the TMDB id, by an IMDb id no
\* other film has, or by a year and a title that no other film has and that is
\* not quoted.
LeadsBack(f) ==
  LET row == films[f]  others == DOMAIN films \ {f} IN
  \/ row.tmdb # 0
  \/ row.imdb # 0 /\ \A g \in others : films[g].imdb # row.imdb
  \/ /\ row.imdb = 0 /\ row.year # 0 /\ row.title \notin Formulas
     /\ \A g \in others : films[g].title # row.title \/ films[g].year # row.year

\* What a member exports can be imported again and changes nothing, if each row
\* leads back to its film and no film is there for a comment alone.
ReimportIsNoOp ==
  (\A f \in all_films(Lib) : LeadsBack(f) /\ f \in watchlist \cup watched) =>
    import_film_csv(Lib, export_film_csv(Lib)) = Lib

\* Two rows, or a film and a row, that have an id or the title in common.
Alike(a, b) ==
  \/ a.tmdb # 0 /\ a.tmdb = b.tmdb
  \/ a.imdb # 0 /\ a.imdb = b.imdb
  \/ a.title = b.title

\* The rows that name a film.
NamedRows(rows) == {i \in DOMAIN rows : rows[i].title # None}

\* Each of them has an id or a year, and no two are alike, or like one film.
ClearRows(rows) ==
  \A i \in NamedRows(rows) :
    /\ rows[i].tmdb + rows[i].imdb + rows[i].year > 0
    /\ \A j \in NamedRows(rows) \ {i} :
         /\ ~Alike(rows[i], rows[j])
         /\ \A f \in DOMAIN films : ~(Alike(films[f], rows[i]) /\ Alike(films[f], rows[j]))

\* Importing a file a second time changes nothing, if its rows are clear; and
\* no import changes a rating or takes a film off the Watched shelf.
ImportsSettle ==
  \A rows \in Files :
    LET once == import_film_csv(Lib, rows) IN
    /\ \A f \in DOMAIN films : rating[f] # None => once.rating[f] = rating[f]
    /\ watched \subseteq once.watched
    /\ ClearRows(rows) => import_film_csv(once, rows) = once

\* Both, of the same library: files are safe to move back and forth.
FilesAreSafe == ReimportIsNoOp /\ ImportsSettle
=============================================================================
