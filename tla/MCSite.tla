------------------------------- MODULE MCSite -------------------------------
(* An instance of Site for TLC.  A model value means in each area what the   *)
(* constants of that area make of it.                                        *)
EXTENDS Site, TLC

CONSTANTS r1, r2, x1, x2, x3, y1, y2, z1, z2, other

\* TMDB id, IMDb id, title and year, 0 where there is None; title 2 is a
\* formula, and 12 is that title as a file quotes it.
K(t, i, n, y) == [tmdb |-> t, imdb |-> i, title |-> n, year |-> y]
Rated(film, stars) == film @@ [rating |-> stars]

FilmShapes == {K(1, 3, 1, 9), K(0, 3, 1, 9), K(0, 3, 3, 9), K(0, 0, 1, 0),
               K(0, 0, 1, 9), K(2, 0, 1, 9), K(0, 0, 2, 9)}

FileRows == {Rated(K(1, 3, 1, 9), None), Rated(K(1, 0, 1, 0), 4),
             Rated(K(0, 3, 1, 9), 4), Rated(K(2, 0, 1, 9), None),
             Rated(K(0, 0, 1, 9), 5), Rated(K(0, 0, 2, 9), None),
             Rated(K(0, 0, 2, 0), 5), Rated(K(0, 0, None, 9), None)}

SmallFiles == UNION {[1..n -> FileRows] : n \in 0..2}

Symmetric == Permutations({r1, r2}) \cup Permutations({x1, x2, x3})
               \cup Permutations({y1, y2}) \cup Permutations({z1, z2})
=============================================================================
