--------------------------- MODULE MCModeration ---------------------------
(* An instance of Moderation for TLC.                                       *)
EXTENDS Moderation, TLC

CONSTANTS r1, r2, wide, narrow, x, y, p, mary, peer, member, away

\* `narrow` is a subdomain of `wide`: x is on it, y on the host above it.
UnderBoth == wide :> {x, y} @@ narrow :> {x}

\* The reports there can be: mary's and a Flag about the post, and mary's about
\* the person.
ThreeFilings == {<<mary, p>>, <<peer, p>>, <<mary, Person>>}

ThreeTexts == {{}, {member, away}, {Author, member}}

Symmetric == Permutations({r1, r2})
===========================================================================
