-------------------------------- MODULE Site --------------------------------
(* The rest of one instance: Joining, Lists, Accounts, FilmMerge and         *)
(* ImportExport together.  They share no state, so their steps interleave    *)
(* freely and nothing is lost by exploring them side by side: `area` says    *)
(* which one moves.                                                          *)
EXTENDS Joining, Sequences

CONSTANTS
  Listed, Known, ListTitles, MaxEdits,                    \* of Lists
  Verifications, Resets, Addresses, MaxUnasked,           \* of Accounts
  Films, Keys, Hops, MaxBegun,                            \* of FilmMerge
  Titles, Formulas, Quote, Ratings, Shapes, Files, MaxFilms,  \* of ImportExport
  None

\* A token is of one kind; ids are never None; and no chain of merges is longer
\* than the hops that resolve_film_id follows.
ASSUME SiteAssumption ==
  /\ Verifications \cap Resets = {} /\ MaxUnasked \in Nat
  /\ MaxEdits \in Nat /\ MaxBegun \in Nat
  /\ None \notin Films \cup Keys /\ IsFiniteSet(Films)
  /\ Hops \in Nat /\ Cardinality(Films) <= Hops

VARIABLES
  list, title, rank, rows, save, copy, asked, req2, crossed, alone, edits,
  account, meant, link, recent, spent, req1, met1, unasked,
  live, key, merged, rows3, req3, wants, lapses, begun,
  films, watchlist, watched, rating, commented,
  area

A == INSTANCE Accounts WITH req <- req1, met <- met1
L == INSTANCE Lists WITH Films <- Listed, Titles <- ListTitles, req <- req2
M == INSTANCE FilmMerge WITH rows <- rows3, req <- req3
E == INSTANCE ImportExport

\* What files hold is numbered, and None is no number and no rating.
ASSUME FilesAssumption ==
  /\ Titles \subseteq Nat /\ Quote \in Nat /\ None \notin Nat \cup Ratings
  /\ Shapes \subseteq [tmdb : Nat, imdb : Nat, title : Titles, year : Nat]
  /\ Files \subseteq Seq(E!Rows)

lists == <<list, title, rank, rows, save, copy, asked, req2, crossed, alone, edits>>
accounts == <<account, meant, link, recent, spent, req1, met1, unasked>>
merges == <<live, key, merged, rows3, req3, wants, lapses, begun>>
files == <<films, watchlist, watched, rating, commented>>

\* What the variables of an area are while another moves.
ListsRest ==
  /\ list = None /\ title = None /\ rank = None /\ rows = None
  /\ save = None /\ copy = None /\ asked = None /\ req2 = None
  /\ crossed = None /\ alone = None /\ edits = None

AccountsRest ==
  /\ account = None /\ meant = None /\ link = None /\ recent = None
  /\ spent = None /\ req1 = None /\ met1 = None /\ unasked = None

MergesRest ==
  /\ live = None /\ key = None /\ merged = None /\ rows3 = None
  /\ req3 = None /\ wants = None /\ lapses = None /\ begun = None

FilesRest ==
  /\ films = None /\ watchlist = None /\ watched = None
  /\ rating = None /\ commented = None

SiteInit ==
  /\ area \in {"joining", "lists", "accounts", "merges", "files"}
  /\ Init
  /\ IF area = "lists" THEN L!Init ELSE ListsRest
  /\ IF area = "accounts" THEN A!Init ELSE AccountsRest
  /\ IF area = "merges" THEN M!Init ELSE MergesRest
  /\ IF area = "files" THEN E!Init ELSE FilesRest

SiteNext ==
  \/ /\ area = "joining" /\ Next
     /\ UNCHANGED <<lists, accounts, merges, files, area>>
  \/ /\ area = "lists" /\ L!Next
     /\ UNCHANGED <<vars, accounts, merges, files, area>>
  \/ /\ area = "accounts" /\ A!Next
     /\ UNCHANGED <<vars, lists, merges, files, area>>
  \/ /\ area = "merges" /\ M!Next
     /\ UNCHANGED <<vars, lists, accounts, files, area>>
  \/ /\ area = "files" /\ E!Next
     /\ UNCHANGED <<vars, lists, accounts, merges, area>>

SiteSpec == SiteInit /\ [][SiteNext]_<<vars, lists, accounts, merges, files, area>>

\* Every module's types.
SiteTyped ==
  /\ TypeOK
  /\ area = "lists" => L!TypeOK
  /\ area = "accounts" => A!TypeOK
  /\ area = "merges" => M!TypeOK
  /\ area = "files" => E!TypeOK

\* The properties of the others, stated there: a list is as its edits asked,
OrderKept == area = "lists" => L!ListAsAsked

\* links work once and prove the address they were sent to,
LinksAreSound == area = "accounts" => A!LinksAreSound

\* decisions about an account stand,
DecisionsStand == area = "accounts" => A!DecisionsStand

\* what a member put on a film follows it through merges,
EntriesFollow == area = "merges" => M!EntriesFollow

\* and a member's file is safe to import again.
FilesAreSafe == area = "files" => E!FilesAreSafe
=============================================================================
