\* Two domains, one below the other, a remote account on each; and three
\* reports about one member and post, one of them a Flag; and three people
\* around one post. Two requests at once.
SPECIFICATION ModerationSpec
CONSTANTS
  r1 = r1
  r2 = r2
  wide = wide
  narrow = narrow
  x = x
  y = y
  p = p
  mary = mary
  peer = peer
  member = member
  away = away
  Requests = {r1, r2}
  Domains = {wide, narrow}
  Accounts = {x, y}
  Under <- UnderBoth
  Posts = {p}
  Person = person
  Peers = {peer}
  Filings <- ThreeFilings
  MaxReports = 2
  MaxClashes = 1
  Author = author
  Members = {author, member, away}
  Remote = {away}
  None = none
  Named <- ThreeTexts
  MaxBegun = 3
SYMMETRY Symmetric
INVARIANTS
  AllTyped
  HiddenHasARule
  RuleHides
  PileToldOnce
  Explained
  BannedHasNoPosts
  NotesAreKept
  NamedAreReached
PROPERTIES
  RefusalOutlivesBlocks
  DecisionIsFinal
CHECK_DEADLOCK FALSE
