\* Two requests at once in each area: a list of three films, two of which the
\* other instance knows; two links of each kind and two addresses; three names,
\* two invites and a budget of one; three films and a TMDB id to merge.
SPECIFICATION SiteSpec
CONSTANTS
  r1 = r1
  r2 = r2
  x1 = x1
  x2 = x2
  x3 = x3
  y1 = y1
  y2 = y2
  z1 = z1
  z2 = z2
  other = other
  Requests = {r1, r2}
  Names = {x1, x2, x3}
  Invites = {y1, y2}
  Limit = 1
  Listed = {y1, y2, other}
  Known = {y1, y2}
  ListTitles = {z1, z2}
  MaxEdits = 5
  Verifications = {y1, y2}
  Resets = {z1, z2}
  Addresses = {z1, z2}
  MaxUnasked = 2
  Films = {x1, x2, x3}
  Keys = {"id"}
  Hops = 4
  MaxBegun = 4
  Titles = {1, 2, 3, 12}
  Formulas = {2}
  Quote = 10
  Ratings = {4, 5}
  Shapes <- FilmShapes
  Files <- SmallFiles
  MaxFilms = 2
  None = none
SYMMETRY Symmetric
INVARIANTS
  SiteTyped
  LinksAreSound
  DecisionsStand
  OneAccountPerDoor
  OrderKept
  EntriesFollow
  FilesAreSafe
CHECK_DEADLOCK FALSE
