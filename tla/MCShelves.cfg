\* Four requests, up to three open at once. All requests end.
SPECIFICATION FairSpec
CONSTANTS
  r1 = r1
  r2 = r2
  r3 = r3
  r4 = r4
  None = None
  Requests = {r1, r2, r3, r4}
  MaxOpen = 3
INVARIANTS
  TypeOK
  OneLiveReview
  LiveReviewIsWatched
  ExclusiveFromOneTab
  EmptyTombstonesFromOneTab
PROPERTIES
  EveryRequestEnds
CHECK_DEADLOCK FALSE
