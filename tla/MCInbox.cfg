\* Two workers and the three kinds of activity: keyed, ignored, without an id.
SPECIFICATION FairSpec
CONSTANTS
  follow = follow
  quote = quote
  anonymous = anonymous
  w1 = w1
  w2 = w2
  Workers = {w1, w2}
  Activities <- MCActivities
  Keyed <- MCKeyed
  Handled <- MCHandled
  Routes = {"shared"}
  NoDelivery = NoDelivery
  MaxPosts = 2
  MaxPrunes = 1
INVARIANTS
  TypeOK
  ExactlyOnceWhileRemembered
  AcceptedMeansProcessed
  ClaimIsExclusive
PROPERTIES
  ImplementsExactlyOnce
  EveryDeliverySettles
\* every delivery ends and the instance is then idle
CHECK_DEADLOCK FALSE
