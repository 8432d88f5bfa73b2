\* Three workers, a limit of two, a window of four half seconds.
SPECIFICATION FairSpec
CONSTANTS
  w1 = w1
  w2 = w2
  w3 = w3
  Workers = {w1, w2, w3}
  Sources = {"peer", "unparsed"}
  Unparsed = {"unparsed"}
  Limit = 2
  Window = 4
  TicksPerSecond = 2
  EmptyHint = 3
  NoHint = NoHint
INVARIANTS
  FailuresBounded
  ToldWaitFreesARow
PROPERTIES
  BlockedSourceIsFreed
