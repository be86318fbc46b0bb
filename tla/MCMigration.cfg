SPECIFICATION FairSpec
CONSTANTS
  first = first
  second = second
  fork = fork
  edited = edited
  gap = gap
  empty = empty
  NoOne = NoOne
  Titles = {"a", "b"}
  Texts = {"x", "y"}
  Blank = "blank"
  Runners = {r1, r2}
  Builds = {first, second, fork, edited, gap, empty}
  Shipped <- AllShipped
INVARIANTS
  DatabaseIsAtARelease
  SuccessMeansCurrent
  NoCollisions
  StatusShowsAReleaseOrNothing
PROPERTIES
  AtomicUpgrade
  EveryCommandEnds
