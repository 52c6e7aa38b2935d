SPECIFICATION FairSpec
CONSTANTS
  a = a
  b = b
  off = off
  t1 = t1
  t2 = t2
  Nodes <- WithAbsent
  Present <- Pair
  AutoAccept <- Pair
  BootstrapList <- ListsOff
  Attempts = 3
  Tasks <- OneTask
  Mdns = FALSE
  Budgets <- NoTrouble
PROPERTIES
  EventuallyLinked
CHECK_DEADLOCK FALSE
