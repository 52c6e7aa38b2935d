SPECIFICATION FairSpec
CONSTANTS
  a = a
  b = b
  off = off
  t1 = t1
  t2 = t2
  Nodes <- Pair
  Present <- Pair
  AutoAccept <- OnlyA
  BootstrapList <- ListOfA
  Attempts = 2
  Tasks <- TwoTasksOfB
  Mdns = TRUE
  Budgets <- Troubles
INVARIANTS
  TypeOK
  OnlyInvited
  OneSidedExplained
PROPERTIES
  StartupAdvances
  EventuallyLinked
