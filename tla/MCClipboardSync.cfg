SPECIFICATION Spec
CONSTANTS
  hot = hot
  way = way
  t1 = t1
  t2 = t2
  f = f
  g = g
  Empty = Empty
  NoEntry = NoEntry
  Nodes <- MixedNodes
  Wayland <- OneWayland
  Texts <- OneText
  Paths <- FileAndCopy
  ReadAs <- StripsAtWay
  TempCopy <- SameCopy
  Bootstrapped <- EachOther
  Oversized <- LongAtHot
  MaxStamp = 2
  MaxQueue = 2
  Budgets <- Faulty
INVARIANTS
  TypeOK
  AuthenticCopies
  SharedBeforeVisible
  OnlyPeersStored
  PastesPublished
PROPERTIES
  ImplementsLatestStore
  NothingSlips
