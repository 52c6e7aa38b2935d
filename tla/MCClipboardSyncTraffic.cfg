SPECIFICATION FairSpec
CONSTANTS
  hot = hot
  way = way
  t1 = t1
  t2 = t2
  f = f
  g = g
  Empty = Empty
  NoEntry = NoEntry
  Nodes <- MixedNodes
  Wayland <- OneWayland
  Texts <- TwoTexts
  Paths <- NoPaths
  ReadAs <- StripsAtWay
  TempCopy <- SameCopy
  Bootstrapped <- EachOther
  Oversized <- NothingLong
  MaxStamp = 2
  MaxQueue = 2
  Budgets <- Traffic
PROPERTIES
  ImplementsLatestStore
  EventualDelivery
  EventuallyQuiet
