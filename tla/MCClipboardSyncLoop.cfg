SPECIFICATION FairSpec
CONSTANTS
  hot = hot
  way = way
  t1 = t1
  t2 = t2
  f = f
  g = g
  Empty = Empty
  NoEntry = NoEntry
  Nodes <- MixedNodes
  Wayland <- BothWayland
  Texts <- TwoTexts
  Paths <- NoPaths
  ReadAs <- ReadsAll
  TempCopy <- SameCopy
  Bootstrapped <- EachOther
  Oversized <- NothingLong
  MaxStamp = 1
  MaxQueue = 1
  Budgets <- TwoCopies
PROPERTIES
  ExchangeStops
