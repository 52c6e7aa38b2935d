SPECIFICATION FairSpec
CONSTANTS
  o = o
  c1 = c1
  c2 = c2
  k = k
  Origin = o
  Clients = {c1, c2}
  Paths <- ThePaths
  Names <- TheNames
  Base <- TheBase
  EncNames <- TheEnc
  TempName = "temp.enc"
  Lists <- TheLists
  KeyIds = {k}
  NoKey = NoKey
  Cases <- TheCases
  Temps = {t1, t2}
  NoTemp = NoTemp
  NoCopy = NoCopy
  NoStream = NoStream
INVARIANTS
  TypeOK
  PastedAsListed
  PastedFresh
  PrivateCopy
  CopiesOwned
PROPERTIES
  TransferEnds
