SPECIFICATION FairSpec
CONSTANTS
  Chord <- ShippedChord
  Modifiers <- ShippedModifiers
  PasteMod = "mod"
  PasteKey = "v"
  Others = {"x"}
  Platforms <- AllPlatforms
  Presses = 6
  MaxQueue = 2
INVARIANTS
  TypeOK
  NeverWedged
  OncePerArming
PROPERTIES
  RequestNeedsModifiers
  OwnKeysAskNothing
  PastingStops
