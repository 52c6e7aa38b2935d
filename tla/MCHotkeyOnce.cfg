SPECIFICATION Spec
CONSTANTS
  Chord <- ShippedChord
  Modifiers <- ShippedModifiers
  PasteMod = "mod"
  PasteKey = "v"
  Others = {}
  Platforms <- Typing
  Presses = 6
  MaxQueue = 2
INVARIANT OncePerChord
