SPECIFICATION FairSpec
CONSTANTS
  a = a
  b = b
  c = c
  Empty = Empty
  Values <- Three
  Poll <- PromptPoll
  Window <- TTL
  PostTicks <- DeadPeer
INVARIANTS
  TypeOK
  PasteNotRebroadcast
  OneSwallowPerMark
  ReadInTime
PROPERTIES
  CopyIsBroadcast
