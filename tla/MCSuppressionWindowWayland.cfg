SPECIFICATION Spec
CONSTANTS
  a = a
  b = b
  c = c
  Empty = Empty
  Values <- Three
  Poll <- WaylandPoll
  Window <- TTL
  PostTicks <- DeadPeer
INVARIANT PasteNotRebroadcast
