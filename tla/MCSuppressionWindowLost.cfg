SPECIFICATION Spec
CONSTANTS
  a = a
  b = b
  c = c
  Empty = Empty
  Values <- Three
  Poll <- PromptPoll
  Window <- TTL
  PostTicks <- DeadPeer
INVARIANT OnlyOwnWritesSwallowed
