\* Two engines are enough for a replay replacing another; three captures for a
\* late end of the first while the third is current; a ring of three frames and
\* five bytes; a cache of two entries and four units; two browsers, two
\* producers and a stream limit of one or two; two requests and one rotation.
CONSTANTS
  Files = {"f1", "u1"}
  Uploads = {"u1"}
  Packets <- MCPackets
  LoopCounts = {0, 2}
  Engines = {1, 2}
  NoFile = NoFile
  Captures = {1, 2, 3}
  Frames = 3
  Bytes = 5
  FrameSizes = {0, 1, 3, 6}
  MaxPackets = 6
  Ids = {i1, i2, i3}
  ResultSizes = {1, 3, 5}
  MaxEntries = 2
  MaxMemory = 4
  MaxSets = 5
  Clients = {c1, c2}
  Producers = {p1, p2}
  Subscriptions <- MCSubscriptions
  BufferSize = 1
  ClientLimits = {1, 2}
  MaxTokens = 1
  MaxEvents = 2
  Requests = {r1, r2}
  Addresses = {x, y}
  Tokens = {"a", "b"}
  TokenSets <- MCTokenSets
  Loopback = TRUE
  MaxLimiters = 1
  Burst = 1
  MaxRotations = 1
SPECIFICATION MCSpec
INVARIANTS ReplaysSound ServicesSafe
PROPERTIES ReplayCallsReturn StreamsEnd
CHECK_DEADLOCK FALSE
