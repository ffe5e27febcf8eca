\* Two sessions, one of them downsampled; the main thread may be slower than
\* the reader thread by a pipe of two entries.
SPECIFICATION FairSpec
CONSTANTS
  s1 = s1
  s2 = s2
  Sessions = {s1, s2}
  Buffered = {s1}
  Ratio <- MCRatio
  BufferSizes = {0, 2}
  PipeCapacity = 2
  WriteResults = {TRUE, FALSE}
  RingSize = 2
  CountLimit = 4
  MaxSamples = 3
  MaxStarts = 2
  MaxChanges = 2
INVARIANTS
  InOrder
  BufferFits
  DownsampledRate
PROPERTIES
  NothingLost
  JoinEnds
  Delivered
CHECK_DEADLOCK FALSE
