CONSTANTS
  MaxSessionId = 5
  RotationSessions = {1, 2}
  SourceSessions = {3}
  RotationRanges <- MCRotationRanges
  AdaptorRanges <- MCAdaptorRanges
  RotationDefault = 5
  AdaptorDefault = 6
  Intervals = {0, 2, 4, 9}
  ScaledSessions = {4}
  DirectSessions = {3, 5}
  DataRanges <- MCDataRanges
  Scale = 3
SPECIFICATION Spec
INVARIANTS FastEnough NoOrphanRequest HeadInForce
PROPERTIES FirstComeFirstServed GoneIsForgotten
