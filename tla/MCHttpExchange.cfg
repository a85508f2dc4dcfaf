SPECIFICATION Spec
CONSTANTS
  Messages <- MCMessages
  RequestBytes = 6
  MaxHeader = 4
  MaxBody = 2
  IoTimeout = 3
  NsPerUs = 2
  UsPerSec = 2
  NsPerMs = 2
  MsPerSec = 2
  Starts <- MCStarts
  Horizon = 9
INVARIANTS
  FramingAgrees SegmentationIndependent ReadIsBounded
PROPERTIES
  ExchangeEnds
