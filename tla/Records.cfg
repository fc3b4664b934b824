\* One record fills the buffer; one flush or write may fail and the process may stop once.
CONSTANTS
  p0 = p0
  p1 = p1
  p2 = p2
  s1 = s1
  Events <- MCEvents
  Streams <- MCStreams
  Shadowed <- MCShadowed
  Past <- MCPast
  Asks <- MCAsks
  CostOfCall <- MCCostOfCall
  ShadowCost <- MCShadowCost
  Reach = 1
  MaxBuffer = 1
  MaxStops = 1
  MaxFaults = 1
SPECIFICATION RecordsSpec
INVARIANTS RecordsTypeOK Kept NoExtraCopies FullBufferIsFlushed AnswersAlike BooksBalance OneTrace ReportsApart
PROPERTIES FirstAnswerStands
CHECK_DEADLOCK FALSE
