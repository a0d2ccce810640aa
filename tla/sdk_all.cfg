SPECIFICATION Spec
CONSTANTS
  Wrappers <- AllWrappers
  Calls <- MCCalls
  Replies <- MCReplies
  MaxItems = 2
  MaxPolls = 1
  ChunksFail = TRUE
CHECK_DEADLOCK FALSE
INVARIANTS TypeOK NeverInvented ReportedOnceByAll StatusTold Tidied  
PROPERTIES Answered
