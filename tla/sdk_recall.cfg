SPECIFICATION Spec
CONSTANTS
  Wrappers <- FirecrawlCalls
  Calls <- MCCalls
  Replies <- MCReplies
  MaxItems = 2
  MaxPolls = 1
  ChunksFail = FALSE
CHECK_DEADLOCK FALSE
PROPERTIES RaisedOutside
