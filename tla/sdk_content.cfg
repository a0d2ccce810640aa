SPECIFICATION Spec
CONSTANTS
  Wrappers <- UngatedContent
  Calls <- MCCalls
  Replies <- MCReplies
  MaxItems = 2
  MaxPolls = 1
  ChunksFail = FALSE
CHECK_DEADLOCK FALSE
INVARIANTS ContentGated
