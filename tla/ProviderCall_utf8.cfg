\* The same with wide characters in texts and arguments.
SPECIFICATION Spec
CONSTANTS
  Replies <- MCReplies
  Attempts = 3
  Wide = TRUE
INVARIANT StreamIsExact
CHECK_DEADLOCK FALSE
