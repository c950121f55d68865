\* Replies of up to three blocks, in any interleaving of their lines, with
\* three attempts, ended at any line.
SPECIFICATION FairSpec
CONSTANTS
  Replies <- MCReplies
  Attempts = 3
  Wide = FALSE
INVARIANTS StreamIsExact CallsAreMeant StreamAgrees
PROPERTY CallEnds
\* A call is over when it has ended.
CHECK_DEADLOCK FALSE
