CONSTANTS
  Job <- MCJob
  InitEnds = {TRUE, FALSE}
SPECIFICATION FairSpec
INVARIANTS TypeOK StatusAfterTheEnd EndsGoTheRightWay SentMeansAired SendsBounded ReceivesAgain
PROPERTY SendEnds
CHECK_DEADLOCK FALSE
