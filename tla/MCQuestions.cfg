CONSTANTS
  q1 = q1
  q2 = q2
  w1 = w1
  w2 = w2
  Tokens = {usdc}
  Workers = {w1, w2}
  Ids <- MCIds
  Payers = {p1}
  Challengers = {c1}
  Amounts = {1}
  Bonds = {1}
  Verdicts <- MCVerdicts
  Windows = {1}
  Timeouts = {1, 2}
  ImportAges = {1}
  QuorumLimits <- MCQuorumLimits
  MAX_QUORUM_SIZE = 2
  MaxOpened = 3
  MaxSeq = 3
SPECIFICATION FairQuestions
INVARIANTS
  QuestionsTypeOK
  OpenAreListed
  ReviewRecordsMatch
  CountersExact
PROPERTIES
  PromiseKept
  PendingLeaves
  
