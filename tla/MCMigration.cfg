CONSTANTS
  q1 = q1
  q2 = q2
  w1 = w1
  w2 = w2
  Tokens = {usdc}
  Workers = {w1, w2}
  Payers = {p1}
  Challengers = {}
  Ids <- MCIds
  Amounts = {1}
  Bonds = {}
  Verdicts <- MCVerdicts
  Windows = {}
  Timeouts = {1}
  MAX_QUORUM_SIZE = 2
  MaxSeq = 1
  MaxOpened = 2
  MaxOwn = 1
  BatchSize = 2
  MaxFailures = 0
  MaxCrashes = 1
SPECIFICATION FairMigration
CHECK_DEADLOCK FALSE
PROPERTIES
  MigrationKeepsPromise
  RunDrainsSource
