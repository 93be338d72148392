CONSTANTS
  q1 = q1
  q2 = q2
  w1 = w1
  w2 = w2
  Tokens = {usdc}
  Workers = {w1, w2}
  Payers = {p1}
  Challengers = {}
  Ids <- MCIds
  Amounts = {1}
  Bonds = {}
  Verdicts <- MCVerdicts
  Windows = {}
  Timeouts = {1}
  MAX_QUORUM_SIZE = 2
  MaxSeq = 2
  MaxOpened = 2
  MaxOwn = 0
  BatchSize = 2
  MaxFailures = 1
  MaxCrashes = 0
SPECIFICATION MigrationSpec
CHECK_DEADLOCK FALSE
INVARIANT HeadPageMigrates
