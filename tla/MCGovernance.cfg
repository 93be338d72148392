CONSTANTS
  w1 = w1
  w2 = w2
  Tokens = {usdc}
  Workers = {w1, w2}
  Ids = {q1}
  Payers = {p1}
  Challengers = {}
  Amounts = {1}
  Bonds = {}
  Verdicts <- MCVerdicts
  Windows = {}
  Timeouts = {2}
  ImportAges = {1}
  QuorumLimits = {}
  MAX_QUORUM_SIZE = 2
  MaxOpened = 2
  MaxSeq = 4
  Accounts = {alice, bob}
  Hashes = {v2, v3}
  Uploaded = {v2, v3}
  UPGRADE_DELAY_LEDGERS = 3
SPECIFICATION GovernanceSpec
PROPERTIES
  UpgradeIsTimelocked
  RotationIsTimelocked
  ExitBeforeUpgrade
  ResolverOnlyResolves
