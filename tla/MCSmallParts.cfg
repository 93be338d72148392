CONSTANTS
  q1 = q1
  q2 = q2
  q3 = q3
  q4 = q4
  q5 = q5
  w1 = w1
  w2 = w2
  w3 = w3
  w4 = w4
  yes = yes
  no = no
  maybe = maybe
  Ids <- MCIds
  BPS_DENOM = 10000
  PLATFORM_FEE_BPS = 2000
  SLASH_BPS = 500
  SLASH_CAP_BPS_OF_AMOUNT = 10000
  SLASH_REDISTRIBUTE_BPS = 5000
  Amounts <- MCAmounts
  QuorumSizes <- MCQuorumSizes
  Slashables <- MCSlashables
  MaxLosers = 3
  Tokens = {}
  Workers = {w1, w2, w3, w4}
  MaxSeq = 0
  LEADERBOARD_CAP = 2
  Answers = {yes, no, maybe}
  EstablishedCounts = {0, 2}
  DEFAULT_ESTABLISHED_ANSWER_COUNT = 1
  Ballots <- MCBallots
  MaxRulings = 2
  Limb = 8
  Times <- MCTimes
  Totals <- MCTotals
  Revenues = {6, 12}
  Beneficiaries = {dao, multisig}
SPECIFICATION SmallSpec
CHECK_DEADLOCK FALSE
INVARIANTS
  IndexConsistent
  SettlementConserves
  SlashesConserved
  SlashWithinCap
  TotalsMatchClosedForm
  PreviewExactForOneLoser
  RulingIsFair
  DissenterIsOddOneOut
  VestedIsProRata
  ClaimsCovered
PROPERTIES
  NeverMovesBack
  IndexImplementsSet
  FullyPaid
