CONSTANTS
  BPS_DENOM = 10
  PLATFORM_FEE_BPS = 2
  SLASH_BPS = 8
  SLASH_CAP_BPS_OF_AMOUNT = 10
  SLASH_REDISTRIBUTE_BPS = 5
  q1 = q1
  q2 = q2
  w1 = w1
  w2 = w2
  yes = yes
  no = no
  Tokens = {usdc}
  DefaultToken = usdc
  Workers = {w1, w2}
  Ids = {q1}
  Payers = {p1}
  Challengers = {c1}
  Amounts = {6}
  Bonds = {1}
  Verdicts <- MCVerdicts
  Windows = {1}
  Timeouts = {1}
  ImportAges = {}
  QuorumLimits = {}
  MAX_QUORUM_SIZE = 2
  MaxOpened = 1
  MaxSeq = 2
  STAKE_WARMUP_LEDGERS = 1
  MIN_UNBONDING_LEDGERS = 1
  MaxStake = 3
  TopUps = {3}
  Deposits = {6}
  Parts = {3}
  MaxBalance = 6
  Pauses = {}
  MAX_ALLOWED_ASSETS = 2
  LEADERBOARD_CAP = 1
  Answers = {yes, no}
  EstablishedCounts = {}
  DEFAULT_ESTABLISHED_ANSWER_COUNT = 1
  Ballots = {}
  AccountLists = {}
  Transfers = {}
SPECIFICATION Spec
INVARIANTS
  ParticipantsTracked
