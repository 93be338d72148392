\* One worker in one asset over seven ledgers, with a warm-up of two ledgers and
\* an unbonding delay of at least three: tranches of different ages warm side by
\* side, are drained in part, and a slash reaches all three buckets.
CONSTANTS
  BPS_DENOM = 10
  PLATFORM_FEE_BPS = 2
  SLASH_BPS = 8
  SLASH_CAP_BPS_OF_AMOUNT = 10
  SLASH_REDISTRIBUTE_BPS = 5
  Tokens = {usdc}
  Workers = {w1}
  STAKE_WARMUP_LEDGERS = 2
  MIN_UNBONDING_LEDGERS = 3
  MaxSeq = 7
  MaxStake = 4
SPECIFICATION StakeSpec
CHECK_DEADLOCK FALSE
INVARIANTS
  StakeTypeOK
  WarmingIsTranches
PROPERTIES
  MaturityNeverDelayed
  NoEarlyMaturity
  EffectiveIsEarned
  
