SPECIFICATION WindowSpec
CONSTANTS
  NoApproval = NoApproval
  Scores = {3, 60, 95}
  Tiers = {1, 2}
  Gaps <- MCGaps
  Factors = {40}
  Factor = 40
  NormalThreshold = 28
  Decay <- HalfLives
  Gain <- MCGain
  HalfLife = 1
  Kinds <- Mixed
  Window = 3
  MaxEvents = 2
INVARIANTS InactiveProtectsNothing StoredAsPromised
PROPERTY NotSuspiciousForever
