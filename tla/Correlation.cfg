SPECIFICATION Spec
CONSTANTS
  NoApproval = NoApproval
  Gaps = {0, 1}
  Decay <- HalfLife
  Scores = {3, 95}
  Tiers = {1, 4}
  Factors = {25, 40}
  NormalThreshold = 28
  Gain <- Gain28
INVARIANT DampedBelowRaw
INVARIANT PromiseKept
PROPERTY BenignNeverRaises
