SPECIFICATION BenchSpec
CONSTANTS
  NoApproval = NoApproval
  Scores <- MCScores
  Tiers = {1, 2, 3, 4, 5}
  Factors <- MCFactors
  NormalThreshold = 28
  EarlyDrift = 28
  Escalating = 50
  Critical = 75
  Gaps <- MCGaps
  Decay <- MCDecay
  Weight <- MCWeight
  ElevatedAt = 45
  Fade <- MCFade
  Gain <- Gain28
  Resources <- MCResources
  Words <- MCWords
  Assets <- MCAssets
  Distance <- MCDistance
  Nowhere = "nowhere"
  FrequentKept = 2
  CommonKept = 1
  BadPatterns = {"("}
  Forms <- MCForms
  Instants <- MCInstants
  Past <- MCPast
  Who <- MCWho
  Peers <- MCPeers
  Indicators <- MCIndicators
  Multiplier = 125
  FirstRules <- MCFirst
  WrittenRules <- MCWritten
  Grants <- MCGrants
  MaxSteps = 3
CHECK_DEADLOCK FALSE
INVARIANT LearningReassures
INVARIANT AdviceAgrees
PROPERTY RulesOnlyAdd
PROPERTY TamperingUnmoved
PROPERTY EvidenceAccumulates
