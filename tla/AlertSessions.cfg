SPECIFICATION Spec
CONSTANTS
  s1 = s1
  s2 = s2
  Sessions = {s1, s2}
  Jobs = {"pass", "batch", "contain", "update"}
  Results <- Outcomes
  Dispositions = {"INVESTIGATING", "FALSE_POSITIVE"}
  NoSession = NoSession
  NoQuery = NoQuery
  Identities = {i1}
  AlertIds = {1, 2}
  NoAlert = NoAlert
  Risks = {5, 29, 60}
  RiskFloor = 5
  EarlyDrift = 28
  SuppressBelow = 30
PROPERTIES StampNeverWithdrawn VerdictsFallOnlyToStaleReads BatchesOpenNoSecondStory
SYMMETRY Symm
