SPECIFICATION Spec
CONSTANTS
  i1 = i1
  c1 = c1
  Identities = {i1}
  Contexts = {c1}
  ContextOf <- OwnContext
  AlertIds = {1, 2}
  NoAlert = NoAlert
  Risks <- Scores
  RiskFloor = 5
  EarlyDrift = 28
  SuppressBelow = 30
  MaxSteps = 2
  NoPlaybook = NoPlaybook
INVARIANTS OneStory
PROPERTIES VerdictsStand ContainmentEmptiesQueue SuppressionNeedsApproval TamperingResurfaces IsTriageQueue
