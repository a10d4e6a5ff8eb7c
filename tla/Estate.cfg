SPECIFICATION Spec
CONSTANTS
  Processes = {"p1", "p2"}
  Identities = {"ana", "ben"}
  Lists = {"leavers", "contractors"}
  Members <- MCMembers
  Expiring = {"leavers"}
  FirstLists = {"contractors"}
  Alerting = {"ana"}
  DefaultTuning <- MCDefault
  Changes <- MCChanges
  Cadence = 1
  MaxRequests = 1
INVARIANT NothingHalfDone
PROPERTY ScoresSettle
PROPERTY ExpiredListsLoseEffect
