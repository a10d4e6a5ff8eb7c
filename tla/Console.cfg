SPECIFICATION Spec
CONSTANTS
  Queries = {"alerts", "overview"}
  MaxLogins = 2
  NoTokens = NoTokens
  Sockets = {s1, s2}
  NoSocket = NoSocket
INVARIANTS OneRefresh OneOperator OneFeed
PROPERTIES ExpiryEnds DeadSessionEnds FeedRecovers
