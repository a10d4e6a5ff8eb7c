SPECIFICATION Spec
CONSTANTS
  r1 = r1
  r2 = r2
  c1 = c1
  Replicas = {r1, r2}
  Clients = {c1}
  Home <- HomeOfOne
  RedisUrl = TRUE
  QueueSize = 1
  MaxEvents = 3
  MaxOutages = 1
  Restarts = TRUE
  MaxGauge = 2
INVARIANTS NoGap NoEcho GaugeNeverUndercounts
PROPERTIES QueueDrains HalfOpenEnds
