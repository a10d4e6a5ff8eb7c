SPECIFICATION Spec
CONSTANTS
  root = root
  eve = eve
  People = {root, eve}
  Keys = {k}
  Passwords = {initial, chosen}
  Wrong = wrong
  Seeded <- MCSeeded
  Initial = initial
  Grants = {"viewer", "admin"}
  Requests = {r1, r2}
  MaxFailed = 2
  NoRow = NoRow
  NoRequest = NoRequest
SYMMETRY Symmetry
PROPERTY StandingIsDecided
