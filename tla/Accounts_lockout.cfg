SPECIFICATION FairSpec
CONSTANTS
  root = root
  eve = eve
  People = {root, eve}
  Keys = {}
  Passwords = {initial}
  Wrong = wrong
  Seeded <- MCSeeded
  Initial = initial
  Grants = {"viewer"}
  Requests = {r1}
  MaxFailed = 2
  NoRow = NoRow
  NoRequest = NoRequest
PROPERTY LockoutBites
