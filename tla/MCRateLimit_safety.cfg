SPECIFICATION FairRateSpec
CONSTANTS
  Users = {u1, u2}
  Chats = {c1, c2}
  Cooldown = 2
  Quotas = {0, 2}
  Minute = 3
  MaxRateFaults = 1
INVARIANTS
  RollingBound
PROPERTIES
  UserSpacing
  QuotaReopens
