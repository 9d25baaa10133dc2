CONSTANTS
  w1 = w1  v1 = v1  s1 = s1  x1 = x1  h1 = h1
  None = None  NotVoted = NotVoted
  Players = {w1, v1, s1, x1, h1}
  Role <- RoleMap
  MaxPkRounds = 2
  MaxNights = 2
SPECIFICATION Spec
PROPERTY HunterAlwaysShoots
CHECK_DEADLOCK FALSE
