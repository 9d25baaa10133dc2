CONSTANTS
  w1 = w1  w2 = w2  v1 = v1  s1 = s1  x1 = x1  h1 = h1
  None = None  NotVoted = NotVoted  Malformed = Malformed
  Players = {w1, w2, v1, x1, h1}
  Role <- RoleMap
  Seat <- SeatMap
  MaxPkRounds = 0
  MaxNights = 38
  MaxSteps = 38
  SilentSteps = 32
  HttpCalls = 2
  HttpTimeouts = {1, 2, 3}
  me = me  other = other
  Users = {me, other}
  Owner = me
  Nobody = Nobody
  MaxSeats = 2
  BuyIn = 1
  MaxSpectators = 0
  MaxAgents = 2
  MaxHands = 2
  MaxRequests = 3
SPECIFICATION LiveSpec
PROPERTY MatchEnds SilentMatchIsDecided HttpSound HandsEnd
CHECK_DEADLOCK FALSE
