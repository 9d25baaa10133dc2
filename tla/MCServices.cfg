CONSTANTS
  w1 = w1  w2 = w2  v1 = v1  s1 = s1  x1 = x1
  None = None  NotVoted = NotVoted
  Players = {w1, w2, v1, s1, x1}
  Role <- RoleMap
  MaxPkRounds = 0
  MaxNights = 2
  Personalities = {"cautious", "aggressive"}
  me = me  other = other
  Users = {me, other}
  Owner = me
  Nobody = Nobody
  MaxSeats = 2
  BuyIn = 1
  MaxSpectators = 1
  MaxAgents = 3
  MaxHands = 2
  MaxRequests = 2
  MaxTableSeats = 3
  MaxSimHands = 2
  TraceLimit = 3
  Buys = {0, 1}
  MaxEvents = 3
  MaxTraces = 3
  MaxFailures = 2
  Matches = {m1, m2}
  Appends = {a1, a2}
  MaxIndexEntries = 1
  MaxDeletes = 1
  Emails = {e1}
  SessionTtl = 2
  RateWindow = 2
  RateMax = 1
  MaxCalls = 2
  MaxSessions = 2
  MaxHits = 3
  MaxClock = 2
SPECIFICATION ServicesSpec
INVARIANT SomeoneCanAct NpcsInCharacter StoresSound TableSound SimulationSound
PROPERTY NightStaysHidden
CHECK_DEADLOCK FALSE
