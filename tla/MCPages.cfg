CONSTANTS
  RoomPlayers = {p1, p2}
  Sides = {good, wolves}
  NoSide = none
  MaxPhases = 2
  MaxRoomDrops = 1
  MaxPollFailures = 1
  MaxOpenPolls = 2
  w1 = w1  v1 = v1  s1 = s1  x1 = x1  h1 = h1
  None = None  NotVoted = NotVoted  Malformed = Malformed
  Players = {w1, v1, s1, x1, h1}
  Role <- RoleMap
  Seat <- SeatMap
  MaxPkRounds = 1
  MaxNights = 24
  MaxSteps = 18
  SilentSteps = 0
  Artifacts <- SavedMatches
  ReplayStreets = {"preflop", "flop", "turn"}
  NoItem = NoItem
  MaxVisits = 3
SPECIFICATION PagesSpec
INVARIANT OnlyStepsRunOut BoardShowsGame
PROPERTY RoomSound TimelineSound ReplaySound
CHECK_DEADLOCK FALSE
