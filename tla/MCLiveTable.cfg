CONSTANTS
  me = me  other = other  ann = ann  bob = bob
  Users = {me, other}
  Owner = other
  Me = me
  Nobody = Nobody
  Seating <- TwoSeated
  MaxSeats = 2
  BuyIn = 1
  MaxSpectators = 0
  MaxAgents = 2
  MaxHands = 2
  MaxRequests = 3
  MaxDrops = 1
  MaxGets = 1
  MaxPosts = 1
  Decks <- CardDecks
  Contenders = {ann, bob}
SPECIFICATION LiveSpec
INVARIANT PageInStep ShowdownSound
CHECK_DEADLOCK FALSE
