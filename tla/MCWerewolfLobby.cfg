SPECIFICATION Spec
CONSTANTS
  Users = {u1, u2}
  Calls = {c1, c2}
  Games = {g1}
  Seats = {s1, s2}
  Absent = Absent
  MaxAgents = 2
  MaxInvites = 1
SYMMETRY Symmetry
INVARIANTS
  LobbySound
  DirectorySound
PROPERTY
  SettledStays
CHECK_DEADLOCK FALSE
