CONSTANTS
  Procs = {p, q}
  Conns <- ThreeConns
  Calls <- OneCall
  Interval = 3
  Timeout = 4
  MaxLag = 1
  None = None
SPECIFICATION Spec
SYMMETRY ProcsAreAlike
INVARIANT TypeOK RegistrySound NobodyWorksInVain
PROPERTY HeartbeatSound
CHECK_DEADLOCK FALSE
