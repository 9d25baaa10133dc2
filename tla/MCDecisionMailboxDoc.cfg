CONSTANTS
  r1 = r1  r2 = r2
  None = None  Fallback = Fallback
  NumRequests = 1
  Runners = {r1, r2}
  AskedAgent <- SameAgent
  RunnerAgent <- AgentOfRunner
SPECIFICATION Spec
INVARIANT ClaimedByOne
CHECK_DEADLOCK FALSE
