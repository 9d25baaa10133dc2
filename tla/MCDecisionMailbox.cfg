CONSTANTS
  r1 = r1  r2 = r2
  None = None  Fallback = Fallback
  NumRequests = 2
  Runners = {r1, r2}
  AskedAgent <- SameAgent
  RunnerAgent <- AgentOfRunner
SPECIFICATION Spec
INVARIANT MailboxSound
PROPERTY RequestsEnd
CHECK_DEADLOCK FALSE
