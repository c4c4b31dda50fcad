SPECIFICATION MCSpec
CONSTANTS
  Providers = {"anthropic", "openai", "ollama"}
  Max = 1
  Unit = 2
  Span = 2
  Task = {t1}
  Requests <- MCRequests
  Attempts = 2
  MaxStalled = 1
  Timeout = 1
  Backoff = 1
  Latency = 2
  Window = 1
  MaxFaults = 1
INVARIANTS
  AttemptTypeOK
  RateBound
  BilledOnce
  UnconfiguredOnlyIfNamed
  CountsAgree
PROPERTIES
  EveryoneServed
