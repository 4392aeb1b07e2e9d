SPECIFICATION FairSpec
CONSTANTS
  Sources = {s1}
  Threads = {t1, t2}
  MayExit = {s1}
  Rates = {r1, r2}
  None = None
  Complete = Complete
  MaxJobs = 0
  QueueCap = 1
  ShareCap = 1
  MaxInFlight = 1
INVARIANTS
    SourcesToldCurrentRate
    GateWaitedForThreads
PROPERTIES
    GateEventuallyOpens
