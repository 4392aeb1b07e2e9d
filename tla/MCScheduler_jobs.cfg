SPECIFICATION Spec
CONSTANTS
  Sources = {s1}
  Threads = {t1, t2}
  MayExit = {}
  Rates = {r1}
  None = None
  Complete = Complete
  MaxJobs = 2
  QueueCap = 1
  ShareCap = 1
  MaxInFlight = 1
SYMMETRY Symmetry
INVARIANTS
    TypeOK
    TablesAgree
    OnlyValidWork
    EligibleThreadsHaveWork
