SPECIFICATION FairSpec
CONSTANTS
  t1 = t1
  t2 = t2
  t3 = t3
  rdna = rdna
  zen = zen
  near = near
  far = far
  web = web
  request = request
  Nil = Nil
  Text = {t1, t2, t3}
  Captured = {t1, t2}
  Words <- MCWords
  Site <- MCSite
  Alike <- MCAlike
  Cites <- MCCites
  Plain = {}
  Seeds <- MCSeeds
  Bodies <- MCBodies
  Job = {web, request}
  Pipeline = web
  Minimum = 500
  Window = 3
  MaxAge = 2
  Cooldown = 1
  MaxCycles = 1
  CyclesPerHour = 1
  RequestsPerHour = 2
  Cache = 1
  Hour = 0
  Week = 7
  MaxTopics = 3
  MaxNow = 1
  MaxOperator = 2
  MaxFaults = 1
INVARIANTS BudgetHolds
PROPERTIES BlockedStaysOut EvidenceReachesInbox
CHECK_DEADLOCK FALSE
