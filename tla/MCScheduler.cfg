SPECIFICATION FairSpec
CONSTANTS
  Type = {t1}
  Cycler = {c1}
  Operator = {o1}
  Run = {r1, r2, r3}
  Material = {m1, m2}
  Trusted = {m1, m2}
  FirstMaterial = m1
  Nil = Nil
  MaxUpgrades = 1
  MaxFaults = 1
INVARIANTS
  ExclusiveUntilExpiry
  QualifiedIsEarned
PROPERTIES
  DueJobRuns
