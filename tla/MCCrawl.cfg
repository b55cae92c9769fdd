SPECIFICATION FairSpec
CONSTANTS
  l1 = l1
  l2 = l2
  l3 = l3
  l4 = l4
  x = x
  y = y
  p = p
  q = q
  r = r
  base = base
  pro = pro
  Nil = Nil
  Listing <- MCListing
  Sku <- MCSku
  ModelKey <- MCModelKey
  Tier <- MCTier
  Specs = {x, y}
  Arts = {p, q, r}
  Content <- MCContent
  Seeds = {x}
  Loud = {"new", "spec"}
  InitialSite <- MCSite
  BaselineQuiet = TRUE
  ZeroIsFailure = TRUE
  MinPercent = 35
  MaxChanges = 2
  MaxFaults = 1
INVARIANTS
  NoSilentChange
  BaselineIsQuiet
  LaunchAnnouncedOnce
PROPERTIES
  CatchesUp
