SPECIFICATION ClaimsSpec
CONSTANTS
  e1 = e1
  e2 = e2
  blog = blog
  forum = forum
  rtx = rtx
  RTX = RTX
  nv = nv
  zen = zen
  arc = arc
  ada = ada
  m1 = m1
  m2 = m2
  Unset = Unset
  Ev = {e1, e2}
  SourceOf <- MCSourceOf
  Naming <- MCNaming
  Overlapping <- MCOverlapping
  Norm <- MCNorm
  Short = {}
  Mention = {m1, m2}
  Said <- MCSaid
  Holders <- MCHolders
  FirstEntities <- MCFirstEntities
  FirstRelations <- MCFirstRelations
  FirstClaims <- MCFirstClaims
  Bodies <- MCBodies
  Relations <- MCRelations
  Statements <- MCStatements
  Specs <- MCSpecs
  Stances = {"supports", "contradicts"}
  Verdicts = {"open", "confirmed"}
  Trusts = {50, 100}
  Worker = {w1, w2}
  MaxClaims = 2
  MaxEntities = 5
  MaxEdits = 3
SYMMETRY Symmetry
INVARIANTS ConfidenceIsCurrent GraphIsDistance
PROPERTIES AcceptedOnce
CHECK_DEADLOCK FALSE
