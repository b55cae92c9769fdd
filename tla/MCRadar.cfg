SPECIFICATION Spec
CONSTANTS
  x1 = x1
  x2 = x2
  topic = topic
  site = site
  name = name
  ann = ann
  bob = bob
  u1 = u1
  u2 = u2
  Nil = Nil
  r1 = r1
  p1 = p1
  p2 = p2
  Items = 3
  Trait <- MCTrait
  Text = {x1, x2}
  About <- MCAbout
  Alike <- MCAlike
  Cites <- MCCites
  Window = 1
  Name = {site, name}
  Kind <- MCKind
  Topic = {topic}
  Broad = {}
  Imported = {x1}
  Promoter = {p1, p2}
  Reviewer = {r1}
  Verdict = {"useful"}
  MinMentions = 2
  MaxScore = 2
  Threshold = 2
  AttachAge = 1
  StaleAge = 0
  CurrentAge = 0
  MaxAge = 0
  Budget = 1
  None <- MCNone
  MaxNow = 1
  MaxOperator = 1
INVARIANTS  BudgetHolds
PROPERTIES ResurfacesIndependently CopiesStayOld
CHECK_DEADLOCK FALSE
SYMMETRY MCAlikePromoters
