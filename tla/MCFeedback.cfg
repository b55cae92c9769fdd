\* Two processes at once, three alerts, two reviews and two decisions.
SPECIFICATION FeedbackSpec
CONSTANTS
  w1 = w1
  w2 = w2
  Worker = {w1, w2}
  Alerts = 3
  Trait <- MCTrait
  Scopes <- MCScopes
  Bodies <- MCBodies
  Manual <- MCManual
  MinSamples = 1
  MinNoise = 50
  MaxLoss = 50
  MinCoverage = 50
  MaxReviews = 2
  MaxDecisions = 2
  None = None
SYMMETRY Symmetry
INVARIANTS
  HistoryTellsReviews
  SimulationCoversSupport
PROPERTY DecisionsStand
CHECK_DEADLOCK FALSE
