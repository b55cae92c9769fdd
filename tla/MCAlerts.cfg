SPECIFICATION Spec
CONSTANTS
  Candidate = {c1}
  Source = {feed, pilot}
  Pilot = {pilot}
  c1 = c1
  feed = feed
  pilot = pilot
  MaxScore = 1
  Increase = 1
  PromotionScore = 1
  MaxAge = 1
  TopicMinimum = 1
  Retention = 0
  Preset <- MCPreset
  Bodies <- MCBodies
  Muting = {"high"}
  None <- MCNone
  Nil = Nil
  MaxDay = 1
  MaxWorld = 3
  MaxOperator = 1
INVARIANTS WatermarksAreSeparate CrossingsCounted
PROPERTIES SoakIsSilent OutageIsOneIncident
CHECK_DEADLOCK FALSE
