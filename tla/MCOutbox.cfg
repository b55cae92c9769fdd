SPECIFICATION OutboxFairSpec
CONSTANTS
  a1 = a1
  a2 = a2
  s1 = s1
  NoKey = NoKey
  Alert <- MCAlert
  Story <- MCStory
  Evidence <- MCEvidence
  RetryLimit = 1
  MaxLimited = 1
  MaxFaults = 1
INVARIANTS
  NoDuplicateWithoutLoss
PROPERTIES
  FinishedStaysFinished
  ImplementsLedger
  PendingSettles
