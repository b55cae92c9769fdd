SPECIFICATION FairSpec
CONSTANTS
  plugged = plugged
  polled = polled
  other = other
  p = p
  wire = wire
  n = n
  cycle = cycle
  command = command
  past = past
  run1 = run1
  run2 = run2
  who = who
  Nil = Nil
  Feed = {plugged, polled, other}
  Source = {p, wire, n}
  Job = {cycle, command}
  Loop = {cycle}
  Provider <- MCProvider
  Start <- MCStart
  PerPage = 2
  FirstEntries <- MCFirstEntries
  MaxEntry <- MCMaxEntry
  Bad <- MCBad
  Pictured <- MCPictured
  Interval <- MCInterval
  Delay <- MCDelay
  Legacy <- MCLegacy
  Categories <- MCCategories
  Edits <- MCEdits
  None <- MCNone
  MaxOperator = 1
  MaxFaults = 1
INVARIANTS NothingSkipped AnalysedOnce
PROPERTY EveryEntryConsidered
CHECK_DEADLOCK FALSE
