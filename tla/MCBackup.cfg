\* Two processes at once, the backup job among them, three backups of which one
\* is kept, one fault.
SPECIFICATION Spec
CONSTANTS
  w1 = w1
  w2 = w2
  Worker = {w1, w2}
  Scheduled = {"backup"}
  Keep = 1
  MaxFiles = 3
  MaxWrites = 1
  MaxFaults = 1
  Nil = Nil
SYMMETRY Symmetry
INVARIANTS LiveIsSound DirectoryIsLedger
 
CHECK_DEADLOCK FALSE
