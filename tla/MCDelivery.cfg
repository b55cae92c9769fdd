\* Overlapping runs of one channel, and runs of both channels one by one, with
\* one act of the operator or one fault.
SPECIFICATION FairSpec
CONSTANTS
  Note = {1, 2}
  Digest = {3}
  Silent = {}
  Channel = {"webhook", "windows_desktop"}
  Worker = {w1, w2}
  w1 = w1
  w2 = w2
  Installation <- MCInstallation
  MaxAttempts = 2
  PerHour = 1
  Limit = 1
  DigestLimit = 1
  Nil = Nil
  MaxEvents = 1
INVARIANTS
  AtMostOnceUnlessExcused
  StateIsTrue
  CapHolds
PROPERTY EveryNoteSettles
CHECK_DEADLOCK FALSE
