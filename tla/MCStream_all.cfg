CONSTANTS
  s1 = s1
  s2 = s2
  recv = recv
  watch = watch
  gc = gc
  Caller = {s1, s2}
SPECIFICATION FairSpec
INVARIANTS TypeOK FailureIsTagged
PROPERTIES FinishedOnce Ends
