CONSTANTS
  w1 = w1
  w2 = w2
  p1 = p1
  hunt = hunt
  plan = plan
  k1 = k1
  NoKey = NoKey
  Workers = {w1, w2}
  Producers = {p1}
  Kinds = {hunt, plan}
  Keys = {k1}
  Handlers <- MixedImages
  Requests <- KeyedRequests
  MaxAttempts = 2
  RetryBase = 1
  MaxRows = 2
  MaxNow = 1
  FaultBudget <- AllFaults
SPECIFICATION FairSpec
INVARIANT HolderOwnsRow
INVARIANT NeitherRepeatedNorLost
PROPERTY ImplementsTaskQueue
PROPERTY QueuedRowsAreClaimed
\* The bounds on the clock and the rows end every behaviour.
CHECK_DEADLOCK FALSE
