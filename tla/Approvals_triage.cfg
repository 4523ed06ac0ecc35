CONSTANTS
  label = label
  trash = trash
  apply = apply
  t1 = t1
  c1 = c1
  u1 = u1
  m1 = m1
  Triages = {t1}
  Callers = {c1}
  Users = {u1}
  Messages = {m1}
  Kinds = {trash, label, apply}
  TierOf <- Table
  Vocabulary = {trash, label}
  Keys = {"trash:a", "label:a"}
  KeysOf <- KeysPerKind
  MaxBatch = 1
  MaxRows = 2
  FaultBudget = 1
SPECIFICATION FairSpec
INVARIANT HighAlwaysAsks
INVARIANT StandingYesWasTaught
 
\* The rows are bounded.
CHECK_DEADLOCK FALSE
