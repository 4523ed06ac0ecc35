CONSTANTS
  op1 = op1
  sweeper = sweeper
  scanner = scanner
  jiji = jiji
  Operators = {op1}
  Sweepers = {sweeper}
  Scanners = {scanner}
  Platforms = {jiji}
  Tiers = 2
  CrashBudget = 1
SPECIFICATION FairSpec
INVARIANT PurchaseGated
INVARIANT SoundInTurn
PROPERTY LapsedWindowsHandled
