CONSTANTS
  Conns = {c1}
  Requests = {r1}
  CredIds = {k1}
  Codes = {1}
  Threshold <- Few
  Window <- Short
  BackoffCap = 2
  TicketTTL = 1
  ChallengeTTL = 1
  OtpTTL = 1
  IdleDays = 1
  BrowserDays = 1
  DeviceDays = 2
  MaxSessions = 2
  MaxTickets = 1
  MaxOtps = 2
  MaxPasswords = 2
  MaxChallenges = 2
  MaxCount = 2
  Habits <- Flows
SPECIFICATION Spec
 
INVARIANT SecretsWorkOnce
PROPERTY SignedOutMeansOut
