CONSTANTS
  Scopes <- Activities
  MaxFaults = 1
  Articles = {1, 2, 3, 4, 5}
  StoryOf <- StoriesOf
  GroupOf <- GroupsOf
  Bar = 2
  MaxPushes = 2
  MaxBeside = 3
  Meetups = {"e1", "e2"}
  Dues = {"d"}
  MaxRows = 1
  Cards = {1, 2}
  Chats = {"telegram", "voice"}
  MaxQuizzes = 2
  MaxDays = 20
  MaxEase = 260
  Notes = {"n"}
  MaxEdits = 3
  Recordings = {"r1", "r2"}
  NameOf <- OneName
  Values <- ValuesOf
  Patterns = {"p1"}
  Threshold = 2
  Texts = {"fewer of these", "just send"}
  Breaching = {"just send"}
  Unread = {}
  MaxRetries = 2
  Hosts = {"h1"}
  Broken <- ProblemsOf
  MaxScans = 2
  EscalateAfter = 2
  Asked = {0, 6, 8, 30}
  Others = {1, 2, 3}
  DayCounts = {0, 30}
  MaxUrges = 1
  SettledSlow = FALSE
SPECIFICATION SkillsSpec
CHECK_DEADLOCK FALSE
INVARIANT AlarmsAreRationed
 
 
INVARIANT SkipsNoCard
 
 
INVARIANT NoMeansNo
 
INVARIANT ReportIsTheScan
INVARIANT OnlyBargainsArePursued
