CONSTANTS
  Mails = {1, 2}
  Cleaners = {"hourly", "asked"}
  PreviewTTL = 1
  MaxDrafts = 2
  MaxErrors = 1
  LiveTTL = 1
  Questions = 2
  Pending = {1}
  MaxStarts = 2
  Topics <- Talks
SPECIFICATION FairSpec
INVARIANT AnswersAreJudged
