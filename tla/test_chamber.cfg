SPECIFICATION FairSpec
CONSTANTS
  t1 = t1
  t2 = t2
  Tabs = {t1, t2}
  Students = {"chloe"}
  SeedTests = {"phonics"}
  PublishedTests = {"new"}
  PublishedInfo <- MCInfo
  Horizon <- MCHorizon
  YearChoices <- MCYears
  Given <- MCGiven
  Options = {"right", "wrong"}
  MaxAttempts = 2
INVARIANTS ResultsRecorded AnswersArrive TimeKept RepeatExplained
PROPERTY AttemptEnds
CHECK_DEADLOCK FALSE
