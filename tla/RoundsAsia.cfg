CONSTANTS
  q1 = q1
  q2 = q2
  NoQuestion = NoQuestion
  Questions = {q1}
  Kind <- OnlyAsia
  Closes <- One
  Day = 1
  GraceDays = 1
  PmWindowDays = 1
  ArchiveDays = 3
  UpdateDays = 1
  Experiments = TRUE
  MaxTime = 5
  MaxForecasts = 3
  MaxCrashes = 2
SPECIFICATION FairSpec
INVARIANTS ScoredOnce LastForecastScored LateAnswerNotScored AnsweredIsScored
PROPERTIES AnswerIsFinal ImplementsScoreboard DueIsHandled
