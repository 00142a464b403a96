CONSTANTS
  q1 = q1
  q2 = q2
  NoQuestion = NoQuestion
  Questions = {q1, q2}
  Kind <- UsAndPoly
  Closes <- OneAndThree
  Day = 1
  GraceDays = 2
  PmWindowDays = 1
  ArchiveDays = 3
  UpdateDays = 1
  Experiments = FALSE
  MaxTime = 4
  MaxForecasts = 1
  MaxCrashes = 1
SPECIFICATION Spec
INVARIANTS TallyExact NoForecastAfterAnswer NoAnswerBeforeQuote OfferedAfterWindow MarketSpeaksFirst
