CONSTANTS
  q1 = q1
  q2 = q2
  NoQuestion = NoQuestion
  Questions = {q1, q2}
  Kind <- EventAndInvalid
  Closes <- BothOne
  Day = 1
  GraceDays = 1
  PmWindowDays = 1
  ArchiveDays = 3
  UpdateDays = 1
  Experiments = FALSE
  MaxTime = 3
  MaxForecasts = 1
  MaxCrashes = 1
SPECIFICATION Spec
PROPERTIES RaisedIsRetried
