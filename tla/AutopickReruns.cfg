SPECIFICATION Spec
CONSTANTS
  Runs = {r1}
  News <- Stories
  Headline <- Headlines
  Url <- Links
  Drafts <- Written
  NoKey = ""
  Slug <- SlugOf
  Matches <- Globs
  Near <- NearPairs
  Alike <- AlikePairs
  MaxPicks = 2
  Absent = Absent
  Torn = Torn
  LastDay = 1
INVARIANTS RegisteredIsFiled WithinQuota EventFiledOnce
PROPERTIES OneQuestionPerStory FiledQuestionStands
