SPECIFICATION Spec
CONSTANTS
  Runs = {r1}
  News <- TwoStories
  Headline <- Headlines
  Url <- Links
  Drafts <- Foreign
  NoKey = ""
  Slug <- SlugOf
  Matches <- Globs
  Near <- NearPairs
  Alike <- AlikePairs
  MaxPicks = 2
  Absent = Absent
  Torn = Torn
  LastDay = 0
INVARIANT RefusedForACause
