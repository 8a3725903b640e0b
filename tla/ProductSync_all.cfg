SPECIFICATION MCSpec
CONSTANTS
  p1 = p1
  p2 = p2
  p3 = p3
  a = a
  b = b
  c = c
  w1 = w1
  w2 = w2
  r1 = r1
  r2 = r2
  Products = {p1, p2, p3}
  Workers = {w1, w2}
  Blank = Blank
  Nothing = Nothing
  Uploads = {r1, r2}
  Lists <- MCLists
  MediaBounds <- MCMediaBounds
  Scenarios <- MCScenarios
INVARIANTS NoOrphan QuietAgrees SourcesAreTrue
PROPERTIES OwnerKept SuccessIsShown
CHECK_DEADLOCK FALSE
