SPECIFICATION FairSpec
CONSTANTS
  Name <- MCName
  TypeOf <- MCTypeOf
  Helped <- MCHelped
  Refused <- MCRefused
  Inf = Inf
  LabelName = {"method", "host", "__id"}
  LabelPart = {"", "a", "b", "x"}
  Worker = {w1, w2}
  Metric <- MCMetric
  Answer <- MCAnswer
INVARIANTS ScraperInv OneRound SeriesOnce SumsAreRight PanicNeedsOddFamily
PROPERTY ScraperStops
CHECK_DEADLOCK FALSE
