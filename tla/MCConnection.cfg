SPECIFICATION Spec
CONSTANTS
  Urls = {u1, u2}
  None = None
  MaxPeriod = 2
SYMMETRY UrlSymmetry
VIEW View
INVARIANTS
  AnswersThisRequest
  OpenStreamsAreCurrent
  CodeIsCurrent
  OneResponseShown
  HeaderListLive
