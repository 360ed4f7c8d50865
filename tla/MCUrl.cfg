SPECIFICATION UrlSpec
CONSTANTS
  short = short
  long = long
  Urls = {short, long}
  UrlLength <- MCLength
  NUL = NUL
  MinGrow = 2
  MaxBuffer = 10
INVARIANTS
  UrlKept
