CONSTANTS
  home = home  a = a  b = b  c = c  d = d  away = away  odd = odd
  Urls <- MCUrls
  Start = home
  InScope <- MCInScope
  Malformed <- MCMalformed
  MaxPages = 3
  MaxDepth = 2
  MaxSeeds = 2
  MaxLinks = 1
  MaxScripts = 1
  MaxFound = 1
SPECIFICATION Spec
INVARIANTS StaysInside BreadthFirst CrawlCloses
PROPERTIES CrawlEnds
