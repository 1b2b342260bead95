CONSTANTS
  i1 = i1
  i2 = i2
  d1 = d1
  d2 = d2
  Items = {i1, i2}
  LruWorkers = {w1}
  Maintainer = maintainer
  Nobody = nobody
  Crawler = crawler
  HotLimit = 0
  WarmLimit = 0
  HotMaxAge = 3
  WarmMaxFactor = 2
  TempTtl = 0
  UpdateInterval = 1
  Word = 100
  Exptimes = {0, 1}
  Tries = 2
  JuggleLoops = 2
  BumpSize = 1
  MaxSleep = 1
  MaxTime = 2
  Starts <- SomeStarts
  Dumpers = {d1, d2}
  DumpLines = 1
  Hour = 1
  MaxWait = 1
  CrawlerThread = crawler_thread
  Pauser = pauser
SPECIFICATION LruThreadsFairSpec
INVARIANTS ListsWhole BumpsKept ClientReturned
PROPERTIES MaintainerWorks CrawlerWorks
CHECK_DEADLOCK FALSE
