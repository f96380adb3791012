SPECIFICATION Spec
CONSTANTS
  t1 = t1
  t2 = t2
  t3 = t3
  A = A
  B = B
  eod = eod
  manual = manual
  Tasks = {t1, t2, t3}
  SymbolOf <- MCSymbolOf
  CallOf <- MCCallOf
  Forced = {t3}
  Concurrency = 2
  LastDay = 3
  Traded = {1, 2, 3}
  Held = {{2}, {1, 2, 3}}
  ChunkDays = 2
  MaxRetries = 3
  MaxTroubles = 3
INVARIANTS RevocationIsSurvived OneLoginPerEnding LogTellsTruth
