SPECIFICATION FairSpec
CONSTANTS
  tab1 = tab1
  tab2 = tab2
  celery = celery
  t1 = t1
  t2 = t2
  t3 = t3
  Webs <- MCWebs
  Workers <- MCWorkers
  Tokens <- MCTokens
  MaxRetries = 1
  MaxFaults = 2
INVARIANTS AcceptedIsProtected BuildKeepsFullLease
PROPERTIES SupersededBeginsNoBuild PollingEndsWithSnapshot
CHECK_DEADLOCK FALSE
