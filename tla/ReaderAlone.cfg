\* One process, every way to construct its reader and every kind of request, two runs.
SPECIFICATION FairSpec
CONSTANTS
  r1 = r1  r2 = r2  run1 = run1  run2 = run2  t1 = t1  t2 = t2  t3 = t3  v1 = v1  a = a  b = b
  Values = {a, b}
  Blank = Blank
  NoDate = NoDate
  Runs = {run1, run2}
  Tokens = {t1, t2, t3}
  MaxScan = 1
  NoExecution = NoExecution
  Readers = {r1}
  Requests <- EdgeRequests
  Versions = {v1}
  Configs <- AllConfigs
  ApprovedScope <- MCApproved
  LastDay = 1
  SourceWindow <- MCWindow
  Sha256 <- MCSha256
  MaxRetries = 1
  MaxAttempts = 2
  MaxQueries = 2
  MaxCrashes = 1
  LoaderErrors = {"ATHENA_SCAN_CUTOFF", "unlisted text"}
  NoCall = NoCall  NoPlan = NoPlan  NoResult = NoResult  NoReturn = NoReturn  Raised = Raised
INVARIANTS OnlyApprovedQueries ReportIsTrue
PROPERTIES AnswerIsFinal EveryReadReturns
