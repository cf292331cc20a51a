SPECIFICATION DeskSpec
CONSTANTS
  d1 = d1
  d2 = d2
  n1 = n1
  n2 = n2
  k1 = k1
  c1 = c1
  c2 = c2
  r1 = r1
  r2 = r2
  l1 = l1
  l2 = l2
  l3 = l3
  a1 = a1
  a2 = a2
  f1 = f1
  o1 = o1
  k2 = k2
  q1 = q1
  q2 = q2
  q3 = q3

  Dirs = {d1, d2}
  Home = d1
  Names = {n1, n2}
  SftpTasks = {k1}
  NoDir = NoDir
  MaxRequests = 2

  Ids = {c1}
  Refreshes = {r1, r2}
  NoId = NoId
  MaxMessages = 1

  Shown = {c1, c2}
  PollLoops = {l1, l2, l3}
  NotSelected = NotSelected

  Chunks <- MCChunks
  Inputs <- MCInputs
  MaxBytes = 8
  MaxKeys = 1
  MaxSent = 16
  Columns = {80, 300, 511}

  MaxSize = 2
  MaxRotated = 2
  MaxLines = 6

  Accounts = {a1, a2}
  Flows = {f1}
  Checks = {c1}
  SignOuts = {o1}
  NoAccount = NoAccount

  DirectConns = {c1}
  DirectCalls = {k1, k2}
  DirectClients = {q1, q2, q3}
  DirectOses = {"win32", "linux"}
  NotLaunched = NotLaunched
INVARIANTS
  DeskTypeOK
  EntriesOfPath
  ListingFresh
  StatusShown
  OwnShown
  RunningHasLoop
  TextRead
  ServerReads
  BufferedIsFlushed
  LogInOrder
  NoGapInFile
  SignInAnswered
  SignedOutStays
  DirectBacked
PROPERTIES
  SpinnerEnds
  FileLoopsEnd
  PollsEnd
  DirectSettles
CHECK_DEADLOCK FALSE
