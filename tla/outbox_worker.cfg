SPECIFICATION FairSpec
CONSTANTS
  t1 = t1
  t2 = t2
  c1 = c1
  c2 = c2
  f1 = f1
  worker = worker
  none = none
  Threads <- TwoThreads
  Owner <- OneEach
  NoConv = none
  Worker = worker
  MsgIds <- Two
  Kinds = {"user", "text", "file"}
  Convs <- TwoConvs
  Flushers <- NoFlusher
  MaxAttempts = 2
  Batch = 1
  ScanLimit = 1
  SweepLimit = 1
  OverlappingSaves = FALSE
  AsyncProvider = TRUE
  Faults = {"rebind", "reply"}
  MaxFaults = 1
INVARIANT TypeOK
INVARIANT NeverTwice
INVARIANT SentIsProven
INVARIANT NothingPassedOver
PROPERTY FinalStaysFinal
PROPERTY EveryReplyQueued
PROPERTY EveryRowSettles
