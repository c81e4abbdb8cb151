SPECIFICATION Spec
CONSTANTS
  t1 = t1
  t2 = t2
  c1 = c1
  c2 = c2
  f1 = f1
  worker = worker
  none = none
  Threads <- OneThread
  Owner <- OwnedByT1
  NoConv = none
  Worker = worker
  MsgIds <- Two
  Kinds = {"user", "text"}
  Convs <- OneConv
  Flushers <- NoFlusher
  MaxAttempts = 5
  Batch = 1
  ScanLimit = 2
  SweepLimit = 1
  OverlappingSaves = FALSE
  AsyncProvider = FALSE
  Faults = {"channel"}
  MaxFaults = 2
INVARIANT InactiveIsNotTerminal
