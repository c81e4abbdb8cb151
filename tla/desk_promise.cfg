SPECIFICATION Spec
CONSTANTS
  a1 = a1
  a2 = a2
  r1 = r1
  r2 = r2
  sweeper = sweeper
  nobody = nobody
  Nobody = nobody
  Sweeper = sweeper
  Convs <- One
  Agents = {a1}
  Requests = {r1}
  Calls = {"message", "escalate"}
  MaxConcurrent = 1
  Batch = 1
  MaxCalls = 3
INVARIANT PromiseOutlivesSweep
