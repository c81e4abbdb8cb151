SPECIFICATION Spec
CONSTANTS
  a1 = a1
  a2 = a2
  r1 = r1
  r2 = r2
  sweeper = sweeper
  nobody = nobody
  Nobody = nobody
  Sweeper = sweeper
  Convs <- One
  Agents = {a1, a2}
  Requests = {r1, r2}
  Calls = {"message", "accept", "assign", "handBack", "end"}
  MaxConcurrent = 1
  Batch = 1
  MaxCalls = 4
INVARIANT TypeOK
INVARIANT OwnerMatchesStatus
INVARIANT EndedIsReleased
INVARIANT AnswerIsHeard
SYMMETRY Alike
