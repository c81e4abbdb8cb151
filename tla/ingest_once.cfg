SPECIFICATION FairSpec
CONSTANTS
  tick = tick
  other = other
  Tick = tick
  Handlers = {tick, other}
  Setups <- Situations
  MaxMsgs = 2
INVARIANT TypeOK
INVARIANT Accounted
INVARIANT AtMostOnce
INVARIANT NoticeBeforeAnswer
INVARIANT PagedOnce
INVARIANT OneConversation
INVARIANT NobodyForgotten
PROPERTY WrittenComesIn
CHECK_DEADLOCK FALSE
