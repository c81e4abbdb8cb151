CONSTANTS
    c1 = c1
    c2 = c2
    a1 = a1
    a2 = a2
    t1 = t1
    t2 = t2
    Topics = {t1, t2}
    Convs = {c1, c2}
    Agents = {a1, a2}
    Managers = {a1}
    Leads = {a2}
    NoAgent = NoAgent
    MaxEvents = 3
    SweepBatch = 2
    TranscriptCap = 2
    AppendCap = 1
    Audiences <- MCAudiences
    Setups <- MCSetups
SPECIFICATION FairSpec
INVARIANT TypeOK
INVARIANT OneAlarm
INVARIANT QueuedIsPaged
INVARIANT FirstPageStandsDown
INVARIANT RemindedOnce
INVARIANT TimelineBalances
INVARIANT NothingUntold
INVARIANT ReplyOnce
INVARIANT NewTicketAfterClose
INVARIANT DocumentsAccounted
PROPERTY LegalMoves
PROPERTY DecidedStays
PROPERTY EscalationRings
PROPERTY EscalationOpensIssue
PROPERTY EscalationReachesHelpdesk
PROPERTY ResolutionProposed
CHECK_DEADLOCK FALSE
