SPECIFICATION MCSpec
CONSTANTS
    Participants = {p1}
    Joiners = {j1}
    Messages <- MCMessages
    LastTime = 1
    PageSize = 1
    Talks <- MCTalks
    Clients = {c1}
    Orderer = c1
    Team = {m1}
    Helpers = {h1}
    Riders = {d1}
    Callers = {t1}
    MaxRows = 5
    MaxLeft = 2
    Limit = 2
    Span <- MCSpan
    Parties = {"driver"}
    Reporters = {r1, r2}
    Retention = 1
    MaxDay = 3
    MaxReports = 2
    Owners = {u1, u2}
    Tokens <- MCTokens
    BatchSize = 2
    News = {n1}
    Attempts = 2
INVARIANTS OfficeTypeOK PagesComplete DriverIsIn PeriodsAgree
PROPERTIES AnsweredNotResent
CHECK_DEADLOCK FALSE
