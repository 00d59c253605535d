SPECIFICATION UpkeepSpec
CONSTANTS
    Days <- MCDays
    Minutes <- MCMinutes
    Schedules <- MCSchedules
    Staff = {s1}
    Readers = {r1}
    TicketIds <- UpkeepTicketIds
    Agents = {}
    MaxCreates = 1
    Consumers = {q1, q2}
    Admins = {a1}
    MaxVersions = 3
    Carriers = {d1, d2}
    MaxChanges = 4
INVARIANTS UpkeepTypeOK
PROPERTIES ScheduleKept CachesCatchUp StaleTicketsMove
CHECK_DEADLOCK FALSE
