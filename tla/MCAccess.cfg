SPECIFICATION MCSpec
CONSTANTS
    Accounts <- MCAccounts
    Sids <- MCSids
    Threads = {t1, t2}
    Codes <- MCCodes
    MaxOtpAttempts = 2
    Askers = {a1, a2, a3}
    Vendors = {v1}
    Members = {u1, u2}
    Removals = {r1, r2}
    TicketIds <- MCTicketIds
    Agents = {g1, g2}
    MaxCreates = 1
SYMMETRY MCSymmetry
INVARIANTS AccessTypeOK RevokedSessionsEnd CodesHold
PROPERTY MembersKept
CHECK_DEADLOCK FALSE
