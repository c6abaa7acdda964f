SPECIFICATION Spec
CONSTANTS
    t1 = t1
    t2 = t2
    a1 = a1
    a2 = a2
    u1 = u1
    Traders = {t1}
    Accounts = {a1}
    Users = {u1}
    Subs <- OneSub
    FollowerOf <- OneUser
    Tickets = {k1}
    ExternalIds = {x1, x2}
    Workers = {w1}
    MaxOpenTrades = 1
    SourceReusesTickets = FALSE
    NoTicket = NoTicket
    Paper = Paper
    MaxEvents = 2
    MaxAborts = 1
    MaxRequests = 4
INVARIANTS
    EventOnceAtBroker
