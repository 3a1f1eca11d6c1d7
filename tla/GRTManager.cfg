\* Three functions, one of which throws; three timers of two clients, one of
\* which keeps the address of a timer that has ended.
CONSTANTS
    t1 = t1
    t2 = t2
    t3 = t3
    Tasks = {t1, t2, t3}
    Throwers = {t3}
    Nothing = Nothing
    NoTask = NoTask
    a1 = a1
    a2 = a2
    a3 = a3
    Addresses = {a1, a2, a3}
    NoAddress = NoAddress
    c1 = c1
    c2 = c2
    Clients = {c1, c2}
    StaleClients = {c2}
    Interval <- Intervals
    MaxTimers = 3
    MaxLate = 1
SPECIFICATION SpecBoth
INVARIANTS
    NothingLost
    ListIsSound
    CancelledIsGone
PROPERTIES
    ImplementsOneShots
    
    
