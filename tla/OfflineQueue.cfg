SPECIFICATION FairSpec
CONSTANTS
    j = j
    w = w
    p = p
    u = u
    e1 = e1
    e2 = e2
    None = None
    Creates = {j, w}
    Photos = {p}
    Updates = {u}
    Edits = {e1}
    Parent <- TicketOnly
    Body <- AllInOne
    Keyed = {j}
    Left = {u}
    Fixable = {j, u}
    Screens = {s1}
    Limit = 2
    MaxFaults = 2
INVARIANTS TypeOK NothingVanishes ParentsFirst
PROPERTY EveryRowSettles
