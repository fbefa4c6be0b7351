SPECIFICATION Spec
CONSTANTS
    j = j
    w = w
    p = p
    u = u
    e1 = e1
    e2 = e2
    None = None
    Creates = {}
    Photos = {}
    Updates = {u}
    Edits = {e1}
    Parent <- TicketOnly
    Body <- AllInOne
    Keyed = {}
    Left = {u}
    Fixable = {u}
    Screens = {s1}
    Limit = 2
    MaxFaults = 2
INVARIANT EditsKept
