SPECIFICATION AccessSpec
CONSTANTS
    Users = {"ann", "bob"}
    Spaces = {1, 2}
    Tokens = {"t1"}
    Keys = {"k1", "k2"}
    Handlers = {1, 2}
    MaxRequests = 4
    Nobody = Nobody
    Calls = {1, 2, 3}
    Minutes = {1, 2}
    RateLimit = 2
    Openers = {"a", "b"}
    MaxRestarts = 1
    Customers = {"w1", "w2"}
    Prices = {"pro", "team"}
    Subscriptions = {1, 2}
    Checkouts = {"h1", "h2"}
    Unset = Unset
    Installs = {1, 2}
    Repos = {"r1"}
    Changes = {"c1", "c2"}
    Guids = {"g1", "g2"}
    Choices = {"r1", "r2"}
    NoInstall = NoInstall
    MaxChanges = 3
    MaxStops = 1
INVARIANTS
    TypeOK
    MembersGetIn
    
    GateIsTight
    ActiveAsPriced
    
CHECK_DEADLOCK FALSE
