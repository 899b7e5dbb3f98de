SPECIFICATION MCSpec
CONSTANTS
    Focuses = {"refunds"}
    People = {"a1", "a2", "b1"}
    PartyOf <- PartyOfEach
    Gender <- GenderOfEach
    Families <- KeptTogether
    Vehicles = {"v1", "v2", "v3"}
    Codes = {"c1", "c2", "c3"}
    SeatsOf <- SeatsIn
    Neighbours <- NeighboursIn
    MaxInventory = 2
    MaxTripVersion = 2
    Travellers = {"t1", "t2"}
    Fare = 2
    Percents = {0, 50, 100}
    Sales = {"e1", "d1"}
    Electronic = {"e1"}
    Periods = {"q1", "q2"}
    EarnedIn <- EarnedInEach
    Gross <- ThreeOfEach
    Cut <- OneOfEach
    Disputed <- OneOfEach
    Trips = {"t1", "t2"}
    Fleet = {"b1", "b2"}
    Crew = {"k1"}
    Layouts = {"l1", "l2"}
    Clients = {"u1"}
    NoDriver = "none"
    SeatCount <- SeatsOfLayouts
    Slots = {1, 2, 3}
    Turnaround = 2
    Material = 2
    MaxVersion = 6
    Lessees = {"o1"}
    Plans = {"p1", "p2"}
    Custom = {"p2"}
    FirstPrice <- FirstPriceOf
    Prices = {0}
    MaxRows = 2
    Cases = {"c1", "c2"}
    Requests = {"r1", "r2", "r3", "r4"}
    Unscoped = {"k2"}
    Key <- KeyOf
    Body <- BodyOf
    Changes = {"v1", "v2", "v3"}
    Admins = {"u1", "u2"}
    Horizon = 3
    Staff = {"w1", "w2"}
    Sanctions = {"g1"}
    Deposits = {"a1", "a2"}
    MaxCase = 2
    Events = {"e1", "e2", "e3"}
    Meaning <- MeaningOf
    Unknown = {"e3"}
    ByMail = {"k1", "k2"}
    Reachable = {"k1"}
    MaxAttempts = 2
    MaxSent = 1
INVARIANT CancelledWithItsRefunds
CONSTRAINT Small
CHECK_DEADLOCK FALSE
