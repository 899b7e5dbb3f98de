SPECIFICATION Spec
CONSTANTS
    s1 = s1
    s2 = s2
    b1 = b1
    b2 = b2
    any = female
    Seats = {s1, s2}
    Bookings = {b1, b2}
    MaxPax = 2
    Genders = {female, male}
    Adjacent <- Row
    NoSeat = NoSeat
    Free = Free
    HoldTTL = 1
    PayTTL = 1
    MaxTime = 2
    MaxVersion = 2
INVARIANTS TypeOK NoDoubleSale OneActiveHoldPerSeat LiveBookingIsSeated UnservedMoneyHasACase
PROPERTIES LateMoneyNeverRevives HoldBrokenOnlyByRestore GenderConflictOnlyByRestore ImplementsSeatSale
CONSTRAINT Small
SYMMETRY SeatSymmetry
CHECK_DEADLOCK FALSE
