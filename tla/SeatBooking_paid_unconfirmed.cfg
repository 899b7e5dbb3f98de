SPECIFICATION Spec
CONSTANTS
    s1 = s1
    s2 = s2
    b1 = b1
    b2 = b2
    any = any
    Seats = {s1, s2}
    Bookings = {b1, b2}
    MaxPax = 2
    Genders = {any}
    Adjacent <- NoPairs
    NoSeat = NoSeat
    Free = Free
    HoldTTL = 1
    PayTTL = 1
    MaxTime = 2
    MaxVersion = 1
INVARIANT PaidInTimeIsConfirmed
CHECK_DEADLOCK FALSE
