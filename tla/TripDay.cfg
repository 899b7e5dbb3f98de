SPECIFICATION Spec
CONSTANTS
    p1 = p1
    p2 = p2
    p3 = p3
    b1 = b1
    b2 = b2
    d1 = d1
    Passengers = {p1, p2}
    Bookings = {b1}
    BookingOf <- Pair
    OfflineEvents <- BoardOffline
    MaxTickets = 2
    MaxVersion = 3
INVARIANTS TypeOK OneActiveTicket BoardedUsedATicket CancelledStaysAshore FinalManifestStands NoShowBookingIsAbsent
PROPERTIES DeniedIsNotNoShow AcceptedStaysAccepted
CHECK_DEADLOCK FALSE
CONSTRAINT Few
