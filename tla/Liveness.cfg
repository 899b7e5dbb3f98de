SPECIFICATION FairSpec
CONSTRAINT Scope
PROPERTIES HoldsEnd UnpaidSeatsComeBack EventsAreHandled NoShowsAreMarked
CHECK_DEADLOCK FALSE
