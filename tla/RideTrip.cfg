SPECIFICATION FairSpec
CONSTANTS
    Partners = {p1, p2}
    Handlers = {h1, h2}
    Fares = {1}
    Prorated = 10
    Nobody = nobody
INVARIANTS BeatenNeverWins DriverHoldsOffer FeeWasDue
PROPERTIES SearchEnds TripSpec
CHECK_DEADLOCK FALSE
