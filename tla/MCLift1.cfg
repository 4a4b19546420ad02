SPECIFICATION MCSpec
CONSTANTS
  Tries = 2
  MaxOrders = 2
  MaxFaults = 1
INVARIANTS TypeOK OneArrivalEach
PROPERTIES ReadyIsFresh ArrivalSeen OrderAnswered
CHECK_DEADLOCK FALSE
