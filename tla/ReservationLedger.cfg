SPECIFICATION LedgerSpec
CONSTANTS
  Pods = {p1, p2, p3}
  Nodes = {n1, n2}
  Devices = {d1, d2, d3}
  NoPod = NoPod
  NoReservation = NoReservation
  Malformed = Malformed
INVARIANTS LedgerConsistent NoOverlap
PROPERTIES ReservationFixed LedgerRefinesOwnership
