SPECIFICATION FairSpec
CONSTANTS
  p1 = p1  p2 = p2  p3 = p3
  d1 = d1  d2 = d2
  Pods = {p1, p2, p3}
  Nodes = {n1}
  Devices = {d1, d2}
  NoNode = NoNode
  NoPod = NoPod
  NoReservation = NoReservation
  Malformed = Malformed
  Annotated = {p1, p2, p3}
  Requested <- MCRequested
  Gang <- MCGang
  Combinations <- MCCombinations
INVARIANTS NoLeakedReservation FailClosedKeepsReservation FilterStillHolds
PROPERTIES LedgerIsExclusive ReservationsEnd
