SPECIFICATION FairSpec
CONSTANTS
  u1 = u1
  u2 = u2
  User = {u1, u2}
  Tours <- MCTours
  MaxFaults = 1
INVARIANTS TypeOK UserIsSession OffersAreUsers WardFits HistoryInOrder
PROPERTIES SaveChangesOnlyEdits LocationsSettle
