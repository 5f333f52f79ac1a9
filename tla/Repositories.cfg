SPECIFICATION StoreSpec
CONSTANTS
  Clients = {c1, c2}
  Ids = {1, 2}
  Vals = {1, 2}
  MaxCalls = 3
  NoRow = NoRow
INVARIANTS
  FakeAgrees
CHECK_DEADLOCK FALSE
