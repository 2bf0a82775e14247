SPECIFICATION Spec
CONSTANTS
  h = h
  p = p
  Zero = Zero
  Clients = {h, p}
  Libraries <- Linked
  Requests <- Calls
  Addrs = {0, 1}
  MaxCalls <- CallLimit
  MaxDups = 1
INVARIANTS TypeOK OwnAnswer ReadYourWrites RelayNeverMixes EndCostsCall
PROPERTY BusSpec
CHECK_DEADLOCK FALSE
