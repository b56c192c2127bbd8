SPECIFICATION Spec
CONSTANTS
  Customers = {acme}
  Folders = {d1, d2}
  NoFolder = NoFolder
  Calls = {m1, m2}
  MaxId = 2
  StaleSteps = 1
  MaxFaults = 2
INVARIANTS GrantsInv OpenBound
PROPERTIES OutcomeStays EveryRequestEnds
