SPECIFICATION LedgerSpec

CONSTANTS
  o1 = o1
  o2 = o2
  h1 = h1
  h2 = h2
  h3 = h3
  NoRecord = NoRecord
  NoLease = NoLease
  Owners <- MCOwners
  Handles <- MCHandles
  Orders <- MCOrders
  MaxAllocation = 2
  Capacity = 4
  TerminalCapacity = 1
  RetirementCapacity = 1
  MaxWord = 5
  MaxRequest = 3
  MaxClones = 2

INVARIANTS
  LedgerBalances
  OwnershipMatchesLeases

PROPERTIES
  ChargeOutlivesItsLeases
  

SYMMETRY Symmetry
