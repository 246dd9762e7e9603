CONSTANTS
  Width = 2
  ManualValues <- MCManualValues
  Wait = 10
  MaxRequests = 2
  MaxSysPerRfic = 2

SPECIFICATION Spec

INVARIANT WriteLoadsMatch
INVARIANT ReadReturnsServed
