SPECIFICATION TokenSpec
CONSTANTS
  Nobody = Nobody
  Callers = {realm, client}
INVARIANTS
  TokenTypeOK
  RetryGetsANewToken
PROPERTIES
  GoodTokenStays
  EveryRequestReturns
CHECK_DEADLOCK FALSE
