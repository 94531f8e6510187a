SPECIFICATION Spec
CONSTANTS
  None = None
  MaxLogin = 2
  MaxTurn = 1
  MaxData = 1
INVARIANTS
  ReauthReplacesSession
