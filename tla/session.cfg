SPECIFICATION FairSpec
CONSTANTS
  None = None
  MaxLogin = 3
  MaxTurn = 1
  MaxData = 2
INVARIANTS
  TypeOK
  LoginOnDisk
  NewestSessionKept
PROPERTIES
  StoredDataKept
  StoredLoginKept
  ExpiredSessionAsksForLogin
