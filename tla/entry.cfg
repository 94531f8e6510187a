SPECIFICATION Spec
CONSTANTS
  home = home
  cabin = cabin
  heat = heat
  volume = volume
  water = water
  e1 = e1
  e2 = e2
  f1 = f1
  f2 = f2
  Entry <- TwoEntries
  Form <- TwoForms
  Account <- TwoAccounts
  Added <- AddedAccounts
  Streams <- AccountStreams
  None = None
SYMMETRY Symmetry
INVARIANTS
  TypeOK
  OneEntryPerAccount
  StoreHoldsOwnAccount
  RemovalDeletesFile
  NoOrphanRows
