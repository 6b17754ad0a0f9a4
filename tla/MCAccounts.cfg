SPECIFICATION Accounts
CONSTANTS
  Scenes <- AllScenes
  Reqs = {1, 2, 3, 4}
  Nodes = {n1, n2}
  TokenTTL = 2
  FillTTL = 1
  FlowTTL = 1
  SessionTTL = 1
  WopiTTL = 1
  MaxDraw = 3
  Errands <- AllErrands
  ValidUids = {"ann", "bob", "root"}
  QuotaTop = 16
CHECK_DEADLOCK FALSE
INVARIANTS CredentialsWork ShutOut 
PROPERTIES ImplementsHandout 
