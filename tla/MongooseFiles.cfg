CONSTANTS
  Workers = {w1, w2}
  Paths <- AllPaths
  InitialDirs <- AllDirs
  InitialFiles <- AllFiles
  Passwords = "p"
  HiddenNames = {"h"}
  IndexFiles <- IndexI
  CgiNames = {"c"}
  SsiNames = {"s"}
  Listing = TRUE
  DocumentRoot = TRUE
  PutPasswords = TRUE
  Mixes <- FileAndTree
SPECIFICATION FairSpec
INVARIANT FilesInv  HiddenStays
PROPERTY ChangesAuthorized Served
CHECK_DEADLOCK FALSE
