SPECIFICATION SDKSpec
CONSTANTS
  Callers = {c1, c2}
  FileCalls <- MCCalls
  Entries <- MCEntries
  Leaf <- MCLeaf
  SafeDirs = {"safe", "srv", "tree", "new"}
  ParentOf <- MCParentOf
  Protected = {"etc"}
  Surface <- MCSurface
  Credential = "cred"
  Rejected = {"bad"}
  KnownOwners = {"root", "app"}
  MaxFileCalls = 1
  MaxFaults = 2
  MaxCrashes = 1
  PkgCallers = {c1, c2}
  PkgCalls <- MCPkgCalls
  Names = {"a", "b"}
  Latest = 3
  LocalVersion = 1
  Hosts <- MCHosts
  MaxPkgCalls = 1
  MaxPkgFaults = 2
INVARIANTS FilesWhole CredentialsKept
PROPERTIES FailedCallsKeepTarget ProtectedKept AnswersTrue PinsSettle
CHECK_DEADLOCK FALSE
