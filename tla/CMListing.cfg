SPECIFICATION FairClientSpec
CONSTANTS
  BufferSize = 11
  MaxContent = 13
  PrefixLength = 4
  MinLength = 8
  MaxSplit = 5
  MaxAddress = 3
  Logins = {l1}
  List = list
  NoClient = NoClient
INVARIANTS
  ClientTypeOK
  BufferNotOverrun
  AddressAsSent
  AddressBeforeFlag
  ClientConfigured
  AddressNeedsClient
PROPERTIES
  Resolution
  Decides
CHECK_DEADLOCK FALSE
