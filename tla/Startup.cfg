SPECIFICATION Spec
CONSTANTS
  Callers = {c1}
  Layouts <- MCLayouts
  FirstWord <- MCFirstWord
  FoundSets <- MCFound
  TokenLengths = {0, 127, 128, 1023}
  FieldSize <- MCFieldSize
INVARIANTS
  TypeOK
  TocReady
  HooksCallable
  ToldTheTruth
  PromptServed
  AddressesRebuilt
  MessageSized
PROPERTIES
  HooksAtomically
  CallsReturn
CHECK_DEADLOCK FALSE
