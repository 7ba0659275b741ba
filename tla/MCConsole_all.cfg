CONSTANTS
  n1 = n1
  d1 = d1
  Builds = {"vampire", "vampireclient"}
  Files = {n1, d1}
  DigitFile <- MCDigitFile
  Keys = {1, 12}
  Words <- MCWords
  KeywordsIn <- MCKeywordsIn
  Early <- MCEarly
  Blank = Blank
  OldRecords <- MCOldRecords
  ServerLists <- MCServerLists
  Handles = {h1}
  Garbage = Garbage
  MaxFaults = 1
  None = None
  MaxBufLen = 7
  MaxDataNum = 3
  MaxDataLen = 2
SPECIFICATION Spec
CHECK_DEADLOCK FALSE
INVARIANTS TypeOK OpenAsPrompted RecordsAsTold ShownAsSet SetIsReadable ListReceived
