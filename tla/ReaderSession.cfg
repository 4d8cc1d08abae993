SPECIFICATION FairSession
CONSTANTS
  Readers = {1}
  Pages = {1, 2}
  MaxPublish = 2
  StrayKeys = TRUE
  MaxGeneration = 5
INVARIANTS
  PlaceSeenInCurrentPdf
  SettledReaderIsSaved
  LockOnlyForScore
  LockForScore
PROPERTIES
  MovementsAreSavedByCheckpoint
CHECK_DEADLOCK FALSE
