SPECIFICATION Spec
CONSTANTS
  MaxEdits = 2
  MaxRevision = 3
INVARIANTS
  SettledDraftIsSaved
  UnsavedChangeIsScheduled
  NothingSentAfterDiscard
  PublishedPdfMatchesManifest
CHECK_DEADLOCK FALSE
