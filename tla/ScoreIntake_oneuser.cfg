SPECIFICATION Spec
CONSTANTS
  o1 = o1
  o2 = o2
  p1 = p1
  d1 = d1
  k1 = k1
  Owner = {o1}
  Piece = {p1}
  Draft = {d1, d2}
  Key = {k1, k2, k3}
  Content = {c1, c2}
  NoPiece = NoPiece
  NoDraft = NoDraft
  NoKey = NoKey
  Unsaved = Unsaved
  SourceBytes = SourceBytes
  Start = Start
  PieceOwner <- OneUserPieces
  DraftOwner <- OneUserDrafts
  LegacyPdf <- Legacy
  MaxOpenDrafts = 2
  BatchLimit = 3
  LateCommits = FALSE
  MaxFaults = 0
SYMMETRY OneUserIds
INVARIANTS
  TypeOK
  ReferencedObjectsExist
  PlaceBelongsToPdf
PROPERTIES
  PublishConsumesDraft
  PublishReplacesItsBase
CHECK_DEADLOCK FALSE
