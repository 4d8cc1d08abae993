SPECIFICATION FairSpec
CONSTANTS
  o1 = o1
  o2 = o2
  p1 = p1
  d1 = d1
  k1 = k1
  Owner = {o1}
  Piece = {p1}
  Draft = {d1}
  Key = {k1, k2, k3}
  Content = {c1}
  NoPiece = NoPiece
  NoDraft = NoDraft
  NoKey = NoKey
  Unsaved = Unsaved
  SourceBytes = SourceBytes
  Start = Start
  PieceOwner <- OneUserPieces
  DraftOwner <- OneUserDrafts
  LegacyPdf <- Legacy
  MaxOpenDrafts = 2
  BatchLimit = 3
  LateCommits = FALSE
  MaxFaults = 1
INVARIANTS
  NoForgottenObject
PROPERTIES
  GarbageReclaimed
  ImplementsLifecycle
CHECK_DEADLOCK FALSE
