SPECIFICATION Spec
CONSTANTS
  o1 = o1
  o2 = o2
  p1 = p1
  d1 = d1
  k1 = k1
  Owner = {o1, o2}
  Piece = {p1, p2}
  Draft = {d1, d2}
  Key = {k1, k2, k3}
  Content = {c1}
  NoPiece = NoPiece
  NoDraft = NoDraft
  NoKey = NoKey
  Unsaved = Unsaved
  SourceBytes = SourceBytes
  Start = Start
  PieceOwner <- TwoUserPieces
  DraftOwner <- TwoUserDrafts
  LegacyPdf <- Legacy
  MaxOpenDrafts = 2
  BatchLimit = 3
  LateCommits = FALSE
  MaxFaults = 0
SYMMETRY FreshKeys
INVARIANTS
  SourcesRetained
  SourcesStayPrivate
CHECK_DEADLOCK FALSE
