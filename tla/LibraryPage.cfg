SPECIFICATION Spec
CONSTANTS
  Pieces = {p1, p2}
  Statuses = {learning, shelved}
  Titles = {t1}
  Blank = blank
  None = none
  Failed = failed
  Continued = p1
  Issued = 1
  MaxInputs = 4
  MaxFaults = 1
CHECK_DEADLOCK FALSE
INVARIANTS
  LatestStatusIsStored
  RowsMatchServer
  DetailsAreTheRowAskedFor
  TokenShownOnce
  DialogShowsTheToken
