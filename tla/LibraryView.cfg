SPECIFICATION Spec
CONSTANTS
  Accounts = {a1, a2}
  Parts = {show, sort}
  Values = {dflt, other}
  Default = dflt
  Unknown = unknown
  None = none
  MaxInputs = 4
  MaxFaults = 1
SYMMETRY Symmetry
CHECK_DEADLOCK FALSE
INVARIANTS
  LastChoiceIsStored
  ReloadKeepsView
  SearchStaysWithAccount
