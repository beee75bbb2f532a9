\* Two tables, the first in a historical schema; two are searched.
SPECIFICATION Spec
CONSTANTS
  None = None
  Tables = {1, 2}
  Historical = {1}
  MaxTargets = 2
  MaxRows = 2
  MaxCell = 4
  Marker = 1
  Budget = 8
  Limits <- AskedLimits
  Holdings <- Rows
  Personal = {2}
INVARIANTS BestSearched NoSilentMiss HonestCap StaleRowsMarked NoSilentPick
