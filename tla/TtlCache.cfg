\* Two callers look up the same thing on two databases; the TTL may change.
SPECIFICATION Spec
CONSTANTS
  Callers = {c1, c2}
  Databases = {d1, d2}
  Lookups = {tables}
  Ttls = {1, 3}
  MaxSize = 1
  MaxLoad = 2
  Horizon = 5
INVARIANTS TypeOK OwnDatabase
PROPERTIES FreshEnough GoesBackOneLoad
