\* A search, a store resolution and a resource read.  The pool has a connection
\* for each job of one slot and for the read, and none to spare.
SPECIFICATION FairSpec
CONSTANTS
  c1 = c1
  c2 = c2
  c3 = c3
  r1 = r1
  Calls = {c1, c2}
  Reads = {r1}
  Slots = 1
  Pool = 3
  Plan <- Mixed
  Faulty = {c1, c2}
  Hasty = {c1, c2}
INVARIANTS TypeOK ConnectionsPerCall EndsClean BurstStaysOffPool
PROPERTIES SlotComesBack OrphansDrain
