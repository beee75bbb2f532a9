\* The calls of DbFanout.cfg, without the read, and the slack of the real pool:
\* room for one fan-out more than the slot needs.
SPECIFICATION Spec
CONSTANTS
  c1 = c1
  c2 = c2
  c3 = c3
  r1 = r1
  Calls = {c1, c2, c3}
  Reads = {}
  Slots = 1
  Pool = 4
  Plan <- Mixed
  Faulty = {c1, c2, c3}
  Hasty = {}
INVARIANTS NoPoolQueueing
