\* Three callers on two slots; the third queues, and so does a caller that returns.
SPECIFICATION FairSpec
CONSTANTS
  Callers = {c1, c2, c3}
  Slots = 2
INVARIANTS TypeOK PermitsConserved NoLostWakeup
PROPERTIES FirstComeFirstServed IdleServiceAdmits RefinesAdmission EveryWaiterAnswered
