\* Three requests, so that two can make a container each and a third use it.
SPECIFICATION Spec
CONSTANTS
  None = None
  Calls = {a, b, c}
  Settings <- SomeSettings
SYMMETRY Symmetry
INVARIANTS AuditedOnce OneDatabaseService
PROPERTY DoctorForetells
