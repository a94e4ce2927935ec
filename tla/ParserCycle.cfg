\* Three profiles, registers of 8 bits that move at any moment of a cycle, a request that fails.
SPECIFICATION Spec
CONSTANTS
  None = None
  Bits = 8
  Places = 1
  Profiles <- const_profiles
  Parameters <- const_parameters
  Memory <- const_memory
  Moving <- const_moving
  Runtimes = {6, 7, 10}
  MaxChanges = 3
  MaxFailures = 1
INVARIANTS
  TypeOK
  RequestsCover
  ReadingsTrue
  DeliveredValid
  DueDelivered
  UnitsAreNumbers
PROPERTIES
  NoSpike
