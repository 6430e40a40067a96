SPECIFICATION Spec
CONSTANTS
  MaxWrites = 5
  MaxTampers = 1
  Legacy = 1
  Retention = TRUE
  Faults = {"io"}
CONSTRAINT OneTrouble
INVARIANTS TypeOK UntouchedVerifies NoBoundaryInside TamperEvident InterruptionCostsOne InOrder RotationRecorded
