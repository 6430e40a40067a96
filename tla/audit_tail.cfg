SPECIFICATION Spec
CONSTANTS
  MaxWrites = 3
  MaxTampers = 1
  Legacy = 1
  Retention = FALSE
  Faults = {}
INVARIANTS EveryTamperingShows
