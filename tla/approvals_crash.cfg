SPECIFICATION Spec
CONSTANTS
  alice = alice  bob = bob  w1 = w1  w2 = w2  web = web  batch = batch
  NoKey = NoKey
  Threads = {w1, w2}
  Keys = {alice, bob}
  Roles <- MCRoles
  Targets = {web, batch}
  Cooled = {web}
  Inert = {batch}
  Configs <- NarrowedConfigs
  MaxIds = 2
  MaxProcessed = 1
  MaxRuns = 2
  Faults = {"crash", "audit", "raise"}
SYMMETRY Symmetric
INVARIANTS TypeOK SoleClaimant AtMostOnce ExecutedWasApproved DiskIsCurrent AuditTruthful HistoryBounded
PROPERTIES DecisionStands PendingKept ReCheckIsCurrent ImplementsWorkflow
