SPECIFICATION FairSpec
CONSTANTS
  alice = alice  bob = bob  w1 = w1  w2 = w2  web = web  batch = batch
  NoKey = NoKey
  Threads = {w1, w2}
  Keys = {alice, bob}
  Roles <- MCRoles
  Targets = {web}
  Cooled = {web}
  Inert = {}
  Configs <- SplitDuties
  MaxIds = 3
  MaxProcessed = 2
  MaxRuns = 2
  Faults = {}
INVARIANTS BurstBounded AccountedFor
PROPERTIES ResultDelivered EventuallyAudited
