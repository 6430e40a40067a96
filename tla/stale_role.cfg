SPECIFICATION Spec
CONSTANTS
  alice = alice  bob = bob  w1 = w1  w2 = w2  web = web  batch = batch
  NoKey = NoKey
  Threads = {w1}
  Keys = {alice, bob}
  Roles <- MCRoles
  Targets = {web}
  Cooled = {}
  Inert = {}
  Configs <- EditedConfigs
  MaxIds = 1
  MaxProcessed = 1
  MaxRuns = 2
  Faults = {}
PROPERTIES RequesterStillPermitted
