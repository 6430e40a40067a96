SPECIFICATION Spec
CONSTANTS
  alice = alice  bob = bob  w1 = w1  w2 = w2  web = web  batch = batch
  NoKey = NoKey
  Threads = {w1, w2}
  Keys = {alice, bob}
  Roles <- MCRoles
  Targets = {web}
  Cooled = {web}
  Inert = {}
  Configs <- FixedConfig
  MaxIds = 2
  MaxProcessed = 2
  MaxRuns = 2
  Faults = {}
INVARIANTS OncePerWindow
