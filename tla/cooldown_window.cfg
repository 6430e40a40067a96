SPECIFICATION Spec
CONSTANTS
  web = web  batch = batch
  Targets = {web, batch}
  Never = Never
  Configs <- ShortConfigs
  Retention = 3
  MaxTime = 8
  Faults = {"crash"}
INVARIANTS TypeOK ExactWindow
