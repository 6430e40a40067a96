SPECIFICATION CallSpec
CONSTANTS
  alice = alice  bob = bob  restart = restart  drain = drain  typo = typo
  ctl = ctl  other = other  Anything = Anything 
  Callers = {alice, bob}
  Actions = {restart, drain}
  Roles = {"admin", "operator", "readonly", "none"}
  RoleLimits <- MCRoleLimits
  ActionLimits <- MCActionLimits
  Slots = {1, 2}
  Requests <- MCRequests
  Loads <- ScopeLoads
  Window = 3
  Floor = 2
  Second = 4
  MaxTime = 6
INVARIANTS ScopeEnforced
CHECK_DEADLOCK FALSE
