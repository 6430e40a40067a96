------------------------------ MODULE Admission ------------------------------
(***************************************************************************)
(* Who may have an action executed: the middleware (src/auth.py) and the   *)
(* checks of /webhook up to its parameters (main.py:415-501).  Every check *)
(* reads config/auth.yaml, the keys in Vault if they are kept there, or    *)
(* config/controllers.yaml again, so these may change between two checks   *)
(* of one call.  The handler has no await after it has read the body: on   *)
(* the event loop one call's checks exclude another's, but a call may wait *)
(* between the middleware and its handler.                                 *)
(***************************************************************************)
EXTENDS RateLimiter

CONSTANTS
  Slots,       \* calls in progress, numbered
  Requests,    \* what may be asked: [key, action, controller, override]
  Anything,    \* no scope is configured for a key
  Loads        \* what is asked, how long the clock runs, how many calls at once,
               \* how often the files and Vault change, and what they may hold:
               \* [keys, grants, controllers]

(* Any key may be sent; the role of a key that is not there is None, which  *)
(* no file grants anything.                                                *)
ASSUME RequestAssumption == \A r \in Requests : r.key \in Callers
ASSUME RoleAssumption ==
  /\ "none" \in Roles
  /\ \A l \in Loads : \A c \in l.configs : \A k \in DOMAIN c.keys : c.keys[k].role \in Roles
ASSUME LoadAssumption ==
  \A l \in Loads :
    /\ DOMAIN l = {"until", "slots", "requests", "changes", "configs"}
    /\ \A c \in l.configs : "none" \notin DOMAIN c.grants

VARIABLES
  config,      \* what the files and Vault say now
  call,        \* the calls in progress
  load         \* of Loads; counts the changes still to come

settings == <<config, load>>
callVars == <<vars, config, call, load>>

(* saw: history, what was in force at some time since the call arrived.    *)
NoCall == [step |-> "idle", ask |-> <<>>, role |-> "none", saw |-> {}]

CallInit ==
  /\ Init
  /\ load \in Loads
  /\ config \in load.configs
  /\ call = [s \in Slots |-> NoCall]

-----------------------------------------------------------------------------
Known(c, k) == k \in DOMAIN c.keys

(* get_key_scope: a key that is not (or no longer) there has no role, and   *)
(* no scope either.  The map is empty while Vault is unavailable.          *)
Scope(c, k) == IF Known(c, k) THEN c.keys[k]
               ELSE [role |-> "none", actions |-> Anything, controllers |-> Anything]

HasPermission(c, role, p) == role \in DOMAIN c.grants /\ p \in c.grants[role]

Within(scope, x) == scope = Anything \/ x \in scope
ActionAllowed(c, r) == Within(Scope(c, r.key).actions, r.action)
ControllerAllowed(c, r) == Within(Scope(c, r.key).controllers, r.controller)

-----------------------------------------------------------------------------
At(s, step) == call[s].step = step
Ask(s) == call[s].ask
LoopFree == \A s \in Slots : call[s].step \in {"idle", "arrived", "entered"}

(* A check: the call goes on to the next step, or is answered.             *)
Check(s, step, passed, next) ==
  /\ At(s, step)
  /\ call' = [call EXCEPT ![s] = IF passed THEN [@ EXCEPT !.step = next] ELSE NoCall]
  /\ UNCHANGED <<vars, settings>>

Arrive(s, r) ==
  /\ At(s, "idle") /\ s <= load.slots /\ r \in load.requests
  /\ call' = [call EXCEPT ![s] = [NoCall EXCEPT !.step = "arrived", !.ask = r,
                                                !.saw = {config}]]
  /\ UNCHANGED <<vars, settings>>

(* The middleware: 401 for a key that is not there.                        *)
Authenticate(s) ==
  /\ LoopFree
  /\ Check(s, "arrived", Known(config, Ask(s).key), "entered")

(* The handler reads the role of the key and checks both rate limits, that  *)
(* of the role and that of the action, in between looking the action up.   *)
CheckRates(s) ==
  LET k == Ask(s).key  a == Ask(s).action  r == Scope(config, k).role IN
  /\ At(s, "entered") /\ LoopFree
  /\ \/ /\ CallerRefused(k, r)
        /\ call' = [call EXCEPT ![s] = NoCall]
     \/ /\ a \notin Actions /\ UnknownAction(k, r)
        /\ call' = [call EXCEPT ![s] = NoCall]
     \/ /\ a \in Actions /\ ActionRefused(k, a, r)
        /\ call' = [call EXCEPT ![s] = NoCall]
     \/ /\ a \in Actions /\ Admitted(k, a, r)
        /\ call' = [call EXCEPT ![s].step = "role", ![s].role = r]
  /\ UNCHANGED settings

CheckRole(s) ==
  Check(s, "role", HasPermission(config, call[s].role, "execute_actions"), "action")

CheckAction(s) == Check(s, "action", ActionAllowed(config, Ask(s)), "override")

(* Only an explicit controller needs the permission to override.           *)
CheckOverride(s) ==
  Check(s, "override",
        Ask(s).override => HasPermission(config, call[s].role, "controller_override"),
        "lookup")

LookUpController(s) ==
  Check(s, "lookup", Ask(s).controller \in config.controllers, "controller")

(* Mutant: the scope of the key is only looked at for an override.         *)
CheckOverridesOnly(s) ==
  Check(s, "controller", Ask(s).override => ControllerAllowed(config, Ask(s)), "admitted")

CheckController(s) ==
  Check(s, "controller", ControllerAllowed(config, Ask(s)), "admitted")

(* The call goes on as Remediation or Approvals describe.                  *)
HandOver(s) == Check(s, "admitted", FALSE, "idle")

(* Somebody edits the files; a secret changes, or Vault comes and goes.    *)
Reconfigure ==
  /\ load.changes > 0
  /\ config' \in load.configs \ {config}
  /\ load' = [load EXCEPT !.changes = @ - 1]
  /\ call' = [s \in Slots |-> IF At(s, "idle") THEN call[s]
                              ELSE [call[s] EXCEPT !.saw = @ \cup {config'}]]
  /\ UNCHANGED vars

(* Nothing in the middle of a handler reads the clock after the limits, so  *)
(* it is enough to let time pass while the loop is free.                   *)
TimePasses ==
  /\ now < load.until /\ LoopFree
  /\ Tick
  /\ UNCHANGED <<call, settings>>

CallNext ==
  \/ \E s \in Slots :
       \/ \E r \in Requests : Arrive(s, r)
       \/ Authenticate(s) \/ CheckRates(s) \/ CheckRole(s) \/ CheckAction(s)
       \/ CheckOverride(s) \/ LookUpController(s) \/ CheckController(s) \/ HandOver(s)
  \/ Reconfigure \/ TimePasses

CallSpec == CallInit /\ [][CallNext]_callVars

-----------------------------------------------------------------------------
Once(s, Gate(_)) == \E c \in call[s].saw : Gate(c)

InScope(s) ==
  LET r == Ask(s) IN
  /\ Once(s, LAMBDA c : Known(c, r.key) /\ Within(c.keys[r.key].actions, r.action))
  /\ Once(s, LAMBDA c : Known(c, r.key) /\ Within(c.keys[r.key].controllers, r.controller))

(* A call that was admitted had passed every gate, each under something     *)
(* that was in force while it was handled: its key was known and had the   *)
(* role the call was given, the role allowed it, and the controller was    *)
(* there; and the scope of the key covered action and controller, but that *)
(* only of a key that was there all the time (ScopeEnforced says it of     *)
(* any).  The gates may have been passed under different configurations    *)
(* (auth.py:51-134, main.py:430-495).                                      *)
AdmittedWasAllowed ==
  \A s \in Slots : At(s, "admitted") =>
    LET r == Ask(s) IN
    /\ Once(s, LAMBDA c : Known(c, r.key) /\ c.keys[r.key].role = call[s].role)
    /\ Once(s, LAMBDA c : HasPermission(c, call[s].role, "execute_actions"))
    /\ r.override =>
         Once(s, LAMBDA c : HasPermission(c, call[s].role, "controller_override"))
    /\ Once(s, LAMBDA c : r.controller \in c.controllers)
    /\ (\A c \in call[s].saw : Known(c, r.key)) => InScope(s)

(* Whatever happens to a key while its call is handled, the call is not     *)
(* admitted outside the scope the key had: a lookup that fails, fails      *)
(* closed, and a key that is not there was rejected before (auth.py:31-35, *)
(* 81-83; violated: auth.py:88-93, and main.py:473, 493 read it again).    *)
ScopeEnforced == \A s \in Slots : At(s, "admitted") => InScope(s)
=============================================================================
