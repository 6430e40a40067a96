-------------------------- MODULE AdmissionProofs --------------------------
(* The handlers of /webhook use the rate limiter as RateLimiter says, so    *)
(* its theorems hold of them; and whatever they hand over had passed every *)
(* gate.                                                                   *)
EXTENDS Admission, RateLimiterProofs

(* A call in progress asks for something, and has seen what is in force;    *)
(* what it has seen grants nothing to no role.                             *)
Shape(c) == c = [step |-> c.step, ask |-> c.ask, role |-> c.role, saw |-> c.saw]
Loaded ==
  /\ DOMAIN load = {"until", "slots", "requests", "changes", "configs"}
  /\ config \in load.configs
  /\ \A c \in load.configs : /\ "none" \notin DOMAIN c.grants
                            /\ \A k \in DOMAIN c.keys : c.keys[k].role \in Roles
Calling ==
  /\ call = [s \in Slots |-> call[s]]
  /\ \A s \in Slots :
       /\ Shape(call[s])
       /\ ~At(s, "idle") => Ask(s) \in Requests /\ config \in call[s].saw

(* The gates a call has passed when it waits at a step, each under          *)
(* something that was in force since it arrived.                           *)
Role(s) == \E c \in call[s].saw : call[s].role = Scope(c, Ask(s).key).role
Permission(s, p) == \E c \in call[s].saw : HasPermission(c, call[s].role, p)
ScopedAction(s) == \E c \in call[s].saw : ActionAllowed(c, Ask(s))
ScopedController(s) == \E c \in call[s].saw : ControllerAllowed(c, Ask(s))
Listed(s) == \E c \in call[s].saw : Ask(s).controller \in c.controllers

From(s, steps) == call[s].step \in steps
Gate(s) ==
  /\ From(s, {"role", "action", "override", "lookup", "controller", "admitted"}) => Role(s)
  /\ From(s, {"action", "override", "lookup", "controller", "admitted"}) =>
       Permission(s, "execute_actions") /\ call[s].role # "none"
  /\ From(s, {"override", "lookup", "controller", "admitted"}) => ScopedAction(s)
  /\ From(s, {"lookup", "controller", "admitted"}) =>
       (Ask(s).override => Permission(s, "controller_override"))
  /\ From(s, {"controller", "admitted"}) => Listed(s)
  /\ From(s, {"admitted"}) => ScopedController(s)

CallInv == Loaded /\ Calling /\ \A s \in Slots : Gate(s)

(* What a gate was passed under stays seen.                                *)
LEMMA GateStays ==
  ASSUME NEW s \in Slots, Gate(s), call'[s].step = call[s].step, call'[s].ask = call[s].ask,
         call'[s].role = call[s].role, call[s].saw \subseteq call'[s].saw
  PROVE  Gate(s)'
<1>1. /\ Role(s) => Role(s)'
      /\ Permission(s, "execute_actions") => Permission(s, "execute_actions")'
      /\ Permission(s, "controller_override") => Permission(s, "controller_override")'
      /\ ScopedAction(s) => ScopedAction(s)'
      /\ ScopedController(s) => ScopedController(s)'
      /\ Listed(s) => Listed(s)'
  BY DEF Role, Permission, ScopedAction, ScopedController, Listed, Ask
<1> QED BY <1>1 DEF Gate, From, Ask

(* A check lets one call go on, which keeps what it asked for and what it   *)
(* saw, or ends it.                                                        *)
Goes(s, next) == call' = [call EXCEPT ![s] = [@ EXCEPT !.step = next]]
Ends(s) == call' = [call EXCEPT ![s] = NoCall]

LEMMA GoesOn ==
  ASSUME Calling, NEW s \in Slots, ~At(s, "idle"), NEW next, Goes(s, next)
  PROVE  /\ call' = [u \in Slots |-> call'[u]] /\ \A u \in Slots \ {s} : call'[u] = call[u]
         /\ call'[s].step = next /\ call'[s].ask = call[s].ask
         /\ call'[s].role = call[s].role /\ call'[s].saw = call[s].saw
         /\ Shape(call'[s]) /\ config \in call[s].saw /\ Ask(s) \in Requests
<1>1. call = [u \in Slots |-> call[u]] /\ Shape(call[s]) /\ config \in call[s].saw
      /\ Ask(s) \in Requests
  BY DEF Calling
<1>2. /\ call' = [u \in Slots |-> call'[u]] /\ \A u \in Slots \ {s} : call'[u] = call[u]
      /\ call'[s] = [call[s] EXCEPT !.step = next]
  BY <1>1 DEF Goes
<1> QED BY <1>1, <1>2 DEF Shape

(* A check that takes its call through a gate keeps the invariant.          *)
LEMMA CheckKeeps ==
  ASSUME CallInv, NEW s \in Slots, ~At(s, "idle"), UNCHANGED <<vars, settings>>,
         Ends(s) \/ ((\E next : Goes(s, next)) /\ Gate(s)')
  PROVE  CallInv' /\ UNCHANGED vars
<1>0. /\ Loaded /\ Calling /\ call = [u \in Slots |-> call[u]]
      /\ UNCHANGED <<config, load, vars>>
  BY DEF CallInv, Calling, settings
<1>1. /\ call' = [u \in Slots |-> call'[u]] /\ \A u \in Slots \ {s} : call'[u] = call[u]
      /\ Gate(s)' /\ Shape(call'[s])
      /\ call'[s].step # "idle" => call'[s].ask \in Requests /\ config' \in call'[s].saw
  <2>1. CASE Ends(s)
    <3>1. /\ call' = [u \in Slots |-> call'[u]] /\ \A u \in Slots \ {s} : call'[u] = call[u]
          /\ call'[s] = NoCall
      BY <1>0, <2>1 DEF Ends
    <3> QED BY <3>1 DEF Gate, From, NoCall, Shape
  <2>2. CASE (\E next : Goes(s, next)) /\ Gate(s)'
    BY <1>0, <2>2, GoesOn DEF Ask
  <2> QED BY <2>1, <2>2
<1>2. ASSUME NEW u \in Slots \ {s}
      PROVE  Gate(u)' /\ Shape(call'[u]) /\ (call'[u].step # "idle" =>
                    call'[u].ask \in Requests /\ config' \in call'[u].saw)
  <2>1. Gate(u) /\ call'[u] = call[u] /\ u \in Slots
    BY <1>1 DEF CallInv
  <2> QED BY <1>0, <2>1, GateStays DEF Calling, At, Ask
<1>3. Calling'
  BY <1>1, <1>2 DEF Calling, At, Ask, Shape
<1>4. Loaded'
  BY <1>0 DEF Loaded
<1> QED BY <1>0, <1>1, <1>2, <1>3, <1>4 DEF CallInv

(* The handlers, one by one: each keeps the invariant, and does with the    *)
(* limiter what RateLimiter allows.                                        *)
LEMMA ArriveKeeps ==
  ASSUME CallInv, NEW s \in Slots, NEW r \in Requests, Arrive(s, r)
  PROVE  CallInv' /\ UNCHANGED vars
<1>1. /\ call = [u \in Slots |-> call[u]]
      /\ call' = [call EXCEPT ![s] = [NoCall EXCEPT !.step = "arrived", !.ask = r,
                                                    !.saw = {config}]]
      /\ UNCHANGED <<vars, settings>>
  BY DEF CallInv, Calling, Arrive
<1>2. /\ call' = [u \in Slots |-> call'[u]] /\ \A u \in Slots \ {s} : call'[u] = call[u]
      /\ call'[s] = [step |-> "arrived", ask |-> r, role |-> "none", saw |-> {config}]
  BY <1>1 DEF NoCall
<1>3. config' = config /\ load' = load
  BY <1>1 DEF settings
<1>4. ASSUME NEW u \in Slots
      PROVE  /\ Shape(call'[u]) /\ Gate(u)'
             /\ call'[u].step # "idle" => call'[u].ask \in Requests /\ config' \in call'[u].saw
  <2>1. CASE u = s
    BY <1>2, <1>3, <2>1 DEF Shape, Gate, From
  <2>2. CASE u # s
    <3>1. call'[u] = call[u]
      BY <1>2, <2>2
    <3> QED BY <1>3, <3>1, GateStays DEF CallInv, Calling, At, Ask
  <2> QED BY <2>1, <2>2
<1> QED BY <1>1, <1>2, <1>3, <1>4 DEF CallInv, Calling, Loaded, At, Ask, Shape

LEMMA ReconfigureKeeps ==
  ASSUME CallInv, Reconfigure PROVE CallInv' /\ UNCHANGED vars
<1>1. /\ config' \in load.configs /\ load' = [load EXCEPT !.changes = @ - 1] /\ UNCHANGED vars
      /\ call' = [s \in Slots |-> IF At(s, "idle") THEN call[s]
                                  ELSE [call[s] EXCEPT !.saw = @ \cup {config'}]]
  BY DEF Reconfigure
<1>2. DOMAIN load' = DOMAIN load /\ load'.configs = load.configs
  BY <1>1 DEF CallInv, Loaded
<1>3. Loaded'
  BY <1>1, <1>2 DEF CallInv, Loaded
<1>4. ASSUME NEW u \in Slots
      PROVE  /\ Shape(call'[u]) /\ Gate(u)'
             /\ call'[u].step # "idle" => call'[u].ask \in Requests /\ config' \in call'[u].saw
  <2>0. Shape(call[u]) /\ Gate(u) /\ (call[u].step # "idle" => call[u].ask \in Requests)
    BY DEF CallInv, Calling, At, Ask
  <2>1. CASE At(u, "idle")
    <3>1. call'[u] = call[u] /\ call[u].step = "idle"
      BY <1>1, <2>1 DEF At
    <3> QED BY <2>0, <3>1, GateStays
  <2>2. CASE ~At(u, "idle")
    <3>1. call'[u] = [step |-> call[u].step, ask |-> call[u].ask, role |-> call[u].role,
                      saw |-> call[u].saw \cup {config'}]
      BY <1>1, <2>0, <2>2 DEF Shape
    <3>2. /\ call'[u].step = call[u].step /\ call'[u].ask = call[u].ask
          /\ call'[u].role = call[u].role /\ call'[u].saw = call[u].saw \cup {config'}
      BY <3>1
    <3>3. Gate(u)'
      BY <2>0, <3>2, GateStays
    <3> QED BY <2>0, <3>1, <3>2, <3>3 DEF Shape
  <2> QED BY <2>1, <2>2
<1>5. call' = [s \in Slots |-> call'[s]]
  BY <1>1
<1>6. Calling'
  BY <1>4, <1>5 DEF Calling, At, Ask, Shape
<1> QED BY <1>1, <1>3, <1>4, <1>6 DEF CallInv

(* The limits are looked at for a caller who is a key of the limiter.       *)
LEMMA CheckRatesKeeps ==
  ASSUME CallInv, NEW s \in Slots, CheckRates(s)
  PROVE  CallInv' /\ Next
<1> DEFINE k == Ask(s).key
           a == Ask(s).action
<1>0. /\ Loaded /\ Calling /\ call = [u \in Slots |-> call[u]] /\ Shape(call[s])
      /\ Ask(s) \in Requests /\ config \in call[s].saw /\ call[s].step = "entered"
  BY DEF CallInv, Calling, CheckRates, At
<1>1. k \in Callers
  BY <1>0, RequestAssumption
<1>b. Scope(config, k).role \in Roles
  BY <1>0, RoleAssumption DEF Loaded, Scope, Known
<1>2. Next
  <2>1. PICK r \in Roles : r = Scope(config, k).role
    BY <1>b
  <2>2. \/ CallerRefused(k, r) \/ UnknownAction(k, r)
        \/ a \in Actions /\ (ActionRefused(k, a, r) \/ Admitted(k, a, r))
    BY <2>1 DEF CheckRates
  <2> QED BY <1>1, <2>2 DEF Next
<1>3. UNCHANGED <<config, load>>
  BY DEF CheckRates, settings
<1>4. /\ call' = [u \in Slots |-> call'[u]] /\ \A u \in Slots \ {s} : call'[u] = call[u]
      /\ \/ call'[s] = NoCall
         \/ call'[s] = [step |-> "role", ask |-> call[s].ask, role |-> Scope(config, k).role,
                        saw |-> call[s].saw]
  <2>1. CASE call' = [call EXCEPT ![s] = NoCall]
    BY <1>0, <2>1
  <2>2. CASE call' = [call EXCEPT ![s].step = "role", ![s].role = Scope(config, k).role]
    <3>1. /\ call' = [u \in Slots |-> call'[u]] /\ \A u \in Slots \ {s} : call'[u] = call[u]
          /\ call'[s] = [[call[s] EXCEPT !.step = "role"] EXCEPT !.role = Scope(config, k).role]
      BY <1>0, <2>2
    <3> QED BY <1>0, <3>1 DEF Shape
  <2> QED BY <2>1, <2>2 DEF CheckRates
<1>5. Gate(s)' /\ Shape(call'[s]) /\ (call'[s].step # "idle" =>
                    call'[s].ask \in Requests /\ config' \in call'[s].saw)
  <2>1. CASE call'[s] = NoCall
    BY <2>1 DEF Gate, From, NoCall, Shape
  <2>2. CASE call'[s] = [step |-> "role", ask |-> call[s].ask, role |-> Scope(config, k).role,
                         saw |-> call[s].saw]
    <3>1. /\ call'[s].step = "role" /\ call'[s].ask = call[s].ask
          /\ call'[s].role = Scope(config, Ask(s).key).role /\ call'[s].saw = call[s].saw
      BY <2>2
    <3>2. Role(s)'
      BY <1>0, <3>1 DEF Role, Ask
    <3>3. Gate(s)'
      BY <3>1, <3>2 DEF Gate, From
    <3> QED BY <1>0, <1>3, <2>2, <3>1, <3>3 DEF Shape, Ask
  <2> QED BY <1>4, <2>1, <2>2
<1>6. ASSUME NEW u \in Slots \ {s}
      PROVE  Gate(u)' /\ Shape(call'[u]) /\ (call'[u].step # "idle" =>
                    call'[u].ask \in Requests /\ config' \in call'[u].saw)
  <2>1. Gate(u) /\ call'[u] = call[u] /\ u \in Slots
    BY <1>4 DEF CallInv
  <2> QED BY <1>3, <2>1, GateStays DEF CallInv, Calling, At, Ask
<1>7. Calling'
  BY <1>4, <1>5, <1>6 DEF Calling, At, Ask, Shape
<1>8. Loaded'
  BY <1>0, <1>3 DEF Loaded
<1> QED BY <1>2, <1>5, <1>6, <1>7, <1>8 DEF CallInv

LEMMA StepCalls ==
  ASSUME CallInv, [CallNext]_callVars
  PROVE  CallInv' /\ [Next]_vars
<1>0. /\ Calling /\ \A s \in Slots : Gate(s)
      /\ \A c \in load.configs : "none" \notin DOMAIN c.grants
      /\ config \in load.configs
  BY DEF CallInv, Loaded
<1>1. ASSUME NEW s \in Slots, Authenticate(s) PROVE CallInv' /\ UNCHANGED vars
  <2>1. /\ At(s, "arrived") /\ ~At(s, "idle") /\ UNCHANGED <<vars, settings>>
        /\ Ends(s) \/ (Goes(s, "entered") /\ Known(config, Ask(s).key))
    BY <1>1 DEF Authenticate, Check, At, Goes, Ends
  <2>2. ASSUME Goes(s, "entered"), Known(config, Ask(s).key)
        PROVE  Gate(s)'
    <3>1. /\ call'[s].step = "entered" /\ call'[s].ask = call[s].ask
          /\ call'[s].role = call[s].role /\ call'[s].saw = call[s].saw
          /\ config \in call[s].saw /\ Gate(s) /\ call[s].step = "arrived"
      BY <1>0, <2>1, <2>2, GoesOn DEF At
    <3> QED BY <3>1 DEF Gate, From
  <2> QED BY <2>1, <2>2, CheckKeeps
<1>2. ASSUME NEW s \in Slots, CheckRole(s) PROVE CallInv' /\ UNCHANGED vars
  <2>1. /\ At(s, "role") /\ ~At(s, "idle") /\ UNCHANGED <<vars, settings>>
        /\ Ends(s) \/ (Goes(s, "action") /\ HasPermission(config, call[s].role, "execute_actions"))
    BY <1>2 DEF CheckRole, Check, At, Goes, Ends
  <2>2. ASSUME Goes(s, "action"), HasPermission(config, call[s].role, "execute_actions")
        PROVE  Gate(s)'
    <3>1. /\ call'[s].step = "action" /\ call'[s].ask = call[s].ask
          /\ call'[s].role = call[s].role /\ call'[s].saw = call[s].saw
          /\ config \in call[s].saw /\ Gate(s) /\ call[s].step = "role"
      BY <1>0, <2>1, <2>2, GoesOn DEF At
    <3>2. Role(s)' /\ Permission(s, "execute_actions")'
      BY <2>2, <3>1 DEF Gate, From, Role, Permission, Ask
    <3>3. call'[s].role # "none"
      BY <1>0, <2>2, <3>1 DEF HasPermission
    <3> QED BY <3>1, <3>2, <3>3 DEF Gate, From
  <2> QED BY <2>1, <2>2, CheckKeeps
<1>3. ASSUME NEW s \in Slots, CheckAction(s) PROVE CallInv' /\ UNCHANGED vars
  <2>1. /\ At(s, "action") /\ ~At(s, "idle") /\ UNCHANGED <<vars, settings>>
        /\ Ends(s) \/ (Goes(s, "override") /\ ActionAllowed(config, Ask(s)))
    BY <1>3 DEF CheckAction, Check, At, Goes, Ends
  <2>2. ASSUME Goes(s, "override"), ActionAllowed(config, Ask(s))
        PROVE  Gate(s)'
    <3>1. /\ call'[s].step = "override" /\ call'[s].ask = call[s].ask
          /\ call'[s].role = call[s].role /\ call'[s].saw = call[s].saw
          /\ config \in call[s].saw /\ Gate(s) /\ call[s].step = "action"
      BY <1>0, <2>1, <2>2, GoesOn DEF At
    <3>2. ScopedAction(s)'
      BY <2>2, <3>1 DEF ScopedAction, Ask
    <3>3. Role(s)' /\ Permission(s, "execute_actions")' /\ call'[s].role # "none"
      BY <3>1 DEF Gate, From, Role, Permission, Ask
    <3> QED BY <3>1, <3>2, <3>3 DEF Gate, From, Ask
  <2> QED BY <2>1, <2>2, CheckKeeps
<1>4. ASSUME NEW s \in Slots, CheckOverride(s) PROVE CallInv' /\ UNCHANGED vars
  <2>1. /\ At(s, "override") /\ ~At(s, "idle") /\ UNCHANGED <<vars, settings>>
        /\ Ends(s) \/ (Goes(s, "lookup") /\ (Ask(s).override => HasPermission(config, call[s].role, "controller_override")))
    BY <1>4 DEF CheckOverride, Check, At, Goes, Ends
  <2>2. ASSUME Goes(s, "lookup"), (Ask(s).override => HasPermission(config, call[s].role, "controller_override"))
        PROVE  Gate(s)'
    <3>1. /\ call'[s].step = "lookup" /\ call'[s].ask = call[s].ask
          /\ call'[s].role = call[s].role /\ call'[s].saw = call[s].saw
          /\ config \in call[s].saw /\ Gate(s) /\ call[s].step = "override"
      BY <1>0, <2>1, <2>2, GoesOn DEF At
    <3>2. Ask(s).override => Permission(s, "controller_override")'
      BY <2>2, <3>1 DEF Permission, Ask
    <3>3. Role(s)' /\ Permission(s, "execute_actions")' /\ call'[s].role # "none"
      BY <3>1 DEF Gate, From, Role, Permission, Ask
    <3>4. ScopedAction(s)'
      BY <3>1 DEF Gate, From, Permission, ScopedAction, Ask
    <3> QED BY <3>1, <3>2, <3>3, <3>4 DEF Gate, From, Ask
  <2> QED BY <2>1, <2>2, CheckKeeps
<1>5. ASSUME NEW s \in Slots, LookUpController(s) PROVE CallInv' /\ UNCHANGED vars
  <2>1. /\ At(s, "lookup") /\ ~At(s, "idle") /\ UNCHANGED <<vars, settings>>
        /\ Ends(s) \/ (Goes(s, "controller") /\ Ask(s).controller \in config.controllers)
    BY <1>5 DEF LookUpController, Check, At, Goes, Ends
  <2>2. ASSUME Goes(s, "controller"), Ask(s).controller \in config.controllers
        PROVE  Gate(s)'
    <3>1. /\ call'[s].step = "controller" /\ call'[s].ask = call[s].ask
          /\ call'[s].role = call[s].role /\ call'[s].saw = call[s].saw
          /\ config \in call[s].saw /\ Gate(s) /\ call[s].step = "lookup"
      BY <1>0, <2>1, <2>2, GoesOn DEF At
    <3>2. Listed(s)'
      BY <2>2, <3>1 DEF Listed, Ask
    <3>3. Role(s)' /\ Permission(s, "execute_actions")' /\ call'[s].role # "none"
      BY <3>1 DEF Gate, From, Role, Permission, Ask
    <3>4. ScopedAction(s)' /\ (Ask(s).override => Permission(s, "controller_override")')
      BY <3>1 DEF Gate, From, Permission, ScopedAction, Ask
    <3> QED BY <3>1, <3>2, <3>3, <3>4 DEF Gate, From, Ask
  <2> QED BY <2>1, <2>2, CheckKeeps
<1>6. ASSUME NEW s \in Slots, CheckController(s) PROVE CallInv' /\ UNCHANGED vars
  <2>1. /\ At(s, "controller") /\ ~At(s, "idle") /\ UNCHANGED <<vars, settings>>
        /\ Ends(s) \/ (Goes(s, "admitted") /\ ControllerAllowed(config, Ask(s)))
    BY <1>6 DEF CheckController, Check, At, Goes, Ends
  <2>2. ASSUME Goes(s, "admitted"), ControllerAllowed(config, Ask(s))
        PROVE  Gate(s)'
    <3>1. /\ call'[s].step = "admitted" /\ call'[s].ask = call[s].ask
          /\ call'[s].role = call[s].role /\ call'[s].saw = call[s].saw
          /\ config \in call[s].saw /\ Gate(s) /\ call[s].step = "controller"
      BY <1>0, <2>1, <2>2, GoesOn DEF At
    <3>2. ScopedController(s)'
      BY <2>2, <3>1 DEF ScopedController, Ask
    <3>3. Role(s)' /\ Permission(s, "execute_actions")' /\ call'[s].role # "none"
      BY <3>1 DEF Gate, From, Role, Permission, Ask
    <3>4. ScopedAction(s)' /\ (Ask(s).override => Permission(s, "controller_override")') /\ Listed(s)'
      BY <3>1 DEF Gate, From, Permission, ScopedAction, Listed, Ask
    <3> QED BY <3>1, <3>2, <3>3, <3>4 DEF Gate, From, Ask
  <2> QED BY <2>1, <2>2, CheckKeeps
<1>7. ASSUME NEW s \in Slots, HandOver(s) PROVE CallInv' /\ UNCHANGED vars
  <2>1. ~At(s, "idle") /\ UNCHANGED <<vars, settings>> /\ Ends(s)
    BY <1>7 DEF HandOver, Check, At, Ends
  <2> QED BY <2>1, CheckKeeps
<1>8. ASSUME NEW s \in Slots, NEW r \in Requests, Arrive(s, r) PROVE CallInv' /\ UNCHANGED vars
  BY <1>8, ArriveKeeps
<1>9. ASSUME NEW s \in Slots, CheckRates(s) PROVE CallInv' /\ Next
  BY <1>9, CheckRatesKeeps
<1>10. ASSUME Reconfigure PROVE CallInv' /\ UNCHANGED vars
  BY <1>10, ReconfigureKeeps
<1>11. ASSUME UNCHANGED <<call, config, load>> PROVE CallInv'
  <2>1. \A s \in Slots : Gate(s)'
    BY <1>0, <1>11, GateStays
  <2>2. Loaded' /\ Calling'
    BY <1>11 DEF CallInv, Loaded, Calling, At, Ask, Shape
  <2> QED BY <2>1, <2>2 DEF CallInv
<1>12. ASSUME TimePasses PROVE CallInv' /\ Next
  BY <1>11, <1>12 DEF TimePasses, settings, Next
<1>13. ASSUME UNCHANGED callVars PROVE CallInv' /\ UNCHANGED vars
  BY <1>11, <1>13 DEF callVars
<1> QED BY <1>1, <1>2, <1>3, <1>4, <1>5, <1>6, <1>7, <1>8, <1>9, <1>10, <1>12, <1>13 DEF CallNext

LEMMA InitCalls == CallInit => CallInv /\ Init
BY LoadAssumption, RoleAssumption DEF CallInit, CallInv, Loaded, Calling, Shape, NoCall, Gate, From, At

LEMMA CallInvariant == CallSpec => []CallInv
<1>1. CallInv /\ [CallNext]_callVars => CallInv'
  BY StepCalls
<1> QED BY <1>1, InitCalls, PTL DEF CallSpec

(* However the checks of several calls interleave, with each other, with    *)
(* time and with changes of the configuration, the limiter behaves as      *)
(* RateLimiter says (main.py:428-460).                                     *)
THEOREM HandlersImplementLimiter == CallSpec => Spec
<1>1. CallInv /\ [CallNext]_callVars => [Next]_vars
  BY StepCalls
<1> QED BY <1>1, InitCalls, CallInvariant, PTL DEF CallSpec, Spec

(* So no caller exceeds the limit of the role the handler read for its last *)
(* call, though the role may change from call to call, and no action its   *)
(* own; and what refused callers are told is what RateLimiter says         *)
(* (ratelimit.py:68-90, main.py:428-460).                                  *)
THEOREM HandlersKeepLimits == CallSpec => [](LimitHolds /\ RefusedOnlyWhenFull /\ RetryAfterHonest)
BY HandlersImplementLimiter, LimitsHold, RefusalsAreFree, RetryAfterIsHonest, PTL

(* What is handed over had passed every gate, each under something that was *)
(* in force while the call was handled; the scopes are those of a key that *)
(* was there all the time: one that is gone when they are read has none,   *)
(* and nothing is claimed of it (auth.py:51-134, main.py:430-495).         *)
THEOREM GatesHoldForKnownKeys == CallSpec => []AdmittedWasAllowed
<1>1. CallInv => AdmittedWasAllowed
  <2> SUFFICES ASSUME CallInv, NEW s \in Slots, At(s, "admitted")
               PROVE  LET r == Ask(s) IN
                      /\ \E c \in call[s].saw : Known(c, r.key) /\ c.keys[r.key].role = call[s].role
                      /\ \E c \in call[s].saw : HasPermission(c, call[s].role, "execute_actions")
                      /\ r.override => \E c \in call[s].saw :
                                         HasPermission(c, call[s].role, "controller_override")
                      /\ \E c \in call[s].saw : r.controller \in c.controllers
                      /\ (\A c \in call[s].saw : Known(c, r.key)) =>
                           /\ \E c \in call[s].saw :
                                Known(c, r.key) /\ Within(c.keys[r.key].actions, r.action)
                           /\ \E c \in call[s].saw :
                                Known(c, r.key) /\ Within(c.keys[r.key].controllers, r.controller)
    BY DEF AdmittedWasAllowed, Once, InScope
  <2>1. /\ Role(s) /\ Permission(s, "execute_actions") /\ call[s].role # "none"
        /\ ScopedAction(s) /\ Listed(s) /\ ScopedController(s)
        /\ Ask(s).override => Permission(s, "controller_override")
    BY DEF CallInv, Gate, From, At
  <2>2. \E c \in call[s].saw : Known(c, Ask(s).key) /\ c.keys[Ask(s).key].role = call[s].role
    BY <2>1 DEF Role, Scope
  <2>3. ASSUME \A c \in call[s].saw : Known(c, Ask(s).key)
        PROVE  /\ \E c \in call[s].saw :
                    Known(c, Ask(s).key) /\ Within(c.keys[Ask(s).key].actions, Ask(s).action)
               /\ \E c \in call[s].saw :
                    Known(c, Ask(s).key) /\ Within(c.keys[Ask(s).key].controllers, Ask(s).controller)
    BY <2>1, <2>3 DEF ScopedAction, ScopedController, ActionAllowed, ControllerAllowed, Scope
  <2> QED BY <2>1, <2>2, <2>3 DEF Permission, Listed
<1> QED BY <1>1, CallInvariant, PTL
=============================================================================
