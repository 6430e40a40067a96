----------------------------- MODULE MCAdmission -----------------------------
(* An instance of Admission for TLC: a busy time with nothing changing, in  *)
(* which the limits are reached; one in which roles, and so limits, change; *)
(* and a moment in which the configuration changes under the calls.        *)
EXTENDS Admission, TLC

CONSTANTS alice, bob, restart, drain, typo, ctl, other

(* An operator may call twice in a window, the others once; restart is      *)
(* limited to two calls over all callers, drain is not limited.            *)
MCRoleLimits == [admin |-> 1, operator |-> 2, readonly |-> 1, none |-> 1]
MCActionLimits == restart :> 2 @@ drain :> 0

Entry(role, actions, controllers) ==
  [role |-> role, actions |-> actions, controllers |-> controllers]
MCGrants == [operator |-> {"execute_actions"}, readonly |-> {},
             admin |-> {"execute_actions", "controller_override"}]
Config(keys, controllers) ==
  [keys |-> keys, grants |-> MCGrants, controllers |-> controllers]

Open == Config(alice :> Entry("admin", Anything, Anything)
                 @@ bob :> Entry("operator", Anything, {ctl}), {ctl, other})

(* Scopes are narrowed and moved, a key loses its role or goes, a           *)
(* controller goes, Vault cannot be reached.                               *)
MCConfigs ==
  { Open,
    Config(alice :> Entry("admin", {restart}, {other})
             @@ bob :> Entry("readonly", Anything, Anything), {ctl, other}),
    Config(alice :> Entry("operator", {drain}, {ctl}), {ctl}),
    Config(<<>>, {ctl, other}) }

Asking(k, a, c, o) == [key |-> k, action |-> a, controller |-> c, override |-> o]
Busy == { Asking(alice, restart, ctl, FALSE), Asking(bob, restart, ctl, FALSE),
          Asking(alice, drain, ctl, FALSE), Asking(bob, typo, ctl, FALSE) }
Varied == { Asking(alice, restart, other, TRUE), Asking(alice, restart, ctl, FALSE),
            Asking(alice, drain, ctl, FALSE), Asking(bob, restart, other, TRUE) }
MCRequests == Busy \cup Varied

(* The key of alice is an operator's, read-only, an admin's, gone.          *)
Promoted(role) == Config(alice :> Entry(role, Anything, Anything), {ctl})
RoleConfigs == {Promoted("admin"), Promoted("operator"), Promoted("readonly"), Config(<<>>, {ctl})}

OnlyRoles ==
  [until |-> 6, slots |-> 1, requests |-> {Asking(alice, drain, ctl, FALSE)},
   changes |-> 3, configs |-> RoleConfigs]

(* The key of alice is confined to restart; then Vault cannot be reached.   *)
OnlyScope ==
  [until |-> 0, slots |-> 2, requests |-> {Asking(alice, drain, ctl, FALSE)}, changes |-> 1,
   configs |-> {Config(alice :> Entry("admin", {restart}, {ctl}), {ctl}), Config(<<>>, {ctl})}]

MCLoads ==
  { [until |-> 6, slots |-> 1, requests |-> Busy, changes |-> 0, configs |-> {Open}],
    OnlyRoles,
    [until |-> 0, slots |-> 2, requests |-> Varied, changes |-> 2, configs |-> MCConfigs] }

ScopeLoads == {OnlyScope}
=============================================================================
