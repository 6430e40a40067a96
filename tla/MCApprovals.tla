----------------------------- MODULE MCApprovals -----------------------------
(* Instances of Approvals for TLC.                                         *)
EXTENDS Approvals, TLC

CONSTANTS alice, bob, w1, w2, web, batch

MCRoles == {"operator", "responder", "readonly", "none"}
MCGrants == [r \in MCRoles |->
  CASE r = "operator" -> {"execute_actions", "approve_actions"}
    [] r = "responder" -> {"execute_actions"}
    [] OTHER -> {}]

Conf(role, actions, controllers) ==
  [role |-> role, actions |-> actions, controllers |-> controllers]
Config(keys) == [keys |-> keys, grants |-> MCGrants]

(* Everyone is an operator with no restriction.                            *)
Unrestricted == [k \in Keys |-> Conf("operator", Targets, Targets)]
FixedConfig == {Config(Unrestricted)}

(* Duties are split: alice requests, everybody else decides.               *)
SplitDuties ==
  {Config([k \in Keys |-> IF k = alice THEN Conf("responder", Targets, Targets)
                          ELSE Conf("operator", {}, {})])}

(* alice's key may be narrowed in either dimension, demoted, or removed (an *)
(* unknown key: no role, and no restriction either), and operators may     *)
(* lose the permission to execute.                                         *)
AliceConfs == {Conf("operator", Targets, Targets),
               Conf("operator", {}, Targets), Conf("operator", Targets, {}),
               Conf("readonly", Targets, Targets), Conf("none", Targets, Targets)}
EditedConfigs ==
  {Config([Unrestricted EXCEPT ![alice] = c]) : c \in AliceConfs}
  \cup {[Config(Unrestricted) EXCEPT !.grants["operator"] = {"approve_actions"}]}

(* Of these, those in which alice's actions or her controllers are taken    *)
(* from her and given back.                                                *)
NarrowedConfigs == {c \in EditedConfigs : c.grants = MCGrants /\ c.keys[alice].role = "operator"}

Symmetric == Permutations(Threads)
=============================================================================
