----------------------------- MODULE MCCooldown -----------------------------
(* An instance of Cooldown for TLC.                                        *)
EXTENDS Cooldown, TLC

CONSTANTS web, batch

(* Cooldowns up to the retention; a restart may lengthen or shorten them.   *)
ShortConfigs == [Targets -> {0, 2, Retention}]
=============================================================================
