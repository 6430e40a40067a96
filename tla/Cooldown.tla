------------------------------ MODULE Cooldown ------------------------------
(***************************************************************************)
(* src/cooldown.py: CooldownTracker remembers when each cooldown key last  *)
(* ran, in memory and in logs/cooldowns.json.  Every call holds the        *)
(* tracker's lock, so each is one action; when the key may run again is    *)
(* computed from the cooldown_seconds of the caller's configuration, which *)
(* is merged once per process (main.py:115-127).  Time is counted in ticks. *)
(***************************************************************************)
EXTENDS Integers

CONSTANTS
  Targets,     \* cooldown keys: (event_type, controller, dedup value)
  Never,       \* no record for the key
  Configs,     \* cooldown_seconds a start of the process may configure
  Retention,   \* MAX_COOLDOWN_RETENTION_SECONDS
  MaxTime,     \* bound: the clock stops here
  Faults       \* "crash": the process restarts; "disk": the file cannot be written

ASSUME TimeAssumption == Retention \in Nat /\ MaxTime \in Nat /\ Never \notin Int
ASSUME ConfigsAssumption ==
  /\ Configs \subseteq [Targets -> Nat]
  /\ Faults \subseteq {"crash", "disk"}

VARIABLES
  now,       \* time.time()
  seconds,   \* cooldown_seconds of each key's action
  lastRun,   \* _last_run
  file,      \* logs/cooldowns.json
  ran        \* history: when each key was really last recorded

vars == <<now, seconds, lastRun, file, ran>>

Times == 0 .. MaxTime
Records == [Targets -> Times \cup {Never}]

Init ==
  /\ now = 0
  /\ seconds \in Configs
  /\ lastRun = [t \in Targets |-> Never] /\ file = lastRun /\ ran = lastRun

(* _prune_locked: records older than the retention are dropped.            *)
Prune(records) ==
  [t \in Targets |-> IF records[t] # Never /\ records[t] < now - Retention
                     THEN Never ELSE records[t]]

(* seconds_remaining, with 0 for None.                                     *)
Remaining(t) ==
  IF lastRun[t] = Never \/ seconds[t] - (now - lastRun[t]) <= 0
  THEN 0 ELSE seconds[t] - (now - lastRun[t])

(* Mutant: the end of the cooldown is recorded instead of the attempt.     *)
RecordEnd(t) ==
  /\ lastRun' = Prune([lastRun EXCEPT ![t] = now + seconds[t]])
  /\ file' = lastRun'
  /\ ran' = [ran EXCEPT ![t] = now]
  /\ UNCHANGED <<now, seconds>>

(* record: a real attempt has just been made, whatever came of it.         *)
Record(t) ==
  /\ lastRun' = Prune([lastRun EXCEPT ![t] = now])
  /\ \/ file' = lastRun'
     \/ "disk" \in Faults /\ file' = file
  /\ ran' = [ran EXCEPT ![t] = now]
  /\ UNCHANGED <<now, seconds>>

(* Mutant: what was recorded before the crash is not loaded.               *)
RestartEmpty ==
  /\ "crash" \in Faults
  /\ lastRun' = [t \in Targets |-> Never]
  /\ seconds' \in Configs
  /\ UNCHANGED <<now, file, ran>>

(* The process starts again: _load, and actions are merged again.          *)
Restart ==
  /\ "crash" \in Faults
  /\ lastRun' = file
  /\ seconds' \in Configs
  /\ UNCHANGED <<now, file, ran>>

Tick ==
  /\ now < MaxTime
  /\ now' = now + 1
  /\ UNCHANGED <<seconds, lastRun, file, ran>>

Next == (\E t \in Targets : Record(t)) \/ Restart \/ Tick

Spec == Init /\ [][Next]_vars

-----------------------------------------------------------------------------
(* Records are times of the past (cooldown.py:32-37, 100-104).             *)
TypeOK ==
  /\ now \in Times /\ seconds \in Configs
  /\ lastRun \in Records /\ file \in Records /\ ran \in Records
  /\ \A t \in Targets : /\ lastRun[t] # Never => lastRun[t] <= now
                        /\ file[t] # Never => file[t] <= now
                        /\ ran[t] # Never => ran[t] <= now

Left(t) == IF ran[t] = Never \/ now - ran[t] >= seconds[t]
           THEN 0 ELSE seconds[t] - (now - ran[t])

(* A key is blocked exactly until cooldown_seconds, as configured now, have *)
(* passed since its last attempt: not shorter, over any pruning and any    *)
(* restart, and not longer (cooldown.py:20-30, 82-98).                     *)
ExactWindow == \A t \in Targets : Remaining(t) = Left(t)
=============================================================================
