--------------------------- MODULE CooldownProofs ---------------------------
(* What the cooldown tracker guarantees for every set of keys, every        *)
(* configuration and every retention.                                      *)
EXTENDS Cooldown, TLAPS

LEMMA PruneType ==
  ASSUME NEW r \in Records, now \in Times
  PROVE  /\ Prune(r) \in Records
         /\ \A t \in Targets :
              /\ Prune(r)[t] \in {r[t], Never}
              /\ Prune(r)[t] # r[t] => r[t] # Never /\ now - r[t] > Retention
BY TimeAssumption DEF Prune, Records, Times

LEMMA InitType == Init => TypeOK
BY TimeAssumption DEF Init, TypeOK, Records, Times

LEMMA StepType == TypeOK /\ [Next]_vars => TypeOK'
<1> SUFFICES ASSUME TypeOK, [Next]_vars PROVE TypeOK'
  OBVIOUS
<1> USE TimeAssumption DEF Times
<1>1. ASSUME NEW t \in Targets, Record(t) PROVE TypeOK'
  <2> DEFINE r == [lastRun EXCEPT ![t] = now]
  <2>1. r \in Records /\ now \in Times
    BY DEF TypeOK, Records
  <2>2. \A u \in Targets : r[u] # Never => r[u] <= now
    BY DEF TypeOK, Records
  <2>3. lastRun' \in Records /\ \A u \in Targets : lastRun'[u] # Never => lastRun'[u] <= now
    <3>1. lastRun' = Prune(r)
      BY <1>1 DEF Record
    <3> HIDE DEF r
    <3> QED BY <2>1, <2>2, <3>1, PruneType
  <2>4. ran' \in Records /\ \A u \in Targets : ran'[u] # Never => ran'[u] <= now
    BY <1>1 DEF Record, TypeOK, Records
  <2> QED BY <1>1, <2>3, <2>4 DEF Record, TypeOK
<1>2. CASE Restart
  BY <1>2 DEF Restart, TypeOK
<1>3. CASE Tick
  <2>1. now' \in Times /\ now <= now' /\ now \in Int /\ now' \in Int
    BY <1>3 DEF Tick, TypeOK
  <2>2. \A r \in Records : \A t \in Targets :
          r[t] # Never /\ r[t] <= now => r[t] <= now'
    BY <2>1 DEF Records
  <2> QED BY <1>3, <2>1, <2>2 DEF Tick, TypeOK
<1>4. CASE UNCHANGED vars
  BY <1>4 DEF vars, TypeOK
<1> QED BY <1>1, <1>2, <1>3, <1>4 DEF Next

(* The tracker's variables keep their types (cooldown.py:32-37).           *)
THEOREM TypeCorrect == Spec => []TypeOK
<1> QED BY InitType, StepType, PTL DEF Spec

-----------------------------------------------------------------------------
(* Memory and file hold the last attempt of every key, except attempts      *)
(* older than the retention, which may be gone.                            *)
Remembered ==
  /\ file = lastRun
  /\ \A t \in Targets :
       \/ lastRun[t] = ran[t]
       \/ lastRun[t] = Never /\ ran[t] # Never /\ now - ran[t] > Retention

LEMMA StepRemembered ==
  ASSUME "disk" \notin Faults, TypeOK, Remembered, [Next]_vars
  PROVE  Remembered'
<1> USE TimeAssumption DEF Times
<1>1. ASSUME NEW t \in Targets, Record(t) PROVE Remembered'
  <2> DEFINE r == [lastRun EXCEPT ![t] = now]
  <2>1. r \in Records /\ now \in Times /\ r[t] = now
        /\ \A u \in Targets \ {t} : r[u] = lastRun[u]
    BY DEF TypeOK, Records
  <2>2. lastRun' = Prune(r) /\ file' = lastRun' /\ now' = now
    BY <1>1 DEF Record
  <2>3. ran'[t] = now /\ \A u \in Targets \ {t} : ran'[u] = ran[u]
    BY <1>1 DEF Record, TypeOK, Records
  <2> HIDE DEF r
  <2>4. lastRun'[t] = now
    <3>1. ~(now - r[t] > Retention)
      BY <2>1
    <3> QED BY <2>1, <2>2, <3>1, PruneType
  <2>5. ASSUME NEW u \in Targets \ {t}
        PROVE  \/ lastRun'[u] = ran'[u]
               \/ lastRun'[u] = Never /\ ran'[u] # Never /\ now - ran'[u] > Retention
    BY <2>1, <2>2, <2>3, PruneType DEF Remembered
  <2> QED BY <2>2, <2>3, <2>4, <2>5 DEF Remembered
<1>2. CASE Restart
  BY <1>2 DEF Restart, Remembered
<1>3. CASE Tick
  BY <1>3 DEF Tick, Remembered, TypeOK, Records
<1>4. CASE UNCHANGED vars
  BY <1>4 DEF vars, Remembered
<1> QED BY <1>1, <1>2, <1>3, <1>4 DEF Next

(* If no configured cooldown is longer than the retention and the file can  *)
(* be written, a key is blocked for exactly its cooldown_seconds after its *)
(* last attempt, over restarts (cooldown.py:20-30).                        *)
THEOREM WindowIsExact ==
  ASSUME "disk" \notin Faults,
         \A c \in Configs : \A t \in Targets : c[t] <= Retention
  PROVE  Spec => []ExactWindow
<1>1. Init => TypeOK /\ Remembered
  BY InitType DEF Init, Remembered
<1>2. TypeOK /\ Remembered /\ [Next]_vars => TypeOK' /\ Remembered'
  BY StepType, StepRemembered
<1>3. TypeOK /\ Remembered => ExactWindow
  <2> SUFFICES ASSUME TypeOK, Remembered, NEW t \in Targets PROVE Remaining(t) = Left(t)
    BY DEF ExactWindow
  <2>1. /\ now \in Int /\ seconds[t] \in Nat /\ seconds[t] <= Retention
        /\ ran[t] # Never => ran[t] \in Int
    BY TimeAssumption, ConfigsAssumption DEF TypeOK, Records, Times
  <2>2. CASE lastRun[t] = ran[t]
    BY <2>1, <2>2, TimeAssumption DEF Remaining, Left
  <2>3. CASE lastRun[t] = Never /\ ran[t] # Never /\ now - ran[t] > Retention
    BY <2>1, <2>3, TimeAssumption DEF Remaining, Left
  <2> QED BY <2>2, <2>3 DEF Remembered
<1> QED BY <1>1, <1>2, <1>3, PTL DEF Spec
=============================================================================
